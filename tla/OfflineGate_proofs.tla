-------------------------- MODULE OfflineGate_proofs --------------------------
(***************************************************************************)
(* What the offline queue promises, for any number of gates, passes and    *)
(* scans. The queue's invariants need one fact that no run states: the     *)
(* answers a reconcile request has collected so far are those on the       *)
(* server's log. The card's needs to know whose each entry is. That a scan *)
(* is verified once needs that and that no gate decides itself what the    *)
(* server decides too.                                                     *)
(***************************************************************************)
EXTENDS OfflineGate, FiniteSetTheorems, TLAPS

\* A verification under way is that of a scan.
ScanOnRecord == \A g \in Gates : scan[g].phase # "idle" => scan[g].scan \in Scans

\* An answer on its way to the gate is the verdict on record.
AnswersAreLogged ==
    \A g \in Gates, s \in Scans :
        request[g].answers[s] # "none" => request[g].answers[s] = log[s]

IInv == /\ TypeOK /\ ScanOnRecord
        /\ OnRecord /\ ReconciledOnce /\ RefusalIsShown /\ AnswersAreLogged

--------------------------------------------------------------------------------
(* The records that stand for nothing are well formed.                     *)

LEMMA NothingTyped ==
    /\ NoScan \in Verifications
    /\ NoCard \in Cards
    /\ NoEntry \in Entries
    /\ NoRequest \in Requests
    /\ NoScan.phase = "idle"
    /\ NoRequest.answers = [s \in Scans |-> "none"]
<1>1. (CHOOSE p \in Passes : TRUE) \in Passes /\ (CHOOSE g \in Gates : TRUE) \in Gates
  BY GateAssumption
<1> QED
  BY <1>1 DEF NoScan, NoCard, NoEntry, NoRequest, Verifications, Cards, Entries, Requests,
              Phases, Codes, Moments

\* The server's verdict is one of the verdicts, and a verified pass a pass.
LEMMA VerdictTyped ==
    ASSUME NEW p \in [status : Statuses, inside : Nat], NEW at \in Moments
    PROVE  /\ GateVerdict(p, at) \in Verdicts /\ GateVerdict(p, at) # "none"
           /\ AfterScan(p, at) \in [status : Statuses, inside : Nat]
<1>1. GateVerdict(p, at) \in Verdicts /\ GateVerdict(p, at) # "none"
  BY DEF GateVerdict, Verdicts, LetThrough, Statuses, Moments
<1>2. AfterScan(p, at) \in [status : Statuses, inside : Nat]
  BY <1>1 DEF AfterScan, Verdicts, LetThrough, Statuses
<1> QED
  BY <1>1, <1>2

\* Verifying a scan as it is made leaves the log and the queue's count alone;
\* verifying one from the queue counts it once, with its verdict.
LEMMA VerifiedTyped ==
    ASSUME TypeOK, NEW s \in Scans, NEW p \in Passes, NEW at \in Moments,
           NEW how \in {"live", "queued"}, Verified(s, p, at, how)
    PROVE  /\ pass' \in [Passes -> [status : Statuses, inside : Nat]]
           /\ carried' \in [Scans -> [live : Nat, queued : Nat]]
           /\ \A t \in Scans : carried'[t].queued =
                 carried[t].queued + (IF t = s /\ how = "queued"
                                         /\ GateVerdict(pass[p], at) \in LetThrough
                                      THEN 1 ELSE 0)
<1>1. AfterScan(pass[p], at) \in [status : Statuses, inside : Nat]
  BY VerdictTyped DEF TypeOK
<1>2. pass' \in [Passes -> [status : Statuses, inside : Nat]]
  BY <1>1 DEF TypeOK, Verified
<1>3. carried \in [Scans -> [live : Nat, queued : Nat]]
  BY DEF TypeOK
<1>4. carried' = IF GateVerdict(pass[p], at) \in LetThrough
                 THEN [carried EXCEPT ![s][how] = @ + 1] ELSE carried
  BY DEF Verified
<1>5. CASE how = "live"
  BY <1>2, <1>3, <1>4, <1>5
<1>6. CASE how = "queued"
  BY <1>2, <1>3, <1>4, <1>6
<1> QED
  BY <1>5, <1>6

\* Deciding at the gate queues a well-formed pending entry, or none.
LEMMA OfflineTyped ==
    ASSUME TypeOK, NEW g \in Gates, NEW s \in Scans, NEW p \in Codes, Offline(g, s, p)
    PROVE  /\ entry' \in [Scans -> Entries]
           /\ card' \in [Gates -> Cards]
           /\ \A t \in Scans : entry'[t].state = entry[t].state \/ entry'[t].state = "pending"
<1> DEFINE v == IF bundle[g].usable THEN LocalVerdict(g, p) ELSE "not_found"
<1>1. v \in Verdicts
  BY DEF LocalVerdict, Verdicts, LetThrough, TypeOK, Moments
<1>2. [state |-> "pending", gate |-> g, pass |-> p, at |-> now] \in Entries
  BY <1>1 DEF Entries, TypeOK
<1>3. entry' = IF bundle[g].usable
               THEN [entry EXCEPT ![s] = [state |-> "pending", gate |-> g, pass |-> p,
                                          at |-> now]]
               ELSE entry
  BY DEF Offline
<1>4. entry \in [Scans -> Entries]
  BY DEF TypeOK
<1>5. /\ entry' \in [Scans -> Entries]
      /\ \A t \in Scans : entry'[t].state = entry[t].state \/ entry'[t].state = "pending"
  BY <1>2, <1>3, <1>4
<1>6. Cleared([scan |-> s, verdict |-> v, provisional |-> TRUE], outcome[g])
         \in Cards
  BY <1>1, NothingTyped DEF Cleared, Cards
<1>7. card' = [card EXCEPT ![g] =
                 Cleared([scan |-> s, verdict |-> v, provisional |-> TRUE], outcome[g])]
  BY DEF Offline
<1>8. card' \in [Gates -> Cards]
  BY <1>6, <1>7 DEF TypeOK
<1> QED
  BY <1>5, <1>8

\* What reconciling one entry does at the server, whoever asked: the verdict
\* is on record, verdicts on record stay, and the count stays at most one.
LEMMA RecordedKeeps ==
    ASSUME IInv, NEW s \in Scans, Recorded(s), entry[s].pass # TooLong
    PROVE  /\ pass' \in [Passes -> [status : Statuses, inside : Nat]]
           /\ carried' \in [Scans -> [live : Nat, queued : Nat]]
           /\ log' \in [Scans -> Verdicts \union {"none"}]
           /\ log'[s] # "none"
           /\ \A t \in Scans : log[t] # "none" => log'[t] = log[t]
           /\ \A t \in Scans : carried'[t].queued <= (IF log'[t] \in LetThrough THEN 1 ELSE 0)
<1> USE DEF IInv
<1>1. CASE log[s] # "none"
  BY <1>1 DEF Recorded, TypeOK, ReconciledOnce
<1>2. CASE log[s] = "none"
  <2> DEFINE p  == entry[s].pass
             at == entry[s].at
             v  == GateVerdict(pass[p], at)
  <2>1. p \in Passes /\ at \in Moments
    BY DEF TypeOK, Entries, Codes
  <2>2. v \in Verdicts /\ v # "none"
    BY <2>1, VerdictTyped DEF TypeOK
  <2>3. Verified(s, p, at, "queued") /\ log' = [log EXCEPT ![s] = v]
    BY <1>2 DEF Recorded
  <2>4. /\ pass' \in [Passes -> [status : Statuses, inside : Nat]]
        /\ carried' \in [Scans -> [live : Nat, queued : Nat]]
        /\ \A t \in Scans : carried'[t].queued =
              carried[t].queued + (IF t = s /\ v \in LetThrough THEN 1 ELSE 0)
    BY <2>1, <2>3, VerifiedTyped
  <2>5. log \in [Scans -> Verdicts \union {"none"}] /\ carried \in [Scans -> [live : Nat, queued : Nat]]
    BY DEF TypeOK
  <2>6. log' \in [Scans -> Verdicts \union {"none"}] /\ log'[s] = v
        /\ \A t \in Scans : t # s => log'[t] = log[t]
    BY <2>2, <2>3, <2>5
  <2>7. carried[s].queued = 0
    BY <1>2, <2>5 DEF ReconciledOnce, LetThrough
  <2>8. \A t \in Scans : carried'[t].queued <= (IF log'[t] \in LetThrough THEN 1 ELSE 0)
    BY <2>4, <2>5, <2>6, <2>7 DEF ReconciledOnce
  <2> QED
    BY <1>2, <2>2, <2>4, <2>6, <2>8
<1> QED
  BY <1>1, <1>2

\* The actions that change neither the log, the queue nor the requests.
LEMMA QuietSteps ==
    ASSUME IInv, UNCHANGED <<log, entry, request>>, carried' = carried, TypeOK', ScanOnRecord'
    PROVE  IInv'
BY DEF IInv, OnRecord, ReconciledOnce, RefusalIsShown, AnswersAreLogged

\* A new request starts with no answers.
LEMMA SyncedTyped ==
    ASSUME IInv, NEW g \in Gates,
           \/ request' = Synced(g)
           \/ request' = [request EXCEPT ![g] = NoRequest]
           \/ request' = [request EXCEPT ![g] = [NoRequest EXCEPT !.phase = "sent", !.todo = Payload(g)]],
           log' = log
    PROVE  request' \in [Gates -> Requests] /\ AnswersAreLogged'
<1>1. Payload(g) \in SUBSET Scans
  BY DEF Payload, Pending
<1>2. [NoRequest EXCEPT !.phase = "sent", !.todo = Payload(g)] \in Requests
      /\ [NoRequest EXCEPT !.phase = "sent", !.todo = Payload(g)].answers = [s \in Scans |-> "none"]
  BY <1>1, NothingTyped DEF Requests
<1>3. request \in [Gates -> Requests]
  BY DEF IInv, TypeOK
<1> DEFINE fresh == [NoRequest EXCEPT !.phase = "sent", !.todo = Payload(g)]
<1>4. ASSUME NEW r \in {NoRequest, fresh}, request' = [request EXCEPT ![g] = r]
      PROVE  request' \in [Gates -> Requests] /\ AnswersAreLogged'
  <2>1. r \in Requests /\ r.answers = [s \in Scans |-> "none"]
    BY <1>2, NothingTyped
  <2>2. request' \in [Gates -> Requests]
    BY <1>3, <1>4, <2>1
  <2>3. ASSUME NEW h \in Gates, NEW s \in Scans, request'[h].answers[s] # "none"
        PROVE  request'[h].answers[s] = log[s]
    <3>1. CASE h = g
      BY <1>3, <1>4, <2>1, <2>3, <3>1
    <3>2. CASE h # g
      BY <1>3, <1>4, <2>3, <3>2 DEF IInv, AnswersAreLogged
    <3> QED
      BY <3>1, <3>2
  <2> QED
    BY <2>2, <2>3 DEF AnswersAreLogged
<1>5. CASE request' = request
  BY <1>3, <1>5 DEF IInv, AnswersAreLogged
<1> QED
  BY <1>4, <1>5 DEF Synced

\* A verification its gate gives up on is that of a scan.
LEMMA GivenUpTyped ==
    ASSUME TypeOK, ScanOnRecord, NEW g \in Gates, GivenUp(g)
    PROVE  stray' \subseteq [scan : Scans, pass : Passes]
<1>1. /\ stray \subseteq [scan : Scans, pass : Passes]
      /\ scan[g].phase = "asked" /\ scan[g].pass # TooLong
            => scan[g].scan \in Scans /\ scan[g].pass \in Passes
  BY DEF TypeOK, ScanOnRecord, Verifications, Codes
<1> QED BY <1>1 DEF GivenUp

\* What is left behind of a request is a set of scans.
LEMMA LeftTyped == ASSUME TypeOK, NEW g \in Gates PROVE Left(g) \subseteq SUBSET Scans
BY DEF TypeOK, Left, Requests

--------------------------------------------------------------------------------
\* Folding an answer into the queue touches only what the answer speaks of.
LEMMA FoldedTyped ==
    ASSUME IInv, NEW g \in Gates, NEW s \in Scans
    PROVE  /\ Folded(request[g], s) \in {"none", "pending", "rejected", "dismissed", "settled", "replayed"}
           /\ request[g].answers[s] = "none" => Folded(request[g], s) = entry[s].state
           /\ Folded(request[g], s) = "settled" /\ request[g].answers[s] # "none"
                => log[s] \in LetThrough
           /\ request[g].answers[s] # "none" => log[s] # "none"
BY DEF IInv, TypeOK, Entries, Requests, Folded, Accepted, AnswersAreLogged

\* A queue entry whose state is changed is still an entry.
LEMMA WithState ==
    ASSUME NEW e \in Entries,
           NEW x \in {"none", "pending", "rejected", "dismissed", "settled", "replayed"}
    PROVE  [e EXCEPT !.state = x] \in Entries /\ [e EXCEPT !.state = x].state = x
BY DEF Entries

\* The empty gate satisfies the invariant.
LEMMA Initially == Init => IInv
<1> SUFFICES ASSUME Init PROVE IInv
  OBVIOUS
<1>1. TypeOK
  BY NothingTyped, GateAssumption
     DEF Init, TypeOK, Statuses, Moments, Verdicts
<1>2. ScanOnRecord /\ AnswersAreLogged
  BY NothingTyped DEF Init, ScanOnRecord, AnswersAreLogged
<1>3. OnRecord /\ ReconciledOnce /\ RefusalIsShown
  BY DEF Init, OnRecord, ReconciledOnce, RefusalIsShown, NoEntry
<1> QED
  BY <1>1, <1>2, <1>3 DEF IInv

Busy(g) == scan[g].phase # "idle"

\* The device decides the scan that is under way, and queues it.
DecidesItself(g) ==
    /\ Busy(g) /\ scan' = [scan EXCEPT ![g] = NoScan]
    /\ Offline(g, scan[g].scan, scan[g].pass)
    /\ stray' \subseteq [scan : Scans, pass : Passes] /\ faults' \in Nat
    /\ UNCHANGED <<now, pass, log, carried, network, bundle, request, orphan, outcome, next>>

\* What was held back for want of a network is put to the server.
AsksAtLast(g) ==
    /\ scan[g].phase = "held" /\ scan' = [scan EXCEPT ![g].phase = "asked"]
    /\ UNCHANGED <<server, network, bundle, entry, request, orphan, card, outcome, next, faults>>

\* A scan that fails, is refused or has waited for the network ends in one of
\* the two.
LEMMA Undecided ==
    ASSUME TypeOK, ScanOnRecord, NEW g \in Gates, VerifyFails(g) \/ VerifyRefused(g) \/ Resume(g)
    PROVE  DecidesItself(g) \/ AsksAtLast(g)
<1>1. CASE VerifyFails(g)
  <2>1. faults' \in Nat /\ stray' \subseteq [scan : Scans, pass : Passes]
    BY <1>1, GivenUpTyped DEF VerifyFails, TypeOK
  <2> QED BY <1>1, <2>1 DEF VerifyFails, DecidesItself, Busy
<1>2. CASE VerifyRefused(g)
  BY <1>2 DEF VerifyRefused, DecidesItself, Busy, TypeOK, server
<1>3. CASE Resume(g)
  BY <1>3 DEF Resume, DecidesItself, AsksAtLast, Busy, TypeOK, server
<1> QED BY <1>1, <1>2, <1>3

\* A scan is made, judged, answered or decided at the gate.
LEMMA ScanningKeeps == ASSUME IInv, NEW g \in Gates, Scanning(g) PROVE IInv'
<1> USE DEF IInv, server
<1>1. ASSUME NEW p \in Codes, Present(g, p) PROVE IInv'
  <2>1. CASE network[g] # "absent"
    <3> DEFINE asked == [phase |-> IF Online(g) THEN "asked" ELSE "held", scan |-> next,
                         pass |-> p, verdict |-> "none"]
    <3>0. /\ next \in Scans /\ next' = next + 1 /\ next' \in Nat
          /\ scan' = [scan EXCEPT ![g] = asked]
          /\ UNCHANGED <<now, pass, log, carried, stray, entry, card, network, bundle, request, orphan,
                         outcome, faults>>
      BY <1>1, <2>1 DEF Present, TypeOK
    <3>1. TypeOK' /\ ScanOnRecord'
      <4>1. asked.scan \in Scans /\ asked \in Verifications
        BY <3>0 DEF Verifications, Phases
      <4>2. scan' \in [Gates -> Verifications]
        BY <3>0, <4>1 DEF TypeOK
      <4> HIDE DEF asked
      <4>3. ScanOnRecord'
        BY <3>0, <4>1 DEF TypeOK, ScanOnRecord
      <4> QED
        BY <3>0, <4>2, <4>3 DEF TypeOK
    <3> QED
      BY <3>0, <3>1, QuietSteps
  <2>2. CASE network[g] = "absent"
    <3>1. next \in Scans /\ Offline(g, next, p)
      BY <1>1, <2>2 DEF Present
    <3>3. /\ next' = next + 1 /\ next' \in Nat
          /\ UNCHANGED <<now, pass, log, carried, stray, scan, network, bundle, request, orphan,
                         outcome, faults>>
      BY <1>1, <2>2 DEF Present, TypeOK
    <3>4. entry' \in [Scans -> Entries] /\ card' \in [Gates -> Cards]
      BY <3>1, OfflineTyped
    <3>2. TypeOK' /\ ScanOnRecord'
      BY <3>3, <3>4 DEF TypeOK, ScanOnRecord
    <3> QED
      BY <3>1, <3>2, <3>3, OfflineTyped
         DEF OnRecord, ReconciledOnce, RefusalIsShown, AnswersAreLogged
  <2> QED
    BY <2>1, <2>2
<1>2. ASSUME ServerVerifies(g) PROVE IInv'
  <2> DEFINE s == scan[g].scan
             p == scan[g].pass
  <2>1. s \in Scans /\ p \in Passes /\ now \in Moments /\ Verified(s, p, now, "live")
    BY <1>2 DEF ServerVerifies, TypeOK, ScanOnRecord, Verifications, Codes
  <2>2. GateVerdict(pass[p], now) \in Verdicts
    BY <2>1, VerdictTyped DEF TypeOK
  <2>3. /\ pass' \in [Passes -> [status : Statuses, inside : Nat]]
        /\ carried' \in [Scans -> [live : Nat, queued : Nat]]
        /\ \A u \in Scans : carried'[u].queued = carried[u].queued + 0
    BY <2>1, VerifiedTyped
  <2>6. /\ scan' = [scan EXCEPT ![g] = [scan[g] EXCEPT !.phase = "judged",
                                                     !.verdict = GateVerdict(pass[p], now)]]
        /\ UNCHANGED <<now, log, stray, network, bundle, entry, request, orphan, card, outcome, next, faults>>
    BY <1>2 DEF ServerVerifies, TypeOK
  <2>7. [scan[g] EXCEPT !.phase = "judged", !.verdict = GateVerdict(pass[p], now)]
           \in [phase : Phases, scan : Scans, pass : Codes, verdict : Verdicts \union {"none"}]
    <3>1. scan[g] \in Verifications
      BY DEF TypeOK
    <3> QED
      BY <2>1, <2>2, <3>1 DEF Verifications, Phases
  <2>4. TypeOK' /\ ScanOnRecord'
    <3>1. scan' \in [Gates -> Verifications]
      BY <2>6, <2>7 DEF TypeOK, Verifications
    <3>2. ScanOnRecord'
      BY <2>6, <2>7 DEF TypeOK, ScanOnRecord
    <3> QED BY <2>3, <2>6, <3>1, <3>2 DEF TypeOK
  <2>5. ReconciledOnce'
    BY <1>2, <2>3 DEF ServerVerifies, TypeOK, ReconciledOnce
  <2> QED
    BY <1>2, <2>4, <2>5 DEF ServerVerifies, OnRecord, RefusalIsShown, AnswersAreLogged
<1>3. ASSUME VerifyAnswered(g) PROVE IInv'
  <2>1. TypeOK' /\ ScanOnRecord'
    <3>1. scan[g].scan \in Scans \union {0} /\ scan[g].verdict \in Verdicts \union {"none"}
      BY DEF TypeOK, Verifications
    <3>2. card' \in [Gates -> Cards]
      BY <1>3, <3>1 DEF VerifyAnswered, TypeOK, Cards
    <3>3. /\ scan' = [scan EXCEPT ![g] = NoScan]
          /\ UNCHANGED <<server, network, bundle, entry, request, orphan, outcome, next, faults>>
      BY <1>3 DEF VerifyAnswered
    <3> QED BY <3>2, <3>3, NothingTyped DEF TypeOK, ScanOnRecord
  <2> QED
    BY <1>3, <2>1, QuietSteps DEF VerifyAnswered
<1>4. ASSUME DecidesItself(g) PROVE IInv'
  <2>1. /\ scan[g].scan \in Scans /\ scan[g].pass \in Codes
        /\ Offline(g, scan[g].scan, scan[g].pass)
    BY <1>4 DEF DecidesItself, Busy, TypeOK, ScanOnRecord, Verifications
  <2>2. TypeOK' /\ ScanOnRecord'
    BY <1>4, <2>1, OfflineTyped, NothingTyped DEF DecidesItself, TypeOK, ScanOnRecord
  <2> QED
    BY <1>4, <2>1, <2>2, OfflineTyped
       DEF DecidesItself, OnRecord, ReconciledOnce, RefusalIsShown, AnswersAreLogged
<1>5. ASSUME AsksAtLast(g) PROVE IInv'
  <2>1. /\ scan' = [scan EXCEPT ![g] = [scan[g] EXCEPT !.phase = "asked"]]
        /\ scan[g] \in Verifications /\ scan[g].scan \in Scans
    BY <1>5 DEF AsksAtLast, TypeOK, ScanOnRecord
  <2>2. /\ [scan[g] EXCEPT !.phase = "asked"] \in Verifications
        /\ [scan[g] EXCEPT !.phase = "asked"].scan = scan[g].scan
    BY <2>1 DEF Verifications, Phases
  <2>3. TypeOK' /\ ScanOnRecord'
    BY <1>5, <2>1, <2>2 DEF AsksAtLast, TypeOK, ScanOnRecord
  <2> QED
    BY <1>5, <2>3, QuietSteps DEF AsksAtLast
<1> QED
  BY <1>1, <1>2, <1>3, <1>4, <1>5, Undecided DEF Scanning

\* An entry is put before the server, or a sync is answered or fails.
LEMMA ReconcilingKeeps == ASSUME IInv, NEW g \in Gates, Reconciling(g) PROVE IInv'
<1> USE DEF IInv, server
<1>1. ASSUME ReconcileEntry(g) PROVE IInv'
  <2>1. PICK s \in Earliest(request[g].todo) :
           Recorded(s) /\ request' = [request EXCEPT ![g] = Answered(@, s)]
    BY <1>1 DEF ReconcileEntry
  <2>2. s \in Scans /\ request[g] \in Requests /\ entry[s].pass # TooLong
    BY <1>1 DEF ReconcileEntry, Refused, Earliest, TypeOK, Requests
  <2>3. log' \in [Scans -> Verdicts \union {"none"}]
    BY <2>1, <2>2, RecordedKeeps
  <2>4. Answered(request[g], s) \in Requests
    BY <2>2, <2>3 DEF Answered, Requests
  <2>5. request' \in [Gates -> Requests]
    BY <2>1, <2>4 DEF TypeOK
  <2>6. TypeOK' /\ ScanOnRecord'
    BY <1>1, <2>1, <2>2, <2>5, RecordedKeeps DEF ReconcileEntry, TypeOK, ScanOnRecord
  <2>7. AnswersAreLogged'
    <3>1. ASSUME NEW h \in Gates, NEW u \in Scans, request'[h].answers[u] # "none"
          PROVE  request'[h].answers[u] = log'[u]
      <4>1. CASE h = g /\ u = s
        BY <2>1, <2>2, <4>1 DEF TypeOK, Answered, Requests
      <4>2. CASE ~(h = g /\ u = s)
        <5>1. request'[h].answers[u] = request[h].answers[u]
          BY <2>1, <2>2, <4>2 DEF TypeOK, Answered, Requests
        <5>2. request[h].answers[u] = log[u] /\ log[u] # "none"
          BY <3>1, <5>1 DEF AnswersAreLogged
        <5> QED
          BY <2>1, <2>2, <5>1, <5>2, RecordedKeeps
      <4> QED
        BY <4>1, <4>2
    <3> QED
      BY <3>1 DEF AnswersAreLogged
  <2>8. OnRecord' /\ RefusalIsShown'
    BY <1>1, <2>1, <2>2, RecordedKeeps
       DEF ReconcileEntry, OnRecord, RefusalIsShown, TypeOK, Verdicts, LetThrough
  <2>9. ReconciledOnce'
    BY <2>1, <2>2, RecordedKeeps DEF ReconciledOnce
  <2> QED
    BY <2>6, <2>7, <2>8, <2>9
<1>2. ASSUME OrphanEntry(g) PROVE IInv'
  <2>1. PICK s \in Earliest(orphan[g]) :
           Recorded(s) /\ orphan' = [orphan EXCEPT ![g] = @ \ {s}]
    BY <1>2 DEF OrphanEntry
  <2>2. s \in Scans /\ entry[s].pass # TooLong
    BY <1>2 DEF OrphanEntry, Refused, Earliest, TypeOK
  <2>3. TypeOK' /\ ScanOnRecord'
    BY <1>2, <2>1, <2>2, RecordedKeeps DEF OrphanEntry, TypeOK, ScanOnRecord
  <2>4. AnswersAreLogged'
    BY <1>2, <2>1, <2>2, RecordedKeeps DEF OrphanEntry, AnswersAreLogged
  <2>5. OnRecord' /\ RefusalIsShown'
    BY <1>2, <2>1, <2>2, RecordedKeeps
       DEF OrphanEntry, OnRecord, RefusalIsShown, TypeOK, Verdicts, LetThrough
  <2>6. ReconciledOnce'
    BY <2>1, <2>2, RecordedKeeps DEF ReconciledOnce
  <2> QED
    BY <2>3, <2>4, <2>5, <2>6
<1>3. ASSUME SyncAnswered(g) PROVE IInv'
  <2>1. entry' \in [Scans -> Entries]
        /\ \A s \in Scans : entry'[s].state = Folded(request[g], s)
    <3>1. entry' = [s \in Scans |-> [entry[s] EXCEPT !.state = Folded(request[g], s)]]
      BY <1>3 DEF SyncAnswered
    <3>2. ASSUME NEW s \in Scans
          PROVE  /\ [entry[s] EXCEPT !.state = Folded(request[g], s)] \in Entries
                 /\ [entry[s] EXCEPT !.state = Folded(request[g], s)].state = Folded(request[g], s)
      <4>1. entry[s] \in Entries
        BY DEF TypeOK
      <4>2. Folded(request[g], s)
               \in {"none", "pending", "rejected", "dismissed", "settled", "replayed"}
        BY FoldedTyped
      <4> QED
        BY <4>1, <4>2, WithState
    <3> QED
      BY <3>1, <3>2
  <2>2. request' \in [Gates -> Requests] /\ AnswersAreLogged'
    BY <1>3, SyncedTyped DEF SyncAnswered
  <2>3. card' \in [Gates -> Cards]
    BY <1>3, NothingTyped DEF SyncAnswered, TypeOK, Cleared
  <2>4. TypeOK' /\ ScanOnRecord'
    BY <1>3, <2>1, <2>2, <2>3 DEF SyncAnswered, TypeOK, ScanOnRecord
  <2>5. OnRecord' /\ RefusalIsShown'
    BY <1>3, <2>1, FoldedTyped DEF SyncAnswered, OnRecord, RefusalIsShown
  <2>6. ReconciledOnce'
    BY <1>3 DEF SyncAnswered, ReconciledOnce
  <2> QED
    BY <2>2, <2>4, <2>5, <2>6
<1>4. ASSUME SyncFails(g) PROVE IInv'
  <2>1. request' \in [Gates -> Requests] /\ AnswersAreLogged'
    BY <1>4, SyncedTyped DEF SyncFails
  <2>2. orphan' \in [Gates -> SUBSET Scans]
    BY <1>4, LeftTyped DEF SyncFails, TypeOK
  <2>3. TypeOK' /\ ScanOnRecord'
    BY <1>4, <2>1, <2>2, GateAssumption DEF SyncFails, TypeOK, ScanOnRecord
  <2> QED
    BY <1>4, <2>1, <2>3 DEF SyncFails, OnRecord, ReconciledOnce, RefusalIsShown
<1>5. ASSUME RequestRefused(g) PROVE IInv'
  <2>1. request' \in [Gates -> Requests] /\ AnswersAreLogged'
    BY <1>5, SyncedTyped DEF RequestRefused
  <2>2. TypeOK' /\ ScanOnRecord'
    BY <1>5, <2>1 DEF RequestRefused, TypeOK, ScanOnRecord
  <2> QED
    BY <1>5, <2>1, <2>2 DEF RequestRefused, OnRecord, ReconciledOnce, RefusalIsShown
<1> QED
  BY <1>1, <1>2, <1>3, <1>4, <1>5 DEF Reconciling

\* The device goes on and off line, syncs, reloads, dismisses and refreshes.
LEMMA DeviceKeeps == ASSUME IInv, NEW g \in Gates, Device(g) PROVE IInv'
<1> USE DEF IInv, server
<1>1. ASSUME ComesOnline(g) \/ SyncNow(g) PROVE IInv'
  <2>1. request' \in [Gates -> Requests] /\ AnswersAreLogged'
    BY <1>1, SyncedTyped DEF ComesOnline, SyncNow
  <2>2. TypeOK' /\ ScanOnRecord'
    BY <1>1, <2>1 DEF ComesOnline, SyncNow, TypeOK, ScanOnRecord
  <2> QED
    BY <1>1, <2>1, <2>2 DEF ComesOnline, SyncNow, OnRecord, ReconciledOnce, RefusalIsShown
<1>2. ASSUME Reload(g) PROVE IInv'
  <2>1. request' \in [Gates -> Requests] /\ AnswersAreLogged'
    BY <1>2, SyncedTyped DEF Reload
  <2>2. orphan' \in [Gates -> SUBSET Scans]
    BY <1>2, LeftTyped DEF Reload, TypeOK
  <2>3. TypeOK' /\ ScanOnRecord'
    <3>1. /\ scan' = [scan EXCEPT ![g] = NoScan] /\ card' = [card EXCEPT ![g] = NoCard]
          /\ outcome' = [outcome EXCEPT ![g] = FALSE] /\ faults' \in Nat
          /\ network' \in [Gates -> {"up", "lost", "absent"}]
          /\ UNCHANGED <<now, pass, log, carried, bundle, entry, next>>
      BY <1>2, GateAssumption DEF Reload, TypeOK
    <3>4. stray' \subseteq [scan : Scans, pass : Passes]
      BY <1>2, GivenUpTyped DEF Reload
    <3>2. /\ scan' \in [Gates -> Verifications]
          /\ card' \in [Gates -> Cards]
      BY <3>1, NothingTyped DEF TypeOK
    <3>3. ScanOnRecord'
      BY <3>1, NothingTyped DEF TypeOK, ScanOnRecord
    <3> QED
      BY <2>1, <2>2, <3>1, <3>2, <3>3, <3>4 DEF TypeOK
  <2> QED
    BY <1>2, <2>1, <2>3 DEF Reload, OnRecord, ReconciledOnce, RefusalIsShown
<1>3. ASSUME NEW s \in Scans, Dismiss(g, s) PROVE IInv'
  <2>1. entry' = [entry EXCEPT ![s].state = "dismissed"] /\ entry[s].state = "rejected"
    BY <1>3 DEF Dismiss
  <2>2. entry' \in [Scans -> Entries]
        /\ \A u \in Scans : entry'[u].state = IF u = s THEN "dismissed" ELSE entry[u].state
    <3>1. entry' = [entry EXCEPT ![s] = [entry[s] EXCEPT !.state = "dismissed"]]
      BY <2>1 DEF TypeOK
    <3>2. entry \in [Scans -> Entries]
      BY DEF TypeOK
    <3> QED
      <4>1. entry[s] \in Entries
        BY <3>2
      <4>2. /\ [entry[s] EXCEPT !.state = "dismissed"] \in Entries
            /\ [entry[s] EXCEPT !.state = "dismissed"].state = "dismissed"
        BY <4>1, WithState
      <4> QED
        BY <3>1, <3>2, <4>2
  <2>3. TypeOK' /\ ScanOnRecord'
    BY <1>3, <2>2 DEF Dismiss, TypeOK, ScanOnRecord
  <2> QED
    BY <1>3, <2>1, <2>2, <2>3
       DEF Dismiss, OnRecord, ReconciledOnce, RefusalIsShown, AnswersAreLogged
<1>4. ASSUME GoesOffline(g) \/ DismissCard(g) \/ ClearOutcome(g) \/ RefreshBundle(g) \/ BundleExpires(g)
      PROVE IInv'
  <2>1. TypeOK' /\ ScanOnRecord'
    <3>1. CASE GoesOffline(g)
      BY <3>1, GateAssumption DEF GoesOffline, TypeOK, ScanOnRecord
    <3>2. CASE DismissCard(g)
      <4>1. [NoCard EXCEPT !.provisional = card[g].provisional] \in Cards
        BY NothingTyped DEF TypeOK, Cards
      <4> QED BY <3>2, <4>1 DEF DismissCard, TypeOK, ScanOnRecord
    <3>3. CASE ClearOutcome(g)
      BY <3>3 DEF ClearOutcome, TypeOK, ScanOnRecord
    <3>4. CASE RefreshBundle(g)
      BY <3>4 DEF RefreshBundle, GateOfflineBundle, TypeOK, ScanOnRecord
    <3>5. CASE BundleExpires(g)
      BY <3>5 DEF BundleExpires, TypeOK, ScanOnRecord
    <3> QED
      BY <1>4, <3>1, <3>2, <3>3, <3>4, <3>5
  <2> QED
    BY <1>4, <2>1, QuietSteps
       DEF GoesOffline, DismissCard, ClearOutcome, RefreshBundle, BundleExpires
<1> QED
  BY <1>1, <1>2, <1>3, <1>4 DEF Device

\* Residents decide, time passes, and the server comes to what gates gave up.
LEMMA WorldKeeps ==
    ASSUME IInv, StrayVerified \/ Clock \/ \E p \in Passes : Decide(p) \/ Lapse(p)
    PROVE  IInv'
<1> USE DEF IInv
<1>1. CASE Clock
  <2>1. TypeOK' /\ ScanOnRecord'
    BY <1>1 DEF Clock, TypeOK, ScanOnRecord, Moments
  <2> QED
    BY <1>1, <2>1, QuietSteps DEF Clock
<1>2. ASSUME NEW p \in Passes, Decide(p) \/ Lapse(p) PROVE IInv'
  <2>1. TypeOK' /\ ScanOnRecord'
    <3>1. PICK x \in Statuses : pass' = [pass EXCEPT ![p] = [pass[p] EXCEPT !.status = x]]
      BY <1>2 DEF Decide, Lapse, TypeOK, Statuses
    <3>4. pass[p] \in [status : Statuses, inside : Nat]
      BY DEF TypeOK
    <3>2. [pass[p] EXCEPT !.status = x] \in [status : Statuses, inside : Nat]
      BY <3>1, <3>4
    <3>3. pass' \in [Passes -> [status : Statuses, inside : Nat]]
      BY <3>1, <3>2 DEF TypeOK
    <3> QED
      BY <1>2, <3>3 DEF Decide, Lapse, TypeOK, ScanOnRecord
  <2> QED
    BY <1>2, <2>1, QuietSteps DEF Decide, Lapse
<1>3. CASE StrayVerified
  <2>1. PICK v \in stray : Verified(v.scan, v.pass, now, "live") /\ stray' = stray \ {v}
    BY <1>3 DEF StrayVerified
  <2>2. v.scan \in Scans /\ v.pass \in Passes /\ now \in Moments
    BY DEF TypeOK
  <2>3. /\ pass' \in [Passes -> [status : Statuses, inside : Nat]]
        /\ carried' \in [Scans -> [live : Nat, queued : Nat]]
        /\ \A u \in Scans : carried'[u].queued = carried[u].queued + 0
    BY <2>1, <2>2, VerifiedTyped
  <2>4. UNCHANGED <<now, log, network, bundle, scan, entry, request, orphan, card, outcome, next,
                    faults>>
    BY <1>3 DEF StrayVerified
  <2>5. TypeOK' /\ ScanOnRecord'
    BY <2>1, <2>3, <2>4 DEF TypeOK, ScanOnRecord
  <2>6. ReconciledOnce'
    BY <2>3, <2>4 DEF TypeOK, ReconciledOnce
  <2> QED BY <2>4, <2>5, <2>6 DEF OnRecord, RefusalIsShown, AnswersAreLogged
<1> QED
  BY <1>1, <1>2, <1>3

--------------------------------------------------------------------------------
\* The inductive invariant, of which the next four theorems are parts.
LEMMA Inductive == Spec => []IInv
<1>1. Init => IInv
  BY Initially
<1>2. IInv /\ [Next]_vars => IInv'
  <2> SUFFICES ASSUME IInv, [Next]_vars PROVE IInv'
    OBVIOUS
  <2>1. CASE Next
    BY <2>1, ScanningKeeps, ReconcilingKeeps, DeviceKeeps, WorldKeeps DEF Next
  <2>2. CASE UNCHANGED vars
    BY <2>2 DEF vars, server, IInv, TypeOK, ScanOnRecord, OnRecord, ReconciledOnce,
                RefusalIsShown, AnswersAreLogged
  <2> QED
    BY <2>1, <2>2
<1> QED
  BY <1>1, <1>2, PTL DEF Spec

\* The state keeps its shape, for any gates, passes and scans.
THEOREM GateTypes == Spec => []TypeOK
BY Inductive, PTL DEF IInv

\* No scan decided at the gate is lost: an entry that is no longer pending is
\* on record at the server, and only one that let its visitor through leaves as
\* settled (applyOutcomes, sync, reconcile_offline_entry).
THEOREM GateLosesNothing == Spec => []NothingLost
BY Inductive, PTL DEF IInv, NothingLost

\* However often an entry reaches the server, from however many requests, it
\* lets its visitor in or out at most once (reconcile_offline_entry).
THEOREM GateReconcilesOnce == Spec => []ReconciledOnce
BY Inductive, PTL DEF IInv

--------------------------------------------------------------------------------
(* The card on screen.                                                         *)

Asked(g, s) == s \in request[g].todo \/ request[g].answers[s] # "none"

\* A scan under way is its gate's alone and in nobody's queue yet; a request
\* carries its own gate's entries; and a provisional card is of a scan of its
\* gate's that the server has not answered.
Fresh == \A s \in Scans : s >= next => entry[s].state = "none"
ScanFits(g) ==
    Busy(g) => /\ scan[g].scan < next /\ entry[scan[g].scan].state = "none"
               /\ \A h \in Gates : Busy(h) /\ h # g => scan[h].scan # scan[g].scan
RequestFits(g) ==
    \A s \in Scans : Asked(g, s) => entry[s].state # "none" /\ entry[s].gate = g
CardFits(g) ==
    card[g].provisional /\ card[g].scan # 0 =>
        LET s == card[g].scan
        IN  /\ s < next
            /\ \/ entry[s].state = "none"
               \/ entry[s].state = "pending" /\ entry[s].gate = g
            /\ \A h \in Gates : Busy(h) => scan[h].scan # s
ScreensFit == Fresh /\ \A g \in Gates : ScanFits(g) /\ RequestFits(g) /\ CardFits(g)

\* A step that queues nothing and folds nothing: scans end, cards go, and what
\* is asked for was asked for before or is pending.
LEMMA QuietScreens ==
    ASSUME TypeOK, TypeOK', ScanOnRecord, ScreensFit, UNCHANGED <<next, entry>>,
           \A h \in Gates : Busy(h)' => Busy(h) /\ scan'[h].scan = scan[h].scan,
           \A h \in Gates : \/ card'[h] = card[h]
                            \/ ~card'[h].provisional \/ card'[h].scan = 0,
           \A h \in Gates, s \in Scans : Asked(h, s)' => Asked(h, s) \/ s \in Pending(h)
    PROVE  ScreensFit'
<1>1. Fresh'
  BY DEF ScreensFit, Fresh
<1>2. ASSUME NEW g \in Gates PROVE ScanFits(g)' /\ RequestFits(g)' /\ CardFits(g)'
  <2>1. ScanFits(g)'
    BY DEF ScreensFit, ScanFits
  <2>2. RequestFits(g)'
    BY DEF ScreensFit, RequestFits, Pending
  <2>3. CardFits(g)'
    BY DEF ScreensFit, CardFits
  <2> QED BY <2>1, <2>2, <2>3
<1> QED BY <1>1, <1>2 DEF ScreensFit

\* The device decides a scan that is in no queue and that no other gate is at.
LEMMA OfflineScreens ==
    ASSUME TypeOK, TypeOK', ScanOnRecord, ScreensFit, NEW g \in Gates, NEW s \in Scans,
           NEW p \in Codes, Offline(g, s, p), UNCHANGED request,
           next' >= next, s < next', entry[s].state = "none",
           \A h \in Gates : Busy(h)' => /\ h # g /\ Busy(h) /\ scan'[h].scan = scan[h].scan
                                        /\ scan[h].scan # s,
           \A h \in Gates : card[h].provisional /\ h # g => card[h].scan # s
    PROVE  ScreensFit'
<1>1. /\ \A t \in Scans : t # s => entry'[t] = entry[t]
      /\ entry'[s] = entry[s] \/ (entry'[s].state = "pending" /\ entry'[s].gate = g)
  BY DEF Offline, TypeOK
<1>2. /\ \A h \in Gates : h # g => card'[h] = card[h]
      /\ card'[g].provisional => card'[g].scan \in {0, s}
  BY DEF Offline, TypeOK, Cleared, NoCard
<1>3. /\ \A t \in Scans : t \in Int
      /\ next \in Nat /\ next' \in Nat
      /\ \A h \in Gates : card[h].scan # 0 => card[h].scan \in Scans
      /\ \A h \in Gates : Busy(h) => scan[h].scan \in Scans
  <2>1. \A t \in Scans : t \in Int
    BY GateAssumption, FS_CardinalityType
  <2>2. \A h \in Gates : card[h].scan # 0 => card[h].scan \in Scans
    BY DEF TypeOK, Cards
  <2> QED BY <2>1, <2>2 DEF TypeOK, ScanOnRecord, Busy
<1>4. Fresh'
  BY <1>1, <1>3 DEF ScreensFit, Fresh
<1>5. ASSUME NEW h \in Gates PROVE ScanFits(h)' /\ RequestFits(h)' /\ CardFits(h)'
  <2>1. ScanFits(h)'
    BY <1>1, <1>3 DEF ScreensFit, ScanFits
  <2>2. RequestFits(h)'
    BY <1>1 DEF ScreensFit, RequestFits, Asked
  <2>3. CardFits(h)'
    <3>1. CASE h = g
      BY <1>1, <1>2, <1>3, <3>1 DEF CardFits
    <3>2. CASE h # g
      BY <1>1, <1>2, <1>3, <3>2 DEF ScreensFit, CardFits
    <3> QED BY <3>1, <3>2
  <2> QED BY <2>1, <2>2, <2>3
<1> QED BY <1>4, <1>5 DEF ScreensFit

\* Scanning: a new scan takes the next number; one that fails goes to its own
\* gate's queue; an answered one leaves a card that is final.
LEMMA ScanningScreens ==
    ASSUME TypeOK, TypeOK', ScanOnRecord, ScreensFit, NEW g \in Gates, Scanning(g)
    PROVE  ScreensFit'
<1>0. /\ \A t \in Scans : t \in Int
      /\ next \in Nat /\ next' \in Nat
      /\ \A h \in Gates : card[h].scan # 0 => card[h].scan \in Scans
      /\ \A h \in Gates : Busy(h) => scan[h].scan \in Scans
  <2>1. \A t \in Scans : t \in Int
    BY GateAssumption, FS_CardinalityType
  <2>3. \A h \in Gates : card[h].scan # 0 => card[h].scan \in Scans
    BY DEF TypeOK, Cards
  <2> QED BY <2>1, <2>3 DEF TypeOK, ScanOnRecord, Busy
<1>1. ASSUME NEW p \in Codes, Present(g, p)
      PROVE  ScreensFit'
  <2>1. next \in Scans /\ ~Busy(g) /\ next' = next + 1 /\ entry[next].state = "none"
    BY <1>0, <1>1 DEF Present, ScreensFit, Fresh, Busy
  <2>2. /\ next # 0
        /\ \A h \in Gates : Busy(h) => scan[h].scan < next /\ scan[h].scan # next
        /\ \A h \in Gates : card[h].provisional => card[h].scan # next
    <3>1. next # 0
      BY <2>1, GateAssumption, FS_CardinalityType
    <3>2. ASSUME NEW h \in Gates, Busy(h) PROVE scan[h].scan < next /\ scan[h].scan # next
      <4>1. scan[h].scan < next
        BY <3>2 DEF ScreensFit, ScanFits
      <4> QED BY <1>0, <3>2, <4>1
    <3>3. ASSUME NEW h \in Gates, card[h].provisional PROVE card[h].scan # next
      BY <1>0, <3>1, <3>3 DEF ScreensFit, CardFits
    <3> QED BY <3>1, <3>2, <3>3
  <2>3. CASE network[g] = "absent"
    <3>1. Offline(g, next, p) /\ UNCHANGED <<scan, request>>
      BY <1>1, <2>3 DEF Present
    <3>2. /\ next' >= next /\ next < next'
          /\ \A h \in Gates : Busy(h)' => /\ h # g /\ Busy(h) /\ scan'[h].scan = scan[h].scan
                                          /\ scan[h].scan # next
          /\ \A h \in Gates : card[h].provisional /\ h # g => card[h].scan # next
      BY <1>0, <2>1, <2>2, <3>1 DEF Busy
    <3> QED BY <2>1, <3>1, <3>2, OfflineScreens
  <2>4. CASE network[g] # "absent"
    <3> DEFINE asked == [phase |-> IF Online(g) THEN "asked" ELSE "held", scan |-> next,
                         pass |-> p, verdict |-> "none"]
    <3>1. scan' = [scan EXCEPT ![g] = asked] /\ UNCHANGED <<entry, card, request>>
      BY <1>1, <2>4 DEF Present
    <3>2. /\ scan'[g].scan = next
          /\ \A h \in Gates : h # g => scan'[h] = scan[h]
      BY <3>1 DEF TypeOK
    <3> HIDE DEF asked
    <3>3. Fresh'
      BY <1>0, <2>1, <3>1 DEF ScreensFit, Fresh
    <3>4. ASSUME NEW h \in Gates PROVE ScanFits(h)' /\ RequestFits(h)' /\ CardFits(h)'
      <4>1. ScanFits(h)'
        <5>1. CASE h = g
          BY <1>0, <2>1, <2>2, <3>1, <3>2, <5>1 DEF ScanFits, Busy
        <5>2. CASE h # g
          <6> SUFFICES ASSUME Busy(h) PROVE ScanFits(h)'
            BY <3>2, <5>2 DEF ScanFits, Busy
          <6>1. scan[h].scan < next' /\ scan'[h] = scan[h] /\ entry[scan[h].scan].state = "none"
            <7>1. scan[h].scan \in Int /\ scan[h].scan < next
              BY <1>0, <2>2
            <7>2. scan[h].scan < next'
              BY <1>0, <2>1, <7>1
            <7> QED BY <3>2, <5>2, <7>2 DEF ScreensFit, ScanFits
          <6>2. ASSUME NEW k \in Gates, Busy(k)', k # h
                PROVE  scan'[k].scan # scan[h].scan
            BY <2>2, <3>2, <6>2 DEF ScreensFit, ScanFits, Busy
          <6> QED BY <3>1, <6>1, <6>2 DEF ScanFits
        <5> QED BY <5>1, <5>2
      <4>2. RequestFits(h)'
        BY <3>1 DEF ScreensFit, RequestFits, Asked
      <4>3. CardFits(h)'
        <5> SUFFICES ASSUME card[h].provisional, card[h].scan # 0 PROVE CardFits(h)'
          BY <3>1 DEF CardFits
        <5>1. card[h].scan < next' /\ card[h].scan # next
          <6>1. card[h].scan \in Int /\ card[h].scan < next
            BY <1>0 DEF ScreensFit, CardFits
          <6>2. card[h].scan < next'
            BY <1>0, <2>1, <6>1
          <6> QED BY <2>2, <6>2
        <5>2. ASSUME NEW k \in Gates, Busy(k)' PROVE scan'[k].scan # card[h].scan
          BY <3>2, <5>1, <5>2 DEF ScreensFit, CardFits, Busy
        <5> QED BY <3>1, <5>1, <5>2 DEF ScreensFit, CardFits
      <4> QED BY <4>1, <4>2, <4>3
    <3> QED BY <3>3, <3>4 DEF ScreensFit
  <2> QED BY <2>3, <2>4
<1>2. ASSUME ServerVerifies(g)
      PROVE  ScreensFit'
  <2>1. /\ UNCHANGED <<next, entry, card, request>>
        /\ \A h \in Gates : Busy(h)' => Busy(h) /\ scan'[h].scan = scan[h].scan
    BY <1>2 DEF ServerVerifies, TypeOK, Busy
  <2> QED BY <2>1, QuietScreens DEF Asked
<1>3. ASSUME VerifyAnswered(g)
      PROVE  ScreensFit'
  <2>1. /\ UNCHANGED <<next, entry, request>>
        /\ \A h \in Gates : Busy(h)' => Busy(h) /\ scan'[h].scan = scan[h].scan
    BY <1>3, NothingTyped DEF VerifyAnswered, TypeOK, Busy
  <2>2. \A h \in Gates : card'[h] = card[h] \/ ~card'[h].provisional
    BY <1>3 DEF VerifyAnswered, TypeOK
  <2> QED BY <2>1, <2>2, QuietScreens DEF Asked
<1>4. ASSUME DecidesItself(g)
      PROVE  ScreensFit'
  <2> DEFINE s == scan[g].scan
  <2>1. /\ Busy(g) /\ Offline(g, s, scan[g].pass) /\ UNCHANGED <<next, request>>
        /\ scan' = [scan EXCEPT ![g] = NoScan] /\ scan[g].pass \in Codes
    BY <1>4 DEF DecidesItself, TypeOK, Verifications
  <2>2. s \in Scans /\ s < next /\ entry[s].state = "none"
    BY <1>0, <2>1 DEF ScreensFit, ScanFits
  <2>3. /\ \A h \in Gates : Busy(h)' => /\ h # g /\ Busy(h) /\ scan'[h].scan = scan[h].scan
                                        /\ scan[h].scan # s
        /\ \A h \in Gates : card[h].provisional /\ h # g => card[h].scan # s
    <3>1. \A h \in Gates : Busy(h)' => /\ h # g /\ Busy(h) /\ scan'[h].scan = scan[h].scan
      BY <2>1, NothingTyped DEF TypeOK, Busy
    <3>2. s # 0
      BY <2>2, GateAssumption, FS_CardinalityType
    <3> QED BY <2>1, <3>1, <3>2 DEF ScreensFit, ScanFits, CardFits
  <2> HIDE DEF s
  <2> QED BY <1>0, <2>1, <2>2, <2>3, OfflineScreens
<1>5. ASSUME AsksAtLast(g)
      PROVE  ScreensFit'
  <2>1. /\ UNCHANGED <<next, entry, card, request>>
        /\ \A h \in Gates : Busy(h)' => Busy(h) /\ scan'[h].scan = scan[h].scan
    BY <1>5 DEF AsksAtLast, TypeOK, Busy
  <2> QED BY <2>1, QuietScreens DEF Asked
<1> QED BY <1>1, <1>2, <1>3, <1>4, <1>5, Undecided DEF Scanning

\* Reconciling: an answer is folded into the entries of the gate that asked,
\* whose provisional card goes.
LEMMA ReconcilingScreens ==
    ASSUME TypeOK, TypeOK', ScanOnRecord, ScreensFit, NEW g \in Gates, Reconciling(g)
    PROVE  ScreensFit'
<1>1. CASE ReconcileEntry(g)
  <2>1. PICK s \in Earliest(request[g].todo) :
            request' = [request EXCEPT ![g] = Answered(@, s)]
    BY <1>1 DEF ReconcileEntry
  <2>2. s \in request[g].todo
    BY <2>1 DEF Earliest
  <2>3. request[g] \in Requests
    BY DEF TypeOK
  <2>4. \A h \in Gates, t \in Scans : Asked(h, t)' => Asked(h, t)
    BY <2>1, <2>2, <2>3 DEF Asked, Answered, TypeOK, Requests
  <2>5. UNCHANGED <<next, entry, scan, card>>
    BY <1>1 DEF ReconcileEntry
  <2> QED BY <2>4, <2>5, QuietScreens DEF Busy
<1>2. CASE OrphanEntry(g)
  <2>1. UNCHANGED <<next, entry, scan, card, request>>
    BY <1>2 DEF OrphanEntry
  <2> QED BY <2>1, QuietScreens DEF Busy, Asked
<1>3. CASE SyncFails(g) \/ RequestRefused(g)
  <2>1. UNCHANGED <<next, entry, scan, card>>
    BY <1>3 DEF SyncFails, RequestRefused
  <2>2. \A h \in Gates, t \in Scans : Asked(h, t)' => Asked(h, t)
    <3>1. request' = [request EXCEPT ![g] = NoRequest]
      BY <1>3 DEF SyncFails, RequestRefused
    <3> QED BY <3>1, NothingTyped DEF Asked, TypeOK, NoRequest
  <2> QED BY <2>1, <2>2, QuietScreens DEF Busy
<1>4. CASE SyncAnswered(g)
  <2>1. /\ UNCHANGED <<next, scan>>
        /\ request' = [request EXCEPT ![g] = NoRequest]
        /\ card' = [card EXCEPT ![g] = Cleared(card[g], TRUE)]
    BY <1>4 DEF SyncAnswered, TypeOK
  <2>2. /\ \A s \in Scans : entry'[s].gate = entry[s].gate
        /\ \A s \in Scans : entry[s].state # "none" => entry'[s].state # "none"
        /\ \A s \in Scans : entry'[s].state = entry[s].state
                            \/ (entry[s].state # "none" /\ entry[s].gate = g)
    <3>1. ASSUME NEW s \in Scans
          PROVE  entry'[s].gate = entry[s].gate /\ entry'[s].state = Folded(request[g], s)
      BY <1>4 DEF SyncAnswered, TypeOK, Entries
    <3>2. ASSUME NEW s \in Scans
          PROVE  /\ Folded(request[g], s) = entry[s].state \/ Asked(g, s)
                 /\ entry[s].state # "none" => Folded(request[g], s) # "none"
      BY DEF Folded, Asked
    <3>3. \A s \in Scans : Asked(g, s) => entry[s].state # "none" /\ entry[s].gate = g
      BY DEF ScreensFit, RequestFits
    <3> QED BY <3>1, <3>2, <3>3
  <2>3. \A s \in Scans : entry[s].state = "none" => entry'[s].state = "none"
    BY <2>2
  <2>4. Fresh'
    BY <2>1, <2>3 DEF ScreensFit, Fresh
  <2>5. ASSUME NEW h \in Gates PROVE ScanFits(h)' /\ RequestFits(h)' /\ CardFits(h)'
    <3>1. ScanFits(h)'
      BY <2>1, <2>3 DEF ScreensFit, ScanFits, Busy, ScanOnRecord
    <3>2. RequestFits(h)'
      <4>1. \A s \in Scans : Asked(h, s)' => Asked(h, s)
        BY <2>1, NothingTyped DEF Asked, TypeOK, NoRequest
      <4> QED BY <2>2, <4>1 DEF ScreensFit, RequestFits
    <3>3. CardFits(h)'
      <4>1. CASE h = g
        BY <2>1, <4>1 DEF CardFits, Cleared, NoCard, TypeOK
      <4>2. CASE h # g
        <5>1. card'[h] = card[h] /\ (card[h].scan # 0 => card[h].scan \in Scans)
          BY <2>1, <4>2 DEF TypeOK, Cards
        <5> QED BY <2>1, <2>2, <4>2, <5>1 DEF ScreensFit, CardFits, Busy
      <4> QED BY <4>1, <4>2
    <3> QED BY <3>1, <3>2, <3>3
  <2> QED BY <2>4, <2>5 DEF ScreensFit
<1> QED BY <1>1, <1>2, <1>3, <1>4 DEF Reconciling

\* The device: a request it starts carries what is pending.
LEMMA DeviceScreens ==
    ASSUME TypeOK, TypeOK', ScanOnRecord, ScreensFit, NEW g \in Gates, Device(g)
    PROVE  ScreensFit'
<1>1. ASSUME UNCHANGED <<next, entry, scan, card>>,
             request' = Synced(g) \/ UNCHANGED request
      PROVE  ScreensFit'
  <2>1. \A h \in Gates, s \in Scans : Asked(h, s)' => Asked(h, s) \/ s \in Pending(h)
    <3> DEFINE sent == [NoRequest EXCEPT !.phase = "sent", !.todo = Payload(g)]
    <3>1. request' = [request EXCEPT ![g] = sent] \/ UNCHANGED request
      BY <1>1 DEF Synced
    <3>2. sent.todo \subseteq Pending(g) /\ sent.answers = [s \in Scans |-> "none"]
      BY DEF NoRequest, Payload
    <3> HIDE DEF sent
    <3> QED BY <3>1, <3>2 DEF Asked, TypeOK
  <2> QED BY <1>1, <2>1, QuietScreens DEF Busy
<1>2. CASE Reload(g)
  <2>1. /\ UNCHANGED <<next, entry>>
        /\ \A h \in Gates : Busy(h)' => Busy(h) /\ scan'[h].scan = scan[h].scan
    BY <1>2, NothingTyped DEF Reload, TypeOK, Busy
  <2>2. \A h \in Gates : card'[h] = card[h] \/ ~card'[h].provisional
    BY <1>2 DEF Reload, TypeOK, NoCard
  <2>3. \A h \in Gates, s \in Scans : Asked(h, s)' => Asked(h, s) \/ s \in Pending(h)
    BY <1>2 DEF Reload, Asked, TypeOK, NoRequest, Payload
  <2> QED BY <2>1, <2>2, <2>3, QuietScreens
<1>3. CASE DismissCard(g)
  <2>1. UNCHANGED <<next, entry, scan, request>>
    BY <1>3 DEF DismissCard
  <2>2. \A h \in Gates : card'[h] = card[h] \/ card'[h].scan = 0
    BY <1>3 DEF DismissCard, TypeOK, NoCard
  <2> QED BY <2>1, <2>2, QuietScreens DEF Busy, Asked
<1>4. ASSUME NEW s \in Scans, Dismiss(g, s)
      PROVE  ScreensFit'
  <2>1. /\ UNCHANGED <<next, scan, request, card>>
        /\ \A t \in Scans : /\ entry'[t].gate = entry[t].gate
                            /\ entry'[t].state = "none" <=> entry[t].state = "none"
        /\ \A t \in Scans : entry[t].state \in {"none", "pending"}
                            => entry'[t].state = entry[t].state
    BY <1>4 DEF Dismiss, TypeOK, Entries
  <2>2. Fresh'
    BY <2>1 DEF ScreensFit, Fresh
  <2>3. ASSUME NEW h \in Gates PROVE ScanFits(h)' /\ RequestFits(h)' /\ CardFits(h)'
    <3>1. ScanFits(h)'
      BY <2>1 DEF ScreensFit, ScanFits, Busy, ScanOnRecord
    <3>2. RequestFits(h)'
      BY <2>1 DEF ScreensFit, RequestFits, Asked
    <3>3. CardFits(h)'
      <4>1. card[h].scan # 0 => card[h].scan \in Scans
        BY DEF TypeOK, Cards
      <4> QED BY <2>1, <4>1 DEF ScreensFit, CardFits, Busy
    <3> QED BY <3>1, <3>2, <3>3
  <2> QED BY <2>2, <2>3 DEF ScreensFit
<1>5. ComesOnline(g) \/ GoesOffline(g) \/ SyncNow(g) \/ ClearOutcome(g)
      \/ RefreshBundle(g) \/ BundleExpires(g) => ScreensFit'
  BY <1>1 DEF ComesOnline, GoesOffline, SyncNow, ClearOutcome, RefreshBundle, BundleExpires
<1> QED BY <1>2, <1>3, <1>4, <1>5 DEF Device

LEMMA ScreensHold == Spec => []ScreensFit
<1>1. Init => ScreensFit
  BY NothingTyped DEF Init, ScreensFit, Fresh, ScanFits, RequestFits, CardFits, Busy,
                      Asked, NoEntry, NoCard, NoRequest
<1>2. IInv /\ IInv' /\ ScreensFit /\ [Next]_vars => ScreensFit'
  <2> SUFFICES ASSUME TypeOK, TypeOK', ScanOnRecord, ScreensFit, [Next]_vars
               PROVE  ScreensFit'
    BY DEF IInv
  <2>1. ASSUME UNCHANGED <<next, entry, scan, card, request>>
        PROVE  ScreensFit'
    BY <2>1, QuietScreens DEF Busy, Asked
  <2>2. StrayVerified \/ Clock \/ (\E p \in Passes : Decide(p) \/ Lapse(p)) \/ UNCHANGED vars
        => UNCHANGED <<next, entry, scan, card, request>>
    BY DEF StrayVerified, Clock, Decide, Lapse, vars
  <2> QED BY <2>1, <2>2, ScanningScreens, ReconcilingScreens, DeviceScreens DEF Next
<1> QED BY <1>1, <1>2, Inductive, PTL DEF Spec

\* The card that says the server has not seen a scan yet is gone once the gate
\* has the server's answer on that scan (GateHome.jsx's effect on the outcome):
\* the entry of a card is in its own gate's queue, so the answer that settles it
\* is the one that clears the card.
THEOREM GateCardsArePending == Spec => []ProvisionalCardIsPending
<1>1. ScreensFit => ProvisionalCardIsPending
  BY DEF ScreensFit, CardFits, ProvisionalCardIsPending
<1> QED BY <1>1, ScreensHold, PTL

--------------------------------------------------------------------------------
(* Verified once, unless the gate is left without the answer.              *)

\* The gate decides a scan itself although the server has verified it, or
\* will: the answer is lost, or the call is slower than the browser waits.
DecidedTwice == \E g \in Gates : VerifyFails(g) /\ (scan[g].phase = "judged" \/ stray' # stray)

\* A scan the server has verified as it was made is in no queue and on no
\* record; one it has still to verify has let nobody through.
ScanOnce(s) ==
    /\ carried[s].live <= 1
    /\ s >= next => carried[s].live = 0
    /\ entry[s].state # "none" => carried[s].live = 0
    /\ log[s] # "none" => entry[s].state # "none"
Waits(g) == scan[g].phase \in {"held", "asked"}
GateOnce(g) ==
    /\ Waits(g) => carried[scan[g].scan].live = 0
    /\ \A s \in orphan[g] : entry[s].state # "none"
StrayOnce(v) ==
    /\ v.scan < next /\ carried[v.scan].live = 0 /\ entry[v.scan].state = "none"
    /\ \A w \in stray : w.scan = v.scan => w = v
    /\ \A g \in Gates : Busy(g) => scan[g].scan # v.scan
AllOnce ==
    (\A s \in Scans : ScanOnce(s)) /\ (\A g \in Gates : GateOnce(g)) /\ (\A v \in stray : StrayOnce(v))

\* Verifying counts for the scan that is verified, and from where it came.
LEMMA VerifiedCounts ==
    ASSUME TypeOK, NEW s \in Scans, NEW p, NEW at, NEW how \in {"live", "queued"},
           Verified(s, p, at, how)
    PROVE  /\ \A t \in Scans : t # s \/ how = "queued" => carried'[t].live = carried[t].live
           /\ carried'[s].live <= carried[s].live + 1
<1>1. carried \in [Scans -> [live : Nat, queued : Nat]]
  BY DEF TypeOK
<1>2. carried' = [carried EXCEPT ![s][how] = @ + 1] \/ carried' = carried
  BY DEF Verified
<1>3. CASE how = "live"
  BY <1>1, <1>2, <1>3
<1>4. CASE how = "queued"
  BY <1>1, <1>2, <1>4
<1> QED BY <1>3, <1>4

\* A step that verifies nothing: a scan given up on may stay with the server,
\* and one whose answer is no longer awaited leaves its entries behind.
LEMMA QuietOnce ==
    ASSUME TypeOK, ScanOnRecord, ScreensFit, AllOnce, UNCHANGED <<log, carried, next>>,
           \A s \in Scans : entry'[s].state = "none" <=> entry[s].state = "none",
           \A h \in Gates : Busy(h)' => Busy(h) /\ scan'[h].scan = scan[h].scan,
           \A h \in Gates : Waits(h)' => Waits(h),
           \A h \in Gates, s \in Scans : s \in orphan'[h] => s \in orphan[h] \/ Asked(h, s),
           \A h \in Gates : orphan'[h] \subseteq Scans,
           \/ UNCHANGED stray
           \/ \E g \in Gates :
                 /\ scan[g].phase = "asked" /\ ~Busy(g)'
                 /\ stray' = stray \union {[scan |-> scan[g].scan, pass |-> scan[g].pass]}
    PROVE  AllOnce'
<1>1. \A s \in Scans : ScanOnce(s)'
  BY DEF AllOnce, ScanOnce
<1>2. ASSUME NEW h \in Gates PROVE GateOnce(h)'
  <2>1. \A s \in Scans : Asked(h, s) => entry[s].state # "none"
    BY DEF ScreensFit, RequestFits
  <2>2. \A s \in orphan'[h] : entry'[s].state # "none"
    BY <2>1 DEF AllOnce, GateOnce
  <2>3. Waits(h)' => Waits(h) /\ scan'[h].scan = scan[h].scan
    BY DEF Busy, Waits
  <2> QED BY <2>2, <2>3 DEF AllOnce, GateOnce
<1>3. ASSUME NEW v \in stray' PROVE StrayOnce(v)'
  <2>1. \A w \in stray : w.scan \in Scans
    BY DEF TypeOK
  <2>2. CASE UNCHANGED stray
    BY <2>1, <2>2 DEF AllOnce, StrayOnce
  <2>3. ASSUME NEW g \in Gates, scan[g].phase = "asked", ~Busy(g)',
               stray' = stray \union {[scan |-> scan[g].scan, pass |-> scan[g].pass]}
        PROVE  StrayOnce(v)'
    <3> DEFINE u == [scan |-> scan[g].scan, pass |-> scan[g].pass]
    <3>1. /\ Busy(g) /\ u.scan = scan[g].scan /\ u.scan \in Scans
          /\ \A w \in stray : w.scan # u.scan
      BY <2>3 DEF Busy, ScanOnRecord, AllOnce, StrayOnce
    <3>2. /\ u.scan < next /\ carried[u.scan].live = 0 /\ entry[u.scan].state = "none"
          /\ \A h \in Gates : Busy(h)' => scan'[h].scan # u.scan
      <4>1. carried[u.scan].live = 0
        BY <2>3 DEF AllOnce, GateOnce, Waits
      <4>2. u.scan < next /\ entry[u.scan].state = "none"
        BY <3>1 DEF ScreensFit, ScanFits
      <4>3. \A h \in Gates : Busy(h)' => scan'[h].scan # u.scan
        BY <2>3, <3>1 DEF ScreensFit, ScanFits
      <4> QED BY <4>1, <4>2, <4>3
    <3>3. v = u \/ v \in stray
      BY <2>3
    <3> HIDE DEF u
    <3>4. \A w \in stray' : w = u \/ w \in stray
      BY <2>3 DEF u
    <3>5. CASE v = u
      BY <3>1, <3>2, <3>4, <3>5 DEF StrayOnce
    <3>6. CASE v \in stray
      BY <2>1, <3>1, <3>4, <3>6 DEF AllOnce, StrayOnce
    <3> QED BY <3>3, <3>5, <3>6
  <2> QED BY <2>2, <2>3
<1> QED BY <1>1, <1>2, <1>3 DEF AllOnce

\* The server verifies scan s as it was made: it has let nobody through, is in
\* no queue, and the server has it from nowhere else.
LEMMA LiveOnce ==
    ASSUME TypeOK, TypeOK', ScanOnRecord, AllOnce, NEW s \in Scans, NEW p, NEW at,
           Verified(s, p, at, "live"), UNCHANGED <<log, entry, orphan, next>>,
           s < next, entry[s].state = "none", carried[s].live = 0,
           stray' \subseteq stray, \A v \in stray' : v.scan # s,
           \A h \in Gates : Busy(h)' => Busy(h) /\ scan'[h].scan = scan[h].scan,
           \A h \in Gates : Waits(h)' => Waits(h) /\ scan[h].scan # s
    PROVE  AllOnce'
<1>1. /\ \A t \in Scans : t # s => carried'[t].live = carried[t].live
      /\ carried'[s].live <= 1 /\ carried'[s].live \in Nat
  BY VerifiedCounts DEF TypeOK
<1>2. ~(s >= next) /\ next' = next
  <2>1. s \in Int /\ next \in Int
    BY GateAssumption, FS_CardinalityType DEF TypeOK
  <2> QED BY <2>1
<1>3. \A t \in Scans : ScanOnce(t)'
  BY <1>1, <1>2 DEF AllOnce, ScanOnce
<1>4. \A h \in Gates : GateOnce(h)'
  BY <1>1 DEF AllOnce, GateOnce, ScanOnRecord, Busy, Waits
<1>5. \A v \in stray' : StrayOnce(v)'
  <2>1. \A v \in stray : v.scan \in Scans
    BY DEF TypeOK
  <2> QED BY <1>1, <2>1 DEF AllOnce, StrayOnce
<1> QED BY <1>3, <1>4, <1>5 DEF AllOnce

\* The device decides scan s, which the server has not verified and has no more.
LEMMA OfflineOnce ==
    ASSUME TypeOK, TypeOK', ScanOnRecord, AllOnce, NEW g \in Gates, NEW s \in Scans,
           NEW p, Offline(g, s, p), UNCHANGED <<log, carried, orphan, stray>>,
           next' \in {next, next + 1}, carried[s].live = 0,
           \A v \in stray : v.scan # s,
           \A h \in Gates : Busy(h)' => Busy(h) /\ scan'[h] = scan[h]
    PROVE  AllOnce'
<1>1. \A t \in Scans : entry'[t] = entry[t] \/ (t = s /\ entry'[t].state = "pending")
  BY DEF Offline, TypeOK
<1>2. /\ \A t \in Scans : t \in Int
      /\ next \in Int /\ next' \in Int /\ next <= next'
  BY GateAssumption, FS_CardinalityType DEF TypeOK
<1>3. \A t \in Scans : ScanOnce(t)'
  BY <1>1, <1>2 DEF AllOnce, ScanOnce
<1>4. \A h \in Gates : GateOnce(h)'
  <2>1. \A h \in Gates : orphan[h] \subseteq Scans
    BY DEF TypeOK
  <2> QED BY <1>1, <2>1 DEF AllOnce, GateOnce, Busy, Waits
<1>5. \A v \in stray' : StrayOnce(v)'
  <2>1. \A v \in stray : v.scan \in Scans
    BY DEF TypeOK
  <2> QED BY <1>1, <1>2, <2>1 DEF AllOnce, StrayOnce
<1> QED BY <1>3, <1>4, <1>5 DEF AllOnce

\* Reconciling counts for the queue, and records what is in it.
LEMMA RecordedOnce ==
    ASSUME TypeOK, ScanOnRecord, AllOnce, NEW s \in Scans, Recorded(s),
           entry[s].state # "none", UNCHANGED <<stray, entry, scan, next>>,
           \A h \in Gates : orphan'[h] \subseteq orphan[h]
    PROVE  AllOnce'
<1>1. /\ \A t \in Scans : carried'[t].live = carried[t].live
      /\ \A t \in Scans : log'[t] # "none" => log[t] # "none" \/ t = s
  <2>1. CASE log[s] # "none"
    BY <2>1 DEF Recorded
  <2>2. CASE log[s] = "none"
    <3>1. Verified(s, entry[s].pass, entry[s].at, "queued")
      BY <2>2 DEF Recorded
    <3>2. \A t \in Scans : carried'[t].live = carried[t].live
      BY <3>1, VerifiedCounts
    <3>3. \A t \in Scans : t # s => log'[t] = log[t]
      BY <2>2 DEF Recorded, TypeOK
    <3> QED BY <3>2, <3>3
  <2> QED BY <2>1, <2>2
<1>2. \A t \in Scans : ScanOnce(t)'
  BY <1>1 DEF AllOnce, ScanOnce
<1>3. \A h \in Gates : GateOnce(h)'
  BY <1>1 DEF AllOnce, GateOnce, ScanOnRecord, TypeOK, Waits
<1>4. \A v \in stray' : StrayOnce(v)'
  BY <1>1 DEF AllOnce, StrayOnce, TypeOK, Busy
<1> QED BY <1>2, <1>3, <1>4 DEF AllOnce

\* Scanning, with every answer heard.
LEMMA ScanningOnce ==
    ASSUME TypeOK, TypeOK', ScanOnRecord, ScreensFit, AllOnce, NEW g \in Gates, Scanning(g),
           ~DecidedTwice
    PROVE  AllOnce'
<1>1. ASSUME NEW p \in Codes, Present(g, p) PROVE AllOnce'
  <2>1. /\ next \in Scans /\ next \in Int /\ next' = next + 1 /\ ~Busy(g)
        /\ UNCHANGED <<log, carried, orphan, stray>>
    BY <1>1 DEF Present, server, Busy, TypeOK
  <2>2. /\ carried[next].live = 0
        /\ \A v \in stray : v.scan # next
    <3>1. \A v \in stray : v.scan < next /\ v.scan \in Scans
      BY DEF AllOnce, StrayOnce, TypeOK
    <3>2. \A t \in Scans : t \in Int
      BY GateAssumption, FS_CardinalityType
    <3> QED BY <2>1, <3>1, <3>2 DEF AllOnce, ScanOnce
  <2>3. CASE network[g] = "absent"
    <3>1. Offline(g, next, p) /\ UNCHANGED scan
      BY <1>1, <2>3 DEF Present
    <3> QED BY <2>1, <2>2, <3>1, OfflineOnce DEF Busy
  <2>4. CASE network[g] # "absent"
    <3> DEFINE asked == [phase |-> IF Online(g) THEN "asked" ELSE "held", scan |-> next,
                         pass |-> p, verdict |-> "none"]
    <3>1. scan' = [scan EXCEPT ![g] = asked] /\ UNCHANGED entry
      BY <1>1, <2>4 DEF Present
    <3>2. asked.scan = next
      OBVIOUS
    <3> HIDE DEF asked
    <3>3. /\ scan'[g].scan = next
          /\ \A h \in Gates : h # g => scan'[h] = scan[h]
      BY <3>1, <3>2 DEF TypeOK
    <3>4. /\ \A t \in Scans : t \in Int
          /\ \A v \in stray : v.scan \in Scans
      <4>1. \A t \in Scans : t \in Int
        BY GateAssumption, FS_CardinalityType
      <4>2. \A v \in stray : v.scan \in Scans
        BY DEF TypeOK
      <4> QED BY <4>1, <4>2
    <3>5. \A t \in Scans : ScanOnce(t)'
      BY <2>1, <3>1, <3>4 DEF AllOnce, ScanOnce
    <3>6. \A h \in Gates : GateOnce(h)'
      BY <2>1, <2>2, <3>1, <3>3 DEF AllOnce, GateOnce, Waits
    <3>7. ASSUME NEW v \in stray' PROVE StrayOnce(v)'
      <4>1. v \in stray /\ v.scan \in Int /\ v.scan < next /\ v.scan # next
        BY <2>1, <2>2, <3>4 DEF AllOnce, StrayOnce
      <4>2. v.scan < next'
        BY <2>1, <4>1
      <4>3. \A h \in Gates : Busy(h)' => scan'[h].scan # v.scan
        BY <3>3, <4>1 DEF AllOnce, StrayOnce, Busy
      <4> QED BY <2>1, <3>1, <4>1, <4>2, <4>3 DEF AllOnce, StrayOnce
    <3> QED BY <3>5, <3>6, <3>7 DEF AllOnce
  <2> QED BY <2>3, <2>4
<1>2. ASSUME ServerVerifies(g) PROVE AllOnce'
  <2> DEFINE s == scan[g].scan
  <2>1. /\ Busy(g) /\ scan[g].phase = "asked" /\ Verified(s, scan[g].pass, now, "live")
        /\ UNCHANGED <<log, stray, entry, orphan, next>>
        /\ scan'[g].phase = "judged" /\ scan'[g].scan = s
        /\ \A h \in Gates : h # g => scan'[h] = scan[h]
    BY <1>2 DEF ServerVerifies, Busy, TypeOK
  <2>2. s \in Scans /\ s < next /\ entry[s].state = "none" /\ carried[s].live = 0
    BY <2>1 DEF ScanOnRecord, ScreensFit, ScanFits, AllOnce, GateOnce, Busy, Waits
  <2>3. \A v \in stray : v.scan # s
    BY <2>1 DEF AllOnce, StrayOnce
  <2>4. \A h \in Gates : Busy(h)' => Busy(h) /\ scan'[h].scan = scan[h].scan
    BY <2>1 DEF Busy
  <2>5. \A h \in Gates : Waits(h)' => Waits(h) /\ scan[h].scan # s
    BY <2>1 DEF ScreensFit, ScanFits, Busy, Waits
  <2> HIDE DEF s
  <2> QED BY <2>1, <2>2, <2>3, <2>4, <2>5, LiveOnce
<1>3. ASSUME VerifyAnswered(g) PROVE AllOnce'
  <2>1. /\ UNCHANGED <<log, carried, next, entry, orphan, stray>>
        /\ scan' = [scan EXCEPT ![g] = NoScan]
    BY <1>3 DEF VerifyAnswered, server
  <2>2. \A h \in Gates : /\ Busy(h)' => Busy(h) /\ scan'[h].scan = scan[h].scan
                         /\ Waits(h)' => Waits(h)
    BY <2>1, NothingTyped DEF TypeOK, Busy, Waits
  <2>3. \A h \in Gates : orphan'[h] \subseteq Scans
    BY <2>1 DEF TypeOK
  <2> QED BY <2>1, <2>2, <2>3, QuietOnce
<1>4. ASSUME DecidesItself(g), Waits(g), UNCHANGED stray PROVE AllOnce'
  <2> DEFINE s == scan[g].scan
  <2>1. /\ Offline(g, s, scan[g].pass) /\ scan' = [scan EXCEPT ![g] = NoScan]
        /\ UNCHANGED <<log, carried, orphan, stray, next>> /\ Busy(g)
    BY <1>4 DEF DecidesItself
  <2>2. s \in Scans /\ carried[s].live = 0
    BY <1>4, <2>1 DEF ScanOnRecord, AllOnce, GateOnce, Busy
  <2>3. \A v \in stray : v.scan # s
    BY <2>1 DEF AllOnce, StrayOnce
  <2>4. \A h \in Gates : Busy(h)' => Busy(h) /\ scan'[h] = scan[h]
    BY <2>1, NothingTyped DEF TypeOK, Busy
  <2> HIDE DEF s
  <2> QED BY <2>1, <2>2, <2>3, <2>4, OfflineOnce
<1>5. ASSUME AsksAtLast(g) PROVE AllOnce'
  <2>1. /\ UNCHANGED <<log, carried, next, entry, orphan, stray>>
        /\ scan[g].phase = "held" /\ scan' = [scan EXCEPT ![g].phase = "asked"]
    BY <1>5 DEF AsksAtLast, server
  <2>2. \A h \in Gates : /\ Busy(h)' => Busy(h) /\ scan'[h].scan = scan[h].scan
                         /\ Waits(h)' => Waits(h)
    BY <2>1 DEF TypeOK, Busy, Waits
  <2>3. \A h \in Gates : orphan'[h] \subseteq Scans
    BY <2>1 DEF TypeOK
  <2> QED BY <2>1, <2>2, <2>3, QuietOnce
<1>6. ASSUME VerifyFails(g) \/ VerifyRefused(g) \/ Resume(g), DecidesItself(g)
      PROVE  Waits(g) /\ UNCHANGED stray
  <2>1. CASE VerifyFails(g)
    BY <2>1 DEF DecidedTwice, VerifyFails, Waits
  <2>2. CASE VerifyRefused(g) \/ Resume(g)
    BY <2>2 DEF VerifyRefused, Resume, Waits, server
  <2> QED BY <1>6, <2>1, <2>2
<1>7. CASE VerifyFails(g) \/ VerifyRefused(g) \/ Resume(g)
  <2>1. DecidesItself(g) \/ AsksAtLast(g)
    BY <1>7, Undecided
  <2> QED BY <1>4, <1>5, <1>6, <1>7, <2>1
<1> QED BY <1>1, <1>2, <1>3, <1>7 DEF Scanning

\* Reconciling puts before the server what is in a queue.
LEMMA ReconcilingOnce ==
    ASSUME TypeOK, TypeOK', ScanOnRecord, ScreensFit, AllOnce, NEW g \in Gates, Reconciling(g)
    PROVE  AllOnce'
<1>1. CASE ReconcileEntry(g)
  <2>1. PICK s \in Earliest(request[g].todo) : Recorded(s)
    BY <1>1 DEF ReconcileEntry
  <2>2. s \in Scans /\ entry[s].state # "none"
    BY <2>1 DEF Earliest, TypeOK, Requests, ScreensFit, RequestFits, Asked
  <2>3. UNCHANGED <<stray, entry, scan, next, orphan>>
    BY <1>1 DEF ReconcileEntry
  <2> QED BY <2>1, <2>2, <2>3, RecordedOnce
<1>2. CASE OrphanEntry(g)
  <2>1. PICK s \in Earliest(orphan[g]) : Recorded(s) /\ orphan' = [orphan EXCEPT ![g] = @ \ {s}]
    BY <1>2 DEF OrphanEntry
  <2>2. s \in Scans /\ entry[s].state # "none"
    BY <2>1 DEF Earliest, TypeOK, AllOnce, GateOnce
  <2>3. UNCHANGED <<stray, entry, scan, next>> /\ \A h \in Gates : orphan'[h] \subseteq orphan[h]
    BY <1>2, <2>1 DEF OrphanEntry, TypeOK
  <2> QED BY <2>1, <2>2, <2>3, RecordedOnce
<1>3. CASE SyncAnswered(g)
  <2>1. UNCHANGED <<log, carried, next, stray, scan, orphan>>
    BY <1>3 DEF SyncAnswered, server
  <2>2. \A s \in Scans : entry'[s].state = "none" <=> entry[s].state = "none"
    <3>1. ASSUME NEW s \in Scans PROVE entry'[s].state = Folded(request[g], s)
      BY <1>3 DEF SyncAnswered, TypeOK, Entries
    <3>2. ASSUME NEW s \in Scans
          PROVE  Folded(request[g], s) = "none" <=> entry[s].state = "none"
      BY DEF Folded, ScreensFit, RequestFits, Asked
    <3> QED BY <3>1, <3>2
  <2>3. \A h \in Gates : orphan'[h] \subseteq Scans
    BY <2>1 DEF TypeOK
  <2> QED BY <2>1, <2>2, <2>3, QuietOnce DEF Busy, Waits
<1>4. CASE SyncFails(g) \/ RequestRefused(g)
  <2>1. UNCHANGED <<log, carried, next, stray, scan, entry>>
    BY <1>4 DEF SyncFails, RequestRefused, server
  <2>2. \A h \in Gates, s \in Scans : s \in orphan'[h] => s \in orphan[h] \/ Asked(h, s)
    BY <1>4 DEF SyncFails, RequestRefused, Left, Asked, TypeOK
  <2>3. \A h \in Gates : orphan'[h] \subseteq Scans
    BY DEF TypeOK
  <2> QED BY <2>1, <2>2, <2>3, QuietOnce DEF Busy, Waits
<1> QED BY <1>1, <1>2, <1>3, <1>4 DEF Reconciling

\* The device, the server with what it still has, the residents and the clock.
LEMMA DeviceOnce ==
    ASSUME TypeOK, TypeOK', ScanOnRecord, ScreensFit, AllOnce, NEW g \in Gates, Device(g)
    PROVE  AllOnce'
<1>0. \A h \in Gates : orphan'[h] \subseteq Scans
  BY DEF TypeOK
<1>1. CASE Reload(g)
  <2>1. /\ UNCHANGED <<log, carried, next, entry>> /\ GivenUp(g)
        /\ scan' = [scan EXCEPT ![g] = NoScan]
    BY <1>1 DEF Reload
  <2>2. /\ \A h \in Gates : /\ Busy(h)' => Busy(h) /\ scan'[h].scan = scan[h].scan
                            /\ Waits(h)' => Waits(h)
        /\ ~Busy(g)'
    BY <2>1, NothingTyped DEF TypeOK, Busy, Waits
  <2>3. \A h \in Gates, s \in Scans : s \in orphan'[h] => s \in orphan[h] \/ Asked(h, s)
    BY <1>1 DEF Reload, Left, Asked, TypeOK
  <2>4. \/ UNCHANGED stray
        \/ /\ scan[g].phase = "asked"
           /\ stray' = stray \union {[scan |-> scan[g].scan, pass |-> scan[g].pass]}
    BY <2>1 DEF GivenUp
  <2>5. \/ UNCHANGED stray
        \/ \E h \in Gates :
              /\ scan[h].phase = "asked" /\ ~Busy(h)'
              /\ stray' = stray \union {[scan |-> scan[h].scan, pass |-> scan[h].pass]}
    BY <2>2, <2>4
  <2> QED BY <1>0, <2>1, <2>2, <2>3, <2>5, QuietOnce
<1>2. ASSUME NEW s \in Scans, Dismiss(g, s) PROVE AllOnce'
  <2>1. UNCHANGED <<log, carried, next, stray, scan, orphan>>
    BY <1>2 DEF Dismiss, server
  <2>2. \A t \in Scans : entry'[t].state = "none" <=> entry[t].state = "none"
    BY <1>2 DEF Dismiss, TypeOK, Entries
  <2> QED BY <1>0, <2>1, <2>2, QuietOnce DEF Busy, Waits
<1>3. CASE \/ ComesOnline(g) \/ GoesOffline(g) \/ SyncNow(g) \/ ClearOutcome(g) \/ DismissCard(g)
           \/ RefreshBundle(g) \/ BundleExpires(g)
  <2>1. UNCHANGED <<log, carried, next, stray, scan, orphan, entry>>
    BY <1>3 DEF ComesOnline, GoesOffline, SyncNow, ClearOutcome, DismissCard, RefreshBundle,
                BundleExpires, server
  <2> QED BY <1>0, <2>1, QuietOnce DEF Busy, Waits
<1> QED BY <1>1, <1>2, <1>3 DEF Device

LEMMA WorldOnce ==
    ASSUME TypeOK, TypeOK', ScanOnRecord, ScreensFit, AllOnce,
           \/ StrayVerified \/ Clock \/ UNCHANGED vars
           \/ \E p \in Passes : Decide(p) \/ Lapse(p)
    PROVE  AllOnce'
<1>1. CASE StrayVerified
  <2>1. PICK v \in stray : Verified(v.scan, v.pass, now, "live") /\ stray' = stray \ {v}
    BY <1>1 DEF StrayVerified
  <2>2. UNCHANGED <<log, entry, orphan, next, scan>>
    BY <1>1 DEF StrayVerified
  <2>3. v.scan \in Scans /\ StrayOnce(v)
    BY DEF TypeOK, AllOnce
  <2>4. \A w \in stray' : w.scan # v.scan
    BY <2>1, <2>3 DEF StrayOnce
  <2>5. \A h \in Gates : Waits(h)' => Waits(h) /\ scan[h].scan # v.scan
    BY <2>2, <2>3 DEF StrayOnce, Busy, Waits
  <2> QED BY <2>1, <2>2, <2>3, <2>4, <2>5, LiveOnce DEF StrayOnce, Busy
<1>2. CASE Clock \/ UNCHANGED vars \/ \E p \in Passes : Decide(p) \/ Lapse(p)
  <2>1. UNCHANGED <<log, carried, next, stray, scan, orphan, entry>>
    BY <1>2 DEF Clock, Decide, Lapse, vars
  <2>2. \A h \in Gates : orphan'[h] \subseteq Scans
    BY <2>1 DEF TypeOK
  <2> QED BY <2>1, <2>2, QuietOnce DEF Busy, Waits
<1> QED BY <1>1, <1>2

\* One scan lets its visitor in or out once as long as no gate decides itself a
\* scan that the server has verified, or will: that is the only way to the
\* second verification which GateHome.jsx refuses to ask for. Neither reloads,
\* failed syncs, orphaned requests nor a verification that outlives its screen
\* bring it about.
THEOREM VerifiedOnceIfHeard == Spec /\ [][~DecidedTwice]_vars => []VerifiedOnce
<1>1. Init => AllOnce
  BY NothingTyped DEF Init, AllOnce, ScanOnce, GateOnce, NoEntry, Waits
<1>2. IInv /\ IInv' /\ ScreensFit /\ AllOnce /\ [Next]_vars /\ [~DecidedTwice]_vars => AllOnce'
  <2> SUFFICES ASSUME TypeOK, TypeOK', ScanOnRecord, ScreensFit, AllOnce, [Next]_vars,
                      [~DecidedTwice]_vars
               PROVE  AllOnce'
    BY DEF IInv
  <2>1. CASE UNCHANGED vars
    BY <2>1, WorldOnce
  <2>2. CASE Next /\ ~DecidedTwice
    BY <2>2, ScanningOnce, ReconcilingOnce, DeviceOnce, WorldOnce DEF Next
  <2> QED BY <2>1, <2>2
<1>3. IInv /\ AllOnce => VerifiedOnce
  <2> SUFFICES ASSUME IInv, AllOnce, NEW s \in Scans
               PROVE  carried[s].live + carried[s].queued <= 1
    BY DEF VerifiedOnce
  <2>1. /\ carried[s].live \in Nat /\ carried[s].queued \in Nat /\ carried[s].live <= 1
        /\ carried[s].queued <= 1
        /\ log[s] = "none" => carried[s].queued <= 0
        /\ log[s] # "none" => carried[s].live = 0
    BY DEF IInv, TypeOK, ReconciledOnce, AllOnce, ScanOnce, LetThrough
  <2> QED BY <2>1
<1> QED BY <1>1, <1>2, <1>3, ScreensHold, Inductive, PTL DEF Spec
=============================================================================
