----------------------------- MODULE OfflineGate -----------------------------
(***************************************************************************)
(* The gate screen with and without its network: verifying a pass on line, *)
(* deciding it on the device's cached list when that fails, the queue of   *)
(* such scans that the device keeps, and the reconciliation that has the   *)
(* server verify each of them again, once.                                 *)
(*                                                                         *)
(* Scans are numbered in the order they are made, which is their order in  *)
(* the queue; the number is the entry's sourceClientId too. A request goes *)
(* on at the server when its device has given up on it or was reloaded.    *)
(***************************************************************************)
EXTENDS Integers, FiniteSets

CONSTANTS Gates,      \* devices
          Passes,     \* visitor passes, valid for the same window
          TooLong,    \* a code of more characters than a request may hold
          Guests,     \* guest_count of each
          Scans,      \* the scans a behaviour may hold, 1..n
          MaxTooLong, \* bound: such codes in the queue when another is presented
          Batch,      \* entries in one reconcile request (RECONCILE_BATCH)
          MaxFaults   \* bound: answers lost, requests broken, reloads

ASSUME GateAssumption ==
    /\ IsFiniteSet(Scans) /\ Scans = 1..Cardinality(Scans)
    /\ Gates # {} /\ Passes # {} /\ TooLong \notin Passes
    /\ Guests \in Nat \ {0} /\ Batch \in Nat \ {0} /\ MaxTooLong \in Nat /\ MaxFaults \in Nat

VARIABLES
    now,       \* "before", "during" or "over": the passes' window
    pass,      \* visitor_requests: status, and admissions in visitor_events
    log,       \* offline_reconcile_log: the server's verdict on an entry
    carried,   \* history: how often a scan let somebody in or out, as it was
               \* made ("live") and from the queue
    network,   \* as the gate's screen last heard: "up", "lost", or "absent",
               \* which is down since before the page was loaded
    bundle,    \* the cached pass list: is it in its window, which passes
    scan,      \* the verification under way at a gate
    stray,     \* those the server still has although their gate gave them up
    entry,     \* the queues' entries, by scan
    request,   \* the reconcile request a gate waits for
    orphan,    \* one it no longer waits for
    card,      \* the verdict on screen
    outcome,   \* is the banner of the last sync on screen?
    next,      \* the next scan's number
    faults

vars == <<now, pass, log, carried, stray, network, bundle, scan, entry, request,
          orphan, card, outcome, next, faults>>

server == <<now, pass, log, carried, stray>>

Statuses  == {"expected", "pending_approval", "cancelled", "expired", "checked_in", "checked_out"}
LetThrough == {"admitted", "departed"}
Verdicts  == LetThrough \union {"refused", "not_yet_valid", "expired", "not_found"}
Moments   == {"before", "during", "over"}
Phases    == {"idle", "held", "asked", "judged"}
Codes     == Passes \union {TooLong}

Online(g) == network[g] = "up"

--------------------------------------------------------------------------------
(* verify_gate_credential: its answer, and what it does to the pass. A     *)
(* scan is judged at the moment it was made.                               *)

GateVerdict(p, at) ==
    IF p.status \in {"cancelled", "pending_approval"} THEN "refused"
    ELSE CASE at = "before" -> "not_yet_valid"
           [] at = "over"   -> "expired"
           [] at = "during" /\ p.status = "checked_out" -> "refused"
           [] at = "during" /\ p.status = "checked_in" /\ p.inside >= Guests -> "departed"
           [] OTHER -> "admitted"

\* Mutant of AfterScan: the verdict is stored for the status.
AfterScanVerdict(p, at) ==
    IF GateVerdict(p, at) \in LetThrough THEN [p EXCEPT !.status = GateVerdict(p, at)] ELSE p

AfterScan(p, at) ==
    CASE GateVerdict(p, at) = "admitted" -> [status |-> "checked_in", inside |-> p.inside + 1]
      [] GateVerdict(p, at) = "departed" -> [p EXCEPT !.status = "checked_out"]
      [] OTHER -> p

\* The server verifies scan s of pass p, presented at the given moment, as it
\* is made or from the queue.
Verified(s, p, at, how) ==
    /\ pass' = [pass EXCEPT ![p] = AfterScan(@, at)]
    /\ carried' = IF GateVerdict(pass[p], at) \in LetThrough
                  THEN [carried EXCEPT ![s][how] = @ + 1] ELSE carried

--------------------------------------------------------------------------------
(* Scanning.                                                               *)

NoScan   == [phase |-> "idle", scan |-> 0, pass |-> CHOOSE p \in Passes : TRUE, verdict |-> "none"]
NoCard   == [scan |-> 0, verdict |-> "none", provisional |-> FALSE]
NoEntry  == [state |-> "none", gate |-> CHOOSE g \in Gates : TRUE,
             pass |-> CHOOSE p \in Passes : TRUE, at |-> "during"]

\* Mutant of Cleared: the card stays.
ClearedNever(c, anOutcome) == c

\* The screen's effect: a provisional card goes when there is an outcome.
Cleared(c, anOutcome) == IF anOutcome /\ c.provisional THEN NoCard ELSE c

\* verifyLocal: the cached list, and the window.
LocalVerdict(g, p) ==
    IF p \notin bundle[g].passes THEN "not_found"
    ELSE CASE now = "before" -> "not_yet_valid"
           [] now = "during" -> "admitted"
           [] now = "over"   -> "expired"

\* verifyOffline: every scan decided here is queued; with a list that has
\* expired nothing is decided.
Offline(g, s, p) ==
    LET verdict == IF bundle[g].usable THEN LocalVerdict(g, p) ELSE "not_found"
    IN  /\ entry' = IF bundle[g].usable
                    THEN [entry EXCEPT ![s] =
                              [state |-> "pending", gate |-> g, pass |-> p, at |-> now]]
                    ELSE entry
        /\ card' = [card EXCEPT ![g] =
                       Cleared([scan |-> s, verdict |-> verdict, provisional |-> TRUE], outcome[g])]

\* A code is presented: to the server when there is a network; to the device
\* when there was none at the page's load; and when it was lost since, the
\* mutation is held back until it returns.
Present(g, p) ==
    /\ next \in Scans /\ scan[g].phase = "idle"
    /\ p = TooLong => Cardinality({s \in Scans : entry[s].pass = TooLong}) < MaxTooLong
    /\ next' = next + 1
    /\ IF network[g] = "absent"
       THEN Offline(g, next, p) /\ UNCHANGED scan
       ELSE /\ scan' = [scan EXCEPT ![g] = [phase |-> IF Online(g) THEN "asked" ELSE "held",
                                            scan |-> next, pass |-> p, verdict |-> "none"]]
            /\ UNCHANGED <<entry, card>>
    /\ UNCHANGED <<server, network, bundle, request, orphan, outcome, faults>>

\* The network has returned, and the mutation runs: as the screen would now,
\* or, when it is not drawn anew yet, as it would have when it was held.
Resume(g) ==
    /\ scan[g].phase = "held" /\ Online(g)
    /\ \/ /\ scan' = [scan EXCEPT ![g].phase = "asked"]
          /\ UNCHANGED <<entry, card>>
       \/ /\ scan' = [scan EXCEPT ![g] = NoScan]
          /\ Offline(g, scan[g].scan, scan[g].pass)
    /\ UNCHANGED <<server, network, bundle, request, orphan, outcome, next, faults>>

ServerVerifies(g) ==
    /\ scan[g].phase = "asked" /\ scan[g].pass # TooLong
    /\ scan' = [scan EXCEPT ![g].phase = "judged",
                            ![g].verdict = GateVerdict(pass[scan[g].pass], now)]
    /\ Verified(scan[g].scan, scan[g].pass, now, "live")
    /\ UNCHANGED <<now, log, stray, network, bundle, entry, request, orphan, card, outcome, next, faults>>

VerifyAnswered(g) ==
    /\ scan[g].phase = "judged"
    /\ scan' = [scan EXCEPT ![g] = NoScan]
    /\ card' = [card EXCEPT ![g] = [scan |-> scan[g].scan, verdict |-> scan[g].verdict,
                                    provisional |-> FALSE]]
    /\ UNCHANGED <<server, network, bundle, entry, request, orphan, outcome, next, faults>>

\* GateVerifyRequest: a code that is too long is refused, and the device
\* decides.
VerifyRefused(g) ==
    /\ scan[g].phase = "asked" /\ scan[g].pass = TooLong
    /\ scan' = [scan EXCEPT ![g] = NoScan]
    /\ Offline(g, scan[g].scan, TooLong)
    /\ UNCHANGED <<server, network, bundle, request, orphan, outcome, next, faults>>

\* The call a gate gives up on is lost, or is with the server still.
GivenUp(g) ==
    stray' \in IF scan[g].phase = "asked" /\ scan[g].pass # TooLong
              THEN {stray, stray \union {[scan |-> scan[g].scan, pass |-> scan[g].pass]}}
              ELSE {stray}

\* Any error of the call, before the server has judged (it is lost, or slower
\* than the browser waits) or after it (its answer is lost): the device
\* decides, and queues the scan.
VerifyFails(g) ==
    /\ scan[g].phase \in {"asked", "judged"} /\ faults > 0
    /\ faults' = faults - 1
    /\ scan' = [scan EXCEPT ![g] = NoScan]
    /\ Offline(g, scan[g].scan, scan[g].pass)
    /\ GivenUp(g)
    /\ UNCHANGED <<now, pass, log, carried, network, bundle, request, orphan, outcome, next>>

StrayVerified ==
    /\ \E v \in stray :
          /\ Verified(v.scan, v.pass, now, "live")
          /\ stray' = stray \ {v}
    /\ UNCHANGED <<now, log, network, bundle, scan, entry, request, orphan, card, outcome, next,
                   faults>>

--------------------------------------------------------------------------------
(* Reconciling.                                                            *)

NoRequest == [phase |-> "none", todo |-> {}, answers |-> [s \in Scans |-> "none"], replays |-> {}]

Pending(g) == {s \in Scans : entry[s].state = "pending" /\ entry[s].gate = g}

\* toReconcilePayload: the first Batch of them.
Payload(g) == {s \in Pending(g) : Cardinality({t \in Pending(g) : t < s}) < Batch}

\* sync: nothing when one is under way or nothing is pending.
Synced(g) ==
    IF request[g].phase = "none" /\ Pending(g) # {}
    THEN [request EXCEPT ![g] = [NoRequest EXCEPT !.phase = "sent", !.todo = Payload(g)]]
    ELSE request

\* Mutant of Recorded: an entry seen before is verified again.
RecordedAgain(s) ==
    /\ Verified(s, entry[s].pass, entry[s].at, "queued")
    /\ log' = [log EXCEPT ![s] = GateVerdict(pass[entry[s].pass], entry[s].at)]

\* reconcile_offline_entry, in a transaction of its own: an entry seen before
\* is answered from the log. Of two requests with the same entry one waits for
\* the other and then fails on the log's key, which is a request broken.
Recorded(s) ==
    IF log[s] # "none"
    THEN UNCHANGED <<pass, carried, log>>
    ELSE /\ Verified(s, entry[s].pass, entry[s].at, "queued")
         /\ log' = [log EXCEPT ![s] = GateVerdict(pass[entry[s].pass], entry[s].at)]

Answered(r, s) ==
    [r EXCEPT !.todo = @ \ {s}, !.answers[s] = log'[s],
              !.replays = IF log[s] = "none" THEN @ ELSE @ \union {s}]

\* OfflineEntry: one code that is too long, and the request is refused whole.
Refused(S) == \E s \in S : entry[s].pass = TooLong

Earliest(S) == {s \in S : \A t \in S : s <= t}

ReconcileEntry(g) ==
    /\ ~Refused(request[g].todo)
    /\ \E s \in Earliest(request[g].todo) :
          /\ Recorded(s)
          /\ request' = [request EXCEPT ![g] = Answered(@, s)]
    /\ UNCHANGED <<now, stray, network, bundle, scan, entry, orphan, card, outcome, next, faults>>

OrphanEntry(g) ==
    /\ ~Refused(orphan[g])
    /\ \E s \in Earliest(orphan[g]) :
          /\ Recorded(s)
          /\ orphan' = [orphan EXCEPT ![g] = @ \ {s}]
    /\ UNCHANGED <<now, stray, network, bundle, scan, entry, request, card, outcome, next, faults>>

\* applyOutcomes, folded into the queue as it is when the answer is in.

\* Mutant of Accepted: whatever was answered leaves.
AcceptedAnyhow(r, s) == TRUE
Accepted(r, s) == r.answers[s] \in LetThrough

\* Mutant of Folded: the answer is folded into the queue as it was sent, and
\* what was queued meanwhile is overwritten.
FoldedStale(r, s) ==
    IF entry[s].state # "pending" THEN entry[s].state
    ELSE IF r.answers[s] \in LetThrough \union {"none"} THEN "settled" ELSE "rejected"

Folded(r, s) ==
    CASE r.answers[s] = "none"                      -> entry[s].state
      [] r.answers[s] # "none" /\ s \in r.replays   -> "replayed"
      [] r.answers[s] # "none" /\ s \notin r.replays ->
            IF Accepted(r, s) THEN "settled" ELSE "rejected"

SyncAnswered(g) ==
    /\ request[g].phase = "sent" /\ request[g].todo = {}
    /\ entry' = [s \in Scans |-> [entry[s] EXCEPT !.state = Folded(request[g], s)]]
    /\ request' = [request EXCEPT ![g] = NoRequest]
    /\ outcome' = [outcome EXCEPT ![g] = TRUE]
    /\ card' = [card EXCEPT ![g] = Cleared(@, TRUE)]
    /\ UNCHANGED <<server, network, bundle, scan, orphan, next, faults>>

\* The refusal is an error like any other: the queue stays as it is, and the
\* next sync sends the same entries first.
RequestRefused(g) ==
    /\ request[g].phase = "sent" /\ Refused(request[g].todo)
    /\ request' = [request EXCEPT ![g] = NoRequest]
    /\ UNCHANGED <<server, network, bundle, scan, entry, orphan, card, outcome, next, faults>>

\* What is left behind of a request: nothing more, or all it had to do.
Left(g) ==
    IF request[g].phase = "sent" /\ orphan[g] = {} /\ ~Refused(request[g].todo)
    THEN {{}, request[g].todo} ELSE {orphan[g]}

SyncFails(g) ==
    /\ request[g].phase = "sent" /\ faults > 0
    /\ faults' = faults - 1
    /\ request' = [request EXCEPT ![g] = NoRequest]
    /\ \E rest \in Left(g) : orphan' = [orphan EXCEPT ![g] = rest]
    /\ UNCHANGED <<server, network, bundle, scan, entry, card, outcome, next>>

--------------------------------------------------------------------------------
(* What starts a sync: the network's return, the button, a reload.         *)

ComesOnline(g) ==
    /\ ~Online(g)
    /\ network' = [network EXCEPT ![g] = "up"]
    /\ request' = Synced(g)
    /\ UNCHANGED <<server, bundle, scan, entry, orphan, card, outcome, next, faults>>

GoesOffline(g) ==
    /\ Online(g) /\ faults > 0
    /\ faults' = faults - 1
    /\ network' = [network EXCEPT ![g] = "lost"]
    /\ UNCHANGED <<server, bundle, scan, entry, request, orphan, card, outcome, next>>

\* Mutant of SyncNow: there is no button while the last outcome is shown.
SyncNowUnlessOutcome(g) ==
    /\ Online(g) /\ Pending(g) # {} /\ request[g].phase = "none" /\ ~outcome[g]
    /\ request' = Synced(g)
    /\ UNCHANGED <<server, network, bundle, scan, entry, orphan, card, outcome, next, faults>>

\* "Sync now", in the banner of pending entries.
SyncNow(g) ==
    /\ Online(g) /\ Pending(g) # {} /\ request[g].phase = "none"
    /\ request' = Synced(g)
    /\ UNCHANGED <<server, network, bundle, scan, entry, orphan, card, outcome, next, faults>>

\* The queue and the list outlive the screen; a verification, one that is held
\* back too, a card and the request waited for do not.
Reload(g) ==
    /\ faults > 0
    /\ faults' = faults - 1
    /\ network' = [network EXCEPT ![g] = IF Online(g) THEN "up" ELSE "absent"]
    /\ scan' = [scan EXCEPT ![g] = NoScan]
    /\ card' = [card EXCEPT ![g] = NoCard]
    /\ outcome' = [outcome EXCEPT ![g] = FALSE]
    /\ \E rest \in Left(g) : orphan' = [orphan EXCEPT ![g] = rest]
    /\ request' = [request EXCEPT ![g] =
                      IF Online(g) /\ Pending(g) # {}
                      THEN [NoRequest EXCEPT !.phase = "sent", !.todo = Payload(g)]
                      ELSE NoRequest]
    /\ GivenUp(g)
    /\ UNCHANGED <<now, pass, log, carried, bundle, entry, next>>

\* The card's own button.
DismissCard(g) ==
    /\ card[g].scan # 0
    /\ card' = [card EXCEPT ![g] = [NoCard EXCEPT !.provisional = card[g].provisional]]
    /\ UNCHANGED <<server, network, bundle, scan, entry, request, orphan, outcome, next, faults>>

Dismiss(g, s) ==
    /\ entry[s].state = "rejected" /\ entry[s].gate = g
    /\ entry' = [entry EXCEPT ![s].state = "dismissed"]
    /\ UNCHANGED <<server, network, bundle, scan, request, orphan, card, outcome, next, faults>>

ClearOutcome(g) ==
    /\ outcome[g]
    /\ outcome' = [outcome EXCEPT ![g] = FALSE]
    /\ UNCHANGED <<server, network, bundle, scan, entry, request, orphan, card, next, faults>>

--------------------------------------------------------------------------------
(* The cached list, the residents and the clock.                           *)

\* The passes a gate may need while it is disconnected.
GateOfflineBundle ==
    IF now = "over" THEN {}
    ELSE {p \in Passes : pass[p].status \in {"expected", "checked_in"}}

RefreshBundle(g) ==
    /\ Online(g)
    /\ bundle' = [bundle EXCEPT ![g] = [usable |-> TRUE, passes |-> GateOfflineBundle]]
    /\ UNCHANGED <<server, network, scan, entry, request, orphan, card, outcome, next, faults>>

\* The device decides nothing on a list that has expired: it is as good as none.
BundleExpires(g) ==
    /\ bundle[g].usable
    /\ bundle' = [bundle EXCEPT ![g] = [usable |-> FALSE, passes |-> {}]]
    /\ UNCHANGED <<server, network, scan, entry, request, orphan, card, outcome, next, faults>>

\* approve_visitor_request and cancel_visitor_request.
Decide(p) ==
    /\ \E d \in {<<"pending_approval", "expected">>, <<"pending_approval", "cancelled">>,
                 <<"expected", "cancelled">>} :
          pass[p].status = d[1] /\ pass' = [pass EXCEPT ![p].status = d[2]]
    /\ UNCHANGED <<now, log, carried, stray, network, bundle, scan, entry, request, orphan, card,
                   outcome, next, faults>>

\* The window opens and closes; passes nobody used lapse, at some later time.
Clock ==
    /\ \/ now = "before" /\ now' = "during"
       \/ now = "during" /\ now' = "over"
    /\ UNCHANGED <<pass, log, carried, stray, network, bundle, scan, entry, request, orphan, card,
                   outcome, next, faults>>

Lapse(p) ==
    /\ now = "over" /\ pass[p].status \in {"expected", "pending_approval"}
    /\ pass' = [pass EXCEPT ![p].status = "expired"]
    /\ UNCHANGED <<now, log, carried, stray, network, bundle, scan, entry, request, orphan, card,
                   outcome, next, faults>>

--------------------------------------------------------------------------------
Init ==
    /\ now \in {"before", "during"}
    /\ pass \in [Passes -> [status : {"expected", "pending_approval"}, inside : {0}]]
    /\ log = [s \in Scans |-> "none"]
    /\ carried = [s \in Scans |-> [live |-> 0, queued |-> 0]]
    /\ network \in [Gates -> {"up", "absent"}]
    /\ bundle = [g \in Gates |->
                    [usable |-> TRUE, passes |-> {p \in Passes : pass[p].status = "expected"}]]
    /\ scan = [g \in Gates |-> NoScan] /\ stray = {}
    /\ entry = [s \in Scans |-> NoEntry]
    /\ request = [g \in Gates |-> NoRequest]
    /\ orphan = [g \in Gates |-> {}]
    /\ card = [g \in Gates |-> NoCard]
    /\ outcome = [g \in Gates |-> FALSE]
    /\ next = 1
    /\ faults = MaxFaults

Scanning(g) ==
    \/ \E p \in Codes : Present(g, p)
    \/ Resume(g) \/ ServerVerifies(g) \/ VerifyAnswered(g) \/ VerifyRefused(g) \/ VerifyFails(g)
Reconciling(g) ==
    ReconcileEntry(g) \/ OrphanEntry(g) \/ SyncAnswered(g) \/ RequestRefused(g) \/ SyncFails(g)
Device(g) ==
    ComesOnline(g) \/ GoesOffline(g) \/ SyncNow(g) \/ Reload(g)
    \/ (\E s \in Scans : Dismiss(g, s)) \/ ClearOutcome(g) \/ DismissCard(g)
    \/ RefreshBundle(g) \/ BundleExpires(g)

Next ==
    \/ \E g \in Gates : Scanning(g) \/ Reconciling(g) \/ Device(g)
    \/ \E p \in Passes : Decide(p) \/ Lapse(p)
    \/ StrayVerified \/ Clock

\* The network comes back, the server works, and the guard presses the button
\* of the banner that shows while entries are pending: a sync that failed, or
\* an entry queued while the browser thought itself on line, has no other.
Fairness ==
    \A g \in Gates :
        /\ WF_vars(ComesOnline(g)) /\ WF_vars(SyncNow(g))
        /\ WF_vars(ReconcileEntry(g)) /\ WF_vars(SyncAnswered(g)) /\ WF_vars(RequestRefused(g))

Spec == Init /\ [][Next]_vars /\ Fairness

--------------------------------------------------------------------------------
(* What is claimed.                                                        *)

Verifications == [phase : Phases, scan : Scans \union {0}, pass : Codes,
                  verdict : Verdicts \union {"none"}]
Cards    == [scan : Scans \union {0}, verdict : Verdicts \union {"none"}, provisional : BOOLEAN]
Requests == [phase : {"none", "sent"}, todo : SUBSET Scans,
             answers : [Scans -> Verdicts \union {"none"}], replays : SUBSET Scans]
Entries  == [state : {"none", "pending", "rejected", "dismissed", "settled", "replayed"}, gate : Gates,
             pass : Codes, at : Moments]

\* Shape of the state.
TypeOK ==
    /\ now \in Moments
    /\ pass \in [Passes -> [status : Statuses, inside : Nat]]
    /\ log \in [Scans -> Verdicts \union {"none"}]
    /\ carried \in [Scans -> [live : Nat, queued : Nat]]
    /\ network \in [Gates -> {"up", "lost", "absent"}] /\ outcome \in [Gates -> BOOLEAN]
    /\ bundle \in [Gates -> [usable : BOOLEAN, passes : SUBSET Passes]]
    /\ scan \in [Gates -> Verifications]
    /\ stray \subseteq [scan : Scans, pass : Passes]
    /\ entry \in [Scans -> Entries]
    /\ request \in [Gates -> Requests] /\ orphan \in [Gates -> SUBSET Scans]
    /\ card \in [Gates -> Cards]
    /\ next \in Nat /\ faults \in Nat

OnRecord ==
    \A s \in Scans : entry[s].state \in {"rejected", "dismissed", "settled", "replayed"} => log[s] # "none"
RefusalIsShown ==
    \A s \in Scans : entry[s].state = "settled" => log[s] \in LetThrough

\* An entry that has left its device's list of pending ones is on record at
\* the server, with its verdict: no reload, failed sync or scan made during a
\* sync loses one. And a refusal that is news to the server stays on the list
\* for the guard to see; only one the server had on record before, whose first
\* answer may have been lost, leaves with the replays.
NothingLost == OnRecord /\ RefusalIsShown

\* However often and from however many requests an entry of the queue reaches
\* the server, it lets its visitor in or out once, and only with that verdict
\* on record; a second time would take the visitor out again.
ReconciledOnce ==
    \A s \in Scans : carried[s].queued <= (IF log[s] \in LetThrough THEN 1 ELSE 0)

\* One scan lets its visitor in or out once. GateHome.jsx refuses to repeat a
\* verification because "repeating verification can check a visitor out".
VerifiedOnce == \A s \in Scans : carried[s].live + carried[s].queued <= 1

\* The card that says the server has not seen a scan yet is gone once the gate
\* has the server's answer on that scan.
ProvisionalCardIsPending ==
    \A g \in Gates : card[g].provisional /\ card[g].scan # 0 =>
        entry[card[g].scan].state \in {"none", "pending"}

\* The next request of gate g is one that the server refuses.
HeldUp(g) == Refused(Payload(g))

\* The gate's queue empties, again and again: what it holds is put before the
\* server, and answered. But a code that is too long is queued like any other
\* (GateHome.jsx:47 takes the refusal of its verification for a lost
\* connection), and from then on every request that holds it is refused whole:
\* it stays for ever, and so does all that is sent with it.
QueueDrains == \A g \in Gates : []<>(Pending(g) = {} \/ HeldUp(g))
=============================================================================
