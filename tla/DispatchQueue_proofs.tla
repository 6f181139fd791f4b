------------------------- MODULE DispatchQueue_proofs -------------------------
(* The dispatch queue, for any timers, any finite number of dispatchers and  *)
(* any bounds.  One inductive invariant carries the theorems:                *)
(*                                                                           *)
(*   - a row's number is at most its timer's armings, and a timer with an    *)
(*     open row has an arming of its own that is not yet served;             *)
(*   - what each attempt cost.  A claim takes an attempt and a free lease, a *)
(*     raise takes a fault and leaves a failure to record, and recording it  *)
(*     frees the lease; so attempts, failures to record and a free lease are *)
(*     together at most the faults and one (Spent).                          *)
EXTENDS DispatchQueue, FiniteSetTheorems, TLAPS

\* The dispatchers that have a failure to record.
Recorders == {d \in Dispatchers : raised[d] # {}}

Free(t) == IF row[t].lease = "live" THEN 0 ELSE 1

\* Numbers, and served armings.
Counted ==
    \A t \in Timers :
        /\ row[t].id <= armings[t]
        /\ served[t] <= armings[t]
        /\ row[t].open => served[t] + 1 <= armings[t]

\* What the attempts of an open row cost; a live lease whose task is in nobody's
\* hands was lost to a fault.
Spent ==
    /\ Cardinality(Recorders) <= faults
    /\ \A t \in Timers : row[t].open =>
          /\ row[t].attempts + Cardinality(Recorders) + Free(t) <= faults + 1
          /\ ~InFlight(t) => row[t].attempts + Cardinality(Recorders) <= faults

QInv == TypeOK /\ Counted /\ NeedHasRow /\ Spent

Rows == [id : 0..MaxArmings, open : BOOLEAN, due : BOOLEAN,
         lease : {"none", "live", "expired"}, attempts : 0..MaxAttempts]

-------------------------------------------------------------------------------
\* The bounds are numbers.
LEMMA Bounds == /\ MaxArmings \in Nat /\ MaxFaults \in Nat
                /\ BatchSize \in Nat \ {0} /\ MaxAttempts \in Nat \ {0}
BY QueueAssumption

\* The recorders are finitely many, and how their number moves when one of
\* them starts or stops being one.
LEMMA RecordersCounted ==
    ASSUME TypeOK, NEW d \in Dispatchers
    PROVE  /\ Cardinality(Recorders) \in Nat
           /\ raised' = raised => Cardinality(Recorders)' = Cardinality(Recorders)
           /\ \A S : raised[d] = {} /\ S # {} /\ raised' = [raised EXCEPT ![d] = S]
                => Cardinality(Recorders)' = Cardinality(Recorders) + 1
           /\ raised[d] # {} /\ raised' = [raised EXCEPT ![d] = {}]
                => Cardinality(Recorders)' = Cardinality(Recorders) - 1
           /\ raised' = [raised EXCEPT ![d] = {}]
                => Cardinality(Recorders)' <= Cardinality(Recorders)
<1>1. IsFiniteSet(Recorders) /\ Cardinality(Recorders) \in Nat
  BY QueueAssumption, FS_Subset, FS_CardinalityType DEF Recorders
<1>2. raised' = raised => Recorders' = Recorders
  BY DEF Recorders
<1>3. ASSUME NEW S, raised[d] = {}, S # {}, raised' = [raised EXCEPT ![d] = S]
      PROVE  Cardinality(Recorders)' = Cardinality(Recorders) + 1
  <2>1. Recorders' = Recorders \union {d} /\ d \notin Recorders
    BY <1>3 DEF Recorders, TypeOK
  <2> QED
    BY <2>1, <1>1, FS_AddElement
<1>4. ASSUME raised[d] # {}, raised' = [raised EXCEPT ![d] = {}]
      PROVE  Cardinality(Recorders)' = Cardinality(Recorders) - 1
  <2>1. Recorders' = Recorders \ {d} /\ d \in Recorders
    BY <1>4 DEF Recorders, TypeOK
  <2> QED
    BY <2>1, <1>1, FS_RemoveElement
<1>5. ASSUME raised[d] = {}, raised' = [raised EXCEPT ![d] = {}]
      PROVE  Cardinality(Recorders)' = Cardinality(Recorders)
  <2>1. Recorders' = Recorders
    BY <1>5 DEF Recorders, TypeOK
  <2> QED
    BY <2>1
<1>6. raised' = [raised EXCEPT ![d] = {}]
        => Cardinality(Recorders)' <= Cardinality(Recorders)
  BY <1>1, <1>4, <1>5
<1> QED
  BY <1>1, <1>2, <1>3, <1>4, <1>6

\* A fault is one more of them.
LEMMA FaultCounts == ASSUME TypeOK, Fault PROVE faults' = faults + 1 /\ faults' \in 0..MaxFaults
BY Bounds DEF TypeOK, Fault

\* The empty queue satisfies the invariant.
LEMMA QueueStarts == Init => QInv
<1> SUFFICES ASSUME Init PROVE QInv
  OBVIOUS
<1>1. TypeOK
  BY Bounds DEF Init, TypeOK
<1>2. Recorders = {}
  BY DEF Init, Recorders
<1>3. Cardinality(Recorders) = 0
  BY <1>2, FS_EmptySet
<1> QED
  BY <1>1, <1>3 DEF Init, QInv, Counted, NeedHasRow, Spent

-------------------------------------------------------------------------------
\* A row that changes its due time or its lease only, or is closed, keeps the
\* numbers and the needs.
LEMMA RowKeeps ==
    ASSUME QInv, NEW t \in Timers, NEW r \in Rows,
           row' = [row EXCEPT ![t] = r],
           r.id = row[t].id, r.attempts = row[t].attempts,
           r.open => row[t].open,
           row[t].open => r.open \/ t \notin need' \/ r.attempts >= MaxAttempts,
           need' \subseteq need,
           UNCHANGED <<armings, served>>
    PROVE  /\ row' \in [Timers -> Rows]
           /\ Counted' /\ NeedHasRow'
BY DEF QInv, TypeOK, Rows, Counted, NeedHasRow

\* Arming gives a fresh row, or the open one its attempts back.
LEMMA ArmKeeps == ASSUME QInv, NEW t \in Timers, Arm(t) PROVE QInv'
<1>1. Armed(t) \in Rows
  BY Bounds DEF Armed, Arm, QInv, TypeOK, Counted, Rows
<1>2. TypeOK'
  BY <1>1, Bounds DEF Arm, QInv, TypeOK, Rows
<1>3. Counted' /\ NeedHasRow'
  BY Bounds DEF Arm, Armed, QInv, TypeOK, Counted, NeedHasRow
<1>4. Recorders' = Recorders
  BY DEF Arm, Recorders
<1>5. Cardinality(Recorders) \in Nat
  BY QueueAssumption, FS_Subset, FS_CardinalityType DEF Recorders
<1>6. Spent'
  <2>1. \A u \in Timers : u # t => row'[u] = row[u]
    BY DEF Arm, QInv, TypeOK
  <2>2. row'[t].attempts = 0 /\ row'[t].lease = "none"
    BY DEF Arm, Armed, QInv, TypeOK
  <2>3. \A u \in Timers : u # t => (InFlight(u)' <=> InFlight(u))
    BY <2>1 DEF Arm, InFlight
  <2>4. UNCHANGED <<faults, raised>> /\ faults \in Nat
    BY Bounds DEF Arm, QInv, TypeOK
  <2> QED
    BY <1>4, <1>5, <2>1, <2>2, <2>3, <2>4 DEF QInv, Spent, Free
<1> QED
  BY <1>2, <1>3, <1>6 DEF QInv

\* Calling a timer off closes its row; coming due changes nothing else.
LEMMA CloseOrDueKeeps ==
    ASSUME QInv, NEW t \in Timers, Close(t) \/ ComeDue(t) PROVE QInv'
<1>1. PICK r \in Rows :
          /\ row' = [row EXCEPT ![t] = r]
          /\ r.id = row[t].id /\ r.attempts = row[t].attempts /\ r.lease = row[t].lease
          /\ r.open => row[t].open
          /\ r.open \/ t \notin need'
  <2>0. row[t] \in Rows
    BY DEF QInv, TypeOK, Rows
  <2>1. CASE Close(t)
    <3> DEFINE r == [row[t] EXCEPT !.open = FALSE]
    <3>1. r \in Rows /\ row' = [row EXCEPT ![t] = r] /\ t \notin need'
      BY <2>0, <2>1 DEF Close, Rows
    <3>2. r.id = row[t].id /\ r.attempts = row[t].attempts /\ r.lease = row[t].lease /\ ~r.open
      BY <2>0 DEF Rows
    <3> QED
      BY <3>1, <3>2
  <2>2. CASE ComeDue(t)
    <3> DEFINE r == [row[t] EXCEPT !.due = TRUE]
    <3>1. r \in Rows /\ row' = [row EXCEPT ![t] = r] /\ row[t].open
      BY <2>0, <2>2 DEF ComeDue, Rows
    <3>2. r.id = row[t].id /\ r.attempts = row[t].attempts /\ r.lease = row[t].lease
          /\ r.open = row[t].open
      BY <2>0 DEF Rows
    <3> QED
      BY <3>1, <3>2
  <2> QED
    BY <2>1, <2>2
<1>2. need' \subseteq need /\ UNCHANGED <<hands, raised, armings, served, faults>>
  BY DEF Close, ComeDue
<1>3. row' \in [Timers -> Rows] /\ Counted' /\ NeedHasRow'
  BY <1>1, <1>2, RowKeeps
<1>4. TypeOK'
  BY <1>2, <1>3 DEF QInv, TypeOK, Rows
<1>5. Recorders' = Recorders
  BY <1>2 DEF Recorders
<1>6. \A u \in Timers : /\ row'[u].id = row[u].id /\ row'[u].attempts = row[u].attempts
                        /\ row'[u].lease = row[u].lease /\ (row'[u].open => row[u].open)
  BY <1>1 DEF QInv, TypeOK
<1>7. Spent'
  BY <1>2, <1>5, <1>6 DEF QInv, Spent, Free, InFlight
<1> QED
  BY <1>3, <1>4, <1>7 DEF QInv

\* A lease runs out: a fault, or its task was in nobody's hands.
LEMMA ExpireKeeps == ASSUME QInv, NEW t \in Timers, ExpireLease(t) PROVE QInv'
<1> DEFINE r == [row[t] EXCEPT !.lease = "expired"]
<1>1. r \in Rows /\ row' = [row EXCEPT ![t] = r]
  BY DEF ExpireLease, QInv, TypeOK, Rows
<1>2. UNCHANGED <<hands, raised, need, armings, served>>
  BY DEF ExpireLease
<1>3. row' \in [Timers -> Rows] /\ Counted' /\ NeedHasRow'
  BY <1>1, <1>2, RowKeeps DEF QInv, TypeOK, Rows
<1>4. faults' \in 0..MaxFaults /\ faults' >= faults /\ (InFlight(t) => faults' = faults + 1)
  BY FaultCounts, Bounds DEF ExpireLease, QInv, TypeOK
<1>5. TypeOK'
  BY <1>2, <1>3, <1>4 DEF QInv, TypeOK, Rows
<1>6. Recorders' = Recorders /\ Cardinality(Recorders) \in Nat
  BY <1>2, QueueAssumption, FS_Subset, FS_CardinalityType DEF Recorders
<1>7. \A u \in Timers : /\ row'[u].id = row[u].id /\ row'[u].attempts = row[u].attempts
                        /\ (u # t => row'[u] = row[u]) /\ row'[u].open = row[u].open
                        /\ row[u].attempts \in Nat
  BY <1>1 DEF QInv, TypeOK
<1>8. \A u \in Timers : InFlight(u)' <=> InFlight(u)
  BY <1>2, <1>7 DEF InFlight
<1>9. row[t].lease = "live" /\ row'[t].lease = "expired"
  BY <1>1 DEF ExpireLease, QInv, TypeOK
<1>10. faults \in Nat /\ faults' \in Nat
  BY <1>4, Bounds DEF QInv, TypeOK
<1>11. Spent'
  BY <1>4, <1>6, <1>7, <1>8, <1>9, <1>10 DEF QInv, Spent, Free
<1> QED
  BY <1>3, <1>5, <1>11 DEF QInv

\* A claim takes free leases only, and puts what it claims in somebody's hands.
LEMMA ClaimKeeps == ASSUME QInv, NEW d \in Dispatchers, Claim(d) PROVE QInv'
<1>1. PICK b \in Batches :
          /\ row' = [t \in Timers |->
                 IF t \in b THEN [row[t] EXCEPT !.lease = "live", !.attempts = @ + 1]
                 ELSE row[t]]
          /\ hands' = [hands EXCEPT ![d] = {<<t, row[t].id>> : t \in b}]
  BY DEF Claim
<1>2. b \subseteq Timers /\ \A t \in b : Claimable(t)
  BY DEF Batches
<1>3. UNCHANGED <<raised, need, armings, served, faults>> /\ hands[d] = {}
  BY DEF Claim
<1>4. \A t \in Timers : /\ row'[t].id = row[t].id /\ row'[t].open = row[t].open
                        /\ row'[t] \in Rows
                        /\ t \notin b => row'[t] = row[t]
                        /\ t \in b => /\ row'[t].lease = "live" /\ row[t].lease # "live"
                                      /\ row'[t].attempts = row[t].attempts + 1
                        /\ row[t].attempts \in Nat /\ row'[t].attempts >= row[t].attempts
  <2> SUFFICES ASSUME NEW t \in Timers
               PROVE  /\ row'[t].id = row[t].id /\ row'[t].open = row[t].open
                      /\ row'[t] \in Rows
                      /\ t \notin b => row'[t] = row[t]
                      /\ t \in b => /\ row'[t].lease = "live" /\ row[t].lease # "live"
                                    /\ row'[t].attempts = row[t].attempts + 1
                      /\ row[t].attempts \in Nat /\ row'[t].attempts >= row[t].attempts
    OBVIOUS
  <2>1. row[t] \in Rows /\ row[t].attempts \in Nat
    BY Bounds DEF QInv, TypeOK, Rows
  <2>2. CASE t \notin b
    <3>1. row'[t] = row[t]
      BY <1>1, <2>2
    <3> QED
      BY <2>1, <2>2, <3>1
  <2>3. CASE t \in b
    <3>1. row'[t] = [row[t] EXCEPT !.lease = "live", !.attempts = @ + 1]
      BY <1>1, <2>3
    <3>2. row[t].attempts < MaxAttempts /\ row[t].lease # "live"
      BY <1>2, <2>3 DEF Claimable
    <3>3. row[t].attempts + 1 \in 0..MaxAttempts
      BY <2>1, <3>2, Bounds
    <3>4. /\ row'[t].id = row[t].id /\ row'[t].open = row[t].open
          /\ row'[t].lease = "live" /\ row'[t].attempts = row[t].attempts + 1
      BY <2>1, <3>1 DEF Rows
    <3>5. row'[t] \in Rows
      BY <2>1, <3>1, <3>3 DEF Rows
    <3> QED
      BY <2>1, <2>3, <3>2, <3>4, <3>5
  <2> QED
    BY <2>2, <2>3
<1>5. TypeOK'
  <2>1. \A t \in b : <<t, row[t].id>> \in Ids
    BY <1>2 DEF QInv, TypeOK, Ids
  <2>2. hands' \in [Dispatchers -> SUBSET Ids]
    <3>1. hands \in [Dispatchers -> SUBSET Ids]
      BY DEF QInv, TypeOK
    <3> QED BY <2>1, <1>1, <3>1
  <2>3. row' \in [Timers -> Rows]
    BY <1>1, <1>4
  <2> QED
    BY <2>2, <2>3, <1>3 DEF QInv, TypeOK, Rows
<1>6. Counted' /\ NeedHasRow'
  BY <1>3, <1>4, Bounds DEF QInv, TypeOK, Counted, NeedHasRow
<1>7. Recorders' = Recorders /\ Cardinality(Recorders) \in Nat
  BY <1>3, QueueAssumption, FS_Subset, FS_CardinalityType DEF Recorders
<1>8. \A t \in Timers : InFlight(t) => InFlight(t)'
  BY <1>1, <1>3, <1>4 DEF InFlight, QInv, TypeOK
<1>9. \A t \in b : InFlight(t)'
  <2> SUFFICES ASSUME NEW t \in b PROVE InFlight(t)'
    OBVIOUS
  <2>1. <<t, row[t].id>> \in hands'[d] /\ row'[t].id = row[t].id
    BY <1>1, <1>2, <1>4 DEF QInv, TypeOK
  <2> QED
    BY <2>1 DEF InFlight
<1>10. Spent'
  BY <1>2, <1>3, <1>4, <1>7, <1>8, <1>9 DEF QInv, TypeOK, Spent, Free
<1> QED
  BY <1>5, <1>6, <1>10 DEF QInv

\* A failure that is recorded frees the lease, and retires a row that has used
\* up its attempts.
LEMMA FailKeeps == ASSUME QInv, NEW d \in Dispatchers, Fail(d) PROVE QInv'
<1>1. PICK t \in Timers, i \in 0..MaxArmings :
          /\ <<t, i>> \in raised[d]
          /\ row' = IF row[t].id = i THEN [row EXCEPT ![t] = Failed(t)] ELSE row
  BY DEF Fail
<1>2. /\ raised' = [raised EXCEPT ![d] = {}] /\ raised[d] # {}
      /\ UNCHANGED <<hands, need, armings, served, faults>>
  BY <1>1 DEF Fail
<1>3. /\ Cardinality(Recorders) \in Nat
      /\ Cardinality(Recorders)' = Cardinality(Recorders) - 1
  BY <1>2, RecordersCounted DEF QInv
<1>4. \A u \in Timers : /\ row'[u] \in Rows /\ row'[u].id = row[u].id
                        /\ row'[u].attempts = row[u].attempts
                        /\ row'[u].open => row[u].open
                        /\ row[u].open => row'[u].open \/ row[u].attempts >= MaxAttempts
                        /\ row'[u].lease = "live" => row[u].lease = "live"
                        /\ row[u].attempts \in Nat
  <2> SUFFICES ASSUME NEW u \in Timers
               PROVE  /\ row'[u] \in Rows /\ row'[u].id = row[u].id
                      /\ row'[u].attempts = row[u].attempts
                      /\ row'[u].open => row[u].open
                      /\ row[u].open => row'[u].open \/ row[u].attempts >= MaxAttempts
                      /\ row'[u].lease = "live" => row[u].lease = "live"
                      /\ row[u].attempts \in Nat
    OBVIOUS
  <2>1. row[u] \in Rows /\ row[u].attempts \in Nat
    BY Bounds DEF QInv, TypeOK, Rows
  <2>2. CASE row'[u] = row[u]
    BY <2>1, <2>2
  <2>3. CASE row'[u] = Failed(u)
    <3>1. row'[u] = [row[u] EXCEPT !.lease = "none",
                                   !.open = row[u].open /\ row[u].attempts < MaxAttempts]
      BY <2>3 DEF Failed
    <3>2. (row[u].open /\ row[u].attempts < MaxAttempts) \in BOOLEAN
      BY <2>1 DEF Rows
    <3>3. row'[u] \in Rows
      BY <2>1, <3>1, <3>2 DEF Rows
    <3>4. /\ row'[u].id = row[u].id /\ row'[u].attempts = row[u].attempts
          /\ row'[u].lease = "none"
          /\ row'[u].open = (row[u].open /\ row[u].attempts < MaxAttempts)
      BY <2>1, <3>1 DEF Rows
    <3>5. ~(row[u].attempts < MaxAttempts) => row[u].attempts >= MaxAttempts
      BY <2>1, Bounds
    <3> QED
      BY <2>1, <3>3, <3>4, <3>5
  <2>4. row'[u] = row[u] \/ row'[u] = Failed(u)
    BY <1>1 DEF QInv, TypeOK
  <2> QED
    BY <2>2, <2>3, <2>4
<1>5. row' \in [Timers -> Rows]
  BY <1>1, <1>4 DEF QInv, TypeOK
<1>6. TypeOK'
  BY <1>2, <1>5 DEF QInv, TypeOK, Rows
<1>7. Counted' /\ NeedHasRow'
  BY <1>2, <1>4 DEF QInv, Counted, NeedHasRow, TypeOK
<1>8. faults \in Nat
  BY DEF QInv, TypeOK
<1>9. Spent'
  BY <1>2, <1>3, <1>4, <1>8 DEF QInv, Spent, Free
<1> QED
  BY <1>6, <1>7, <1>9 DEF QInv

\* A failure that is not recorded, and a process that dies, are faults.
LEMMA LossKeeps ==
    ASSUME QInv, NEW d \in Dispatchers, FailLost(d) \/ Crash(d) PROVE QInv'
<1>1. /\ raised' = [raised EXCEPT ![d] = {}]
      /\ UNCHANGED <<row, need, armings, served>>
      /\ Fault
  BY DEF FailLost, Crash
<1>2. hands' \in [Dispatchers -> SUBSET Ids]
  BY DEF FailLost, Crash, QInv, TypeOK
<1>3. faults' = faults + 1 /\ faults' \in 0..MaxFaults
  BY <1>1, FaultCounts DEF QInv
<1>4. TypeOK'
  BY <1>1, <1>2, <1>3 DEF QInv, TypeOK
<1>5. Counted' /\ NeedHasRow'
  BY <1>1 DEF QInv, Counted, NeedHasRow
<1>6. /\ Cardinality(Recorders) \in Nat /\ Cardinality(Recorders)' \in Nat
      /\ Cardinality(Recorders)' <= Cardinality(Recorders)
  <2>1. IsFiniteSet(Recorders')
    BY QueueAssumption, FS_Subset DEF Recorders
  <2> QED
    BY <1>1, <2>1, RecordersCounted, FS_CardinalityType DEF QInv
<1>7. Spent'
  BY <1>1, <1>3, <1>6, Bounds DEF QInv, TypeOK, Spent, Free
<1> QED
  BY <1>4, <1>5, <1>7 DEF QInv

\* A firing that commits closes its row, and what it arms again is a new row.
LEMMA ServeKeeps ==
    ASSUME QInv, NEW t \in Timers, NEW again \in BOOLEAN,
           again => MayArmItself(t), row[t].open, Serve(t, again)
    PROVE  /\ row' \in [Timers -> Rows]
           /\ served' \in [Timers -> Nat] /\ armings' \in [Timers -> 0..MaxArmings]
           /\ need' \subseteq Timers
           /\ Counted' /\ NeedHasRow'
           /\ \A u \in Timers : u # t => row'[u] = row[u]
           /\ row'[t].open => row'[t].attempts = 0 /\ row'[t].lease = "none"
<1>1. row[t] \in Rows /\ armings[t] \in 0..MaxArmings /\ served[t] \in Nat
  BY DEF QInv, TypeOK, Rows
<1>2. row[t].id <= armings[t] /\ served[t] + 1 <= armings[t]
  BY DEF QInv, Counted
<1>3. CASE again
  <2>1. armings[t] < MaxArmings
    BY <1>3 DEF MayArmItself
  <2>2. Completed(t, again) = [id |-> row[t].id + 1, open |-> TRUE, due |-> FALSE,
                               lease |-> "none", attempts |-> 0]
    BY <1>3 DEF Completed
  <2>3. Completed(t, again) \in Rows
    BY <1>1, <1>2, <2>1, <2>2, Bounds DEF Rows
  <2>4. armings' = [armings EXCEPT ![t] = @ + 1] /\ need' = need \union {t}
    BY <1>3 DEF Serve
  <2>5. armings' \in [Timers -> 0..MaxArmings]
    BY <1>1, <2>1, <2>4, Bounds DEF QInv, TypeOK
  <2> QED
    BY <1>1, <1>2, <2>2, <2>3, <2>4, <2>5, Bounds
       DEF Serve, QInv, TypeOK, Rows, Counted, NeedHasRow
<1>4. CASE ~again
  <2>1. Completed(t, again) = [row[t] EXCEPT !.open = FALSE]
    BY <1>4 DEF Completed
  <2>2. Completed(t, again) \in Rows /\ ~Completed(t, again).open
        /\ Completed(t, again).id = row[t].id
    BY <1>1, <2>1 DEF Rows
  <2>3. armings' = [armings EXCEPT ![t] = @ + 0] /\ need' = need \ {t}
    BY <1>4 DEF Serve
  <2>4. armings' = armings
    BY <2>3, <1>1, Bounds DEF QInv, TypeOK
  <2> QED
    BY <1>1, <1>2, <2>2, <2>3, <2>4, Bounds
       DEF Serve, QInv, TypeOK, Rows, Counted, NeedHasRow
<1> QED
  BY <1>3, <1>4

\* A fire that succeeds: its own row is closed, or it has nothing to do with
\* the open one.
LEMMA FireKeeps ==
    ASSUME QInv, NEW d \in Dispatchers, NEW t \in Timers, NEW i \in 0..MaxArmings,
           NEW again \in BOOLEAN, Fire(d, t, i, again)
    PROVE  QInv'
<1>1. /\ hands' = [hands EXCEPT ![d] = @ \ {<<t, i>>}]
      /\ UNCHANGED <<raised, faults>> /\ (again => MayArmItself(t))
  BY DEF Fire, Take
<1>2. hands' \in [Dispatchers -> SUBSET Ids]
  BY <1>1 DEF QInv, TypeOK
<1>3. Recorders' = Recorders /\ Cardinality(Recorders) \in Nat /\ faults \in Nat
  BY <1>1, QueueAssumption, FS_Subset, FS_CardinalityType DEF Recorders, QInv, TypeOK
<1>4. CASE Fireable(t, i)
  <2>1. Serve(t, again) /\ row[t].open
    BY <1>4 DEF Fire, Fireable
  <2>2. /\ row' \in [Timers -> Rows]
        /\ served' \in [Timers -> Nat] /\ armings' \in [Timers -> 0..MaxArmings]
        /\ need' \subseteq Timers
        /\ Counted' /\ NeedHasRow'
        /\ \A u \in Timers : u # t => row'[u] = row[u]
        /\ row'[t].open => row'[t].attempts = 0 /\ row'[t].lease = "none"
    BY <1>1, <2>1, ServeKeeps
  <2>3. TypeOK'
    BY <1>1, <1>2, <2>2 DEF QInv, TypeOK, Rows
  <2>4. \A u \in Timers : u # t => (InFlight(u) => InFlight(u)')
    BY <1>1, <2>2 DEF InFlight, QInv, TypeOK
  <2>5. Spent'
    BY <1>1, <1>3, <2>2, <2>4 DEF QInv, Spent, Free
  <2> QED
    BY <2>2, <2>3, <2>5 DEF QInv
<1>5. CASE ~Fireable(t, i)
  <2>1. UNCHANGED <<row, need, armings, served>>
    BY <1>5 DEF Fire
  <2>2. TypeOK' /\ Counted' /\ NeedHasRow'
    BY <1>1, <1>2, <2>1 DEF QInv, TypeOK, Counted, NeedHasRow
  <2>3. \A u \in Timers : row[u].open => (InFlight(u) => InFlight(u)')
    BY <1>1, <1>5, <2>1 DEF InFlight, Fireable, QInv, TypeOK
  <2>4. Spent'
    BY <1>1, <1>3, <2>1, <2>3 DEF QInv, Spent, Free
  <2> QED
    BY <2>2, <2>4 DEF QInv
<1> QED
  BY <1>4, <1>5

\* A fire that raises is a fault and a failure to record, committed or not.
LEMMA FireRaisesKeeps ==
    ASSUME QInv, NEW d \in Dispatchers, NEW t \in Timers, NEW i \in 0..MaxArmings,
           FireRaises(d, t, i)
    PROVE  QInv'
<1>1. /\ hands' = [hands EXCEPT ![d] = @ \ {<<t, i>>}]
      /\ raised' = [raised EXCEPT ![d] = {<<t, i>>}] /\ raised[d] = {}
      /\ Fault
  BY DEF FireRaises, Take
<1>2. faults' = faults + 1 /\ faults' \in 0..MaxFaults /\ faults \in Nat
  BY <1>1, FaultCounts DEF QInv, TypeOK
<1>3. hands' \in [Dispatchers -> SUBSET Ids] /\ raised' \in [Dispatchers -> SUBSET Ids]
  BY <1>1 DEF QInv, TypeOK, Ids
<1>4. /\ Cardinality(Recorders) \in Nat
      /\ Cardinality(Recorders)' = Cardinality(Recorders) + 1
  BY <1>1, RecordersCounted DEF QInv
<1>5. CASE UNCHANGED <<row, need, armings, served>>
  <2>1. TypeOK' /\ Counted' /\ NeedHasRow'
    BY <1>2, <1>3, <1>5 DEF QInv, TypeOK, Counted, NeedHasRow
  <2>2. \A u \in Timers : InFlight(u) => InFlight(u)'
    <3> SUFFICES ASSUME NEW u \in Timers, NEW e \in Dispatchers,
                        <<u, row[u].id>> \in hands[e] \union raised[e]
                 PROVE  \E x \in Dispatchers : <<u, row[u].id>> \in hands'[x] \union raised'[x]
      BY <1>5 DEF InFlight
    <3>1. CASE e = d
      BY <1>1, <3>1 DEF QInv, TypeOK
    <3>2. CASE e # d
      BY <1>1, <3>2 DEF QInv, TypeOK
    <3> QED
      BY <3>1, <3>2
  <2>3. Spent'
    BY <1>2, <1>4, <1>5, <2>2 DEF QInv, Spent, Free, TypeOK
  <2> QED
    BY <2>1, <2>3 DEF QInv
<1>6. CASE row[t].open /\ \E again \in BOOLEAN : (again => MayArmItself(t)) /\ Serve(t, again)
  <2>1. PICK again \in BOOLEAN : (again => MayArmItself(t)) /\ Serve(t, again)
    BY <1>6
  <2>2. /\ row' \in [Timers -> Rows]
        /\ served' \in [Timers -> Nat] /\ armings' \in [Timers -> 0..MaxArmings]
        /\ need' \subseteq Timers
        /\ Counted' /\ NeedHasRow'
        /\ \A u \in Timers : u # t => row'[u] = row[u]
        /\ row'[t].open => row'[t].attempts = 0 /\ row'[t].lease = "none"
    BY <1>6, <2>1, ServeKeeps
  <2>3. TypeOK'
    BY <1>2, <1>3, <2>2 DEF QInv, TypeOK, Rows
  <2>4. \A u \in Timers : u # t => (InFlight(u) => InFlight(u)')
    BY <1>1, <2>2 DEF InFlight, QInv, TypeOK
  <2>5. Spent'
    BY <1>2, <1>4, <2>2, <2>4 DEF QInv, TypeOK, Spent, Free
  <2> QED
    BY <2>2, <2>3, <2>5 DEF QInv
<1> QED
  BY <1>5, <1>6 DEF FireRaises, Fireable

-------------------------------------------------------------------------------
\* Every step keeps the invariant.
LEMMA QueueSteps == QInv /\ [Next]_vars => QInv'
<1> SUFFICES ASSUME QInv, [Next]_vars PROVE QInv'
  OBVIOUS
<1>1. CASE \E t \in Timers : Arm(t) \/ Close(t) \/ ComeDue(t) \/ ExpireLease(t)
  BY <1>1, ArmKeeps, CloseOrDueKeeps, ExpireKeeps
<1>2. CASE \E d \in Dispatchers : Claim(d) \/ Fail(d) \/ FailLost(d) \/ Crash(d)
  BY <1>2, ClaimKeeps, FailKeeps, LossKeeps
<1>3. CASE \E d \in Dispatchers : FireAny(d)
  BY <1>3, FireKeeps DEF FireAny
<1>4. CASE \E d \in Dispatchers, t \in Timers, i \in 0..MaxArmings : FireRaises(d, t, i)
  BY <1>4, FireRaisesKeeps
<1>5. CASE UNCHANGED vars
  BY <1>5 DEF vars, QInv, TypeOK, Counted, NeedHasRow, Spent, Recorders, Free, InFlight
<1> QED
  BY <1>1, <1>2, <1>3, <1>4, <1>5 DEF Next

\* The inductive invariant, of which the theorems below are parts.
LEMMA QueueInvariant == Spec => []QInv
BY QueueStarts, QueueSteps, PTL DEF Spec

\* Rows, batches and counts keep their types; no row is ever numbered beyond
\* its timer's armings.
THEOREM QueueTypes == Spec => []TypeOK
BY QueueInvariant, PTL DEF QInv

\* However claims, lapsed leases, re-armings, errors and crashes interleave, a
\* handler commits at most once for each arming (fire_dispatch_task).
THEOREM QueueActsOnce == Spec => []ActsOncePerArming
<1>1. QInv => ActsOncePerArming
  BY DEF QInv, Counted, ActsOncePerArming
<1> QED
  BY <1>1, QueueInvariant, PTL

\* Until it is served or called off, a need has an open row, or the row has
\* used up its attempts (enqueue_dispatch_task, fail_dispatch_task).
THEOREM QueueDropsNothing == Spec => []NeedHasRow
BY QueueInvariant, PTL DEF QInv

\* Attempts are used up by faults: fewer than MaxAttempts faults retire no row,
\* for any number of dispatchers (claim_dispatch_batch, fail_dispatch_task).
THEOREM QueueAttemptsCostFaults == Spec => []AttemptsCostFaults
<1>1. QInv => AttemptsCostFaults
  <2> SUFFICES ASSUME QInv, NEW t \in Timers, row[t].open
               PROVE  row[t].attempts <= faults + 1
    BY DEF AttemptsCostFaults
  <2>1. Cardinality(Recorders) \in Nat
    BY QueueAssumption, FS_Subset, FS_CardinalityType DEF Recorders
  <2> QED
    BY <2>1, Bounds DEF QInv, TypeOK, Spent, Free
<1> QED
  BY <1>1, QueueInvariant, PTL

-------------------------------------------------------------------------------
(* The queue implements TimerService.                                       *)

\* A row is open for a need only, and a need without one is given up, which
\* takes as many faults as there are attempts.
OpenIsNeeded == \A t \in Timers : row[t].open => t \in need
GivenUpForFaults == \A t \in need : ~row[t].open => faults >= MaxAttempts

\* A step of the service, or none of its business.
ServiceStep == Service!ServiceNext \/ UNCHANGED Service!serviceVars

\* What the step leaves of every other timer.
OthersStand(t) ==
    \A u \in Timers : u # t => row'[u].open = row[u].open /\ (u \in need' <=> u \in need)

\* The same for all of them.
AllStand ==
    \A u \in Timers : row'[u].open = row[u].open /\ (u \in need' <=> u \in need)

\* How a timer stands.
LEMMA Stands ==
    ASSUME TypeOK, NEW t \in Timers
    PROVE  /\ row[t].open => Standing(t) = "armed"
           /\ ~row[t].open /\ t \in need => Standing(t) = "given up"
           /\ ~row[t].open /\ t \notin need => Standing(t) = "idle"
BY DEF Standing

\* A step that leaves every other timer as it stands turns this one.
LEMMA OneTurns ==
    ASSUME TypeOK, TypeOK', NEW t \in Timers, OthersStand(t)
    PROVE  Service!Turn(t, Standing(t)')
<1>1. \A u \in Timers : u # t => Standing(u)' = Standing(u)
  BY Stands DEF OthersStand, Standing, TypeOK
<1> QED
  BY <1>1 DEF Service!Turn

\* A step that leaves all of them is a fault or nothing.
LEMMA NoneTurns ==
    ASSUME TypeOK, TypeOK', AllStand, UNCHANGED served,
           faults' = faults \/ faults' = faults + 1
    PROVE  ServiceStep
<1>1. \A u \in Timers : Standing(u)' = Standing(u)
  BY DEF AllStand, Standing, TypeOK
<1>2. UNCHANGED [u \in Timers |-> Standing(u)]
  BY <1>1
<1> QED
  BY <1>2 DEF ServiceStep, Service!ServiceNext, Service!Suffer, Service!serviceVars

\* The triggers, the clock and the leases.
LEMMA TriggersServe ==
    ASSUME QInv, QInv', OpenIsNeeded, NEW t \in Timers,
           Arm(t) \/ Close(t) \/ ComeDue(t) \/ ExpireLease(t)
    PROVE  ServiceStep /\ OpenIsNeeded'
<1>0. TypeOK /\ TypeOK'
  BY DEF QInv
<1>1. CASE Arm(t)
  <2>1. row'[t].open /\ t \in need' /\ OthersStand(t) /\ UNCHANGED <<served, faults>>
    BY <1>0, <1>1 DEF Arm, Armed, OthersStand, TypeOK
  <2>2. Standing(t)' = "armed"
    BY <2>1 DEF Standing
  <2>3. Service!ArmTimer(t)
    BY <1>0, <2>1, <2>2, OneTurns DEF Service!ArmTimer
  <2> QED
    BY <2>1, <2>3 DEF ServiceStep, Service!ServiceNext, OthersStand, OpenIsNeeded
<1>2. CASE Close(t)
  <2>1. /\ row[t].open /\ ~row'[t].open /\ t \notin need'
        /\ OthersStand(t) /\ UNCHANGED <<served, faults>>
    BY <1>0, <1>2 DEF Close, OthersStand, TypeOK
  <2>2. Standing(t) = "armed" /\ Standing(t)' = "idle"
    BY <2>1 DEF Standing
  <2>3. Service!CallOff(t)
    BY <1>0, <2>1, <2>2, OneTurns DEF Service!CallOff
  <2> QED
    BY <2>1, <2>3 DEF ServiceStep, Service!ServiceNext, OthersStand, OpenIsNeeded
<1>3. CASE ComeDue(t) \/ ExpireLease(t)
  <2>1. AllStand /\ UNCHANGED served /\ (faults' = faults \/ faults' = faults + 1)
    BY <1>0, <1>3 DEF ComeDue, ExpireLease, Fault, AllStand, TypeOK
  <2> QED
    BY <1>0, <2>1, NoneTurns DEF AllStand, OpenIsNeeded
<1> QED
  BY <1>1, <1>2, <1>3

\* What a dispatcher loses or claims is the queue's own affair.
LEMMA DispatchersServe ==
    ASSUME QInv, QInv', OpenIsNeeded, NEW d \in Dispatchers,
           Claim(d) \/ FailLost(d) \/ Crash(d)
    PROVE  ServiceStep /\ OpenIsNeeded'
<1>0. TypeOK /\ TypeOK'
  BY DEF QInv
<1>1. AllStand /\ UNCHANGED served /\ (faults' = faults \/ faults' = faults + 1)
  <2>1. CASE Claim(d)
    <3>1. PICK b \in Batches :
            row' = [t \in Timers |->
                IF t \in b THEN [row[t] EXCEPT !.lease = "live", !.attempts = @ + 1]
                ELSE row[t]]
      BY <2>1 DEF Claim
    <3>2. ASSUME NEW u \in Timers PROVE row'[u].open = row[u].open
      <4>1. row[u] \in Rows
        BY <1>0 DEF TypeOK, Rows
      <4>2. CASE u \in b
        BY <3>1, <4>1, <4>2 DEF Rows
      <4>3. CASE u \notin b
        BY <3>1, <4>3
      <4> QED
        BY <4>2, <4>3
    <3> QED
      BY <2>1, <3>2 DEF Claim, AllStand
  <2>2. CASE FailLost(d) \/ Crash(d)
    BY <2>2 DEF FailLost, Crash, Fault, AllStand
  <2> QED
    BY <2>1, <2>2
<1> QED
  BY <1>0, <1>1, NoneTurns DEF AllStand, OpenIsNeeded

\* The failure that is recorded is one of the recorders', and with it the
\* attempts are at most the faults: a row that retires has cost that many.
LEMMA FailServes ==
    ASSUME QInv, QInv', OpenIsNeeded, NEW d \in Dispatchers, Fail(d)
    PROVE  ServiceStep /\ OpenIsNeeded'
<1>0. TypeOK /\ TypeOK'
  BY DEF QInv
<1>1. PICK t \in Timers, i \in 0..MaxArmings :
          /\ <<t, i>> \in raised[d]
          /\ row' = IF row[t].id = i THEN [row EXCEPT ![t] = Failed(t)] ELSE row
  BY DEF Fail
<1>2. UNCHANGED <<need, served, faults>>
  BY DEF Fail
<1>3. OthersStand(t) /\ (row'[t].open => row[t].open)
      /\ (row[t].open /\ ~row'[t].open => row[t].attempts >= MaxAttempts)
  BY <1>0, <1>1, <1>2, Bounds DEF Failed, OthersStand, TypeOK
<1>4. OpenIsNeeded'
  BY <1>2, <1>3 DEF OthersStand, OpenIsNeeded
<1>5. CASE row'[t].open = row[t].open
  BY <1>0, <1>2, <1>3, <1>4, <1>5, NoneTurns DEF OthersStand, AllStand
<1>6. CASE row'[t].open # row[t].open
  <2>1. row[t].open /\ ~row'[t].open /\ t \in need'
    BY <1>0, <1>2, <1>3, <1>6 DEF OpenIsNeeded, TypeOK
  <2>2. Standing(t) = "armed" /\ Standing(t)' = "given up"
    BY <2>1 DEF Standing
  <2>3. Cardinality(Recorders) \in Nat /\ Cardinality(Recorders) >= 1
    <3>1. d \in Recorders /\ IsFiniteSet(Recorders)
      BY <1>1, QueueAssumption, FS_Subset DEF Recorders
    <3>2. Cardinality(Recorders) # 0
      BY <3>1, FS_EmptySet
    <3> QED
      BY <3>1, <3>2, FS_CardinalityType
  <2>4. faults >= MaxAttempts
    <3>1. row[t].attempts \in Nat /\ faults \in Nat /\ row[t].attempts >= MaxAttempts
      BY <1>0, <1>3, <2>1 DEF TypeOK
    <3>2. CASE row[t].lease # "live"
      BY <2>1, <2>3, <3>1, <3>2, Bounds DEF QInv, Spent, Free
    <3>3. CASE row[t].lease = "live"
      BY <2>1, <2>3, <3>1, <3>3, Bounds DEF QInv, Spent, Free
    <3> QED
      BY <3>2, <3>3
  <2>5. Service!GiveUp(t)
    BY <1>0, <1>2, <1>3, <2>2, <2>4, OneTurns DEF Service!GiveUp
  <2> QED
    BY <1>4, <2>5 DEF ServiceStep, Service!ServiceNext
<1> QED
  BY <1>5, <1>6

\* A handler that commits has its timer armed, and leaves it idle or armed.
LEMMA CommitServes ==
    ASSUME TypeOK, TypeOK', OpenIsNeeded, NEW t \in Timers, NEW again \in BOOLEAN,
           row[t].open, Serve(t, again), faults' = faults \/ faults' = faults + 1
    PROVE  ServiceStep /\ OpenIsNeeded'
<1>1. OthersStand(t) /\ served' = [served EXCEPT ![t] = @ + 1]
  BY DEF Serve, OthersStand, TypeOK
<1>2. Standing(t) = "armed"
  BY DEF Standing
<1>3. /\ row'[t].open => t \in need'
      /\ Standing(t)' \in {"idle", "armed"}
  <2>1. CASE again
    <3>1. row'[t].open /\ t \in need'
      BY <2>1 DEF Serve, Completed, TypeOK
    <3> QED
      BY <3>1 DEF Standing
  <2>2. CASE ~again
    <3>1. ~row'[t].open /\ t \notin need'
      BY <2>2 DEF Serve, Completed, TypeOK
    <3> QED
      BY <3>1 DEF Standing
  <2> QED
    BY <2>1, <2>2
<1>4. Service!Run(t)
  BY <1>1, <1>2, <1>3, OneTurns DEF Service!Run
<1> QED
  BY <1>1, <1>3, <1>4 DEF ServiceStep, Service!ServiceNext, OthersStand, OpenIsNeeded

\* A fire that succeeds runs the handler, or does nothing.
LEMMA FireServes ==
    ASSUME QInv, QInv', OpenIsNeeded,
           NEW d \in Dispatchers, NEW t \in Timers, NEW i \in 0..MaxArmings,
           NEW again \in BOOLEAN, Fire(d, t, i, again)
    PROVE  ServiceStep /\ OpenIsNeeded'
<1>0. TypeOK /\ TypeOK' /\ faults' = faults
  BY DEF QInv, Fire
<1>1. CASE Fireable(t, i)
  BY <1>0, <1>1, CommitServes DEF Fire, Fireable
<1>2. CASE ~Fireable(t, i)
  <2>1. AllStand /\ UNCHANGED served
    BY <1>2 DEF Fire, AllStand
  <2> QED
    BY <1>0, <2>1, NoneTurns DEF AllStand, OpenIsNeeded
<1> QED
  BY <1>1, <1>2

\* A fire that raises is a fault, whether its handler committed or not.
LEMMA FireRaisesServes ==
    ASSUME QInv, QInv', OpenIsNeeded,
           NEW d \in Dispatchers, NEW t \in Timers, NEW i \in 0..MaxArmings,
           FireRaises(d, t, i)
    PROVE  ServiceStep /\ OpenIsNeeded'
<1>0. TypeOK /\ TypeOK' /\ faults' = faults + 1
  BY DEF QInv, FireRaises, Fault
<1>1. CASE UNCHANGED <<row, need, armings, served>>
  <2>1. AllStand /\ UNCHANGED served
    BY <1>1 DEF AllStand
  <2> QED
    BY <1>0, <2>1, NoneTurns DEF AllStand, OpenIsNeeded
<1>2. CASE /\ Fireable(t, i)
           /\ \E again \in BOOLEAN : (again => MayArmItself(t)) /\ Serve(t, again)
  BY <1>0, <1>2, CommitServes DEF Fireable
<1> QED
  BY <1>1, <1>2 DEF FireRaises

\* Every step of the queue is a step of the service, or none of its business.
LEMMA QueueServes ==
    QInv /\ QInv' /\ OpenIsNeeded /\ [Next]_vars => ServiceStep /\ OpenIsNeeded'
<1> SUFFICES ASSUME QInv, QInv', OpenIsNeeded, [Next]_vars
             PROVE  ServiceStep /\ OpenIsNeeded'
  OBVIOUS
<1>1. CASE \E t \in Timers : Arm(t) \/ Close(t) \/ ComeDue(t) \/ ExpireLease(t)
  BY <1>1, TriggersServe
<1>2. CASE \E d \in Dispatchers : Claim(d) \/ FailLost(d) \/ Crash(d)
  BY <1>2, DispatchersServe
<1>3. CASE \E d \in Dispatchers : Fail(d)
  BY <1>3, FailServes
<1>4. CASE \E d \in Dispatchers : FireAny(d)
  BY <1>4, FireServes DEF FireAny
<1>5. CASE \E d \in Dispatchers, t \in Timers, i \in 0..MaxArmings : FireRaises(d, t, i)
  BY <1>5, FireRaisesServes
<1>6. CASE UNCHANGED vars
  <2>1. AllStand /\ UNCHANGED <<served, faults>>
    BY <1>6 DEF vars, AllStand
  <2> QED
    BY <2>1, NoneTurns DEF QInv, AllStand, OpenIsNeeded
<1> QED
  BY <1>1, <1>2, <1>3, <1>4, <1>5, <1>6 DEF Next

\* A timer that the service gives up has cost as many faults as it may be
\* tried, and faults are not forgotten.
LEMMA GivenUpKept ==
    ASSUME TypeOK, TypeOK', OpenIsNeeded, OpenIsNeeded', GivenUpForFaults, ServiceStep
    PROVE  GivenUpForFaults'
<1>1. faults' >= faults /\ faults \in Nat /\ faults' \in Nat
  <2>1. faults \in Nat /\ faults' \in Nat
    BY Bounds DEF TypeOK
  <2>2. faults' \in {faults, faults + 1}
    BY DEF ServiceStep, Service!ServiceNext, Service!Suffer, Service!ArmTimer,
       Service!CallOff, Service!Run, Service!GiveUp, Service!serviceVars
  <2> QED
    BY <2>1, <2>2
<1>2. ASSUME NEW t \in need', ~row'[t].open
      PROVE  faults' >= MaxAttempts
  <2>1. t \in Timers /\ Standing(t)' = "given up"
    BY <1>2 DEF TypeOK, Standing
  <2>2. CASE Standing(t) = "given up"
    <3>1. t \in need /\ ~row[t].open
      BY <2>1, <2>2 DEF TypeOK, Standing
    <3> QED
      BY <1>1, <3>1, Bounds DEF GivenUpForFaults
  <2>3. CASE Standing(t) # "given up"
    <3> DEFINE abs == [u \in Timers |-> Standing(u)]
    <3>1. abs[t] # "given up" /\ abs'[t] = "given up"
      BY <2>1, <2>3
    <3>2. \E u \in Timers : Service!GiveUp(u)
      <4>1. ASSUME NEW u \in Timers, NEW s \in {"idle", "armed"}, Service!Turn(u, s)
            PROVE  FALSE
        BY <2>1, <3>1, <4>1 DEF Service!Turn
      <4>2. ~UNCHANGED abs
        BY <3>1
      <4> QED
        BY <4>1, <4>2 DEF ServiceStep, Service!ServiceNext, Service!Suffer,
           Service!ArmTimer, Service!CallOff, Service!Run, Service!serviceVars
    <3> QED
      BY <1>1, <3>2, Bounds DEF Service!GiveUp
  <2> QED
    BY <2>2, <2>3
<1> QED
  BY <1>2 DEF GivenUpForFaults

\* The queue implements TimerService: for any timers, dispatchers, batches and
\* bounds, an armed timer is served once, is not served after it was called
\* off, and is given up only after as many faults as a row has attempts.
THEOREM QueueKeepsTheService == Spec => KeepsTheService
<1>1. Init => Service!ServiceInit /\ OpenIsNeeded /\ GivenUpForFaults
  BY DEF Init, Service!ServiceInit, Standing, OpenIsNeeded, GivenUpForFaults
<1>2. QInv /\ QInv' /\ OpenIsNeeded /\ [Next]_vars
      => [Service!ServiceNext]_(Service!serviceVars) /\ OpenIsNeeded'
  BY QueueServes DEF ServiceStep
<1> QED
  BY <1>1, <1>2, QueueInvariant, PTL DEF Spec, KeepsTheService, Service!ServiceSpec

\* The needs that are given up have cost what they may.
LEMMA NeedsInvariant == Spec => [](OpenIsNeeded /\ GivenUpForFaults)
<1>1. Init => OpenIsNeeded /\ GivenUpForFaults
  BY DEF Init, OpenIsNeeded, GivenUpForFaults
<1>2. /\ QInv /\ QInv' /\ OpenIsNeeded /\ GivenUpForFaults /\ [Next]_vars
      => OpenIsNeeded' /\ GivenUpForFaults'
  BY QueueServes, GivenUpKept DEF QInv
<1> QED
  BY <1>1, <1>2, QueueInvariant, PTL DEF Spec

\* Until there have been as many faults as a row has attempts, no lease is
\* left that nobody can claim and no timer is given up, whatever else happens
\* (claim_dispatch_batch, fail_dispatch_task).
THEOREM QueueStrandsNobodyYet == Spec => []NoneStrandedYet
<1>1. QInv /\ GivenUpForFaults => NoneStrandedYet
  <2> SUFFICES ASSUME QInv, GivenUpForFaults, faults < MaxAttempts
               PROVE  StaleLeaseIsClaimable /\ \A t \in need : row[t].open
    BY DEF NoneStrandedYet
  <2>0. faults \in Nat /\ ~(faults >= MaxAttempts)
    BY Bounds DEF QInv, TypeOK
  <2>1. ASSUME NEW t \in Timers, row[t].open, row[t].due, row[t].lease = "expired", ~InFlight(t)
        PROVE  Claimable(t)
    <3>1. Cardinality(Recorders) \in Nat
      BY QueueAssumption, FS_Subset, FS_CardinalityType DEF Recorders
    <3>2. row[t].attempts \in Nat /\ row[t].attempts + Cardinality(Recorders) <= faults
      BY <2>1 DEF QInv, TypeOK, Spent
    <3>3. row[t].attempts < MaxAttempts
      BY <2>0, <3>1, <3>2, Bounds
    <3> QED
      BY <2>1, <3>3 DEF Claimable
  <2>2. \A t \in need : row[t].open
    BY <2>0 DEF GivenUpForFaults
  <2> QED
    BY <2>1, <2>2 DEF StaleLeaseIsClaimable
<1> QED
  BY <1>1, QueueInvariant, NeedsInvariant, PTL
=============================================================================
