---------------------------- MODULE DispatchQueue ----------------------------
(* The dispatch_tasks queue and the dispatcher processes that drain it: the  *)
(* lease, the retries, the crash of a process between claiming a task and    *)
(* firing it, and the re-arming of a timer that is already in flight.  What  *)
(* a task does when it fires is module WorkOrders; here a firing serves the  *)
(* need the timer was armed for.                                             *)
(*                                                                           *)
(* A timer is a (subject, kind) pair.  It has at most one open row, by the   *)
(* partial unique indexes; the rows before the latest are all completed, so  *)
(* only the latest is kept, with its number.                                 *)
EXTENDS Naturals, FiniteSets

CONSTANTS
    Timers,
    Urgent,       \* the timers whose rows have the higher queue priority
    SelfArming,   \* the timers whose handler may arm the same timer again
    Dispatchers,  \* one polling loop in each app process
    BatchSize,    \* p_limit of a claim
    MaxAttempts,  \* five, in the code
    MaxArmings,   \* bound: how often one timer is armed
    MaxFaults     \* bound: crashes, errors and overrun leases in a run

ASSUME QueueAssumption ==
    /\ IsFiniteSet(Dispatchers)
    /\ Urgent \subseteq Timers /\ SelfArming \subseteq Timers
    /\ {BatchSize, MaxAttempts} \subseteq Nat \ {0}
    /\ {MaxArmings, MaxFaults} \subseteq Nat

VARIABLES
    row,      \* timer -> its latest dispatch_tasks row
    hands,    \* dispatcher -> the rest of its batch, as <<timer, row number>>
    raised,   \* dispatcher -> the tasks whose fire raised, yet to be recorded
    need,     \* history: timers armed and neither served nor called off since
    armings,  \* history: timer -> how often it was armed
    served,   \* history: timer -> how often its handler ran to commit
    faults    \* history: how many faults have happened

vars == <<row, hands, raised, need, armings, served, faults>>

Ids == Timers \X (0..MaxArmings)

Init ==
    /\ row = [t \in Timers |->
          [id |-> 0, open |-> FALSE, due |-> FALSE, lease |-> "none", attempts |-> 0]]
    /\ hands = [d \in Dispatchers |-> {}]
    /\ raised = [d \in Dispatchers |-> {}]
    /\ need = {}
    /\ armings = [t \in Timers |-> 0]
    /\ served = [t \in Timers |-> 0]
    /\ faults = 0

Fault == faults < MaxFaults /\ faults' = faults + 1

\* Some dispatcher has yet to fire the timer's row, or to record its failure.
InFlight(t) ==
    \E d \in Dispatchers : <<t, row[t].id>> \in hands[d] \union raised[d]

-------------------------------------------------------------------------------
(* The triggers, and the passing of time.                                  *)

\* Mutant of Armed: a re-armed row keeps the attempts it has used up.
ArmedWornOut(t) ==
    [row[t] EXCEPT !.due = FALSE, !.lease = "none", !.open = TRUE,
                   !.id = IF row[t].open THEN @ ELSE @ + 1]

\* enqueue_dispatch_task: an open row is re-armed in place, its lease and
\* its attempts forgotten; otherwise a row is inserted.
Armed(t) ==
    [id |-> IF row[t].open THEN row[t].id ELSE row[t].id + 1,
     open |-> TRUE, due |-> FALSE, lease |-> "none", attempts |-> 0]

Arm(t) ==
    /\ armings[t] < MaxArmings
    /\ row' = [row EXCEPT ![t] = Armed(t)]
    /\ need' = need \union {t}
    /\ armings' = [armings EXCEPT ![t] = @ + 1]
    /\ UNCHANGED <<hands, raised, served, faults>>

\* close_dispatch_tasks: the job no longer waits for this timer.
Close(t) ==
    /\ row[t].open
    /\ row' = [row EXCEPT ![t].open = FALSE]
    /\ need' = need \ {t}
    /\ UNCHANGED <<hands, raised, armings, served, faults>>

\* due_at passes.
ComeDue(t) ==
    /\ row[t].open /\ ~row[t].due
    /\ row' = [row EXCEPT ![t].due = TRUE]
    /\ UNCHANGED <<hands, raised, need, armings, served, faults>>

\* Five minutes after claimed_at.  To outlive the lease with the task still
\* in some dispatcher's hands is a fault: a batch that takes that long.
ExpireLease(t) ==
    /\ row[t].open /\ row[t].lease = "live"
    /\ IF InFlight(t) THEN Fault ELSE UNCHANGED faults
    /\ row' = [row EXCEPT ![t].lease = "expired"]
    /\ UNCHANGED <<hands, raised, need, armings, served>>

-------------------------------------------------------------------------------
(* A dispatcher: claim a batch, fire it task by task, record the errors.   *)

\* Mutants of Claimable: a lease is never broken; attempts are not counted.
ClaimableUnleased(t) ==
    /\ row[t].open /\ row[t].due
    /\ row[t].lease = "none"
    /\ row[t].attempts < MaxAttempts
ClaimableForever(t) ==
    row[t].open /\ row[t].due /\ row[t].lease \in {"none", "expired"}

Claimable(t) ==
    /\ row[t].open /\ row[t].due
    /\ row[t].lease \in {"none", "expired"}
    /\ row[t].attempts < MaxAttempts

\* claim_dispatch_batch: a full batch of what is claimable, urgent rows first.
Batches ==
    LET able == {t \in Timers : Claimable(t)}
    IN  {b \in SUBSET able :
            /\ b # {}
            /\ Cardinality(b) <= BatchSize
            /\ Cardinality(b) < BatchSize => b = able
            /\ able \intersect Urgent \subseteq b \/ b \subseteq Urgent}

Claim(d) ==
    /\ hands[d] = {} /\ raised[d] = {}
    /\ \E b \in Batches :
        /\ row' = [t \in Timers |->
               IF t \in b THEN [row[t] EXCEPT !.lease = "live", !.attempts = @ + 1]
               ELSE row[t]]
        /\ hands' = [hands EXCEPT ![d] = {<<t, row[t].id>> : t \in b}]
    /\ UNCHANGED <<raised, need, armings, served, faults>>

\* The dispatcher is free to take the next task of its batch, and takes it.
Take(d, id) ==
    /\ raised[d] = {} /\ id \in hands[d]
    /\ hands' = [hands EXCEPT ![d] = @ \ {id}]

\* Mutants of Fireable and of Completed: the lock is taken but completed_at is
\* not looked at again; the row is completed after the handler re-armed it.
FireableAnyhow(t, i) == row[t].id = i
CompletedLast(t, again) == [row[t] EXCEPT !.open = FALSE]

\* fire_dispatch_task locks the row by its id and looks at completed_at.
Fireable(t, i) == row[t].id = i /\ row[t].open

\* The row once its handler has run.  A handler that arms its own timer again
\* finds the row completed already, and so gets a new one.
Completed(t, again) ==
    IF again THEN [id |-> row[t].id + 1, open |-> TRUE, due |-> FALSE,
                   lease |-> "none", attempts |-> 0]
    ELSE [row[t] EXCEPT !.open = FALSE]

\* The firing transaction commits.
Serve(t, again) ==
    /\ row' = [row EXCEPT ![t] = Completed(t, again)]
    /\ served' = [served EXCEPT ![t] = @ + 1]
    /\ need' = IF again THEN need \union {t} ELSE need \ {t}
    /\ armings' = [armings EXCEPT ![t] = @ + IF again THEN 1 ELSE 0]

MayArmItself(t) == t \in SelfArming /\ armings[t] < MaxArmings

\* A fire that succeeds; nothing is done for a task that is done already.
Fire(d, t, i, again) ==
    /\ Take(d, <<t, i>>)
    /\ again => MayArmItself(t)
    /\ IF Fireable(t, i) THEN Serve(t, again)
       ELSE ~again /\ UNCHANGED <<row, need, armings, served>>
    /\ UNCHANGED <<raised, faults>>

\* A fire that raises: the transaction is rolled back, or it committed and its
\* answer was lost.
FireRaises(d, t, i) ==
    /\ Take(d, <<t, i>>)
    /\ Fault
    /\ raised' = [raised EXCEPT ![d] = {<<t, i>>}]
    /\ \/ UNCHANGED <<row, need, armings, served>>
       \/ /\ Fireable(t, i)
          /\ \E again \in BOOLEAN : (again => MayArmItself(t)) /\ Serve(t, again)

\* fail_dispatch_task: the lease is released, and the row retires if this was
\* its last attempt.
Failed(t) ==
    [row[t] EXCEPT !.lease = "none",
                   !.open = @ /\ row[t].attempts < MaxAttempts]

Fail(d) ==
    /\ \E t \in Timers, i \in 0..MaxArmings :
        /\ <<t, i>> \in raised[d]
        /\ row' = IF row[t].id = i THEN [row EXCEPT ![t] = Failed(t)] ELSE row
    /\ raised' = [raised EXCEPT ![d] = {}]
    /\ UNCHANGED <<hands, need, armings, served, faults>>

\* The call that records the failure fails as well, which is suppressed.
FailLost(d) ==
    /\ raised[d] # {}
    /\ Fault
    /\ raised' = [raised EXCEPT ![d] = {}]
    /\ UNCHANGED <<row, hands, need, armings, served>>

\* The process dies and its loop starts afresh; also a claim whose answer is
\* lost after it committed.
Crash(d) ==
    /\ hands[d] # {} \/ raised[d] # {}
    /\ Fault
    /\ hands' = [hands EXCEPT ![d] = {}]
    /\ raised' = [raised EXCEPT ![d] = {}]
    /\ UNCHANGED <<row, need, armings, served>>

-------------------------------------------------------------------------------
FireAny(d) ==
    \E t \in Timers, i \in 0..MaxArmings, again \in BOOLEAN : Fire(d, t, i, again)

Next ==
    \/ \E t \in Timers : Arm(t) \/ Close(t) \/ ComeDue(t) \/ ExpireLease(t)
    \/ \E d \in Dispatchers :
        \/ Claim(d) \/ FireAny(d) \/ Fail(d) \/ FailLost(d) \/ Crash(d)
        \/ \E t \in Timers, i \in 0..MaxArmings : FireRaises(d, t, i)

Spec == Init /\ [][Next]_vars

\* Time passes, and every loop keeps polling and finishes what it claimed: it
\* is started unconditionally and survives every exception.
FairSpec ==
    /\ Spec
    /\ \A t \in Timers : WF_vars(ComeDue(t)) /\ WF_vars(ExpireLease(t))
    /\ \A d \in Dispatchers :
        WF_vars(Claim(d)) /\ WF_vars(FireAny(d)) /\ WF_vars(Fail(d))

-------------------------------------------------------------------------------
(* Properties.                                                             *)

\* Every variable has its type, and no row is claimed more often than allowed.
TypeOK ==
    /\ row \in [Timers ->
           [id : 0..MaxArmings, open : BOOLEAN, due : BOOLEAN,
            lease : {"none", "live", "expired"}, attempts : 0..MaxAttempts]]
    /\ hands \in [Dispatchers -> SUBSET Ids]
    /\ raised \in [Dispatchers -> SUBSET Ids]
    /\ need \subseteq Timers
    /\ armings \in [Timers -> 0..MaxArmings]
    /\ served \in [Timers -> Nat]
    /\ faults \in 0..MaxFaults

\* "A task that fires twice under the lease answers already_done rather than
\* acting twice" (dispatch_repository.fire): however claims, lapsed leases and
\* crashes interleave, a handler commits at most once for each arming.
ActsOncePerArming == \A t \in Timers : served[t] <= armings[t]

\* What a timer was armed for is never dropped: until it is served or called
\* off it has an open row, or it used up its attempts.
NeedHasRow ==
    \A t \in need : row[t].open \/ row[t].attempts >= MaxAttempts

\* A row never runs out of attempts while the faults are fewer than them: an
\* attempt is used up by a fault or it ends the row, and re-arming gives all
\* attempts back.
AttemptsCostFaults ==
    \A t \in Timers :
        row[t].open => row[t].attempts <= faults + 1

\* How far a timer is, seen from whoever arms it.
Standing(t) ==
    CASE row[t].open                    -> "armed"
      [] ~row[t].open /\ t \in need    -> "given up"
      [] ~row[t].open /\ t \notin need -> "idle"

\* The queue keeps TimerService's promise: through claims, lapsed leases,
\* crashes, re-armings in flight and answers lost, an armed timer is served
\* once, is not served after it was called off, and is given up only after
\* as many faults as a row has attempts.
Service == INSTANCE TimerService WITH
    Tries <- MaxAttempts,
    state <- [t \in Timers |-> Standing(t)]

KeepsTheService == Service!ServiceSpec

\* Every need is met: the timer fires or is called off, urgent or not, unless
\* faults have used up its attempts.
EveryNeedMet ==
    \A t \in Timers :
        t \in need ~> t \notin need \/ row[t].attempts >= MaxAttempts

\* "A row still open five minutes after this is claimable again -- which is how
\* a dispatcher that died mid-task does not strand the job it was holding"
\* (0037): the claim also demands attempts < 5, and only fail retires a row.
StaleLeaseIsClaimable ==
    \A t \in Timers :
        row[t].open /\ row[t].due /\ row[t].lease = "expired" /\ ~InFlight(t)
        => Claimable(t)

\* The claim holds, and no timer is given up, until as many faults have
\* happened as a row has attempts.
NoneStrandedYet ==
    faults < MaxAttempts =>
        StaleLeaseIsClaimable /\ \A t \in need : row[t].open
=============================================================================
