----------------------------- MODULE TimerService -----------------------------
(* What the dispatch queue promises whoever arms a timer, with no rows,      *)
(* leases, batches or dispatchers: an armed timer stays armed until its       *)
(* handler has run, once, or it is called off; a timer that is called off is  *)
(* not served; and an armed one is given up only when things have gone wrong  *)
(* as often as it may be tried.                                               *)
EXTENDS Naturals

CONSTANTS Timers, Tries

VARIABLES
    state,   \* timer -> "idle", "armed" or "given up"
    served,  \* timer -> how often its handler ran
    faults   \* how often something went wrong

serviceVars == <<state, served, faults>>

ServiceInit ==
    /\ state = [t \in Timers |-> "idle"]
    /\ served = [t \in Timers |-> 0]
    /\ faults = 0

\* Something goes wrong: nothing comes of it but that it did.
Suffer == faults' = faults + 1 /\ UNCHANGED <<state, served>>

Turn(t, s) == state' = [state EXCEPT ![t] = s]

\* Armed anew or again, in whatever state it was.
ArmTimer(t) == Turn(t, "armed") /\ UNCHANGED <<served, faults>>

CallOff(t) == state[t] = "armed" /\ Turn(t, "idle") /\ UNCHANGED <<served, faults>>

\* The handler runs, and may arm its own timer again. Whoever had it run may
\* yet hear that it failed.
Run(t) ==
    /\ state[t] = "armed"
    /\ \E s \in {"idle", "armed"} : Turn(t, s)
    /\ served' = [served EXCEPT ![t] = @ + 1]
    /\ faults' \in {faults, faults + 1}

GiveUp(t) ==
    /\ state[t] = "armed" /\ faults >= Tries
    /\ Turn(t, "given up")
    /\ UNCHANGED <<served, faults>>

ServiceNext ==
    \/ Suffer
    \/ \E t \in Timers : ArmTimer(t) \/ CallOff(t) \/ Run(t) \/ GiveUp(t)

ServiceSpec == ServiceInit /\ [][ServiceNext]_serviceVars
=============================================================================
