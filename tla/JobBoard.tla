------------------------------- MODULE JobBoard -------------------------------
(* What the complaint engine promises about who does a job, with no offers,  *)
(* times or timers: a job looks for somebody, at most one person holds it,   *)
(* only that person finishes it, and a job that is over stays as it ended.   *)
EXTENDS Naturals

CONSTANTS Jobs, Workers, Nobody

VARIABLES
    phase,   \* job -> "absent", "looking", "held" or "over"
    holder,  \* job -> who holds it
    doneBy   \* job -> who finished it, well or not

jobVars == <<phase, holder, doneBy>>

BoardInit ==
    /\ phase  = [j \in Jobs |-> "absent"]
    /\ holder = [j \in Jobs |-> Nobody]
    /\ doneBy = [j \in Jobs |-> Nobody]

Move(j, p, w, d) ==
    /\ phase'  = [phase EXCEPT ![j] = p]
    /\ holder' = [holder EXCEPT ![j] = w]
    /\ doneBy' = [doneBy EXCEPT ![j] = d]

Raise(j) == phase[j] = "absent" /\ Move(j, "looking", Nobody, Nobody)

\* Somebody takes a job, or a supervisor hands a held one to somebody else.
Engage(j, w) == phase[j] \in {"looking", "held"} /\ Move(j, "held", w, Nobody)

\* A supervisor offers a held job to others: the holder is let go.
Release(j) == phase[j] = "held" /\ Move(j, "looking", Nobody, Nobody)

Finish(j) == phase[j] = "held" /\ Move(j, "over", Nobody, holder[j])

\* A job is called off.
Drop(j) == phase[j] \in {"looking", "held"} /\ Move(j, "over", Nobody, Nobody)

BoardNext ==
    \E j \in Jobs :
        \/ Raise(j) \/ Release(j) \/ Finish(j) \/ Drop(j)
        \/ \E w \in Workers : Engage(j, w)

BoardSpec == BoardInit /\ [][BoardNext]_jobVars
=============================================================================
