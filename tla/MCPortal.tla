------------------------------ MODULE MCPortal -------------------------------
(* The instance of Portal that is checked: every catalogued component.     *)
EXTENDS Portal, ResidentScreens, WorkerScreens, AdminScreens, ManagerScreens,
        SecurityScreens

MCScreens == ResidentPages \union WorkerPages \union AdminPages \union ManagerPages
             \union SecurityPages \union AmenityPages \union DockPages

\* Some behaviours look at the writes, with no event stream: two with a fault
\* and a change by others, or one with two changes, so that the row may have
\* been replaced under it. Some look at the stream, with two changes by others
\* or with one and a write.
MCBudgets ==
    {[stream |-> "off",     moves |-> 1, presses |-> 2, faults |-> 1],
     [stream |-> "off",     moves |-> 2, presses |-> 1, faults |-> 0],
     [stream |-> "opening", moves |-> 2, presses |-> 0, faults |-> 1],
     [stream |-> "opening", moves |-> 1, presses |-> 1, faults |-> 1]}
=============================================================================
