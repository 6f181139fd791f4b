----------------------------- MODULE MCEventHub ------------------------------
(* The instance of EventHub that is checked.                               *)
EXTENDS EventHub
=============================================================================
