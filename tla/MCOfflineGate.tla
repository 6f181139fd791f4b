---------------------------- MODULE MCOfflineGate -----------------------------
(* The instance of OfflineGate that is checked.                            *)
EXTENDS OfflineGate

MCScans == 1..3
=============================================================================
