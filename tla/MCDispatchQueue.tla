---------------------------- MODULE MCDispatchQueue ----------------------------
(* Small instances of DispatchQueue.                                         *)
EXTENDS DispatchQueue, TLC

\* Dispatchers are interchangeable.
MCSymmetry == Permutations(Dispatchers)
=============================================================================
