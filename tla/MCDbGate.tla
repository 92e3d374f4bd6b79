------------------------------ MODULE MCDbGate ------------------------------
(* DbGate for TLC: interchangeable threads. *)
EXTENDS DbGate, TLC

Symmetry == Permutations(Threads)
=============================================================================
