------------------------------- MODULE GroupMC -------------------------------
(* Small instances of Group for TLC. *)
EXTENDS Group, TLC

Symmetry == Permutations(Goroutines) \cup Permutations(Calls)
=============================================================================
