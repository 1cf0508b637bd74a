--------------------------- MODULE LinkedLevelMC ---------------------------
(* A small instance of LinkedLevel for TLC. *)
EXTENDS LinkedLevel

Symmetry == Permutations(Keys) \cup Permutations(Values)
=============================================================================
