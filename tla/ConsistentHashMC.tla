-------------------------- MODULE ConsistentHashMC --------------------------
(* A small instance of ConsistentHash for TLC. *)
EXTENDS ConsistentHash, TLC

CONSTANTS a, b, c

(* a and b never meet, c shares a position with b. *)
Placed == a :> (0 :> 1 @@ 1 :> 4) @@ b :> (0 :> 2 @@ 1 :> 3) @@ c :> (0 :> 3 @@ 1 :> 5)
PlacedHere == [n \in Nodes |-> Placed[n]]
=============================================================================
