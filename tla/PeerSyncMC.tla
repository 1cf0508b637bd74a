------------------------------ MODULE PeerSyncMC ------------------------------
(* Small instances of PeerSync for TLC. *)
EXTENDS PeerSync

CONSTANTS n1, n2

(* n1 is one of its own peers; n2 knows the address it is registered under. *)
Mixed == [n \in Nodes |-> IF n = n1 THEN Nodes ELSE Nodes \ {n}]
OtherNodes == [n \in Nodes |-> Nodes \ {n}]
=============================================================================
