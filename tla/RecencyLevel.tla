---------------------------- MODULE RecencyLevel ----------------------------
(***************************************************************************)
(* What one level of the LRU-2 store promises: a bounded recency list      *)
(* (store/lru2.go:251-318 without the arrays).  LinkedLevel implements it. *)
(***************************************************************************)
EXTENDS Lru2Level

CONSTANTS Values, Exps, Cap

VARIABLES
  nodes,   \* the nodes, most recent first
  out      \* the last operation, its key and what it handed to onEvicted

vars == <<nodes, out>>

Nodes == [k : Keys, v : Values, exp : Exps]

Did(op, k, evicted) == [op |-> op, k |-> {k}, evicted |-> evicted]

Init == nodes = <<>> /\ out = [op |-> "none", k |-> {}, evicted |-> {}]

Put(e) ==
  /\ nodes' = PutIn(nodes, e, Cap)
  /\ out' = Did("put", e.k, EvictedBy(nodes, e, Cap))
Touch(k) == nodes' = TouchIn(nodes, k) /\ out' = Did("get", k, {})
Del(k) == nodes' = DelIn(nodes, k) /\ out' = Did("del", k, {})

Next ==
  \/ \E e \in Nodes : Put(e)
  \/ \E k \in Keys : Touch(k) \/ Del(k)

Spec == Init /\ [][Next]_vars
=============================================================================
