----------------------------- MODULE LinkedLevel -----------------------------
(***************************************************************************)
(* One level of the LRU-2 store as the code keeps it (store/lru2.go, type  *)
(* cache): a preallocated array of nodes, a map from keys to indices, and  *)
(* a doubly linked list of indices through the array dlnk, in which index  *)
(* 0 is the sentinel: dlnk[0]["n"] is the head, dlnk[0]["p"] the tail, and *)
(* 0 ends the list in both directions.                                     *)
(***************************************************************************)
EXTENDS Lru2Level, FiniteSets

CONSTANTS Values, Exps, Cap, NoNode

Nodes == [k : Keys, v : Values, exp : Exps]

ASSUME LinkedAssumption ==
  /\ Cap \in Nat \ {0} /\ Exps \subseteq Nat
  /\ 0 \in Exps /\ NoNode \notin Nodes

VARIABLES
  dlnk,  \* index -> direction -> neighbour, "p" the predecessor
  slots, \* index -> node, c.m; index i here is m[i-1] in the code
  hmap,  \* key -> index, 0 when the key has none
  last,  \* the last index taken from the array
  out    \* the last operation, its key and what it handed to onEvicted

linkedVars == <<dlnk, slots, hmap, last, out>>

Indices == 1..Cap
Dirs == {"p", "n"}
Did(op, k, evicted) == [op |-> op, k |-> {k}, evicted |-> evicted]
Nothing == [op |-> "none", k |-> {}, evicted |-> {}]

LinkedTypeOK ==
  /\ dlnk \in [0..Cap -> [Dirs -> 0..Cap]]
  /\ slots \in [Indices -> Nodes \cup {NoNode}]
  /\ hmap \in [Keys -> 0..Cap]
  /\ last \in 0..Cap
  /\ out \in [op : {"none", "put", "get", "del"}, k : SUBSET Keys,
              evicted : SUBSET Nodes]

(* Create(cap) *)
LinkedInit ==
  /\ dlnk = [i \in 0..Cap |-> [dir \in Dirs |-> 0]]
  /\ slots = [i \in Indices |-> NoNode]
  /\ hmap = [k \in Keys |-> 0]
  /\ last = 0
  /\ out = Nothing

Link(d, i, dir, to) == [d EXCEPT ![i][dir] = to]

(* Mutant of adjust: the neighbour on the far side is not relinked.         *)
AdjustHalfUnlinked(d, i, f, t) ==
  IF d[i][f] = 0 THEN d
  ELSE LET unlinked == Link(d, d[i][t], f, d[i][f])
           moved == Link(Link(unlinked, i, f, 0), i, t, unlinked[0][t])
       IN  Link(Link(moved, moved[0][t], f, i), 0, t, i)

(* adjust: take i out of the list and put it at the t end, unless it is     *)
(* there already.  The links are written in the order of the code, which    *)
(* reads links it has just written when i neighbours the sentinel.          *)
Adjust(d, i, f, t) ==
  IF d[i][f] = 0 THEN d
  ELSE LET unlinked1 == Link(d, d[i][t], f, d[i][f])
           unlinked2 == Link(unlinked1, unlinked1[i][f], t, unlinked1[i][t])
           moved == Link(Link(unlinked2, i, f, 0), i, t, unlinked2[0][t])
       IN  Link(Link(moved, moved[0][t], f, i), 0, t, i)

Update(e) ==
  /\ hmap[e.k] # 0
  /\ slots' = [slots EXCEPT ![hmap[e.k]] = e]
  /\ dlnk' = Adjust(dlnk, hmap[e.k], "p", "n")
  /\ out' = Did("put", e.k, {})
  /\ UNCHANGED <<hmap, last>>

(* put on a full level: the tail node changes hands. *)
Replace(e) ==
  /\ hmap[e.k] = 0 /\ last = Cap
  /\ LET tail == dlnk[0]["p"]
     IN  /\ out' = Did("put", e.k, {x \in {slots[tail]} : x.exp > 0})
         /\ hmap' = [hmap EXCEPT ![slots[tail].k] = 0, ![e.k] = tail]
         /\ slots' = [slots EXCEPT ![tail] = e]
         /\ dlnk' = Adjust(dlnk, tail, "p", "n")
  /\ UNCHANGED last

(* put while there are nodes left: the next one is linked in as the head.   *)
Insert(e) ==
  /\ hmap[e.k] = 0 /\ last < Cap
  /\ LET i == last + 1
         empty == \A k \in Keys : hmap[k] = 0
         behind == IF empty THEN 0 ELSE dlnk[0]["n"]
     IN  /\ last' = i
         /\ slots' = [slots EXCEPT ![i] = e]
         /\ hmap' = [hmap EXCEPT ![e.k] = i]
         /\ dlnk' = [dlnk EXCEPT ![behind]["p"] = i,
                                 ![i]["p"] = 0, ![i]["n"] = dlnk[0]["n"],
                                 ![0]["n"] = i]
  /\ out' = Did("put", e.k, {})

Put(e) == Update(e) \/ Replace(e) \/ Insert(e)

(* get *)
Touch(k) ==
  /\ hmap[k] # 0
  /\ dlnk' = Adjust(dlnk, hmap[k], "p", "n")
  /\ out' = Did("get", k, {})
  /\ UNCHANGED <<slots, hmap, last>>

(* Mutant of Del: the node is marked but stays where it is in the list.     *)
DelInPlace(k) ==
  /\ hmap[k] # 0 /\ slots[hmap[k]].exp > 0
  /\ slots' = [slots EXCEPT ![hmap[k]].exp = 0]
  /\ out' = Did("del", k, {})
  /\ UNCHANGED <<dlnk, hmap, last>>

(* del *)
Del(k) ==
  /\ hmap[k] # 0 /\ slots[hmap[k]].exp > 0
  /\ slots' = [slots EXCEPT ![hmap[k]].exp = 0]
  /\ dlnk' = Adjust(dlnk, hmap[k], "n", "p")
  /\ out' = Did("del", k, {})
  /\ UNCHANGED <<hmap, last>>

LinkedNext ==
  \/ \E e \in Nodes : Put(e)
  \/ \E k \in Keys : Touch(k) \/ Del(k)

LinkedSpec == LinkedInit /\ [][LinkedNext]_linkedVars

-----------------------------------------------------------------------------
Lists == UNION {[1..n -> Indices] : n \in 0..Cap}

(* The sentinel stands before the first and behind the last index.          *)
At(s, i) == IF i \in DOMAIN s THEN s[i] ELSE 0

(* Following dir from the sentinel one meets the indices of s.              *)
Follows(s, dir) == \A i \in 0..Len(s) : dlnk[At(s, i)][dir] = At(s, i + 1)

(* The list runs through every node taken from the array exactly once, the  *)
(* same way in both directions, and hmap names exactly those nodes: no      *)
(* adjust loses a node or closes a cycle (lru2.go:320-331), and walk        *)
(* terminates (lru2.go:312-318).                                            *)
WellLinked ==
  /\ LinkedTypeOK
  /\ \E s \in Lists :
       /\ Follows(s, "n") /\ Follows(Reverse(s), "p")
       /\ ToSet(s) = 1..last /\ Len(s) = last
  /\ \A k \in Keys : hmap[k] # 0 => slots[hmap[k]] # NoNode /\ slots[hmap[k]].k = k
  /\ \A i \in 1..last : slots[i] # NoNode /\ hmap[slots[i].k] = i

(* What walk sees: the nodes in list order. *)
WalkOrder ==
  LET order == CHOOSE s \in Lists : Follows(s, "n")
  IN  [i \in 1..Len(order) |-> slots[order[i]]]

Recency == INSTANCE RecencyLevel WITH nodes <- WalkOrder

(* The arrays, indices and links implement a bounded recency list: every    *)
(* put, get and del has the effect of the abstract operation on the walk    *)
(* order and hands the same node to onEvicted (lru2.go:251-331).  The       *)
(* operation and its key are part of out, so that a del cannot pass for a   *)
(* put of an expired value, nor a get of one key for that of another.       *)
ImplementsRecency == Recency!Spec
=============================================================================
