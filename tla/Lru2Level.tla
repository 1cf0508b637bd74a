------------------------------ MODULE Lru2Level ------------------------------
(***************************************************************************)
(* One level of a bucket of store/lru2.go (type cache) as pure operators.  *)
(* A level is the sequence of its nodes from head to tail; a node is a     *)
(* record [k, v, exp], and exp = 0 marks a deleted node, which keeps its   *)
(* place and its key until a put takes it over.                            *)
(***************************************************************************)
EXTENDS Integers, Sequences, SequencesExt

CONSTANT Keys

KeysIn(s) == {s[i].k : i \in DOMAIN s}

(* hmap[key] *)
IndexOf(s, k) == CHOOSE i \in DOMAIN s : s[i].k = k

Entry(s, k) == s[IndexOf(s, k)]

(* A key that del and walk still see. *)
LiveIn(s, k) == k \in KeysIn(s) /\ Entry(s, k).exp > 0

LiveKeys(s) == {k \in KeysIn(s) : LiveIn(s, k)}

LiveEntries(s) == {s[i] : i \in {j \in DOMAIN s : s[j].exp > 0}}

Drop(s, k) == RemoveAt(s, IndexOf(s, k))

(* put: an existing node is overwritten and refreshed, a full level gives  *)
(* its tail node away, otherwise the next preallocated node is taken.      *)
PutIn(s, e, cap) ==
  IF e.k \in KeysIn(s) THEN <<e>> \o Drop(s, e.k)
  ELSE <<e>> \o (IF Len(s) = cap THEN Front(s) ELSE s)

(* Mutant of EvictedBy: the callback is not spared the deleted nodes.       *)
EvictedOrDead(s, e, cap) ==
  IF e.k \notin KeysIn(s) /\ Len(s) = cap THEN {Last(s)} ELSE {}

(* What that put evicts: the nodes onEvicted is called with.               *)
EvictedBy(s, e, cap) ==
  IF e.k \notin KeysIn(s) /\ Len(s) = cap /\ Last(s).exp > 0
  THEN {Last(s)} ELSE {}

(* get: the node moves to the head even if it is dead or expired.          *)
TouchIn(s, k) ==
  IF k \in KeysIn(s) THEN <<Entry(s, k)>> \o Drop(s, k) ELSE s

(* del: a live node is marked and moved to the tail, where the next put    *)
(* on a full level finds it first.                                         *)
DelIn(s, k) ==
  IF LiveIn(s, k) THEN Drop(s, k) \o <<[Entry(s, k) EXCEPT !.exp = 0]>> ELSE s
=============================================================================
