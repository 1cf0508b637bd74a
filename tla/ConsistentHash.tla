---------------------------- MODULE ConsistentHash ----------------------------
(***************************************************************************)
(* consistenthash/con_hash.go: the ring of virtual nodes, its RWMutex, the *)
(* request counts and the balancer.  keys is always sorted when the lock   *)
(* is free, so it is modelled as the number of copies of each position.    *)
(* Add and Remove hold the lock throughout and are one action each; Get    *)
(* holds the read lock while it reads and writes nodeCounts.  Loads are    *)
(* compared in whole numbers: a / (t / n) > x as a * n > x * t.            *)
(***************************************************************************)
EXTENDS Integers, FiniteSets, FiniteSetsExt, Functions

CONSTANTS
  Callers,          \* goroutines that use the ring
  Nodes, NoNode,    \* NoNode is the empty name
  Positions,        \* values of HashFunc
  KeyPositions,     \* those of the keys that are asked for
  PositionOf,       \* node -> positions of node-0, node-1, ...
  DefaultReplicas, MinReplicas, MaxReplicas,
  Threshold,        \* LoadBalanceThreshold, in percent
  MinSamples,       \* the 1000 requests of checkAndRebalance
  MaxTotal, MaxAdds \* bounds on the requests counted and the calls of Add

ASSUME RingAssumption ==
  /\ NoNode \notin Nodes
  /\ Positions \subseteq Nat /\ KeyPositions \subseteq Positions
  /\ DefaultReplicas \in 1..MaxReplicas
  /\ MinReplicas \in 1..DefaultReplicas
  /\ PositionOf \in [Nodes -> [0..(DefaultReplicas - 1) -> Positions]]
  /\ MinSamples \in Nat \ {0} /\ MaxAdds \in Nat

VARIABLES
  copies,    \* position -> how often it occurs in keys
  owner,     \* hashMap
  replicas,  \* nodeReplicas, 0 for a node it does not hold
  counts,    \* nodeCounts, a partial function
  total,     \* totalRequests
  readers,   \* callers that hold the read lock
  balancer,  \* "sleep", "rebalance", or "stuck" with the lock held
  pc, arg,   \* caller -> operation it is in, and its node or position
  seen,      \* caller -> node its Get returns and the count it has read
  aborted,   \* the runtime has ended the program
  adds,      \* number of calls of Add
  tainted    \* ghost: nodes whose virtual nodes met others on a position

ringVars == <<copies, owner, replicas>>
callVars == <<pc, arg, seen>>
vars == <<ringVars, counts, total, readers, balancer, callVars, aborted, adds,
          tainted>>

NoServe == [node |-> NoNode, count |-> 0]

TypeOK ==
  /\ copies \in [Positions -> Nat]
  /\ owner \in [Positions -> Nodes \cup {NoNode}]
  /\ replicas \in [Nodes -> {0, DefaultReplicas}]
  /\ DOMAIN counts \subseteq Nodes \cup {NoNode}
  /\ \A n \in DOMAIN counts : counts[n] \in Nat
  /\ total \in Nat
  /\ readers \subseteq Callers
  /\ balancer \in {"sleep", "rebalance", "stuck"}
  /\ pc \in [Callers -> {"idle", "add", "remove", "get", "count", "total"}]
  /\ arg \in [Callers -> Nodes \cup Positions \cup {NoNode}]
  /\ seen \in [Callers -> [node : Nodes \cup {NoNode}, count : Nat]]
  /\ aborted \in BOOLEAN
  /\ adds \in 0..MaxAdds
  /\ tainted \subseteq Nodes

Init ==
  /\ copies = [p \in Positions |-> 0]
  /\ owner = [p \in Positions |-> NoNode]
  /\ replicas = [n \in Nodes |-> 0]
  /\ counts = <<>> /\ total = 0
  /\ readers = {} /\ balancer = "sleep"
  /\ pc = [g \in Callers |-> "idle"]
  /\ arg = [g \in Callers |-> NoNode]
  /\ seen = [g \in Callers |-> NoServe]
  /\ aborted = FALSE
  /\ adds = 0 /\ tainted = {}

Registered == {n \in Nodes : replicas[n] > 0}
OnRing == {p \in Positions : copies[p] > 0}

(* The positions of the first r virtual nodes of n, and how many share p.   *)
VirtualNodes(n, r) == {PositionOf[n][i] : i \in 0..(r - 1)}
At(n, r, p) == Cardinality({i \in 0..(r - 1) : PositionOf[n][i] = p})

(* The program runs, and the ring is unlocked for a reader, for a writer.   *)
ReadFree == ~aborted /\ balancer # "stuck"
WriteFree == ReadFree /\ readers = {}

Return(g) ==
  /\ pc' = [pc EXCEPT ![g] = "idle"]
  /\ arg' = [arg EXCEPT ![g] = NoNode]

-----------------------------------------------------------------------------
Call(g) ==
  /\ pc[g] = "idle" /\ ~aborted
  /\ \/ \E n \in Nodes, op \in {"add", "remove"} :
          /\ op = "add" => adds < MaxAdds
          /\ adds' = IF op = "add" THEN adds + 1 ELSE adds
          /\ pc' = [pc EXCEPT ![g] = op]
          /\ arg' = [arg EXCEPT ![g] = n]
     \/ \E p \in KeyPositions :
          /\ total < MaxTotal
          /\ pc' = [pc EXCEPT ![g] = "get"]
          /\ arg' = [arg EXCEPT ![g] = p]
          /\ UNCHANGED adds
  /\ UNCHANGED <<ringVars, counts, total, readers, balancer, seen, aborted, tainted>>

(* Mutant of Add: the last virtual node is put into keys only.              *)
AddUnnamed(g) ==
  /\ pc[g] = "add" /\ WriteFree
  /\ LET n == arg[g]
         new == VirtualNodes(n, DefaultReplicas)
         named == VirtualNodes(n, DefaultReplicas - 1)
         met == {p \in new : copies[p] > 0 \/ At(n, DefaultReplicas, p) > 1}
     IN  /\ copies' = [p \in Positions |-> copies[p] + At(n, DefaultReplicas, p)]
         /\ owner' = [p \in Positions |-> IF p \in named THEN n ELSE owner[p]]
         /\ replicas' = [replicas EXCEPT ![n] = DefaultReplicas]
         /\ tainted' = tainted \cup IF met = {} THEN {}
                         ELSE {n} \cup ({owner[p] : p \in met} \ {NoNode})
  /\ Return(g)
  /\ UNCHANGED <<counts, total, readers, balancer, seen, aborted, adds>>

(* Add of one node, as its only caller (peers.go:182) uses it.  A node that *)
(* is on the ring already is entered a second time.                         *)
Add(g) ==
  /\ pc[g] = "add" /\ WriteFree
  /\ LET n == arg[g]
         new == VirtualNodes(n, DefaultReplicas)
         met == {p \in new : copies[p] > 0 \/ At(n, DefaultReplicas, p) > 1}
     IN  /\ copies' = [p \in Positions |-> copies[p] + At(n, DefaultReplicas, p)]
         /\ owner' = [p \in Positions |-> IF p \in new THEN n ELSE owner[p]]
         /\ replicas' = [replicas EXCEPT ![n] = DefaultReplicas]
         /\ tainted' = tainted \cup IF met = {} THEN {}
                         ELSE {n} \cup ({owner[p] : p \in met} \ {NoNode})
  /\ Return(g)
  /\ UNCHANGED <<counts, total, readers, balancer, seen, aborted, adds>>

(* Mutant of Remove: the last virtual node is forgotten.                    *)
RemoveOneLess(g) ==
  /\ pc[g] = "remove" /\ WriteFree
  /\ LET n == arg[g]
         old == VirtualNodes(n, replicas[n] - 1)
     IN  /\ copies' = [p \in Positions |-> IF p \in old THEN copies[p] - 1 ELSE copies[p]]
         /\ owner' = [p \in Positions |-> IF p \in old THEN NoNode ELSE owner[p]]
         /\ replicas' = [replicas EXCEPT ![n] = 0]
         /\ counts' = Restrict(counts, DOMAIN counts \ {n})
  /\ Return(g)
  /\ UNCHANGED <<total, readers, balancer, seen, aborted, adds, tainted>>

(* Remove; a node that is not registered is an error.  One copy of each     *)
(* position goes, and the position loses its owner whoever that is.         *)
Remove(g) ==
  /\ pc[g] = "remove" /\ WriteFree
  /\ LET n == arg[g]
         old == VirtualNodes(n, replicas[n])
         left(p) == copies[p] - At(n, replicas[n], p)
     IN  /\ copies' = [p \in Positions |-> Max({0, left(p)})]
         /\ owner' = [p \in Positions |-> IF p \in old THEN NoNode ELSE owner[p]]
         /\ replicas' = [replicas EXCEPT ![n] = 0]
         /\ counts' = Restrict(counts, DOMAIN counts \ {n})
  /\ Return(g)
  /\ UNCHANGED <<total, readers, balancer, seen, aborted, adds, tainted>>

(* Mutant of GetEmpty: the early return keeps the read lock.                *)
GetEmptyLocked(g) ==
  /\ pc[g] = "get" /\ ReadFree /\ OnRing = {}
  /\ readers' = readers \cup {g}
  /\ Return(g)
  /\ UNCHANGED <<ringVars, counts, total, balancer, seen, aborted, adds, tainted>>

GetEmpty(g) ==
  /\ pc[g] = "get" /\ ReadFree /\ OnRing = {}
  /\ Return(g)
  /\ UNCHANGED <<ringVars, counts, total, readers, balancer, seen, aborted, adds, tainted>>

(* The first virtual node at or after a position, around the ring. *)
Successor(p) ==
  LET after == {q \in OnRing : q >= p}
  IN  IF after = {} THEN Min(OnRing) ELSE Min(after)

(* The node that is responsible for a key at p, as long as there is one.    *)
Serving(p) == IF OnRing = {} THEN NoNode ELSE owner[Successor(p)]

(* Get under the read lock: the lookup, and the count as it is now.         *)
GetLookup(g) ==
  /\ pc[g] = "get" /\ ReadFree /\ OnRing # {}
  /\ LET n == Serving(arg[g])
     IN  seen' = [seen EXCEPT ![g] =
           [node |-> n, count |-> IF n \in DOMAIN counts THEN counts[n] ELSE 0]]
  /\ readers' = readers \cup {g}
  /\ pc' = [pc EXCEPT ![g] = "count"]
  /\ UNCHANGED <<ringVars, counts, total, balancer, arg, aborted, adds, tainted>>

(* The count is written back. *)
GetCount(g) ==
  /\ pc[g] = "count" /\ ~aborted
  /\ counts' = [n \in DOMAIN counts \cup {seen[g].node} |->
                  IF n = seen[g].node THEN seen[g].count + 1 ELSE counts[n]]
  /\ seen' = [seen EXCEPT ![g] = NoServe]
  /\ pc' = [pc EXCEPT ![g] = "total"]
  /\ UNCHANGED <<ringVars, total, readers, balancer, arg, aborted, adds, tainted>>

(* The total goes up by an atomic add, and the read lock is given up.       *)
GetTotal(g) ==
  /\ pc[g] = "total" /\ ~aborted
  /\ total' = total + 1
  /\ readers' = readers \ {g}
  /\ Return(g)
  /\ UNCHANGED <<ringVars, counts, balancer, seen, aborted, adds, tainted>>

(* A Get writes the map nodeCounts under the read lock while another one    *)
(* does, or while the balancer ranges over it without a lock; the runtime   *)
(* may notice and ends the program.                                         *)
Abort ==
  /\ ~aborted
  /\ \/ Cardinality(readers) > 1
     \/ readers # {} /\ balancer = "sleep" /\ total >= MinSamples
  /\ aborted' = TRUE
  /\ UNCHANGED <<ringVars, counts, total, readers, balancer, callVars, adds, tainted>>

-----------------------------------------------------------------------------
(* The share of a node with c of the total requests is over Threshold       *)
(* percent away from the average; without nodes the average is infinite     *)
(* and nothing compares greater.                                            *)
Uneven(c) ==
  LET n == Cardinality(Registered)
      diff == IF c * n > total THEN c * n - total ELSE total - c * n
  IN  n > 0 /\ diff * 100 > Threshold * total

(* checkAndRebalance, without the lock, up to the call of rebalanceNodes.   *)
Check ==
  /\ balancer = "sleep" /\ ~aborted
  /\ total >= MinSamples
  /\ \E n \in DOMAIN counts : Uneven(counts[n])
  /\ balancer' = "rebalance"
  /\ UNCHANGED <<ringVars, counts, total, readers, callVars, aborted, adds, tainted>>

(* newReplicas of a node: fewer when it has had more than its share.        *)
NewReplicas(n) ==
  LET current == IF n = NoNode THEN 0 ELSE replicas[n]
      share == counts[n] * Cardinality(Registered)
      wanted == IF share > total THEN (current * total) \div share
                ELSE (current * (2 * total - share)) \div total
  IN  Max({MinReplicas, Min({MaxReplicas, wanted})})

(* The nodes rebalanceNodes passes to Remove with m.mu held; the empty name *)
(* is turned away before the lock.                                          *)
Moving == {n \in DOMAIN counts \ {NoNode} : NewReplicas(n) # replicas[n]}

(* rebalanceNodes reaches Remove, which waits for the lock held already.    *)
SelfLock ==
  /\ balancer = "rebalance" /\ WriteFree
  /\ Moving # {}
  /\ balancer' = "stuck"
  /\ UNCHANGED <<ringVars, counts, total, readers, callVars, aborted, adds, tainted>>

(* Mutant of Reset: the counts of the nodes are kept.                       *)
ResetTotal ==
  /\ balancer = "rebalance" /\ WriteFree
  /\ Moving = {}
  /\ total' = 0
  /\ balancer' = "sleep"
  /\ UNCHANGED <<ringVars, counts, readers, callVars, aborted, adds, tainted>>

(* rebalanceNodes has nothing to change and resets the counts.              *)
Reset ==
  /\ balancer = "rebalance" /\ WriteFree
  /\ Moving = {}
  /\ counts' = [n \in DOMAIN counts |-> 0]
  /\ total' = 0
  /\ balancer' = "sleep"
  /\ UNCHANGED <<ringVars, readers, callVars, aborted, adds, tainted>>

Step(g) ==
  \/ Add(g) \/ Remove(g)
  \/ GetEmpty(g) \/ GetLookup(g) \/ GetCount(g) \/ GetTotal(g)

Next ==
  \/ \E g \in Callers : Call(g) \/ Step(g)
  \/ Abort \/ Check \/ SelfLock \/ Reset

(* sync.RWMutex lets a waiting writer in after the readers it found, and    *)
(* the balancer's ticker fires every second.                                *)
Spec ==
  /\ Init /\ [][Next]_vars
  /\ \A g \in Callers : SF_vars(Step(g))
  /\ WF_vars(Check)
  /\ SF_vars(SelfLock \/ Reset)

-----------------------------------------------------------------------------
(* Adding a node twice, or a collision of hashes, damages the nodes it      *)
(* concerns and no other: a node that has never met another virtual node    *)
(* on its positions has each of them once and as its owner while it is      *)
(* registered, and none when it is not (con_hash.go:81-114, 151-162).       *)
OthersIntact ==
  /\ TypeOK
  /\ \A n \in Nodes \ tainted : \A p \in VirtualNodes(n, DefaultReplicas) :
       IF n \in Registered
       THEN owner[p] = n /\ copies[p] = 1
       ELSE owner[p] # n

(* The requests that the counts stand for.                                  *)
Counted == UNION {{n} \X (1..counts[n]) : n \in DOMAIN counts}

(* The counts never exceed the total they are compared with by more than    *)
(* the Gets that are between their two updates, although Gets lose each     *)
(* other's updates, Remove drops counts and the balancer resets both        *)
(* (con_hash.go:112, 143-145, 231-234).                                     *)
CountsWithinTotal ==
  Cardinality(Counted) <= total + Cardinality({g \in Callers : pc[g] = "total"})

(* The reason to hash consistently: as long as no virtual nodes have met, a *)
(* key changes hands only to a node that has just joined the ring or from   *)
(* one that has just left it; the keys of all others stay where they are    *)
(* (con_hash.go:58-79, 81-114, 117-148).                                    *)
OnlyTheirKeysMove ==
  [][tainted' = {} =>
       \A p \in Positions :
         \/ Serving(p)' = Serving(p)
         \/ Serving(p)' \in Registered' \ Registered
         \/ Serving(p) \in Registered \ Registered']_vars

(* Every Add, Remove and Get returns, unless the balancer waits for the     *)
(* lock it holds itself or the runtime has ended the program: no path       *)
(* leaves the lock behind (con_hash.go:58-148).                             *)
RingReturns ==
  \A g \in Callers :
    pc[g] # "idle" ~> pc[g] = "idle" \/ balancer = "stuck" \/ aborted

(* The balancer runs every second and tunes the virtual nodes               *)
(* (con_hash.go:257): a rebalancing it has begun comes to its end.          *)
RebalanceEnds == balancer = "rebalance" ~> balancer = "sleep" \/ aborted
=============================================================================
