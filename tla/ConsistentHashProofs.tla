------------------------ MODULE ConsistentHashProofs ------------------------
(* Proofs about ConsistentHash: see its header for the model. *)
EXTENDS ConsistentHash, FiniteSetTheorems, TLAPS

Replicas == 0..(DefaultReplicas - 1)

(* Whoever is about to change the ring has a node to do it with.            *)
ArgsAreNodes == \A g \in Callers : pc[g] \in {"add", "remove"} => arg[g] \in Nodes

(* The virtual nodes of registered nodes that lie on p.                     *)
Claims(p) == {c \in Registered \X Replicas : PositionOf[c[1]][c[2]] = p}

(* However nodes share positions, keys holds a copy for each virtual node   *)
(* of a registered node: a Remove never takes one that another node needs.  *)
EnoughCopies ==
  /\ IsFiniteSet(Registered)
  /\ \A p \in Positions : Cardinality(Claims(p)) <= copies[p]

(* OthersIntact without the type invariant. *)
Intact ==
  \A n \in Nodes \ tainted : \A p \in VirtualNodes(n, DefaultReplicas) :
    IF n \in Registered THEN owner[p] = n /\ copies[p] = 1 ELSE owner[p] # n

IInv == TypeOK /\ ArgsAreNodes /\ EnoughCopies /\ Intact

LEMMA InitIInv == Init => IInv
<1> SUFFICES ASSUME Init PROVE IInv OBVIOUS
<1> USE RingAssumption
<1>1. /\ copies = [p \in Positions |-> 0] /\ owner = [p \in Positions |-> NoNode]
      /\ replicas = [n \in Nodes |-> 0] /\ tainted = {}
      /\ \A g \in Callers : pc[g] = "idle"
  BY DEF Init
<1>2. TypeOK
  <2>1. DOMAIN counts = {} BY DEF Init
  <2>2. NoServe \in [node : Nodes \cup {NoNode}, count : Nat] BY DEF NoServe
  <2>3. /\ seen \in [Callers -> [node : Nodes \cup {NoNode}, count : Nat]]
        /\ pc \in [Callers -> {"idle", "add", "remove", "get", "count", "total"}]
        /\ arg \in [Callers -> Nodes \cup Positions \cup {NoNode}]
    BY <2>2 DEF Init
  <2>4. total = 0 /\ readers = {} /\ balancer = "sleep" /\ aborted = FALSE /\ adds = 0
    BY DEF Init
  <2>5. replicas \in [Nodes -> {0, DefaultReplicas}] BY <1>1
  <2>6. copies \in [Positions -> Nat] /\ owner \in [Positions -> Nodes \cup {NoNode}]
    BY <1>1
  <2>7. /\ total \in Nat /\ readers \subseteq Callers /\ adds \in 0..MaxAdds
        /\ balancer \in {"sleep", "rebalance", "stuck"}
    BY <2>4
  <2>8. aborted \in BOOLEAN /\ tainted \subseteq Nodes BY <1>1, <2>4
  <2> QED BY <2>1, <2>3, <2>5, <2>6, <2>7, <2>8 DEF TypeOK
<1>3. ArgsAreNodes BY <1>1 DEF ArgsAreNodes
<1>4. Registered = {} BY <1>1 DEF Registered
<1>5. EnoughCopies
  <2>1. \A p \in Positions : Claims(p) = {} BY <1>4 DEF Claims
  <2>2. IsFiniteSet({}) /\ Cardinality({}) = 0 BY FS_EmptySet
  <2>3. ASSUME NEW p \in Positions PROVE Cardinality(Claims(p)) <= copies[p]
    <3>1. Claims(p) = {} BY <2>1
    <3>2. Cardinality(Claims(p)) = 0 BY <2>2, <3>1
    <3> QED BY <1>1, <3>2
  <2> QED BY <1>4, <2>2, <2>3 DEF EnoughCopies
<1>6. Intact
  <2>1. \A n \in Nodes : VirtualNodes(n, DefaultReplicas) \subseteq Positions
    BY DEF VirtualNodes
  <2> QED BY <1>1, <1>4, <2>1 DEF Intact
<1> QED BY <1>2, <1>3, <1>5, <1>6 DEF IInv

(* What a caller or the balancer does with the counts leaves the ring alone. *)
LEMMA CountsStep ==
  ASSUME IInv, UNCHANGED <<ringVars, tainted>>,
         DOMAIN counts' \subseteq Nodes \cup {NoNode},
         \A n \in DOMAIN counts' : counts'[n] \in Nat,
         total' \in Nat,
         readers' \subseteq Callers,
         balancer' \in {"sleep", "rebalance", "stuck"},
         pc' \in [Callers -> {"idle", "add", "remove", "get", "count", "total"}],
         arg' \in [Callers -> Nodes \cup Positions \cup {NoNode}],
         seen' \in [Callers -> [node : Nodes \cup {NoNode}, count : Nat]],
         aborted' \in BOOLEAN,
         adds' \in 0..MaxAdds,
         \A g \in Callers : pc'[g] \in {"add", "remove"} => arg'[g] \in Nodes
  PROVE  IInv'
<1> USE DEF IInv, ringVars
<1>1. TypeOK' BY DEF TypeOK
<1>2. ArgsAreNodes' BY DEF ArgsAreNodes
<1>3. Registered' = Registered BY DEF Registered
<1>4. EnoughCopies' BY <1>3 DEF EnoughCopies, Claims
<1>5. Intact' BY <1>3 DEF Intact, VirtualNodes
<1> QED BY <1>1, <1>2, <1>4, <1>5

LEMMA CallStep == ASSUME IInv, NEW g \in Callers, Call(g) PROVE IInv'
<1> USE RingAssumption DEF IInv, TypeOK, Call
<1>1. pc' \in [Callers -> {"idle", "add", "remove", "get", "count", "total"}] OBVIOUS
<1>2. arg' \in [Callers -> Nodes \cup Positions \cup {NoNode}] OBVIOUS
<1>3. \A h \in Callers : pc'[h] \in {"add", "remove"} => arg'[h] \in Nodes
  BY DEF ArgsAreNodes
<1>4. adds' \in 0..MaxAdds OBVIOUS
<1> QED BY <1>1, <1>2, <1>3, <1>4, CountsStep

(* The minimum that Get takes exists, however many positions there are: the  *)
(* intervals below the positions are finite sets.                           *)
LEMMA MinInSet ==
  ASSUME NEW S \in SUBSET Nat, S # {}
  PROVE  Min(S) \in S /\ \A r \in S : Min(S) <= r
<1> DEFINE Below(q) == 0..(q - 1)
           T == {Below(q) : q \in S}
<1>1. T \subseteq FiniteSubsetsOf(Nat) /\ T # {}
  <2>1. ASSUME NEW q \in S PROVE Below(q) \in FiniteSubsetsOf(Nat)
    <3>1. 0 \in Int /\ q - 1 \in Int OBVIOUS
    <3>2. IsFiniteSet(Below(q)) BY <3>1, FS_Interval
    <3> QED BY <3>2 DEF FiniteSubsetsOf
  <2> QED BY <2>1
<1>2. PICK x \in T : \A y \in T : ~ (<<y, x>> \in StrictSubsetOrdering(Nat))
  BY <1>1, WFMin, FS_StrictSubsetOrderingWellFounded
<1>3. PICK q \in S : x = Below(q) BY <1>2
<1>4. ASSUME NEW r \in S, r < q PROVE FALSE
  <2>1. Below(r) \in T /\ Below(r) \subseteq Below(q) /\ r \in Below(q) /\ r \notin Below(r)
    BY <1>4
  <2>2. Below(r) \in SUBSET Nat /\ Below(q) \in SUBSET Nat OBVIOUS
  <2> QED BY <1>2, <1>3, <2>1, <2>2 DEF StrictSubsetOrdering
<1>5. \A r \in S : q <= r BY <1>4
<1> QED BY <1>5 DEF Min

LEMMA SuccessorOnRing ==
  ASSUME NEW p, OnRing # {}
  PROVE  Successor(p) \in Positions
BY RingAssumption, MinInSet DEF OnRing, Successor

LEMMA GetStep ==
  ASSUME IInv, NEW g \in Callers,
         GetEmpty(g) \/ GetLookup(g) \/ GetCount(g) \/ GetTotal(g)
  PROVE  IInv'
<1> USE RingAssumption DEF IInv, TypeOK, Return, ringVars
<1>1. CASE GetEmpty(g)
  <2>1. \A h \in Callers : pc'[h] \in {"add", "remove"} => arg'[h] \in Nodes
    BY <1>1 DEF GetEmpty, ArgsAreNodes
  <2> QED BY <1>1, <2>1, CountsStep DEF GetEmpty
<1>2. CASE GetLookup(g)
  <2>1. \A h \in Callers : pc'[h] \in {"add", "remove"} => arg'[h] \in Nodes
    BY <1>2 DEF GetLookup, ArgsAreNodes
  <2>2. Serving(arg[g]) \in Nodes \cup {NoNode} BY SuccessorOnRing DEF Serving
  <2> QED BY <1>2, <2>1, <2>2, CountsStep DEF GetLookup
<1>3. CASE GetCount(g)
  <2>1. \A h \in Callers : pc'[h] \in {"add", "remove"} => arg'[h] \in Nodes
    BY <1>3 DEF GetCount, ArgsAreNodes
  <2>2. NoServe \in [node : Nodes \cup {NoNode}, count : Nat] BY DEF NoServe
  <2>3. seen[g].node \in Nodes \cup {NoNode} /\ seen[g].count \in Nat OBVIOUS
  <2> QED BY <1>3, <2>1, <2>2, <2>3, CountsStep DEF GetCount
<1>4. CASE GetTotal(g)
  <2>1. \A h \in Callers : pc'[h] \in {"add", "remove"} => arg'[h] \in Nodes
    BY <1>4 DEF GetTotal, ArgsAreNodes
  <2> QED BY <1>4, <2>1, CountsStep DEF GetTotal
<1> QED BY <1>1, <1>2, <1>3, <1>4

LEMMA BalancerStep ==
  ASSUME IInv, Abort \/ Check \/ SelfLock \/ Reset
  PROVE  IInv'
<1> USE DEF IInv, TypeOK, ringVars, callVars
<1>1. \A h \in Callers : pc[h] \in {"add", "remove"} => arg[h] \in Nodes BY DEF ArgsAreNodes
<1>2. CASE Abort BY <1>1, <1>2, CountsStep DEF Abort
<1>3. CASE Check BY <1>1, <1>3, CountsStep DEF Check
<1>4. CASE SelfLock BY <1>1, <1>4, CountsStep DEF SelfLock
<1>5. CASE Reset BY <1>1, <1>5, CountsStep DEF Reset
<1> QED BY <1>2, <1>3, <1>4, <1>5

-----------------------------------------------------------------------------
(* The claims of one node on p are counted by At.                           *)
OwnClaims(n, p) == {c \in {n} \X Replicas : PositionOf[c[1]][c[2]] = p}

LEMMA OwnClaimsCount ==
  ASSUME NEW n \in Nodes, NEW p
  PROVE  /\ IsFiniteSet(OwnClaims(n, p))
         /\ Cardinality(OwnClaims(n, p)) = At(n, DefaultReplicas, p)
         /\ At(n, DefaultReplicas, p) \in Nat
         /\ p \in VirtualNodes(n, DefaultReplicas) <=> At(n, DefaultReplicas, p) > 0
<1> DEFINE S == {i \in Replicas : PositionOf[n][i] = p}
<1>1. IsFiniteSet(Replicas)
  <2>1. 0 \in Int /\ DefaultReplicas - 1 \in Int BY RingAssumption
  <2> QED BY <2>1, FS_Interval DEF Replicas
<1>2. IsFiniteSet(S) BY <1>1, FS_Subset
<1>3. ExistsBijection(S, OwnClaims(n, p))
  <2> DEFINE f == [i \in S |-> <<n, i>>]
  <2>1. f \in [S -> OwnClaims(n, p)] BY DEF OwnClaims
  <2>2. \A i, j \in S : f[i] = f[j] => i = j OBVIOUS
  <2>3. \A c \in OwnClaims(n, p) : \E i \in S : f[i] = c BY DEF OwnClaims
  <2>4. f \in Bijection(S, OwnClaims(n, p))
    BY <2>1, <2>2, <2>3 DEF Bijection, Injection, Surjection, IsInjective
  <2> QED BY <2>4 DEF ExistsBijection
<1>4. IsFiniteSet(OwnClaims(n, p)) /\ Cardinality(OwnClaims(n, p)) = Cardinality(S)
  BY <1>2, <1>3, FS_Bijection
<1>5. Cardinality(S) = At(n, DefaultReplicas, p) BY DEF At, Replicas
<1>6. Cardinality(S) \in Nat BY <1>2, FS_CardinalityType
<1>7. Cardinality(S) = 0 <=> S = {} BY <1>2, FS_EmptySet
<1>8. p \in VirtualNodes(n, DefaultReplicas) <=> S # {} BY DEF VirtualNodes, Replicas
<1> HIDE DEF S
<1> QED BY <1>4, <1>5, <1>6, <1>7, <1>8

LEMMA ClaimsFinite ==
  ASSUME IsFiniteSet(Registered), NEW p
  PROVE  IsFiniteSet(Claims(p)) /\ Cardinality(Claims(p)) \in Nat
<1>1. 0 \in Int /\ DefaultReplicas - 1 \in Int BY RingAssumption
<1>2. IsFiniteSet(Replicas) BY <1>1, FS_Interval DEF Replicas
<1>3. IsFiniteSet(Registered \X Replicas) BY <1>2, FS_Product
<1>4. Claims(p) \in SUBSET (Registered \X Replicas) BY DEF Claims
<1>5. IsFiniteSet(Claims(p)) BY <1>3, <1>4, FS_Subset
<1> QED BY <1>5, FS_CardinalityType

LEMMA AddStep == ASSUME IInv, NEW g \in Callers, Add(g) PROVE IInv'
<1> DEFINE n == arg[g]
           new == VirtualNodes(n, DefaultReplicas)
<1> USE RingAssumption DEF IInv
<1>1. n \in Nodes /\ new \subseteq Positions BY DEF Add, ArgsAreNodes, VirtualNodes
<1>2. \A p \in Positions : copies'[p] = copies[p] + At(n, DefaultReplicas, p)
  BY DEF Add
<1>3. \A p \in Positions : copies[p] \in Nat /\ At(n, DefaultReplicas, p) \in Nat
                           /\ (p \in new <=> At(n, DefaultReplicas, p) > 0)
  BY <1>1, OwnClaimsCount DEF TypeOK
<1>4. \A p \in Positions : owner'[p] = (IF p \in new THEN n ELSE owner[p])
  BY DEF Add
<1>5. replicas' = [replicas EXCEPT ![n] = DefaultReplicas] BY DEF Add
<1>6. Registered' = Registered \cup {n} BY <1>1, <1>5 DEF Registered, TypeOK
<1>7. TypeOK'
  <2>1. copies' \in [Positions -> Nat] BY <1>2, <1>3 DEF Add
  <2>2. owner' \in [Positions -> Nodes \cup {NoNode}] BY <1>1 DEF Add, TypeOK
  <2>3. replicas' \in [Nodes -> {0, DefaultReplicas}] BY <1>1, <1>5 DEF TypeOK
  <2>4. tainted' \subseteq Nodes BY <1>1 DEF Add, TypeOK
  <2>5. /\ pc' \in [Callers -> {"idle", "add", "remove", "get", "count", "total"}]
        /\ arg' \in [Callers -> Nodes \cup Positions \cup {NoNode}]
    BY DEF Add, Return, TypeOK
  <2> QED BY <2>1, <2>2, <2>3, <2>4, <2>5 DEF Add, TypeOK
<1>8. ArgsAreNodes' BY DEF Add, Return, ArgsAreNodes, TypeOK
<1>9. EnoughCopies'
  <2>1. IsFiniteSet(Registered') BY <1>6, FS_AddElement DEF EnoughCopies
  <2>2. ASSUME NEW p \in Positions PROVE Cardinality(Claims(p)') <= copies'[p]
    <3>1. Claims(p)' = Claims(p) \cup OwnClaims(n, p)
      BY <1>1, <1>6 DEF Claims, OwnClaims
    <3>2. IsFiniteSet(Claims(p)) /\ Cardinality(Claims(p)) \in Nat
      BY ClaimsFinite DEF EnoughCopies
    <3>3. IsFiniteSet(OwnClaims(n, p))
          /\ Cardinality(OwnClaims(n, p)) = At(n, DefaultReplicas, p)
      BY <1>1, OwnClaimsCount
    <3>4. Cardinality(Claims(p) \cap OwnClaims(n, p)) \in Nat
      BY <3>2, FS_Intersection, FS_CardinalityType
    <3>5. Cardinality(Claims(p)')
            = Cardinality(Claims(p)) + Cardinality(OwnClaims(n, p))
              - Cardinality(Claims(p) \cap OwnClaims(n, p))
      BY <3>1, <3>2, <3>3, FS_Union
    <3>6. Cardinality(Claims(p)) <= copies[p] BY DEF EnoughCopies
    <3> QED BY <1>2, <1>3, <3>2, <3>3, <3>4, <3>5, <3>6
  <2> QED BY <2>1, <2>2 DEF EnoughCopies
<1>10. Intact'
  <2> DEFINE met == {p \in new : copies[p] > 0 \/ At(n, DefaultReplicas, p) > 1}
  <2>1. tainted \subseteq tainted'
        /\ (met # {} => n \in tainted' /\ \A p \in met : owner[p] \in tainted' \cup {NoNode})
    BY DEF Add
  <2> SUFFICES ASSUME NEW k \in Nodes \ tainted',
                      NEW p \in VirtualNodes(k, DefaultReplicas)
               PROVE  IF k \in Registered' THEN owner'[p] = k /\ copies'[p] = 1
                      ELSE owner'[p] # k
    BY DEF Intact, VirtualNodes
  <2>2. p \in Positions BY DEF VirtualNodes
  <2>3. k \notin tainted BY <2>1
  <2>4. IF k \in Registered THEN owner[p] = k /\ copies[p] = 1 ELSE owner[p] # k
    BY <2>3 DEF Intact
  <2>5. CASE k = n
    <3>1. met = {} BY <2>1, <2>5
    <3>2. copies[p] = 0 /\ At(n, DefaultReplicas, p) = 1
      BY <1>3, <2>2, <2>5, <3>1
    <3> QED BY <1>2, <1>4, <1>6, <2>2, <2>5, <3>2
  <2>6. CASE k # n /\ p \in new
    <3>1. k \notin Registered
      <4>1. SUFFICES ASSUME k \in Registered PROVE FALSE OBVIOUS
      <4>2. p \in met /\ owner[p] = k BY <2>4, <2>6, <4>1
      <4> QED BY <2>1, <4>2
    <3> QED BY <1>4, <1>6, <2>2, <2>6, <3>1
  <2>7. CASE k # n /\ p \notin new
    <3>1. copies'[p] = copies[p] /\ owner'[p] = owner[p]
      BY <1>2, <1>3, <1>4, <2>2, <2>7
    <3> QED BY <1>6, <2>4, <2>7, <3>1
  <2> QED BY <2>5, <2>6, <2>7
<1> QED BY <1>7, <1>8, <1>9, <1>10

LEMMA MaxOfZero == ASSUME NEW i \in Int PROVE Max({0, i}) = IF i > 0 THEN i ELSE 0
<1> DEFINE x == IF i > 0 THEN i ELSE 0
<1>1. x \in {0, i} /\ \A y \in {0, i} : x >= y OBVIOUS
<1>2. \A z \in {0, i} : (\A y \in {0, i} : z >= y) => z = x OBVIOUS
<1> QED BY <1>1, <1>2 DEF Max

LEMMA CountsLeft ==
  ASSUME TypeOK, NEW n
  PROVE  LET left == Restrict(counts, DOMAIN counts \ {n})
         IN  DOMAIN left \subseteq Nodes \cup {NoNode} /\ \A k \in DOMAIN left : left[k] \in Nat
BY DEF TypeOK, Restrict

LEMMA RemoveStep == ASSUME IInv, NEW g \in Callers, Remove(g) PROVE IInv'
<1> DEFINE n == arg[g]
           old == VirtualNodes(n, DefaultReplicas)
<1> USE RingAssumption DEF IInv
<1>1. n \in Nodes /\ old \subseteq Positions BY DEF Remove, ArgsAreNodes, VirtualNodes
<1>2. /\ pc' \in [Callers -> {"idle", "add", "remove", "get", "count", "total"}]
      /\ arg' \in [Callers -> Nodes \cup Positions \cup {NoNode}]
      /\ \A h \in Callers : pc'[h] \in {"add", "remove"} => arg'[h] \in Nodes
      /\ DOMAIN counts' \subseteq Nodes \cup {NoNode} /\ \A k \in DOMAIN counts' : counts'[k] \in Nat
  BY CountsLeft DEF Remove, Return, TypeOK, ArgsAreNodes
<1>3. replicas' = [replicas EXCEPT ![n] = 0] BY DEF Remove
<1>4. CASE replicas[n] = 0
  <2>1. replicas' = replicas BY <1>3, <1>4 DEF TypeOK
  <2>2. VirtualNodes(n, replicas[n]) = {} BY <1>4 DEF VirtualNodes
  <2>3. owner' = owner BY <2>2 DEF Remove, TypeOK
  <2>4. ASSUME NEW p \in Positions PROVE copies'[p] = copies[p]
    <3>1. {i \in 0..(replicas[n] - 1) : PositionOf[n][i] = p} = {} BY <1>4
    <3>2. At(n, replicas[n], p) = 0 BY <3>1, FS_EmptySet DEF At
    <3>3. copies'[p] = Max({0, copies[p] - 0}) BY <3>2 DEF Remove
    <3>4. copies[p] \in Nat BY DEF TypeOK
    <3>5. copies[p] - 0 = copies[p] /\ copies[p] - 0 \in Int BY <3>4
    <3>6. Max({0, copies[p] - 0}) = IF copies[p] - 0 > 0 THEN copies[p] - 0 ELSE 0
      BY <3>5, MaxOfZero
    <3> QED BY <3>3, <3>4, <3>5, <3>6
  <2>5. copies' = copies BY <2>4 DEF Remove, TypeOK
  <2> QED BY <1>2, <2>1, <2>3, <2>5, CountsStep DEF Remove, ringVars, TypeOK
<1>5. CASE replicas[n] # 0
  <2>1. replicas[n] = DefaultReplicas /\ DefaultReplicas > 0 /\ n \in Registered
    BY <1>1, <1>5 DEF TypeOK, Registered
  <2>2. Registered' = Registered \ {n} BY <1>1, <1>3 DEF Registered, TypeOK
  <2>3. ASSUME NEW p \in Positions
        PROVE  /\ copies'[p] = copies[p] - At(n, DefaultReplicas, p) /\ copies'[p] \in Nat
               /\ copies[p] \in Nat
               /\ At(n, DefaultReplicas, p) \in Nat
               /\ p \in old <=> At(n, DefaultReplicas, p) > 0
               /\ Cardinality(Claims(p)') = Cardinality(Claims(p)) - At(n, DefaultReplicas, p)
               /\ Cardinality(Claims(p)') <= copies'[p]
    <3>1. Claims(p)' = Claims(p) \ OwnClaims(n, p)
      BY <1>1, <2>2 DEF Claims, OwnClaims
    <3>2. Claims(p) \cap OwnClaims(n, p) = OwnClaims(n, p)
      BY <2>1 DEF Claims, OwnClaims
    <3>3. IsFiniteSet(Claims(p)) /\ Cardinality(Claims(p)) \in Nat
      BY ClaimsFinite DEF EnoughCopies
    <3>4. /\ Cardinality(OwnClaims(n, p)) = At(n, DefaultReplicas, p)
          /\ At(n, DefaultReplicas, p) \in Nat
          /\ p \in old <=> At(n, DefaultReplicas, p) > 0
      BY <1>1, OwnClaimsCount
    <3>5. Cardinality(Claims(p)') = Cardinality(Claims(p)) - At(n, DefaultReplicas, p)
      <4>1. Cardinality(Claims(p) \ OwnClaims(n, p))
              = Cardinality(Claims(p)) - Cardinality(Claims(p) \cap OwnClaims(n, p))
        BY <3>3, FS_Difference
      <4> QED BY <3>1, <3>2, <3>4, <4>1
    <3>6. IsFiniteSet(Claims(p)') BY <3>1, <3>3, FS_Difference
    <3>7. Cardinality(Claims(p)') \in Nat BY <3>6, FS_CardinalityType
    <3>8. copies[p] \in Nat /\ Cardinality(Claims(p)) <= copies[p]
      BY DEF EnoughCopies, TypeOK
    <3>9. copies[p] - At(n, DefaultReplicas, p) \in Nat
      BY <3>3, <3>4, <3>5, <3>7, <3>8
    <3>10. copies'[p] = Max({0, copies[p] - At(n, DefaultReplicas, p)})
      BY <2>1 DEF Remove
    <3>11. copies'[p] = copies[p] - At(n, DefaultReplicas, p)
      BY <3>9, <3>10, MaxOfZero
    <3> QED BY <3>3, <3>4, <3>5, <3>8, <3>9, <3>11
  <2>4. \A p \in Positions : owner'[p] = (IF p \in old THEN NoNode ELSE owner[p])
    BY <2>1 DEF Remove
  <2>5. TypeOK'
    <3>1. copies' \in [Positions -> Nat]
      <4>1. copies' = [p \in Positions |-> copies'[p]] BY DEF Remove
      <4> QED BY <2>3, <4>1
    <3>2. owner' \in [Positions -> Nodes \cup {NoNode}] BY DEF Remove, TypeOK
    <3>3. replicas' \in [Nodes -> {0, DefaultReplicas}] BY <1>3 DEF TypeOK
    <3> QED BY <1>2, <3>1, <3>2, <3>3 DEF Remove, TypeOK
  <2>6. ArgsAreNodes' BY <1>2 DEF ArgsAreNodes
  <2>7. EnoughCopies'
    <3>1. IsFiniteSet(Registered') BY <2>2, FS_RemoveElement DEF EnoughCopies
    <3> QED BY <2>3, <3>1 DEF EnoughCopies
  <2>8. Intact'
    <3> SUFFICES ASSUME NEW k \in Nodes \ tainted,
                        NEW p \in VirtualNodes(k, DefaultReplicas)
                 PROVE  IF k \in Registered' THEN owner'[p] = k /\ copies'[p] = 1
                        ELSE owner'[p] # k
      BY DEF Intact, VirtualNodes, Remove
    <3>1. p \in Positions BY DEF VirtualNodes
    <3>2. IF k \in Registered THEN owner[p] = k /\ copies[p] = 1 ELSE owner[p] # k
      BY DEF Intact
    <3>3. CASE p \notin old
      <4>1. copies'[p] = copies[p] /\ owner'[p] = owner[p] BY <2>3, <2>4, <3>1, <3>3
      <4>2. k # n BY <3>3
      <4> QED BY <2>2, <3>2, <4>1, <4>2
    <3>4. CASE p \in old /\ k \notin Registered'
      BY <2>4, <3>1, <3>4
    (* Two registered nodes on p: k is not as intact as it was said to be.    *)
    <3>5. CASE p \in old /\ k \in Registered'
      <4>1. k \in Registered /\ k # n BY <2>2, <3>5
      <4>2. At(n, DefaultReplicas, p) > 0 /\ copies[p] = 1 BY <2>3, <3>1, <3>2, <3>5, <4>1
      <4>3. Cardinality(Claims(p)') = 0 /\ IsFiniteSet(Claims(p)')
        <5>1. Cardinality(Claims(p)') <= 0 BY <2>3, <3>1, <4>2
        <5>2. IsFiniteSet(Claims(p)') /\ Cardinality(Claims(p)') \in Nat
          <6>1. Claims(p)' \in SUBSET Claims(p) BY <2>2 DEF Claims
          <6>2. IsFiniteSet(Claims(p)) BY ClaimsFinite DEF EnoughCopies
          <6> QED BY <6>1, <6>2, FS_Subset, FS_CardinalityType
        <5> QED BY <5>1, <5>2
      <4>4. PICK i \in Replicas : PositionOf[k][i] = p BY DEF VirtualNodes, Replicas
      <4>5. <<k, i>> \in Claims(p)' BY <3>5, <4>4 DEF Claims
      <4> QED BY <4>3, <4>5, FS_EmptySet
    <3> QED BY <3>3, <3>4, <3>5
  <2> QED BY <2>5, <2>6, <2>7, <2>8
<1> QED BY <1>4, <1>5

(* The inductive invariant holds in every reachable state: nodes that share *)
(* positions lose track of who owns them, but not of how many they are.     *)
THEOREM Invariance == Spec => []IInv
<1>1. ASSUME IInv, Next PROVE IInv'
  BY <1>1, CallStep, AddStep, RemoveStep, GetStep, BalancerStep DEF Next, Step
<1>2. ASSUME IInv, UNCHANGED vars PROVE IInv'
  BY <1>2 DEF vars, ringVars, callVars, IInv, TypeOK, ArgsAreNodes, EnoughCopies, Claims,
              Registered, Intact, VirtualNodes
<1> QED BY <1>1, <1>2, InitIInv, PTL DEF Spec

(* Adding a node twice, and positions that collide, damage only the nodes   *)
(* they concern: the others stay where their virtual nodes put them.        *)
THEOREM OthersStayIntact == Spec => []OthersIntact
<1>1. IInv => OthersIntact BY DEF IInv, Intact, OthersIntact
<1> QED BY <1>1, Invariance, PTL

-----------------------------------------------------------------------------
(* The counts and the total.  A Get may write back a count that is older    *)
(* than the one it overwrites, so that another Get still holds a count that *)
(* is nowhere in nodeCounts any more.  What stays within the total is all   *)
(* that nodeCounts and the Gets know of.                                    *)
Reading == {g \in Callers : pc[g] = "count"}
Adding == {g \in Callers : pc[g] = "total"}
Known == Counted \cup UNION {{seen[g].node} \X (1..seen[g].count) : g \in Reading}

Counting ==
  /\ Reading \cup Adding \subseteq readers
  /\ IsFiniteSet(Known) /\ IsFiniteSet(Adding)
  /\ Cardinality(Known) <= total + Cardinality(Adding)

LEMMA InCounted ==
  \A c : c \in Counted <=> \E n \in DOMAIN counts : \E i \in 1..counts[n] : c = <<n, i>>
BY DEF Counted

LEMMA InKnown ==
  \A c : c \in Known <=>
    \/ \E n \in DOMAIN counts : \E i \in 1..counts[n] : c = <<n, i>>
    \/ \E g \in Reading : \E i \in 1..seen[g].count : c = <<seen[g].node, i>>
BY InCounted DEF Known

(* A step that neither adds to the total nor counts a request.              *)
LEMMA StillCounted ==
  ASSUME Counting, Known' \subseteq Known, Adding' = Adding,
         Reading' \cup Adding' \subseteq readers', total' = total,
         total \in Nat
  PROVE  Counting'
<1>1. IsFiniteSet(Known') /\ Cardinality(Known') <= Cardinality(Known)
  BY FS_Subset DEF Counting
<1>2. Cardinality(Known') \in Nat /\ Cardinality(Known) \in Nat /\ Cardinality(Adding) \in Nat
  BY <1>1, FS_CardinalityType DEF Counting
<1> QED BY <1>1, <1>2 DEF Counting

LEMMA CountingCall ==
  ASSUME IInv, Counting, NEW g \in Callers, Call(g) \/ Add(g) \/ GetEmpty(g)
  PROVE  Counting'
<1> USE DEF IInv, TypeOK
<1>1. /\ counts' = counts /\ seen' = seen /\ readers' = readers /\ total' = total
      /\ pc[g] \notin {"count", "total"}
      /\ \E op \in {"add", "remove", "get", "idle"} : pc' = [pc EXCEPT ![g] = op]
  BY DEF Call, Add, GetEmpty, Return
<1>2. Reading' = Reading /\ Adding' = Adding BY <1>1 DEF Reading, Adding
<1>3. Known' = Known BY <1>1, <1>2 DEF Known, Counted
<1> QED BY <1>1, <1>2, <1>3, StillCounted DEF Counting

LEMMA CountingRemove ==
  ASSUME IInv, Counting, NEW g \in Callers, Remove(g)
  PROVE  Counting'
<1> USE DEF IInv, TypeOK
<1>1. /\ counts' = Restrict(counts, DOMAIN counts \ {arg[g]})
      /\ seen' = seen /\ readers' = readers /\ total' = total
      /\ pc[g] = "remove" /\ pc' = [pc EXCEPT ![g] = "idle"]
  BY DEF Remove, Return
<1>2. Reading' = Reading /\ Adding' = Adding BY <1>1 DEF Reading, Adding
<1>3. DOMAIN counts' \subseteq DOMAIN counts /\ \A n \in DOMAIN counts' : counts'[n] = counts[n]
  BY <1>1 DEF Restrict
<1>4. Counted' \subseteq Counted BY <1>3 DEF Counted
<1>5. Known' \subseteq Known BY <1>1, <1>2, <1>4 DEF Known
<1> QED BY <1>1, <1>2, <1>5, StillCounted DEF Counting

LEMMA CountingLookup ==
  ASSUME IInv, Counting, NEW g \in Callers, GetLookup(g)
  PROVE  Counting'
<1> USE DEF IInv, TypeOK
<1> DEFINE n == Serving(arg[g])
           c == IF n \in DOMAIN counts THEN counts[n] ELSE 0
<1>1. /\ counts' = counts /\ total' = total /\ readers' = readers \cup {g}
      /\ seen' = [seen EXCEPT ![g] = [node |-> n, count |-> c]]
      /\ pc[g] = "get" /\ pc' = [pc EXCEPT ![g] = "count"]
  BY DEF GetLookup
<1> HIDE DEF n
<1>2. Reading' = Reading \cup {g} /\ Adding' = Adding /\ g \notin Reading
  BY <1>1 DEF Reading, Adding
<1>3. ASSUME NEW x \in Known' PROVE x \in Known
  <2>1. \/ \E k \in DOMAIN counts : \E i \in 1..counts[k] : x = <<k, i>>
        \/ \E h \in Reading' : \E i \in 1..seen'[h].count : x = <<seen'[h].node, i>>
    BY <1>1, <1>3 DEF Known, Counted
  <2>2. ASSUME NEW h \in Reading', NEW i \in 1..seen'[h].count, x = <<seen'[h].node, i>>
        PROVE  x \in Known
    <3>1. CASE h = g
      <4>1. seen'[g].node = n /\ seen'[g].count = c BY <1>1
      <4>2. i \in 1..c /\ x = <<n, i>> BY <2>2, <3>1, <4>1
      <4>3. n \in DOMAIN counts BY <4>2
      <4> QED BY <4>2, <4>3, InKnown
    <3>2. CASE h # g
      <4>1. h \in Reading /\ seen'[h] = seen[h] BY <1>1, <1>2, <3>2 DEF Reading
      <4> QED BY <2>2, <4>1, InKnown
    <3> QED BY <3>1, <3>2
  <2> QED BY <2>1, <2>2, InKnown
<1>4. Reading' \cup Adding' \subseteq readers' BY <1>1, <1>2 DEF Counting
<1> QED BY <1>1, <1>2, <1>3, <1>4, StillCounted DEF Counting

(* A Get counts one request beyond those it knew of.                        *)
LEMMA CountingCount ==
  ASSUME IInv, Counting, NEW g \in Callers, GetCount(g)
  PROVE  Counting'
<1> USE DEF IInv, TypeOK
<1> DEFINE n == seen[g].node
           c == seen[g].count
           x == <<n, c + 1>>
<1>1. /\ counts' = [k \in DOMAIN counts \cup {n} |-> IF k = n THEN c + 1 ELSE counts[k]]
      /\ total' = total /\ readers' = readers
      /\ seen' = [seen EXCEPT ![g] = NoServe]
      /\ pc[g] = "count" /\ pc' = [pc EXCEPT ![g] = "total"]
      /\ c \in Nat
  BY DEF GetCount
<1>2. /\ Reading' = Reading \ {g} /\ g \in Reading
      /\ Adding' = Adding \cup {g} /\ g \notin Adding
  BY <1>1 DEF Reading, Adding
<1>3. ASSUME NEW y \in Known' PROVE y \in Known \cup {x}
  <2>1. \/ \E k \in DOMAIN counts' : \E i \in 1..counts'[k] : y = <<k, i>>
        \/ \E h \in Reading' : \E i \in 1..seen'[h].count : y = <<seen'[h].node, i>>
    BY <1>3 DEF Known, Counted
  <2>2. ASSUME NEW k \in DOMAIN counts', NEW i \in 1..counts'[k], y = <<k, i>>
        PROVE  y \in Known \cup {x}
    <3>1. CASE k = n
      <4>1. counts'[k] = c + 1 BY <1>1, <3>1
      <4>2. i \in 1..(c + 1) /\ c \in Nat BY <1>1, <4>1
      <4> HIDE DEF c, n
      <4>4. i = c + 1 \/ i \in 1..c BY <4>2
      <4>3. ASSUME i \in 1..c PROVE y \in Known
        BY <1>2, <2>2, <3>1, <4>3, InKnown DEF c, n
      <4> QED BY <2>2, <3>1, <4>3, <4>4 DEF x
    <3>2. CASE k # n
      <4>1. k \in DOMAIN counts /\ counts'[k] = counts[k] BY <1>1, <3>2
      <4> QED BY <2>2, <4>1, InKnown
    <3> QED BY <3>1, <3>2
  <2>3. ASSUME NEW h \in Reading', NEW i \in 1..seen'[h].count, y = <<seen'[h].node, i>>
        PROVE  y \in Known
    <3>1. h \in Reading /\ seen'[h] = seen[h] BY <1>1, <1>2 DEF Reading
    <3> QED BY <2>3, <3>1, InKnown
  <2> QED BY <2>1, <2>2, <2>3
<1> HIDE DEF x
<1>4. IsFiniteSet(Known \cup {x}) /\ Cardinality(Known \cup {x}) <= Cardinality(Known) + 1
  <2>1. IsFiniteSet(Known) BY DEF Counting
  <2>2. Cardinality(Known) \in Nat BY <2>1, FS_CardinalityType
  <2>3. /\ IsFiniteSet(Known \cup {x})
        /\ Cardinality(Known \cup {x})
             = IF x \in Known THEN Cardinality(Known) ELSE Cardinality(Known) + 1
    BY <2>1, FS_AddElement
  <2> QED BY <2>2, <2>3
<1>5. IsFiniteSet(Known') /\ Cardinality(Known') <= Cardinality(Known \cup {x})
  BY <1>3, <1>4, FS_Subset
<1>6. IsFiniteSet(Adding') /\ Cardinality(Adding') = Cardinality(Adding) + 1
  BY <1>2, FS_AddElement DEF Counting
<1>7. /\ Cardinality(Known) \in Nat /\ Cardinality(Known') \in Nat
      /\ Cardinality(Known \cup {x}) \in Nat /\ Cardinality(Adding) \in Nat
  BY <1>4, <1>5, FS_CardinalityType DEF Counting
<1>8. Cardinality(Known) <= total + Cardinality(Adding) BY DEF Counting
<1>9. Cardinality(Known') <= total' + Cardinality(Adding')
  BY <1>1, <1>4, <1>5, <1>6, <1>7, <1>8
<1>10. Reading' \cup Adding' \subseteq readers' BY <1>1, <1>2 DEF Counting
<1> QED BY <1>5, <1>6, <1>9, <1>10 DEF Counting

LEMMA CountingTotal ==
  ASSUME IInv, Counting, NEW g \in Callers, GetTotal(g)
  PROVE  Counting'
<1> USE DEF IInv, TypeOK
<1>1. /\ counts' = counts /\ seen' = seen /\ total' = total + 1 /\ readers' = readers \ {g}
      /\ pc[g] = "total" /\ pc' = [pc EXCEPT ![g] = "idle"]
  BY DEF GetTotal, Return
<1>2. Reading' = Reading /\ Adding' = Adding \ {g} /\ g \in Adding /\ g \notin Reading
  BY <1>1 DEF Reading, Adding
<1>3. Known' = Known BY <1>1, <1>2 DEF Known, Counted
<1>4. IsFiniteSet(Adding') /\ Cardinality(Adding') = Cardinality(Adding) - 1
  BY <1>2, FS_RemoveElement DEF Counting
<1>5. Cardinality(Known) \in Nat /\ Cardinality(Adding) \in Nat /\ total \in Nat
  BY FS_CardinalityType DEF Counting
<1>6. Cardinality(Known') <= total' + Cardinality(Adding')
  <2>1. Cardinality(Known) <= total + Cardinality(Adding) BY DEF Counting
  <2> QED BY <1>1, <1>3, <1>4, <1>5, <2>1
<1>7. Reading' \cup Adding' \subseteq readers' BY <1>1, <1>2 DEF Counting
<1> QED BY <1>3, <1>4, <1>6, <1>7 DEF Counting

LEMMA CountingBalancer ==
  ASSUME IInv, Counting, Abort \/ Check \/ SelfLock \/ Reset \/ UNCHANGED vars
  PROVE  Counting'
<1> USE DEF IInv, TypeOK, callVars
<1>1. CASE Reset
  <2>1. counts' = [n \in DOMAIN counts |-> 0] /\ total' = 0 /\ pc' = pc /\ readers = {}
    BY <1>1 DEF Reset, WriteFree
  <2>2. Reading' = {} /\ Adding' = {} BY <2>1 DEF Counting, Reading, Adding
  <2>3. \A c : c \notin Known'
    <3>1. \A n \in DOMAIN counts' : 1..counts'[n] = {} BY <2>1
    <3>2. Counted' = {} BY <3>1 DEF Counted
    <3> QED BY <2>2, <3>2 DEF Known
  <2>4. Known' = {} BY <2>3
  <2>5. IsFiniteSet({}) /\ Cardinality({}) = 0 BY FS_EmptySet
  <2>6. Cardinality(Known') = 0 /\ Cardinality(Adding') = 0 BY <2>2, <2>4, <2>5
  <2> QED BY <2>1, <2>2, <2>4, <2>5, <2>6 DEF Counting
<1>2. CASE Abort \/ Check \/ SelfLock \/ UNCHANGED vars
  <2>1. /\ counts' = counts /\ seen' = seen /\ pc' = pc
        /\ readers' = readers /\ total' = total
    BY <1>2 DEF Abort, Check, SelfLock, vars
  <2>2. Reading' = Reading /\ Adding' = Adding BY <2>1 DEF Reading, Adding
  <2>3. Known' = Known BY <2>1, <2>2 DEF Known, Counted
  <2> QED BY <2>1, <2>2, <2>3 DEF Counting
<1> QED BY <1>1, <1>2

LEMMA InitCounting == Init => Counting
<1> SUFFICES ASSUME Init PROVE Counting OBVIOUS
<1>1. DOMAIN counts = {} /\ total = 0 /\ \A g \in Callers : pc[g] = "idle" BY DEF Init
<1>2. Reading = {} /\ Adding = {} BY <1>1 DEF Reading, Adding
<1>3. Known = {} BY <1>1, <1>2 DEF Known, Counted
<1>4. IsFiniteSet({}) /\ Cardinality({}) = 0 BY FS_EmptySet
<1>5. Cardinality(Known) = 0 /\ Cardinality(Adding) = 0 BY <1>2, <1>3, <1>4
<1> QED BY <1>1, <1>2, <1>3, <1>4, <1>5 DEF Counting

(* The counts stay within the total, but for the Gets that have yet to add  *)
(* to it: a lost update only loses requests, and Remove and the reset wait  *)
(* for all Gets (con_hash.go:112, 143-145, 231-234).                        *)
THEOREM CountsStayWithinTotal == Spec => []CountsWithinTotal
<1>1. ASSUME IInv, Counting, Next PROVE Counting'
  BY <1>1, CountingCall, CountingRemove, CountingLookup, CountingCount, CountingTotal,
     CountingBalancer DEF Next, Step
<1>2. ASSUME IInv, Counting, UNCHANGED vars PROVE Counting' BY <1>2, CountingBalancer
<1>3. ASSUME IInv, Counting PROVE CountsWithinTotal
  <2>1. Counted \subseteq Known BY DEF Known
  <2>2. Cardinality(Counted) <= Cardinality(Known) /\ IsFiniteSet(Counted)
    BY <1>3, <2>1, FS_Subset DEF Counting
  <2>3. /\ Cardinality(Counted) \in Nat /\ Cardinality(Known) \in Nat
        /\ Cardinality(Adding) \in Nat /\ total \in Nat
    BY <1>3, <2>2, FS_CardinalityType DEF Counting, IInv, TypeOK
  <2>4. Cardinality(Known) <= total + Cardinality(Adding) BY <1>3 DEF Counting
  <2>5. Cardinality(Counted) <= total + Cardinality(Adding) BY <2>2, <2>3, <2>4
  <2> QED BY <2>5 DEF CountsWithinTotal, Adding
<1> QED BY <1>1, <1>2, <1>3, InitCounting, Invariance, PTL DEF Spec

-----------------------------------------------------------------------------
(* Who serves a key: the owner of the first of the positions S from p on.   *)
FirstFrom(S, p) ==
  LET after == {q \in S : q >= p} IN IF after = {} THEN Min(S) ELSE Min(after)

(* Positions other than the first one may come and go.                      *)
LEMMA FirstStays ==
  ASSUME NEW T \in SUBSET Nat, NEW S \in SUBSET T, NEW p, FirstFrom(T, p) \in S
  PROVE  FirstFrom(S, p) = FirstFrom(T, p)
<1> DEFINE afterT == {q \in T : q >= p}
           afterS == {q \in S : q >= p}
           x == FirstFrom(T, p)
           y == FirstFrom(S, p)
<1>1. afterS \subseteq afterT /\ afterT \subseteq T /\ x \in S OBVIOUS
<1>2. CASE afterT = {}
  <2>1. afterS = {} /\ x = Min(T) /\ y = Min(S) BY <1>1, <1>2 DEF FirstFrom
  <2>2. S # {} /\ T # {} BY <1>1
  <2>3. x \in T /\ \A q \in T : x <= q BY <2>1, <2>2, MinInSet
  <2>4. y \in S /\ \A q \in S : y <= q BY <2>1, <2>2, MinInSet
  <2> HIDE DEF x, y
  <2>5. x \in Nat /\ y \in Nat /\ x <= y /\ y <= x BY <1>1, <2>3, <2>4
  <2> QED BY <2>5 DEF x, y
<1>3. CASE afterT # {}
  <2>1. x = Min(afterT) BY <1>3 DEF FirstFrom
  <2>2. x \in afterT /\ \A q \in afterT : x <= q BY <1>3, <2>1, MinInSet
  <2>3. x \in afterS BY <1>1, <2>2
  <2>4. y = Min(afterS) BY <2>3 DEF FirstFrom
  <2>5. y \in afterS /\ \A q \in afterS : y <= q BY <2>3, <2>4, MinInSet
  <2>6. x <= y /\ y <= x /\ x \in Nat /\ y \in Nat BY <1>1, <2>2, <2>3, <2>5
  <2> QED BY <2>6
<1> QED BY <1>2, <1>3

LEMMA FirstInSet == ASSUME NEW S \in SUBSET Nat, S # {}, NEW p PROVE FirstFrom(S, p) \in S
BY MinInSet DEF FirstFrom

LEMMA ServingIs ==
  ASSUME NEW p
  PROVE  /\ Serving(p) = IF OnRing = {} THEN NoNode ELSE owner[FirstFrom(OnRing, p)]
         /\ Serving(p)' = IF OnRing' = {} THEN NoNode ELSE owner'[FirstFrom(OnRing', p)]
BY DEF Serving, Successor, FirstFrom

(* As long as no virtual nodes have met, each one on the ring is one of the *)
(* registered node that owns it.                                            *)
Owned ==
  tainted = {} =>
    \A p \in OnRing : /\ owner[p] \in Registered
                      /\ p \in VirtualNodes(owner[p], DefaultReplicas)

LEMMA RingTypes ==
  ASSUME IInv
  PROVE  /\ OnRing \in SUBSET Nat /\ OnRing \in SUBSET Positions
         /\ \A n \in Nodes : /\ VirtualNodes(n, DefaultReplicas) \subseteq Positions
                             /\ VirtualNodes(n, DefaultReplicas) # {}
<1>1. 0 \in 0..(DefaultReplicas - 1) BY RingAssumption
<1>2. \A n \in Nodes : PositionOf[n][0] \in VirtualNodes(n, DefaultReplicas)
  BY <1>1 DEF VirtualNodes
<1>3. \A n \in Nodes : VirtualNodes(n, DefaultReplicas) \subseteq Positions
  BY RingAssumption DEF VirtualNodes
<1>4. OnRing \subseteq Positions /\ Positions \subseteq Nat BY RingAssumption DEF OnRing
<1> QED BY <1>2, <1>3, <1>4

(* Add brings its virtual nodes; those that meet no others are new.         *)
LEMMA AddBrings ==
  ASSUME IInv, NEW g \in Callers, Add(g), tainted' = {}
  PROVE  \E n \in Nodes \ Registered :
           LET new == VirtualNodes(n, DefaultReplicas)
           IN  /\ tainted = {}
               /\ OnRing' = OnRing \cup new /\ OnRing \cap new = {}
               /\ Registered' = Registered \cup {n}
               /\ \A p \in Positions : owner'[p] = IF p \in new THEN n ELSE owner[p]
<1> DEFINE n == arg[g]
           new == VirtualNodes(n, DefaultReplicas)
           met == {p \in new : copies[p] > 0 \/ At(n, DefaultReplicas, p) > 1}
<1> USE DEF IInv
<1>1. n \in Nodes /\ new \subseteq Positions /\ new # {}
  BY RingTypes DEF Add, ArgsAreNodes
<1>2. \A p \in Positions :
        /\ copies'[p] = copies[p] + At(n, DefaultReplicas, p) /\ copies[p] \in Nat
        /\ At(n, DefaultReplicas, p) \in Nat
        /\ p \in new <=> At(n, DefaultReplicas, p) > 0
        /\ owner'[p] = IF p \in new THEN n ELSE owner[p]
  BY <1>1, OwnClaimsCount DEF Add, TypeOK
<1>3. replicas' = [replicas EXCEPT ![n] = DefaultReplicas] BY DEF Add
<1>4. Registered' = Registered \cup {n}
  BY <1>1, <1>3, RingAssumption DEF Registered, TypeOK
<1>5. tainted = {} /\ (met # {} => n \in tainted') BY DEF Add
<1>6. met = {} BY <1>5
<1>7. OnRing \cap new = {} BY <1>2, <1>6 DEF OnRing
<1>8. OnRing' = OnRing \cup new
  <2>1. \A p \in Positions : copies'[p] > 0 <=> copies[p] > 0 \/ p \in new BY <1>2
  <2> QED BY <1>1, <2>1 DEF OnRing
<1>9. n \notin Registered
  <2>1. SUFFICES ASSUME n \in Registered PROVE FALSE OBVIOUS
  <2>2. PICK p \in new : TRUE BY <1>1
  <2>3. copies[p] = 1 BY <1>1, <1>5, <2>1, <2>2 DEF Intact
  <2>4. p \in met BY <2>2, <2>3
  <2> QED BY <1>6, <2>4
<1> QED BY <1>1, <1>2, <1>4, <1>5, <1>7, <1>8, <1>9

(* Remove takes the virtual nodes of its node, and nothing else.            *)
LEMMA RemoveTakes ==
  ASSUME IInv, NEW g \in Callers, Remove(g), tainted = {}
  PROVE  \/ UNCHANGED ringVars
         \/ \E n \in Registered :
              LET old == VirtualNodes(n, DefaultReplicas)
              IN  /\ OnRing' = OnRing \ old
                  /\ Registered' = Registered \ {n}
                  /\ \A p \in old : owner[p] = n
                  /\ \A p \in Positions \ old : owner'[p] = owner[p]
<1> DEFINE n == arg[g]
           old == VirtualNodes(n, DefaultReplicas)
<1> USE DEF IInv
<1>1. n \in Nodes /\ old \subseteq Positions /\ replicas[n] \in {0, DefaultReplicas}
  BY RingTypes DEF Remove, ArgsAreNodes, TypeOK
<1>2. \A p \in Positions :
        /\ copies'[p] = Max({0, copies[p] - At(n, replicas[n], p)})
        /\ owner'[p] = IF p \in VirtualNodes(n, replicas[n]) THEN NoNode ELSE owner[p]
        /\ copies[p] \in Nat
  BY DEF Remove, TypeOK
<1>3. replicas' = [replicas EXCEPT ![n] = 0] BY DEF Remove
<1>4. CASE replicas[n] = 0
  <2>1. replicas' = replicas BY <1>3, <1>4 DEF TypeOK
  <2>2. VirtualNodes(n, replicas[n]) = {} BY <1>4 DEF VirtualNodes
  <2>3. owner' = owner BY <2>2 DEF Remove, TypeOK
  <2>4. ASSUME NEW p \in Positions PROVE copies'[p] = copies[p]
    <3>1. {i \in 0..(replicas[n] - 1) : PositionOf[n][i] = p} = {} BY <1>4
    <3>2. At(n, replicas[n], p) = 0 BY <3>1, FS_EmptySet DEF At
    <3>3. copies'[p] = Max({0, copies[p] - 0}) /\ copies[p] \in Nat BY <1>2, <3>2
    <3>4. copies[p] - 0 = copies[p] /\ copies[p] - 0 \in Int BY <3>3
    <3>5. Max({0, copies[p] - 0}) = IF copies[p] - 0 > 0 THEN copies[p] - 0 ELSE 0
      BY <3>4, MaxOfZero
    <3> QED BY <3>3, <3>4, <3>5
  <2>5. copies' = copies BY <2>4 DEF Remove, TypeOK
  <2> QED BY <2>1, <2>3, <2>5 DEF ringVars
<1>5. CASE replicas[n] # 0
  <2>1. replicas[n] = DefaultReplicas /\ n \in Registered
    BY <1>1, <1>5, RingAssumption DEF Registered
  <2>2. Registered' = Registered \ {n} BY <1>1, <1>3 DEF Registered, TypeOK
  <2>3. \A p \in old : owner[p] = n /\ copies[p] = 1 BY <1>1, <2>1 DEF Intact
  <2>4. ASSUME NEW p \in Positions PROVE copies'[p] > 0 <=> copies[p] > 0 /\ p \notin old
    <3>1. /\ At(n, DefaultReplicas, p) \in Nat
          /\ p \in old <=> At(n, DefaultReplicas, p) > 0
      BY <1>1, OwnClaimsCount
    <3> DEFINE a == At(n, DefaultReplicas, p)
    <3>2. copies[p] \in Nat /\ copies'[p] = Max({0, copies[p] - a}) BY <1>2, <2>1
    <3> HIDE DEF a
    <3>3. copies[p] - a \in Int BY <3>1, <3>2 DEF a
    <3>4. copies'[p] = IF copies[p] - a > 0 THEN copies[p] - a ELSE 0
      BY <3>2, <3>3, MaxOfZero
    <3>5. a \in Nat /\ (p \in old <=> a > 0) BY <3>1 DEF a
    <3>6. CASE p \in old BY <2>3, <3>4, <3>5, <3>6
    <3>7. CASE p \notin old BY <3>2, <3>4, <3>5, <3>7
    <3> QED BY <3>6, <3>7
  <2>5. OnRing' = OnRing \ old BY <2>4 DEF OnRing
  <2>6. \A p \in Positions \ old : owner'[p] = owner[p] BY <1>2, <2>1
  <2> QED BY <2>1, <2>2, <2>3, <2>5, <2>6
<1> QED BY <1>4, <1>5

LEMMA TaintStays == ASSUME Next \/ UNCHANGED vars, tainted' = {} PROVE tainted = {}
BY DEF Next, Step, Call, Add, Remove, GetEmpty, GetLookup, GetCount, GetTotal, Abort, Check,
       SelfLock, Reset, vars

LEMMA RingStays ==
  ASSUME Next \/ UNCHANGED vars, ~ \E g \in Callers : Add(g) \/ Remove(g)
  PROVE  UNCHANGED ringVars
BY DEF Next, Step, Call, GetEmpty, GetLookup, GetCount, GetTotal, Abort, Check, SelfLock,
       Reset, vars, ringVars

LEMMA OwnedStep == ASSUME IInv, Owned, Next \/ UNCHANGED vars PROVE Owned'
<1> SUFFICES ASSUME tainted' = {}, NEW p \in OnRing'
             PROVE  owner'[p] \in Registered' /\ p \in VirtualNodes(owner'[p], DefaultReplicas)
  BY DEF Owned, VirtualNodes
<1>1. tainted = {} BY TaintStays
<1>2. \A q \in OnRing : owner[q] \in Registered /\ q \in VirtualNodes(owner[q], DefaultReplicas)
  BY <1>1 DEF Owned
<1>3. ASSUME NEW g \in Callers, Add(g)
      PROVE  owner'[p] \in Registered' /\ p \in VirtualNodes(owner'[p], DefaultReplicas)
  BY <1>2, <1>3, AddBrings, RingTypes
<1>4. ASSUME NEW g \in Callers, Remove(g)
      PROVE  owner'[p] \in Registered' /\ p \in VirtualNodes(owner'[p], DefaultReplicas)
  <2>1. CASE UNCHANGED ringVars BY <1>2, <2>1 DEF ringVars, OnRing, Registered
  <2>2. CASE ~ UNCHANGED ringVars
    <3>1. PICK n \in Registered :
            LET old == VirtualNodes(n, DefaultReplicas)
            IN  /\ OnRing' = OnRing \ old
                /\ Registered' = Registered \ {n}
                /\ \A q \in Positions \ old : owner'[q] = owner[q]
      BY <1>1, <1>4, <2>2, RemoveTakes
    <3>2. p \in OnRing /\ p \notin VirtualNodes(n, DefaultReplicas) BY <3>1
    <3>3. owner'[p] = owner[p] BY <3>1, <3>2, RingTypes
    <3>4. owner[p] # n BY <1>2, <3>2
    <3> QED BY <1>2, <3>1, <3>2, <3>3, <3>4
  <2> QED BY <2>1, <2>2
<1>5. CASE ~ \E g \in Callers : Add(g) \/ Remove(g)
  <2>1. UNCHANGED ringVars BY <1>5, RingStays
  <2> QED BY <1>2, <2>1 DEF ringVars, OnRing, Registered
<1> QED BY <1>3, <1>4, <1>5

(* One step of OnlyTheirKeysMove.                                           *)
LEMMA KeysMove ==
  ASSUME IInv, Owned, Next \/ UNCHANGED vars, tainted' = {}, NEW p \in Positions
  PROVE  \/ Serving(p)' = Serving(p)
         \/ Serving(p)' \in Registered' \ Registered
         \/ Serving(p) \in Registered \ Registered'
<1>1. tainted = {} BY TaintStays
<1> DEFINE x == FirstFrom(OnRing, p)
           y == FirstFrom(OnRing', p)
<1>2. /\ OnRing \in SUBSET Nat /\ OnRing \in SUBSET Positions
      /\ OnRing # {} => x \in OnRing /\ Serving(p) = owner[x]
      /\ OnRing = {} => Serving(p) = NoNode
  BY RingTypes, FirstInSet, ServingIs
<1>3. /\ OnRing' \in SUBSET Nat /\ OnRing' \in SUBSET Positions
      /\ OnRing' # {} => y \in OnRing' /\ Serving(p)' = owner'[y]
      /\ OnRing' = {} => Serving(p)' = NoNode
  <2>1. OnRing' \in SUBSET Positions /\ OnRing' \in SUBSET Nat BY RingAssumption DEF OnRing
  <2> QED BY <2>1, FirstInSet, ServingIs
<1> HIDE DEF x, y
<1>4. ASSUME NEW g \in Callers, Add(g)
      PROVE  Serving(p)' = Serving(p) \/ Serving(p)' \in Registered' \ Registered
  <2>1. PICK n \in Nodes \ Registered :
          LET new == VirtualNodes(n, DefaultReplicas)
          IN  /\ OnRing' = OnRing \cup new
              /\ Registered' = Registered \cup {n}
              /\ \A q \in Positions : owner'[q] = IF q \in new THEN n ELSE owner[q]
    BY <1>4, AddBrings
  <2>2. OnRing' # {} BY <2>1, RingTypes
  <2>3. y \in OnRing' /\ y \in Positions /\ Serving(p)' = owner'[y] BY <1>3, <2>2
  <2>4. CASE y \in VirtualNodes(n, DefaultReplicas)
    <3>1. Serving(p)' = n BY <2>1, <2>3, <2>4
    <3> QED BY <2>1, <3>1
  <2>5. CASE y \notin VirtualNodes(n, DefaultReplicas)
    <3>1. y \in OnRing /\ OnRing \in SUBSET OnRing' BY <2>1, <2>3, <2>5
    <3>2. x = y BY <1>3, <3>1, FirstStays DEF x, y
    <3>3. Serving(p) = owner[y] BY <1>2, <3>1, <3>2
    <3> QED BY <2>1, <2>3, <2>5, <3>3
  <2> QED BY <2>4, <2>5
<1>5. ASSUME NEW g \in Callers, Remove(g), ~ UNCHANGED ringVars
      PROVE  Serving(p)' = Serving(p) \/ Serving(p) \in Registered \ Registered'
  <2>1. PICK n \in Registered :
          LET old == VirtualNodes(n, DefaultReplicas)
          IN  /\ OnRing' = OnRing \ old
              /\ Registered' = Registered \ {n}
              /\ \A q \in old : owner[q] = n
              /\ \A q \in Positions \ old : owner'[q] = owner[q]
    BY <1>1, <1>5, RemoveTakes
  <2>2. CASE OnRing = {} BY <1>2, <1>3, <2>1, <2>2
  <2>3. CASE OnRing # {} /\ x \in VirtualNodes(n, DefaultReplicas)
    BY <1>2, <2>1, <2>3
  <2>4. CASE OnRing # {} /\ x \notin VirtualNodes(n, DefaultReplicas)
    <3>1. x \in OnRing /\ x \in OnRing' /\ OnRing' \in SUBSET OnRing BY <1>2, <2>1, <2>4
    <3>2. y = x BY <1>2, <3>1, FirstStays DEF x, y
    <3>3. x \in Positions BY <1>2, <3>1
    <3> QED BY <1>2, <1>3, <2>1, <2>4, <3>1, <3>2, <3>3
  <2> QED BY <2>2, <2>3, <2>4
<1>6. ASSUME UNCHANGED ringVars PROVE Serving(p)' = Serving(p)
  <2>1. OnRing' = OnRing /\ owner' = owner BY <1>6 DEF ringVars, OnRing
  <2> QED BY <2>1, ServingIs
<1> QED BY <1>4, <1>5, <1>6, RingStays

(* As long as no virtual nodes have met, a key moves only to a node that    *)
(* joins or from one that leaves (con_hash.go:58-148).                      *)
THEOREM KeysStayElsewhere == Spec => OnlyTheirKeysMove
<1>1. Init => Owned BY DEF Init, Owned, OnRing
<1>2. ASSUME IInv, Owned, [Next]_vars PROVE Owned' BY <1>2, OwnedStep
<1>3. ASSUME IInv, Owned, [Next]_vars
      PROVE  [tainted' = {} =>
                \A p \in Positions :
                  \/ Serving(p)' = Serving(p)
                  \/ Serving(p)' \in Registered' \ Registered
                  \/ Serving(p) \in Registered \ Registered']_vars
  BY <1>3, KeysMove
<1> QED BY <1>1, <1>2, <1>3, Invariance, PTL DEF Spec, OnlyTheirKeysMove

=============================================================================
