-------------------------- MODULE GroupRegistryProofs --------------------------
(* Proofs about GroupRegistry: see its header for the model. *)
EXTENDS GroupRegistry, TLAPS

Leaving == {"release", "unregister"}

(* An instance has a name, and is registered under no other.                *)
Named ==
  /\ \A i \in 1..made : nameOf[i] \in Names
  /\ \A n \in Names : groups[n] # 0 => nameOf[groups[n]] = n

(* Whoever is inside Close has won the CompareAndSwap of its instance.      *)
ClosersHaveClosed == \A g \in Goroutines : pc[g] \in Leaving => target[g] \in closed

(* Why a registered group that is closed will be removed: its closer knows  *)
(* the instance, hence the name, and the name leads to no other instance.   *)
IInv == ClosedIsLeaving /\ Named /\ ClosersHaveClosed /\ NewestStaysRegistered

LEMMA InitIInv == Init => IInv
<1> SUFFICES ASSUME Init PROVE IInv OBVIOUS
<1> USE RegistryAssumption DEF Init
<1>1. TypeOK
  <2>1. nameOf \in [Instances -> Names \cup {NoName}] OBVIOUS
  <2>2. groups \in [Names -> 0..made] /\ target \in [Goroutines -> 0..made] OBVIOUS
  <2>3. doomed \in [Goroutines -> SUBSET Names] OBVIOUS
  <2> QED BY <2>1, <2>2, <2>3 DEF TypeOK
<1>2. ClosedIsLeaving BY <1>1 DEF ClosedIsLeaving
<1>3. Named BY DEF Named
<1>4. ClosersHaveClosed BY DEF ClosersHaveClosed, Leaving
<1>5. NewestStaysRegistered BY DEF NewestStaysRegistered
<1> QED BY <1>2, <1>3, <1>4, <1>5 DEF IInv

LEMMA TypeStep == ASSUME IInv, [Next]_vars PROVE TypeOK'
<1> USE RegistryAssumption DEF IInv, ClosedIsLeaving, TypeOK
<1>1. ASSUME NEW g \in Goroutines, NEW n \in Names, NewGroup(g, n) PROVE TypeOK'
  <2>1. made' \in 0..MaxGroups /\ made + 1 \in Instances /\ 0..made \subseteq 0..made'
    BY <1>1 DEF NewGroup, Instances
  <2>2. groups' \in [Names -> 0..made'] /\ target' \in [Goroutines -> 0..made']
    BY <1>1, <2>1 DEF NewGroup
  <2>3. nameOf' \in [Instances -> Names \cup {NoName}] BY <1>1, <2>1 DEF NewGroup
  <2> QED BY <1>1, <2>1, <2>2, <2>3 DEF NewGroup
<1>2. ASSUME NEW g \in Goroutines, LookupBegin(g) \/ LookupEnd(g) PROVE TypeOK'
  BY <1>2 DEF LookupBegin, LookupEnd, Goto, registryVars
<1>3. ASSUME NEW g \in Goroutines, NEW i \in Instances, CloseBegin(g, i) PROVE TypeOK'
  BY <1>3 DEF CloseBegin, Goto, registryVars
<1>4. ASSUME NEW g \in Goroutines, Release(g) PROVE TypeOK'
  BY <1>4 DEF Release, Goto, registryVars, ClosersHaveClosed, Leaving
<1>5. ASSUME NEW g \in Goroutines, Unregister(g) PROVE TypeOK'
  <2>1. pc' \in [Goroutines -> {"idle", "lookup", "release", "unregister", "destroy"}]
    BY <1>5 DEF Unregister, Goto
  <2>2. 0 \in 0..made OBVIOUS
  <2>3. groups' \in [Names -> 0..made] BY <1>5, <2>2, Zenon DEF Unregister
  <2>4. target' \in [Goroutines -> 0..made] BY <1>5, <2>2 DEF Unregister
  <2> QED BY <1>5, <2>1, <2>3, <2>4 DEF Unregister
<1>6. ASSUME NEW g \in Goroutines, NEW ns \in SUBSET Names, DestroyBegin(g, ns)
      PROVE TypeOK'
  <2>1. {n \in ns : groups[n] # 0} \in SUBSET Names OBVIOUS
  <2> QED BY <1>6, <2>1 DEF DestroyBegin, Goto, registryVars
<1>7. ASSUME NEW g \in Goroutines, DestroyClose(g) PROVE TypeOK'
  <2>1. PICK n \in doomed[g] : /\ groups[n] \notin closed \cup {0}
                              /\ closed' = closed \cup {groups[n]}
                              /\ target' = [target EXCEPT ![g] = groups[n]]
    BY <1>7 DEF DestroyClose
  <2>2. n \in Names /\ groups[n] \in 1..made BY <2>1
  <2> QED BY <1>7, <2>1, <2>2 DEF DestroyClose, Goto, registryVars
<1>8. ASSUME NEW g \in Goroutines, DestroyDelete(g) PROVE TypeOK'
  BY <1>8 DEF DestroyDelete
<1>9. ASSUME NEW g \in Goroutines, DestroyEnd(g) PROVE TypeOK'
  BY <1>9 DEF DestroyEnd, Goto, registryVars
<1>10. CASE UNCHANGED vars BY <1>10 DEF vars
<1>11. \A n \in Names : {n} \in SUBSET Names OBVIOUS
<1> QED
  BY <1>1, <1>2, <1>3, <1>4, <1>5, <1>6, <1>7, <1>8, <1>9, <1>10, <1>11
  DEF Next, Progress

LEMMA NamedStep == ASSUME IInv, [Next]_vars PROVE Named'
<1> USE RegistryAssumption DEF IInv, ClosedIsLeaving, TypeOK, Named
<1>1. ASSUME NEW g \in Goroutines, NEW n \in Names, NewGroup(g, n) PROVE Named'
  <2>1. made + 1 \in Instances /\ made + 1 \notin 1..made BY <1>1 DEF NewGroup, Instances
  <2>2. nameOf'[made + 1] = n BY <1>1, <2>1 DEF NewGroup
  <2>3. \A i \in 1..made : nameOf'[i] = nameOf[i] BY <1>1, <2>1 DEF NewGroup, Instances
  <2> QED BY <1>1, <2>2, <2>3 DEF NewGroup
<1>2. ASSUME UNCHANGED registryVars PROVE Named' BY <1>2 DEF registryVars
<1>3. ASSUME NEW g \in Goroutines, Unregister(g) PROVE Named' BY <1>3 DEF Unregister
<1>4. ASSUME NEW g \in Goroutines, DestroyDelete(g) PROVE Named' BY <1>4 DEF DestroyDelete
<1> QED
  BY <1>1, <1>2, <1>3, <1>4
  DEF Next, Progress, vars, registryVars, LookupBegin, LookupEnd, CloseBegin, Release,
      DestroyBegin, DestroyClose, DestroyEnd

LEMMA ClosersStep == ASSUME IInv, [Next]_vars PROVE ClosersHaveClosed'
<1> USE DEF IInv, ClosedIsLeaving, TypeOK, ClosersHaveClosed, Leaving
<1>1. ASSUME NEW g \in Goroutines, NEW i \in Instances, CloseBegin(g, i)
      PROVE ClosersHaveClosed'
  BY <1>1 DEF CloseBegin, Goto
<1>2. ASSUME NEW g \in Goroutines, Progress(g) \/ LookupBegin(g) PROVE ClosersHaveClosed'
  BY <1>2
  DEF Progress, LookupBegin, LookupEnd, Release, Unregister, DestroyClose, DestroyDelete,
      DestroyEnd, Goto
<1>3. ASSUME NEW g \in Goroutines, NEW ns \in SUBSET Names, DestroyBegin(g, ns)
      PROVE ClosersHaveClosed'
  BY <1>3 DEF DestroyBegin, Goto
<1>4. ASSUME NEW g \in Goroutines, NEW n \in Names, NewGroup(g, n)
      PROVE ClosersHaveClosed'
  BY <1>4 DEF NewGroup
<1>5. CASE UNCHANGED vars BY <1>5 DEF vars
<1>6. \A n \in Names : {n} \in SUBSET Names OBVIOUS
<1> QED BY <1>1, <1>2, <1>3, <1>4, <1>5, <1>6 DEF Next

(* The entries a Close or a Destroy takes out lead to the closed instance   *)
(* itself, or to another one of its name.                                   *)
LEMMA ClosedIsLeavingStep == ASSUME IInv, [Next]_vars PROVE ClosedIsLeaving'
<1> USE DEF IInv, ClosedIsLeaving, Leaving
<1>1. TypeOK' BY TypeStep
<1> DEFINE Closer(n, g) == pc[g] \in Leaving /\ target[g] = groups[n]
<1> SUFFICES ASSUME NEW n \in Names, groups'[n] \in closed'
             PROVE \E g \in Goroutines : Closer(n, g)'
  BY <1>1
<1> USE DEF TypeOK
<1>2. ASSUME NEW g \in Goroutines, NEW m \in Names, NewGroup(g, m)
      PROVE \E h \in Goroutines : Closer(n, h)'
  <2>1. groups'[n] = groups[n] BY <1>2 DEF NewGroup
  <2> QED BY <1>2, <2>1 DEF NewGroup
<1>3. ASSUME NEW g \in Goroutines, NEW i \in Instances, CloseBegin(g, i)
      PROVE \E h \in Goroutines : Closer(n, h)'
  BY <1>3 DEF CloseBegin, Goto, registryVars
<1>4. ASSUME NEW g \in Goroutines, Unregister(g)
      PROVE \E h \in Goroutines : Closer(n, h)'
  <2>1. groups'[n] = groups[n] /\ n # nameOf[target[g]] BY <1>4 DEF Unregister
  <2>2. PICK h \in Goroutines : Closer(n, h) BY <1>4, <2>1 DEF Unregister
  <2>3. groups[n] # 0 BY <1>4, <2>1 DEF Unregister
  <2>4. h # g BY <2>1, <2>2, <2>3 DEF Named
  <2> QED BY <1>4, <2>1, <2>2, <2>4 DEF Unregister, Goto
<1>5. ASSUME NEW g \in Goroutines, DestroyClose(g)
      PROVE \E h \in Goroutines : Closer(n, h)'
  BY <1>5 DEF DestroyClose, Goto, registryVars
<1>6. ASSUME NEW g \in Goroutines, DestroyDelete(g)
      PROVE \E h \in Goroutines : Closer(n, h)'
  <2>1. groups'[n] = groups[n] BY <1>6 DEF DestroyDelete
  <2> QED BY <1>6, <2>1 DEF DestroyDelete
<1>7. ASSUME NEW g \in Goroutines, Release(g) \/ LookupBegin(g) \/ LookupEnd(g)
      PROVE \E h \in Goroutines : Closer(n, h)'
  BY <1>7 DEF Release, LookupBegin, LookupEnd, Goto, registryVars
<1>8. ASSUME NEW g \in Goroutines, NEW ns, DestroyBegin(g, ns) \/ DestroyEnd(g)
      PROVE \E h \in Goroutines : Closer(n, h)'
  BY <1>8 DEF DestroyBegin, DestroyEnd, Goto, registryVars
<1>9. CASE UNCHANGED vars BY <1>9 DEF vars
<1> QED
  BY <1>2, <1>3, <1>4, <1>5, <1>6, <1>7, <1>8, <1>9 DEF Next, Progress

LEMMA NewestStep == ASSUME IInv, [Next]_vars PROVE NewestStaysRegistered'
<1> USE DEF IInv, ClosedIsLeaving, NewestStaysRegistered
<1> DEFINE Rival(i, j) == nameOf[j] = nameOf[i] /\ (j > i \/ j \in closed)
           Safe(i) == groups[nameOf[i]] = i \/ \E j \in 1..made \ {i} : Rival(i, j)
<1> SUFFICES ASSUME NEW i \in 1..made' \ closed' PROVE Safe(i)' OBVIOUS
<1> USE RegistryAssumption DEF TypeOK
<1>1. ASSUME NEW g \in Goroutines, NEW n \in Names, NewGroup(g, n) PROVE Safe(i)'
  <2>1. made + 1 \in Instances /\ made + 1 \notin 1..made BY <1>1 DEF NewGroup, Instances
  <2>2. nameOf'[made + 1] = n BY <1>1, <2>1 DEF NewGroup
  <2>3. \A k \in 1..made : nameOf'[k] = nameOf[k] BY <1>1, <2>1 DEF NewGroup, Instances
  <2>4. CASE i = made + 1 BY <1>1, <2>2, <2>4 DEF NewGroup
  <2>5. CASE i # made + 1 /\ nameOf[i] = n
    <3>1. made + 1 \in 1..made' \ {i} /\ made + 1 > i BY <1>1, <2>5 DEF NewGroup
    <3>2. nameOf'[made + 1] = nameOf'[i] BY <1>1, <2>2, <2>3, <2>5 DEF NewGroup
    <3> QED BY <3>1, <3>2
  <2>6. CASE i # made + 1 /\ nameOf[i] # n
    <3>1. i \in 1..made \ closed BY <1>1, <2>6 DEF NewGroup
    <3>2. nameOf[i] \in Names BY <3>1 DEF Named
    <3>3. groups'[nameOf'[i]] = groups[nameOf[i]] BY <1>1, <2>3, <2>6, <3>1, <3>2 DEF NewGroup
    <3>4. CASE groups[nameOf[i]] = i BY <3>3, <3>4
    <3>5. ASSUME NEW j \in 1..made \ {i}, Rival(i, j) PROVE Safe(i)'
      BY <1>1, <2>3, <3>1, <3>5 DEF NewGroup
    <3> QED BY <3>1, <3>4, <3>5
  <2> QED BY <2>4, <2>5, <2>6
<1>2. ASSUME UNCHANGED registryVars, closed \subseteq closed' PROVE Safe(i)'
  BY <1>2 DEF registryVars
<1>3. ASSUME NEW g \in Goroutines, Unregister(g) PROVE Safe(i)'
  <2>1. target[g] \in closed BY <1>3 DEF Unregister, Goto, ClosersHaveClosed, Leaving
  <2>2. i \in 1..made \ closed /\ target[g] \in 1..made \ {i} BY <1>3, <2>1 DEF Unregister
  <2>3. CASE nameOf[i] = nameOf[target[g]] BY <1>3, <2>1, <2>2, <2>3 DEF Unregister
  <2>4. CASE nameOf[i] # nameOf[target[g]]
    BY <1>3, <2>2, <2>4 DEF Unregister, Named
  <2> QED BY <2>3, <2>4
<1>4. ASSUME NEW g \in Goroutines, DestroyDelete(g) PROVE Safe(i)'
  <2>1. PICK n \in Names : groups[n] \in closed \cup {0} /\ groups' = [groups EXCEPT ![n] = 0]
    BY <1>4 DEF DestroyDelete
  <2>2. i \in 1..made \ closed /\ nameOf[i] \in Names BY <1>4 DEF DestroyDelete, Named
  <2>3. CASE groups[nameOf[i]] = i BY <1>4, <2>1, <2>2, <2>3 DEF DestroyDelete
  <2>4. ASSUME NEW j \in 1..made \ {i}, Rival(i, j) PROVE Safe(i)'
    BY <1>4, <2>4 DEF DestroyDelete
  <2> QED BY <2>2, <2>3, <2>4
<1> QED
  BY <1>1, <1>2, <1>3, <1>4
  DEF Next, Progress, vars, registryVars, LookupBegin, LookupEnd, CloseBegin, Release,
      DestroyBegin, DestroyClose, DestroyEnd

(* Every state the registry can reach has the inductive invariant.          *)
THEOREM Invariance == Spec => []IInv
<1>1. IInv /\ [Next]_vars => IInv'
  BY NamedStep, ClosersStep, ClosedIsLeavingStep, NewestStep DEF IInv
<1> QED BY <1>1, InitIInv, PTL DEF Spec

(* GetGroup hands out a closed group only while its closer is on its way to *)
(* remove it, for any number of goroutines, names and groups                *)
(* (group.go:258-272).                                                      *)
THEOREM ClosedGroupsLeave == Spec => []ClosedIsLeaving
<1>1. IInv => ClosedIsLeaving BY DEF IInv
<1> QED BY <1>1, Invariance, PTL

(* An open group leaves the registry only because one of its name is newer  *)
(* or has been closed (group.go:120, 271, 416).                             *)
THEOREM NewestRegistered == Spec => []NewestStaysRegistered
<1>1. IInv => NewestStaysRegistered BY DEF IInv
<1> QED BY <1>1, Invariance, PTL
=============================================================================
