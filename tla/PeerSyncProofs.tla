---------------------------- MODULE PeerSyncProofs ----------------------------
(* Proofs about PeerSync: see its header for the model. *)
EXTENDS PeerSync, FiniteSetTheorems, TLAPS

(* A slot that executes a call, and one that a loader may hold as such.     *)
Executing == {"load", "peer", "got", "local"}

(* A Get runs on a node that runs; a request on its way has a destination.  *)
Placed ==
  /\ \A r \in Slots : pc[r] \in Running => at[r] \in up
  /\ \A r \in Slots : pc[r] = "sent" => at[r] \in Nodes

(* A node's loader holds a call of that node.                               *)
Registered ==
  \A n \in Nodes : m[n] # NoSlot => m[n] \in Slots /\ pc[m[n]] \in Executing /\ at[m[n]] = n

(* Who waits for a call waits on the node that executes it.                 *)
Joined ==
  \A w \in Slots : pc[w] = "wait" =>
    /\ on[w] \in Slots
    /\ pc[on[w]] \in Executing /\ at[on[w]] = at[w]

(* A Set that travels is the only sync of its call, and not yet applied.    *)
Travelling ==
  /\ \A s \in syncs : s.op = "set" => s.id \in 1..events /\ handled[s.id] = 0
  /\ \A s, t \in syncs : s.op = "set" /\ t.op = "set" /\ s.id = t.id => s = t
  /\ \A i \in 1..MaxEvents : handled[i] \in {0, 1} /\ (i > events => handled[i] = 0)

IInv == TypeOK /\ Placed /\ Registered /\ Joined /\ Travelling

LEMMA InitIInv == Init => IInv
<1> SUFFICES ASSUME Init PROVE IInv OBVIOUS
<1> USE PeerAssumption DEF Init
<1>1. TypeOK BY DEF TypeOK
<1>2. Placed /\ Registered /\ Joined BY DEF Placed, Registered, Joined, Running
<1>3. Travelling BY DEF Travelling
<1> QED BY <1>1, <1>2, <1>3 DEF IInv

(* The slot that a new request takes is a free one.                         *)
LEMMA FreshIsFree == Free # {} => Fresh \in Slots /\ pc[Fresh] = "idle"
BY DEF Free, Fresh

-----------------------------------------------------------------------------
(* What a Get does to the slots, and a sync to the syncs: the two halves of *)
(* the invariant.                                                           *)
SlotsInv == up \subseteq Nodes /\ cached \subseteq up
            /\ m \in [Nodes -> Slots \cup {NoSlot}]
            /\ at \in [Slots -> Nodes \cup {NoNode}]
            /\ pc \in [Slots -> Running \cup {"idle", "sent"}]
            /\ on \in [Slots -> Slots \cup {NoSlot}]
            /\ Placed /\ Registered /\ Joined

SyncsInv == syncs \subseteq [op : {"set", "delete"}, to : Nodes, id : 0..MaxEvents]
            /\ handled \in [1..MaxEvents -> Nat]
            /\ events \in 0..MaxEvents
            /\ Travelling

LEMMA Halves == IInv <=> SlotsInv /\ SyncsInv
BY DEF IInv, TypeOK, SlotsInv, SyncsInv, Running

(* Requests that nobody waits for and no loader holds may return, and so    *)
(* may a call together with all who joined it.                              *)
LEMMA ReceiveStep == ASSUME SlotsInv, NEW h \in Slots, Receive(h) PROVE SlotsInv'
<1> USE PeerAssumption DEF SlotsInv, Receive
<1>1. CASE at[h] \in cached
  <2>1. Return({h}, TRUE) BY <1>1
  <2>2. at' \in [Slots -> Nodes \cup {NoNode}] /\ on' \in [Slots -> Slots \cup {NoSlot}]
    BY <2>1 DEF Return
  <2>3. pc' \in [Slots -> Running \cup {"idle", "sent"}]
    BY <2>1 DEF Return, Running
  <2>4. Placed' BY <2>1 DEF Return, Placed, Running
  <2>5. Registered' BY <2>1 DEF Return, Registered, Executing
  <2>6. Joined' BY <2>1 DEF Return, Joined, Executing
  <2> QED BY <2>2, <2>3, <2>4, <2>5, <2>6
<1>2. CASE at[h] \notin cached
  <2>1. Goto(h, "sent", "miss") /\ UNCHANGED <<at, on>> BY <1>2
  <2>2. pc' \in [Slots -> Running \cup {"idle", "sent"}] BY <2>1 DEF Goto, Running
  <2>3. Placed' BY <2>1 DEF Goto, Placed, Running
  <2>4. Registered' BY <2>1 DEF Goto, Registered, Executing
  <2>5. Joined' BY <2>1 DEF Goto, Joined, Executing
  <2> QED BY <2>1, <2>2, <2>3, <2>4, <2>5
<1> QED BY <1>1, <1>2

LEMMA FinishStep ==
  ASSUME SlotsInv, NEW r \in Slots, NEW ok \in BOOLEAN, pc[r] \in {"got", "local"},
         Finish(r, ok)
  PROVE  SlotsInv'
<1> USE PeerAssumption DEF SlotsInv
<1> DEFINE rs == {r} \cup {w \in Slots : pc[w] = "wait" /\ on[w] = r}
<1>1. Return(rs, ok) /\ m' = [m EXCEPT ![at[r]] = NoSlot] /\ up' = up
  BY DEF Finish
<1>2. at[r] \in up BY DEF Placed, Running
<1>3. cached' \subseteq up' BY <1>1, <1>2 DEF Finish
<1>4. at' \in [Slots -> Nodes \cup {NoNode}] /\ on' \in [Slots -> Slots \cup {NoSlot}]
  BY <1>1 DEF Return
<1>5. pc' \in [Slots -> Running \cup {"idle", "sent"}] BY <1>1 DEF Return, Running
<1>6. Placed' BY <1>1 DEF Return, Placed, Running
<1>7. Registered'
  <2> SUFFICES ASSUME NEW n \in Nodes, m'[n] # NoSlot
               PROVE  m'[n] \in Slots /\ pc'[m'[n]] \in Executing /\ at'[m'[n]] = n
    BY DEF Registered
  <2>1. n # at[r] /\ m'[n] = m[n] BY <1>1
  <2>2. m[n] \in Slots /\ pc[m[n]] \in Executing /\ at[m[n]] = n BY <2>1 DEF Registered
  <2>3. m[n] \notin rs BY <2>1, <2>2 DEF Executing
  <2> QED BY <1>1, <2>1, <2>2, <2>3 DEF Return, Executing
<1>8. Joined'
  <2> SUFFICES ASSUME NEW w \in Slots, pc'[w] = "wait"
               PROVE  /\ on'[w] \in Slots
                      /\ pc'[on'[w]] \in Executing /\ at'[on'[w]] = at'[w]
    BY DEF Joined
  <2>1. w \notin rs /\ pc[w] = "wait" BY <1>1 DEF Return
  <2>2. on'[w] = on[w] /\ at'[w] = at[w] BY <1>1, <2>1 DEF Return
  <2>3. on[w] # r BY <2>1
  <2>4. on[w] \in Slots /\ pc[on[w]] \in Executing /\ at[on[w]] = at[w]
    BY <2>1 DEF Joined
  <2>5. on[w] \notin rs BY <2>3, <2>4 DEF Executing
  <2> QED BY <1>1, <2>2, <2>4, <2>5 DEF Return, Executing
<1> QED BY <1>1, <1>3, <1>4, <1>5, <1>6, <1>7, <1>8

LEMMA GetStep == ASSUME SlotsInv, NEW n \in Nodes, Get(n) PROVE SlotsInv'
<1> USE PeerAssumption DEF SlotsInv, Get
<1>1. Fresh \in Slots /\ pc[Fresh] = "idle" BY FreshIsFree
<1>2. at' \in [Slots -> Nodes \cup {NoNode}] BY <1>1
<1>3. pc' \in [Slots -> Running \cup {"idle", "sent"}] BY <1>1 DEF Running
<1>4. Placed' BY <1>1 DEF Placed, Running
<1>5. Registered' BY <1>1 DEF Registered, Executing
<1>6. Joined' BY <1>1 DEF Joined, Executing
<1> QED BY <1>2, <1>3, <1>4, <1>5, <1>6

LEMMA AskStep == ASSUME SlotsInv, NEW r \in Slots, Ask(r) PROVE SlotsInv'
<1> USE PeerAssumption DEF SlotsInv, Ask
<1>1. Fresh \in Slots /\ pc[Fresh] = "idle" /\ Fresh # r BY FreshIsFree
<1>2. at[r] \in up /\ at[r] \in Nodes BY DEF Placed, Running
<1>3. PICK b \in Peers[at[r]] : at' = [at EXCEPT ![Fresh] = b] OBVIOUS
<1>4. b \in Nodes BY <1>2
<1>5. at' \in [Slots -> Nodes \cup {NoNode}] BY <1>1, <1>3, <1>4
<1>6. pc' \in [Slots -> Running \cup {"idle", "sent"}] BY <1>1 DEF Running
<1>7. on' \in [Slots -> Slots \cup {NoSlot}] BY <1>1
<1>8. Placed' BY <1>1, <1>2, <1>3, <1>4 DEF Placed, Running
<1>9. Registered' BY <1>1, <1>3 DEF Registered, Executing
<1>10. Joined' BY <1>1, <1>3 DEF Joined, Executing
<1> QED BY <1>5, <1>6, <1>7, <1>8, <1>9, <1>10

LEMMA LookupStep == ASSUME SlotsInv, NEW r \in Slots, Lookup(r) PROVE SlotsInv'
<1> USE PeerAssumption DEF SlotsInv, Lookup, Goto
<1>1. at[r] \in up /\ at[r] \in Nodes BY DEF Placed, Running
<1>2. on' \in [Slots -> Slots \cup {NoSlot}] BY <1>1
<1>3. pc' \in [Slots -> Running \cup {"idle", "sent"}] BY DEF Running
<1>4. Placed' BY DEF Placed, Running
<1>5. Registered' BY DEF Registered, Executing
<1>6. Joined' BY <1>1 DEF Joined, Registered, Executing
<1> QED BY <1>2, <1>3, <1>4, <1>5, <1>6

LEMMA StoreStep == ASSUME SlotsInv, NEW r \in Slots, Store(r) PROVE SlotsInv'
<1> USE PeerAssumption DEF SlotsInv, Store, Goto
<1>1. at[r] \in up /\ at[r] \in Nodes BY DEF Placed, Running
<1>2. pc' \in [Slots -> Running \cup {"idle", "sent"}] BY DEF Running
<1>3. Placed' BY DEF Placed, Running
<1>4. Registered' BY <1>1 DEF Registered, Executing
<1>5. Joined' BY DEF Joined, Executing
<1> QED BY <1>2, <1>3, <1>4, <1>5

(* NoPeer, PeerFails and Withdraw move one slot that no one has joined.     *)
LEMMA MoveStep ==
  ASSUME SlotsInv, NEW r \in Slots, NoPeer(r) \/ PeerFails(r) \/ Withdraw(r)
  PROVE  SlotsInv'
<1> USE PeerAssumption DEF SlotsInv, NoPeer, PeerFails, Withdraw, Goto
<1>1. pc' \in [Slots -> Running \cup {"idle", "sent"}] BY DEF Running
<1>2. at' \in [Slots -> Nodes \cup {NoNode}] /\ on' \in [Slots -> Slots \cup {NoSlot}]
  OBVIOUS
<1>3. Placed' BY DEF Placed, Running
<1>4. Registered' BY DEF Registered, Executing
<1>5. Joined' BY DEF Joined, Executing
<1> QED BY <1>1, <1>2, <1>3, <1>4, <1>5

LEMMA CrashStep == ASSUME SlotsInv, NEW n \in Nodes, Crash(n) PROVE SlotsInv'
<1> USE PeerAssumption DEF SlotsInv, Crash
<1>1. pc' \in [Slots -> Running \cup {"idle", "sent"}] BY DEF Running
<1>2. at' \in [Slots -> Nodes \cup {NoNode}] /\ on' \in [Slots -> Slots \cup {NoSlot}]
  OBVIOUS
<1>3. Placed' BY DEF Placed, Running
<1>4. Registered' BY DEF Registered, Executing
<1>5. Joined' BY DEF Joined, Executing
<1> QED BY <1>1, <1>2, <1>3, <1>4, <1>5

(* What is left changes only who is up and who has the key.                 *)
LEMMA NodeStep ==
  ASSUME SlotsInv, UNCHANGED <<m, slotVars>>, up \subseteq up', up' \subseteq Nodes,
         cached' \subseteq up'
  PROVE  SlotsInv'
<1> USE DEF SlotsInv, slotVars
<1>1. Placed' BY DEF Placed
<1>2. Registered' /\ Joined' BY DEF Registered, Joined
<1> QED BY <1>1, <1>2

-----------------------------------------------------------------------------
LEMMA TravelOn ==
  ASSUME SyncsInv, UNCHANGED handled, events' \in 0..MaxEvents, events' >= events,
         syncs' \subseteq [op : {"set", "delete"}, to : Nodes, id : 0..MaxEvents],
         \A s \in syncs' : s \in syncs \/ s.op = "delete"
  PROVE  SyncsInv'
BY PeerAssumption DEF SyncsInv, Travelling

LEMMA DeleteSyncs ==
  ASSUME SyncsInv, NEW n \in Nodes, NEW rest \in SUBSET syncs, Sync(n, "delete", 0, rest)
  PROVE  /\ syncs' \subseteq [op : {"set", "delete"}, to : Nodes, id : 0..MaxEvents]
         /\ \A s \in syncs' : s \in syncs \/ s.op = "delete"
<1> USE PeerAssumption DEF SyncsInv
<1>1. CASE syncs' = rest BY <1>1
<1>2. ASSUME NEW b \in Peers[n], syncs' = rest \cup {[op |-> "delete", to |-> b, id |-> 0]}
      PROVE  /\ syncs' \subseteq [op : {"set", "delete"}, to : Nodes, id : 0..MaxEvents]
             /\ \A s \in syncs' : s \in syncs \/ s.op = "delete"
  BY <1>2
<1> QED BY <1>1, <1>2 DEF Sync

LEMMA SetSyncs == ASSUME SyncsInv, NEW n \in Nodes, Set(n) PROVE SyncsInv'
<1> USE PeerAssumption DEF SyncsInv
<1>1. events' = events + 1 /\ events' \in 1..MaxEvents /\ handled' = handled BY DEF Set
<1>2. handled[events'] = 0 BY <1>1 DEF Travelling
<1>3. CASE syncs' = syncs BY <1>1, <1>3 DEF Travelling
<1>4. ASSUME NEW b \in Peers[n],
             syncs' = syncs \cup {[op |-> "set", to |-> b, id |-> events + 1]}
      PROVE  SyncsInv'
  <2>1. syncs' \subseteq [op : {"set", "delete"}, to : Nodes, id : 0..MaxEvents]
    BY <1>1, <1>4
  <2>2. \A s \in syncs' : s.op = "set" => s.id \in 1..events' /\ handled'[s.id] = 0
    BY <1>1, <1>2, <1>4 DEF Travelling
  <2>3. \A s \in syncs : s.op = "set" => s.id # events' BY <1>1 DEF Travelling
  <2>4. \A s, t \in syncs' : s.op = "set" /\ t.op = "set" /\ s.id = t.id => s = t
    BY <1>1, <1>4, <2>3 DEF Travelling
  <2>5. \A i \in 1..MaxEvents : handled'[i] \in {0, 1} /\ (i > events' => handled'[i] = 0)
    BY <1>1 DEF Travelling
  <2> QED BY <1>1, <2>1, <2>2, <2>4, <2>5 DEF Travelling
<1> QED BY <1>3, <1>4 DEF Set, Sync

LEMMA HandleSetSyncs ==
  ASSUME SyncsInv, NEW s \in syncs, HandleSet(s) PROVE SyncsInv'
<1> USE PeerAssumption DEF SyncsInv, HandleSet
<1>1. s.id \in 1..events /\ s.id \in 1..MaxEvents /\ handled[s.id] = 0
  BY DEF Travelling
<1>2. handled' \in [1..MaxEvents -> Nat] BY <1>1
<1>3. \A t \in syncs' : t.op = "set" => t.id \in 1..events' /\ t.id # s.id
  BY <1>1 DEF Travelling
<1>4. \A t \in syncs' : t.op = "set" => handled'[t.id] = 0
  BY <1>1, <1>3 DEF Travelling
<1>5. \A t, u \in syncs' : t.op = "set" /\ u.op = "set" /\ t.id = u.id => t = u
  BY DEF Travelling
<1>6. \A i \in 1..MaxEvents : handled'[i] \in {0, 1} /\ (i > events' => handled'[i] = 0)
  BY <1>1 DEF Travelling
<1> QED BY <1>2, <1>3, <1>4, <1>5, <1>6 DEF Travelling

-----------------------------------------------------------------------------
LEMMA SlotsStep == ASSUME IInv, [Next]_vars PROVE SlotsInv'
<1>0. SlotsInv /\ SyncsInv BY Halves
<1>1. ASSUME NEW r \in Slots, Progress(r) PROVE SlotsInv'
  <2>1. CASE Lookup(r) BY <1>0, <2>1, LookupStep
  <2>2. CASE Store(r) BY <1>0, <2>2, StoreStep
  <2>3. CASE NoPeer(r) \/ PeerFails(r) BY <1>0, <2>3, MoveStep
  <2>4. CASE Ask(r) BY <1>0, <2>4, AskStep
  <2>5. CASE GotValue(r) BY <1>0, <2>5, FinishStep DEF GotValue
  <2>6. CASE LoadLocal(r) BY <1>0, <2>6, FinishStep DEF LoadLocal
  <2> QED BY <1>1, <2>1, <2>2, <2>3, <2>4, <2>5, <2>6 DEF Progress
<1>2. ASSUME NEW r \in Slots, Receive(r) \/ Withdraw(r) PROVE SlotsInv'
  BY <1>0, <1>2, ReceiveStep, MoveStep
<1>3. ASSUME NEW n \in Nodes, Set(n) \/ Delete(n) \/ Evict(n) \/ Restart(n) PROVE SlotsInv'
  <2>1. up \subseteq up' /\ up' \subseteq Nodes /\ cached' \subseteq up'
    BY <1>0, <1>3 DEF SlotsInv, Set, Delete, Evict, Restart
  <2>2. UNCHANGED <<m, slotVars>> BY <1>3 DEF Set, Delete, Evict, Restart
  <2> QED BY <1>0, <2>1, <2>2, NodeStep
<1>4. ASSUME NEW s \in syncs, Handle(s) \/ LoseSync(s) PROVE SlotsInv'
  <2>1. up \subseteq up' /\ up' \subseteq Nodes /\ cached' \subseteq up'
    BY <1>0, <1>4 DEF SlotsInv, Handle, HandleSet, HandleDelete, LoseSync
  <2>2. UNCHANGED <<m, slotVars>> BY <1>4 DEF Handle, HandleSet, HandleDelete, LoseSync
  <2> QED BY <1>0, <2>1, <2>2, NodeStep
<1>5. CASE UNCHANGED vars
  BY <1>0, <1>5 DEF vars, slotVars, SlotsInv, Placed, Registered, Joined
<1> QED BY <1>0, <1>1, <1>2, <1>3, <1>4, <1>5, GetStep, CrashStep DEF Next

LEMMA SyncsStep == ASSUME IInv, [Next]_vars PROVE SyncsInv'
<1>0. SlotsInv /\ SyncsInv BY Halves
<1> USE PeerAssumption
<1>1. CASE UNCHANGED <<syncs, handled, events>>
  BY <1>0, <1>1 DEF SyncsInv, Travelling
<1>2. ASSUME NEW n \in Nodes, Delete(n) PROVE SyncsInv'
  <2>1. Sync(n, "delete", 0, syncs) /\ handled' = handled /\ events' = events + 1
        /\ events' \in 0..MaxEvents
    BY <1>0, <1>2 DEF Delete, SyncsInv
  <2> QED BY <1>0, <2>1, DeleteSyncs, TravelOn DEF SyncsInv
<1>3. ASSUME NEW n \in Nodes, Crash(n) PROVE SyncsInv'
  BY <1>0, <1>3, TravelOn DEF Crash, SyncsInv
<1>4. ASSUME NEW s \in syncs, HandleDelete(s) PROVE SyncsInv'
  <2>1. s.to \in Nodes /\ (syncs \ {s}) \in SUBSET syncs BY <1>0 DEF SyncsInv
  <2>2. Sync(s.to, "delete", 0, syncs \ {s}) /\ handled' = handled /\ events' = events
    BY <1>4 DEF HandleDelete
  <2> QED BY <1>0, <2>1, <2>2, DeleteSyncs, TravelOn DEF SyncsInv
<1>5. ASSUME NEW s \in syncs, LoseSync(s) PROVE SyncsInv'
  BY <1>0, <1>5, TravelOn DEF LoseSync, SyncsInv
<1>6. ASSUME NEW r \in Slots, Progress(r) \/ Receive(r) \/ Withdraw(r)
      PROVE  UNCHANGED <<syncs, handled, events>>
  BY <1>6 DEF Progress, Lookup, Store, NoPeer, Ask, GotValue, LoadLocal, Finish, PeerFails,
              Receive, Withdraw
<1>7. ASSUME NEW n \in Nodes, Get(n) \/ Evict(n) \/ Restart(n)
      PROVE  UNCHANGED <<syncs, handled, events>>
  BY <1>7 DEF Get, Evict, Restart
<1> QED BY <1>0, <1>1, <1>2, <1>3, <1>4, <1>5, <1>6, <1>7, SetSyncs, HandleSetSyncs
        DEF Next, Handle, vars

(* The inductive invariant holds in every state the nodes can reach.        *)
THEOREM Invariance == Spec => []IInv
<1>1. ASSUME IInv, [Next]_vars PROVE IInv'
  <2>1. SlotsInv' /\ SyncsInv' BY <1>1, SlotsStep, SyncsStep
  <2> QED BY <2>1 DEF IInv, TypeOK, SlotsInv, SyncsInv, Running
<1> QED BY <1>1, InitIInv, PTL DEF Spec

(* A Set is applied by one other node at most, however the rings differ.    *)
THEOREM SetsTravelOnce == Spec => []SetOneHop
<1>1. ASSUME IInv PROVE SetOneHop
  <2> USE PeerAssumption DEF IInv
  <2> SUFFICES ASSUME NEW i \in 1..MaxEvents
               PROVE  handled[i] + Cardinality({s \in syncs : s.op = "set" /\ s.id = i}) <= 1
    BY <1>1 DEF SetOneHop
  <2> DEFINE S == {s \in syncs : s.op = "set" /\ s.id = i}
  <2> SUFFICES handled[i] + Cardinality(S) <= 1 OBVIOUS
  <2> HIDE DEF S
  <2>1. handled[i] \in {0, 1} BY <1>1 DEF Travelling
  <2>2. CASE S = {}
    <3>1. Cardinality(S) = 0 BY <2>2, FS_EmptySet
    <3> QED BY <2>1, <3>1
  <2>3. CASE S # {}
    <3>1. PICK s \in S : TRUE BY <2>3
    <3>2. S = {s} BY <1>1, <3>1 DEF Travelling, S
    <3>3. Cardinality(S) = 1 BY <3>2, FS_Singleton
    <3>4. handled[i] = 0 BY <1>1, <3>1 DEF Travelling, S
    <3> QED BY <3>3, <3>4
  <2> QED BY <2>2, <2>3
<1> QED BY <1>1, Invariance, PTL

(* A Get that ends without the value has met a failure of its own getter:   *)
(* a waiter is on the node of the call, so that the call's error is that of *)
(* the waiter's own node.                                                   *)
THEOREM FailuresHidden == Spec => PeerFailureHidden
<1> DEFINE Hidden == \A r \in Slots :
             pc[r] \in Running /\ pc'[r] = "idle" /\ at[r] \in up' \ cached'
               => at[r] \in MayFail
<1>1. ASSUME IInv, Next PROVE Hidden
  <2> SUFFICES ASSUME NEW r \in Slots, pc[r] \in Running, pc'[r] = "idle",
                      at[r] \in up' \ cached'
               PROVE  at[r] \in MayFail
    OBVIOUS
  <2> USE PeerAssumption DEF Running
  <2>0. SlotsInv BY <1>1, Halves
  <2>1. ASSUME NEW q \in Slots, NEW ok \in BOOLEAN, ok \/ at[q] \in MayFail, Finish(q, ok)
        PROVE  at[r] \in MayFail
    <3>1. at[r] = at[q] BY <2>0, <2>1 DEF SlotsInv, Joined, Finish, Return
    <3>2. CASE ok BY <2>0, <2>1, <3>1, <3>2 DEF Finish
    <3>3. CASE ~ok BY <2>1, <3>1, <3>3
    <3> QED BY <3>2, <3>3
  <2>2. ASSUME NEW q \in Slots, Progress(q) PROVE at[r] \in MayFail
    <3>1. CASE GotValue(q) BY <2>1, <3>1 DEF GotValue
    <3>2. CASE LoadLocal(q) BY <2>1, <3>2 DEF LoadLocal
    <3>3. CASE Ask(q)
      <4>1. Fresh \in Slots /\ pc[Fresh] = "idle" BY <3>3, FreshIsFree DEF Ask
      <4> QED BY <2>0, <3>3, <4>1 DEF Ask, SlotsInv
    <3>4. CASE Lookup(q) \/ Store(q) \/ NoPeer(q) \/ PeerFails(q)
      BY <2>0, <3>4 DEF Lookup, Store, NoPeer, PeerFails, Goto, SlotsInv
    <3> QED BY <2>2, <3>1, <3>2, <3>3, <3>4 DEF Progress
  <2>3. ASSUME NEW q \in Slots, Receive(q) \/ Withdraw(q) PROVE at[r] \in MayFail
    BY <2>0, <2>3 DEF Receive, Withdraw, Return, Goto, SlotsInv
  <2>4. ASSUME NEW n \in Nodes, Get(n) PROVE at[r] \in MayFail
    <3>1. Fresh \in Slots /\ pc[Fresh] = "idle" BY <2>4, FreshIsFree DEF Get
    <3> QED BY <2>0, <2>4, <3>1 DEF Get, SlotsInv
  <2>5. ASSUME NEW n \in Nodes, Crash(n) PROVE at[r] \in MayFail
    BY <2>0, <2>5 DEF Crash, SlotsInv
  <2>6. CASE pc' = pc BY <2>6
  <2>7. ASSUME NEW n \in Nodes, Set(n) \/ Delete(n) \/ Evict(n) \/ Restart(n)
        PROVE  pc' = pc
    BY <2>7 DEF Set, Delete, Evict, Restart, slotVars
  <2>8. ASSUME NEW s \in syncs, Handle(s) \/ LoseSync(s) PROVE pc' = pc
    BY <2>8 DEF Handle, HandleSet, HandleDelete, LoseSync, slotVars
  <2> QED BY <1>1, <2>2, <2>3, <2>4, <2>5, <2>6, <2>7, <2>8 DEF Next
<1>2. IInv /\ [Next]_vars => [Hidden]_vars BY <1>1
<1> QED BY <1>2, Invariance, PTL DEF Spec, PeerFailureHidden

=============================================================================
