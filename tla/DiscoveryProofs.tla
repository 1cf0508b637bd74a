---------------------------- MODULE DiscoveryProofs ----------------------------
(* Proofs about Discovery: see its header for the model. *)
EXTENDS Discovery, TLAPS

EventOf == [op : {"put", "delete"}, server : Servers]

(* A server is on the ring once if it has a client, and is dialled only     *)
(* while it has none: what the full Get has found is set once each, and the *)
(* watch looks the client up first.                                         *)
DialledOnce ==
  /\ \A s \in Servers : ring[s] = IF s \in clients THEN 1 ELSE 0
  /\ dialing \notin clients \cup todo /\ todo \cap clients = {}
  /\ phase = "new" => clients = {} /\ dialing = NoServer
  /\ phase # "apply" => todo = {}

Announced == {events[i].server : i \in {j \in 1..Len(events) : events[j].op = "put"}}

(* A registered server the picker may have lost is not in any place it      *)
(* still works through.                                                     *)
NothingElseLost ==
  phase \in {"apply", "gap", "watching"} =>
    listed \subseteq clients \cup missed \cup undialled \cup {Self, dialing}
                       \cup todo \cup Announced

IInv == TypeOK /\ DialledOnce /\ NothingElseLost

LEMMA InitIInv == Init => IInv
<1> SUFFICES ASSUME Init PROVE IInv OBVIOUS
<1> USE DiscoveryAssumption DEF Init
<1>1. TypeOK
  <2>1. events \in Seq(EventOf) OBVIOUS
  <2> QED BY <2>1 DEF TypeOK, EventOf
<1>2. DialledOnce BY DEF DialledOnce
<1>3. NothingElseLost BY DEF NothingElseLost
<1> QED BY <1>1, <1>2, <1>3 DEF IInv

-----------------------------------------------------------------------------
(* What etcd adds to the events, and what it has announced before.          *)
LEMMA NotifyType ==
  ASSUME TypeOK, NEW op \in {"put", "delete"}, NEW s \in Servers, Notify(op, s)
  PROVE  events' \in Seq(EventOf) /\ missed' \subseteq Servers
<1>1. [op |-> op, server |-> s] \in EventOf BY DEF EventOf
<1>2. events \in Seq(EventOf) BY DEF TypeOK, EventOf
<1>3. Append(events, [op |-> op, server |-> s]) \in Seq(EventOf) BY <1>1, <1>2
<1> QED BY <1>2, <1>3 DEF TypeOK, Notify

LEMMA NotifyKeeps ==
  ASSUME TypeOK, NEW op \in {"put", "delete"}, NEW s \in Servers, Notify(op, s)
  PROVE  /\ Announced \subseteq Announced' /\ missed \subseteq missed'
         /\ op = "put" /\ phase \in {"apply", "gap", "watching"}
              => s \in Announced' \cup missed'
<1> USE DEF TypeOK, Notify, Announced
<1>1. CASE phase = "watching"
  <2>1. Len(events') = Len(events) + 1 /\ \A i \in 1..Len(events) : events'[i] = events[i]
    BY <1>1
  <2>2. events'[Len(events')] = [op |-> op, server |-> s] BY <1>1
  <2>3. Announced \subseteq Announced' BY <2>1
  <2>4. op = "put" => s \in Announced'
    <3> SUFFICES ASSUME op = "put" PROVE s \in Announced' OBVIOUS
    <3>1. Len(events') \in 1..Len(events') BY <2>1
    <3>2. Len(events') \in {j \in 1..Len(events') : events'[j].op = "put"} BY <2>2, <3>1
    <3> QED BY <2>2, <3>2
  <2> QED BY <1>1, <2>3, <2>4
<1>2. CASE phase # "watching" BY <1>2
<1> QED BY <1>1, <1>2

(* The server at the head of the events is the only one that taking it      *)
(* removes from what is announced.                                          *)
LEMMA TailAnnounced ==
  ASSUME TypeOK, events # <<>>, events' = Tail(events)
  PROVE  /\ events' \in Seq(EventOf) /\ Head(events) \in EventOf
         /\ Announced \subseteq Announced' \cup
              (IF Head(events).op = "put" THEN {Head(events).server} ELSE {})
<1> USE DEF Announced
<1>1. events \in Seq(EventOf) BY DEF TypeOK, EventOf
<1>2. Len(events') = Len(events) - 1 /\ \A i \in 1..Len(events') : events'[i] = events[i + 1]
  BY <1>1
<1>3. Head(events) = events[1] /\ Len(events) \in Nat \ {0} BY <1>1
<1>4. ASSUME NEW i \in 1..Len(events), events[i].op = "put", i # 1
      PROVE events[i].server \in Announced'
  <2>1. i - 1 \in 1..Len(events') /\ events'[i - 1] = events[i] BY <1>2, <1>3, <1>4
  <2> QED BY <1>4, <2>1
<1>5. events' \in Seq(EventOf) /\ Head(events) \in EventOf BY <1>1
<1>6. Announced \subseteq Announced' \cup
        (IF events[1].op = "put" THEN {events[1].server} ELSE {})
  BY <1>4
<1> QED BY <1>3, <1>5, <1>6

-----------------------------------------------------------------------------
(* The servers and etcd. *)
LEMMA ServerStep ==
  ASSUME IInv, NEW s \in Servers,
         \/ Start(s) \/ Crash(s) \/ Put(s) \/ KeepAlive(s) \/ RegisterFails(s)
         \/ Unregister(s) \/ Lapse(s) \/ Expire(s) \/ StopTest(s) \/ StopClose(s)
  PROVE  IInv'
<1> USE DiscoveryAssumption DEF IInv
<1>1. UNCHANGED pickerVars
  BY DEF Start, Crash, Put, KeepAlive, RegisterFails, Unregister, Lapse, Expire,
         StopTest, StopClose
<1>2. DialledOnce' BY <1>1 DEF DialledOnce, pickerVars, peerVars
<1>3. /\ srv' \in [Servers -> {"down", "serving", "stopping", "stopped"}]
      /\ reg' \in [Servers -> {"none", "put", "keep", "kept", "ended"}]
      /\ stopCh' \subseteq Servers /\ starts' \in 0..MaxStarts
  <2> USE DEF TypeOK
  <2>1. CASE Start(s)
    <3>1. starts' \in 0..MaxStarts BY <2>1 DEF Start
    <3> QED BY <2>1, <3>1 DEF Start
  <2>7. CASE Crash(s) BY <2>7 DEF Crash, Die
  <2>2. CASE Put(s) \/ KeepAlive(s) \/ Unregister(s) \/ Lapse(s)
    BY <2>2 DEF Put, KeepAlive, Unregister, Lapse, RegAt
  <2>3. CASE RegisterFails(s) BY <2>3 DEF RegisterFails, Die
  <2>4. CASE Expire(s) BY <2>4 DEF Expire, serverVars
  <2>5. CASE StopTest(s) BY <2>5 DEF StopTest
  <2>6. CASE StopClose(s) BY <2>6 DEF StopClose, Die
  <2> QED BY <2>1, <2>2, <2>3, <2>4, <2>5, <2>6, <2>7
<1>4. CASE UNCHANGED <<listed, events, missed>>
  BY <1>1, <1>2, <1>3, <1>4 DEF TypeOK, NothingElseLost, Announced, pickerVars, peerVars
<1>5. CASE Put(s)
  <2>1. Notify("put", s) /\ listed' = listed \cup {s} BY <1>5 DEF Put
  <2>2. TypeOK' BY <1>1, <1>3, <2>1, NotifyType DEF TypeOK, EventOf, pickerVars, peerVars
  <2>3. NothingElseLost'
    BY <1>1, <2>1, NotifyKeeps DEF NothingElseLost, pickerVars, peerVars
  <2> QED BY <1>2, <2>2, <2>3
<1>6. CASE (Unregister(s) \/ Expire(s)) /\ listed' = listed \ {s} /\ Notify("delete", s)
  <2>1. TypeOK' BY <1>1, <1>3, <1>6, NotifyType DEF TypeOK, EventOf, pickerVars, peerVars
  <2>2. NothingElseLost'
    BY <1>1, <1>6, NotifyKeeps DEF NothingElseLost, pickerVars, peerVars
  <2> QED BY <1>2, <2>1, <2>2
<1>7. CASE listed' = listed \ {s} /\ Quiet
  BY <1>1, <1>2, <1>3, <1>7
  DEF TypeOK, NothingElseLost, Announced, Quiet, pickerVars, peerVars
<1> QED
  BY <1>4, <1>5, <1>6, <1>7
  DEF Start, Crash, KeepAlive, RegisterFails, Unregister, Lapse, Expire, StopTest,
      StopClose, Quiet

-----------------------------------------------------------------------------
(* The picker. *)
LEMMA FetchStep ==
  ASSUME IInv, Fetch \/ SetFetched \/ FetchEnd \/ Watch PROVE IInv'
<1> USE DiscoveryAssumption DEF IInv, serverVars, peerVars, Quiet
<1>1. TypeOK' BY DEF TypeOK, Fetch, SetFetched, FetchEnd, Watch
<1>2. DialledOnce' BY DEF TypeOK, DialledOnce, Fetch, SetFetched, FetchEnd, Watch
<1>3. NothingElseLost'
  <2> USE DEF NothingElseLost, DialledOnce, Announced
  <2>1. CASE Fetch BY <2>1 DEF Fetch
  <2>2. CASE SetFetched BY <2>2 DEF SetFetched, TypeOK
  <2>3. CASE FetchEnd \/ Watch BY <2>3 DEF FetchEnd, Watch
  <2> QED BY <2>1, <2>2, <2>3
<1> QED BY <1>1, <1>2, <1>3

LEMMA DialStep == ASSUME IInv, Dial PROVE IInv'
<1> USE DiscoveryAssumption DEF IInv, Dial, serverVars, Quiet
<1>1. TypeOK' BY DEF TypeOK
<1>2. DialledOnce' BY DEF TypeOK, DialledOnce
<1>3. NothingElseLost' BY DEF NothingElseLost, Announced
<1> QED BY <1>1, <1>2, <1>3

LEMMA HandleEventStep == ASSUME IInv, HandleEvent PROVE IInv'
<1> USE DiscoveryAssumption DEF IInv, HandleEvent, serverVars, peerVars
<1>1. /\ events' \in Seq(EventOf) /\ Head(events) \in EventOf
      /\ Announced \subseteq Announced' \cup
           (IF Head(events).op = "put" THEN {Head(events).server} ELSE {})
  BY TailAnnounced
<1>2. TypeOK' BY <1>1 DEF TypeOK, EventOf
<1>3. DialledOnce' BY <1>1 DEF TypeOK, DialledOnce, EventOf
<1>4. NothingElseLost' BY <1>1 DEF NothingElseLost, TypeOK, EventOf
<1> QED BY <1>2, <1>3, <1>4

LEMMA OtherStep ==
  ASSUME IInv, WatchBreaks \/ Close \/ WatchEnds \/ PickBegin \/ PickEnd \/ UNCHANGED vars
  PROVE  IInv'
<1> USE DiscoveryAssumption
    DEF IInv, WatchBreaks, Close, WatchEnds, PickBegin, PickEnd, vars, serverVars,
        peerVars, pickerVars, Quiet
<1>1. TypeOK'
  <2>1. <<>> \in Seq(EventOf) OBVIOUS
  <2> QED BY <2>1 DEF TypeOK, EventOf
<1>2. DialledOnce' BY DEF DialledOnce
<1>3. NothingElseLost' BY DEF NothingElseLost, Announced
<1> QED BY <1>1, <1>2, <1>3

(* Every state of servers and picker has the inductive invariant.           *)
THEOREM Invariance == Spec => []IInv
<1>1. ASSUME IInv, [Next]_vars PROVE IInv'
  BY <1>1, ServerStep, FetchStep, DialStep, HandleEventStep, OtherStep
  DEF Next, RegisterStep
<1> QED BY <1>1, InitIInv, PTL DEF Spec

(* No server is on the ring twice or without a client, whatever the order   *)
(* of fetches, announcements, restarts and dials (peers.go:141-188).        *)
THEOREM RingAgrees == Spec => []RingMatchesClients
<1>1. IInv => RingMatchesClients BY DEF IInv, DialledOnce, RingMatchesClients
<1> QED BY <1>1, Invariance, PTL

(* The window between Get and Watch and failed dials are the only ways a    *)
(* picker that has caught up misses a registered server                     *)
(* (peers.go:102-153, 169-187).                                             *)
THEOREM OnlyTheseAreLost == Spec => []NoOtherLoss
<1>1. IInv => NoOtherLoss
  BY DiscoveryAssumption DEF IInv, TypeOK, DialledOnce, NothingElseLost, Announced, NoOtherLoss
<1> QED BY <1>1, Invariance, PTL
=============================================================================
