------------------------------- MODULE PeerSync -------------------------------
(***************************************************************************)
(* Several nodes and one key: group.go with peers, the handlers of         *)
(* server.go and the calls of client.go.  A slot is a Get in progress, of  *)
(* the application or of a handler; a sync is a Set or Delete on its way   *)
(* to another node.  PickPeer is the choice of a node of Peers[n] or of    *)
(* none: rings change and differ.  It never answers isSelf, because a      *)
(* picker skips its own address; a node that gave its picker ":port" and   *)
(* is registered as "ip:port" is one of its own peers.  The loader hands a *)
(* result to all who joined the call at once (see SingleFlight).           *)
(***************************************************************************)
EXTENDS Naturals, FiniteSets

CONSTANTS
  Nodes, NoNode,
  Peers,      \* node -> nodes its ring may hold
  MayFail,    \* nodes whose getter may fail
  Slots, NoSlot,   \* bounds the Gets under way
  MaxEvents   \* bounds the Sets and Deletes of the application and the crashes

ASSUME PeerAssumption ==
  /\ NoNode \notin Nodes /\ NoSlot \notin Slots
  /\ Peers \in [Nodes -> SUBSET Nodes] /\ MayFail \subseteq Nodes
  /\ MaxEvents \in Nat

VARIABLES
  up,       \* nodes that run
  cached,   \* nodes whose main cache holds the key
  m,        \* node -> slot that executes the call in its loader, or NoSlot
  at,       \* slot -> its node
  pc,       \* slot -> "idle", "sent", "miss", "store", "load", "peer", "got",
            \*         "local" or "wait"
  on,       \* slot -> slot of the call it has joined or of the RPC it awaits
  syncs,    \* RPCs of syncToPeers: [op, to, id]
  handled,  \* ghost: Set -> how often a sync has applied it
  events    \* number of Sets, Deletes and crashes

slotVars == <<at, pc, on>>
vars == <<up, cached, m, slotVars, syncs, handled, events>>

TypeOK ==
  /\ up \subseteq Nodes /\ cached \subseteq up
  /\ m \in [Nodes -> Slots \cup {NoSlot}]
  /\ at \in [Slots -> Nodes \cup {NoNode}]
  /\ pc \in [Slots -> {"idle", "sent", "miss", "store", "load", "peer", "got",
                       "local", "wait"}]
  /\ on \in [Slots -> Slots \cup {NoSlot}]
  /\ syncs \subseteq [op : {"set", "delete"}, to : Nodes, id : 0..MaxEvents]
  /\ handled \in [1..MaxEvents -> Nat]
  /\ events \in 0..MaxEvents

Init ==
  /\ up = Nodes /\ cached = {}
  /\ m = [n \in Nodes |-> NoSlot]
  /\ at = [r \in Slots |-> NoNode]
  /\ pc = [r \in Slots |-> "idle"]
  /\ on = [r \in Slots |-> NoSlot]
  /\ syncs = {}
  /\ handled = [i \in 1..MaxEvents |-> 0]
  /\ events = 0

(* Slots are interchangeable: a request takes the same free one always.     *)
Free == {r \in Slots : pc[r] = "idle"}
Fresh == CHOOSE r \in Free : TRUE

Goto(r, from, to) == pc[r] = from /\ pc' = [pc EXCEPT ![r] = to]

-----------------------------------------------------------------------------
(* Gets.  An application calls Get and misses; a hit changes nothing.       *)
Get(n) ==
  /\ n \in up \ cached
  /\ Free # {}
  /\ pc' = [pc EXCEPT ![Fresh] = "miss"]
  /\ at' = [at EXCEPT ![Fresh] = n]
  /\ UNCHANGED <<up, cached, m, on, syncs, handled, events>>

(* loader.Do joins the call under way, or finds none. *)
Lookup(r) ==
  /\ Goto(r, "miss", IF m[at[r]] = NoSlot THEN "store" ELSE "wait")
  /\ on' = [on EXCEPT ![r] = m[at[r]]]
  /\ UNCHANGED <<up, cached, m, at, syncs, handled, events>>

Store(r) ==
  /\ Goto(r, "store", "load")
  /\ m' = [m EXCEPT ![at[r]] = r]
  /\ UNCHANGED <<up, cached, at, on, syncs, handled, events>>

(* loadData sends the Get to the peer it picks, ... *)
Ask(r) ==
  /\ pc[r] = "load" /\ Free # {}
  /\ \E b \in Peers[at[r]] : at' = [at EXCEPT ![Fresh] = b]
  /\ pc' = [pc EXCEPT ![r] = "peer", ![Fresh] = "sent"]
  /\ on' = [on EXCEPT ![r] = Fresh]
  /\ UNCHANGED <<up, cached, m, syncs, handled, events>>

(* ... or has none. *)
NoPeer(r) ==
  /\ Goto(r, "load", "local")
  /\ UNCHANGED <<up, cached, m, at, on, syncs, handled, events>>

(* Requests rs return with a value or an error; a handler's answer reaches  *)
(* the caller that still waits for it.                                      *)
Return(rs, ok) ==
  LET callers == {p \in Slots : pc[p] = "peer" /\ on[p] \in rs}
  IN  /\ pc' = [s \in Slots |-> IF s \in rs THEN "idle"
                  ELSE IF s \notin callers THEN pc[s]
                  ELSE IF ok THEN "got" ELSE "local"]
      /\ at' = [s \in Slots |-> IF s \in rs THEN NoNode ELSE at[s]]
      /\ on' = [s \in Slots |-> IF s \in rs \cup callers THEN NoSlot ELSE on[s]]

(* Server.Get: the group has the key, or its Get goes on like any other.    *)
Receive(h) ==
  /\ pc[h] = "sent" /\ at[h] \in up
  /\ IF at[h] \in cached THEN Return({h}, TRUE)
     ELSE Goto(h, "sent", "miss") /\ UNCHANGED <<at, on>>
  /\ UNCHANGED <<up, cached, m, syncs, handled, events>>

(* The call of r is over: all who joined it return, and cache the value.    *)
Finish(r, ok) ==
  LET n == at[r]
  IN  /\ Return({r} \cup {w \in Slots : pc[w] = "wait" /\ on[w] = r}, ok)
      /\ m' = [m EXCEPT ![n] = NoSlot]
      /\ cached' = IF ok THEN cached \cup {n} ELSE cached
      /\ UNCHANGED <<up, syncs, handled, events>>

GotValue(r) == pc[r] = "got" /\ Finish(r, TRUE)

LoadLocal(r) ==
  /\ pc[r] = "local"
  /\ \E ok \in BOOLEAN : (ok \/ at[r] \in MayFail) /\ Finish(r, ok)

(* Mutant of PeerFails: a peer is asked again.                              *)
PeerRetried(r) ==
  /\ Goto(r, "peer", "load")
  /\ on' = [on EXCEPT ![r] = NoSlot]
  /\ UNCHANGED <<up, cached, m, at, syncs, handled, events>>

(* Mutant of PeerFails: the peer's error is the caller's.                   *)
PeerErrorReturned(r) == pc[r] = "peer" /\ Finish(r, FALSE)

(* The RPC fails, after 3 seconds at the latest.  A request that has been   *)
(* received goes on for nobody.                                             *)
PeerFails(r) ==
  /\ Goto(r, "peer", "local")
  /\ on' = [on EXCEPT ![r] = NoSlot]
  /\ UNCHANGED <<up, cached, m, at, syncs, handled, events>>

(* A request nobody awaits any more is withdrawn before it arrives.         *)
Withdraw(h) ==
  /\ \A r \in Slots : on[r] # h
  /\ Goto(h, "sent", "idle")
  /\ at' = [at EXCEPT ![h] = NoNode]
  /\ UNCHANGED <<up, cached, m, on, syncs, handled, events>>

-----------------------------------------------------------------------------
(* syncToPeers of node n: a goroutine of its own, without a retry. *)
Sync(n, op, id, rest) ==
  \/ syncs' = rest
  \/ \E b \in Peers[n] : syncs' = rest \cup {[op |-> op, to |-> b, id |-> id]}

Set(n) ==
  /\ n \in up /\ events < MaxEvents
  /\ events' = events + 1
  /\ cached' = cached \cup {n}
  /\ Sync(n, "set", events + 1, syncs)
  /\ UNCHANGED <<up, m, slotVars, handled>>

Delete(n) ==
  /\ n \in up /\ events < MaxEvents
  /\ events' = events + 1
  /\ cached' = cached \ {n}
  /\ Sync(n, "delete", 0, syncs)
  /\ UNCHANGED <<up, m, slotVars, handled>>

(* Mutant of HandleSet: the context is not marked from_peer.                *)
HandleSetUnmarked(s) ==
  /\ s \in syncs /\ s.op = "set" /\ s.to \in up
  /\ cached' = cached \cup {s.to}
  /\ handled' = [handled EXCEPT ![s.id] = @ + 1]
  /\ Sync(s.to, "set", s.id, syncs \ {s})
  /\ UNCHANGED <<up, m, slotVars, events>>

(* Server.Set marks the context, and Group.Set syncs no further. *)
HandleSet(s) ==
  /\ s \in syncs /\ s.op = "set" /\ s.to \in up
  /\ cached' = cached \cup {s.to}
  /\ handled' = [handled EXCEPT ![s.id] = @ + 1]
  /\ syncs' = syncs \ {s}
  /\ UNCHANGED <<up, m, slotVars, events>>

(* Server.Delete does not mark it, and Group.Delete syncs on. *)
HandleDelete(s) ==
  /\ s \in syncs /\ s.op = "delete" /\ s.to \in up
  /\ cached' = cached \ {s.to}
  /\ Sync(s.to, "delete", 0, syncs \ {s})
  /\ UNCHANGED <<up, m, slotVars, handled, events>>

(* A broken connection or, for a Delete, its timeout; the error is logged. *)
LoseSync(s) ==
  /\ s \in syncs
  /\ syncs' = syncs \ {s}
  /\ UNCHANGED <<up, cached, m, slotVars, handled, events>>

-----------------------------------------------------------------------------
(* The store evicts or expires the key. *)
Evict(n) ==
  /\ cached' = cached \ {n} /\ n \in cached
  /\ UNCHANGED <<up, m, slotVars, syncs, handled, events>>

(* A node dies with its Gets; callers wait for answers that never come.     *)
Crash(n) ==
  LET dead == {r \in Slots : at[r] = n /\ pc[r] # "sent"}
  IN  /\ n \in up /\ events < MaxEvents
      /\ events' = events + 1
      /\ up' = up \ {n} /\ cached' = cached \ {n}
      /\ m' = [m EXCEPT ![n] = NoSlot]
      /\ pc' = [r \in Slots |-> IF r \in dead THEN "idle" ELSE pc[r]]
      /\ at' = [r \in Slots |-> IF r \in dead THEN NoNode ELSE at[r]]
      /\ on' = [r \in Slots |-> IF r \in dead \/ on[r] \in dead THEN NoSlot ELSE on[r]]
      /\ UNCHANGED <<syncs, handled>>

Restart(n) ==
  /\ n \in Nodes \ up
  /\ up' = up \cup {n}
  /\ UNCHANGED <<cached, m, slotVars, syncs, handled, events>>

Progress(r) ==
  \/ Lookup(r) \/ Store(r) \/ NoPeer(r) \/ Ask(r)
  \/ GotValue(r) \/ LoadLocal(r) \/ PeerFails(r)

Handle(s) == HandleSet(s) \/ HandleDelete(s)

Next ==
  \/ \E r \in Slots : Progress(r) \/ Receive(r) \/ Withdraw(r)
  \/ \E n \in Nodes : Get(n) \/ Set(n) \/ Delete(n) \/ Evict(n) \/ Crash(n) \/ Restart(n)
  \/ \E s \in syncs : Handle(s) \/ LoseSync(s)

(* Goroutines run, getters return, timeouts expire, and a node that runs    *)
(* receives what is sent to it; nothing says that a node is restarted.      *)
Spec ==
  /\ Init /\ [][Next]_vars
  /\ \A r \in Slots : WF_vars(Progress(r)) /\ WF_vars(Receive(r))
  /\ WF_vars(\E s \in syncs : Handle(s))

-----------------------------------------------------------------------------
Running == {"miss", "store", "load", "peer", "got", "local", "wait"}

(* Every Get returns, although nodes may forward it to each other or to     *)
(* themselves, where it waits for the call it belongs to, and although they *)
(* crash: each RPC is given up in the end (group.go:283, 312-325,           *)
(* client.go:62).                                                           *)
EveryGetReturns == \A r \in Slots : pc[r] \in Running ~> pc[r] = "idle"

(* Peers that fail, crash or answer late are no reason for a Get to fail:   *)
(* one that ends without the value in its own node's cache has met a        *)
(* failure of its own node's getter (group.go:312-329).                     *)
PeerFailureHidden ==
  [][\A r \in Slots :
       pc[r] \in Running /\ pc'[r] = "idle" /\ at[r] \in up' \ cached'
         => at[r] \in MayFail]_vars

(* A Set leaves the node it is called on once at most: the node that        *)
(* applies it never syncs it on, whatever its own ring says                 *)
(* (group.go:169-187, server.go:199-203).                                   *)
SetOneHop ==
  /\ TypeOK
  /\ \A i \in 1..MaxEvents :
       handled[i] + Cardinality({s \in syncs : s.op = "set" /\ s.id = i}) <= 1

(* group.go:232: the mark in the context lets the other node avoid a        *)
(* "second sync".  When nobody calls Set or Delete any more, the syncs end. *)
SyncsDieOut == <>[](syncs = {})
=============================================================================
