------------------------------ MODULE Discovery ------------------------------
(***************************************************************************)
(* peers.go, registry/register.go and Start and Stop of server.go: servers *)
(* that register with etcd under a lease, and one picker that finds them.  *)
(* etcd is external: a key goes when its lease is revoked or runs out, and *)
(* a watch delivers the events since its start in order.  A DELETE event   *)
(* carries no value, so the address handleWatchEvents reads from it is     *)
(* empty and removes nobody.                                               *)
(***************************************************************************)
EXTENDS Naturals, Sequences

CONSTANTS
  Servers, NoServer,
  Self,       \* the server whose address in etcd is the picker's selfAddr,
              \* or NoServer when that one has no host (cmd/main.go)
  MaxStarts   \* bounds the starts of server processes

ASSUME DiscoveryAssumption ==
  NoServer \notin Servers /\ Self \in Servers \cup {NoServer} /\ MaxStarts \in Nat

VARIABLES
  srv,       \* server -> "down", "serving", "stopping" in Stop, "stopped"
  reg,       \* server -> where Register is: "none", "put", "keep", "kept"
             \*           with its goroutine, "ended"
  stopCh,    \* servers whose stopCh is closed
  listed,    \* servers with a key in etcd
  starts,    \* number of starts
  phase,     \* the picker: "new", "apply", "gap", "watching", "broken",
             \*             "closed", "gone"
  todo,      \* servers of the full Get still to be set
  dialing,   \* server NewClient dials with p.mu held, or NoServer
  events,    \* events of the watch not yet handled
  clients,   \* p.clients
  ring,      \* server -> how often it has been added to p.consHash
  pick,      \* a PickPeer: "idle" or "wait" for the read lock
  missed, undialled  \* ghosts: put before the watch began; last dial failed

serverVars == <<srv, reg, stopCh, starts>>
peerVars == <<clients, ring, undialled>>
pickerVars == <<phase, todo, dialing, pick, peerVars>>
vars == <<serverVars, listed, pickerVars, events, missed>>

TypeOK ==
  /\ srv \in [Servers -> {"down", "serving", "stopping", "stopped"}]
  /\ reg \in [Servers -> {"none", "put", "keep", "kept", "ended"}]
  /\ stopCh \subseteq Servers /\ listed \subseteq Servers
  /\ starts \in 0..MaxStarts
  /\ phase \in {"new", "apply", "gap", "watching", "broken", "closed", "gone"}
  /\ todo \subseteq Servers /\ dialing \in Servers \cup {NoServer}
  /\ events \in Seq([op : {"put", "delete"}, server : Servers])
  /\ clients \subseteq Servers /\ ring \in [Servers -> Nat]
  /\ pick \in {"idle", "wait"}
  /\ missed \subseteq Servers /\ undialled \subseteq Servers

Init ==
  /\ srv = [s \in Servers |-> "down"] /\ reg = [s \in Servers |-> "none"]
  /\ stopCh = {} /\ listed = {} /\ starts = 0
  /\ phase = "new" /\ todo = {} /\ dialing = NoServer /\ events = <<>>
  /\ clients = {} /\ ring = [s \in Servers |-> 0]
  /\ pick = "idle" /\ missed = {} /\ undialled = {}

(* etcd reports a change to a watch that has begun and is not broken. *)
Notify(op, s) ==
  /\ events' = IF phase = "watching"
               THEN Append(events, [op |-> op, server |-> s]) ELSE events
  /\ missed' = IF op = "put" /\ phase \in {"apply", "gap"}
               THEN missed \cup {s} ELSE missed

Quiet == UNCHANGED <<events, missed>>

(* The states of a server in which its listener is open. *)
Accepting == {"serving", "stopping"}

-----------------------------------------------------------------------------
(* Start serves and registers in a goroutine of its own. *)
Start(s) ==
  /\ srv[s] = "down" /\ starts < MaxStarts
  /\ starts' = starts + 1
  /\ srv' = [srv EXCEPT ![s] = "serving"]
  /\ reg' = [reg EXCEPT ![s] = "put"]
  /\ stopCh' = stopCh \ {s}
  /\ UNCHANGED <<listed, pickerVars>> /\ Quiet

(* The process ends: by a crash, an exit or a panic. *)
Die(s) ==
  /\ srv' = [srv EXCEPT ![s] = "down"]
  /\ reg' = [reg EXCEPT ![s] = "none"]
  /\ UNCHANGED <<stopCh, starts>>

Crash(s) ==
  /\ srv[s] # "down"
  /\ Die(s)
  /\ UNCHANGED <<listed, pickerVars>> /\ Quiet

RegAt(s, from, to) ==
  /\ reg[s] = from
  /\ reg' = [reg EXCEPT ![s] = to]
  /\ UNCHANGED <<srv, stopCh, starts>>

(* Register gets a lease and puts the key, ... *)
Put(s) ==
  /\ RegAt(s, "put", "keep")
  /\ listed' = listed \cup {s}
  /\ Notify("put", s)
  /\ UNCHANGED pickerVars

(* ... and leaves the lease to a goroutine. *)
KeepAlive(s) ==
  /\ RegAt(s, "keep", "kept")
  /\ UNCHANGED <<listed, pickerVars>> /\ Quiet

(* One of the calls of Register fails: Start's goroutine closes stopCh, and *)
(* a second close panics.  The server goes on serving.                      *)
RegisterFails(s) ==
  /\ reg[s] \in {"put", "keep"}
  /\ IF s \in stopCh THEN Die(s)
     ELSE /\ reg' = [reg EXCEPT ![s] = "ended"]
          /\ stopCh' = stopCh \cup {s}
          /\ UNCHANGED <<srv, starts>>
  /\ UNCHANGED <<listed, pickerVars>> /\ Quiet

(* The goroutine of Register sees stopCh closed and revokes the lease, or   *)
(* fails to; either way nobody renews it.                                   *)
Unregister(s) ==
  /\ s \in stopCh
  /\ RegAt(s, "kept", "ended")
  /\ \/ /\ listed' = listed \ {s}
        /\ IF s \in listed THEN Notify("delete", s) ELSE Quiet
     \/ UNCHANGED listed /\ Quiet
  /\ UNCHANGED pickerVars

(* The keep-alive channel is closed: the goroutine ends, the server serves. *)
Lapse(s) ==
  /\ RegAt(s, "kept", "ended")
  /\ UNCHANGED <<listed, pickerVars>> /\ Quiet

(* The lease of a key runs out when nobody keeps it alive.                  *)
Expire(s) ==
  /\ s \in listed /\ reg[s] # "kept"
  /\ listed' = listed \ {s}
  /\ Notify("delete", s)
  /\ UNCHANGED <<serverVars, pickerVars>>

(* Stop tests stopCh ... *)
StopTest(s) ==
  /\ srv[s] = "serving"
  /\ srv' = [srv EXCEPT ![s] = IF s \in stopCh THEN "stopped" ELSE "stopping"]
  /\ UNCHANGED <<reg, stopCh, starts, listed, pickerVars>> /\ Quiet

(* Mutant of StopClose: the channel is not closed.                          *)
StopOnly(s) ==
  /\ srv[s] = "stopping"
  /\ srv' = [srv EXCEPT ![s] = "stopped"]
  /\ UNCHANGED <<reg, stopCh, starts, listed, pickerVars>> /\ Quiet

(* ... and closes it, and panics if that has been done since.               *)
StopClose(s) ==
  /\ srv[s] = "stopping"
  /\ IF s \in stopCh THEN Die(s)
     ELSE /\ srv' = [srv EXCEPT ![s] = "stopped"]
          /\ stopCh' = stopCh \cup {s}
          /\ UNCHANGED <<reg, starts>>
  /\ UNCHANGED <<listed, pickerVars>> /\ Quiet

-----------------------------------------------------------------------------
(* fetchAllServices: the full Get, ... *)
Fetch ==
  /\ phase = "new"
  /\ phase' = "apply"
  /\ todo' = listed \ {Self}
  /\ UNCHANGED <<serverVars, listed, dialing, pick, peerVars>> /\ Quiet

(* ... a set of each server, and its end. *)
SetFetched ==
  /\ phase = "apply" /\ dialing = NoServer
  /\ \E s \in todo : dialing' = s /\ todo' = todo \ {s}
  /\ UNCHANGED <<serverVars, listed, phase, pick, peerVars>> /\ Quiet

FetchEnd ==
  /\ phase = "apply" /\ dialing = NoServer /\ todo = {}
  /\ phase' = "gap"
  /\ UNCHANGED <<serverVars, listed, todo, dialing, pick, peerVars>> /\ Quiet

(* Mutant of Dial: grpc.WithBlock without grpc.WithTimeout.                 *)
DialBlocks ==
  /\ dialing # NoServer
  /\ srv[dialing] \in Accepting
  /\ ring' = [ring EXCEPT ![dialing] = @ + 1]
  /\ clients' = clients \cup {dialing}
  /\ undialled' = undialled \ {dialing}
  /\ dialing' = NoServer
  /\ UNCHANGED <<serverVars, listed, phase, todo, pick>> /\ Quiet

(* Mutant of Dial: a failure ends the loop over the servers.                *)
DialFailsAll ==
  /\ dialing # NoServer
  /\ \/ /\ srv[dialing] \in Accepting
        /\ ring' = [ring EXCEPT ![dialing] = @ + 1]
        /\ clients' = clients \cup {dialing}
        /\ undialled' = undialled \ {dialing}
        /\ UNCHANGED todo
     \/ /\ undialled' = undialled \cup {dialing}
        /\ todo' = {}
        /\ UNCHANGED <<clients, ring>>
  /\ dialing' = NoServer
  /\ UNCHANGED <<serverVars, listed, phase, pick>> /\ Quiet

(* set: NewClient connects within 10 seconds, or the server is left out.    *)
Dial ==
  /\ dialing # NoServer
  /\ \/ /\ srv[dialing] \in Accepting
        /\ ring' = [ring EXCEPT ![dialing] = @ + 1]
        /\ clients' = clients \cup {dialing}
        /\ undialled' = undialled \ {dialing}
     \/ /\ undialled' = undialled \cup {dialing}
        /\ UNCHANGED <<clients, ring>>
  /\ dialing' = NoServer
  /\ UNCHANGED <<serverVars, listed, phase, todo, pick>> /\ Quiet

Watch ==
  /\ phase = "gap"
  /\ phase' = "watching"
  /\ UNCHANGED <<serverVars, listed, todo, dialing, pick, peerVars>> /\ Quiet

(* Mutant of HandleEvent: the test for a client that exists is dropped.     *)
HandleEventAlways ==
  /\ phase \in {"watching", "closed"} /\ dialing = NoServer
  /\ events # <<>>
  /\ dialing' = IF Head(events).op = "put" /\ Head(events).server # Self
                THEN Head(events).server ELSE NoServer
  /\ events' = Tail(events)
  /\ UNCHANGED <<serverVars, listed, phase, todo, pick, peerVars, missed>>

(* handleWatchEvents takes p.mu and sets the servers it has no client for.  *)
(* After Close the select may still choose the watch.                       *)
HandleEvent ==
  /\ phase \in {"watching", "closed"} /\ dialing = NoServer
  /\ events # <<>>
  /\ LET e == Head(events)
     IN  dialing' = IF e.op = "put" /\ e.server \notin clients \cup {Self}
                    THEN e.server ELSE NoServer
  /\ events' = Tail(events)
  /\ UNCHANGED <<serverVars, listed, phase, todo, pick, peerVars, missed>>

(* The watch channel is closed: the loop spins and sees no change any more. *)
WatchBreaks ==
  /\ phase = "watching"
  /\ phase' = "broken"
  /\ events' = <<>>
  /\ UNCHANGED <<serverVars, listed, todo, dialing, pick, peerVars, missed>>

(* Close waits for p.mu and closes the clients; the map keeps them.         *)
Close ==
  /\ phase \in {"gap", "watching", "broken"} /\ dialing = NoServer
  /\ phase' = "closed"
  /\ UNCHANGED <<serverVars, listed, todo, dialing, pick, peerVars>> /\ Quiet

WatchEnds ==
  /\ phase = "closed" /\ dialing = NoServer
  /\ phase' = "gone"
  /\ events' = <<>>
  /\ UNCHANGED <<serverVars, listed, todo, dialing, pick, peerVars, missed>>

PickBegin ==
  /\ phase \notin {"new", "apply"} /\ pick = "idle"
  /\ pick' = "wait"
  /\ UNCHANGED <<serverVars, listed, phase, todo, dialing, peerVars>> /\ Quiet

PickEnd ==
  /\ pick = "wait" /\ dialing = NoServer
  /\ pick' = "idle"
  /\ UNCHANGED <<serverVars, listed, phase, todo, dialing, peerVars>> /\ Quiet

RegisterStep(s) ==
  Put(s) \/ KeepAlive(s) \/ RegisterFails(s) \/ Unregister(s)

Next ==
  \/ \E s \in Servers :
       \/ Start(s) \/ Crash(s) \/ RegisterStep(s) \/ Lapse(s) \/ Expire(s)
       \/ StopTest(s) \/ StopClose(s)
  \/ Fetch \/ SetFetched \/ FetchEnd \/ Dial \/ Watch \/ HandleEvent
  \/ WatchBreaks \/ Close \/ WatchEnds \/ PickBegin \/ PickEnd

(* Register's calls answer or fail, a lease nobody renews runs out, a dial  *)
(* ends, and a reader gets its turn at p.mu.                                *)
Spec ==
  /\ Init /\ [][Next]_vars
  /\ \A s \in Servers : WF_vars(RegisterStep(s)) /\ WF_vars(Expire(s))
                        /\ WF_vars(StopClose(s))
  /\ WF_vars(Dial) /\ SF_vars(PickEnd)

-----------------------------------------------------------------------------
(* The ring and the clients agree whenever p.mu is free: each server with a *)
(* client is on the ring once, no other is, also when a server is fetched   *)
(* and announced, or announced again after a restart                        *)
(* (peers.go:141-144, 169-174, 180-188).                                    *)
RingMatchesClients ==
  /\ TypeOK
  /\ dialing = NoServer =>
       \A s \in Servers : ring[s] = IF s \in clients THEN 1 ELSE 0

(* A picker that has caught up with its watch knows every registered        *)
(* server, but for those put between the Get and the Watch, those whose     *)
(* last dial failed, and itself (peers.go:102-153, 169-187).                *)
NoOtherLoss ==
  phase = "watching" /\ events = <<>> /\ dialing = NoServer =>
    listed \subseteq clients \cup missed \cup undialled \cup {Self}

(* The key of a server that has stopped, crashed or panicked goes, even if  *)
(* it was stopped while it registered or its lease could not be revoked     *)
(* (register.go:44-85, server.go:138-161).                                  *)
StoppedLeaves ==
  \A s \in Servers :
    s \in listed /\ srv[s] # "serving" ~> s \notin listed \/ srv[s] = "serving"

(* PickPeer returns although a server is dialled with p.mu held: the dial   *)
(* is given up after 10 seconds (peers.go:131-143, 198, client.go:37).      *)
PickReturns == pick = "wait" ~> pick = "idle"
=============================================================================
