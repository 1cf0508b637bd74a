---------------------------- MODULE GroupRegistry ----------------------------
(***************************************************************************)
(* The global registry of group.go: the map groups under groupsMu, and the *)
(* life of the Group instances in it.  groupsMu is not reentrant.  What a  *)
(* group does between NewGroup and Close is left to Group.                 *)
(***************************************************************************)
EXTENDS Naturals

CONSTANTS
  Goroutines, Names,
  NoOne, NoName,
  MaxGroups     \* bound on the calls of NewGroup

ASSUME RegistryAssumption ==
  /\ NoOne \notin Goroutines /\ NoName \notin Names
  /\ MaxGroups \in Nat

VARIABLES
  groups,    \* name -> instance, 0 if there is none
  nameOf,    \* instance -> its name
  made,      \* number of instances
  closed,    \* instances with closed = 1
  released,  \* instances whose main cache has been closed
  holder,    \* the goroutine that holds groupsMu
  pc,
  target,    \* goroutine -> the instance it closes
  doomed     \* goroutine -> names Destroy has still to go through

vars == <<groups, nameOf, made, closed, released, holder, pc, target, doomed>>
registryVars == <<groups, nameOf, made>>

Instances == 1..MaxGroups

TypeOK ==
  /\ groups \in [Names -> 0..made]
  /\ nameOf \in [Instances -> Names \cup {NoName}]
  /\ made \in 0..MaxGroups
  /\ closed \subseteq 1..made /\ released \subseteq closed
  /\ holder \in Goroutines \cup {NoOne}
  /\ pc \in [Goroutines -> {"idle", "lookup", "release", "unregister", "destroy"}]
  /\ target \in [Goroutines -> 0..made]
  /\ doomed \in [Goroutines -> SUBSET Names]

Init ==
  /\ groups = [n \in Names |-> 0]
  /\ nameOf = [i \in Instances |-> NoName]
  /\ made = 0
  /\ closed = {} /\ released = {}
  /\ holder = NoOne
  /\ pc = [g \in Goroutines |-> "idle"]
  /\ target = [g \in Goroutines |-> 0]
  /\ doomed = [g \in Goroutines |-> {}]

Goto(g, from, to) == pc[g] = from /\ pc' = [pc EXCEPT ![g] = to]

-----------------------------------------------------------------------------
(* NewGroup registers the new instance, in place of an older one of that    *)
(* name, which is not closed.                                               *)
NewGroup(g, n) ==
  /\ pc[g] = "idle" /\ holder = NoOne
  /\ made < MaxGroups
  /\ made' = made + 1
  /\ nameOf' = [nameOf EXCEPT ![made + 1] = n]
  /\ groups' = [groups EXCEPT ![n] = made + 1]
  /\ UNCHANGED <<closed, released, holder, pc, target, doomed>>

(* GetGroup and ListGroups wait for the read lock. *)
LookupBegin(g) ==
  /\ Goto(g, "idle", "lookup")
  /\ UNCHANGED <<registryVars, closed, released, holder, target, doomed>>

LookupEnd(g) ==
  /\ Goto(g, "lookup", "idle")
  /\ holder = NoOne
  /\ UNCHANGED <<registryVars, closed, released, holder, target, doomed>>

(* Group.Close, CompareAndSwap of an instance somebody still points to.     *)
CloseBegin(g, i) ==
  /\ i \in 1..made \ closed
  /\ Goto(g, "idle", "release")
  /\ closed' = closed \cup {i}
  /\ target' = [target EXCEPT ![g] = i]
  /\ UNCHANGED <<registryVars, released, holder, doomed>>

(* g.mainCache.Close() *)
Release(g) ==
  /\ Goto(g, "release", "unregister")
  /\ released' = released \cup {target[g]}
  /\ UNCHANGED <<registryVars, closed, holder, target, doomed>>

(* Mutant of Unregister: it retries until the entry is its own.             *)
UnregisterOwn(g) ==
  /\ Goto(g, "unregister", IF doomed[g] = {} THEN "idle" ELSE "destroy")
  /\ holder = NoOne
  /\ groups[nameOf[target[g]]] = target[g]
  /\ groups' = [groups EXCEPT ![nameOf[target[g]]] = 0]
  /\ target' = [target EXCEPT ![g] = 0]
  /\ UNCHANGED <<nameOf, made, closed, released, holder, doomed>>

(* Mutant of Unregister: the entry is dropped when it is another group's.   *)
UnregisterOther(g) ==
  /\ Goto(g, "unregister", IF doomed[g] = {} THEN "idle" ELSE "destroy")
  /\ holder = NoOne
  /\ groups' = [n \in Names |-> IF n = nameOf[target[g]] /\ groups[n] # target[g]
                                THEN 0 ELSE groups[n]]
  /\ target' = [target EXCEPT ![g] = 0]
  /\ UNCHANGED <<nameOf, made, closed, released, holder, doomed>>

(* The end of Close: delete(groups, g.name) under groupsMu, whichever group *)
(* has that name now.  Under a Destroy the goroutine itself holds groupsMu, *)
(* and waits for it.                                                        *)
Unregister(g) ==
  /\ Goto(g, "unregister", IF doomed[g] = {} THEN "idle" ELSE "destroy")
  /\ holder = NoOne
  /\ groups' = [groups EXCEPT ![nameOf[target[g]]] = 0]
  /\ target' = [target EXCEPT ![g] = 0]
  /\ UNCHANGED <<nameOf, made, closed, released, holder, doomed>>

-----------------------------------------------------------------------------
(* DestroyGroup of a registered name, or DestroyAllGroups: takes groupsMu.  *)
DestroyBegin(g, ns) ==
  /\ Goto(g, "idle", "destroy")
  /\ holder = NoOne
  /\ holder' = g
  /\ doomed' = [doomed EXCEPT ![g] = {n \in ns : groups[n] # 0}]
  /\ UNCHANGED <<registryVars, closed, released, target>>

(* g.Close() on an open group: its CompareAndSwap succeeds.                 *)
DestroyClose(g) ==
  /\ Goto(g, "destroy", "release")
  /\ \E n \in doomed[g] :
       /\ groups[n] \notin closed \cup {0}
       /\ closed' = closed \cup {groups[n]}
       /\ target' = [target EXCEPT ![g] = groups[n]]
  /\ UNCHANGED <<registryVars, released, holder, doomed>>

(* Mutant of DestroyDelete: the group is not closed first.                  *)
DestroyDeleteOpen(g) ==
  /\ pc[g] = "destroy"
  /\ \E n \in doomed[g] :
       /\ groups' = [groups EXCEPT ![n] = 0]
       /\ doomed' = [doomed EXCEPT ![g] = @ \ {n}]
  /\ UNCHANGED <<nameOf, made, closed, released, holder, pc, target>>

(* delete(groups, name), after a Close that had nothing to do.              *)
DestroyDelete(g) ==
  /\ pc[g] = "destroy"
  /\ \E n \in doomed[g] :
       /\ groups[n] \in closed \cup {0}
       /\ groups' = [groups EXCEPT ![n] = 0]
       /\ doomed' = [doomed EXCEPT ![g] = @ \ {n}]
  /\ UNCHANGED <<nameOf, made, closed, released, holder, pc, target>>

DestroyEnd(g) ==
  /\ doomed[g] = {}
  /\ Goto(g, "destroy", "idle")
  /\ holder' = NoOne
  /\ UNCHANGED <<registryVars, closed, released, target, doomed>>

Progress(g) ==
  \/ LookupEnd(g) \/ Release(g) \/ Unregister(g)
  \/ DestroyClose(g) \/ DestroyDelete(g) \/ DestroyEnd(g)

Next ==
  \E g \in Goroutines :
    \/ Progress(g)
    \/ LookupBegin(g)
    \/ \E n \in Names : NewGroup(g, n) \/ DestroyBegin(g, {n})
    \/ \E i \in Instances : CloseBegin(g, i)
    \/ DestroyBegin(g, Names)

Spec == Init /\ [][Next]_vars

(* A blocked Lock is granted in the end: sync.RWMutex does not starve.      *)
FairSpec == Spec /\ \A g \in Goroutines : SF_vars(Progress(g))

-----------------------------------------------------------------------------
(* GetGroup hands out a closed group only while the goroutine that closed   *)
(* it is on its way to remove it (group.go:258-272, 410-433).               *)
ClosedIsLeaving ==
  /\ TypeOK
  /\ \A n \in Names : groups[n] \in closed =>
       \E g \in Goroutines :
         pc[g] \in {"release", "unregister"} /\ target[g] = groups[n]

(* Every operation on the registry returns, unless a Destroy waits for the  *)
(* lock it holds itself: nothing else leaves groupsMu locked                *)
(* (group.go:113, 128, 270-272, 410-433).                                   *)
EveryOperationReturns ==
  \A g \in Goroutines : pc[g] # "idle" ~>
    pc[g] = "idle" \/ \E h \in Goroutines : holder = h /\ pc[h] = "unregister"

(* The newest group of a name stays registered until it is closed itself,   *)
(* or an older one of that name is: Close deletes by name (group.go:271),    *)
(* and nothing else takes an open group out of the map.                     *)
NewestStaysRegistered ==
  \A i \in 1..made \ closed :
    \/ groups[nameOf[i]] = i
    \/ \E j \in 1..made \ {i} :
         nameOf[j] = nameOf[i] /\ (j > i \/ j \in closed)
=============================================================================
