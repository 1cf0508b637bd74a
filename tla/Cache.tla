-------------------------------- MODULE Cache --------------------------------
(***************************************************************************)
(* cache.go: the lifecycle of the store under a Cache.  The store is       *)
(* created on the first Add, double-checked under c.mu; Get, Delete, Len   *)
(* and Clear check the two atomic flags and then take c.mu; Add uses       *)
(* c.store without a lock; Close flips closed first and tears the store    *)
(* down under c.mu.  One action per access to shared state; what the store *)
(* holds is left to Lru2.  A deferred unlock is part of the last step of   *)
(* its critical section.                                                   *)
(***************************************************************************)
EXTENDS Naturals

CONSTANTS Goroutines, NoOne

ASSUME CacheAssumption == NoOne \notin Goroutines

VARIABLES
  store,        \* c.store: the number of the store instance, 0 for nil
  initialized,  \* atomic flag
  closed,       \* atomic flag
  writer,       \* the goroutine that holds c.mu or waits for readers to leave
  readers,      \* the goroutines that hold or have been granted c.mu.RLock
  pc,
  created,      \* ghost: how many stores NewStore has made
  released      \* ghost: the stores that have been closed

vars == <<store, initialized, closed, writer, readers, pc, created, released>>

Labels == {"idle", "init", "initLock", "initWait", "create", "mark", "set",
           "readCheck", "readLock", "readWait", "read",
           "clearCheck", "clearLock", "clearWait", "clear",
           "closeLock", "closeWait", "close", "drop", "reset", "panic"}

TypeOK ==
  /\ store \in 0..created
  /\ initialized \in BOOLEAN /\ closed \in BOOLEAN
  /\ writer \in Goroutines \cup {NoOne}
  /\ readers \in SUBSET Goroutines
  /\ pc \in [Goroutines -> Labels]
  /\ created \in Nat
  /\ released \subseteq 1..created

(* NewCache *)
Init ==
  /\ store = 0
  /\ initialized = FALSE /\ closed = FALSE
  /\ writer = NoOne /\ readers = {}
  /\ pc = [g \in Goroutines |-> "idle"]
  /\ created = 0
  /\ released = {}

Goto(g, from, to) == pc[g] = from /\ pc' = [pc EXCEPT ![g] = to]

(* Lock of c.mu, first half: one writer at a time, which from here on keeps *)
(* new readers out.                                                         *)
LockAnnounce(g) ==
  /\ writer = NoOne /\ writer' = g
  /\ \/ Goto(g, "initLock", "initWait")
     \/ Goto(g, "clearLock", "clearWait")
     \/ Goto(g, "closeLock", "closeWait")
  /\ UNCHANGED <<store, initialized, closed, readers, created, released>>

(* Second half: the readers that were there before have left.               *)
LockEnter(g) ==
  /\ readers = {}
  /\ \/ Goto(g, "initWait", "create")
     \/ Goto(g, "clearWait", "clear")
     \/ Goto(g, "closeWait", "close")
  /\ UNCHANGED <<store, initialized, closed, writer, readers, created, released>>

(* Unlock grants the read lock to every reader that waits.                  *)
Unlock ==
  /\ writer' = NoOne
  /\ readers' = {h \in Goroutines : pc[h] = "readWait"}

-----------------------------------------------------------------------------
(* Every operation but Close starts with the check of closed.               *)
Begin(g) ==
  /\ ~closed
  /\ \E l \in {"init", "readCheck", "clearCheck"} : Goto(g, "idle", l)
  /\ UNCHANGED <<store, initialized, closed, writer, readers, created, released>>

(* Mutant of EnsureFast: a goroutine that has seen 0 raises the flag at  *)
(* once to keep the others off the lock.                                    *)
EnsureFlagFirst(g) ==
  /\ Goto(g, "init", IF initialized THEN "set" ELSE "initLock")
  /\ initialized' = TRUE
  /\ UNCHANGED <<store, closed, writer, readers, created, released>>

(* ensureInitialized, the check without the lock. *)
EnsureFast(g) ==
  /\ Goto(g, "init", IF initialized THEN "set" ELSE "initLock")
  /\ UNCHANGED <<store, initialized, closed, writer, readers, created, released>>

(* Mutant of AlreadyCreated: returns without the unlock.                    *)
AlreadyCreatedLocked(g) ==
  /\ initialized
  /\ Goto(g, "create", "set")
  /\ UNCHANGED <<store, initialized, closed, writer, readers, created, released>>

(* The second check fails: somebody else has made the store. *)
AlreadyCreated(g) ==
  /\ initialized
  /\ Goto(g, "create", "set")
  /\ Unlock
  /\ UNCHANGED <<store, initialized, closed, created, released>>

(* Mutant of Create: no second check under the lock.                        *)
CreateUnchecked(g) ==
  /\ Goto(g, "create", "mark")
  /\ created' = created + 1
  /\ store' = created + 1
  /\ UNCHANGED <<initialized, closed, writer, readers, released>>

Create(g) ==
  /\ ~initialized
  /\ Goto(g, "create", "mark")
  /\ created' = created + 1
  /\ store' = created + 1
  /\ UNCHANGED <<initialized, closed, writer, readers, released>>

(* Mutant of Mark: the flag is not set once the cache is closed.            *)
MarkUnlessClosed(g) ==
  /\ Goto(g, "mark", "set")
  /\ initialized' = ~closed
  /\ Unlock
  /\ UNCHANGED <<store, closed, created, released>>

Mark(g) ==
  /\ Goto(g, "mark", "set")
  /\ initialized' = TRUE
  /\ Unlock
  /\ UNCHANGED <<store, closed, created, released>>

(* c.store.Set, on whatever c.store is by now: nil is dereferenced.         *)
SetInStore(g) ==
  /\ Goto(g, "set", IF store = 0 THEN "panic" ELSE "idle")
  /\ UNCHANGED <<store, initialized, closed, writer, readers, created, released>>

(* AddWithExpiration of an entry that has expired meanwhile. *)
SkipExpired(g) ==
  /\ Goto(g, "set", "idle")
  /\ UNCHANGED <<store, initialized, closed, writer, readers, created, released>>

-----------------------------------------------------------------------------
(* Get, Delete and Len: the check of initialized, then the read lock.       *)
ReadCheck(g) ==
  /\ Goto(g, "readCheck", IF initialized THEN "readLock" ELSE "idle")
  /\ UNCHANGED <<store, initialized, closed, writer, readers, created, released>>

(* Mutant of ReadLock: the read lock is forgotten.                          *)
ReadWithoutLock(g) ==
  /\ Goto(g, "readLock", "read")
  /\ UNCHANGED <<store, initialized, closed, writer, readers, created, released>>

(* A reader gets in at once if there is no writer, and otherwise waits for  *)
(* the writer's Unlock.                                                     *)
ReadLock(g) ==
  /\ IF writer = NoOne
     THEN Goto(g, "readLock", "read") /\ readers' = readers \cup {g}
     ELSE Goto(g, "readLock", "readWait") /\ UNCHANGED readers
  /\ UNCHANGED <<store, initialized, closed, writer, created, released>>

ReadEnter(g) ==
  /\ Goto(g, "readWait", "read")
  /\ g \in readers
  /\ UNCHANGED <<store, initialized, closed, writer, readers, created, released>>

ReadStore(g) ==
  /\ Goto(g, "read", IF store = 0 THEN "panic" ELSE "idle")
  /\ readers' = readers \ {g}
  /\ UNCHANGED <<store, initialized, closed, writer, created, released>>

ClearCheck(g) ==
  /\ Goto(g, "clearCheck", IF initialized THEN "clearLock" ELSE "idle")
  /\ UNCHANGED <<store, initialized, closed, writer, readers, created, released>>

ClearStore(g) ==
  /\ Goto(g, "clear", IF store = 0 THEN "panic" ELSE "idle")
  /\ Unlock
  /\ UNCHANGED <<store, initialized, closed, created, released>>

-----------------------------------------------------------------------------
(* Close: CompareAndSwap(closed, 0, 1) *)
CloseBegin(g) ==
  /\ ~closed
  /\ Goto(g, "idle", "closeLock")
  /\ closed' = TRUE
  /\ UNCHANGED <<store, initialized, writer, readers, created, released>>

(* Mutant of CloseStore: no check for nil.                                  *)
CloseStoreUnchecked(g) ==
  /\ Goto(g, "close", "drop")
  /\ released' = released \cup {store}
  /\ UNCHANGED <<store, initialized, closed, writer, readers, created>>

CloseStore(g) ==
  /\ Goto(g, "close", IF store = 0 THEN "reset" ELSE "drop")
  /\ released' = released \cup ({store} \ {0})
  /\ UNCHANGED <<store, initialized, closed, writer, readers, created>>

Drop(g) ==
  /\ Goto(g, "drop", "reset")
  /\ store' = 0
  /\ UNCHANGED <<initialized, closed, writer, readers, created, released>>

Reset(g) ==
  /\ Goto(g, "reset", "idle")
  /\ initialized' = FALSE
  /\ Unlock
  /\ UNCHANGED <<store, closed, created, released>>

Progress(g) ==
  \/ LockAnnounce(g) \/ LockEnter(g)
  \/ EnsureFast(g) \/ AlreadyCreated(g)
  \/ Create(g) \/ Mark(g) \/ SetInStore(g) \/ SkipExpired(g)
  \/ ReadCheck(g) \/ ReadLock(g) \/ ReadEnter(g) \/ ReadStore(g)
  \/ ClearCheck(g) \/ ClearStore(g)
  \/ CloseStore(g) \/ Drop(g) \/ Reset(g)

Next == \E g \in Goroutines : Begin(g) \/ CloseBegin(g) \/ Progress(g)

Spec == Init /\ [][Next]_vars

(* Goroutines are scheduled, and the mutex inside sync.RWMutex, which       *)
(* writers queue on, does not starve them.                                  *)
FairSpec == Spec /\ \A g \in Goroutines : SF_vars(Progress(g))

-----------------------------------------------------------------------------
(* The flag is never ahead of the store: whoever reads initialized = 1      *)
(* (cache.go:59, 109, 164) finds a store, but for the moment between the    *)
(* two assignments of Close (cache.go:217-221).                             *)
InitializedMeansStore ==
  initialized => store # 0 \/ \E g \in Goroutines : pc[g] = "reset"

(* No store is lost without having been closed: a store that has been made  *)
(* is the current one or has been released (cache.go:79, 213-217).          *)
OpenIsCurrent == \A s \in 1..created : s \in released \/ s = store

(* An operation under c.mu never works on a closed store: Close waits for   *)
(* the readers and nobody reads what it has closed (cache.go:114, 209-217). *)
NoUseAfterRelease ==
  \A g \in Goroutines : pc[g] \in {"read", "clear"} => store \notin released

(* However the late Adds race Close, at most one store is made after it     *)
(* (cache.go:57-86, 203-221).                                               *)
AtMostOneRevival == created <= 2

(* Until Close is called, however many first Adds race, exactly one store   *)
(* is made (cache.go:55-86).                                                *)
OnceWhileOpen == ~closed => created <= 1

(* Until Close is called nobody meets a nil store, although Add uses        *)
(* c.store without the lock (cache.go:95-97, 118, 171, 183, 199).           *)
NoPanicWhileOpen == ~closed => \A g \in Goroutines : pc[g] # "panic"

(* No operation blocks for good, Close included (c.mu, cache.go:64, 114,    *)
(* 168, 180, 196, 209): each returns or panics.                             *)
OperationsReturn ==
  \A g \in Goroutines : pc[g] # "idle" ~> pc[g] \in {"idle", "panic"}

=============================================================================
