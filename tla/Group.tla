-------------------------------- MODULE Group --------------------------------
(***************************************************************************)
(* group.go on one node without peers: Get with its load through the       *)
(* single-flight loader, Set, Delete, Clear and Close.  The main cache is  *)
(* a map that may lose an entry at any moment (eviction and expiry, see    *)
(* Lru2); its operations are atomic.  The data source behind the getter is *)
(* external: the application writes it and then calls Set, one update of a *)
(* key at a time.  A value is the number of the write that made it.        *)
(***************************************************************************)
EXTENDS Integers

CONSTANTS
  Goroutines, Keys,
  Calls, NoCall, NoKey,   \* as in SingleFlight
  MaxWrites               \* bound on the writes to the source

ASSUME GroupAssumption ==
  NoCall \notin Calls /\ NoKey \notin Keys /\ MaxWrites \in Nat

VARIABLES
  cached,     \* g.mainCache: key -> version, 0 if there is no entry
  life,       \* "open"; "closing" once closed = 1; "closed" without its cache
  source,     \* what the getter reads: key -> version
  m, done, val, cur,   \* the loader, as in SingleFlight
  pc, arg,
  res,        \* goroutine -> what loader.Do returned to it
  writes,     \* number of writes to the source
  floor,      \* ghost: key -> version current at its last Set or Delete
  overlapped  \* ghost: keys for which a load had read the source before the
              \* last Set or Delete and had not added its result

loaderVars == <<m, done, val, cur>>
appVars == <<source, writes>>
ghosts == <<floor, overlapped>>
vars == <<cached, life, source, m, done, val, cur, pc, arg, res, writes,
          floor, overlapped>>

Unset == 0
Failed == -1
Results == {Failed} \cup 1..(MaxWrites + 1)

Labels == {"idle", "miss", "wait", "store", "run", "finish", "delete", "add", "set"}

TypeOK ==
  /\ cached \in [Keys -> 0..(MaxWrites + 1)]
  /\ life \in {"open", "closing", "closed"}
  /\ source \in [Keys -> 1..(MaxWrites + 1)]
  /\ m \in [Keys -> Calls \cup {NoCall}]
  /\ done \in [Calls -> BOOLEAN]
  /\ val \in [Calls -> Results \cup {Unset}]
  /\ cur \in [Goroutines -> Calls \cup {NoCall}]
  /\ pc \in [Goroutines -> Labels]
  /\ arg \in [Goroutines -> Keys \cup {NoKey}]
  /\ res \in [Goroutines -> Results \cup {Unset}]
  /\ writes \in 0..MaxWrites
  /\ floor \in [Keys -> 0..(MaxWrites + 1)]
  /\ overlapped \subseteq Keys

Init ==
  /\ cached = [k \in Keys |-> 0]
  /\ life = "open"
  /\ source = [k \in Keys |-> 1]
  /\ m = [k \in Keys |-> NoCall]
  /\ done = [c \in Calls |-> FALSE]
  /\ val = [c \in Calls |-> Unset]
  /\ cur = [g \in Goroutines |-> NoCall]
  /\ pc = [g \in Goroutines |-> "idle"]
  /\ arg = [g \in Goroutines |-> NoKey]
  /\ res = [g \in Goroutines |-> Unset]
  /\ writes = 0
  /\ floor = [k \in Keys |-> 0]
  /\ overlapped = {}

Goto(g, from, to) == pc[g] = from /\ pc' = [pc EXCEPT ![g] = to]

(* g holds, or waits for, a result of k that has been read from the source. *)
HasRead(g, k) ==
  /\ arg[g] = k
  /\ \/ pc[g] \in {"finish", "delete", "add"}
     \/ pc[g] = "wait" /\ val[cur[g]] # Unset

Settle(ks) ==
  /\ floor' = [k \in Keys |-> IF k \in ks THEN source[k] ELSE floor[k]]
  /\ overlapped' = (overlapped \ ks) \cup
                   {k \in ks : \E g \in Goroutines : HasRead(g, k)}

-----------------------------------------------------------------------------
(* Get, cache miss; a hit changes nothing. *)
GetMiss(g, k) ==
  /\ life = "open"
  /\ cached[k] = 0
  /\ Goto(g, "idle", "miss")
  /\ arg' = [arg EXCEPT ![g] = k]
  /\ UNCHANGED <<cached, life, loaderVars, res, appVars, ghosts>>

(* loader.Do finds a call under way. *)
Join(g) ==
  /\ Goto(g, "miss", "wait")
  /\ m[arg[g]] # NoCall
  /\ cur' = [cur EXCEPT ![g] = m[arg[g]]]
  /\ UNCHANGED <<cached, life, m, done, val, arg, res, appVars, ghosts>>

Miss(g) ==
  /\ Goto(g, "miss", "store")
  /\ m[arg[g]] = NoCall
  /\ UNCHANGED <<cached, life, loaderVars, arg, res, appVars, ghosts>>

Store(g) ==
  /\ Goto(g, "store", "run")
  /\ \E c \in Calls :
       /\ \A k \in Keys : m[k] # c
       /\ \A h \in Goroutines : cur[h] # c
       /\ m' = [m EXCEPT ![arg[g]] = c]
       /\ done' = [done EXCEPT ![c] = FALSE]
       /\ val' = [val EXCEPT ![c] = Unset]
       /\ cur' = [cur EXCEPT ![g] = c]
  /\ UNCHANGED <<cached, life, arg, res, appVars, ghosts>>

(* loadData: the getter reads the source, or fails. *)
LoadData(g) ==
  /\ Goto(g, "run", "finish")
  /\ \E r \in {source[arg[g]], Failed} : val' = [val EXCEPT ![cur[g]] = r]
  /\ UNCHANGED <<cached, life, m, done, cur, arg, res, appVars, ghosts>>

Finish(g) ==
  /\ Goto(g, "finish", "delete")
  /\ done' = [done EXCEPT ![cur[g]] = TRUE]
  /\ UNCHANGED <<cached, life, m, val, cur, arg, res, appVars, ghosts>>

(* Do returns to load. *)
Return(g) ==
  /\ res' = [res EXCEPT ![g] = val[cur[g]]]
  /\ cur' = [cur EXCEPT ![g] = NoCall]
  /\ UNCHANGED <<cached, life, done, val, arg, appVars, ghosts>>

(* Mutant of Delete: the call is kept in the loader's map.                  *)
DeleteKeepsCall(g) ==
  /\ Goto(g, "delete", "add")
  /\ Return(g)
  /\ UNCHANGED m

Delete(g) ==
  /\ Goto(g, "delete", "add")
  /\ m' = [m EXCEPT ![arg[g]] = NoCall]
  /\ Return(g)

(* Mutant of Wake: the waiter does not wait.                                *)
WakeAtOnce(g) ==
  /\ Goto(g, "wait", "add")
  /\ Return(g)
  /\ UNCHANGED m

Wake(g) ==
  /\ Goto(g, "wait", "add")
  /\ done[cur[g]]
  /\ Return(g)
  /\ UNCHANGED m

(* Every caller, the waiters included, adds the result to the main cache,   *)
(* whatever has been set or deleted there since; an error is only returned, *)
(* and a closed cache refuses the entry.                                    *)
Add(g) ==
  /\ Goto(g, "add", "idle")
  /\ cached' = IF res[g] # Failed /\ life # "closed"
               THEN [cached EXCEPT ![arg[g]] = res[g]] ELSE cached
  /\ arg' = [arg EXCEPT ![g] = NoKey]
  /\ res' = [res EXCEPT ![g] = Unset]
  /\ UNCHANGED <<life, loaderVars, appVars, ghosts>>

-----------------------------------------------------------------------------
(* The application writes the data source, and will Set what it wrote.      *)
WriteSource(g, k) ==
  /\ writes < MaxWrites
  /\ \A h \in Goroutines : ~(pc[h] = "set" /\ arg[h] = k)
  /\ Goto(g, "idle", "set")
  /\ arg' = [arg EXCEPT ![g] = k]
  /\ source' = [source EXCEPT ![k] = writes + 2]
  /\ writes' = writes + 1
  /\ UNCHANGED <<cached, life, loaderVars, res, ghosts>>

(* Group.Set of that version, refused when the group is closed. *)
Set(g) ==
  /\ Goto(g, "set", "idle")
  /\ IF life = "open"
     THEN /\ cached' = [cached EXCEPT ![arg[g]] = source[arg[g]]]
          /\ Settle({arg[g]})
     ELSE UNCHANGED <<cached, ghosts>>
  /\ arg' = [arg EXCEPT ![g] = NoKey]
  /\ UNCHANGED <<life, loaderVars, res, appVars>>

(* Group.Delete *)
DeleteKey(k) ==
  /\ life = "open"
  /\ cached' = [cached EXCEPT ![k] = 0]
  /\ Settle({k})
  /\ UNCHANGED <<life, loaderVars, pc, arg, res, appVars>>

Clear ==
  /\ life = "open"
  /\ cached' = [k \in Keys |-> 0]
  /\ Settle(Keys)
  /\ UNCHANGED <<life, loaderVars, pc, arg, res, appVars>>

(* The store evicts or expires an entry. *)
Lose(k) ==
  /\ cached[k] # 0
  /\ cached' = [cached EXCEPT ![k] = 0]
  /\ UNCHANGED <<life, loaderVars, pc, arg, res, appVars, ghosts>>

(* Close: closed is set first, then the main cache is closed. *)
CloseGroup ==
  /\ life = "open"
  /\ life' = "closing"
  /\ UNCHANGED <<cached, loaderVars, pc, arg, res, appVars, ghosts>>

CloseCache ==
  /\ life = "closing"
  /\ life' = "closed"
  /\ cached' = [k \in Keys |-> 0]
  /\ UNCHANGED <<loaderVars, pc, arg, res, appVars, ghosts>>

Progress(g) ==
  \/ Join(g) \/ Miss(g) \/ Store(g) \/ LoadData(g) \/ Finish(g)
  \/ Delete(g) \/ Wake(g) \/ Add(g) \/ Set(g)

Next ==
  \/ \E g \in Goroutines :
       Progress(g) \/ \E k \in Keys : GetMiss(g, k) \/ WriteSource(g, k)
  \/ \E k \in Keys : DeleteKey(k) \/ Lose(k)
  \/ Clear \/ CloseGroup \/ CloseCache

Spec == Init /\ [][Next]_vars

-----------------------------------------------------------------------------
(* The loader as SingleFlight sees it: Do starts after the cache miss and   *)
(* is over when its result is about to be added.                            *)
Outside == {"idle", "miss", "add", "set"}

SF == INSTANCE SingleFlight WITH
  val <- [c \in Calls |-> IF val[c] = Unset THEN "unset"
                          ELSE IF val[c] = Failed THEN "error" ELSE "value"],
  pc <- [g \in Goroutines |-> IF pc[g] \in Outside THEN "idle" ELSE pc[g]],
  arg <- [g \in Goroutines |-> IF pc[g] \in Outside THEN NoKey ELSE arg[g]],
  panicked <- {},
  MayPanic <- FALSE

(* The loads of a group use the loader as SingleFlight describes it, with   *)
(* the getter as fn (group.go:283-285): what SingleFlight guarantees holds  *)
(* of every Get.                                                            *)
ImplementsSingleFlight == SF!Spec

(* The cache holds a version older than the one current at the last Set or  *)
(* Delete of the key only if some load had read the source before that Set  *)
(* or Delete and added its result after it: neither a joined call that is   *)
(* already over nor one replaced in the loader's map brings old data back   *)
(* later (group.go:279-307, singleflight.go:20-41).                         *)
StaleOnlyByOverlap ==
  /\ TypeOK
  /\ \A k \in Keys : cached[k] # 0 /\ cached[k] < floor[k] => k \in overlapped

=============================================================================
