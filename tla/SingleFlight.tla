---------------------------- MODULE SingleFlight ----------------------------
(***************************************************************************)
(* singleflight/singleflight.go: Group.Do, one action per atomic access to *)
(* the sync.Map g.m or to the WaitGroup of a call.  Do reads the map with  *)
(* Load and writes it with a separate Store, so two goroutines can both    *)
(* miss; the model keeps that window.  A call is a heap object: its name   *)
(* is reused once neither the map nor a goroutine refers to it, which is   *)
(* what the garbage collector does and keeps the state space finite        *)
(* without a counter.                                                      *)
(***************************************************************************)
CONSTANTS
  Goroutines,   \* the callers of Do
  Keys,
  Calls,        \* heap addresses for *call objects
  NoCall,       \* the nil *call, and "no entry" in g.m
  NoKey,
  MayPanic      \* whether fn may panic into a caller that recovers

ASSUME SFAssumption ==
  /\ NoCall \notin Calls
  /\ NoKey \notin Keys
  /\ MayPanic \in BOOLEAN

VARIABLES
  m,         \* g.m: key -> the call in flight
  done,      \* call -> wg.Done has run
  val,       \* call -> what fn returned, "unset" before
  pc,        \* goroutine -> where it is in Do
  arg,       \* goroutine -> the key it called Do with
  cur,       \* goroutine -> its local variable c
  panicked   \* ghost: calls whose fn panicked

sfVars == <<m, done, val, pc, arg, cur, panicked>>

Outcomes == {"value", "error"}

(* Do has stored a call and still has to delete the key. *)
Executing(g) == pc[g] \in {"run", "finish", "delete"}

Unreferenced(c) ==
  /\ \A k \in Keys : m[k] # c
  /\ \A g \in Goroutines : cur[g] # c

TypeOK ==
  /\ m \in [Keys -> Calls \cup {NoCall}]
  /\ done \in [Calls -> BOOLEAN]
  /\ val \in [Calls -> Outcomes \cup {"unset"}]
  /\ pc \in [Goroutines -> {"idle", "wait", "store", "run", "finish", "delete"}]
  /\ arg \in [Goroutines -> Keys \cup {NoKey}]
  /\ cur \in [Goroutines -> Calls \cup {NoCall}]
  /\ panicked \in SUBSET Calls

Init ==
  /\ m = [k \in Keys |-> NoCall]
  /\ done = [c \in Calls |-> FALSE]
  /\ val = [c \in Calls |-> "unset"]
  /\ pc = [g \in Goroutines |-> "idle"]
  /\ arg = [g \in Goroutines |-> NoKey]
  /\ cur = [g \in Goroutines |-> NoCall]
  /\ panicked = {}

-----------------------------------------------------------------------------
(* g.m.Load finds a call: wait for it. *)
Join(g, k) ==
  /\ pc[g] = "idle"
  /\ m[k] # NoCall
  /\ cur' = [cur EXCEPT ![g] = m[k]]
  /\ arg' = [arg EXCEPT ![g] = k]
  /\ pc' = [pc EXCEPT ![g] = "wait"]
  /\ UNCHANGED <<m, done, val, panicked>>

(* g.m.Load finds nothing. *)
Miss(g, k) ==
  /\ pc[g] = "idle"
  /\ m[k] = NoCall
  /\ arg' = [arg EXCEPT ![g] = k]
  /\ pc' = [pc EXCEPT ![g] = "store"]
  /\ UNCHANGED <<m, done, val, cur, panicked>>

(* Mutant of Store: wg.Add(1) is forgotten. *)
StoreWithoutAdd(g) ==
  /\ pc[g] = "store"
  /\ \E c \in Calls :
       /\ Unreferenced(c)
       /\ m' = [m EXCEPT ![arg[g]] = c]
       /\ done' = [done EXCEPT ![c] = TRUE]
       /\ val' = [val EXCEPT ![c] = "unset"]
       /\ cur' = [cur EXCEPT ![g] = c]
       /\ panicked' = panicked \ {c}
  /\ pc' = [pc EXCEPT ![g] = "run"]
  /\ UNCHANGED arg

(* A new call with wg.Add(1), stored under the key whatever is there now. *)
Store(g) ==
  /\ pc[g] = "store"
  /\ \E c \in Calls :
       /\ Unreferenced(c)
       /\ m' = [m EXCEPT ![arg[g]] = c]
       /\ done' = [done EXCEPT ![c] = FALSE]
       /\ val' = [val EXCEPT ![c] = "unset"]
       /\ cur' = [cur EXCEPT ![g] = c]
       /\ panicked' = panicked \ {c}
  /\ pc' = [pc EXCEPT ![g] = "run"]
  /\ UNCHANGED arg

(* Mutant of RunFn: a recovered panic is kept as the result of the call. *)
RunFnRecovers(g) ==
  /\ pc[g] = "run"
  /\ \E r \in Outcomes \cup {"panic"} : val' = [val EXCEPT ![cur[g]] = r]
  /\ pc' = [pc EXCEPT ![g] = "finish"]
  /\ UNCHANGED <<m, done, arg, cur, panicked>>

(* c.val, c.err = fn() *)
RunFn(g) ==
  /\ pc[g] = "run"
  /\ \E r \in Outcomes : val' = [val EXCEPT ![cur[g]] = r]
  /\ pc' = [pc EXCEPT ![g] = "finish"]
  /\ UNCHANGED <<m, done, arg, cur, panicked>>

(* fn panics: nothing is deferred, so neither Done nor Delete runs. *)
FnPanics(g) ==
  /\ MayPanic
  /\ pc[g] = "run"
  /\ panicked' = panicked \cup {cur[g]}
  /\ pc' = [pc EXCEPT ![g] = "idle"]
  /\ arg' = [arg EXCEPT ![g] = NoKey]
  /\ cur' = [cur EXCEPT ![g] = NoCall]
  /\ UNCHANGED <<m, done, val>>

(* Mutant of Finish: an early return skips wg.Done when fn failed. *)
FinishOnlyOnSuccess(g) ==
  /\ pc[g] = "finish"
  /\ done' = [done EXCEPT ![cur[g]] = val[cur[g]] = "value"]
  /\ pc' = [pc EXCEPT ![g] = "delete"]
  /\ UNCHANGED <<m, val, arg, cur, panicked>>

(* c.wg.Done() *)
Finish(g) ==
  /\ pc[g] = "finish"
  /\ done' = [done EXCEPT ![cur[g]] = TRUE]
  /\ pc' = [pc EXCEPT ![g] = "delete"]
  /\ UNCHANGED <<m, val, arg, cur, panicked>>

(* Mutant of Delete: CompareAndDelete by result instead of Delete, so that  *)
(* a failed call is kept under its key.                                     *)
DeleteOnlyOnSuccess(g) ==
  /\ pc[g] = "delete"
  /\ m' = [m EXCEPT ![arg[g]] = IF val[cur[g]] = "value" THEN NoCall ELSE @]
  /\ pc' = [pc EXCEPT ![g] = "idle"]
  /\ arg' = [arg EXCEPT ![g] = NoKey]
  /\ cur' = [cur EXCEPT ![g] = NoCall]
  /\ UNCHANGED <<done, val, panicked>>

(* g.m.Delete(key) and return: whatever call the key maps to now is dropped. *)
Delete(g) ==
  /\ pc[g] = "delete"
  /\ m' = [m EXCEPT ![arg[g]] = NoCall]
  /\ pc' = [pc EXCEPT ![g] = "idle"]
  /\ arg' = [arg EXCEPT ![g] = NoKey]
  /\ cur' = [cur EXCEPT ![g] = NoCall]
  /\ UNCHANGED <<done, val, panicked>>

(* c.wg.Wait() returns, and with it Do: the shared result is reused. *)
Wake(g) ==
  /\ pc[g] = "wait"
  /\ done[cur[g]]
  /\ pc' = [pc EXCEPT ![g] = "idle"]
  /\ arg' = [arg EXCEPT ![g] = NoKey]
  /\ cur' = [cur EXCEPT ![g] = NoCall]
  /\ UNCHANGED <<m, done, val, panicked>>

Progress(g) == Store(g) \/ RunFn(g) \/ Finish(g) \/ Delete(g) \/ Wake(g)

Next ==
  \E g \in Goroutines :
    \/ \E k \in Keys : Join(g, k) \/ Miss(g, k)
    \/ Progress(g)
    \/ FnPanics(g)

Spec == Init /\ [][Next]_sfVars

(* The Go scheduler runs every runnable goroutine, and fn is assumed to   *)
(* return: the peer call inside it has a 3 second timeout (client.go:62). *)
FairSpec == Spec /\ \A g \in Goroutines : WF_sfVars(Progress(g))

-----------------------------------------------------------------------------
(* Every entry of g.m belongs to a goroutine that is still inside Do for   *)
(* that very key and call and will delete it: concurrent executors that    *)
(* overwrite and delete each other's entries never leave one behind        *)
(* (singleflight.go:37, "clean up the key, avoid a memory leak").  Only a  *)
(* panicking fn leaves one.                                                *)
EntryOwned ==
  \A k \in Keys : m[k] # NoCall =>
    \/ m[k] \in panicked
    \/ \E g \in Goroutines : Executing(g) /\ cur[g] = m[k] /\ arg[g] = k

(* A goroutine in wg.Wait waits on a call that is finished or whose        *)
(* executor has yet to finish it, although that call may since have been   *)
(* replaced in or deleted from the map by another executor.                *)
NoOrphanWaiter ==
  \A g \in Goroutines : pc[g] = "wait" =>
    \/ done[cur[g]]
    \/ cur[g] \in panicked
    \/ \E h \in Goroutines : pc[h] \in {"run", "finish"} /\ cur[h] = cur[g]

(* A finished call carries the result of fn: a waiter that reads c.val and *)
(* c.err after Wait never reads the zero value.                            *)
ResultBeforeDone ==
  \A c \in Calls : done[c] => val[c] # "unset"

(* Every caller of Do gets a result, however many share the key             *)
(* (singleflight.go:19, "reuse the result for all callers"), unless it has   *)
(* joined a call whose fn panicked.                                         *)
EveryDoReturns ==
  \A g \in Goroutines :
    pc[g] # "idle" ~> pc[g] = "idle" \/ cur[g] \in panicked

=============================================================================
