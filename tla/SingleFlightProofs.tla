------------------------- MODULE SingleFlightProofs -------------------------
(* Proofs about SingleFlight: see its header for the model. *)
EXTENDS SingleFlight, TLAPS

(* What a goroutine knows of its own call. *)
Local ==
  \A g \in Goroutines :
    /\ pc[g] \in {"idle", "store"} => cur[g] = NoCall
    /\ pc[g] \notin {"idle", "store"} => cur[g] \in Calls
    /\ pc[g] # "idle" => arg[g] \in Keys
    /\ pc[g] \in {"run", "finish"} => ~done[cur[g]]
    /\ pc[g] = "delete" => done[cur[g]]
    /\ pc[g] = "finish" => val[cur[g]] # "unset"

(* A call has one executor. *)
OneExecutor ==
  \A g, h \in Goroutines :
    Executing(g) /\ Executing(h) /\ cur[g] = cur[h] => g = h

(* The inductive invariant. *)
IInv ==
  TypeOK /\ Local /\ OneExecutor /\ EntryOwned /\ NoOrphanWaiter /\ ResultBeforeDone

LEMMA InitIInv == Init => IInv
  BY SFAssumption DEF Init, IInv, TypeOK, Local, OneExecutor, Executing,
     EntryOwned, NoOrphanWaiter, ResultBeforeDone, Outcomes

LEMMA JoinIInv ==
  ASSUME IInv, NEW g \in Goroutines, NEW k \in Keys, Join(g, k)
  PROVE  IInv'
<1> USE SFAssumption DEF IInv, Join
<1>1. TypeOK' BY DEF TypeOK, Outcomes
<1>2. m[k] \in Calls BY DEF TypeOK
<1>3. Local' BY <1>2 DEF TypeOK, Local
<1>4. OneExecutor' BY DEF TypeOK, OneExecutor, Executing
<1>5. EntryOwned' BY DEF TypeOK, EntryOwned, Executing
<1>6. NoOrphanWaiter' BY <1>2 DEF TypeOK, Local, NoOrphanWaiter, EntryOwned, Executing
<1>7. ResultBeforeDone' BY DEF ResultBeforeDone
<1> QED BY <1>1, <1>3, <1>4, <1>5, <1>6, <1>7

LEMMA MissIInv ==
  ASSUME IInv, NEW g \in Goroutines, NEW k \in Keys, Miss(g, k)
  PROVE  IInv'
<1> USE SFAssumption DEF IInv, Miss
<1>1. TypeOK' BY DEF TypeOK, Outcomes
<1>3. Local' BY DEF TypeOK, Local
<1>4. OneExecutor' BY DEF TypeOK, OneExecutor, Executing
<1>5. EntryOwned' BY DEF TypeOK, EntryOwned, Executing
<1>6. NoOrphanWaiter' BY DEF TypeOK, NoOrphanWaiter
<1>7. ResultBeforeDone' BY DEF ResultBeforeDone
<1> QED BY <1>1, <1>3, <1>4, <1>5, <1>6, <1>7

LEMMA StoreIInv ==
  ASSUME IInv, NEW g \in Goroutines, Store(g)
  PROVE  IInv'
<1> USE SFAssumption DEF IInv
<1>1. PICK c \in Calls :
        /\ Unreferenced(c)
        /\ m' = [m EXCEPT ![arg[g]] = c]
        /\ done' = [done EXCEPT ![c] = FALSE]
        /\ val' = [val EXCEPT ![c] = "unset"]
        /\ cur' = [cur EXCEPT ![g] = c]
        /\ panicked' = panicked \ {c}
  BY DEF Store
<1>2. pc[g] = "store" /\ pc' = [pc EXCEPT ![g] = "run"] /\ arg' = arg
  BY DEF Store
<1>3. arg[g] \in Keys BY <1>2 DEF Local
<1>4. \A h \in Goroutines : cur[h] # c BY <1>1 DEF Unreferenced
<1>5. \A k \in Keys : m[k] # c BY <1>1 DEF Unreferenced
<1>11. TypeOK' BY <1>1, <1>2, <1>3 DEF TypeOK, Outcomes
<1>12. Local' BY <1>1, <1>2, <1>3, <1>4 DEF TypeOK, Local
<1>13. OneExecutor' BY <1>1, <1>2, <1>4 DEF TypeOK, OneExecutor, Executing
<1>14. EntryOwned' BY <1>1, <1>2, <1>3, <1>5 DEF TypeOK, EntryOwned, Executing
<1>15. NoOrphanWaiter' BY <1>1, <1>2, <1>4 DEF TypeOK, Local, NoOrphanWaiter
<1>16. ResultBeforeDone' BY <1>1 DEF TypeOK, ResultBeforeDone
<1> QED BY <1>11, <1>12, <1>13, <1>14, <1>15, <1>16

LEMMA RunFnIInv ==
  ASSUME IInv, NEW g \in Goroutines, RunFn(g)
  PROVE  IInv'
<1> USE SFAssumption DEF IInv, RunFn
<1>1. cur[g] \in Calls BY DEF Local
<1>2. TypeOK' BY <1>1 DEF TypeOK, Outcomes
<1>3. Local' BY <1>1 DEF TypeOK, Local, Outcomes
<1>4. OneExecutor' BY DEF TypeOK, OneExecutor, Executing
<1>5. EntryOwned' BY DEF TypeOK, EntryOwned, Executing
<1>6. NoOrphanWaiter' BY DEF TypeOK, NoOrphanWaiter
<1>7. ResultBeforeDone' BY <1>1 DEF TypeOK, ResultBeforeDone, Outcomes
<1> QED BY <1>2, <1>3, <1>4, <1>5, <1>6, <1>7

LEMMA FnPanicsIInv ==
  ASSUME IInv, NEW g \in Goroutines, FnPanics(g)
  PROVE  IInv'
<1> USE SFAssumption DEF IInv, FnPanics
<1>1. cur[g] \in Calls BY DEF Local
<1>2. TypeOK' BY <1>1 DEF TypeOK, Outcomes
<1>3. Local' BY DEF TypeOK, Local
<1>4. OneExecutor' BY DEF TypeOK, OneExecutor, Executing
<1>5. EntryOwned' BY DEF TypeOK, EntryOwned, Executing
<1>6. NoOrphanWaiter' BY DEF TypeOK, NoOrphanWaiter
<1>7. ResultBeforeDone' BY DEF ResultBeforeDone
<1> QED BY <1>2, <1>3, <1>4, <1>5, <1>6, <1>7

LEMMA FinishIInv ==
  ASSUME IInv, NEW g \in Goroutines, Finish(g)
  PROVE  IInv'
<1> USE SFAssumption DEF IInv, Finish
<1>1. cur[g] \in Calls BY DEF Local
<1>2. TypeOK' BY <1>1 DEF TypeOK, Outcomes
<1>3. Local' BY <1>1 DEF TypeOK, Local, OneExecutor, Executing
<1>4. OneExecutor' BY DEF TypeOK, OneExecutor, Executing
<1>5. EntryOwned' BY DEF TypeOK, EntryOwned, Executing
<1>6. NoOrphanWaiter' BY <1>1 DEF TypeOK, Local, NoOrphanWaiter
<1>7. ResultBeforeDone' BY <1>1 DEF TypeOK, Local, ResultBeforeDone
<1> QED BY <1>2, <1>3, <1>4, <1>5, <1>6, <1>7

LEMMA DeleteIInv ==
  ASSUME IInv, NEW g \in Goroutines, Delete(g)
  PROVE  IInv'
<1> USE SFAssumption DEF IInv, Delete
<1>1. arg[g] \in Keys BY DEF Local
<1>2. TypeOK' BY <1>1 DEF TypeOK, Outcomes
<1>3. Local' BY DEF TypeOK, Local
<1>4. OneExecutor' BY DEF TypeOK, OneExecutor, Executing
<1>5. EntryOwned' BY <1>1 DEF TypeOK, EntryOwned, Executing
<1>6. NoOrphanWaiter' BY DEF TypeOK, NoOrphanWaiter
<1>7. ResultBeforeDone' BY DEF ResultBeforeDone
<1> QED BY <1>2, <1>3, <1>4, <1>5, <1>6, <1>7

LEMMA WakeIInv ==
  ASSUME IInv, NEW g \in Goroutines, Wake(g)
  PROVE  IInv'
<1> USE SFAssumption DEF IInv, Wake
<1>2. TypeOK' BY DEF TypeOK, Outcomes
<1>3. Local' BY DEF TypeOK, Local
<1>4. OneExecutor' BY DEF TypeOK, OneExecutor, Executing
<1>5. EntryOwned' BY DEF TypeOK, EntryOwned, Executing
<1>6. NoOrphanWaiter' BY DEF TypeOK, NoOrphanWaiter
<1>7. ResultBeforeDone' BY DEF ResultBeforeDone
<1> QED BY <1>2, <1>3, <1>4, <1>5, <1>6, <1>7

LEMMA StutterIInv == IInv /\ UNCHANGED sfVars => IInv'
  BY DEF IInv, sfVars, TypeOK, Local, OneExecutor, Executing, EntryOwned,
     NoOrphanWaiter, ResultBeforeDone

LEMMA StepIInv == IInv /\ [Next]_sfVars => IInv'
<1> SUFFICES ASSUME IInv, [Next]_sfVars PROVE IInv' OBVIOUS
<1>1. CASE UNCHANGED sfVars BY <1>1, StutterIInv
<1>2. CASE Next
  <2> PICK g \in Goroutines :
        \/ \E k \in Keys : Join(g, k) \/ Miss(g, k)
        \/ Progress(g)
        \/ FnPanics(g)
    BY <1>2 DEF Next
  <2>1. CASE \E k \in Keys : Join(g, k) BY <2>1, JoinIInv
  <2>2. CASE \E k \in Keys : Miss(g, k) BY <2>2, MissIInv
  <2>3. CASE Store(g) BY <2>3, StoreIInv
  <2>4. CASE RunFn(g) BY <2>4, RunFnIInv
  <2>5. CASE Finish(g) BY <2>5, FinishIInv
  <2>6. CASE Delete(g) BY <2>6, DeleteIInv
  <2>7. CASE Wake(g) BY <2>7, WakeIInv
  <2>8. CASE FnPanics(g) BY <2>8, FnPanicsIInv
  <2> QED BY <2>1, <2>2, <2>3, <2>4, <2>5, <2>6, <2>7, <2>8 DEF Progress
<1> QED BY <1>1, <1>2

LEMMA AlwaysIInv == Spec => []IInv
  BY InitIInv, StepIInv, PTL DEF Spec

(* Every variable of the loader keeps its type, for any number of           *)
(* goroutines, keys and calls.                                              *)
THEOREM TypeCorrect == Spec => []TypeOK
<1>1. IInv => TypeOK BY DEF IInv
<1> QED BY <1>1, AlwaysIInv, PTL

(* No entry outlives its executor (singleflight.go:37-38), whatever the     *)
(* number of goroutines that overwrite and delete each other's entries.     *)
THEOREM NoEntryLeft == Spec => []EntryOwned
<1>1. IInv => EntryOwned BY DEF IInv
<1> QED BY <1>1, AlwaysIInv, PTL

(* Nobody waits on a call that nobody will finish (singleflight.go:24, 35). *)
THEOREM NoWaiterLeft == Spec => []NoOrphanWaiter
<1>1. IInv => NoOrphanWaiter BY DEF IInv
<1> QED BY <1>1, AlwaysIInv, PTL

(* A waiter never reads the zero value (singleflight.go:25, 34-35).         *)
THEOREM ResultsAreReal == Spec => []ResultBeforeDone
<1>1. IInv => ResultBeforeDone BY DEF IInv
<1> QED BY <1>1, AlwaysIInv, PTL
=============================================================================
