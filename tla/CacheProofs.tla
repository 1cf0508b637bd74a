----------------------------- MODULE CacheProofs -----------------------------
(* Proofs about Cache and about LruStore, a store under it: see their       *)
(* headers for the models, which share no state.                            *)
EXTENDS Cache, LruStore, FiniteSetTheorems, TLAPS

Waits == {"initWait", "clearWait", "closeWait"}
Writing == {"create", "mark", "clear", "close", "drop", "reset"}
Closing == {"closeLock", "closeWait", "close", "drop", "reset"}
AfterCheck == {"set", "readLock", "readWait", "read",
               "clearLock", "clearWait", "clear"}

(* c.mu excludes: a writer is alone, and a reader holds the lock it uses.   *)
Exclusion ==
  \A g \in Goroutines :
    /\ pc[g] \in Waits \cup Writing => writer = g
    /\ pc[g] \in Writing => readers = {}
    /\ pc[g] = "read" => g \in readers

(* The CompareAndSwap of Close lets one goroutine through, once.            *)
OneCloser ==
  /\ ~closed => \A g \in Goroutines : pc[g] \notin Closing
  /\ \A g, h \in Goroutines : pc[g] \in Closing /\ pc[h] \in Closing => g = h

Marking == \E g \in Goroutines : pc[g] = "mark"
Dropping == \E g \in Goroutines : pc[g] = "drop"
CloseDone == closed /\ \A g \in Goroutines : pc[g] \notin Closing

(* The flag, the store and the number of stores at every step of            *)
(* ensureInitialized and Close.                                             *)
StoreState ==
  /\ store # 0 => initialized \/ Marking
  /\ store \in released => Dropping
  /\ \A g \in Goroutines :
       /\ pc[g] = "mark" => store # 0 /\ ~initialized
       /\ pc[g] = "drop" => store \in released
       /\ pc[g] = "reset" => store = 0
  /\ created <= 1 \/ (CloseDone /\ created = 2)
  /\ ~initialized /\ ~Marking => created = 0 \/ (CloseDone /\ created = 1)

(* While the cache is open, whoever has passed a check of the flag can rely *)
(* on it.                                                                   *)
OpenState ==
  ~closed => \A g \in Goroutines :
    /\ pc[g] # "panic"
    /\ pc[g] \in AfterCheck => initialized

IInv ==
  /\ TypeOK /\ Exclusion /\ OneCloser /\ StoreState /\ OpenState
  /\ InitializedMeansStore /\ OpenIsCurrent

LEMMA InitIInv == Init => IInv
<1> SUFFICES ASSUME Init PROVE IInv OBVIOUS
<1> USE CacheAssumption DEF Init
<1>1. TypeOK
  <2>1. store \in 0..created /\ released \subseteq 1..created /\ created \in Nat
    BY SMT
  <2>2. pc \in [Goroutines -> Labels] BY DEF Labels
  <2>3. initialized \in BOOLEAN /\ closed \in BOOLEAN OBVIOUS
  <2> QED BY <2>1, <2>2, <2>3 DEF TypeOK
<1>2. Exclusion BY DEF Exclusion, Waits, Writing
<1>3. OneCloser BY DEF OneCloser, Closing
<1>4. StoreState BY DEF StoreState
<1>5. OpenState BY DEF OpenState, AfterCheck
<1>6. InitializedMeansStore BY DEF InitializedMeansStore
<1>7. OpenIsCurrent BY DEF OpenIsCurrent
<1> QED BY <1>1, <1>2, <1>3, <1>4, <1>5, <1>6, <1>7 DEF IInv

LEMMA BeginIInv == ASSUME IInv, NEW g \in Goroutines, Begin(g) PROVE IInv'
<1> USE CacheAssumption DEF IInv, Begin, Goto
<1>1. TypeOK' BY DEF TypeOK, Labels
<1>2. Exclusion' BY DEF TypeOK, Exclusion, Waits, Writing
<1>3. OneCloser' BY DEF TypeOK, OneCloser, Closing
<1>4. StoreState'
  BY DEF TypeOK, Exclusion, OneCloser, StoreState, Waits, Writing, Closing,
     Marking, Dropping, CloseDone
<1>5. OpenState' BY DEF TypeOK, OneCloser, OpenState, AfterCheck, Closing
<1>6. InitializedMeansStore'
  BY DEF TypeOK, Exclusion, StoreState, InitializedMeansStore, Waits, Writing, Marking
<1>7. OpenIsCurrent' BY DEF TypeOK, StoreState, OpenIsCurrent
<1> QED BY <1>1, <1>2, <1>3, <1>4, <1>5, <1>6, <1>7

LEMMA LockAnnounceIInv == ASSUME IInv, NEW g \in Goroutines, LockAnnounce(g) PROVE IInv'
<1> USE CacheAssumption DEF IInv, LockAnnounce, Goto
<1>1. TypeOK' BY DEF TypeOK, Labels
<1>2. Exclusion' BY DEF TypeOK, Exclusion, Waits, Writing
<1>3. OneCloser' BY DEF TypeOK, OneCloser, Closing
<1>4. StoreState'
  BY DEF TypeOK, Exclusion, OneCloser, StoreState, Waits, Writing, Closing,
     Marking, Dropping, CloseDone
<1>5. OpenState' BY DEF TypeOK, OneCloser, OpenState, AfterCheck, Closing
<1>6. InitializedMeansStore'
  BY DEF TypeOK, Exclusion, StoreState, InitializedMeansStore, Waits, Writing, Marking
<1>7. OpenIsCurrent' BY DEF TypeOK, StoreState, OpenIsCurrent
<1> QED BY <1>1, <1>2, <1>3, <1>4, <1>5, <1>6, <1>7

LEMMA LockEnterIInv == ASSUME IInv, NEW g \in Goroutines, LockEnter(g) PROVE IInv'
<1> USE CacheAssumption DEF IInv, LockEnter, Goto
<1>1. TypeOK' BY DEF TypeOK, Labels
<1>2. Exclusion' BY DEF TypeOK, Exclusion, Waits, Writing
<1>3. OneCloser' BY DEF TypeOK, OneCloser, Closing
<1>4. StoreState'
  BY DEF TypeOK, Exclusion, OneCloser, StoreState, Waits, Writing, Closing,
     Marking, Dropping, CloseDone
<1>5. OpenState' BY DEF TypeOK, OneCloser, OpenState, AfterCheck, Closing
<1>6. InitializedMeansStore'
  BY DEF TypeOK, Exclusion, StoreState, InitializedMeansStore, Waits, Writing, Marking
<1>7. OpenIsCurrent' BY DEF TypeOK, StoreState, OpenIsCurrent
<1> QED BY <1>1, <1>2, <1>3, <1>4, <1>5, <1>6, <1>7

LEMMA EnsureFastIInv == ASSUME IInv, NEW g \in Goroutines, EnsureFast(g) PROVE IInv'
<1> USE CacheAssumption DEF IInv, EnsureFast, Goto
<1>1. TypeOK' BY DEF TypeOK, Labels
<1>2. Exclusion' BY DEF TypeOK, Exclusion, Waits, Writing
<1>3. OneCloser' BY DEF TypeOK, OneCloser, Closing
<1>4. StoreState'
  BY DEF TypeOK, Exclusion, OneCloser, StoreState, Waits, Writing, Closing,
     Marking, Dropping, CloseDone
<1>5. OpenState' BY DEF TypeOK, OneCloser, OpenState, AfterCheck, Closing
<1>6. InitializedMeansStore'
  BY DEF TypeOK, Exclusion, StoreState, InitializedMeansStore, Waits, Writing, Marking
<1>7. OpenIsCurrent' BY DEF TypeOK, StoreState, OpenIsCurrent
<1> QED BY <1>1, <1>2, <1>3, <1>4, <1>5, <1>6, <1>7

LEMMA AlreadyCreatedIInv == ASSUME IInv, NEW g \in Goroutines, AlreadyCreated(g) PROVE IInv'
<1> USE CacheAssumption DEF IInv, AlreadyCreated, Goto, Unlock
<1>1. TypeOK' BY DEF TypeOK, Labels
<1>2. Exclusion' BY DEF TypeOK, Exclusion, Waits, Writing
<1>3. OneCloser' BY DEF TypeOK, OneCloser, Closing
<1>4. StoreState'
  BY DEF TypeOK, Exclusion, OneCloser, StoreState, Waits, Writing, Closing,
     Marking, Dropping, CloseDone
<1>5. OpenState' BY DEF TypeOK, OneCloser, OpenState, AfterCheck, Closing
<1>6. InitializedMeansStore'
  BY DEF TypeOK, Exclusion, StoreState, InitializedMeansStore, Waits, Writing, Marking
<1>7. OpenIsCurrent' BY DEF TypeOK, StoreState, OpenIsCurrent
<1> QED BY <1>1, <1>2, <1>3, <1>4, <1>5, <1>6, <1>7

LEMMA CreateIInv == ASSUME IInv, NEW g \in Goroutines, Create(g) PROVE IInv'
<1> USE CacheAssumption DEF IInv, Create, Goto
<1>1. TypeOK' BY DEF TypeOK, Labels
<1>2. Exclusion' BY DEF TypeOK, Exclusion, Waits, Writing
<1>3. OneCloser' BY DEF TypeOK, OneCloser, Closing
<1>4. StoreState'
  BY DEF TypeOK, Exclusion, OneCloser, StoreState, Waits, Writing, Closing,
     Marking, Dropping, CloseDone
<1>5. OpenState' BY DEF TypeOK, OneCloser, OpenState, AfterCheck, Closing
<1>6. InitializedMeansStore'
  BY DEF TypeOK, Exclusion, StoreState, InitializedMeansStore, Waits, Writing, Marking
<1>7. OpenIsCurrent'
  <2>1. ~Marking BY DEF Exclusion, Writing, Marking
  <2>2. store = 0 BY <2>1 DEF StoreState
  <2> QED BY <2>2 DEF TypeOK, OpenIsCurrent
<1> QED BY <1>1, <1>2, <1>3, <1>4, <1>5, <1>6, <1>7

LEMMA MarkIInv == ASSUME IInv, NEW g \in Goroutines, Mark(g) PROVE IInv'
<1> USE CacheAssumption DEF IInv, Mark, Goto, Unlock
<1>1. TypeOK' BY DEF TypeOK, Labels
<1>2. Exclusion' BY DEF TypeOK, Exclusion, Waits, Writing
<1>3. OneCloser' BY DEF TypeOK, OneCloser, Closing
<1>4. StoreState'
  BY DEF TypeOK, Exclusion, OneCloser, StoreState, Waits, Writing, Closing,
     Marking, Dropping, CloseDone
<1>5. OpenState' BY DEF TypeOK, OneCloser, OpenState, AfterCheck, Closing
<1>6. InitializedMeansStore'
  BY DEF TypeOK, Exclusion, StoreState, InitializedMeansStore, Waits, Writing, Marking
<1>7. OpenIsCurrent' BY DEF TypeOK, StoreState, OpenIsCurrent
<1> QED BY <1>1, <1>2, <1>3, <1>4, <1>5, <1>6, <1>7

LEMMA SetInStoreIInv == ASSUME IInv, NEW g \in Goroutines, SetInStore(g) PROVE IInv'
<1> USE CacheAssumption DEF IInv, SetInStore, Goto
<1>1. TypeOK' BY DEF TypeOK, Labels
<1>2. Exclusion' BY DEF TypeOK, Exclusion, Waits, Writing
<1>3. OneCloser' BY DEF TypeOK, OneCloser, Closing
<1>4. StoreState'
  BY DEF TypeOK, Exclusion, OneCloser, StoreState, Waits, Writing, Closing,
     Marking, Dropping, CloseDone
<1>5. OpenState'
  BY DEF TypeOK, OneCloser, OpenState, AfterCheck, Closing, InitializedMeansStore
<1>6. InitializedMeansStore'
  BY DEF TypeOK, Exclusion, StoreState, InitializedMeansStore, Waits, Writing, Marking
<1>7. OpenIsCurrent' BY DEF TypeOK, StoreState, OpenIsCurrent
<1> QED BY <1>1, <1>2, <1>3, <1>4, <1>5, <1>6, <1>7

LEMMA SkipExpiredIInv == ASSUME IInv, NEW g \in Goroutines, SkipExpired(g) PROVE IInv'
<1> USE CacheAssumption DEF IInv, SkipExpired, Goto
<1>1. TypeOK' BY DEF TypeOK, Labels
<1>2. Exclusion' BY DEF TypeOK, Exclusion, Waits, Writing
<1>3. OneCloser' BY DEF TypeOK, OneCloser, Closing
<1>4. StoreState'
  BY DEF TypeOK, Exclusion, OneCloser, StoreState, Waits, Writing, Closing,
     Marking, Dropping, CloseDone
<1>5. OpenState' BY DEF TypeOK, OneCloser, OpenState, AfterCheck, Closing
<1>6. InitializedMeansStore'
  BY DEF TypeOK, Exclusion, StoreState, InitializedMeansStore, Waits, Writing, Marking
<1>7. OpenIsCurrent' BY DEF TypeOK, StoreState, OpenIsCurrent
<1> QED BY <1>1, <1>2, <1>3, <1>4, <1>5, <1>6, <1>7

LEMMA ReadCheckIInv == ASSUME IInv, NEW g \in Goroutines, ReadCheck(g) PROVE IInv'
<1> USE CacheAssumption DEF IInv, ReadCheck, Goto
<1>1. TypeOK' BY DEF TypeOK, Labels
<1>2. Exclusion' BY DEF TypeOK, Exclusion, Waits, Writing
<1>3. OneCloser' BY DEF TypeOK, OneCloser, Closing
<1>4. StoreState'
  BY DEF TypeOK, Exclusion, OneCloser, StoreState, Waits, Writing, Closing,
     Marking, Dropping, CloseDone
<1>5. OpenState' BY DEF TypeOK, OneCloser, OpenState, AfterCheck, Closing
<1>6. InitializedMeansStore'
  BY DEF TypeOK, Exclusion, StoreState, InitializedMeansStore, Waits, Writing, Marking
<1>7. OpenIsCurrent' BY DEF TypeOK, StoreState, OpenIsCurrent
<1> QED BY <1>1, <1>2, <1>3, <1>4, <1>5, <1>6, <1>7

LEMMA ReadLockIInv == ASSUME IInv, NEW g \in Goroutines, ReadLock(g) PROVE IInv'
<1> USE CacheAssumption DEF IInv, ReadLock, Goto
<1>1. TypeOK' BY DEF TypeOK, Labels
<1>2. Exclusion' BY DEF TypeOK, Exclusion, Waits, Writing
<1>3. OneCloser' BY DEF TypeOK, OneCloser, Closing
<1>4. StoreState'
  BY DEF TypeOK, Exclusion, OneCloser, StoreState, Waits, Writing, Closing,
     Marking, Dropping, CloseDone
<1>5. OpenState' BY DEF TypeOK, OneCloser, OpenState, AfterCheck, Closing
<1>6. InitializedMeansStore'
  BY DEF TypeOK, Exclusion, StoreState, InitializedMeansStore, Waits, Writing, Marking
<1>7. OpenIsCurrent' BY DEF TypeOK, StoreState, OpenIsCurrent
<1> QED BY <1>1, <1>2, <1>3, <1>4, <1>5, <1>6, <1>7

LEMMA ReadEnterIInv == ASSUME IInv, NEW g \in Goroutines, ReadEnter(g) PROVE IInv'
<1> USE CacheAssumption DEF IInv, ReadEnter, Goto
<1>1. TypeOK' BY DEF TypeOK, Labels
<1>2. Exclusion' BY DEF TypeOK, Exclusion, Waits, Writing
<1>3. OneCloser' BY DEF TypeOK, OneCloser, Closing
<1>4. StoreState'
  BY DEF TypeOK, Exclusion, OneCloser, StoreState, Waits, Writing, Closing,
     Marking, Dropping, CloseDone
<1>5. OpenState' BY DEF TypeOK, OneCloser, OpenState, AfterCheck, Closing
<1>6. InitializedMeansStore'
  BY DEF TypeOK, Exclusion, StoreState, InitializedMeansStore, Waits, Writing, Marking
<1>7. OpenIsCurrent' BY DEF TypeOK, StoreState, OpenIsCurrent
<1> QED BY <1>1, <1>2, <1>3, <1>4, <1>5, <1>6, <1>7

LEMMA ReadStoreIInv == ASSUME IInv, NEW g \in Goroutines, ReadStore(g) PROVE IInv'
<1> USE CacheAssumption DEF IInv, ReadStore, Goto
<1>1. TypeOK' BY DEF TypeOK, Labels
<1>2. Exclusion' BY DEF TypeOK, Exclusion, Waits, Writing
<1>3. OneCloser' BY DEF TypeOK, OneCloser, Closing
<1>4. StoreState'
  BY DEF TypeOK, Exclusion, OneCloser, StoreState, Waits, Writing, Closing,
     Marking, Dropping, CloseDone
<1>5. OpenState'
  BY DEF TypeOK, OneCloser, OpenState, AfterCheck, Closing, InitializedMeansStore
<1>6. InitializedMeansStore'
  BY DEF TypeOK, Exclusion, StoreState, InitializedMeansStore, Waits, Writing, Marking
<1>7. OpenIsCurrent' BY DEF TypeOK, StoreState, OpenIsCurrent
<1> QED BY <1>1, <1>2, <1>3, <1>4, <1>5, <1>6, <1>7

LEMMA ClearCheckIInv == ASSUME IInv, NEW g \in Goroutines, ClearCheck(g) PROVE IInv'
<1> USE CacheAssumption DEF IInv, ClearCheck, Goto
<1>1. TypeOK' BY DEF TypeOK, Labels
<1>2. Exclusion' BY DEF TypeOK, Exclusion, Waits, Writing
<1>3. OneCloser' BY DEF TypeOK, OneCloser, Closing
<1>4. StoreState'
  BY DEF TypeOK, Exclusion, OneCloser, StoreState, Waits, Writing, Closing,
     Marking, Dropping, CloseDone
<1>5. OpenState' BY DEF TypeOK, OneCloser, OpenState, AfterCheck, Closing
<1>6. InitializedMeansStore'
  BY DEF TypeOK, Exclusion, StoreState, InitializedMeansStore, Waits, Writing, Marking
<1>7. OpenIsCurrent' BY DEF TypeOK, StoreState, OpenIsCurrent
<1> QED BY <1>1, <1>2, <1>3, <1>4, <1>5, <1>6, <1>7

LEMMA ClearStoreIInv == ASSUME IInv, NEW g \in Goroutines, ClearStore(g) PROVE IInv'
<1> USE CacheAssumption DEF IInv, ClearStore, Goto, Unlock
<1>1. TypeOK' BY DEF TypeOK, Labels
<1>2. Exclusion' BY DEF TypeOK, Exclusion, Waits, Writing
<1>3. OneCloser' BY DEF TypeOK, OneCloser, Closing
<1>4. StoreState'
  BY DEF TypeOK, Exclusion, OneCloser, StoreState, Waits, Writing, Closing,
     Marking, Dropping, CloseDone
<1>5. OpenState'
  BY DEF TypeOK, OneCloser, OpenState, AfterCheck, Closing, InitializedMeansStore
<1>6. InitializedMeansStore'
  BY DEF TypeOK, Exclusion, StoreState, InitializedMeansStore, Waits, Writing, Marking
<1>7. OpenIsCurrent' BY DEF TypeOK, StoreState, OpenIsCurrent
<1> QED BY <1>1, <1>2, <1>3, <1>4, <1>5, <1>6, <1>7

LEMMA CloseBeginIInv == ASSUME IInv, NEW g \in Goroutines, CloseBegin(g) PROVE IInv'
<1> USE CacheAssumption DEF IInv, CloseBegin, Goto
<1>1. TypeOK' BY DEF TypeOK, Labels
<1>2. Exclusion' BY DEF TypeOK, Exclusion, Waits, Writing
<1>3. OneCloser' BY DEF TypeOK, OneCloser, Closing
<1>4. StoreState'
  BY DEF TypeOK, Exclusion, OneCloser, StoreState, Waits, Writing, Closing,
     Marking, Dropping, CloseDone
<1>5. OpenState' BY DEF TypeOK, OneCloser, OpenState, AfterCheck, Closing
<1>6. InitializedMeansStore'
  BY DEF TypeOK, Exclusion, StoreState, InitializedMeansStore, Waits, Writing, Marking
<1>7. OpenIsCurrent' BY DEF TypeOK, StoreState, OpenIsCurrent
<1> QED BY <1>1, <1>2, <1>3, <1>4, <1>5, <1>6, <1>7

LEMMA CloseStoreIInv == ASSUME IInv, NEW g \in Goroutines, CloseStore(g) PROVE IInv'
<1> USE CacheAssumption DEF IInv, CloseStore, Goto
<1>1. TypeOK' BY DEF TypeOK, Labels
<1>2. Exclusion' BY DEF TypeOK, Exclusion, Waits, Writing
<1>3. OneCloser' BY DEF TypeOK, OneCloser, Closing
<1>4. StoreState'
  BY DEF TypeOK, Exclusion, OneCloser, StoreState, Waits, Writing, Closing,
     Marking, Dropping, CloseDone
<1>5. OpenState' BY DEF TypeOK, OneCloser, OpenState, AfterCheck, Closing
<1>6. InitializedMeansStore'
  BY DEF TypeOK, Exclusion, StoreState, InitializedMeansStore, Waits, Writing, Marking
<1>7. OpenIsCurrent' BY DEF TypeOK, StoreState, OpenIsCurrent
<1> QED BY <1>1, <1>2, <1>3, <1>4, <1>5, <1>6, <1>7

LEMMA DropIInv == ASSUME IInv, NEW g \in Goroutines, Drop(g) PROVE IInv'
<1> USE CacheAssumption DEF IInv, Drop, Goto
<1>1. TypeOK' BY DEF TypeOK, Labels
<1>2. Exclusion' BY DEF TypeOK, Exclusion, Waits, Writing
<1>3. OneCloser' BY DEF TypeOK, OneCloser, Closing
<1>4. StoreState'
  BY DEF TypeOK, Exclusion, OneCloser, StoreState, Waits, Writing, Closing,
     Marking, Dropping, CloseDone
<1>5. OpenState' BY DEF TypeOK, OneCloser, OpenState, AfterCheck, Closing
<1>6. InitializedMeansStore'
  BY DEF TypeOK, Exclusion, StoreState, InitializedMeansStore, Waits, Writing, Marking
<1>7. OpenIsCurrent' BY DEF TypeOK, StoreState, OpenIsCurrent
<1> QED BY <1>1, <1>2, <1>3, <1>4, <1>5, <1>6, <1>7

LEMMA ResetIInv == ASSUME IInv, NEW g \in Goroutines, Reset(g) PROVE IInv'
<1> USE CacheAssumption DEF IInv, Reset, Goto, Unlock
<1>1. TypeOK' BY DEF TypeOK, Labels
<1>2. Exclusion' BY DEF TypeOK, Exclusion, Waits, Writing
<1>3. OneCloser' BY DEF TypeOK, OneCloser, Closing
<1>4. StoreState'
  BY DEF TypeOK, Exclusion, OneCloser, StoreState, Waits, Writing, Closing,
     Marking, Dropping, CloseDone
<1>5. OpenState' BY DEF TypeOK, OneCloser, OpenState, AfterCheck, Closing
<1>6. InitializedMeansStore'
  BY DEF TypeOK, Exclusion, StoreState, InitializedMeansStore, Waits, Writing, Marking
<1>7. OpenIsCurrent' BY DEF TypeOK, StoreState, OpenIsCurrent
<1> QED BY <1>1, <1>2, <1>3, <1>4, <1>5, <1>6, <1>7

LEMMA StutterIInv == IInv /\ UNCHANGED vars => IInv'
  BY DEF IInv, vars, TypeOK, Exclusion, OneCloser, StoreState, OpenState,
     InitializedMeansStore, OpenIsCurrent, Waits, Writing, Closing, AfterCheck,
     Marking, Dropping, CloseDone

LEMMA StepIInv == IInv /\ [Next]_vars => IInv'
<1> SUFFICES ASSUME IInv, [Next]_vars PROVE IInv' OBVIOUS
<1>1. CASE UNCHANGED vars BY <1>1, StutterIInv
<1>2. CASE Next
  <2> PICK g \in Goroutines : Begin(g) \/ CloseBegin(g) \/ Progress(g)
    BY <1>2 DEF Next
  <2>1. CASE Begin(g) BY <2>1, BeginIInv
  <2>2. CASE LockAnnounce(g) BY <2>2, LockAnnounceIInv
  <2>3. CASE LockEnter(g) BY <2>3, LockEnterIInv
  <2>4. CASE EnsureFast(g) BY <2>4, EnsureFastIInv
  <2>5. CASE AlreadyCreated(g) BY <2>5, AlreadyCreatedIInv
  <2>6. CASE Create(g) BY <2>6, CreateIInv
  <2>7. CASE Mark(g) BY <2>7, MarkIInv
  <2>8. CASE SetInStore(g) BY <2>8, SetInStoreIInv
  <2>9. CASE SkipExpired(g) BY <2>9, SkipExpiredIInv
  <2>10. CASE ReadCheck(g) BY <2>10, ReadCheckIInv
  <2>11. CASE ReadLock(g) BY <2>11, ReadLockIInv
  <2>12. CASE ReadEnter(g) BY <2>12, ReadEnterIInv
  <2>13. CASE ReadStore(g) BY <2>13, ReadStoreIInv
  <2>14. CASE ClearCheck(g) BY <2>14, ClearCheckIInv
  <2>15. CASE ClearStore(g) BY <2>15, ClearStoreIInv
  <2>16. CASE CloseBegin(g) BY <2>16, CloseBeginIInv
  <2>17. CASE CloseStore(g) BY <2>17, CloseStoreIInv
  <2>18. CASE Drop(g) BY <2>18, DropIInv
  <2>19. CASE Reset(g) BY <2>19, ResetIInv
  <2> QED BY <2>1, <2>2, <2>3, <2>4, <2>5, <2>6, <2>7, <2>8, <2>9, <2>10,
    <2>11, <2>12, <2>13, <2>14, <2>15, <2>16, <2>17, <2>18, <2>19 DEF
    Progress
<1> QED BY <1>1, <1>2

LEMMA AlwaysIInv == Spec => []IInv
  BY InitIInv, StepIInv, PTL DEF Spec

(* Every variable of the cache keeps its type; in particular the store is   *)
(* one that has been made, and only stores that have been made are closed.  *)
THEOREM TypeCorrect == Spec => []TypeOK
<1>1. IInv => TypeOK BY DEF IInv
<1> QED BY <1>1, AlwaysIInv, PTL

(* For any number of goroutines: until Close is called, the racing first    *)
(* Adds make one store (cache.go:55-86).                                    *)
THEOREM StoreOnceWhileOpen == Spec => []OnceWhileOpen
<1>1. IInv => OnceWhileOpen
  BY DEF IInv, TypeOK, StoreState, CloseDone, OnceWhileOpen
<1> QED BY <1>1, AlwaysIInv, PTL

(* Until Close is called, no operation meets a nil store.                   *)
THEOREM NoNilWhileOpen == Spec => []NoPanicWhileOpen
<1>1. IInv => NoPanicWhileOpen BY DEF IInv, OpenState, NoPanicWhileOpen
<1> QED BY <1>1, AlwaysIInv, PTL

(* The late Adds of any number of goroutines make at most one store after   *)
(* Close.                                                                   *)
THEOREM OneRevival == Spec => []AtMostOneRevival
<1>1. IInv => AtMostOneRevival
  BY DEF IInv, TypeOK, StoreState, AtMostOneRevival
<1> QED BY <1>1, AlwaysIInv, PTL

(* initialized = 1 means that there is a store.                             *)
THEOREM FlagMeansStore == Spec => []InitializedMeansStore
<1>1. IInv => InitializedMeansStore BY DEF IInv
<1> QED BY <1>1, AlwaysIInv, PTL

(* No store is dropped without being closed.                                *)
THEOREM NoStoreLost == Spec => []OpenIsCurrent
<1>1. IInv => OpenIsCurrent BY DEF IInv
<1> QED BY <1>1, AlwaysIInv, PTL

(* No operation under c.mu works on a closed store.                         *)
THEOREM LockedUseIsSafe == Spec => []NoUseAfterRelease
<1>1. IInv => NoUseAfterRelease
  <2> SUFFICES ASSUME IInv, NEW g \in Goroutines, pc[g] \in {"read", "clear"},
                      store \in released
               PROVE  FALSE
    BY DEF NoUseAfterRelease
  <2>1. PICK h \in Goroutines : pc[h] = "drop" BY DEF IInv, StoreState, Dropping
  <2> QED BY <2>1 DEF IInv, Exclusion, Writing, Waits
<1> QED BY <1>1, AlwaysIInv, PTL

-----------------------------------------------------------------------------
(* The list of LruStore: a sequence s of the elements of S, each once.      *)
Enumerates(s, S) ==
  /\ s \in Seq(S)
  /\ \A i, j \in 1..Len(s) : s[i] = s[j] => i = j
  /\ \A e \in S : \E i \in 1..Len(s) : s[i] = e

LEMMA EnumeratedSet ==
  ASSUME NEW s, NEW S, Enumerates(s, S)
  PROVE  /\ ToSet(s) = S /\ IsFiniteSet(S) /\ Cardinality(S) = Len(s) /\ Len(s) \in Nat
         /\ DOMAIN s = 1..Len(s) /\ \A i \in 1..Len(s) : s[i] \in S
<1>1. /\ s \in Seq(S) /\ DOMAIN s = 1..Len(s) /\ Len(s) \in Nat
      /\ \A i \in 1..Len(s) : s[i] \in S
  BY DEF Enumerates
<1>2. ToSet(s) = S BY <1>1 DEF ToSet, Enumerates
<1>3. s \in Bijection(1..Len(s), S)
  <2>1. s \in [1..Len(s) -> S] BY <1>1
  <2> QED BY <2>1 DEF Enumerates, Bijection, Injection, Surjection, IsInjective
<1>4. ExistsBijection(1..Len(s), S) BY <1>3 DEF ExistsBijection
<1>5. IsFiniteSet(S) /\ Cardinality(S) = Len(s)
  BY <1>1, <1>4, FS_NatBijection, FS_CountingElements
<1> QED BY <1>1, <1>2, <1>5

(* The ranks of the places that are kept number them from 1 on.             *)
LEMMA RanksNumber ==
  ASSUME NEW K, IsFiniteSet(K), K \in SUBSET Nat
  PROVE  LET rank(i) == Cardinality({x \in K : x <= i})
         IN  /\ \A i \in K : rank(i) \in 1..Cardinality(K)
             /\ \A i, j \in K : rank(i) = rank(j) => i = j
             /\ \A n \in 1..Cardinality(K) : \E i \in K : rank(i) = n
<1> DEFINE upto(i) == {x \in K : x <= i}
           rank == [i \in K |-> Cardinality(upto(i))]
           n == Cardinality(K)
<1>1. n \in Nat BY FS_CardinalityType
<1>2. ASSUME NEW i \in K PROVE rank[i] \in 1..n /\ IsFiniteSet(upto(i))
  <2>1. upto(i) \in SUBSET K /\ i \in upto(i) OBVIOUS
  <2>2. IsFiniteSet(upto(i)) /\ Cardinality(upto(i)) <= n BY <2>1, FS_Subset
  <2>3. Cardinality(upto(i)) \in Nat BY <2>2, FS_CardinalityType
  <2>4. Cardinality(upto(i)) # 0 BY <2>1, <2>2, FS_EmptySet
  <2> QED BY <1>1, <2>2, <2>3, <2>4
<1>3. ASSUME NEW i \in K, NEW j \in K, i < j PROVE rank[i] # rank[j]
  <2>0. i \in Nat /\ j \in Nat /\ \A x \in K : x \in Nat OBVIOUS
  <2>1. upto(i) \in SUBSET upto(j)
    <3>1. \A x \in K : x <= i => x <= j BY <1>3, <2>0
    <3> QED BY <3>1
  <2>3. j \in upto(j) /\ j \notin upto(i) BY <1>3, <2>0
  <2>2. Cardinality(upto(j)) = Cardinality(upto(i)) => upto(j) = upto(i)
    BY <1>2, <2>1, FS_Subset
  <2> QED BY <2>1, <2>2, <2>3
<1>4. \A i, j \in K : rank[i] = rank[j] => i = j
  <2> SUFFICES ASSUME NEW i \in K, NEW j \in K, rank[i] = rank[j], i # j PROVE FALSE
    OBVIOUS
  <2>1. i < j \/ j < i OBVIOUS
  <2> QED BY <1>3, <2>1
<1>5. rank \in Surjection(K, 1..n)
  <2>1. rank \in Injection(K, 1..n) BY <1>2, <1>4 DEF Injection, IsInjective
  <2>2. IsFiniteSet(1..n) /\ Cardinality(1..n) = n
    <3>1. 1 \in Int /\ n \in Int BY <1>1
    <3>2. IsFiniteSet(1..n) /\ Cardinality(1..n) = IF 1 > n THEN 0 ELSE n - 1 + 1
      BY <3>1, FS_Interval
    <3> HIDE DEF n
    <3> QED BY <1>1, <3>2
  <2> QED BY <2>1, <2>2, FS_Injection
<1>6. \A m \in 1..n : \E i \in K : rank[i] = m BY <1>5 DEF Surjection
<1> QED BY <1>2, <1>4, <1>6

LEMMA WithoutEnumerates ==
  ASSUME NEW s, NEW S, Enumerates(s, S), NEW gone
  PROVE  Enumerates(Without(s, gone), S \ gone)
<1> DEFINE K == {i \in DOMAIN s : s[i] \notin gone}
           rank(i) == Cardinality({x \in K : x <= i})
           at(j) == CHOOSE i \in K : rank(i) = j
           n == Cardinality(K)
           t == Without(s, gone)
<1>1. DOMAIN s = 1..Len(s) /\ Len(s) \in Nat /\ \A i \in 1..Len(s) : s[i] \in S
  BY EnumeratedSet
<1>2. IsFiniteSet(K) /\ K \in SUBSET Nat
  <2>1. 1 \in Int /\ Len(s) \in Int BY <1>1
  <2>2. IsFiniteSet(1..Len(s)) BY <2>1, FS_Interval
  <2>3. K \in SUBSET (1..Len(s)) BY <1>1
  <2> QED BY <1>1, <2>2, <2>3, FS_Subset
<1>3. n \in Nat BY <1>2, FS_CardinalityType
<1>4. /\ \A i \in K : rank(i) \in 1..n
      /\ \A i, j \in K : rank(i) = rank(j) => i = j
      /\ \A j \in 1..n : \E i \in K : rank(i) = j
  BY <1>2, RanksNumber
<1>5. t = [j \in 1..n |-> s[at(j)]] BY DEF Without
<1> HIDE DEF n, t, rank
<1>6. \A j \in 1..n : at(j) \in K /\ rank(at(j)) = j BY <1>4
<1> HIDE DEF at
<1>7. \A i \in K : i \in 1..Len(s) /\ s[i] \in S \ gone BY <1>1
<1>8. t \in [1..n -> S \ gone] BY <1>5, <1>6, <1>7
<1>9. t \in Seq(S \ gone) /\ Len(t) = n BY <1>3, <1>8
<1>10. ASSUME NEW i \in 1..n, NEW j \in 1..n, t[i] = t[j] PROVE i = j
  <2>1. s[at(i)] = s[at(j)] BY <1>5, <1>10
  <2>2. at(i) = at(j) BY <1>6, <1>7, <2>1 DEF Enumerates
  <2> QED BY <1>6, <2>2
<1>11. ASSUME NEW e \in S \ gone PROVE \E j \in 1..n : t[j] = e
  <2>1. PICK i \in 1..Len(s) : s[i] = e BY DEF Enumerates
  <2>2. i \in K BY <1>1, <2>1
  <2>3. rank(i) \in 1..n BY <1>4, <2>2
  <2>4. at(rank(i)) = i BY <1>4, <1>6, <2>2, <2>3
  <2> QED BY <1>5, <2>1, <2>3, <2>4
<1> QED BY <1>9, <1>10, <1>11 DEF Enumerates, t

LEMMA AppendEnumerates ==
  ASSUME NEW s, NEW S, Enumerates(s, S), NEW e, e \notin S
  PROVE  Enumerates(Append(s, e), S \cup {e})
<1> DEFINE t == Append(s, e)
           n == Len(s)
<1>1. n \in Nat /\ s \in Seq(S \cup {e}) /\ \A i \in 1..n : s[i] \in S
  BY EnumeratedSet DEF Enumerates
<1>2. /\ t \in Seq(S \cup {e}) /\ Len(t) = n + 1
      /\ \A i \in 1..n : t[i] = s[i]
      /\ t[n + 1] = e
  BY <1>1
<1> HIDE DEF t
<1>3. \A i \in 1..n : s[i] # e BY <1>1
<1>4. \A i, j \in 1..n : s[i] = s[j] => i = j BY DEF Enumerates
<1>5. \A x \in S : \E i \in 1..n : s[i] = x BY DEF Enumerates
<1> HIDE DEF n
<1>6. ASSUME NEW i \in 1..(n + 1), NEW j \in 1..(n + 1), t[i] = t[j] PROVE i = j
  <2>1. (i \in 1..n \/ i = n + 1) /\ (j \in 1..n \/ j = n + 1) BY <1>1
  <2> QED BY <1>2, <1>3, <1>4, <1>6, <2>1
<1>7. ASSUME NEW x \in S \cup {e} PROVE \E i \in 1..(n + 1) : t[i] = x
  <2>1. n + 1 \in 1..(n + 1) /\ 1..n \subseteq 1..(n + 1) BY <1>1
  <2> QED BY <1>2, <1>5, <2>1
<1> QED BY <1>2, <1>6, <1>7 DEF Enumerates, t

LEMMA MoveEnumerates ==
  ASSUME NEW s, NEW S, Enumerates(s, S), NEW e \in S
  PROVE  Enumerates(MoveToBack(s, e), S)
<1>1. Enumerates(Without(s, {e}), S \ {e}) BY WithoutEnumerates
<1>2. Enumerates(Append(Without(s, {e}), e), (S \ {e}) \cup {e}) BY <1>1, AppendEnumerates
<1>3. (S \ {e}) \cup {e} = S OBVIOUS
<1> QED BY <1>2, <1>3 DEF MoveToBack

-----------------------------------------------------------------------------
(* What elements weigh.                                                     *)
ByteSet(es, ent) == UNION {{e} \X (0..ent[e].size) : e \in es}

LEMMA BytesOfOne ==
  ASSUME NEW e, NEW ent, ent[e].size \in Nat
  PROVE  IsFiniteSet({e} \X (0..ent[e].size)) /\ Bytes({e}, ent) = 1 + ent[e].size
<1> DEFINE n == ent[e].size
<1>1. 0 \in Int /\ n \in Int OBVIOUS
<1>2. IsFiniteSet(0..n) /\ Cardinality(0..n) = IF 0 > n THEN 0 ELSE n - 0 + 1
  BY <1>1, FS_Interval
<1>3. IsFiniteSet({e}) /\ Cardinality({e}) = 1 BY FS_Singleton
<1>4. /\ IsFiniteSet({e} \X (0..n))
      /\ Cardinality({e} \X (0..n)) = Cardinality({e}) * Cardinality(0..n)
  BY <1>2, <1>3, FS_Product
<1>5. UNION {{x} \X (0..ent[x].size) : x \in {e}} = {e} \X (0..n) OBVIOUS
<1>6. Cardinality({e} \X (0..n)) = 1 + n
  <2> HIDE DEF n
  <2>1. n \in Nat BY DEF n
  <2>2. Cardinality(0..n) = n + 1 BY <1>2, <2>1
  <2> QED BY <1>3, <1>4, <2>1, <2>2
<1> QED BY <1>4, <1>5, <1>6 DEF Bytes

LEMMA BytesFinite ==
  ASSUME NEW S, IsFiniteSet(S), NEW ent, \A e \in S : ent[e].size \in Nat
  PROVE  IsFiniteSet(ByteSet(S, ent)) /\ Bytes(S, ent) \in Nat
         /\ Bytes(S, ent) = Cardinality(ByteSet(S, ent))
<1> DEFINE f == [e \in S |-> {e} \X (0..ent[e].size)]
           T == {f[e] : e \in S}
<1>1. IsFiniteSet(T)
  <2>1. f \in Surjection(S, T) BY DEF Surjection
  <2> QED BY <2>1, FS_Surjection
<1>2. ASSUME NEW x \in T PROVE IsFiniteSet(x)
  <2>1. PICK e \in S : x = {e} \X (0..ent[e].size) OBVIOUS
  <2> QED BY <2>1, BytesOfOne
<1>3. IsFiniteSet(UNION T) BY <1>1, <1>2, FS_UNION
<1>4. UNION T = ByteSet(S, ent) BY DEF ByteSet
<1>5. Bytes(S, ent) = Cardinality(ByteSet(S, ent)) BY DEF Bytes, ByteSet
<1> QED BY <1>3, <1>4, <1>5, FS_CardinalityType

LEMMA BytesSplit ==
  ASSUME NEW S, IsFiniteSet(S), NEW ent, \A e \in S : ent[e].size \in Nat, NEW A \in SUBSET S
  PROVE  /\ Bytes(S, ent) = Bytes(A, ent) + Bytes(S \ A, ent)
         /\ Bytes(A, ent) \in Nat /\ Bytes(S \ A, ent) \in Nat
<1> DEFINE B == S \ A
<1>1. IsFiniteSet(A) /\ IsFiniteSet(B) BY FS_Subset, FS_Difference
<1>2. /\ IsFiniteSet(ByteSet(A, ent)) /\ IsFiniteSet(ByteSet(B, ent))
      /\ Bytes(A, ent) \in Nat /\ Bytes(A, ent) = Cardinality(ByteSet(A, ent))
      /\ Bytes(B, ent) \in Nat /\ Bytes(B, ent) = Cardinality(ByteSet(B, ent))
      /\ Bytes(S, ent) = Cardinality(ByteSet(S, ent))
  BY <1>1, BytesFinite
<1>3. ByteSet(S, ent) = ByteSet(A, ent) \cup ByteSet(B, ent) BY DEF ByteSet
<1>4. ByteSet(A, ent) \cap ByteSet(B, ent) = {} BY DEF ByteSet
<1>5. Cardinality(ByteSet(A, ent) \cap ByteSet(B, ent)) = 0 BY <1>4, FS_EmptySet
<1>6. Cardinality(ByteSet(S, ent))
        = Cardinality(ByteSet(A, ent)) + Cardinality(ByteSet(B, ent))
          - Cardinality(ByteSet(A, ent) \cap ByteSet(B, ent))
  BY <1>2, <1>3, FS_Union
<1> QED BY <1>2, <1>5, <1>6

LEMMA BytesSame ==
  ASSUME NEW S, NEW ent, NEW neu, \A e \in S : neu[e] = ent[e]
  PROVE  Bytes(S, neu) = Bytes(S, ent)
<1>1. ByteSet(S, neu) = ByteSet(S, ent) BY DEF ByteSet
<1> QED BY <1>1 DEF Bytes, ByteSet

(* An element that comes, or that has come in with a new size.              *)
LEMMA BytesWith ==
  ASSUME NEW S, IsFiniteSet(S), NEW ent, NEW neu, NEW e, neu[e].size \in Nat,
         \A x \in S \ {e} : neu[x] = ent[x] /\ ent[x].size \in Nat
  PROVE  /\ Bytes(S \cup {e}, neu) = Bytes(S \ {e}, ent) + 1 + neu[e].size
         /\ Bytes(S \ {e}, ent) \in Nat
<1> DEFINE T == S \cup {e}
<1>1. IsFiniteSet(T) /\ IsFiniteSet(S \ {e}) BY FS_AddElement, FS_RemoveElement
<1>2. \A x \in T : neu[x].size \in Nat OBVIOUS
<1>3. {e} \in SUBSET T /\ T \ {e} = S \ {e} OBVIOUS
<1> HIDE DEF T
<1>4. /\ Bytes(T, neu) = Bytes({e}, neu) + Bytes(S \ {e}, neu)
      /\ Bytes(S \ {e}, neu) \in Nat
  <2>1. /\ Bytes(T, neu) = Bytes({e}, neu) + Bytes(T \ {e}, neu)
        /\ Bytes(T \ {e}, neu) \in Nat
    BY <1>1, <1>2, <1>3, BytesSplit
  <2> QED BY <1>3, <2>1
<1>5. Bytes({e}, neu) = 1 + neu[e].size BY BytesOfOne
<1>6. Bytes(S \ {e}, neu) = Bytes(S \ {e}, ent) BY BytesSame
<1> QED BY <1>4, <1>5, <1>6 DEF T

-----------------------------------------------------------------------------
(* What a critical section of LruStore finds and leaves, of its own fields. *)
Placed(it) == {it[k] : k \in Keys} \ {Nil}

Sound(l, ent, it, ex, used) ==
  /\ ent \in [Elems -> [k : Keys \cup {NoKey}, size : Nat]]
  /\ it \in [Keys -> Elems \cup {Nil}]
  /\ ex \in [Keys -> {Never} \cup Nat]
  /\ Enumerates(l, Placed(it))
  /\ \A k \in Keys : it[k] # Nil => ent[it[k]].k = k
  /\ \A k \in Keys : ex[k] # Never => it[k] # Nil
  /\ used = Bytes(Placed(it), ent)

SoundFields(c) == Sound(c.list, c.entry, c.items, c.expires, c.used)

LruInv ==
  /\ Sound(list, entry, items, expires, usedBytes)
  /\ forgotten = {}
  /\ clock \in 0..MaxClock
  /\ elem \in [Getters -> Elems \cup {Nil}]
  /\ arg \in [Getters -> Keys \cup {NoKey}]
  /\ doomed \subseteq Keys
  /\ open \in BOOLEAN

LEMMA SoundFacts ==
  ASSUME NEW l, NEW ent, NEW it, NEW ex, NEW used, Sound(l, ent, it, ex, used)
  PROVE  /\ ToSet(l) = Placed(it) /\ Placed(it) \subseteq Elems
         /\ IsFiniteSet(Placed(it)) /\ Cardinality(Placed(it)) = Len(l) /\ Len(l) \in Nat
         /\ \A i \in 1..Len(l) : l[i] \in Placed(it)
         /\ \A e \in Placed(it) : \E i \in 1..Len(l) : l[i] = e
         /\ \A e \in Placed(it) : ent[e].size \in Nat /\ ent[e].k \in Keys /\ it[ent[e].k] = e
         /\ used \in Nat
<1>1. Enumerates(l, Placed(it)) BY DEF Sound
<1>2. Placed(it) \subseteq Elems BY LruAssumption DEF Placed, Sound
<1>3. \A e \in Placed(it) : ent[e].size \in Nat BY <1>2 DEF Sound
<1>4. \A e \in Placed(it) : ent[e].k \in Keys /\ it[ent[e].k] = e BY DEF Placed, Sound
<1>5. IsFiniteSet(Placed(it)) BY <1>1, EnumeratedSet
<1>6. used \in Nat BY <1>3, <1>5, BytesFinite DEF Sound
<1> QED BY <1>1, <1>2, <1>3, <1>4, <1>6, EnumeratedSet DEF Enumerates

LEMMA LeaveKeepsSound ==
  ASSUME NEW c, SoundFields(c), NEW gone \in SUBSET Placed(c.items), Leave(c, gone)
  PROVE  /\ Sound(list, entry, items, expires, usedBytes)'
         /\ c.used = Bytes(gone, c.entry) + usedBytes'
         /\ usedBytes' = Bytes(Placed(c.items) \ gone, c.entry)
         /\ Bytes(gone, c.entry) \in Nat /\ usedBytes' \in Nat
<1> DEFINE keys == {c.entry[e].k : e \in gone}
           P == Placed(c.items)
<1>1. Sound(c.list, c.entry, c.items, c.expires, c.used) BY DEF SoundFields
<1>2. /\ IsFiniteSet(P) /\ P \subseteq Elems
      /\ \A e \in P : c.entry[e].size \in Nat /\ c.entry[e].k \in Keys
                        /\ c.items[c.entry[e].k] = e
  BY <1>1, SoundFacts
<1>3. \A k \in Keys : k \in keys <=> c.items[k] \in gone
  BY <1>1, <1>2 DEF Sound, Placed
<1>4. /\ list' = Without(c.list, gone)
      /\ entry' = [e \in Elems |-> IF e \in gone THEN NoEntry ELSE c.entry[e]]
      /\ items' = [k \in Keys |-> IF k \in keys THEN Nil ELSE c.items[k]]
      /\ expires' = [k \in Keys |-> IF k \in keys THEN Never ELSE c.expires[k]]
      /\ usedBytes' = c.used - Bytes(gone, c.entry)
  BY DEF Leave
<1> HIDE DEF keys
<1>5. Placed(items') = P \ gone BY <1>3, <1>4 DEF Placed
<1>6. Enumerates(list', P \ gone) BY <1>1, <1>4, WithoutEnumerates DEF Sound
<1>7. /\ Bytes(P, c.entry) = Bytes(gone, c.entry) + Bytes(P \ gone, c.entry)
      /\ Bytes(gone, c.entry) \in Nat /\ Bytes(P \ gone, c.entry) \in Nat
  BY <1>2, BytesSplit
<1>8. c.used = Bytes(P, c.entry) BY <1>1 DEF Sound
<1>9. usedBytes' = Bytes(P \ gone, c.entry) BY <1>4, <1>7, <1>8
<1>10. Bytes(P \ gone, entry') = Bytes(P \ gone, c.entry)
  <2>1. \A e \in P \ gone : entry'[e] = c.entry[e] BY <1>2, <1>4
  <2> QED BY <2>1, BytesSame
<1>11. entry' \in [Elems -> [k : Keys \cup {NoKey}, size : Nat]]
  <2>1. NoEntry \in [k : Keys \cup {NoKey}, size : Nat] BY DEF NoEntry
  <2> QED BY <1>1, <1>4, <2>1 DEF Sound
<1>12. /\ items' \in [Keys -> Elems \cup {Nil}]
       /\ expires' \in [Keys -> {Never} \cup Nat]
       /\ \A k \in Keys : expires'[k] # Never => items'[k] # Nil
  BY <1>1, <1>4 DEF Sound
<1>13. \A k \in Keys : items'[k] # Nil => entry'[items'[k]].k = k
  <2> SUFFICES ASSUME NEW k \in Keys, items'[k] # Nil PROVE entry'[items'[k]].k = k
    OBVIOUS
  <2>1. k \notin keys /\ items'[k] = c.items[k] BY <1>4
  <2>2. items'[k] \notin gone /\ items'[k] \in Elems BY <1>1, <1>3, <2>1 DEF Sound
  <2>3. entry'[items'[k]] = c.entry[c.items[k]] BY <1>4, <2>1, <2>2
  <2> QED BY <1>1, <2>1, <2>3 DEF Sound
<1>14. Sound(list', entry', items', expires', usedBytes')
  BY <1>5, <1>6, <1>9, <1>10, <1>11, <1>12, <1>13 DEF Sound
<1>15. Sound(list, entry, items, expires, usedBytes)' BY <1>14
  DEF Sound, Placed, Enumerates, Bytes, Never
<1> QED BY <1>7, <1>8, <1>9, <1>15

LEMMA LeastOf ==
  ASSUME NEW S \in SUBSET Nat, S # {}
  PROVE  Min(S) \in S
<1> DEFINE Below(q) == 0..(q - 1)
           T == {Below(q) : q \in S}
<1>1. T \subseteq FiniteSubsetsOf(Nat) /\ T # {}
  <2>1. ASSUME NEW q \in S PROVE Below(q) \in FiniteSubsetsOf(Nat)
    <3>1. 0 \in Int /\ q - 1 \in Int OBVIOUS
    <3>2. IsFiniteSet(Below(q)) BY <3>1, FS_Interval
    <3> QED BY <3>2 DEF FiniteSubsetsOf
  <2> QED BY <2>1
<1>2. PICK x \in T : \A y \in T : ~ (<<y, x>> \in StrictSubsetOrdering(Nat))
  BY <1>1, WFMin, FS_StrictSubsetOrderingWellFounded
<1>3. PICK q \in S : x = Below(q) BY <1>2
<1>4. ASSUME NEW r \in S, r < q PROVE FALSE
  <2>1. Below(r) \in T /\ Below(r) \subseteq Below(q) /\ r \in Below(q) /\ r \notin Below(r)
    BY <1>4
  <2>2. Below(r) \in SUBSET Nat /\ Below(q) \in SUBSET Nat OBVIOUS
  <2> QED BY <1>2, <1>3, <2>1, <2>2 DEF StrictSubsetOrdering
<1>5. \A r \in S : q <= r BY <1>4
<1> QED BY <1>5 DEF Min

(* Whom evict throws out: elements of the list, and enough of them.         *)
LEMMA VictimsFit ==
  ASSUME NEW c, SoundFields(c)
  PROVE  /\ Victims(c) \in SUBSET Placed(c.items)
         /\ MaxBytes > 0 => \/ c.used - Bytes(Victims(c), c.entry) <= MaxBytes
                            \/ Placed(c.items) \subseteq Victims(c)
<1> DEFINE P == Placed(c.items)
           n == Len(c.list)
           gone(m) == Stale(c) \cup {c.list[i] : i \in 1..m}
           fits(m) == m = n \/ c.used - Bytes(gone(m), c.entry) <= MaxBytes
           S == {m \in 0..n : fits(m)}
<1>1. /\ n \in Nat /\ \A i \in 1..n : c.list[i] \in P
      /\ \A e \in P : \E i \in 1..n : c.list[i] = e
  BY SoundFacts DEF SoundFields
<1>2. Stale(c) \subseteq P BY DEF Stale, Placed
<1>3. MaxBytes \in Nat BY LruAssumption
<1>4. Victims(c) = IF MaxBytes = 0 THEN Stale(c) ELSE gone(Min(S)) BY DEF Victims
<1>5. S \in SUBSET Nat /\ S # {}
  <2>1. n \in 0..n BY <1>1
  <2>2. fits(n) OBVIOUS
  <2> QED BY <2>1, <2>2
<1>6. Min(S) \in S BY <1>5, LeastOf
<1> DEFINE m == Min(S)
<1>7. m \in 0..n /\ fits(m) BY <1>6
<1> HIDE DEF S, m
<1>8. gone(m) \in SUBSET P
  <2>1. \A i \in 1..m : i \in 1..n BY <1>1, <1>7
  <2> QED BY <1>1, <1>2, <2>1
<1>9. CASE m = n
  <2>1. P \subseteq gone(m) BY <1>1, <1>9
  <2> HIDE DEF gone
  <2> QED BY <1>2, <1>3, <1>4, <1>8, <2>1 DEF m
<1>10. CASE m # n
  <2>1. c.used - Bytes(gone(m), c.entry) <= MaxBytes BY <1>7, <1>10
  <2> HIDE DEF gone
  <2> QED BY <1>2, <1>3, <1>4, <1>8, <2>1 DEF m
<1> QED BY <1>9, <1>10

LEMMA EvictKeepsSound ==
  ASSUME NEW c, SoundFields(c), Evict(c)
  PROVE  /\ Sound(list, entry, items, expires, usedBytes)'
         /\ usedBytes' \in Nat /\ usedBytes' <= c.used
         /\ MaxBytes > 0 => usedBytes' <= MaxBytes
<1> DEFINE P == Placed(c.items)
           gone == Victims(c)
<1>1. Leave(c, gone) BY DEF Evict
<1>2. /\ gone \in SUBSET P
      /\ MaxBytes > 0 => c.used - Bytes(gone, c.entry) <= MaxBytes \/ P \subseteq gone
  BY VictimsFit
<1>3. /\ Sound(list, entry, items, expires, usedBytes)'
      /\ c.used = Bytes(gone, c.entry) + usedBytes'
      /\ usedBytes' = Bytes(P \ gone, c.entry)
      /\ Bytes(gone, c.entry) \in Nat /\ usedBytes' \in Nat
  BY <1>1, <1>2, LeaveKeepsSound
<1>4. P \subseteq gone => usedBytes' = 0
  <2>1. P \subseteq gone => P \ gone = {} OBVIOUS
  <2>2. Bytes({}, c.entry) = 0
    <3>1. UNION {{e} \X (0..c.entry[e].size) : e \in {}} = {} OBVIOUS
    <3> QED BY <3>1, FS_EmptySet DEF Bytes
  <2> QED BY <1>3, <2>1, <2>2
<1> HIDE DEF P, gone
<1>5. MaxBytes \in Nat BY LruAssumption
<1> QED BY <1>2, <1>3, <1>4, <1>5

-----------------------------------------------------------------------------
(* The expiry a Set writes.                                                 *)
LEMMA ExpiryIs ==
  ASSUME LruInv, NEW ttl \in TTLs
  PROVE  Expiry(ttl) \in {Never} \cup Nat
<1>1. ttl \in Nat /\ clock \in Nat BY LruAssumption DEF LruInv
<1> QED BY <1>1 DEF Expiry

LEMMA SetOldStep ==
  ASSUME LruInv, NEW k \in Keys, NEW size \in Sizes, NEW ttl \in TTLs, SetOld(k, size, ttl)
  PROVE  LruInv' /\ items' = items /\ usedBytes' \in Nat
<1> DEFINE e == items[k]
           P == Placed(items)
<1>1. Sound(list, entry, items, expires, usedBytes) BY DEF LruInv
<1>2. /\ IsFiniteSet(P) /\ P \subseteq Elems /\ usedBytes \in Nat
      /\ \A x \in P : entry[x].size \in Nat
  BY <1>1, SoundFacts
<1>3. e \in P /\ e \in Elems BY <1>2 DEF SetOld, Placed
<1>4. /\ usedBytes' = usedBytes + size - entry[e].size
      /\ entry' = [entry EXCEPT ![e].size = size]
      /\ list' = MoveToBack(list, e)
      /\ expires' = [expires EXCEPT ![k] = Expiry(ttl)]
      /\ items' = items
      /\ UNCHANGED <<forgotten, elem, arg, clock, doomed, open>>
  BY DEF SetOld, getVars
<1>5. size \in Nat BY LruAssumption
<1>6. Enumerates(list', P) BY <1>1, <1>3, <1>4, MoveEnumerates DEF Sound
<1> HIDE DEF e, P
<1>7. /\ entry' \in [Elems -> [k : Keys \cup {NoKey}, size : Nat]]
      /\ \A x \in Elems : entry'[x].k = entry[x].k
      /\ \A x \in P \ {e} : entry'[x] = entry[x]
      /\ entry'[e].size = size
  BY <1>1, <1>2, <1>3, <1>4, <1>5 DEF Sound
<1>8. usedBytes' = Bytes(P, entry') /\ usedBytes' \in Nat
  <2>1. P \cup {e} = P BY <1>3
  <2>2. \A x \in P \ {e} : entry'[x] = entry[x] /\ entry[x].size \in Nat BY <1>2, <1>7
  <2>3. entry'[e].size \in Nat BY <1>5, <1>7
  <2>4. /\ Bytes(P, entry') = Bytes(P \ {e}, entry) + 1 + size
        /\ Bytes(P \ {e}, entry) \in Nat
    <3> DEFINE neu == entry'
    <3>1. \A x \in P \ {e} : neu[x] = entry[x] /\ entry[x].size \in Nat BY <2>2
    <3>2. neu[e].size \in Nat /\ neu[e].size = size BY <1>7, <2>3
    <3> HIDE DEF neu
    <3>3. /\ Bytes(P \cup {e}, neu) = Bytes(P \ {e}, entry) + 1 + neu[e].size
          /\ Bytes(P \ {e}, entry) \in Nat
      BY <1>2, <3>1, <3>2, BytesWith
    <3> QED BY <2>1, <3>2, <3>3 DEF neu
  <2>5. Bytes(P, entry) = Bytes(P \ {e}, entry) + 1 + entry[e].size
    <3>1. \A x \in P \ {e} : entry[x] = entry[x] /\ entry[x].size \in Nat BY <1>2
    <3>2. entry[e].size \in Nat BY <1>2, <1>3
    <3>3. Bytes(P \cup {e}, entry) = Bytes(P \ {e}, entry) + 1 + entry[e].size
      BY <1>2, <3>1, <3>2, BytesWith
    <3> QED BY <2>1, <3>3
  <2>6. usedBytes = Bytes(P, entry) BY <1>1 DEF Sound, P
  <2>7. entry[e].size \in Nat BY <1>2, <1>3
  <2> QED BY <1>4, <1>5, <2>4, <2>5, <2>6, <2>7
<1>9. expires' \in [Keys -> {Never} \cup Nat] BY <1>1, <1>4, ExpiryIs DEF Sound
<1>10. \A x \in Keys : expires'[x] # Never => items'[x] # Nil
  BY <1>1, <1>4 DEF Sound, SetOld
<1>11. \A x \in Keys : items'[x] # Nil => entry'[items'[x]].k = x
  BY <1>1, <1>4, <1>7 DEF Sound
<1>12. Sound(list', entry', items', expires', usedBytes')
  BY <1>1, <1>4, <1>6, <1>7, <1>8, <1>9, <1>10, <1>11 DEF Sound, P
<1> QED BY <1>4, <1>8, <1>12 DEF LruInv, Sound, Placed, Enumerates, Bytes, Never

LEMMA EmptySound ==
  Sound(<<>>, [e \in Elems |-> NoEntry], [k \in Keys |-> Nil], [k \in Keys |-> Never], 0)
<1>1. Placed([k \in Keys |-> Nil]) = {} BY DEF Placed
<1>2. Bytes({}, [e \in Elems |-> NoEntry]) = 0
  <2>1. UNION {{x} \X (0..[e \in Elems |-> NoEntry][x].size) : x \in {}} = {} OBVIOUS
  <2> QED BY <2>1, FS_EmptySet DEF Bytes
<1>3. Enumerates(<<>>, {}) BY DEF Enumerates
<1>4. NoEntry \in [k : Keys \cup {NoKey}, size : Nat] BY DEF NoEntry
<1> QED BY <1>1, <1>2, <1>3, <1>4 DEF Sound

LEMMA SetNewStep ==
  ASSUME LruInv, NEW k \in Keys, NEW size \in Sizes, NEW ttl \in TTLs, SetNew(k, size, ttl)
  PROVE  LruInv' /\ usedBytes' \in Nat /\ (MaxBytes > 0 => usedBytes' <= MaxBytes)
<1> DEFINE e == CHOOSE x \in Elems : x \notin ToSet(list) \cup Held
           P == Placed(items)
           c == [list |-> Append(list, e),
                 entry |-> [entry EXCEPT ![e] = [k |-> k, size |-> size]],
                 items |-> [items EXCEPT ![k] = e],
                 expires |-> [expires EXCEPT ![k] = Expiry(ttl)],
                 used |-> usedBytes + 1 + size]
<1>1. Sound(list, entry, items, expires, usedBytes) BY DEF LruInv
<1>2. /\ IsFiniteSet(P) /\ P \subseteq Elems /\ usedBytes \in Nat
      /\ \A x \in P : entry[x].size \in Nat
      /\ ToSet(list) = P
  BY <1>1, SoundFacts
<1>3. items[k] = Nil /\ Evict(c) /\ UNCHANGED <<forgotten, elem, arg, clock, doomed, open>>
  BY DEF SetNew, getVars
<1>4. e \in Elems /\ e \notin P
  <2>1. \E x \in Elems : x \notin ToSet(list) \cup Held BY DEF SetNew
  <2> QED BY <1>2, <2>1
<1> HIDE DEF e
<1>5. size \in Nat /\ Nil \notin Elems BY LruAssumption
<1>6. Placed(c.items) = P \cup {e} BY <1>1, <1>3, <1>4, <1>5 DEF Sound, Placed
<1>7. Enumerates(c.list, Placed(c.items))
  <2>1. Enumerates(list, P) BY <1>1 DEF Sound
  <2>2. c.list = Append(list, e) OBVIOUS
  <2> HIDE DEF c, P
  <2> QED BY <1>4, <1>6, <2>1, <2>2, AppendEnumerates
<1> HIDE DEF P
<1>8. /\ c.entry \in [Elems -> [k : Keys \cup {NoKey}, size : Nat]]
      /\ \A x \in P : c.entry[x] = entry[x]
      /\ c.entry[e] = [k |-> k, size |-> size]
  BY <1>1, <1>2, <1>4, <1>5 DEF Sound
<1>9. c.used = Bytes(Placed(c.items), c.entry)
  <2>1. P \ {e} = P BY <1>4
  <2>2. \A x \in P \ {e} : c.entry[x] = entry[x] /\ entry[x].size \in Nat BY <1>2, <1>8
  <2>3. c.entry[e].size \in Nat /\ c.entry[e].size = size BY <1>5, <1>8
  <2>4. usedBytes = Bytes(P, entry) BY <1>1 DEF Sound, P
  <2>5. c.used = usedBytes + 1 + size OBVIOUS
  <2> DEFINE neu == c.entry
  <2> HIDE DEF c, neu
  <2>6. Bytes(P \cup {e}, neu) = Bytes(P \ {e}, entry) + 1 + neu[e].size
    <3>1. \A x \in P \ {e} : neu[x] = entry[x] /\ entry[x].size \in Nat BY <2>2 DEF neu
    <3>2. neu[e].size \in Nat BY <2>3 DEF neu
    <3> QED BY <1>2, <3>1, <3>2, BytesWith
  <2> QED BY <1>6, <2>1, <2>3, <2>4, <2>5, <2>6 DEF neu
<1>10. /\ c.items \in [Keys -> Elems \cup {Nil}]
       /\ c.expires \in [Keys -> {Never} \cup Nat]
       /\ \A x \in Keys : c.expires[x] # Never => c.items[x] # Nil
  BY <1>1, <1>4, <1>5, ExpiryIs DEF Sound
<1>11. \A x \in Keys : c.items[x] # Nil => c.entry[c.items[x]].k = x
  <2>1. c.items[k] = e BY <1>1 DEF Sound
  <2>2. \A x \in Keys \ {k} : c.items[x] = items[x] BY <1>1 DEF Sound
  <2>3. \A x \in Keys : items[x] # Nil => items[x] \in P BY DEF Placed, P
  <2>4. \A x \in Keys : items[x] # Nil => entry[items[x]].k = x BY <1>1 DEF Sound
  <2> HIDE DEF c
  <2> QED BY <1>8, <2>1, <2>2, <2>3, <2>4
<1> HIDE DEF c
<1>12. SoundFields(c) BY <1>7, <1>8, <1>9, <1>10, <1>11 DEF SoundFields, Sound
<1>13. /\ Sound(list, entry, items, expires, usedBytes)'
       /\ usedBytes' \in Nat /\ (MaxBytes > 0 => usedBytes' <= MaxBytes)
  BY <1>3, <1>12, EvictKeepsSound
<1> QED BY <1>3, <1>13 DEF LruInv

(* The fields as they are.                                                  *)
LEMMA CurrentSound ==
  ASSUME LruInv
  PROVE  /\ SoundFields(Current) /\ Current.items = items /\ Current.used = usedBytes
         /\ usedBytes \in Nat
<1>1. Sound(list, entry, items, expires, usedBytes) BY DEF LruInv
<1>2. usedBytes \in Nat BY <1>1, SoundFacts
<1> QED BY <1>1, <1>2 DEF SoundFields, Current

LEMMA DeleteStep ==
  ASSUME LruInv, NEW k \in Keys, Delete(k) \/ DeleteExpired(k)
  PROVE  LruInv' /\ usedBytes' \in Nat /\ usedBytes' <= usedBytes
<1> DEFINE gone == {items[k]} \ {Nil}
<1>1. SoundFields(Current) /\ Current.items = items /\ Current.used = usedBytes
      /\ usedBytes \in Nat
  BY CurrentSound
<1>2. gone \in SUBSET Placed(Current.items) BY <1>1 DEF Placed
<1>3. Leave(Current, gone)
  <2>1. CASE Delete(k)
    <3>1. gone = {items[k]} BY <2>1 DEF Delete
    <3> QED BY <2>1, <3>1 DEF Delete
  <2>2. CASE DeleteExpired(k) BY <2>2 DEF DeleteExpired
  <2> QED BY <2>1, <2>2
<1> HIDE DEF gone
<1>4. /\ Sound(list, entry, items, expires, usedBytes)'
      /\ Current.used = Bytes(gone, Current.entry) + usedBytes'
      /\ Bytes(gone, Current.entry) \in Nat /\ usedBytes' \in Nat
  BY <1>1, <1>2, <1>3, LeaveKeepsSound
<1>5. UNCHANGED <<forgotten, elem, arg, clock, open>> /\ doomed' \subseteq Keys
  BY DEF Delete, DeleteExpired, getVars, LruInv
<1>6. usedBytes' <= usedBytes BY <1>1, <1>4
<1> QED BY <1>4, <1>5, <1>6 DEF LruInv

LEMMA CleanupStep ==
  ASSUME LruInv, Cleanup
  PROVE  LruInv' /\ usedBytes' \in Nat /\ usedBytes' <= usedBytes
<1>1. SoundFields(Current) /\ Current.used = usedBytes BY CurrentSound
<1>2. Evict(Current) /\ UNCHANGED <<forgotten, elem, arg, clock, doomed, open>>
  BY DEF Cleanup, getVars
<1>3. /\ Sound(list, entry, items, expires, usedBytes)'
      /\ usedBytes' \in Nat /\ usedBytes' <= usedBytes
  BY <1>1, <1>2, EvictKeepsSound
<1> QED BY <1>2, <1>3 DEF LruInv

LEMMA ClearStep ==
  ASSUME LruInv, Clear
  PROVE  LruInv' /\ usedBytes' = 0
<1>1. /\ list' = <<>> /\ entry' = [e \in Elems |-> NoEntry]
      /\ items' = [k \in Keys |-> Nil] /\ expires' = [k \in Keys |-> Never]
      /\ usedBytes' = 0 /\ forgotten' = {}
      /\ UNCHANGED <<clock, elem, arg, doomed, open>>
  BY DEF Clear, LruInv
<1>2. Sound(list', entry', items', expires', usedBytes') BY <1>1, EmptySound
<1> QED BY <1>1, <1>2 DEF LruInv, Sound, Placed, Enumerates, Bytes, Never

(* The halves of Get, and the steps that leave the fields alone.            *)
LEMMA GetSteps ==
  ASSUME LruInv,
         \/ \E k \in Keys : GetExpired(k) \/ \E g \in Getters : GetLookup(g, k)
         \/ \E g \in Getters : GetTouch(g)
         \/ Close \/ Tick \/ UNCHANGED lruVars
  PROVE  LruInv' /\ UNCHANGED <<items, usedBytes>>
<1>1. Sound(list, entry, items, expires, usedBytes) BY DEF LruInv
<1>2. ASSUME NEW k \in Keys, GetExpired(k) PROVE LruInv' /\ UNCHANGED <<items, usedBytes>>
  BY <1>1, <1>2 DEF GetExpired, LruInv, fields, getVars, Sound, Placed, Enumerates, Bytes
<1>3. ASSUME NEW k \in Keys, NEW g \in Getters, GetLookup(g, k)
      PROVE  LruInv' /\ UNCHANGED <<items, usedBytes>>
  <2>1. items[k] \in Elems BY <1>1, <1>3 DEF GetLookup, Sound
  <2> QED BY <1>1, <1>3, <2>1
    DEF GetLookup, LruInv, fields, Sound, Placed, Enumerates, Bytes
<1>4. ASSUME NEW g \in Getters, GetTouch(g) PROVE LruInv' /\ UNCHANGED <<items, usedBytes>>
  <2>1. /\ UNCHANGED <<entry, items, expires, usedBytes, clock, doomed, open>>
        /\ elem' = [elem EXCEPT ![g] = Nil] /\ arg' = [arg EXCEPT ![g] = NoKey]
        /\ list' = IF items[arg[g]] # Nil /\ elem[g] \in ToSet(list)
                   THEN MoveToBack(list, elem[g]) ELSE list
        /\ forgotten' = {}
    BY <1>4 DEF GetTouch, LruInv
  <2>2. Enumerates(list, Placed(items)) /\ ToSet(list) = Placed(items)
    BY <1>1, SoundFacts DEF Sound
  <2>3. Enumerates(list', Placed(items))
    <3>1. CASE items[arg[g]] # Nil /\ elem[g] \in ToSet(list)
      BY <2>1, <2>2, <3>1, MoveEnumerates
    <3>2. CASE ~(items[arg[g]] # Nil /\ elem[g] \in ToSet(list)) BY <2>1, <2>2, <3>2
    <3> QED BY <3>1, <3>2
  <2>4. Sound(list', entry', items', expires', usedBytes') BY <1>1, <2>1, <2>3 DEF Sound
  <2> QED BY <2>1, <2>4 DEF LruInv, Sound, Placed, Enumerates, Bytes, Never
<1>5. CASE Close
  <2>1. open' \in BOOLEAN /\ UNCHANGED <<fields, getVars, clock, doomed>>
    BY <1>5 DEF Close
  <2> QED BY <1>1, <2>1 DEF LruInv, fields, getVars, Sound, Placed, Enumerates, Bytes
<1>6. CASE Tick
  <2>1. clock' \in 0..MaxClock BY <1>6, LruAssumption DEF Tick, LruInv
  <2> QED BY <1>1, <1>6, <2>1
    DEF Tick, LruInv, fields, getVars, Sound, Placed, Enumerates, Bytes
<1>7. CASE UNCHANGED lruVars
  BY <1>1, <1>7 DEF lruVars, LruInv, fields, getVars, Sound, Placed, Enumerates, Bytes
<1> QED BY <1>2, <1>3, <1>4, <1>5, <1>6, <1>7

LEMMA LruStep ==
  ASSUME LruInv, [LruNext]_lruVars
  PROVE  /\ LruInv' /\ usedBytes' \in Nat
         /\ MaxBytes > 0 /\ usedBytes' > usedBytes /\ usedBytes' > MaxBytes => items' = items
<1>1. usedBytes \in Nat /\ MaxBytes \in Nat BY CurrentSound, LruAssumption
<1>2. ASSUME NEW k \in Keys, NEW size \in Sizes, NEW ttl \in TTLs, SetOld(k, size, ttl)
      PROVE  LruInv' /\ items' = items /\ usedBytes' \in Nat
  BY <1>2, SetOldStep
<1>3. ASSUME NEW k \in Keys, NEW size \in Sizes, NEW ttl \in TTLs, SetNew(k, size, ttl)
      PROVE  LruInv' /\ usedBytes' \in Nat /\ (MaxBytes > 0 => usedBytes' <= MaxBytes)
  BY <1>3, SetNewStep
<1>4. ASSUME NEW k \in Keys, Delete(k) \/ DeleteExpired(k)
      PROVE  LruInv' /\ usedBytes' \in Nat /\ usedBytes' <= usedBytes
  BY <1>4, DeleteStep
<1>5. Clear => LruInv' /\ usedBytes' = 0 BY ClearStep
<1>6. Cleanup => LruInv' /\ usedBytes' \in Nat /\ usedBytes' <= usedBytes BY CleanupStep
<1>7. ASSUME \/ \E k \in Keys : GetExpired(k) \/ \E g \in Getters : GetLookup(g, k)
             \/ \E g \in Getters : GetTouch(g)
             \/ Close \/ Tick \/ UNCHANGED lruVars
      PROVE  LruInv' /\ UNCHANGED <<items, usedBytes>>
  BY <1>7, GetSteps
<1> QED BY <1>1, <1>2, <1>3, <1>4, <1>5, <1>6, <1>7 DEF LruNext

-----------------------------------------------------------------------------
(* What is found and left by the critical sections of LruStore: the         *)
(* inductive invariant.                                                     *)
THEOREM LruInvariance == LruSpec => []LruInv
<1>1. LruInit => LruInv
  <2> SUFFICES ASSUME LruInit PROVE LruInv OBVIOUS
  <2>1. Sound(list, entry, items, expires, usedBytes) BY EmptySound DEF LruInit
  <2> QED BY <2>1, LruAssumption DEF LruInit, LruInv
<1>2. LruInv /\ [LruNext]_lruVars => LruInv' BY LruStep
<1> QED BY <1>1, <1>2, PTL DEF LruSpec

(* LruTypeOK and ListMatchesItems: however Sets, Gets, deletions, evictions *)
(* and Clears alternate, the list holds exactly the elements of the map,    *)
(* each once, and a late half of a Get links nothing in again               *)
(* (lru.go:79-84, 101-126, 159-161, 173-178).                               *)
THEOREM ListStaysWithItems == LruSpec => []ListMatchesItems
<1>1. LruInv => ListMatchesItems
  <2> SUFFICES ASSUME LruInv PROVE ListMatchesItems OBVIOUS
  <2>1. Sound(list, entry, items, expires, usedBytes) BY DEF LruInv
  <2>2. /\ ToSet(list) = Placed(items) /\ Placed(items) \subseteq Elems
        /\ Cardinality(Placed(items)) = Len(list) /\ usedBytes \in Nat
    BY <2>1, SoundFacts
  <2>3. LruTypeOK BY <2>1, <2>2 DEF LruTypeOK, LruInv, Sound
  <2> QED BY <2>1, <2>2, <2>3 DEF ListMatchesItems, Sound, Placed
<1> QED BY <1>1, LruInvariance, PTL

(* Accounting: usedBytes, kept by differences, is the size of what the list *)
(* holds (lru.go:116, 126, 162, 178).                                       *)
THEOREM BytesAreAccounted == LruSpec => []Accounting
<1>1. LruInv => Accounting
  <2> SUFFICES ASSUME LruInv PROVE Accounting OBVIOUS
  <2>1. Sound(list, entry, items, expires, usedBytes) BY DEF LruInv
  <2>2. ToSet(list) = Placed(items) BY <2>1, SoundFacts
  <2> QED BY <2>1, <2>2 DEF Accounting, Sound
<1> QED BY <1>1, LruInvariance, PTL

(* InsertionsFit: an insertion never leaves the store beyond its budget     *)
(* (lru.go:122-129, 185-204).                                               *)
THEOREM InsertionsStayWithin == LruSpec => InsertionsFit
<1>1. LruInv /\ [LruNext]_lruVars
        => [MaxBytes > 0 /\ usedBytes' > usedBytes /\ usedBytes' > MaxBytes
              => items' = items]_lruVars
  BY LruStep
<1> QED BY <1>1, LruInvariance, PTL DEF LruSpec, InsertionsFit

=============================================================================
