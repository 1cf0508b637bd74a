----------------------------- MODULE GroupProofs -----------------------------
(* Proofs about Group: see its header for the model. *)
EXTENDS Group, TLAPS

InCall == {"wait", "run", "finish", "delete"}
Executing == {"run", "finish", "delete"}

(* A goroutine has a key while it works, and a call while it is in one.     *)
Located ==
  /\ \A g \in Goroutines : pc[g] # "idle" => arg[g] \in Keys
  /\ \A g \in Goroutines : IF pc[g] \in InCall THEN cur[g] \in Calls ELSE cur[g] = NoCall

(* A call belongs to one key, in the map and for all that are in it.        *)
OneKey ==
  /\ \A g, h \in Goroutines : cur[g] # NoCall /\ cur[g] = cur[h] => arg[g] = arg[h]
  /\ \A g \in Goroutines : \A k \in Keys : cur[g] # NoCall /\ cur[g] = m[k] => arg[g] = k

(* A call has one executor, who has not read before it runs, and every call *)
(* in the map has one.                                                      *)
OneExecutor ==
  /\ \A g, h \in Goroutines :
       pc[g] \in Executing /\ pc[h] \in Executing /\ cur[g] = cur[h] => g = h
  /\ \A g \in Goroutines : pc[g] = "run" => val[cur[g]] = Unset
  /\ \A k \in Keys : m[k] # NoCall =>
       \E g \in Goroutines : pc[g] \in Executing /\ cur[g] = m[k]

(* The source never goes back, and is ahead of what has been set.           *)
SourceAhead == \A k \in Keys : floor[k] <= source[k] /\ source[k] <= writes + 1

(* What a version of k may be, in the cache or about to be added to it.     *)
Allowed(k, v) == v > 0 /\ v < floor[k] => k \in overlapped

CacheAllowed == \A k \in Keys : Allowed(k, cached[k])

(* The results that are going to be added.                                  *)
PendingAllowed ==
  \A g \in Goroutines :
    /\ pc[g] \in {"wait", "finish", "delete"} => Allowed(arg[g], val[cur[g]])
    /\ pc[g] = "add" => Allowed(arg[g], res[g])

IInv ==
  /\ TypeOK /\ CacheAllowed
  /\ Located /\ OneKey /\ OneExecutor /\ SourceAhead /\ PendingAllowed

LEMMA InitIInv == Init => IInv
<1> SUFFICES ASSUME Init PROVE IInv OBVIOUS
<1> USE GroupAssumption DEF Init
<1>1. TypeOK BY DEF TypeOK, Results, Unset, Failed, Labels
<1>2. CacheAllowed BY DEF CacheAllowed, Allowed
<1>3. Located /\ OneKey /\ OneExecutor
  BY DEF Located, OneKey, OneExecutor, InCall, Executing
<1>4. SourceAhead /\ PendingAllowed BY DEF SourceAhead, PendingAllowed
<1> QED BY <1>1, <1>2, <1>3, <1>4 DEF IInv

-----------------------------------------------------------------------------
LEMMA SettleType ==
  ASSUME TypeOK, NEW ks \in SUBSET Keys, Settle(ks)
  PROVE  floor' \in [Keys -> 0..(MaxWrites + 1)] /\ overlapped' \subseteq Keys
BY GroupAssumption DEF TypeOK, Settle

LEMMA TypeStep == ASSUME IInv, [Next]_vars PROVE TypeOK'
<1> USE GroupAssumption DEF IInv
<1> TypeOK OBVIOUS
<1> USE DEF TypeOK
<1>1. ASSUME NEW g \in Goroutines, NEW k \in Keys, GetMiss(g, k) PROVE TypeOK'
  BY <1>1 DEF GetMiss, Goto, Labels, loaderVars, appVars, ghosts
<1>2. ASSUME NEW g \in Goroutines, NEW k \in Keys, WriteSource(g, k) PROVE TypeOK'
  BY <1>2 DEF WriteSource, Goto, Labels, loaderVars, ghosts
<1>3. ASSUME NEW g \in Goroutines, Join(g) \/ Miss(g) \/ Finish(g) PROVE TypeOK'
  BY <1>3 DEF Join, Miss, Finish, Goto, Located, Labels, loaderVars, appVars, ghosts
<1>4. ASSUME NEW g \in Goroutines, Store(g) PROVE TypeOK'
  BY <1>4 DEF Store, Goto, Located, Labels, appVars, ghosts
<1>5. ASSUME NEW g \in Goroutines, LoadData(g) PROVE TypeOK'
  <2>1. arg[g] \in Keys /\ cur[g] \in Calls BY <1>5 DEF LoadData, Goto, Located, InCall
  <2>2. {source[arg[g]], Failed} \subseteq Results BY <2>1 DEF Results
  <2> QED BY <1>5, <2>1, <2>2 DEF LoadData, Goto, Labels, appVars, ghosts
<1>6. ASSUME NEW g \in Goroutines, Delete(g) \/ Wake(g) PROVE TypeOK'
  <2>1. arg[g] \in Keys /\ cur[g] \in Calls
    BY <1>6 DEF Delete, Wake, Goto, Located, InCall
  <2> QED BY <1>6, <2>1 DEF Delete, Wake, Return, Goto, Labels, appVars, ghosts
<1>7. ASSUME NEW g \in Goroutines, Add(g) PROVE TypeOK'
  <2>1. arg[g] \in Keys BY <1>7 DEF Add, Goto, Located
  <2>2. cached' \in [Keys -> 0..(MaxWrites + 1)]
    BY <1>7, <2>1 DEF Add, Results, Unset, Failed
  <2> QED BY <1>7, <2>2 DEF Add, Goto, Labels, loaderVars, appVars, ghosts
<1>8. ASSUME NEW g \in Goroutines, Set(g) PROVE TypeOK'
  <2>1. arg[g] \in Keys /\ {arg[g]} \in SUBSET Keys BY <1>8 DEF Set, Goto, Located
  <2>2. floor' \in [Keys -> 0..(MaxWrites + 1)] /\ overlapped' \subseteq Keys
    BY <1>8, <2>1, SettleType DEF Set, ghosts
  <2> QED BY <1>8, <2>1, <2>2 DEF Set, Goto, Labels, loaderVars, appVars
<1>9. ASSUME NEW k \in Keys, DeleteKey(k) PROVE TypeOK'
  <2>1. floor' \in [Keys -> 0..(MaxWrites + 1)] /\ overlapped' \subseteq Keys
    BY <1>9, SettleType, {k} \in SUBSET Keys DEF DeleteKey
  <2>2. cached' \in [Keys -> 0..(MaxWrites + 1)] BY <1>9 DEF DeleteKey
  <2> QED BY <1>9, <2>1, <2>2 DEF DeleteKey, loaderVars, appVars
<1>10. ASSUME Clear PROVE TypeOK'
  <2>1. floor' \in [Keys -> 0..(MaxWrites + 1)] /\ overlapped' \subseteq Keys
    BY <1>10, SettleType DEF Clear
  <2> QED BY <1>10, <2>1 DEF Clear, loaderVars, appVars
<1>11. ASSUME NEW k \in Keys, Lose(k) PROVE TypeOK'
  BY <1>11 DEF Lose, loaderVars, appVars, ghosts
<1>12. ASSUME CloseGroup \/ CloseCache PROVE TypeOK'
  BY <1>12 DEF CloseGroup, CloseCache, loaderVars, appVars, ghosts
<1>13. CASE UNCHANGED vars BY <1>13 DEF vars
<1> QED BY <1>1, <1>2, <1>3, <1>4, <1>5, <1>6, <1>7, <1>8, <1>9, <1>10, <1>11, <1>12, <1>13
        DEF Next, Progress

-----------------------------------------------------------------------------
(* The loader: who is in which call, and for which key.                     *)
LoaderInv == TypeOK /\ Located /\ OneKey /\ OneExecutor
LoaderParts == Located /\ OneKey /\ OneExecutor

LEMMA BeginStep ==
  ASSUME LoaderInv, NEW g \in Goroutines, NEW k \in Keys,
         GetMiss(g, k) \/ WriteSource(g, k)
  PROVE  LoaderParts'
<1> USE GroupAssumption DEF LoaderInv, TypeOK, GetMiss, WriteSource, Goto, loaderVars,
        InCall, Executing
<1>1. Located' BY DEF Located
<1>2. OneKey' BY DEF OneKey, Located
<1>3. OneExecutor' BY DEF OneExecutor
<1> QED BY <1>1, <1>2, <1>3 DEF LoaderParts

LEMMA EndStep ==
  ASSUME LoaderInv, NEW g \in Goroutines, Add(g) \/ Set(g)
  PROVE  LoaderParts'
<1> USE GroupAssumption DEF LoaderInv, TypeOK, Add, Set, Goto, loaderVars,
        InCall, Executing
<1>1. Located' BY DEF Located
<1>2. OneKey' BY DEF OneKey, Located
<1>3. OneExecutor' BY DEF OneExecutor
<1> QED BY <1>1, <1>2, <1>3 DEF LoaderParts

LEMMA JoinStep ==
  ASSUME LoaderInv, NEW g \in Goroutines, Join(g) \/ Miss(g)
  PROVE  LoaderParts'
<1> USE GroupAssumption DEF LoaderInv, TypeOK, Join, Miss, Goto, loaderVars,
        InCall, Executing
<1>1. arg[g] \in Keys BY DEF Located
<1>2. Located' BY <1>1 DEF Located
<1>3. OneKey'
  <2>1. \A h \in Goroutines : cur[h] # NoCall /\ cur[h] = m[arg[g]] => arg[h] = arg[g]
    BY <1>1 DEF OneKey
  <2>2. \A k \in Keys : m[k] # NoCall /\ m[k] = m[arg[g]] => k = arg[g]
    BY <1>1 DEF OneKey, OneExecutor
  <2> QED BY <1>1, <2>1, <2>2 DEF OneKey
<1>4. OneExecutor' BY <1>1 DEF OneExecutor
<1> QED BY <1>2, <1>3, <1>4 DEF LoaderParts

LEMMA StoreStep ==
  ASSUME LoaderInv, NEW g \in Goroutines, Store(g)
  PROVE  LoaderParts'
<1> USE GroupAssumption DEF LoaderInv, TypeOK, Goto, InCall, Executing
<1>1. pc[g] = "store" /\ pc' = [pc EXCEPT ![g] = "run"] /\ arg' = arg BY DEF Store
<1>2. PICK c \in Calls :
        /\ \A k \in Keys : m[k] # c
        /\ \A h \in Goroutines : cur[h] # c
        /\ m' = [m EXCEPT ![arg[g]] = c]
        /\ val' = [val EXCEPT ![c] = Unset]
        /\ cur' = [cur EXCEPT ![g] = c]
  BY DEF Store
<1>3. arg[g] \in Keys BY <1>1 DEF Located
<1>4. Located' BY <1>1, <1>2 DEF Located
<1>5. OneKey' BY <1>1, <1>2, <1>3 DEF OneKey
<1>6. OneExecutor'
  <2>1. \A h, i \in Goroutines :
          pc'[h] \in Executing /\ pc'[i] \in Executing /\ cur'[h] = cur'[i] => h = i
    BY <1>1, <1>2 DEF OneExecutor
  <2>2. \A h \in Goroutines : pc'[h] = "run" => val'[cur'[h]] = Unset
    BY <1>1, <1>2 DEF OneExecutor, Located
  <2>3. \A k \in Keys : m'[k] # NoCall =>
          \E h \in Goroutines : pc'[h] \in Executing /\ cur'[h] = m'[k]
    BY <1>1, <1>2, <1>3 DEF OneExecutor
  <2> QED BY <2>1, <2>2, <2>3 DEF OneExecutor
<1> QED BY <1>4, <1>5, <1>6 DEF LoaderParts

LEMMA RunStep ==
  ASSUME LoaderInv, NEW g \in Goroutines, LoadData(g) \/ Finish(g)
  PROVE  LoaderParts'
<1> USE GroupAssumption DEF LoaderInv, TypeOK, Goto, InCall, Executing
<1>1. /\ pc[g] \in {"run", "finish"} /\ cur[g] \in Calls
      /\ pc' \in {[pc EXCEPT ![g] = "finish"], [pc EXCEPT ![g] = "delete"]}
      /\ UNCHANGED <<m, cur, arg>>
      /\ \A c \in Calls : c # cur[g] => val'[c] = val[c]
  BY DEF LoadData, Finish, Located
<1>2. Located' BY <1>1 DEF Located
<1>3. OneKey' BY <1>1 DEF OneKey
<1>4. OneExecutor'
  <2>1. \A h \in Goroutines : pc'[h] = "run" => h # g /\ cur[h] # cur[g]
    BY <1>1 DEF OneExecutor
  <2>2. \A h \in Goroutines : pc'[h] = "run" => val'[cur'[h]] = Unset
    BY <1>1, <2>1 DEF OneExecutor, Located
  <2>3. \A k \in Keys : m'[k] # NoCall =>
          \E h \in Goroutines : pc'[h] \in Executing /\ cur'[h] = m'[k]
    BY <1>1 DEF OneExecutor
  <2>4. \A h, i \in Goroutines :
          pc'[h] \in Executing /\ pc'[i] \in Executing /\ cur'[h] = cur'[i] => h = i
    BY <1>1 DEF OneExecutor
  <2> QED BY <2>2, <2>3, <2>4 DEF OneExecutor
<1> QED BY <1>2, <1>3, <1>4 DEF LoaderParts

LEMMA ReturnStep ==
  ASSUME LoaderInv, NEW g \in Goroutines, Delete(g) \/ Wake(g)
  PROVE  LoaderParts'
<1> USE GroupAssumption DEF LoaderInv, TypeOK, Delete, Wake, Return, Goto, InCall, Executing
<1>1. arg[g] \in Keys /\ cur[g] \in Calls BY DEF Located
<1>2. Located' BY DEF Located
<1>3. OneKey' BY <1>1 DEF OneKey
<1>4. OneExecutor'
  <2>1. \A k \in Keys : m'[k] # NoCall => m'[k] = m[k] /\ (Delete(g) => m[k] # cur[g])
    BY <1>1 DEF OneKey
  <2>2. \A k \in Keys : m'[k] # NoCall =>
          \E h \in Goroutines : pc'[h] \in Executing /\ cur'[h] = m'[k]
    BY <1>1, <2>1 DEF OneExecutor
  <2>3. \A h, i \in Goroutines :
          pc'[h] \in Executing /\ pc'[i] \in Executing /\ cur'[h] = cur'[i] => h = i
    BY <1>1 DEF OneExecutor
  <2>4. \A h \in Goroutines : pc'[h] = "run" => val'[cur'[h]] = Unset
    BY DEF OneExecutor
  <2> QED BY <2>2, <2>3, <2>4 DEF OneExecutor
<1> QED BY <1>2, <1>3, <1>4 DEF LoaderParts

LEMMA LoaderStep == ASSUME IInv, [Next]_vars PROVE LoaderParts'
<1>1. LoaderInv BY DEF IInv, LoaderInv
<1>2. CASE UNCHANGED <<m, val, cur, pc, arg>>
  BY <1>1, <1>2 DEF LoaderInv, LoaderParts, Located, OneKey, OneExecutor
<1>3. ASSUME NEW k \in Keys, DeleteKey(k) \/ Lose(k) PROVE UNCHANGED <<m, val, cur, pc, arg>>
  BY <1>3 DEF DeleteKey, Lose, loaderVars
<1>4. ASSUME Clear \/ CloseGroup \/ CloseCache PROVE UNCHANGED <<m, val, cur, pc, arg>>
  BY <1>4 DEF Clear, CloseGroup, CloseCache, loaderVars
<1>5. UNCHANGED vars => UNCHANGED <<m, val, cur, pc, arg>> BY DEF vars
<1> QED BY <1>1, <1>2, <1>3, <1>4, <1>5, BeginStep, EndStep, JoinStep, StoreStep, RunStep, ReturnStep
        DEF Next, Progress

-----------------------------------------------------------------------------
(* The versions: what is in the cache and what will be added to it.         *)
LEMMA SourceStep == ASSUME IInv, [Next]_vars PROVE SourceAhead'
<1> USE GroupAssumption DEF IInv, TypeOK, SourceAhead
<1>1. ASSUME NEW g \in Goroutines, NEW k \in Keys, WriteSource(g, k) PROVE SourceAhead'
  BY <1>1 DEF WriteSource, ghosts
<1>2. ASSUME NEW ks \in SUBSET Keys, Settle(ks), UNCHANGED appVars PROVE SourceAhead'
  BY <1>2 DEF Settle, appVars
<1>3. ASSUME NEW g \in Goroutines, Set(g) PROVE SourceAhead'
  <2>1. arg[g] \in Keys BY <1>3 DEF Set, Goto, Located
  <2>2. {arg[g]} \in SUBSET Keys BY <2>1
  <2> QED BY <1>2, <1>3, <2>2 DEF Set, ghosts, appVars
<1>4. ASSUME NEW k \in Keys, DeleteKey(k) PROVE SourceAhead'
  <2>1. {k} \in SUBSET Keys OBVIOUS
  <2> QED BY <1>2, <1>4, <2>1 DEF DeleteKey
<1>5. ASSUME Clear PROVE SourceAhead' BY <1>2, <1>5 DEF Clear
<1>6. CASE UNCHANGED <<source, writes, floor>> BY <1>6
<1>7. ASSUME NEW g \in Goroutines, NEW k \in Keys, GetMiss(g, k)
      PROVE  UNCHANGED <<source, writes, floor>>
  BY <1>7 DEF GetMiss, appVars, ghosts
<1>8. ASSUME NEW g \in Goroutines,
             Join(g) \/ Miss(g) \/ Store(g) \/ LoadData(g) \/ Finish(g) \/ Delete(g)
             \/ Wake(g) \/ Add(g)
      PROVE  UNCHANGED <<source, writes, floor>>
  BY <1>8 DEF Join, Miss, Store, LoadData, Finish, Delete, Wake, Return, Add, appVars, ghosts
<1>9. ASSUME NEW k \in Keys, Lose(k) PROVE UNCHANGED <<source, writes, floor>>
  BY <1>9 DEF Lose, appVars, ghosts
<1>10. ASSUME CloseGroup \/ CloseCache PROVE UNCHANGED <<source, writes, floor>>
  BY <1>10 DEF CloseGroup, CloseCache, appVars, ghosts
<1> QED BY <1>1, <1>3, <1>4, <1>5, <1>6, <1>7, <1>8, <1>9, <1>10 DEF Next, Progress, vars

(* A Set or Delete of ks makes older versions stale, and marks as overlapped *)
(* every key of ks for which someone holds a result.                        *)
LEMMA SettleKeeps ==
  ASSUME TypeOK, NEW ks \in SUBSET Keys, Settle(ks), NEW k \in Keys, NEW v \in Int,
         Allowed(k, v),
         k \in ks /\ v > 0 => \E g \in Goroutines : HasRead(g, k)
  PROVE  v > 0 /\ v < floor'[k] => k \in overlapped'
BY DEF Settle, TypeOK, Allowed

LEMMA SettlePending ==
  ASSUME IInv, NEW ks \in SUBSET Keys, Settle(ks), UNCHANGED <<val, cur, res>>,
         \A g \in Goroutines : pc'[g] \in {"wait", "finish", "delete", "add"} =>
                                 pc'[g] = pc[g] /\ arg'[g] = arg[g]
  PROVE  PendingAllowed'
<1> USE GroupAssumption DEF IInv
<1> SUFFICES ASSUME NEW g \in Goroutines
             PROVE  (/\ pc[g] \in {"wait", "finish", "delete"} => Allowed(arg[g], val[cur[g]])
                     /\ pc[g] = "add" => Allowed(arg[g], res[g]))'
  BY DEF PendingAllowed
<1>1. ASSUME pc'[g] \in {"wait", "finish", "delete"} PROVE Allowed(arg[g], val[cur[g]])'
  <2>1. pc[g] = pc'[g] /\ arg[g] = arg'[g] BY <1>1
  <2>2. arg[g] \in Keys /\ cur[g] \in Calls BY <1>1, <2>1 DEF Located, InCall
  <2>3. val[cur[g]] \in Int /\ (val[cur[g]] > 0 => HasRead(g, arg[g]))
    BY <1>1, <2>1, <2>2 DEF TypeOK, Results, Failed, Unset, HasRead
  <2>4. Allowed(arg[g], val[cur[g]]) BY <1>1, <2>1 DEF PendingAllowed
  <2> QED BY <2>1, <2>2, <2>3, <2>4, SettleKeeps DEF Allowed
<1>2. ASSUME pc'[g] = "add" PROVE Allowed(arg[g], res[g])'
  <2>1. pc[g] = pc'[g] /\ arg[g] = arg'[g] BY <1>2
  <2>2. arg[g] \in Keys BY <1>2, <2>1 DEF Located
  <2>3. res[g] \in Int /\ HasRead(g, arg[g])
    BY <1>2, <2>1, <2>2 DEF TypeOK, Results, Failed, Unset, HasRead
  <2>4. Allowed(arg[g], res[g]) BY <1>2, <2>1 DEF PendingAllowed
  <2> QED BY <2>1, <2>2, <2>3, <2>4, SettleKeeps DEF Allowed
<1> QED BY <1>1, <1>2

LEMMA SettleStep ==
  ASSUME IInv, [Next]_vars, NEW ks \in SUBSET Keys, Settle(ks),
         UNCHANGED <<val, cur, res>>,
         \A g \in Goroutines : pc'[g] \in {"wait", "finish", "delete", "add"} =>
                                 pc'[g] = pc[g] /\ arg'[g] = arg[g],
         \A k \in Keys : cached'[k] = 0 \/ cached'[k] = source[k]
                         \/ (k \notin ks /\ cached'[k] = cached[k]),
         \A k \in ks : cached'[k] = 0 \/ cached'[k] = source[k]
  PROVE  PendingAllowed' /\ CacheAllowed'
<1> USE GroupAssumption DEF IInv
<1>1. PendingAllowed' BY SettlePending
<1>2. ASSUME NEW k \in Keys PROVE Allowed(k, cached[k])'
  <2>1. floor'[k] <= source[k] BY DEF Settle, SourceAhead, TypeOK
  <2>2. CASE k \in ks BY <2>1, <2>2 DEF Allowed, TypeOK, Settle
  <2>3. CASE k \notin ks
    BY <2>1, <2>3 DEF CacheAllowed, Allowed, TypeOK, Settle
  <2> QED BY <2>2, <2>3
<1> QED BY <1>1, <1>2 DEF CacheAllowed

LEMMA LoadStep ==
  ASSUME IInv, NEW g \in Goroutines, LoadData(g)
  PROVE  PendingAllowed' /\ CacheAllowed'
<1> USE GroupAssumption DEF IInv, LoadData, Goto, appVars, ghosts
<1>1. arg[g] \in Keys /\ cur[g] \in Calls BY DEF Located, InCall
<1>2. PICK r \in {source[arg[g]], Failed} : val' = [val EXCEPT ![cur[g]] = r] OBVIOUS
<1>3. r \in Int /\ (r > 0 => floor[arg[g]] <= r)
  BY <1>1, <1>2 DEF TypeOK, SourceAhead, Failed
<1>4. floor[arg[g]] \in Int BY <1>1 DEF TypeOK
<1>5. ASSUME NEW h \in Goroutines
      PROVE  (/\ pc[h] \in {"wait", "finish", "delete"} => Allowed(arg[h], val[cur[h]])
              /\ pc[h] = "add" => Allowed(arg[h], res[h]))'
  <2>1. CASE cur[h] = cur[g]
    <3>1. arg[h] = arg[g] BY <1>1, <2>1 DEF OneKey
    <3>2. Allowed(arg[h], val[cur[h]])'
      BY <1>1, <1>2, <1>3, <1>4, <2>1, <3>1 DEF Allowed, TypeOK
    <3>3. pc[h] # "add" BY <1>1, <2>1 DEF Located, InCall
    <3> QED BY <3>2, <3>3 DEF TypeOK
  <2>2. CASE cur[h] # cur[g]
    <3>1. h # g /\ pc'[h] = pc[h] BY <2>2 DEF TypeOK
    <3>2. pc[h] \in {"wait", "finish", "delete"} => val'[cur[h]] = val[cur[h]]
      BY <1>1, <1>2, <2>2 DEF TypeOK, Located, InCall
    <3> QED BY <3>1, <3>2 DEF PendingAllowed, Allowed
  <2> QED BY <2>1, <2>2
<1>6. PendingAllowed' BY <1>5 DEF PendingAllowed
<1>7. CacheAllowed' BY DEF CacheAllowed, Allowed
<1> QED BY <1>6, <1>7

(* Who joins a call that has its result takes it over from the executor.    *)
LEMMA JoinVersion ==
  ASSUME IInv, NEW g \in Goroutines, Join(g)
  PROVE  PendingAllowed' /\ CacheAllowed'
<1> USE GroupAssumption DEF IInv, Join, Goto, appVars, ghosts, loaderVars
<1>1. arg[g] \in Keys BY DEF Located
<1>2. PICK h \in Goroutines : pc[h] \in Executing /\ cur[h] = m[arg[g]]
  BY <1>1 DEF OneExecutor
<1>3. arg[h] = arg[g] BY <1>1, <1>2 DEF OneKey
<1>4. Allowed(arg[g], val[m[arg[g]]])
  <2>1. CASE pc[h] = "run" BY <1>2, <2>1 DEF OneExecutor, Allowed, Unset
  <2>2. CASE pc[h] \in {"finish", "delete"} BY <1>2, <1>3, <2>2 DEF PendingAllowed
  <2> QED BY <1>2, <2>1, <2>2 DEF Executing
<1>5. PendingAllowed'
  <2> SUFFICES ASSUME NEW i \in Goroutines
               PROVE  (/\ pc[i] \in {"wait", "finish", "delete"} => Allowed(arg[i], val[cur[i]])
                       /\ pc[i] = "add" => Allowed(arg[i], res[i]))'
    BY DEF PendingAllowed
  <2>1. CASE i = g BY <1>4, <2>1 DEF Allowed, TypeOK
  <2>2. CASE i # g BY <2>2 DEF PendingAllowed, Allowed, TypeOK
  <2> QED BY <2>1, <2>2
<1>6. CacheAllowed' BY DEF CacheAllowed, Allowed
<1> QED BY <1>5, <1>6

LEMMA StoreVersion ==
  ASSUME IInv, NEW g \in Goroutines, Store(g)
  PROVE  PendingAllowed' /\ CacheAllowed'
<1> USE GroupAssumption DEF IInv, Goto, ghosts, appVars
<1>1. PICK c \in Calls :
        /\ \A h \in Goroutines : cur[h] # c
        /\ val' = [val EXCEPT ![c] = Unset]
        /\ cur' = [cur EXCEPT ![g] = c]
  BY DEF Store
<1>2. ASSUME NEW h \in Goroutines
      PROVE  (/\ pc[h] \in {"wait", "finish", "delete"} => Allowed(arg[h], val[cur[h]])
              /\ pc[h] = "add" => Allowed(arg[h], res[h]))'
  <2>1. CASE h = g BY <1>1, <2>1 DEF Store, TypeOK
  <2>2. CASE h # g
    <3>1. pc'[h] = pc[h] /\ cur'[h] = cur[h] /\ val'[cur[h]] = val[cur[h]]
      BY <1>1, <2>2 DEF Store, TypeOK, Located, InCall
    <3> QED BY <3>1 DEF Store, PendingAllowed, Allowed
  <2> QED BY <2>1, <2>2
<1>3. PendingAllowed' BY <1>2 DEF PendingAllowed
<1>4. CacheAllowed' BY DEF CacheAllowed, Allowed, Store
<1> QED BY <1>3, <1>4

LEMMA ReturnVersion ==
  ASSUME IInv, NEW g \in Goroutines, Delete(g) \/ Wake(g)
  PROVE  PendingAllowed' /\ CacheAllowed'
<1> USE GroupAssumption DEF IInv, Delete, Wake, Return, Goto, ghosts, appVars
<1>1. Allowed(arg[g], val[cur[g]]) BY DEF PendingAllowed
<1>2. ASSUME NEW h \in Goroutines
      PROVE  (/\ pc[h] \in {"wait", "finish", "delete"} => Allowed(arg[h], val[cur[h]])
              /\ pc[h] = "add" => Allowed(arg[h], res[h]))'
  <2>1. CASE h = g BY <1>1, <2>1 DEF TypeOK, Allowed
  <2>2. CASE h # g BY <2>2 DEF TypeOK, PendingAllowed, Allowed
  <2> QED BY <2>1, <2>2
<1>3. PendingAllowed' BY <1>2 DEF PendingAllowed
<1>4. CacheAllowed' BY DEF CacheAllowed, Allowed
<1> QED BY <1>3, <1>4

LEMMA AddVersion ==
  ASSUME IInv, NEW g \in Goroutines, Add(g)
  PROVE  PendingAllowed' /\ CacheAllowed'
<1> USE GroupAssumption DEF IInv, Add, Goto, ghosts, appVars, loaderVars
<1>1. Allowed(arg[g], res[g]) /\ arg[g] \in Keys BY DEF PendingAllowed, Located
<1>2. CacheAllowed'
  <2> SUFFICES ASSUME NEW k \in Keys PROVE Allowed(k, cached[k])' BY DEF CacheAllowed
  <2>1. cached'[k] = cached[k] \/ (k = arg[g] /\ cached'[k] = res[g]) BY <1>1 DEF TypeOK
  <2>2. Allowed(k, cached[k]) BY DEF CacheAllowed
  <2> QED BY <1>1, <2>1, <2>2 DEF Allowed
<1>3. ASSUME NEW h \in Goroutines
      PROVE  (/\ pc[h] \in {"wait", "finish", "delete"} => Allowed(arg[h], val[cur[h]])
              /\ pc[h] = "add" => Allowed(arg[h], res[h]))'
  <2>1. CASE h = g BY <2>1 DEF TypeOK
  <2>2. CASE h # g BY <2>2 DEF TypeOK, PendingAllowed, Allowed
  <2> QED BY <2>1, <2>2
<1>4. PendingAllowed' BY <1>3 DEF PendingAllowed
<1> QED BY <1>2, <1>4

LEMMA VersionsStep == ASSUME IInv, [Next]_vars PROVE PendingAllowed' /\ CacheAllowed'
<1> USE GroupAssumption
<1>0. PendingAllowed /\ CacheAllowed BY DEF IInv
<1> DEFINE Pending == {"wait", "finish", "delete", "add"}
<1>1. ASSUME NEW g \in Goroutines, Set(g) PROVE PendingAllowed' /\ CacheAllowed'
  <2>1. arg[g] \in Keys /\ {arg[g]} \in SUBSET Keys BY <1>1 DEF IInv, Set, Goto, Located
  <2>2. /\ UNCHANGED <<val, cur, res>>
        /\ \A h \in Goroutines : pc'[h] \in Pending => pc'[h] = pc[h] /\ arg'[h] = arg[h]
    BY <1>1 DEF IInv, TypeOK, Set, Goto, loaderVars
  <2>3. CASE life = "open"
    <3>1. Settle({arg[g]}) /\ cached' = [cached EXCEPT ![arg[g]] = source[arg[g]]]
      BY <1>1, <2>3 DEF Set
    <3>2. /\ \A k \in Keys : cached'[k] = 0 \/ cached'[k] = source[k]
                             \/ (k \notin {arg[g]} /\ cached'[k] = cached[k])
          /\ \A k \in {arg[g]} : cached'[k] = 0 \/ cached'[k] = source[k]
      BY <2>1, <3>1 DEF IInv, TypeOK
    <3> QED BY <2>1, <2>2, <3>1, <3>2, SettleStep
  <2>4. CASE life # "open"
    <3>1. UNCHANGED <<cached, floor, overlapped>> BY <1>1, <2>4 DEF Set, ghosts
    <3> QED BY <1>0, <2>2, <3>1 DEF PendingAllowed, CacheAllowed, Allowed
  <2> QED BY <2>3, <2>4
<1>2. ASSUME NEW k \in Keys, DeleteKey(k) PROVE PendingAllowed' /\ CacheAllowed'
  <2>1. {k} \in SUBSET Keys OBVIOUS
  <2>2. \A j \in Keys : cached'[j] = (IF j = k THEN 0 ELSE cached[j])
    BY <1>2 DEF DeleteKey, IInv, TypeOK
  <2> QED BY <1>2, <2>1, <2>2, SettleStep DEF DeleteKey, loaderVars
<1>3. ASSUME Clear PROVE PendingAllowed' /\ CacheAllowed'
  BY <1>3, SettleStep DEF Clear, loaderVars
<1>5. ASSUME NEW g \in Goroutines, NEW k \in Keys, GetMiss(g, k) \/ WriteSource(g, k)
      PROVE  PendingAllowed' /\ CacheAllowed'
  BY <1>0, <1>5 DEF GetMiss, WriteSource, Goto, loaderVars, ghosts, IInv, TypeOK,
                    PendingAllowed, CacheAllowed, Allowed
<1>6. ASSUME NEW g \in Goroutines, Miss(g) \/ Finish(g)
      PROVE  PendingAllowed' /\ CacheAllowed'
  BY <1>0, <1>6 DEF Miss, Finish, Goto, loaderVars, ghosts, IInv, TypeOK,
                    PendingAllowed, CacheAllowed, Allowed
<1>7. ASSUME NEW k \in Keys, Lose(k) PROVE PendingAllowed' /\ CacheAllowed'
  BY <1>0, <1>7 DEF Lose, loaderVars, ghosts, IInv, TypeOK,
                    PendingAllowed, CacheAllowed, Allowed
<1>8. ASSUME CloseGroup \/ CloseCache PROVE PendingAllowed' /\ CacheAllowed'
  BY <1>0, <1>8 DEF CloseGroup, CloseCache, loaderVars, ghosts, IInv, TypeOK,
                    PendingAllowed, CacheAllowed, Allowed
<1>9. CASE UNCHANGED vars
  BY <1>0, <1>9 DEF vars, PendingAllowed, CacheAllowed, Allowed
<1> QED BY <1>1, <1>2, <1>3, <1>5, <1>6, <1>7, <1>8, <1>9, LoadStep, JoinVersion,
           StoreVersion, ReturnVersion, AddVersion
        DEF Next, Progress

(* The inductive invariant holds in every reachable state: what is in the   *)
(* cache, and what any goroutine is going to put there, is allowed.         *)
THEOREM Invariance == Spec => []IInv
<1>1. ASSUME IInv, [Next]_vars PROVE IInv'
  BY <1>1, TypeStep, LoaderStep, SourceStep, VersionsStep DEF IInv, LoaderParts
<1> QED BY <1>1, InitIInv, PTL DEF Spec

(* A stale version is in the cache only by a load that overlapped with the  *)
(* last Set or Delete, however many goroutines share or replace calls.      *)
THEOREM StaleOnlyIfOverlapped == Spec => []StaleOnlyByOverlap
<1>1. IInv => StaleOnlyByOverlap
  BY GroupAssumption DEF IInv, StaleOnlyByOverlap, CacheAllowed, Allowed, TypeOK
<1> QED BY <1>1, Invariance, PTL

-----------------------------------------------------------------------------
(* The refinement of SingleFlight, and what it shows of the variables.      *)
ShownVal == [c \in Calls |-> IF val[c] = Unset THEN "unset"
                             ELSE IF val[c] = Failed THEN "error" ELSE "value"]
ShownPc == [g \in Goroutines |-> IF pc[g] \in Outside THEN "idle" ELSE pc[g]]
ShownArg == [g \in Goroutines |-> IF pc[g] \in Outside THEN NoKey ELSE arg[g]]

LEMMA RefinesInit == Init => SF!Init
BY DEF Init, SF!Init, Outside, Unset

LEMMA RefinesStutter ==
  ASSUME UNCHANGED loaderVars,
         \A g \in Goroutines :
           \/ pc'[g] = pc[g] /\ arg'[g] = arg[g]
           \/ pc[g] \in Outside /\ pc'[g] \in Outside
  PROVE  UNCHANGED SF!sfVars
BY DEF SF!sfVars, loaderVars

LEMMA RefinesCall ==
  ASSUME IInv, NEW g \in Goroutines, Progress(g)
  PROVE  SF!Next \/ UNCHANGED SF!sfVars
<1> USE DEF IInv, TypeOK, Goto, Outside
<1>1. CASE Join(g)
  <2>1. PICK k \in Keys : k = arg[g] BY <1>1 DEF Join, Located
  <2>2. SF!Join(g, k) BY <1>1, <2>1 DEF Join, SF!Join
  <2> QED BY <2>1, <2>2 DEF SF!Next
<1>2. CASE Miss(g)
  <2>1. PICK k \in Keys : k = arg[g] BY <1>2 DEF Miss, Located
  <2>2. SF!Miss(g, k) BY <1>2, <2>1 DEF Miss, SF!Miss, loaderVars
  <2> QED BY <2>1, <2>2 DEF SF!Next
<1>3. CASE Store(g)
  <2>1. PICK c \in Calls :
          /\ \A k \in Keys : m[k] # c
          /\ \A h \in Goroutines : cur[h] # c
          /\ m' = [m EXCEPT ![arg[g]] = c]
          /\ done' = [done EXCEPT ![c] = FALSE]
          /\ val' = [val EXCEPT ![c] = Unset]
          /\ cur' = [cur EXCEPT ![g] = c]
    BY <1>3 DEF Store
  <2>2. ShownVal' = [ShownVal EXCEPT ![c] = "unset"] BY <2>1 DEF ShownVal, Unset
  <2>3. ShownPc' = [ShownPc EXCEPT ![g] = "run"] /\ ShownPc[g] = "store"
    BY <1>3 DEF Store, ShownPc
  <2>4. ShownArg' = ShownArg /\ ShownArg[g] = arg[g] BY <1>3 DEF Store, ShownArg
  <2>5. SF!Unreferenced(c) BY <2>1 DEF SF!Unreferenced
  <2>6. SF!Store(g)
    BY <2>1, <2>2, <2>3, <2>4, <2>5 DEF SF!Store, ShownVal, ShownPc, ShownArg
  <2> QED BY <2>6 DEF SF!Next, SF!Progress
<1>4. CASE LoadData(g)
  <2>1. cur[g] \in Calls BY <1>4 DEF LoadData, Located, InCall
  <2>2. PICK r \in {source[arg[g]], Failed} : val' = [val EXCEPT ![cur[g]] = r]
    BY <1>4 DEF LoadData
  <2>3. r # Unset BY <1>4, <2>2 DEF LoadData, Located, Unset, Failed
  <2>4. PICK v \in SF!Outcomes : v = IF r = Failed THEN "error" ELSE "value"
    BY DEF SF!Outcomes
  <2>5. ShownVal' = [ShownVal EXCEPT ![cur[g]] = v] BY <2>1, <2>2, <2>3, <2>4 DEF ShownVal
  <2>6. ShownPc' = [ShownPc EXCEPT ![g] = "finish"] /\ ShownPc[g] = "run"
    BY <1>4 DEF LoadData, ShownPc
  <2>7. ShownArg' = ShownArg BY <1>4 DEF LoadData, ShownArg
  <2>8. UNCHANGED <<m, done, cur>> BY <1>4 DEF LoadData
  <2>9. SF!RunFn(g)
    BY <2>5, <2>6, <2>7, <2>8 DEF SF!RunFn, ShownVal, ShownPc, ShownArg
  <2> QED BY <2>9 DEF SF!Next, SF!Progress
<1>5. CASE Finish(g)
  <2>1. SF!Finish(g) BY <1>5 DEF Finish, SF!Finish
  <2> QED BY <2>1 DEF SF!Next, SF!Progress
<1>6. CASE Delete(g)
  <2>1. SF!Delete(g) BY <1>6 DEF Delete, Return, SF!Delete
  <2> QED BY <2>1 DEF SF!Next, SF!Progress
<1>7. CASE Wake(g)
  <2>1. SF!Wake(g) BY <1>7 DEF Wake, Return, SF!Wake
  <2> QED BY <2>1 DEF SF!Next, SF!Progress
<1>8. CASE Add(g) \/ Set(g)
  BY <1>8, RefinesStutter DEF Add, Set
<1> QED BY <1>1, <1>2, <1>3, <1>4, <1>5, <1>6, <1>7, <1>8 DEF Progress

LEMMA RefinesNext == ASSUME IInv, [Next]_vars PROVE [SF!Next]_(SF!sfVars)
<1> USE DEF IInv, TypeOK
<1>1. ASSUME NEW g \in Goroutines, NEW k \in Keys, GetMiss(g, k) \/ WriteSource(g, k)
      PROVE  UNCHANGED SF!sfVars
  BY <1>1, RefinesStutter DEF GetMiss, WriteSource, Goto, Outside
<1>2. ASSUME NEW k \in Keys, DeleteKey(k) \/ Lose(k) PROVE UNCHANGED SF!sfVars
  BY <1>2, RefinesStutter DEF DeleteKey, Lose
<1>3. ASSUME Clear \/ CloseGroup \/ CloseCache PROVE UNCHANGED SF!sfVars
  BY <1>3, RefinesStutter DEF Clear, CloseGroup, CloseCache
<1>4. CASE UNCHANGED vars BY <1>4, RefinesStutter DEF vars, loaderVars
<1> QED BY <1>1, <1>2, <1>3, <1>4, RefinesCall DEF Next

(* The loads of a group are executions of the single-flight loader: every   *)
(* step of Get is a step of Do or none.                                     *)
THEOREM LoadsAreSingleFlights == Spec => ImplementsSingleFlight
<1>1. IInv /\ [Next]_vars => [SF!Next]_(SF!sfVars) BY RefinesNext
<1> QED BY <1>1, RefinesInit, Invariance, PTL DEF Spec, ImplementsSingleFlight, SF!Spec

=============================================================================
