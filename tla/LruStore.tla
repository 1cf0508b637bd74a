------------------------------ MODULE LruStore ------------------------------
(***************************************************************************)
(* store/lru.go: the byte-bounded LRU store.  Everything but Get is one    *)
(* critical section; Get looks the element up under the read lock and      *)
(* moves it under the write lock, and hands an expired key to a goroutine  *)
(* that deletes it later.  List elements have an identity, because Get     *)
(* keeps a pointer to one between its two sections.  A value is its size;  *)
(* a key counts one byte.                                                  *)
(***************************************************************************)
EXTENDS Integers, FiniteSets, FiniteSetsExt, SequencesExt

CONSTANTS
  Getters,      \* goroutines that call Get
  Keys, NoKey,
  Elems, Nil,   \* heap addresses of *list.Element
  Sizes,        \* sizes of values
  TTLs,         \* expirations, 0 for none
  MaxBytes,     \* 0 for no limit
  MaxClock      \* bound on the clock

ASSUME LruAssumption ==
  /\ NoKey \notin Keys /\ Nil \notin Elems
  (* The guard of SetNew, that there is a free address, never fails.        *)
  /\ Cardinality(Elems) > Cardinality(Keys) + Cardinality(Getters)
  /\ Sizes \subseteq Nat /\ TTLs \subseteq Nat
  /\ MaxBytes \in Nat /\ MaxClock \in Nat

VARIABLES
  list,      \* c.list, least recently used first
  entry,     \* element of the list -> its key and the size of its value
  items,     \* key -> element, Nil if there is none
  expires,   \* key -> expiry, Never if there is none
  usedBytes,
  forgotten, \* elements dropped by Clear that a Get still points to
  clock,
  elem,      \* goroutine -> element its Get will move, Nil outside Get
  arg,       \* goroutine -> key of its Get
  doomed,    \* keys an expired Get has spawned a Delete for
  open       \* Close has not been called

fields == <<list, entry, items, expires, usedBytes>>
getVars == <<forgotten, elem, arg>>
lruVars == <<fields, getVars, clock, doomed, open>>

Never == -1
NoEntry == [k |-> NoKey, size |-> 0]
Held == {elem[g] : g \in Getters} \ {Nil}

(* What the elements of es weigh, entries being as in ent: byte 0 of an     *)
(* element is that of its key.                                              *)
Bytes(es, ent) == Cardinality(UNION {{e} \X (0..ent[e].size) : e \in es})

(* The type invariant.                                                      *)
LruTypeOK ==
  /\ ToSet(list) \subseteq Elems
  /\ entry \in [Elems -> [k : Keys \cup {NoKey}, size : Nat]]
  /\ items \in [Keys -> Elems \cup {Nil}]
  /\ expires \in [Keys -> {Never} \cup Nat]
  /\ usedBytes \in Nat
  /\ forgotten \subseteq Elems
  /\ clock \in 0..MaxClock
  /\ elem \in [Getters -> Elems \cup {Nil}]
  /\ arg \in [Getters -> Keys \cup {NoKey}]
  /\ doomed \subseteq Keys
  /\ open \in BOOLEAN

LruInit ==
  /\ list = <<>>
  /\ entry = [e \in Elems |-> NoEntry]
  /\ items = [k \in Keys |-> Nil]
  /\ expires = [k \in Keys |-> Never]
  /\ usedBytes = 0
  /\ forgotten = {}
  /\ clock = 0
  /\ elem = [g \in Getters |-> Nil]
  /\ arg = [g \in Getters |-> NoKey]
  /\ doomed = {}
  /\ open = TRUE

Past(expiry) == expiry # Never /\ clock > expiry
Expiry(ttl) == IF ttl > 0 THEN clock + ttl ELSE Never

-----------------------------------------------------------------------------
(* The fields of lruCache a critical section works on, as one record.       *)
Current == [list |-> list, entry |-> entry, items |-> items,
            expires |-> expires, used |-> usedBytes]

(* s without the elements of gone.  The j-th one that is kept is the one    *)
(* at the place up to which j are kept.                                     *)
Without(s, gone) ==
  LET kept == {i \in DOMAIN s : s[i] \notin gone}
      rank(i) == Cardinality({x \in kept : x <= i})
  IN  [j \in 1..Cardinality(kept) |-> s[CHOOSE i \in kept : rank(i) = j]]

(* removeElement of every element of gone, from the fields c.               *)
Leave(c, gone) ==
  LET keys == {c.entry[e].k : e \in gone}
  IN  /\ list' = Without(c.list, gone)
      /\ entry' = [e \in Elems |-> IF e \in gone THEN NoEntry ELSE c.entry[e]]
      /\ items' = [k \in Keys |-> IF k \in keys THEN Nil ELSE c.items[k]]
      /\ expires' = [k \in Keys |-> IF k \in keys THEN Never ELSE c.expires[k]]
      /\ usedBytes' = c.used - Bytes(gone, c.entry)

Stale(c) == {c.items[k] : k \in {x \in Keys : Past(c.expires[x])}} \ {Nil}

(* Mutant of Victims: only expired items go.                                *)
VictimsExpired(c) == Stale(c)

(* What evict removes: the expired items, and then as few as possible from  *)
(* the front, until the rest fits.                                          *)
Victims(c) ==
  LET stale == Stale(c)
      gone(n) == stale \cup {c.list[i] : i \in 1..n}
      fits(n) == n = Len(c.list) \/ c.used - Bytes(gone(n), c.entry) <= MaxBytes
  IN  IF MaxBytes = 0 THEN stale
      ELSE gone(Min({n \in 0..Len(c.list) : fits(n)}))

Evict(c) == \E gone \in {Victims(c)} : Leave(c, gone)

MoveToBack(l, e) == Append(Without(l, {e}), e)

(* Mutant: the old value is not subtracted.                                 *)
SetOldAdded(k, size, ttl) ==
  /\ items[k] # Nil
  /\ usedBytes' = usedBytes + size
  /\ entry' = [entry EXCEPT ![items[k]].size = size]
  /\ list' = MoveToBack(list, items[k])
  /\ expires' = [expires EXCEPT ![k] = Expiry(ttl)]
  /\ UNCHANGED <<items, getVars, clock, doomed, open>>

(* SetWithExpiration of a key that is there: no eviction.                   *)
SetOld(k, size, ttl) ==
  /\ items[k] # Nil
  /\ usedBytes' = usedBytes + size - entry[items[k]].size
  /\ entry' = [entry EXCEPT ![items[k]].size = size]
  /\ list' = MoveToBack(list, items[k])
  /\ expires' = [expires EXCEPT ![k] = Expiry(ttl)]
  /\ UNCHANGED <<items, getVars, clock, doomed, open>>

(* SetWithExpiration of a new key, and evict.  Which free address the new   *)
(* element gets makes no difference.                                        *)
SetNew(k, size, ttl) ==
  /\ items[k] = Nil
  /\ Elems \ (ToSet(list) \cup Held) # {}
  /\ LET e == CHOOSE x \in Elems : x \notin ToSet(list) \cup Held
     IN  Evict([list |-> Append(list, e),
                entry |-> [entry EXCEPT ![e] = [k |-> k, size |-> size]],
                items |-> [items EXCEPT ![k] = e],
                expires |-> [expires EXCEPT ![k] = Expiry(ttl)],
                used |-> usedBytes + 1 + size])
  /\ UNCHANGED <<getVars, clock, doomed, open>>

(* Delete, and Set of a nil value.                                          *)
Delete(k) ==
  /\ items[k] # Nil
  /\ Leave(Current, {items[k]})
  /\ UNCHANGED <<getVars, clock, doomed, open>>

(* Get, under the read lock: an expired key is given to a new goroutine.    *)
GetExpired(k) ==
  /\ items[k] # Nil /\ Past(expires[k])
  /\ doomed' = doomed \cup {k}
  /\ UNCHANGED <<fields, getVars, clock, open>>

GetLookup(g, k) ==
  /\ elem[g] = Nil
  /\ items[k] # Nil /\ ~Past(expires[k])
  /\ elem' = [elem EXCEPT ![g] = items[k]]
  /\ arg' = [arg EXCEPT ![g] = k]
  /\ UNCHANGED <<fields, forgotten, clock, doomed, open>>

(* Get, under the write lock: the key is looked up again, but the element   *)
(* found before is moved.  MoveToBack ignores an element that was removed,  *)
(* and links in again one that was only forgotten.                          *)
GetTouch(g) ==
  /\ elem[g] # Nil
  /\ list' = IF items[arg[g]] # Nil /\ elem[g] \in ToSet(list) \cup forgotten
             THEN MoveToBack(list, elem[g]) ELSE list
  /\ elem' = [elem EXCEPT ![g] = Nil]
  /\ arg' = [arg EXCEPT ![g] = NoKey]
  /\ forgotten' = forgotten \cap {elem[h] : h \in Getters \ {g}}
  /\ UNCHANGED <<entry, items, expires, usedBytes, clock, doomed, open>>

(* The spawned goroutine deletes whatever the key maps to by now.           *)
DeleteExpired(k) ==
  /\ k \in doomed
  /\ doomed' = doomed \ {k}
  /\ Leave(Current, {items[k]} \ {Nil})
  /\ UNCHANGED <<getVars, clock, open>>

(* Mutant: Cache.Clear takes the lock for reading.                          *)
ClearShared ==
  /\ list' = <<>>
  /\ entry' = [e \in Elems |-> NoEntry]
  /\ items' = [k \in Keys |-> Nil]
  /\ expires' = [k \in Keys |-> Never]
  /\ usedBytes' = 0
  /\ forgotten' = forgotten \cup (ToSet(list) \cap Held)
  /\ UNCHANGED <<clock, elem, arg, doomed, open>>

(* Clear: list.Init forgets the elements without telling them.  Cache.Clear *)
(* holds the lock that Cache.Get holds for reading (cache.go:114, 180), so  *)
(* that no Get is between its halves.                                       *)
Clear ==
  /\ Held = {}
  /\ list' = <<>>
  /\ entry' = [e \in Elems |-> NoEntry]
  /\ items' = [k \in Keys |-> Nil]
  /\ expires' = [k \in Keys |-> Never]
  /\ usedBytes' = 0
  /\ forgotten' = forgotten \cup (ToSet(list) \cap Held)
  /\ UNCHANGED <<clock, elem, arg, doomed, open>>

(* A tick of cleanupLoop.                                                   *)
Cleanup ==
  /\ open
  /\ Evict(Current)
  /\ UNCHANGED <<getVars, clock, doomed, open>>

(* Close ends cleanupLoop; Cache calls it once (cache.go:205).              *)
Close ==
  /\ open
  /\ open' = FALSE
  /\ UNCHANGED <<fields, getVars, clock, doomed>>

Tick ==
  /\ clock < MaxClock
  /\ clock' = clock + 1
  /\ UNCHANGED <<fields, getVars, doomed, open>>

LruNext ==
  \/ \E k \in Keys, size \in Sizes, ttl \in TTLs :
       SetOld(k, size, ttl) \/ SetNew(k, size, ttl)
  \/ \E k \in Keys : Delete(k) \/ GetExpired(k) \/ DeleteExpired(k)
  \/ \E g \in Getters : GetTouch(g) \/ \E k \in Keys : GetLookup(g, k)
  \/ Clear \/ Cleanup \/ Close \/ Tick

LruSpec == LruInit /\ [][LruNext]_lruVars

(* The ticker keeps firing while the store is open.                         *)
FairLruSpec == LruSpec /\ WF_lruVars(Cleanup)

-----------------------------------------------------------------------------
(* The list and the map hold the same elements, each under its own key,     *)
(* and only keys that are there have an expiry: no order of Set, Delete,    *)
(* Clear, eviction, late deletion and the late half of a Get leaves one of  *)
(* the three behind or links a forgotten element in again                   *)
(* (lru.go:79-84, 101-126, 159-161, 173-178).                               *)
ListMatchesItems ==
  /\ LruTypeOK
  /\ ToSet(list) = {items[k] : k \in Keys} \ {Nil}
  /\ Cardinality(ToSet(list)) = Len(list)
  /\ \A k \in Keys : items[k] # Nil => entry[items[k]].k = k
  /\ \A k \in Keys : expires[k] # Never => items[k] # Nil

(* usedBytes, kept by differences in four places (lru.go:116, 126, 162,     *)
(* 178), is the size of what the list holds.                                *)
Accounting == usedBytes = Bytes(ToSet(list), entry)

(* Whoever takes the store further beyond its budget updates a key that is  *)
(* there: an insertion, however large, never does, as evict would rather    *)
(* throw the new element out too (lru.go:122-129, 185-204).                 *)
InsertionsFit ==
  [][MaxBytes > 0 /\ usedBytes' > usedBytes /\ usedBytes' > MaxBytes
       => items' = items]_lruVars

(* An update that outgrows the budget (lru.go:114-120 does not evict) is    *)
(* made good in the end while the store is open, by an insertion or by the  *)
(* cleanup loop (lru.go:129, 207-218).                                      *)
BudgetRestored ==
  MaxBytes > 0 /\ usedBytes > MaxBytes ~> ~open \/ usedBytes <= MaxBytes

=============================================================================
