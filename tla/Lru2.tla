-------------------------------- MODULE Lru2 --------------------------------
(***************************************************************************)
(* store/lru2.go: the two-level store behind Cache.  Buckets are locked    *)
(* one at a time; an action is one critical section of a bucket (that of   *)
(* the cleanup loop, which deletes key by key, is several), and what the   *)
(* code does between two of them (the clock read before the lock in        *)
(* SetWithExpiration, the keys collected by Clear, the time read by the    *)
(* cleanup loop) is kept in the local state of the goroutine.              *)
(* A value is a version: its number in the order of the Sets.              *)
(***************************************************************************)
EXTENDS Lru2Level, FiniteSets

CONSTANTS
  Goroutines,   \* callers of the store: a goroutine that calls Set and
  Clearers,     \* one that calls Clear are told apart
  NBuckets,     \* mask + 1
  BucketOf,     \* hashBKRD(key) & mask
  Cap1, Cap2,   \* CapPerBucket, Level2Cap
  TTLs,         \* expirations given to SetWithExpiration
  MaxClock,     \* bound on the clock
  MaxSets,      \* bound on the number of Sets
  NoKey

ASSUME Lru2Assumption ==
  /\ NBuckets \in Nat \ {0}
  /\ BucketOf \in [Keys -> 0..(NBuckets - 1)]
  /\ Cap1 \in Nat \ {0} /\ Cap2 \in Nat \ {0}
  /\ TTLs \subseteq Nat \ {0}   \* cache.go:151 turns the others away
  /\ MaxClock \in Nat /\ MaxSets \in Nat
  /\ NoKey \notin Keys
  /\ Clearers \subseteq Goroutines

VARIABLES
  l1, l2,    \* bucket -> its two levels, caches[i][0] and caches[i][1]
  clock,
  pc,        \* goroutine -> "idle", "set", "collect" or "delete"
  arg,       \* goroutine -> key and expireAt of the Set it is in
  walked,    \* goroutine -> next bucket Clear walks, keys it has collected
  ticker,    \* cleanupTick: "running", "stopped", or stopped with a tick
             \* still in its channel ("pending")
  sweep,     \* bucket the cleanup loop is at, or Waiting on the channel
  sweepTime, \* currentTime of the cleanup loop, 0 while it waits
  expired,   \* expiredKeys of the cleanup loop that are still to be deleted;
             \* as long as there are any, it holds the lock of its bucket
  sets,      \* ghost: number of versions written
  latest,    \* ghost: key -> number of the last Set, 0 if deleted since
  called,    \* ghost: versions onEvicted has been called with
  cleared    \* ghost: every version up to this one precedes a finished Clear

storeVars == <<l1, l2, called>>
callerVars == <<pc, arg, walked>>
cleanerVars == <<ticker, sweep, sweepTime, expired>>
vars == <<storeVars, callerVars, cleanerVars, clock, sets, latest, cleared>>

Buckets == 0..(NBuckets - 1)
Waiting == NBuckets

(* A level holds each key at most once and never outgrows its capacity.     *)
LevelOK(s, cap) ==
  /\ Len(s) <= cap
  /\ Cardinality(KeysIn(s)) = Len(s)
  /\ \A i \in DOMAIN s :
       /\ s[i].k \in Keys
       /\ s[i].exp \in Nat
       /\ s[i].v \in 1..MaxSets

TypeOK ==
  /\ \A b \in Buckets : LevelOK(l1[b], Cap1) /\ LevelOK(l2[b], Cap2)
  /\ clock \in 0..MaxClock
  /\ pc \in [Goroutines -> {"idle", "set", "collect", "delete"}]
  /\ \A g \in Goroutines :
       /\ arg[g].k \in Keys \cup {NoKey} /\ arg[g].exp \in Nat
       /\ walked[g].next \in 0..NBuckets /\ walked[g].keys \subseteq Keys
       /\ walked[g].mark \in 0..MaxSets
  /\ ticker \in {"running", "pending", "stopped"}
  /\ sweep \in 0..Waiting /\ sweepTime \in 0..MaxClock
  /\ expired \subseteq Keys /\ (expired # {} => sweep # Waiting)
  /\ sets \in 0..MaxSets
  /\ latest \in [Keys -> 0..MaxSets]
  /\ called \subseteq 1..MaxSets
  /\ cleared \in 0..MaxSets

NoArg == [k |-> NoKey, exp |-> 0]
NoWalk == [next |-> 0, keys |-> {}, mark |-> 0]

Init ==
  /\ l1 = [b \in Buckets |-> <<>>] /\ l2 = [b \in Buckets |-> <<>>]
  /\ clock = 0
  /\ pc = [g \in Goroutines |-> "idle"]
  /\ arg = [g \in Goroutines |-> NoArg]
  /\ walked = [g \in Goroutines |-> NoWalk]
  /\ ticker = "running" /\ sweep = Waiting /\ sweepTime = 0 /\ expired = {}
  /\ sets = 0
  /\ latest = [k \in Keys |-> 0]
  /\ called = {}
  /\ cleared = 0

Expired(e, t) == e.exp > 0 /\ t >= e.exp

Unlocked(b) == sweep # b \/ expired = {}

-----------------------------------------------------------------------------
(* Mutant of DeleteBoth: level 2 is looked at only if level 1 has no copy.  *)
DeleteFirst(k) ==
  LET b == BucketOf[k]
      live == IF LiveIn(l1[b], k) THEN l1[b] ELSE l2[b]
  IN  /\ l1' = [l1 EXCEPT ![b] = DelIn(@, k)]
      /\ l2' = IF LiveIn(l1[b], k) THEN l2 ELSE [l2 EXCEPT ![b] = DelIn(@, k)]
      /\ called' = called \cup {e.v : e \in {x \in LiveEntries(live) : x.k = k}}

(* lru2Store.delete: both copies go, and the callback gets the level 1      *)
(* value, or the level 2 value if there is no level 1 copy.                 *)
DeleteBoth(k) ==
  LET b == BucketOf[k]
      gone == IF LiveIn(l1[b], k) THEN {Entry(l1[b], k).v}
              ELSE IF LiveIn(l2[b], k) THEN {Entry(l2[b], k).v} ELSE {}
  IN  /\ l1' = [l1 EXCEPT ![b] = DelIn(@, k)]
      /\ l2' = [l2 EXCEPT ![b] = DelIn(@, k)]
      /\ called' = called \cup gone

(* SetWithExpiration up to the lock: expireAt is computed from the clock.   *)
SetBegin(g, k, ttl) ==
  /\ g \notin Clearers /\ pc[g] = "idle"
  /\ sets < MaxSets
  /\ arg' = [arg EXCEPT ![g] = [k |-> k, exp |-> clock + ttl]]
  /\ pc' = [pc EXCEPT ![g] = "set"]
  /\ UNCHANGED <<storeVars, walked, cleanerVars, clock, sets, latest, cleared>>

(* SetWithExpiration under the lock: put into level 1.                      *)
SetEnd(g) ==
  /\ pc[g] = "set"
  /\ sets < MaxSets
  /\ Unlocked(BucketOf[arg[g].k])
  /\ LET b == BucketOf[arg[g].k]
         e == [k |-> arg[g].k, exp |-> arg[g].exp, v |-> sets + 1]
     IN  /\ l1' = [l1 EXCEPT ![b] = PutIn(@, e, Cap1)]
         /\ called' = called \cup {x.v : x \in EvictedBy(l1[b], e, Cap1)}
         /\ latest' = [latest EXCEPT ![e.k] = sets + 1]
  /\ sets' = sets + 1
  /\ arg' = [arg EXCEPT ![g] = NoArg]
  /\ pc' = [pc EXCEPT ![g] = "idle"]
  /\ UNCHANGED <<l2, walked, cleanerVars, clock, cleared>>

(* Mutant of GetExpired: only the expired copy is deleted.                  *)
GetExpiredOnly(k) ==
  LET b == BucketOf[k]
  IN  /\ LiveIn(l1[b], k) /\ Expired(Entry(l1[b], k), clock)
      /\ l1' = [l1 EXCEPT ![b] = DelIn(@, k)]
      /\ UNCHANGED <<l2, called>>

(* Get of a key whose level 1 copy has expired: delete whatever level 2     *)
(* holds as well; del has already unhooked the level 1 value, so only a     *)
(* level 2 value reaches the callback.                                      *)
GetExpired(k) ==
  LET b == BucketOf[k]
  IN  /\ LiveIn(l1[b], k) /\ Expired(Entry(l1[b], k), clock)
      /\ l1' = [l1 EXCEPT ![b] = DelIn(@, k)]
      /\ l2' = [l2 EXCEPT ![b] = DelIn(@, k)]
      /\ called' = called \cup
           (IF LiveIn(l2[b], k) THEN {Entry(l2[b], k).v} ELSE {})

(* Mutant of Promote: the level 1 node is read but not deleted.             *)
PromoteCopy(k) ==
  LET b == BucketOf[k]
      e == Entry(l1[b], k)
  IN  /\ LiveIn(l1[b], k) /\ ~Expired(e, clock)
      /\ l2' = [l2 EXCEPT ![b] = PutIn(@, e, Cap2)]
      /\ called' = called \cup {x.v : x \in EvictedBy(l2[b], e, Cap2)}
      /\ UNCHANGED l1

(* Get of a live level 1 entry: it moves to level 2 with its expiry, which  *)
(* overwrites an older copy there or evicts the tail.                       *)
Promote(k) ==
  LET b == BucketOf[k]
      e == Entry(l1[b], k)
  IN  /\ LiveIn(l1[b], k) /\ ~Expired(e, clock)
      /\ l1' = [l1 EXCEPT ![b] = DelIn(@, k)]
      /\ l2' = [l2 EXCEPT ![b] = PutIn(@, e, Cap2)]
      /\ called' = called \cup {x.v : x \in EvictedBy(l2[b], e, Cap2)}

(* Get of a key only level 2 knows: _get refreshes the node even when it is *)
(* dead or expired, and reports a miss for those.                           *)
GetLevel2(k) ==
  LET b == BucketOf[k]
  IN  /\ ~LiveIn(l1[b], k) /\ k \in KeysIn(l2[b])
      /\ l2' = [l2 EXCEPT ![b] = TouchIn(@, k)]
      /\ UNCHANGED <<l1, called>>

Get(k) ==
  /\ Unlocked(BucketOf[k])
  /\ GetExpired(k) \/ Promote(k) \/ GetLevel2(k)
  /\ UNCHANGED <<callerVars, cleanerVars, clock, sets, latest, cleared>>

Delete(k) ==
  /\ Unlocked(BucketOf[k])
  /\ DeleteBoth(k)
  /\ latest' = [latest EXCEPT ![k] = 0]
  /\ UNCHANGED <<callerVars, cleanerVars, clock, sets, cleared>>

-----------------------------------------------------------------------------
(* Mutant of Collect: only level 1 is walked.                               *)
CollectLevel1(g) ==
  /\ g \in Clearers
  /\ pc[g] \in {"idle", "collect"}
  /\ Unlocked(walked[g].next)
  /\ LET w == walked[g]
         b == w.next
     IN  /\ walked' = [walked EXCEPT ![g] =
              [next |-> b + 1, keys |-> w.keys \cup LiveKeys(l1[b]),
               mark |-> IF pc[g] = "idle" THEN sets ELSE w.mark]]
         /\ pc' = [pc EXCEPT ![g] = IF b + 1 = NBuckets THEN "delete" ELSE "collect"]
  /\ UNCHANGED <<storeVars, arg, cleanerVars, clock, sets, latest, cleared>>

(* Clear starts with the first bucket: one bucket is walked under its lock. *)
Collect(g) ==
  /\ g \in Clearers
  /\ pc[g] \in {"idle", "collect"}
  /\ Unlocked(walked[g].next)
  /\ LET w == walked[g]
         b == w.next
     IN  /\ walked' = [walked EXCEPT ![g] =
              [next |-> b + 1,
               keys |-> w.keys \cup LiveKeys(l1[b]) \cup LiveKeys(l2[b]),
               mark |-> IF pc[g] = "idle" THEN sets ELSE w.mark]]
         /\ pc' = [pc EXCEPT ![g] = IF b + 1 = NBuckets THEN "delete" ELSE "collect"]
  /\ UNCHANGED <<storeVars, arg, cleanerVars, clock, sets, latest, cleared>>

(* One collected key is deleted, whatever it maps to by now. *)
ClearDelete(g) ==
  /\ pc[g] = "delete"
  /\ \E k \in walked[g].keys :
       /\ Unlocked(BucketOf[k])
       /\ DeleteBoth(k)
       /\ latest' = [latest EXCEPT ![k] = 0]
       /\ walked' = [walked EXCEPT ![g].keys = @ \ {k}]
  /\ UNCHANGED <<pc, arg, cleanerVars, clock, sets, cleared>>

ClearEnd(g) ==
  /\ pc[g] = "delete" /\ walked[g].keys = {}
  /\ cleared' = IF walked[g].mark > cleared THEN walked[g].mark ELSE cleared
  /\ walked' = [walked EXCEPT ![g] = NoWalk]
  /\ pc' = [pc EXCEPT ![g] = "idle"]
  /\ UNCHANGED <<storeVars, arg, cleanerVars, clock, sets, latest>>

-----------------------------------------------------------------------------
(* The channel delivers a tick: the loop reads the clock once for all the   *)
(* buckets.                                                                 *)
SweepBegin ==
  /\ ticker # "stopped" /\ sweep = Waiting
  /\ ticker' = IF ticker = "pending" THEN "stopped" ELSE ticker
  /\ sweep' = 0
  /\ sweepTime' = clock
  /\ UNCHANGED <<storeVars, callerVars, expired, clock, sets, latest, cleared>>

ExpiredIn(s) == {e.k : e \in {x \in LiveEntries(s) : Expired(x, sweepTime)}}

(* The loop goes on to the next bucket, or waits.                           *)
NextBucket ==
  /\ sweep' = sweep + 1
  /\ sweepTime' = IF sweep' = Waiting THEN 0 ELSE sweepTime

(* Mutant of SweepCollect: only level 1 is walked.                          *)
SweepLevel1 ==
  /\ sweep # Waiting /\ expired = {}
  /\ expired' = ExpiredIn(l1[sweep])
  /\ IF expired' = {} THEN NextBucket ELSE UNCHANGED <<sweep, sweepTime>>
  /\ UNCHANGED <<storeVars, callerVars, ticker, clock, sets, latest, cleared>>

(* The loop locks its bucket and walks both levels for expired keys; the    *)
(* lock is given up at once if there are none.                              *)
SweepCollect ==
  /\ sweep # Waiting /\ expired = {}
  /\ expired' = ExpiredIn(l1[sweep]) \cup ExpiredIn(l2[sweep])
  /\ IF expired' = {} THEN NextBucket ELSE UNCHANGED <<sweep, sweepTime>>
  /\ UNCHANGED <<storeVars, callerVars, ticker, clock, sets, latest, cleared>>

(* One of them is deleted from both levels, whichever copy has expired; the *)
(* lock is given up after the last.                                         *)
SweepDelete ==
  /\ \E k \in expired : DeleteBoth(k) /\ expired' = expired \ {k}
  /\ IF expired' = {} THEN NextBucket ELSE UNCHANGED <<sweep, sweepTime>>
  /\ UNCHANGED <<callerVars, ticker, clock, sets, latest, cleared>>

(* Close stops the ticker; a tick may be left in the channel, which stays   *)
(* open.                                                                    *)
Close ==
  /\ ticker = "running"
  /\ ticker' \in {"pending", "stopped"}
  /\ UNCHANGED <<storeVars, callerVars, sweep, sweepTime, expired, clock, sets,
                 latest, cleared>>

Tick ==
  /\ clock < MaxClock
  /\ clock' = clock + 1
  /\ UNCHANGED <<storeVars, callerVars, cleanerVars, sets, latest, cleared>>

Next ==
  \/ \E g \in Goroutines :
       \/ \E k \in Keys, ttl \in TTLs : SetBegin(g, k, ttl)
       \/ SetEnd(g)
       \/ Collect(g) \/ ClearDelete(g) \/ ClearEnd(g)
  \/ \E k \in Keys : Get(k) \/ Delete(k)
  \/ SweepBegin \/ SweepCollect \/ SweepDelete \/ Close \/ Tick

Spec == Init /\ [][Next]_vars

(* The ticker keeps firing and the cleanup goroutine is scheduled.          *)
FairSpec ==
  Spec /\ WF_vars(SweepBegin) /\ WF_vars(SweepCollect) /\ WF_vars(SweepDelete)

-----------------------------------------------------------------------------
(* The entry a Get of k would return now, as a set of at most one.          *)
Serve(k) ==
  LET b == BucketOf[k]
      level == IF LiveIn(l1[b], k) THEN l1[b] ELSE l2[b]
  IN  {e \in LiveEntries(level) : e.k = k /\ ~Expired(e, clock)}

Live == UNION {LiveEntries(l1[b]) \cup LiveEntries(l2[b]) : b \in Buckets}

(* When both levels hold a key, the level 1 copy is the newer one: checking *)
(* level 1 first (lru2.go:60-88) is what makes Get prefer the last Set,     *)
(* across promotions, expiry, cleanup and Clear.                            *)
OlderBelow ==
  /\ TypeOK
  /\ \A k \in Keys : LET b == BucketOf[k] IN
       LiveIn(l1[b], k) /\ LiveIn(l2[b], k) =>
         Entry(l1[b], k).v > Entry(l2[b], k).v

(* A value the owner was told is evicted (onEvicted, lru2.go:261, 288 and   *)
(* 353) is in neither level any more: a callback that releases a resource   *)
(* never releases one that a later Get hands out.                           *)
CalledGone == \A e \in Live : e.v \notin called

(* Get serves an older version than the last Set only if that last version  *)
(* has been lost, with its callback (lru2.go:259-270): the copy it left in  *)
(* level 2 is the one way to see an old value.                              *)
StaleOnlyAfterLoss ==
  \A k \in Keys : \A e \in Serve(k) :
    e.v # latest[k] => latest[k] \in called /\ e.v < latest[k]

(* After a Delete of a key, and until the next Set of it, no copy of the    *)
(* key is left in either level (lru2.go:346-348).                           *)
NoResurrection ==
  \A k \in Keys : latest[k] = 0 => \A e \in Live : e.k # k

(* Clear collects and deletes in separate critical sections                 *)
(* (lru2.go:128-151): whatever other goroutines promote, set or delete in   *)
(* between, every version written before a Clear began is gone once it has  *)
(* returned.                                                                *)
ClearComplete == \A e \in Live : e.v > cleared

(* While the store is open, an expired entry is removed without anybody     *)
(* asking for it (cleanupLoop, lru2.go:366-403).                            *)
ExpiredAreRemoved ==
  \A k \in Keys :
    (\E e \in Live : e.k = k /\ Expired(e, clock))
      ~> (ticker # "running" \/ \A e \in Live : e.k = k => ~Expired(e, clock))

=============================================================================
