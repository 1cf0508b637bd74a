# LCache in TLA+

LCache is a cache library in Go: named groups of entries, each with a local
store, a single-flight loader and, optionally, peers reached over gRPC and found
through etcd. This directory holds TLA+ models of its code, TLC configurations
that check them on small instances, and TLAPS proofs about all of them.
`PROJECT.json` maps every definition to the lines it stands for.

## Inventory

| component | code | state | operations | what is hard |
|---|---|---|---|---|
| single-flight loader | `singleflight/singleflight.go` | `sync.Map` of calls, a WaitGroup per call | `Do` | lookup and store are two steps; joiners of replaced calls; a panicking `fn` |
| LRU-2 store | `store/lru2.go` (`lru2Store`) | buckets of two levels, a lock each; ticker | `Get`, `Set`, `SetWithExpiration`, `Delete`, `Clear`, `Len`, `Close`, cleanup loop | two copies of a key; `Clear` and the loop span several critical sections |
| LRU-2 level | `store/lru2.go` (`cache`) | node array, `hmap`, index list `dlnk` | `put`, `get`, `del`, `walk`, `adjust` | index arithmetic around a sentinel, slot reuse |
| LRU store | `store/lru.go` | list, `items`, `expires`, `usedBytes`; ticker | as above | `Get` in two locked halves, delete in a spawned goroutine, byte count kept by differences |
| cache wrapper | `cache.go` | store pointer, flags `initialized` and `closed`, RWMutex | `Add`, `AddWithExpiration`, `Get`, `Delete`, `Clear`, `Len`, `Close` | lazy creation, `Close` racing everything |
| group | `group.go` | main cache, loader, `closed` | `Get`/`load`, `Set`, `Delete`, `Clear`, `Close` | a load overtaken by an update |
| group registry | `group.go` | map `groups` under `groupsMu` | `NewGroup`, `GetGroup`, `ListGroups`, `Close`, `DestroyGroup`, `DestroyAllGroups` | names are reused; a lock taken twice |
| hash ring | `consistenthash/` | keys, replicas, counts under an RWMutex | `Add`, `Remove`, `Get`, rebalancing | writes under a read lock, a lock taken twice, duplicate nodes |
| peer picker | `peers.go` | clients, ring, etcd watch | discovery, `PickPeer`, `Close` | gap between fetch and watch, deletes without a value, failed dials |
| registration | `registry/register.go` | lease, keep-alive channel | `Register`, revocation | expiry of the lease of a live server |
| gRPC server and client | `server.go`, `client.go` | `stopCh`, connections | `Start`, `Stop`, handlers, calls with timeouts | double close, forwarding between nodes, a mark that is not passed on |

How they interact: `Group.Get` asks `Cache.Get` and on a miss calls
`singleflight.Do` with `loadData`, which asks a peer or the application's
`Getter`; every caller then adds the result to the `Cache`. `Cache` creates a
store on the first `Add` and passes calls on to it; the stores run their own
cleanup goroutine and call `onEvicted` back. The server finds groups in the
registry. `Set` and `Delete` of a group with peers spawn a goroutine that sends
the update to the peer the ring names for the key. A server registers itself in
etcd under a lease; every node's picker fetches and watches those keys, dials the
servers it finds and puts them on its ring.

What makes each one correct is stated as the properties below; the hazards, with
their lines, are in `PROJECT.json`.

## Modules

| module | models | granularity |
|---|---|---|
| `SingleFlight` | `Group.Do` | one action per access to the map or the WaitGroup. `Join`/`Miss` are the `Load`, `Store` the `Store` of a call with `Add(1)`, `RunFn`/`FnPanics` the call of `fn`, `Finish` is `Done`, `Delete` the delete and return, `Wake` the return from `Wait` |
| `Lru2Level` | `put`, `get`, `del`, `walk` of a level as operators on a sequence of nodes | pure operators |
| `Lru2` | the two-level store over `Lru2Level` | one action per critical section of a bucket; what a goroutine carries between two of them (`expireAt`, the keys `Clear` has collected, the time of a sweep) is local state. The critical section of the cleanup loop is several steps under the lock: `SweepCollect` walks the bucket, each `SweepDelete` deletes one of the expired keys, and `Unlocked` keeps everybody else out until the last is gone |
| `RecencyLevel` | a level as a bounded recency list (abstract specification) | one action per operation |
| `LinkedLevel` | a level as the code keeps it: array (`slots` is `c.m`), `hmap`, `dlnk` with its sentinel | one action per operation, `Adjust` link by link |
| `LruStore` | the byte-bounded store | one action per critical section; `Get` is `GetLookup` then `GetTouch`, or `GetExpired` then `DeleteExpired`. `Leave` is `removeElement` of a set of elements, `Victims` what `evict` chooses |
| `Cache` | the life of the store below `Cache` | one action per access to `store`, the flags or `c.mu`; Go's RWMutex in two steps, so that a waiting writer keeps new readers out |
| `Group` | a group without peers, its loader included | as in `SingleFlight`; the main cache is an atomic map that may lose entries |
| `GroupRegistry` | the global registry | one action per critical section, `Close` and `Destroy` step by step |
| `ConsistentHash` | the ring, its lock and the balancer | `Add` and `Remove` one action each, `Get` as lookup, write of the count, and total, the balancer as check, then rebalancing |
| `PeerSync` | several nodes and one key: the peer path of `Get`, `Set` and `Delete`, the handlers and the client's calls | one action per call to a peer, its arrival, its answer, its failure; the loader in `Lookup`, `Store`, `Finish` |
| `Discovery` | registration, `Start` and `Stop` of servers; fetch, watch, dial, `PickPeer` and `Close` of a picker | one action per call to etcd, per dial, per access to `stopCh` or `p.mu` |
| `SingleFlightProofs`, `CacheProofs` (of `Cache` and `LruStore`), `GroupProofs`, `GroupRegistryProofs`, `ConsistentHashProofs`, `PeerSyncProofs`, `DiscoveryProofs`, `Lru2Proofs` (of `Lru2` and `LinkedLevel`) | inductive invariants and theorems | |

`Lru2MC`, `LinkedLevelMC`, `GroupMC`, `ConsistentHashMC` and `PeerSyncMC` hold the
symmetry sets, bucket assignments, virtual nodes and peer lists of the instances;
`Lru2MC` also computes `maskOfNextPowOf2` in 16 bits and has TLC compare it with its
definition for capacities 1 to 300 and around every power of two
(`MaskIsNextPowOf2`). The other runs check the component's module itself. The
modules compose downwards: `Group` is checked to use the loader as `SingleFlight`
describes it (`SF!Spec`), `LinkedLevel` to implement `RecencyLevel`, whose
operations are those `Lru2` is built from. `PeerSync` takes `PickPeer` from
`Discovery` and `ConsistentHash` as the choice of any peer or none, because rings
change and differ between nodes.

`LruStore` and `LinkedLevel` call their specification `LruSpec` and `LinkedSpec`, and
name `Init`, `Next` and `TypeOK` alike, because their proofs stand in one module with
those of `Cache` and of `Lru2`.

A value is a version number, a size or a model value. `Mutant of` definitions
change an action the way a slip in the code would; the specifications never use
them. They show for every property that it can fail.

## Runs

| run | question | bounds | distinct states |
|---|---|---|---|
| `sf` | does `Do` leave nothing behind and nobody waiting? | 3 goroutines, 1 key, 4 calls, `fn` may fail or panic | 503,176 |
| `lru2` | what do the two copies of a key keep, is `Clear` complete, do expired entries go? | 2 keys in the first of 2 buckets, capacities 1, a goroutine that sets (3 Sets) and one that clears, TTLs 1 and 2, clock to 1 | 668,076 |
| `linked` | does the linked array implement a recency list? | 4 keys, capacity 3, dead and live nodes | 910, up to symmetry |
| `lru` | do list, maps and byte count agree, who outgrows the budget, is it restored? | 2 keys, 4 elements, sizes 1, 2 and 4 against 4 bytes, clock to 2 | 64,668 |
| `cache` | creation, use and `Close` of the store | 3 goroutines | 5,630 |
| `group` | when can old data be cached? | 3 goroutines, 1 key, 3 calls, 2 writes | 316,547, up to symmetry |
| `registry` | which group does a name stand for, who can block? | 3 goroutines, 2 names, 3 groups | 40,500 |
| `ring` | whom does a damaged ring harm, which keys move, what do the counts mean, who keeps the lock? | 2 goroutines, 3 nodes with 2 virtual nodes, two of which collide, 3 Adds, 2 Gets before the balancer acts | 245,497 |
| `discovery` | what may a picker miss, do stopped servers leave etcd? | 2 servers, 2 starts | 307,723 |
| `peers` | do Gets return whatever peers do, how far does a Set go? | 2 nodes, one of them its own peer, 3 requests, 1 Set, Delete or crash | 259,899 |
| `ring_rebalance` (violated) | does a rebalancing end? | as `ring` | |
| `sync_delete` (violated) | do syncs die out? | 2 nodes, 1 request, 1 event | |

Why the bounds suffice. The interesting cases of the loader need two executors
that overwrite each other and a third goroutine that waits; a fourth call lets a
panicked one stay in the map. In the LRU-2 store a key is set, promoted and set
again while another key competes for the one node of either level, which takes
three Sets; the second bucket is where `Clear` and the cleanup loop can be
interrupted. A size of 4 against a budget of 4 bytes is an entry that never fits,
sizes 1 and 2 outgrow the budget by an update. Keys of different buckets, and
different keys of the loader, do not share state. TTLs 1 and 2 are one that expires
within the run and one that does not. Three Adds enter one node twice beside
another, and three nodes are one that never meets another and two that do; with
two samples instead of 1000 the loads 0, 1 and 2 are already uneven. Two starts are
a restart of one server or the life of two. Three requests are a Get, the request it
causes at a node, and one that joins either.

`CHECK_DEADLOCK FALSE` stands where the system may stop: a panicked `fn` leaves
everybody waiting (`sf`), nothing is left to do after `Close` (`cache`, `group`),
`DestroyGroup` locks itself out (`registry`), the balancer does or the runtime ends
the program (`ring*`), and no start is left (`discovery`).

### Properties

Where a type invariant is not a property of its own it is the first conjunct of a
structural one.

- `SingleFlight`: `TypeOK`, `EntryOwned`, `NoOrphanWaiter`, `ResultBeforeDone` and
  the liveness property `EveryDoReturns`: although executors overwrite and delete
  each other's entries, each entry has an owner that removes it and each waiter an
  executor that wakes it, unless `fn` panicked.
- `Lru2`: `OlderBelow` (the level 1 copy is the newer one), `StaleOnlyAfterLoss`
  (an old value is served only if the last one was evicted with its callback),
  `NoResurrection`, `CalledGone` (what `onEvicted` was told is gone is not served),
  `ClearComplete`, `ExpiredAreRemoved`.
- `LinkedLevel`: `WellLinked`, `ImplementsRecency`; the abstract list keeps deleted
  nodes behind the live ones, so that they are reused first.
- `LruStore`: `ListMatchesItems`, `Accounting`, `InsertionsFit` (only the update of a
  key that is there takes the store beyond its budget), `BudgetRestored`.
- `Cache`: `TypeOK`, `OnceWhileOpen`, `NoPanicWhileOpen`, `OpenIsCurrent`,
  `NoUseAfterRelease`, `AtMostOneRevival`, `OperationsReturn`.
- `Group`: `StaleOnlyByOverlap` (old data comes only from a load that had read the
  source before the last update and added its result after it),
  `ImplementsSingleFlight`.
- `GroupRegistry`: `ClosedIsLeaving`, `NewestStaysRegistered`,
  `EveryOperationReturns`.
- `ConsistentHash`: `OthersIntact` (a double `Add` or a collision of hashes harms
  the nodes it concerns and no other), `CountsWithinTotal` (what the balancer
  compares makes sense although counts are lost), `OnlyTheirKeysMove` (until virtual
  nodes meet, an `Add` or a `Remove` moves no keys but those of the node it is about),
  `RingReturns` (only the balancer leaves the lock taken).
- `PeerSync`: `EveryGetReturns` (nodes may forward a Get in a circle or to
  themselves, and crash), `PeerFailureHidden` (a Get fails only when the own
  getter does), `SetOneHop` (a Set is applied by one other node at most, once).
- `Discovery`: `RingMatchesClients` (no server is on the ring twice or without a
  client), `NoOtherLoss` (what a picker may miss, and nothing else),
  `StoppedLeaves` (a server that has stopped leaves etcd, also when it was stopped
  while it registered), `PickReturns`.

### Where code and comments disagree

Checked, each with a counterexample: the first rebalancing that changes a node waits
for the lock it holds, and the ring is blocked for good (`ring_rebalance`); a Delete
is handed on from node to node, because the handler of Delete does not mark its
context as the one of Set does (`sync_delete`).

Contained in the models, and not checked as findings:

- `Do` may run `fn` several times at once for a key (`Miss` of two goroutines before
  either's `Store`).
- Get of the LRU-2 store may return an overwritten value, when level 1 has evicted
  the newer copy (`StaleOnlyAfterLoss` says that this is the only way); the cleanup
  loop deletes a fresh level 1 copy together with an expired level 2 copy
  (`SweepDelete`), `Len` counts a key in both levels twice, and `Close` leaves the
  cleanup goroutine blocked on its ticker. A `BucketCount` above 32768 makes no
  bucket at all (`MaskIsNextPowOf2`).
- An update in the LRU store may exceed `maxBytes` until the next insertion or
  cleanup (`SetOld`), and the late delete of an expired key may remove a value set
  since (`DeleteExpired`).
- An operation that is past the flag checks when `Close` runs dereferences nil
  (`SetInStore`, `ReadStore`); a store made by an `Add` that was past the check is
  never closed (`Create`, `AtMostOneRevival`).
- A load may put back data older than a Set or Delete (`Add` of `Group`,
  `StaleOnlyByOverlap`).
- `DestroyGroup` and `DestroyAllGroups` never return when the group is open
  (`DestroyClose`); closing a replaced group unregisters its successor
  (`Unregister`, `NewestStaysRegistered`).
- A node that gave its picker `":port"` (`cmd/main.go`) but is registered as
  `"ip:port"` is one of its own peers: its Get may ask itself, join the call it is
  part of and wait for the 3 second timeout (`Ask`, `Lookup`).
- DELETE events of the watch remove no peer (`HandleEvent`); a server put between
  the Get and the Watch, or whose dial fails, is not found (`missed`, `undialled`); a
  closed watch channel is spun on (`WatchBreaks`); an event handled after `Close`
  dials a client nobody closes.
- `Stop` and a failing registration may both close `stopCh`, and the second panics
  (`StopClose`, `RegisterFails`); a server whose keep-alive lapses goes on serving
  unregistered (`Lapse`).
- A Set is synced without a timeout and in no order with others, so that an old value
  may arrive after a newer one (`HandleSet` takes any).

## Fairness

- `SingleFlight`: weak fairness of each goroutine's steps inside `Do`. The Go
  scheduler runs runnable goroutines, the map is never blocked, and `fn` is
  taken to return (the peer call in it has a 3 second timeout, `client.go:62`).
  Calling `Do` is not fair.
- `Lru2`, `LruStore`: weak fairness of the cleanup loop, whose ticker fires until
  `Close`. Callers are not fair.
- `ConsistentHash`: strong fairness of each operation's steps and of the
  rebalancing, for the same reason as below; weak fairness of the check, which a
  ticker starts every second.
- `PeerSync`: weak fairness of each request's steps (goroutines run, getters return,
  a call to a peer ends after 3 seconds) and of the arrival of what is sent to a node
  that runs. A node that crashed need not be restarted. A timeout is one outcome of
  waiting, and may always come first.
- `Discovery`: weak fairness of registration (its calls to etcd answer or fail), of
  the expiry of a lease nobody renews, of the second half of `Stop` and of a dial,
  which ends after 10 seconds; strong fairness of the reader waiting for `p.mu`. The
  picker need not watch, and nobody need start a server.
- `Cache`, `GroupRegistry`: strong fairness of each goroutine's steps inside an
  operation, because a lock may be taken by others again and again: `sync.Mutex`
  and `sync.RWMutex` hand the lock to a starving waiter.

## Assumptions of the models

- Expirations that reach the LRU-2 store are positive (`cache.go:151`, and the
  constant in `Set`). Its clock only moves forward, and `Get` sees one time.
- Keys collected by `Clear` are deleted in any order.
- Any address that nothing refers to may be reused; that is the garbage collector,
  and it keeps calls and list elements finite in number.
- In `LruStore` at most one late delete per key is pending (a second one adds
  nothing it does not do), and `Clear` does not meet a `Get` half way, because
  `Cache` holds its lock (`cache.go:114`, `180`).
- In `Group` the main cache is atomic (`Cache` and the stores refine that) and the
  application updates the source of a key one write at a time.
- In `Lru2` the Sets are one goroutine's and the Clears another's (`Clearers`).
- In `ConsistentHash` positions are small numbers, loads are compared in whole
  numbers, and the keys are kept as the number of copies of each position, because
  they are sorted whenever the lock is free. Two Gets between lookup and count may
  make the runtime abort, and need not.
- In `PeerSync` the loader hands its result to all joiners at once (`SingleFlight` has
  the steps between), and a value is only there or not. `PickPeer` never answers `isSelf`: a picker skips its own
  address.
- In `Discovery` a server keeps its address, a picker whose first fetch fails does not
  exist, a lease is renewed until its process ends or the renewal lapses, and events
  that arrive together are handled one by one.

## Proofs

Each `...Proofs` module extends the module of its component and follows one plan: an
inductive invariant `IInv` (`LinkedInv` for `LinkedLevel`, `LruInv` for `LruStore`),
`Init => IInv`, one lemma per action or kind of action, a step lemma by cases on
`Next`, and `PTL` for the box (`THEOREM Invariance`). The
properties the runs check then follow for every value of the constants that the
component's assumption allows, the bounds included. TLC has checked every `IInv` on
the instance of its run.

| module | theorem | property |
|---|---|---|
| `SingleFlightProofs` | `TypeCorrect`, `NoEntryLeft`, `NoWaiterLeft`, `ResultsAreReal` | `TypeOK`, `EntryOwned`, `NoOrphanWaiter`, `ResultBeforeDone` |
| `CacheProofs` | `TypeCorrect`, `StoreOnceWhileOpen`, `NoNilWhileOpen`, `OneRevival`, `NoStoreLost`, `LockedUseIsSafe`, `FlagMeansStore` | `TypeOK`, `OnceWhileOpen`, `NoPanicWhileOpen`, `AtMostOneRevival`, `OpenIsCurrent`, `NoUseAfterRelease` |
| `CacheProofs`, of `LruStore` | `ListStaysWithItems`, `BytesAreAccounted`, `InsertionsStayWithin` | `ListMatchesItems`, `Accounting`, the action property `InsertionsFit` |
| `Lru2Proofs` | `NewestOnTop`, `EvictedIsGone`, `StaleMeansLost`, `DeletedStaysAway`, `ClearLeavesNothing` | `OlderBelow`, `CalledGone`, `StaleOnlyAfterLoss`, `NoResurrection`, `ClearComplete` |
| `Lru2Proofs`, of `LinkedLevel` | `LevelWellLinked`, `LevelRefinesRecency` | `WellLinked`, the refinement `ImplementsRecency` |
| `GroupProofs` | `StaleOnlyIfOverlapped`, `LoadsAreSingleFlights` | `StaleOnlyByOverlap`, the refinement `ImplementsSingleFlight` |
| `GroupRegistryProofs` | `ClosedGroupsLeave`, `NewestRegistered` | `ClosedIsLeaving`, `NewestStaysRegistered` |
| `ConsistentHashProofs` | `OthersStayIntact`, `CountsStayWithinTotal`, `KeysStayElsewhere` | `OthersIntact`, `CountsWithinTotal`, the action property `OnlyTheirKeysMove` |
| `DiscoveryProofs` | `RingAgrees`, `OnlyTheseAreLost` | `RingMatchesClients`, `NoOtherLoss` |
| `PeerSyncProofs` | `SetsTravelOnce`, `FailuresHidden` | `SetOneHop`, the action property `PeerFailureHidden` |

What the inductive invariants add, and why the properties need it:

- `SingleFlightProofs`: `Local` (what a goroutine knows of its own call at each label,
  for instance that it is not done before `Finish`) and `OneExecutor` (no two
  executors share a call). Without it `Finish` of one goroutine could mark a call that
  another has still to fill, and `Delete` could take away the last owner of an entry.
- `CacheProofs`: the lock excludes (`Exclusion`), one goroutine closes (`OneCloser`),
  how flag, store and count go together at each step of `ensureInitialized` and
  `Close` (`StoreState`), and that before `Close` whoever has passed a check can rely
  on it (`OpenState`).
- `CacheProofs`, second part, of `LruStore`: `Sound` says of any five fields what
  `ListMatchesItems` and `Accounting` say of the store's, the list enumerating the
  elements the map names. It is stated of values and not of variables, because
  insertion builds fields that are sound (`SetNewStep`) before `evict` works on them
  (`EvictKeepsSound`). `Without` is shown to enumerate what it keeps, each once
  (`RanksNumber`, `WithoutEnumerates`), and the lemmas `Bytes...` add and subtract what
  elements weigh. `forgotten = {}` is what `Get` needs: its late half
  would link a forgotten element in again, and it is `Cache`'s lock around `Clear` that
  keeps `Get` from holding one. `VictimsFit` gives `InsertionsFit`: what is left after
  `evict` fits, because with everything gone nothing is left to weigh.
- `Lru2Proofs`: first the operators of `Lru2Level` on levels of any capacity. A level
  is a sequence in which no key occurs twice; put, get and del rearrange its nodes
  (`Renewed`, `Rearranged`), so that all that matters of them is the set of live
  entries: `PutLevel`, `TouchLevel`, `DelLevel`. An operation on the store then removes
  a key from both levels, inserts into level 1, moves an entry down, or leaves both
  sets as they are (`Removes`, `Inserts`, `Promotes`, `Keeps`). `Versions` relates the
  sets: an entry of level 1 is the last Set of its key (which makes it newer than any
  below it when a Get promotes it), one of level 2 is the last Set, or the last Set has
  been lost or is above it, a version belongs to one key, and no live version has been
  called back. `Walking` says what a Clear has still to delete: of the entries older
  than itself those whose key it has collected and those of the buckets it has not
  come to; that is why promotions between its critical sections do not save an entry.
- `Lru2Proofs`, second part, of `LinkedLevel`, for any keys, nodes and capacity: the
  invariant says that the links chain some order of the indices taken so far
  (`Orders`, `Chained`), and that `hmap` and the nodes name each other (`Held`).
  `AdjustAt` works out what the six assignments of `adjust` come to, the cases where
  the index neighbours the sentinel or the first index included; `AdjustMoves` and
  `AdjustMovesBack` that the order then has the index first, or last; `InsertLinks`
  that a new index comes in front. `OneWalk` shows that the links determine the order,
  so that what `walk` meets is that order and no other, and `WalkFirst`, `WalkFinal`,
  `WalkReplaced`, `WalkGrown` compare it with `PutIn`, `TouchIn` and `DelIn`, one step
  of `RecencyLevel` for each step of `LinkedLevel`. Induction along the list is
  replaced by the least position at which two walks differ (`Least`).
- `GroupProofs`: a version on its way to the cache, in a call or in the hands of a
  goroutine that has been woken, is as allowed as one in the cache (`PendingAllowed`),
  because a write that meets a goroutine on its way to the cache marks the key as
  overlapped; the
  executor of a call is one (`OneExecutor`) and the call is for its key (`OneKey`).
  For the refinement, `ShownPc`, `ShownVal` and `ShownArg` are what `SingleFlight` sees
  of a group, and `RefinesInit`, `RefinesCall` and `RefinesNext` map its steps.
- `GroupRegistryProofs`: a name leads to instances of that name only (`Named`), and
  whoever is inside `Close` has closed its instance (`ClosersHaveClosed`).
- `ConsistentHashProofs`: however nodes share positions, a position has at least as
  many copies as virtual nodes of registered nodes lie on it (`EnoughCopies`), so that a Remove takes a
  copy from nobody who shares nothing. For the counts, `Counting` compares the total
  with `Known`, the requests that the counts or a Get between its two accesses to them
  stand for: of two Gets that have read the same count the second writes what was known
  already, so that a lost update cannot raise the sum, and `Remove` and the reset wait
  until no Get is on its way. For the keys, `Owned` (while nothing has met, a position
  on the ring is a virtual node of the registered node that owns it) leaves `AddBrings` and
  `RemoveTakes` to show which positions change, and `FirstStays` that the first
  position from a key on is the same when only others come or go.
- `DiscoveryProofs`: a server is dialled only while it has no client (`DialledOnce`),
  and one that is registered is where the picker still works through, or in one of the
  two places where it is lost (`NothingElseLost`).
- `PeerSyncProofs`: which slot a request is in (`Placed`), that a caller of the loader
  waits at its own node (`Joined`), that a registered call runs (`Registered`), and
  that a Set that travels is the only sync of its call and not yet applied
  (`Travelling`).

Four models were written with their proofs in mind, without a change of what they say
of the code. In `Lru2` the cleanup loop deletes one expired key per step, holding the
lock of the bucket, as the code does, because a fold over the keys is out of the
prover's reach. In `LinkedLevel` the list is the sequence whose indices the links
connect, and not followed by recursion. In `LruStore` removal from the list says which
elements are kept and where each goes (`Without`) instead of filtering with
`SelectSeq`, and `Victims` are the least prefix of the list whose removal suffices. In
`LruStore` and `ConsistentHash` sums over elements and counts are the cardinality of a
set with as many members (`Bytes`, `Counted`). `ConsistentHash` counts a request and
adds it to the total in two steps, as the code does: the balancer reads both without
the lock. The bounds `MaxAdds`, `MaxClock` and `MaxSets` are assumed to be natural
numbers.

Only model-checked are the liveness properties, because fairness and `ENABLED` are out
of the prover's reach: `EveryDoReturns`, `ExpiredAreRemoved`, `BudgetRestored`,
`OperationsReturn`, `EveryOperationReturns`, `RingReturns`, `StoppedLeaves`,
`PickReturns` and `EveryGetReturns`. Every invariant and every action property that a
run checks is proved, and so are both refinements: `SF!Spec` and `Recency!Spec` state
no fairness.

## Not modelled

Left out for good: the hit, miss and load counters, `Stats` and `GetStats` (no decision
of the code reads them), `PrintPeers`, `parseAddrFromKey` (not called), the generated
protobuf code, the demo program, `ByteView` (an immutable copy), TLS and other options
of the server, the methods of `store/lru.go` that nothing calls, the loop of
`rebalanceNodes` after its call of `Remove` (never reached), and logging.
