# TLA+ specifications of distributed-caching

Models, model-checking configurations and machine-checked proofs for the
gateway (`src/gateway`) and the backend (`src/backend`) of the
distributed-caching testbed: a two-level cache in front of a slow backend, with
strategies against cache stampedes (SingleFlight, a distributed lock, early
refresh, adaptive TTLs).

Run a model with `tlc -config MCL1Cache.cfg MCL1Cache`, check the proofs of a
module with `tlapm L1CacheProofs.tla`. `PROJECT.json` lists the runs, the source
lines behind every definition, a mutated definition that breaks each property,
the hazards and the theorems.

## The system

Several gateway instances stand behind nginx. They share one Redis and one
backend. A client request (`Handler.ServeHTTP`) reads the configuration, looks in
L1 (in process) and L2 (Redis), and on a miss fetches from the backend: directly,
through SingleFlight, under the distributed lock, or both.

| Component | State | Operations | Interaction | What is hard |
|---|---|---|---|---|
| Distributed lock, `distributed_lock.go` | a Redis key per cache key, with token and TTL; the waiter's timers | acquire, wait, poll, fetch as owner, release | Redis, L2, the backend call | TTL against a call that may take as long; late releases; lost replies; owners that stop |
| SingleFlight, `singleflight.go` | `h.inFlight`, a call with a channel, a gauge | lead, follow, publish, relay, cancel | mutex, channel, the leader's request context | panics, cancellation, late joiners |
| L1, `l1_cache.go` | map and LRU list | `getL1`, `setL1`, `clearL1` | mutex `h.mu`; the limit comes with each call | two structures, two deadlines, changing limits |
| L2, `l2_cache.go` | Redis values and a sorted set | `getL2`, `setL2`, `removeL2LRU`, `clearL2` | several Redis commands per operation, on all gateways | interleaving between commands, failures, clocks |
| Configuration, `gateway_config_store.go`, `cache_config_handler.go`, `currentGatewayConfig` | Redis: data and version; per gateway: config and version | initialize, read and adopt, save | every request, the controller's loop, `PUT /cache-config` | overtaken readers and saves, partial failure, requests in flight |
| Adaptive TTL, `adaptive_ttl_controller.go` | Redis: snapshot and lock; per gateway: the fields of the controller | loop, reset | Redis, `GET /load`, the configuration | load-adjust-save under a lock that may expire, stale configurations |
| Backend, `handler.go`, `fault.go` | semaphore, `Active`, `Unavailable` | `Get`, `UpdateConfig`, `ActivateFault` | goroutines, a channel that is replaced | replaced semaphore, overlapping faults, cancellation |
| Load signals, `load_signals.go` | slice of samples | record, report | mutex taken after the clock is read | binary search on a slice out of order |
| Request pipeline, `handler.go`, `backend_fetcher.go` | the local variables of a request | look up, fetch, answer, store | calls all of the above | each strategy answers, stores and publishes in another order; values pass their deadline on the way |
| Early refresh, `early_refresh.go` | none | refresh of a value that was hit | between the L2 hit and `setL1` | bypasses SingleFlight and the lock; falls back on a value that may have expired |
| FAF metric, `faf.go` | a Redis marker per key | count a call | inside `fetchFromBackend` | the marker's TTL against the length of the calls |

The frontend, the k6 tests, the experiment scripts, the metrics and the
deployment files carry no state of the protocols and are not modelled.

## Modules

Each component has a module (variables, `Init`, an action per operation or per
step that others can see, `Next`, `Spec`, properties), an `MC` module with its
instances, and, where there are theorems, a `Proofs` module. Definitions whose
comment describes a defect (`SetNXAlways`, `AdoptWithoutClear`, ...) are mutated
forms of the definition after them; the specifications do not use them.

**DistributedLock.** Requests on any gateways run `fetchWithDistributedLock` and
`fetchAsDistributedLockOwner`. Each Redis command, each timer and the end of the
backend call is an action. `Tick` counts the running timers and TTLs down, so
that time is finite without a bound. `stall` counts the ticks that an owner spends
between SETNX and SET outside the backend call; `MaxStall` bounds it. A request
stands for its random token: it can store it only when the lock is absent. After
a request has ended it may come again. Each request has the `BackendTimeoutMs` of the
configuration that it read (`timeout`), from which its lock TTL, its wait and its call
are computed; the history variable `blocker` says that the lock now held is the one
that the request found on arrival, and the lock keeps the timeout of who took it.
`OnlyLongerLocksOutlastWaiters` says when a waiter may give up under that lock: only if
the owner's timeout is longer than its own by more than the margin, hence after a save
that lowers it. It does not promise the waiter a turn: the poll of 25 ms is longer than
the margin of 2 ms, so that a waiter may sleep until its wait is over, and the model has
these 504s (`PollInterval > SafetyMargin`). `AcquireReplyLost` is a SETNX whose reply is
lost, `Crash` a gateway that stops or, for a waiter, a client that disconnects.

**SingleFlight.** One gateway. A call is named after its leader. A fetch ends with
a 2xx, another status, an error or a panic of the proxy; after a panic the deferred
`finishInFlight` publishes status 0, with which `WriteHeader` panics in every
follower. L1 and L2 together are one entry per key that may be dropped at any time.

**L1Cache.** `cache`, `cacheOrder` and two history variables, the order of the uses
since the last clear and the keys that left by expiry. Deadlines are kept as the time
left; a value may come in past its L2 deadline, as after an L2 hit. The limit is
a parameter of each `setL1`, because requests with different configurations
interleave. `KeepsRecentlyUsed` is the other side of the size limit: of the keys used
since the last clear, as many as every limit in use allows are still cached unless they
expired, although a store with a small limit evicts from a cache that larger ones
filled.

**L2Cache, LossyStore.** A client is a goroutine inside one of the four
operations; each Redis command is a step. `Faulty` lets commands fail, operations
be abandoned, and, after `ClocksDisagree`, ZADD insert at any place of the index
(clocks of several gateways, read before the command is sent). The history variable
`disturbed` tells whether two operations have overlapped or a fault has happened:
until then capacity, use order and clearing are promised exactly, from then on
only the refinement is. `bound` is the limit that the last `setL2` enforced.
`LossyStore` is what the rest of the gateway may rely on: a read returns nothing or
the value last stored, and any entry may be lost at any time.
`ImplementsLossyStore` is the refinement; values and the replies of `getL2` are
mapped, the index is internal.

**GatewayConfig.** Requests (`ServeHTTP` with the plain fetch), saves and the
controller's polls on several gateways. Entries of one cache key are told apart
by the version in force when their value was first put into a cache (`born`) and when
they were put into L1 (`put`). A save is its transaction, the adoption with the clear of
L1, the commands of `clearL2` and the controller's `Reset`, and may fail at each; it is
complete after the last. The `SET` and the `ZADD` of `setL2` are one step here. `saved` keeps the configuration of every version, so that
`MGET` is a read of the version. Readers adopt a version that they read before
`configMu` was taken, also an older one.

**Backend.** Semaphores are numbered in the order in which `UpdateConfig` makes
them; a request keeps the one it read. Fault goroutines count ticks.

**LoadSignals.** A sample is its `RecordedAt` and its `Duration`. `sort.Search` may
return any index that its contract allows on a slice that is not sorted. `MaxStall`
bounds the time between `time.Now()` and the lock. `P99Latency` is
`calculateP99LatencyMs` with the percentile as a parameter; `ReportsPercentile`
compares it with the definition of a percentile by counting. The product with 0.99
is exact here; in the code it is a float, whose rounding is not modelled.

**AdaptiveTTL.** Loops of the gateways and goroutines in `Reset` are workers that
share the lock, the snapshot and the fields of the gateway's controller. Factors
are integers in hundredths, thresholds and readings integers. `SlowHolders` says
whether the lock may expire while its holder works; `MayFail` whether commands
fail and gateways restart.

**Gateway.** The composition: requests on several gateways run `ServeHTTP` on one
key with any of the configurations, and with them early refresh, SingleFlight, the
lock, `fetchFromBackend` with the FAF marker, and the stores of the result. Each
part is here as its own module shows it to be: L2 is the `LossyStore` that
`L2Cache` implements, with an expiry; the loop of `DistributedLock` is one wait that
ends with the lock, a value or a failure; a call of `SingleFlight` is its leader; L1
is one value that may go at any time. What the module adds is the order in which
the parts are called and the time that passes between them. A value is the number
of ticks until its `L2Expiration`, so that answers that are too late can be seen;
the key in Redis has a TTL of its own that starts at the SET. The field `route` says
which way a request takes, because the ways differ in what comes first: a plain call
answers, then stores in L2 and L1; the owner of the lock stores in L2, releases,
answers, then stores in L1; an early refresh stores in both, then answers; a leader
publishes last. `stall` bounds the ticks that a request spends outside the backend
call and its waits. As in DistributedLock, lock, marker and call take the timeout of
the request's own configuration; `MaxTimeout` bounds it.

* `ServedOnTime`: `getL2` does not look at the deadline in the value, Redis keeps
  the value up to a stall longer, a failed early refresh serves a value that was
  good a timeout ago, and a leader hands it to followers that are slow in turn. An
  answer is still less than `Lateness` ticks late: the larger of the largest backend
  timeout plus one stall and three stalls. With one tick less TLC finds a
  counterexample.
* `LockAvoidsRefetch`: the second `getL2` under the lock keeps requests that missed
  earlier from fetching what another owner has stored. SingleFlight has no such look;
  its redundant call is a behaviour of the model.
* `CallsAreCoordinated`: with the strategies mixed, calls under the lock exclude each
  other on all gateways, and those of SingleFlight on each gateway; early refreshes
  are exempt, as in the code.
* `CountedCallsDisjoint`: two calls at the same time are never counted as two
  logical refreshes.
* `FollowersHaveLeader`: whichever way the leader's call ends, followers are woken;
  none waits for a call that nobody makes.

## Runs

| Run | Instance | What it shows |
|---|---|---|
| `lock` | 2 requests, 1 key, timeouts 1 and 4, stall 1 below margin 2, poll 3 | `SingleRefresher`, `OnlyLongerLocksOutlastWaiters`, `ReleasedByOwner` and `EveryRequestEnds` hold |
| `lock_stall` | the stall equals the margin | `SingleRefresher` is **violated** |
| `singleflight` | 3 requests, 2 keys, 2 bodies | one call per key, live calls, shared answers, exact gauge; every request is answered |
| `l1` | 4 keys, limits 0, 2 and 3 | map and list agree, use order, no early eviction, size |
| `l2` | 2 clients, 2 keys, 2 values, limits 0 to 2, all faults | refinement of `LossyStore`; until the first disturbance capacity, eviction order, clearing |
| `l2_capacity` | 2 clients without faults | `WithinCapacity` is **violated** |
| `config` | 1 gateway, 1 request, 2 saves, the polls, 3 versions | current requests, no L1 entry from before a save, convergence |
| `config_save` | 2 requests, 1 save | `SaveClearsCaches` is **violated** by a request in flight |
| `backend` | 2 requests, 3 semaphores, 2 faults | exact counts and slots; requests and faults end, the limit holds in the end |
| `load_signals` | 3 goroutines, window 2, stall 1, 2 durations | reports are recent, the latency is the percentile, no sample is lost before it expires |
| `adaptive` | 2 gateways, 1 save, failures and restarts | bounds, hysteresis, resets; once failures end, controllers follow the configuration |
| `gateway` | 2 requests, 2 gateways, 2 configurations with timeouts 2 and 1, stall 1, margins 2 | bounded lateness, coordinated calls, calls counted once, no lost wake-up |

The violated properties are sentences of the repository's README; `findings` in
`PROJECT.json` quotes them:

* The lock's margin is 2 ms (`lockSafetyMargin`). An owner that spends 2 ms on
  `getL2`, the FAF marker and `setL2` beside a backend call of full length loses
  the lock while it refreshes.
* A getL2 that missed removes the index entry of a value stored meanwhile. The
  value is then neither evicted nor cleared, and L2 exceeds its limit. For the same
  reason a `clearL2` that overlaps another operation may leave a value behind, which is
  why `ClearRemovesExisting` is stated up to the first overlap.
* A save clears the caches once. A request in flight whose value was in L2 before the
  save, because it stored it or found it there, puts it into L1 after the clear, and
  requests that come after the save are served that entry.

Two behaviours of the backend are part of its model and shape its properties:
`UpdateConfig` replaces the semaphore under requests that hold the old one, so that
the limit is only promised to hold in the end (`LimitHoldsEventually`); and a fault
goroutine ends every fault, also a later one (`FaultsEnd` promises an end, no
duration).

### Bounds

Small sets suffice for the races that the properties are about: two or three
actors, one or two keys, and enough versions, semaphores or faults for one to be
overtaken by another. In DistributedLock an ended request comes again, so that two
requests give any number of successive owners, late releases included; the safety
properties are proved for any number. Its two timeouts differ by more than the margin,
so that a waiter with the smaller one does give up under the lock of the larger, and
the poll is longer than the margin, as in the code; the proofs cover any timeouts and
intervals. The two positive limits of L1Cache are smaller than the number of keys, so
that stores with either limit evict. `MaxVersion` in GatewayConfig is 3, so that a
reader of version 1 can be overtaken twice and two saves can adopt in the other
order. Its run has one gateway: gateways act on each other only through Redis, and
a save on another gateway is, for this one, a save that fails after its transaction
(`SaveFails`); the proofs cover any number. `MaxSemaphores`, `MaxResets`, `MaxTime`
and `MaxSamples` bound the number of replacements, saves, ticks and samples. The run of
LoadSignals reports the 60th percentile: among three samples the 99th is the largest
one, and an index too small or too large would hardly show. In the run of Gateway an
ended request comes again, so that two requests give any sequence of hits, calls and
refreshes; one configuration has all strategies on, the other SingleFlight alone, and
the change between them happens at any time. A request without SingleFlight does what
a leader without followers does. Its TTLs and stalls are one tick, timeouts one
and two and the margins two, the smallest for which a stall, a call and a TTL can each
run out before another; lock owners of different timeouts meet in DistributedLock.
DistributedLock, SingleFlight, L1Cache and
L2Cache need no bound beyond their sets of actors, keys, values and limits. Symmetry
is used in runs without liveness only, over sets whose members no definition tells
apart. LoadSignals does not check for deadlock because its clock ends.

### Fairness

* DistributedLock: time passes, and a goroutine that can take a step takes one
  (the Go scheduler; every Redis call returns because its context ends).
  Crashes, drops and arrivals are not fair.
* SingleFlight: the goroutine of each request goes on; a fetch ends because of the
  backend timeout. A follower's cancellation is not fair, so that it is not what
  saves a follower.
* GatewayConfig: the controller's loop polls the configuration forever
  (`AdaptiveTTLController.Run`); requests and saves that have begun go on.
* Backend: goroutines and timers run; a channel wakes blocked senders first come,
  first served, which is strong fairness of `Acquire`.
* AdaptiveTTL: loops, resets and releases go on and keys expire. Nothing obliges a
  command to succeed in the end, so `ControllersFollowConfig` is about the behaviours
  in which commands fail and gateways restart only finitely often (`Works`).
* Gateway and LoadSignals state no liveness and no fairness. That requests end is
  shown for the parts that wait, in DistributedLock and SingleFlight.

## Proofs

All for any number of requests, gateways, keys, clients and goroutines, and any
durations and limits that the named assumptions of the modules allow.

* **DistributedLockProofs.** The inductive invariant relates clocks: while a
  request fetches or stores, either it still owns the lock and the lock's TTL covers
  the rest of its call and of its stall, or it has used up the margin. With
  `MaxStall < SafetyMargin` two refreshers would own the same lock. For waiters it
  says that the lock that blocked a request on arrival has at most the time left that
  the wait has, plus what the owner's timeout exceeds the waiter's and the margin by.
  Theorems: `TypeCorrect`, `OneRefresher`, `WaitersOutlastLocks`,
  `LocksReleasedByOwner`.
* **SingleFlightProofs.** Leaders and registered calls correspond one to one; a
  follower points to a call for its key; a published call carries its leader's
  outcome, which the leader has answered. The gauge needs cardinalities of the set
  of waiting requests. `OneCall`, `CallsAreLive`, `AnswersAreShared`, `GaugeIsExact`.
* **L1CacheProofs.** Lemmas on removing from and pushing to lists without
  duplicates; the list's length is the size of the map; moving a key to the front of
  the list and to the end of the uses keeps the two orders mirror images of each
  other. For `KeepsRecentlyUsed`: a use lets a key fall back by at most one place, and
  not at all if the key used was in front of it; the key that is evicted is last in a
  list as long as the limit, so that, the orders being the same, at least that many keys
  were used after it, counting the new one. `ListAndMapAgree`, `RecentKeysStay`,
  `SizeIsBounded`, `ListIsInUseOrder`.
* **L2CacheProofs.** First a step simulation, with all faults: SET is a put, DEL,
  pops' deletions and expiry are drops, GET is a read, everything else stutters
  (`L2ImplementsLossyStore`). Then the index until the first disturbance. The
  invariant (`Undisturbed`) must hold between two commands of the operation that
  runs, where the properties are false or say nothing: a stored key is not indexed yet,
  a used key is last in the order of use and not yet in the index, the index is longer
  than the limit, popped keys still have values, a clear has listed all keys with
  values. `Focus` reduces it to the one client that runs, each command is a lemma about
  that client, and `RemoveOrder`, `ToEndOrder` and `SplitOrder` say what ZREM, ZADD and
  ZPOPMIN do to an order. `L2Typed`, `IndexIsInUseOrder`, `CapacityHolds`,
  `ClearIsComplete`.
* **GatewayConfigProofs.** The versions that readers, polls and gateways hold are
  at most Redis's; L1 of a gateway that has adopted a version holds entries put
  since; a request that adopted the version it read finds the gateway at it or sees L1
  cleared since. `OnlyValidConfigs`, `ConfigAndVersionTogether`,
  `RequestsAreCurrent`, `L1NeverFromBeforeSave`.
* **BackendProofs**, about LoadSignals and Backend. In LoadSignals no time held by a
  goroutine, and no sample, is newer than the clock; a held time is at most a stall old,
  so that a sample appended later is at most a stall older than one before it.
  `SamplesNearlySorted`, `ReportsAreRecent`, `OnlyExpiredDropped`. For the percentile,
  induction on the number of samples shows that they can be sorted (`CanSort`); a
  bijection between the samples of equal duration shows that sorting keeps how many
  take at most d (`SameBelow`); and `IndexRank` that the index is the first which makes
  the percentage, for any number of samples: `LatencyIsPercentile`. The module extends
  both, which is why LoadSignals has `SignalsInit`, `SignalsNext` and `SignalsSpec`.
  The counters of Backend are the sizes of sets of requests that every
  step changes by at most one member; finiteness of these sets is part of the
  invariant, so that nothing is assumed of the number of clients. A semaphore that is
  not made yet has size 0, hence no holders when `UpdateConfig` makes it.
  `HandlingTyped`, `ActiveCountsRequests`, `SlotsAreHeld`.
* **AdaptiveTTLProofs.** For holders that finish within the TTL (`~SlowHolders`):
  a worker past the acquisition owns the lock, and the fields it adjusts are those it
  loaded from the snapshot that is still there. Because the reset's `applySnapshot`
  and the loop share the fields, the invariant also says that nobody else applies
  while a holder adjusts. `SnapshotAlwaysLoadable`, `SharedHysteresis`, `ResetsStand`.

* **GatewayProofs.** Four invariants, each resting on those before it. `WellFormed`
  is the type invariant and says which routes and values go with which step of a
  request. `Led`: a registered call belongs to a request that makes it, and whoever
  fetches under SingleFlight or has yet to publish is registered; so nobody follows a
  call that has ended. `OnTime` bounds, for each route and step, how late a value can be
  by the stall that its request has used up and by the delays before it: the rest of the
  backend timeout, the stall of the request that stored it, the stall of the leader;
  Redis drops a value at most one stall after its deadline. `Guarded`: from acquisition
  to SET the lock is the owner's, with a TTL that covers the rest of its call and of its
  stall, and the marker that a counted call has created outlives the call; so owners,
  and counted calls, exclude each other. It needs `MaxStall` to be smaller than both
  margins (`DurationAssumption`), and that the value for "no lock" is not a lock
  (`NoLockAssumption`). `PipelineWellFormed`, `FollowersAreLed`,
  `NothingServedTooLate`, `BackendCallsCoordinated`, `OneCountedCall`,
  `OwnerRefetchesAlone`.

Only model-checked: liveness (fairness and `ENABLED` are beyond the prover). The type
invariants of SingleFlight, L1Cache, L2Cache, LoadSignals, AdaptiveTTL and Gateway are
conjuncts of the inductive invariants and proved with them; no run repeats them.
Induction is done with the least member of a set of numbers (`LeastNumber`,
`SetInduction` in BackendProofs), as the provers cannot instantiate the library's
induction theorems.

## Not modelled, and the plan

Not modelled: loss of the Redis data (all gateways fail their requests until one is
restarted, and no document describes recovery), the values of durations and
probabilities, float arithmetic beyond hundredths, HTTP details, metrics that the
program does not read. `metrics.go` registers them and `middleware.go` counts
requests after the handler has returned; neither is read back. In Gateway the clocks
of the gateways agree (`L2Expiration` is compared on another gateway than the one
that set it), `L1TTLSeconds` is covered by the loss of the value in L1 at any time,
and the configurations of requests are arbitrary members of a set, as GatewayConfig
explains where they come from. A holder of the controller lock that outlives the TTL
can undo a reset or a reading; the model has the behaviour (`SlowHolders`), the
properties about resets are stated without it.

Every safety property that a passing run checks is also proved. Next: what a bounded
number of overlapping operations can do to the index of L2.
