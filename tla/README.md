# Cache Server Go: a TLA+ verification project

The server answers `GET/PUT/DELETE /cache/{key}` and the gRPC equivalents from a
process-local cache (L1), Redis (L2) and an origin, and serves binary assets
from process memory and MinIO. Several replicas of the process run side by
side and share Redis, MinIO and the origin; nothing tells a replica what another
one has written. This directory models the parts where that matters, checks
them with TLC and proves what can be proved with TLAPS.

## Inventory

| Part | State | Operations | Talks to |
|---|---|---|---|
| L1 cache, `internal/cache/l1.go` | 256 shards, each a map, the slice `keys` of slots and `evictIdx` | `Get` (three critical sections), `Set` with `evictOne`, `Delete`, `Stats` | called by the manager and the statistics endpoints, from any goroutine |
| Manager, `internal/cache/manager.go` | the two tiers, the singleflight group | `Get`, `fetchFromOrigin`, `doOriginFetch`, `Set`, `Invalidate`, `Stats` | L1, L2, origin; starts a goroutine per fetch that writes to Redis |
| L2 client, `internal/cache/l2.go` | Redis, with a TTL; in cluster mode reads go to replicas | `Get` (an error is a miss), `Set`, `Delete`, `MGet`, `MSet`, `Close` | go-redis, 500 ms timeouts and retries |
| Origin, `internal/origin/origin.go` | none | `Fetch`: sleeps, or fails when its context is cancelled | called by the manager |
| Asset cache, `assetCache` in `internal/binaryhandler/handler.go` | map of assets, `curBytes` | `get`, `set` with its eviction loop, `remove` | called by the binary handlers |
| Binary handlers, same file | MinIO objects, Redis hash per asset, Redis set of names | `upload`, `serveAsset`, `getMeta`, `deleteAsset`, `listAssets` | MinIO, Redis, asset cache |
| HTTP API, `internal/handler/handler.go` | none | `getCache`, `putCache`, `deleteCache`, `batchGet`, statistics, health, middleware | manager, metrics |
| gRPC API, `internal/grpcserver/server.go` | none | the same plus `BatchSet` | manager, metrics |
| Metrics, `internal/metrics/metrics.go` | atomic counters | `Snapshot` and its ratios | everyone counts |
| Start-up and shutdown, `cmd/server/main.go` | the process | connect, serve, drain, close | all of the above |
| Configuration, `internal/config/config.go` | none | typed environment lookups | start-up |
| Edge proxies, deployment, scripts | third-party configuration and load generators | | |

What is hard here:

* **Reads decided on stale state.** `L1Cache.Get` looks at an entry outside the
  lock and deletes the key afterwards; `Manager.Get` fills L1 with what it read
  from Redis some time ago; `serveAsset` caches what it read from MinIO.
* **Two tiers, no common lock.** `Set` and `Invalidate` touch L1 and Redis in two
  steps; uploads and deletions of an asset take four, and carry on when one
  fails.
* **Commands whose fate is unknown.** A call that timed out may still arrive, the
  client libraries retry, and the back-population after a fetch is not awaited.
* **Dependence on somebody else's call.** With singleflight a request waits for
  the leader's fetch, under the leader's context.
* **Bookkeeping that must stay in step with a map:** `keys`/`evictIdx` in L1, whose
  slots go stale when keys are deleted, and `curBytes` in the asset cache.
* **Numbers of different moments.** Every counter is an atom of its own: a request
  adds to several, one after the other, and `Snapshot` loads them in between.
* **A process that starts and stops in pieces.** gRPC serves before HTTP does, the
  goroutine that shuts down starts beside `main`, a signal may come at any moment,
  and Redis may never have been there.

`PROJECT.json` lists each of these hazards at its line, with the properties that
watch it.

## Modules

| Module | Models |
|---|---|
| `LossyMap` | what a cache tier promises its caller: a lookup returns the value the key had at some moment during the lookup, or misses; the tier may forget anything at any time |
| `L1Cache` | `l1.go`, one step per critical section; `INSTANCE`s `LossyMap` for the refinement |
| `L1Stats` | `L1Cache` with history variables, for what the sum of `Stats` is worth |
| `Manager` | `manager.go` with the parts of `l2.go` and `origin.go` it uses, for several servers and requests |
| `ManagerCoherence` | `Manager` with history variables, for what a client may rely on after a write |
| `ManagerWrites` | `Manager` with history variables, for what an `Invalidate` promises while `Get`s run |
| `AssetCache` | `assetCache` |
| `BinaryHandler` | `upload`, `serveAsset`, `deleteAsset` for several servers and requests |
| `BinaryCoherence` | `BinaryHandler` with history variables, for what a client may rely on after a write |
| `Metrics` | `metrics.go` and every place that counts |
| `Config` | `envSlice` of `config.go`, with a definition of what it should compute |
| `Server` | `main.go`, with the gRPC and HTTP handlers as `main` sees them; extends `Config` |
| `MC...` | the instances TLC runs |
| `..._proofs` | theorems and proofs |

### L1Cache

`items` holds all shards' maps as one function on keys (a key lives in one shard
only, `Live(s)` is the map of shard `s`); `keys[s]` and `evictIdx[s]` are the
shard's fields. FNV-1a is a constant `ShardOf`. `Set` is one step because it
holds the shard's lock throughout, eviction included. `Get` is `GetRead` (under
RLock), `GetCheck` (no lock; the entry is the pointer read before) and `GetDelete`
(under Lock). `Stats` reads one shard per step. `Tick` is the clock. `L1Stats` adds
which keys were in the cache all the time a `Stats` ran and which at some time;
the sum lies between them (`StatsWithin`).
The floor on a shard's capacity (64) and the shard count (256) are constants.

Two things the model shows and no property states: `keys` only ever grows
(`l1.go:32` calls it a ring buffer), which is why `MaxSlots` has to cut it; and
the victim is the entry inserted first, whether or not it was refreshed since
(`l1.go:17` says LRU).

### Manager

A value is a version number; each origin fetch and each `Set` brings a new one
and 0 is absence. A request is a record with a program counter. The steps follow
the code: L1 lookup, Redis lookup (any error is a miss), `group.Do` (`Lead` or
`Join`; without singleflight every request leads), the origin's answer, the L1 write,
the end of the call. `Set` and `Invalidate` write L1, then Redis. The goroutine
that back-populates Redis, a command whose caller got an error, and the earlier
copy of a retried command are in `pending`: they arrive later (`PendingApply`)
or never (`PendingLose`). L1 is used through what `LossyMap` promises; `DropL1`
is its forgetting, which includes the lazy delete of a fresh entry. A Redis
replica may lag (`rep`) if `ReadReplicas`. `Cancel` cancels a request's
context: it makes the origin fail, for the leader and for everyone who joined,
and commands to Redis may fail anyway. `Crash` empties a server's memory and
breaks off its requests.

`ManagerWrites` notes, for each request, the last version that existed when it began and
whether any `Set` of its key has run since. That is what it takes to tell
a `Set` that rightly brings a value from a `Get` that wrongly restores one, when
a slot for requests may have been used again in between.

External, modelled from how the code uses them: singleflight, go-redis, Redis. Redis
is modelled without persistence (`DropL2` may forget anything), as every configuration
in this repository starts it (`--save ""`, `appendonly no`). The
Sentinel failover of `docker-compose.prod.yml`, in which a replica that lags becomes the
master, is not modelled.

### AssetCache and BinaryHandler

`AssetCache.set` is one step (it holds the lock). The eviction loop is described
by the set of assets it removes, oldest first and any order among equal
times. `curBytes` is the code's counter, which `Held` (the bytes really in the
map) is compared with. The bytes of some assets are counted as a set of pairs, an
asset and one of its bytes (`Bytes`), so that sums follow the laws of cardinality.

In `BinaryHandler` the calls of an upload (`put`, `hset`, `sadd`) and of a
deletion (`rem`, `del`, `srem`) are one step each, in the order `After`. A failing
`PutObject` ends the upload; every other failure is logged and ignored.
`serveAsset` looks into the cache, asks MinIO about the object (`obj.Stat`),
reads it, and caches it. The MinIO client reads the object it asked about (it
sends the ETag) or fails. The cache stores and may evict anything else, never
expires. Not modelled: the 400 and 503 answers given before any call, content
types, and the read-only `getMeta` and `listAssets`.

### Metrics

One step per atomic operation. A request is a batch of `Get`s (a single `Get` is
a batch of one) or an RPC that gets nothing; each `Get` goes through the tiers,
which here only hit, miss or fail, and through singleflight, because who joined
decides who counts as coalesced. `TotalLatencyNs` is the number of terms added to
the sum, which is what an average over it depends on. `Snapshot` loads the four
counters whose relation to each other it reports in the code's order
(`LoadOrder`), skipping the latencies when there was no request.

`jitter` is the origin's, fixed at the start: if it is not positive,
`rand.Int63n` panics at every call of the origin (`OriginPanic`). singleflight panics in
everyone who joined as well, before anybody is told that the call was shared; the deferred
`RecordLatency` of each `Get` still counts it, the rest of its batch is given
up, and then `RecoveryMiddleware` answers (`Recovered`) or, in an RPC, the process ends and
another one starts with counters at zero (`Dies`). The other panic, on a Redis client
that is nil, is `Server`'s: such a process does not live long enough to report numbers.

The model settles what the numbers mean: `TotalRequests` counts `Get`s plus RPCs, so
an RPC that gets counts twice (`RequestsBalance`); `OriginErrors` includes Redis
errors (`TiersBalance`); `CoalescedCalls` counts the leader as well, so it is up to
twice the calls that were spared, and none of a call that panicked
(`CoalescedBounds`); and `OverallHitRate` may exceed
one, by what is in progress (`HitsWithinRequests`).

### Server and Config

`main` is the place of the main goroutine, from `config.Load` to its return, or how
the process ended: in order, by `os.Exit(1)`, by a panic, or killed by a signal
nobody had asked for yet. `l2` is the Redis client, which `mustCreateFallbackL2`
may leave nil; `BuildHTTP` dereferences it (`l2.Client()`). `stop` is the place of
the shutdown goroutine: `GracefulStop` (no new RPCs), `Drained` (the old ones have
returned), `CloseHTTP` (connections cut, contexts cancelled); `main` then returns
and closes Redis, with HTTP handlers possibly still running, as the code does.
A request is a number of keys, handled one at a time; a key succeeds, fails or
panics (which ends the request over HTTP and the process over gRPC), a `Get` failing only if a client went away and panicking if Redis is nil or
the origin's jitter is not positive. A deletion is a `set` of one key.

`envSlice` is the loop over the characters of `REDIS_ADDRS` (`Scanned` is where it stands
after each of them); `IsItems` says without a loop which list a string means. `Load`
applies the one, `AddrsRead` compares with the other.

## Runs

| Run | Expect | Shows |
|---|---|---|
| `l1_cache` | pass | `TypeOK`, `SizeBound`, `SlotsAhead`, and the refinement `ImplementsLossyMap` |
| `manager` | pass | one origin fetch per key and server (`OneFlight`), no waiter without a leader (`NoOrphanWaiter`), every request returns (`RequestsComplete`), and a `Get` fails only because the client of the fetch it depends on went away (`GetFailsByCancelOnly`) |
| `manager_inval` | violation | a fill that read Redis before an `Invalidate` restores the deleted version in L1, no `Set` having run (`InvalidateRemovesBoth`) |
| `coherence_alone` | pass | a write that ran alone on its key is never undone (`IsolatedWritesStick`), reads going to the masters |
| `coherence_replica` | violation | with replica reads it is |
| `binary_writes` | pass | `OnlyStored`, `NeverGoesBack`, `WriteRepairs` |
| `binary_delete` | violation | an asset deleted through one server is served by another |
| `asset_count` | pass | `curBytes` never exceeds the bytes held (`NeverOvercounts`) nor the budget (`CountWithinBudget`) |
| `asset_held` | violation | overwriting the oldest asset subtracts it twice: the bytes held exceed the budget |
| `metrics` | pass | the counters fit together at every moment (`TiersBalance`, `RequestsBalance`, `CoalescedBounds`) and a snapshot nearly so (`HitsWithinRequests`, `AverageCovers`) |
| `server` | pass | `AddrsRead`, `DrainedBeforeClose`; every signal that is heard ends the process (`ShutdownEnds`), every accepted request is answered (`RequestsAnswered`) |
| `server_degraded` | violation | without Redis the process panics instead of running in degraded mode |

`ImplementsLossyMap` is why `Manager` may treat L1 as a map that forgets.
`IsolatedWritesStick` is the strongest statement about coherence that holds: a
concurrent fill, a second write or a late command can each undo a write
(`manager_inval` shows the first), but a write that met none of these is safe from everything that
comes after it. `NeverGoesBack` is the same statement for assets, on the server
that handled the write; `WriteRepairs` says that such a write also puts the
metadata and the list right again, whatever failures and races left behind.

### Bounds

* `l1_cache`: two keys collide in a shard of one entry, which is the floor (a `maxSize` of
  1 over two shards rounds down to 0); two values, two goroutines;
  `TTL` 0 and two instants, so an entry can be fresh or expired; `MaxSlots` 5: slots
  go stale, are skipped by `evictOne`, and their keys are inserted again, more than
  once. The invariants and the refinement are proved without bounds.
* `manager`: two requests on one server, one key: singleflight and the tiers treat
  keys independently, and one request can wait behind, or overtake, the other.
  `MaxClock` 3 allows two new versions besides the initial one, enough for an
  old one to overtake a new one. No symmetry: it is unsound for liveness. More
  requests add waiters behind the same leader; the invariants are proved for any
  number.
* `coherence_alone`: two servers, a request on each, no singleflight.
  `coherence_replica`, `manager_inval`: one server, two requests.
* `binary_writes`: two requests on one server share its cache; `MaxClock` 3, and
  one late call at a time (`MaxLate`): a call that is not followed is lost.
  `binary_delete`: a request on each of two servers.
* `asset_count`: three assets of 0 to 3 bytes, a budget of 4, three times;
  `MaxDrift` cuts how far below zero `curBytes` is followed.
* `metrics`: two requests in all (`MaxReqs`), of up to two `Get`s (`MaxBatch`), for one
  key: one can join the other's call, both can be in progress while a snapshot is
  taken, and a batch meets a second leader or waiter; an `ORIGIN_LATENCY` of 3 and of 4
  ns, whose quarter is 0 and 1. Requests are symmetric.
* `server`: every `REDIS_ADDRS` of up to four characters over a comma and two others
  (leading, trailing, doubled and only commas, one and two addresses); a jitter
  of 0 and of 1; two requests at a time, any number one after the other, of up to two
  keys. `server_degraded`: one address, which plays no part.

Deadlock is checked but in the two server runs, where the process ends: elsewhere a
request can always come in, the clock bound leaves deletions enabled, a snapshot can
always be taken, and `L1Cache` always allows a read.

### Fairness

`manager` and `server` assume weak fairness and the other runs none.

In `manager` it is of each request's next step and of each command in flight. Redis
calls end by the client's dial, pool, read and write timeouts (`l2.go:42-46`), the
origin by its sleep or its context, a waiter's own step is the leader's, and the
back-population runs under a 2 s context (`manager.go:110`).

In `server` it is of `main`, of the shutdown goroutine and of each handler: the Go
scheduler runs them all, and what they call ends for the reasons above. `main` waits
for `Close` while it serves and the shutdown goroutine for a signal and for the
running RPCs; those are guards, not assumptions.

Nothing is assumed of clients, signals, crashes, expiry or Redis' answers, and no
fairness makes a call succeed.

## Proofs

| Theorem | States |
|---|---|
| `L1TypeCorrect`, `L1SizeBound`, `L1SlotsAhead` | `Spec => []TypeOK`, `[]SizeBound`, `[]SlotsAhead` |
| `L1StatsWithin` | `SSpec => []StatsWithin` |
| `L1ImplementsLossyMap` | `Spec => Abs!LossySpec` |
| `ManagerTypeCorrect`, `ManagerOneFlight`, `ManagerNoOrphanWaiter` | `Spec => []TypeOK`, `[]OneFlight`, `[]NoOrphanWaiter` |
| `ManagerGetFails` | `Spec => GetFailsByCancelOnly`, an action property |
| `AloneWritesStick` | `~ReadReplicas => (CSpec => []IsolatedWritesStick)` |
| `BinaryTypeCorrect` | `Spec => []TypeOK` |
| `BinaryOnlyStored`, `BinaryNeverGoesBack`, `BinaryWriteRepairs` | `BSpec => []OnlyStored`, `[]NeverGoesBack`, `[]WriteRepairs` |
| `AssetNeverOvercounts`, `AssetCountWithinBudget` | `Spec => []NeverOvercounts`, `[]CountWithinBudget` |
| `MetricsTypeCorrect`, `MetricsTiersBalance`, `MetricsRequestsBalance`, `MetricsCoalescedBounds` | `Spec => []TypeOK`, `[]TiersBalance`, `[]RequestsBalance`, `[]CoalescedBounds` |
| `MetricsHitsWithinRequests`, `MetricsAverageCovers` | `Spec => []HitsWithinRequests`, `[]AverageCovers`, what a snapshot may report |
| `ServerTypeCorrect`, `ServerDrainedBeforeClose`, `ServerAddrsRead` | `Spec => []TypeOK`, `[]DrainedBeforeClose`, `[]AddrsRead` |

For every set of keys, values, servers, requests and goroutines, and every
capacity, budget and TTL; the assumptions are the named ASSUMEs of the modules, where
what is counted (the keys of the two caches, the requests of `Metrics`) is finite.

**L1.** `SizeBound` is not inductive: if `evictOne` found no live slot in a full
shard, `Set` would insert all the same. The strengthening is `SlotsAhead`, every
live key has a slot at or after `evictIdx`, together with `SlotsOfShard`, a shard's
slots hold its own keys. `SlotsAhead` itself survives an eviction because
`evictOne` stops at the first live slot, so what it steps over is stale, and
because the modulus brings `evictIdx` to 0 exactly when the last slot is taken.
`StatsWithin` speaks of the shards a `Stats` has read so far: its next step adds
the shard's size, which is at least the keys that have been there throughout and at
most those that have been there at all (`Histories`), and no other step touches a sum.
No run repeats it: an instance needs two shards, keys that share one of them and
goroutines beside the one that adds up.
The refinement then goes action by action; `GetDelete` maps to the step in which
the map forgets the key and the lookup misses.

**Manager.** `TypeOK` carries the one semantic fact the rest needs: no tier,
request or command holds a version beyond `clock`, and the requests that carry a
version are exactly the ones about to store it. `OneFlight` and `NoOrphanWaiter`
are not inductive, alone or together: that nobody starts a second call depends on
every entry of `flight` having a leader that is fetching just that key on that
server, the converse of `OneFlight`. `Flights` adds it. Most steps move one request
without touching `flight` and fall under one lemma; starting a call, ending one
and a crash, which takes the waiters along with the leader, have one each.
`ManagerGetFails` follows from `Flights`, which names the leader a waiter fails with, and
from `OpsInPlace`, only a write is at the steps of a write.

**Coherence.** `IsolatedWritesStick` speaks of L1, Redis, commands in flight and
requests at once, since each may put an old version into the next. It becomes
inductive with `FloorsReached` (a version not created yet lies above every floor)
and `IsolatedInL1` (while it runs alone, a write finds in L1 what it put there).
Each action is first summarised by what it may do to L1, Redis, the commands and
the requests' values, and the invariant is shown to survive the summary.

**Server.** The order of the shutdown is a chain of facts about five variables:
what `main` has passed, what the shutdown goroutine has passed, and the state of
the two servers and of the Redis client. `Phases` ties them together place by place;
`RpcsServed` adds that an RPC runs only while the gRPC server is up. With the types the
conjunction is inductive and implies `DrainedBeforeClose`.

**Configuration.** `AddrsRead` rests on `EnvSliceItems`: for every string, the loop of
`envSlice` returns its items in their order, or the fallback if there is none. The
loop invariant is `Collected`: after `i` characters the list holds the items that
started before, and either the loop is between two items, or the current one is a
part of the string without a comma. The library's induction theorems have an operator as
parameter, which these provers cannot instantiate; `SetInduction` states
induction for a set of numbers instead, from the well-foundedness of `<`, and also
justifies the recursive function (`ScannedDef`). In `Server`, only `Load` and
`PingFails` lead to a place where the list is still to be used, and the latter leaves
it alone.

**Binary handlers.** `Effect` (in `BinaryHandler_proofs`) summarises what any step may do
to MinIO, Redis, the caches, the calls in flight and one request. The coherence
properties are about writes that ran alone on their key (`Alone`): while one does,
nobody else changes what MinIO and Redis have for that key, except that Redis
may evict (`AloneKeeps`). So each call the request has made keeps its effect
(`Progress`), and once it has made the last one everything is in place
(`WriteRepairs`). From then on no call for the key may be in flight until the
next write begins (`Quiet`), and `FloorsReached` places every later upload above the
floor. `OnlyStored` needs that what a request holds after `PutObject` or `Stat` was stored
(`HeldStored`).

**Asset cache.** The two properties are inductive only together: if `set` evicts until
the count fits, `CountWithinBudget` is immediate; if it has evicted everything, the
count is what the eviction left, which `NeverOvercounts` bounds by zero bytes held. That
`NeverOvercounts` survives an overwrite which evicts the asset it replaces is the
other case: the size is subtracted twice, and the count only falls further behind.

**Metrics.** A property relates counters to the number of requests at some places; each
step moves one request, which changes such a number by one or not at all
(`NumberChanges`), except the end of a singleflight call, by return or by panic, which
moves all who joined, and the death of the process, after which there are none.
`RequestsBalance` needs that only RPCs are where an RPC is counted (`RpcOnly`);
`TiersBalance` is strengthened by how many errors each place has counted (`ErrorsBalance`);
`CoalescedBounds` by one spared call per key that somebody waited for (`SpareBound`),
and by `NoReturns`: without jitter no call returns, so that nobody comes to count it as shared.
The snapshot is four loads at four moments: `HitsBound` and `LatencyBound` hold
at every moment, and since the counters only grow, what was loaded first stays
below what is loaded later (`SnapBounds`).

Only model-checked: the three liveness properties (`RequestsComplete`, `ShutdownEnds`,
`RequestsAnswered`), which rest on fairness and are out of this prover's reach. The
five violations are counterexamples, found by TLC. Every other property of a run is
proved.

## Disagreements with the documents

The five violations each contradict a line of the repository, which its finding in
`PROJECT.json` quotes. Others the models show without a run of their own:

* `cache.proto:27` says that `BatchSet` "writes multiple key-value pairs atomically". The
  loop of `server.go:154` writes them one by one, carries on after a failure and undoes
  nothing: `Server` answers such a request with any split of `ok` and `fail`.
* `metrics.go:26` says that `Snapshot` is a "point-in-time copy". A hit counted after
  `L1Hits` was loaded, by a request that is counted before `TotalRequests` is, is in one of
  them only; `HitsWithinRequests` and `AverageCovers` say what does hold.
* `manager.go:123` calls `Set` write-through. The back-population of an earlier fetch may
  arrive in Redis after a `Set` was acknowledged, and replace what it wrote.
* `handler.go:305` says that a deletion removes the asset from the cache. A request that
  had read it from MinIO before puts it back afterwards (`handler.go:267`), for good.
* `l1.go:17` says LRU and `l1.go:32` ring buffer, see L1Cache above; `handler.go:24` says LRU
  of the asset cache, whose `get` does not touch `cachedAt`: it evicts the oldest.

## Not modelled

* `MGet` and `MSet` have no caller. The scalar lookups of `config.go` are one call of the
  standard library each.
* FNV-1a in `getShard`: which keys collide changes the load of a shard and nothing a
  property states; `ShardOf` is any function.
* Time-outs as durations: a call may fail at any moment instead. So the HTTP server's
  `WriteTimeout` against a long `batchGet` is not covered.
* The binary handlers' share of start-up (`binaryhandler.New` with MinIO down) beyond
  their 503 answers, content types, and the read-only `getMeta` and `listAssets`.
* Edge proxies (`nginx`, `varnish`, `haproxy`, `squid`): configuration of third-party
  programs whose semantics is not in this repository.
* Deployment, monitoring and load-test scripts: no logic of the running system. The
  JavaScript files under `sample-assets-small` are upload payloads, random one-line
  functions written by `scripts/generate_small_assets.sh`; no program here runs or reads
  their content, and no definition of this project stands for them.

## Plan

Done: L1 and its abstract map, the manager and its coherence, the asset cache, the
binary handlers, metrics, start-up and shutdown with the request layer, `envSlice`; the
proofs listed above, which cover every safety property of the passing runs. Left, in
this order:

1. An abstract map for the asset cache, as `LossyMap` is for L1, which `BinaryHandler`
   may then be shown to use as it assumes.
2. A refinement for `Server`: the life of a process as its supervisor sees it.
3. The edge caches, for how long a deleted asset stays visible through them.
