# Verification of wolf-core

TLA+ models of the parts of wolf-core in which order, concurrency or failure
decides correctness, TLC runs over small instances of them, and TLAPS proofs of
the results that matter most. `PROJECT.json` maps every definition to the lines
it models and lists components, runs, mutants, findings, hazards and theorems.

## 1. The system

wolf-core is a Go framework for modular services. Its parts meet in one path: a
request changes aggregates in a **unit of work**, which commits the rows and the
**outbox** rows of their events together; the **relay** claims outbox rows and
publishes them to a **stream** (NATS JetStream); **consumers** handle the
messages behind an **inbox** that removes duplicates. Commands take a second
path through the **messenger**: a bus routes them to a transport (a channel or
again the outbox table) and a worker dispatches them later. **Requests** come in
through chains of HTTP or gRPC middleware, with access rules, sessions and a
transaction of their own; queries are answered from a two-level **cache**;
rate limiters, breakers and pools bound what runs at a time. **Bootstrap** reads
the configuration, opens everything, orders and starts modules, runs servers and
workers, and closes everything.

### Inventory

| Part | State | Operations | What makes it hard | What makes it correct |
|---|---|---|---|---|
| Outbox store and relay `infra/events/outbox` | table rows (claim, token, retry count), each worker's batch | insert, claim, publish, mark, release, dead-letter, clean up | several workers, leases that run out, crashes between statements, one context for a whole poll | nothing lost, nothing settled early, leases exclude, retries counted right, everything settles |
| Unit of work `uow`, `tx`, `infra/db/tx.go`, `aggregate` | aggregate in memory, its pending events, transaction, tables | add event, execute, drain, insert, commit, roll back | failure after draining, unknown outcome of COMMIT, panics | tables hold a change iff they hold its event |
| Inbox and consumers `infra/events/inbox`, `infra/events/nats`, `messaging` | broker state per message, markers, callbacks | deliver, check, handle, mark, ack, nak, redeliver, clean up | redelivery during handling, lost answers, three kinds of handler | acknowledged only if handled; handled at most once behind `Processor`; everything acknowledged in the end |
| Messenger `messenger/...` | channel or rows, claims, loops, bus and transport state | dispatch, send, get, handle, retry, ack, reject, close, cancel | full and closed channels, claims without tokens, stamps that survive transport | nothing lost or duplicated while the process lives, retries earned, loops stop |
| Life cycle `infra/bootstrap`, `infra/modular`, `infra/concurrency/shutdown.go`, servers, in-process bus | open resources, module order, goroutines, requests, handlers | New, register, sort, start, serve, stop, shut down | failure halfway, signals during start-up, requests that hang | nothing leaks, nothing is closed under running work, everything ends |
| Cache `infra/cache`, `cqrs`, `infra/decorator` | L1 of each pod, flights, Redis | get, promote, set, evict, invalidate | a read that crosses a write, failed evictions, shared flights, entries that do not decode | staleness is bounded by the times to live and comes only from races |
| Sessions `infra/auth` | blacklist over the cache, active cache of each pod, database | validate, check, store, revoke, blacklist | a check that crosses a revocation, a blacklist that loses or fails | a revocation is seen within the TTL of the active cache |
| Requests `infra/middleware`, `infra/http`, `infra/grpc`, `infra/di` | position in the chain, transaction, counters, container | every middleware on the way down, up and in a panic; handlers | panics, commits that fail after the reply, a container all requests share | a reply after the transaction tells its outcome, nothing leaks |
| Limits `infra/ratelimit`, `infra/resilience` | windows, buckets, breaker, slots | allow, retry, trip, acquire | window boundaries, check-then-act on maps, late answers | rates hold, attempts and slots are bounded |
| Concurrency `infra/concurrency`, AMQP `infra/worker` | queues, wait groups, channels, connection | submit, stop, fan out and in, shard, consume | stop while items are queued, a submit after stop (which panics in its caller), cancelled readers, dropped connections | no accepted item lost, no goroutine left once the inputs are closed |
| Seeding `infra/seed` | transaction, references, result list | register, filter, sort, run, commit, truncate | a failure between seeders, a commit that fails | all or nothing, or each on its own |
| Configuration `infra/config` | settings | defaults, file, environment, validate | precedence, rules that look at several settings | `New` fails where a rule says so; servers that start have ports of their own |
| Everything else | configuration, values, I/O | | | see section 8 |

## 2. Modules

| Module | Models | Correspondence |
|---|---|---|
| `OutboxRelay` | `store.go`, `worker.go` | One SQL transaction is one step. `status`, `claimAge`, `token`, `retry` are the columns; `pc`, `todo`, `publishedIDs`, `failed`, `lease`, `elapsed` are a worker's local variables in `poll`. `ClaimBatch`, `publishEntry`, `handleExhaustedEntry`, `MarkPublished`, `ReleaseClaims`, `Cleanup`, `Crash`, `Cancel` and `Tick` are the actions. |
| `AtLeastOnce` | the promise of an outbox to its writers | Abstract: accepted, handed over, settled, in that order. |
| `OutboxRelayProofs` | | Theorems about `OutboxRelay`. |
| `UnitOfWork` | `uow/unit_of_work.go`, `infra/db/tx.go`, `aggregate/base.go` | A change and the event it raises share a name. `Execute` to `Commit` are the steps of the transaction function; failure can follow each. |
| `InboxConsumer` | `inbox/*.go`, `nats/bus.go`, the typed streams of `messaging` | `conf.kind` selects the handler under the JetStream callback: middleware, processor or typed stream. |
| `Messenger` | `messenger` with memory and outbox transports, retry and recovery middleware, worker | `conf` selects transport, routes of the worker's bus, forced and undecodable commands. |
| `ModuleOrder` | `infra/modular/registry.go` | Kahn's algorithm step by step; map iteration order is nondeterministic. |
| `AppLifecycle` | `bootstrap/app.go`, `lifecycle.go`, `shutdown.go`, `http` and `grpc` servers, in-process bus | Extends `ModuleOrder`. `go` holds the goroutines of the error group, `open` the resources, `closed` the closers that returned, `limiter` the goroutine of the per-IP rate limiter. |
| `Config` | `infra/config` | Operators only: `Merged` is `Load`, with viper's precedence; one operator per `set...Defaults` and `validate...`, each the set of rules violated. Durations are in tenths of a second; a secret is its length and two flags. |
| `Startup` | `bootstrap.New` from a configuration | Composes `Config` and `AppLifecycle`: the merged settings choose modules, servers and the step of `New` that fails. |
| `Caching` | `infra/cache`, `WithQueryCaching`, `WithCommandCacheInvalidation`, `decorator.WithCache` | One key. A value is the number of the write it was read after, `age[v]` the ticks since it was overwritten. `Get`, `RedisGet`, `FlightReturns`, `Promote`, `Handle`, `SetRemote`, `SetLocal` are the steps of a query, `Command`, `EvictLocal`, `EvictRemote` those of a command. |
| `Sessions` | `jwt_service.go` and the three blacklists | Extends `Caching`: the cached key is the session's. `clock` is the time `checkSessionRevocation` reads at its start, `activeCache` the `sync.Map` of each pod. |
| `CacheProofs`, `UnitOfWorkProofs`, `InboxConsumerProofs`, `MessengerProofs`, `AppLifecycleProofs`, `WorkersProofs` | | Theorems about `Caching` and `Sessions`, `UnitOfWork`, `InboxConsumer`, `Messenger`, `ModuleOrder` and `AppLifecycle`, `Workers`. |
| `Requests` | both middleware chains, route middleware, error mapping, DI container, async commands, readiness | A request is a cursor: `dir` is down (before `Next`), up (after it) or panic (unwinding), and each middleware has an action per direction in which it does something. |
| `Limits` | rate limiters, breaker, retry, bulkhead | `conf.guard` selects one. A map access under a lock is a step, so lookups and insertions interleave. |
| `Workers` | worker pool, pipelines, sender group, sharding, AMQP consumer | `conf.kind` selects one. `chan` are the inputs, `worker` each goroutine's place. |
| `Seeding` | `seed/registry.go`, `filter.go`, `sort.go`, `runner.go`, `truncator.go` | Extends `ModuleOrder`, whose sort is the same algorithm. |
| `MC...` | | Values for the constants of the runs. |

`OutboxRelay` implements `AtLeastOnce` under the mapping `Promise`: a row exists
(accepted), the broker or the dead letter table has the event (handed), the row
is marked or deleted (settled).

## 3. Runs

| Run | Shows |
|---|---|
| `relay` | Two workers, two events, one of them refused for ever, two attempts each, any two faults, the store as it is and one that reads released rows, with and without dead letters: no event lost, leases exclude, `retry_count` never exceeds the failures, refinement of `AtLeastOnce`. |
| `relay_null_token` (violation) | A released row is never claimed again (section 5). |
| `uow` | Rows and outbox agree after any failure, panic or crash, whether the caller loads its aggregates again or goes on with them, but for the events a failed `Execute` drained from an aggregate that was kept (`lost`). |
| `inbox` | Three kinds of handler, with and without delivery limit, duplicates and two faults: acknowledged implies handled, no second run behind `Processor`, all acknowledged in the end. |
| `messenger` | Both transports, buses with and without routes, two loops, handlers that fail or panic, up to three faults, closing at any time: nothing lost while the process lives, claims exclude; on a bus without routes retries are earned, everything settles and every loop stops once the context is done. |
| `lifecycle` | Configuration to Shutdown: servers that start have ports of their own, boot order right iff one exists, a failing New leaks nothing, dependencies start first, no poll, request or handler works on closed resources (unless a timeout was reached), Run ends although requests hang, Shutdown ends once every `OnStop` returned, with everything closed. |
| `caching` | Queries and commands on one or two pods, with and without L1 and Redis, and sessions on the same cache: nothing served was overwritten longer ago than both TTLs and three calls (the code's bound; `local.go` claims less, section 5), without races nothing is stale, a revocation is seen within `sessionActiveCacheTTL`. |
| `requests` | Five chains with two concurrent requests and the access rules with every kind of token: a success sent after the transaction ended means committed, a failure not committed, 202 published; no slot, transaction or scope stays behind. |
| `limits` | Every limiter, breaker, retry and bulkhead with two callers: rates, attempts and slots are bounded. |
| `workers` | Every pool and pipeline and the AMQP consumer: complete drains, no lost task, no goroutine left once the inputs are closed. |
| `seeding` | Both transaction modes with every combination of the options, two faults: global mode is all or nothing, a seeder's failure is its own. |
| `requests_own_tx` (violation) | A handler works in the transaction of another request (section 5). |

Each property of a passing run has a mutant, a plausible bug in the modelled
code under which TLC finds the property violated.

### Bounds

- Two workers and two events (`relay`) are the least with which a lease changes
  hands while its first owner still acts on it, with a younger row behind an
  older one. `MaxRetries` is 2: an entry fails, is released, fails again and is
  given up, with a second worker in between. Five tokens are never used up.
  Timeouts of 1 let a lease run out at, and a poll end before, the first tick;
  the ages that `claimEntriesTx` may give a claim within a longer poll are
  exercised by `OutboxRelayLive.cfg` and by the proofs. Ages saturate, so time is
  not bounded. `MaxFailures` is the history's cap and lies above every count
  reached.
- `MaxFaults` bounds crashes, failed or half-applied calls, lost answers and
  timeouts per behaviour: 2 lets one fault strike the recovery from another.
- The inbox has one message and a duplicate, two consumers: both copies and both
  deliveries of one copy can be handled at once.
- The channel of `Messenger` has capacity 1, so full is reached by one command.
  Three faults on one outbox entry are a claim that expires and two loops that
  both fail; with two entries in a batch two are enough. A command that a bus
  with routes sends to the outbox again takes a spare row.
- Three modules with six dependency graphs (chain listed backwards, two
  dependencies, duplicate entry, cycle, self-dependency, disabled dependency),
  one request per server, one bus handler, one failing call.
- `Setups` gives the relay's run the code as it is (`scanNull` FALSE) and a
  `ClaimBatch` that can read a NULL token, without which no entry ever has a
  second attempt (section 5). The theorems hold for both.
- A `UnitOfWork` has two aggregates and three changes: an `Execute` of both fails
  between the two, and one of the kept aggregates is changed and saved again.
- Settings: every setting that `Validate` looks at is wrong on its own once, the
  three ports collide in every pair, and the environment overrides the file.
- Cache: two clients on one or two pods, two writes, one fault. With TTLs of 1
  and 2 and calls of 1 tick an entry expires in, before and after every call of
  a query that crosses a write. Ages saturate just above the bound.
- Requests: two at a time where they share something (load shedder of 1,
  container, singleton), one for the access rules, two faults.
- Limits: two callers, two keys, three ticks, four calls: a window boundary, an
  eviction and a half-open breaker fit in with calls on both sides.
- Workers: channels of capacity 1, two or three workers, up to five items, so
  that shards are uneven and every channel is full and empty; three AMQP
  channels.
- Symmetry is used for workers, tokens, requests, callers, keys and names of
  changes, only in runs without liveness properties.

### Fairness

- `OutboxRelay`: weak fairness of each worker's poll (the loop of `Start` always
  finds a tick ready) and strong fairness of time.
- `InboxConsumer`: a callback that began goes on; JetStream does not pass over a
  ready message for ever and redelivers after AckWait.
- `Messenger`: goroutines that can go on do; a blocked channel operation gets
  its turn (Go's channels queue first come, first served).
- `AppLifecycle`: goroutines run, timers fire, the closers of `New`'s own
  resources return. Nothing is assumed of requests, bus handlers and the `OnStop`
  of modules, which may hang, or of the caller. The worker's select between a tick and its context is random, hence strong
  fairness of the latter.
- `Workers`: goroutines that can go on do, the reader of an output reads until
  its context ends, a broker with a consumer delivers. Nobody has to produce,
  close, cancel or reconnect.
- Nothing is assumed about faults.

## 4. Proofs

TLAPS proves these for every value of the constants that the named assumptions
of the modules admit: any sets of entries, workers, messages, consumers,
aggregates, clients, pods, modules, commands, loops and items, any batch size,
capacity, limit, time to live, timeout and number of faults, any declared
dependencies and any manifest. What is assumed of the constants says that
numbers are numbers, that the sets of commands and loops are finite
(`MessengerAssumption`), that a kind of `Workers` is one the module has and has a
worker unless it is a fan-in (`WorkersAssumption`), and that no module is named
like a resource of `New` (`NamesAssumption`).

| Theorem | Statement |
|---|---|
| `NoEventLostAlways` | `Spec => []NoEventLost` |
| `Refinement` | `Spec => RefinesAtLeastOnce` |
| `LeaseHeldAlways`, `OneLiveOwnerAlways` | `Spec => []LeaseHeld`, `Spec => []OneLiveOwner` |
| `RetriesAreFailuresAlways` | if a poll cannot outlive a lease, `Spec => []RetriesAreFailures` |
| `RegistryOrderIsRight`, `BootOrderIsRight` | `OrderSpec => []OrderIsRight` for a registry on its own, `Spec => []OrderIsRight` for the one of `App.RegisterModules` |
| `StartsDependenciesFirst` | `Spec => []DependenciesStartFirst` of `AppLifecycle` |
| `NewLeaksNothingAlways`, `WorkHasResourcesAlways` | `Spec => []NewLeaksNothing`, `Spec => []WorkHasResources` of `AppLifecycle` |
| `MemoryConservesAlways` | `Spec => []MemoryConserves` of `Messenger`, which speaks of a process that has not crashed |
| `PublishedIsHandledAlways`, `RetryIsEarnedAlways` | the same of `PublishedIsHandled` and `RetryIsEarned`, which speak of a worker's bus without routes |
| `NoSharedEntryAlways` | the same of `NoSharedEntry` |
| `TasksConservedAlways`, `DrainIsCompleteAlways` | `Spec => []TasksConserved`, `Spec => []DrainIsComplete` of `Workers` |
| `ConsistentAlways`, `NoSilentLossAlways` | `Spec => []Consistent`, `Spec => []NoSilentLoss` of `UnitOfWork`, for callers that reload after an error and for those that do not |
| `AckedMeansHandledAlways` | with one subscription and an id of its own for each event, `Spec => []AckedMeansHandled` of `InboxConsumer` |
| `MarkedIsSkippedAlways` | `Spec => []MarkedIsSkipped` |
| `HandledOnceAlways` | if duplicates carry the same id, `Spec => []HandledOnce` |
| `BoundedStalenessAlways`, `UnracedIsFreshAlways` | `Spec => []BoundedStaleness`, `Spec => []UnracedIsFresh` of `Caching` |
| `RevocationIsSeenAlways` | `CacheSpec => []RevocationIsSeen` of `Sessions`, if the model's ages count past `sessionActiveCacheTTL + Timeout` |

The arguments:

- *No event lost.* `NoEventLost` is not inductive: `MarkPublished` marks
  whatever is on the worker's list. `DeliveryInv` adds that everything on a list
  to mark was handed over, and that a worker only looks at rows that exist.
  History only grows (`HistoryGrows`), and the ways a status or a list changes
  are summed up once (`StatusSteps`, `MarkListSteps`, `TodoSteps`), so that the
  invariant and the refinement use the same three facts.
- *Leases.* `PollInv` says that the lists of a worker are disjoint and that no two
  workers hold the same token. `HeldInv` adds that a worker with a live context
  owns each row of its batch: the row has its token and the claim is no older
  than the poll. `OwnedIsSafe` shows that then no statement of another worker
  selects the row.
- *Retries.* `RetryInv` says that each retry count, and each copy of one a worker
  read, is covered by failures, and that an entry on the release list of a live
  worker has one more failure than its count. It needs `HeldInv`, because
  `ReleaseClaims` does not compare tokens.
- *Boot order.* `SortInv` is the invariant of Kahn's loop: `inDegree` of a module
  counts the positions of its `DependsOn()` that are not sorted yet (a name
  listed twice counts twice), it is zero exactly for the modules that are sorted
  or queued, and these are disjoint and without repetition. At the end the two
  lengths compare the sets of registered and sorted modules. If they are equal
  there is no cycle, because the member of a cycle that is sorted first would
  have a dependency before it; if not, each module left over waits for another
  one left over. `StepsTheRegistry` carries this over to `AppLifecycle`.
- *Start order.* `StartInv` says that the modules started so far are the first
  `done` of the boot order.
- *Resources.* `WorkInv` ties the life cycle together. `OpenInv`: what `New` opened
  so far is open, and closed again once it failed; closers return by priority,
  so that pools and cache close after the bus, and the bus after the modules.
  `RunInv`: a server has requests only where the context-watcher has not yet
  seen it stop. `BusInv`: a handler runs only while the bus has not drained.
  A resource is then open as long as anything that needs it runs, unless a
  timeout of the shutdown was reached.
- *Messenger.* `MsgInv` (types, and a loop holds envelopes exactly between `Get`
  and the acknowledgement) supports four invariants. `PublishInv`: on a bus without
  routes a loop about to acknowledge has a handled command in hand. `ClaimInv`: the claim on a
  command in a loop's hands is held and no other loop has it, unless its handler
  was slow. `MemInv`: each command reported as asynchronous is at exactly one
  place. `RetryInv` counts: the attempts made are at least `Retries + 1` for each
  increment of `retry_count` plus those of the loops now at the command; a handler
  that panics counts as a full round, since `Retry` does not see it. The
  latter are the cardinality of a set of pairs of loop and attempt (`Round`), so
  that the sum over the loops needs no recursion.
- *Workers.* `AmqpInv` says that an unacknowledged task has one delivery of the
  current channel, in the buffer or with a worker, and that older deliveries
  settle nothing. `FlowInv` says the same of items in pools, pipelines and sender
  groups, and that an accepted item is somewhere until it is dealt with.
  `ShardInv` rests on `ShardsInit`: the shards of `ProcessSharded` partition the
  items for every number of items and workers, by arithmetic on quotient and
  remainder.
- *Unit of work.* `UowInv` splits by the phase of the transaction: outside one,
  rows and outbox hold the same changes up to `lost`; inside, a drained aggregate's
  changes are with the transaction's outbox rows or in `lost`, an undrained one
  still has its other events in memory, and what the transaction saved is in
  memory. So commit moves both or neither.
- *Inbox.* `AckedInv` says that a marker, and a callback past its handler, imply
  that the event was handled, so an acknowledgement by either way does.
  `MarkedInv` says that a callback that began after the marker is never at its
  handler. `OnceInv` says that the id of a started event is marked, so the
  insert of a second `Processor` finds it.
- *Staleness.* A value is carried by a call that sets it, by Redis, by a flight,
  by a promotion and by L1, in this order. `StaleInv` bounds its age in each:
  within an entry, age and time left add up to a constant; within a call, the
  age is at most that of the carrier before plus the ticks the call has lasted.
  A tick moves both sides by one (`EntryTick`, `LocalTick`, `CallTick`,
  `FlightTick`), a hand-over starts the next (`AddCall`, `HitFlight`,
  `PromoteCall`, `IntoLocal`).
- *Freshness.* `UnracedInv` says that until the first race a command runs alone and
  every carrier a query can still fill Redis or the writer's L1 from has the
  value of the database.
- *Revocation.* `SessionInv` says that an entry of the active cache expires at
  most `sessionActiveCacheTTL` after the revocation, because the clock is read
  before the database: a validation about to store has read it no later than the
  revocation. `LoadIsTimely` concludes for the validations that find the entry.
  Nothing is assumed of the blacklist.

Most leaves are first-order and name Zenon; the SMT solver has those with
arithmetic or sequences.

Model-checked only:

- liveness: fairness and ENABLED are outside the reach of the prover;
- `PortsAreDistinct`: settings are merged with `@@`, which the prover does not know;
- `Seeding` and `RateHeld`: filtered sequences and sums over a window are
  recursions over data;
- `Requests` and `CallsAreBounded`: no proofs yet;
- `BoundedStaleness` for the session key.

## 5. Findings

Disagreements between the code and its own comments or docs.

`requests_own_tx` (in `PROJECT.json`): `scopedContainer.AddScoped`
(`infra/di/container.go:231`) registers in the root, so concurrent requests
overwrite each other's `db.conn` and a handler may work in a transaction that is
not its own; `transaction.go:25-26` says it is registered in the scope.

`relay_null_token` (in `PROJECT.json`): `ReleaseClaim` sets `lease_token` to NULL
(`outbox/store.go:277`, `310`), which `ClaimBatch` (`store.go:221`) cannot scan
into a string. Each batch with a released row fails, so that neither this row nor
those claimed with it are tried again; `store.go:272` says "so the entry can be
retried". With a store that reads the NULL, and under fair polling, every event
is settled (`EventuallySettled`, `OutboxRelayLive.cfg`, which passes).

The others are configurations to run by hand, `tlc -config <cfg> <module>`, in
which TLC finds the property violated (where a configuration has two, TLC stops
at the first and `-continue` shows both):

| Configuration (module) | Property | The code | What it says |
|---|---|---|---|
| `OutboxRelaySlow.cfg` (`MCOutboxRelay`) | `GoodEventsSettle` | A publish that hangs uses up the context that marking and releasing need (`worker.go:289`); its batch is repeated for ever. | `glossary.md:109`: "Prevents one bad event from blocking the entire pipeline" |
| `UnitOfWorkKeep.cfg` (`MCUnitOfWork`) | `DrainIsSafe` | Draining empties the aggregate before the commit (`unit_of_work.go:106`): a retry with the same aggregate commits a change without its event. | `unit_of_work.go:38-39`: "preventing silent event loss on rollback" |
| `InboxCommands.cfg` (`MCInboxConsumer`) | `AckedMeansHandled` | Commands are published without an id (`command_stream.go:51`): the inbox takes every one after the first for a duplicate. | `middleware.go:66` |
| `MessengerForced.cfg` (`MCMessenger`) | `HandlerRunsLater` | A forced transport stamp routes the command to the transport again (`bus.go:173`); its handler never runs. | `dispatch_result.go:8` |
| `AppLifecyclePromises.cfg` (`MCAppLifecycle`) | `CancelIsNoError` | A signal before the gRPC goroutine reached `Serve` (`grpc/server.go:89`) makes `Run` return an error. | `app.go:397-398`: "A cancelled context is not treated as an error" |
| `AppLifecycleHang.cfg` (`MCAppLifecycle`) | `ShutdownIsBounded` | `ShutdownGroup` waits for the closers of a priority without looking at its context (`shutdown.go:104`): a module whose `OnStop` hangs holds up `Shutdown` for ever. | `lifecycle.go:26`: "Timeout is config-driven" |
| `AppLifecyclePromises.cfg` (`MCAppLifecycle`) | `LimiterStops` | The rate limiter is closed after `Run`'s group only (`app.go:486`): when an `OnStart` fails `Run` returns before, and `Shutdown` does not close it. | `rate_limit.go:49`: "Call during graceful shutdown" |
| `AppLifecycleGrace.cfg` (`MCAppLifecycle`) | `StopsInGrace` | A `shutdown_timeout` of 0 passes `Validate` and becomes 30 s, the whole grace period. | `validate.go:104`: "must be strictly less than this" |
| `CachingPromise.cfg` (`MCCaching`) | `LocalPromise` | An L1 entry is made from a Redis value that is already stale, or promoted by a call that crossed a write (`local.go:60`): its age adds to `defaultTTL`. | `local.go:28`: "Worst-case staleness = defaultTTL" |
| `SeedingDryRun.cfg` (`MCSeeding`) | `DryRunLeavesAlone` | `--dry-run` with `--fresh` truncates the tables (`runner.go:78-82`). | `context.go:100`: "preview mode" |
| `RequestsPromises.cfg` (`MCRequests`) | `StatusIsDurable` | A success that gin wrote before `Commit` failed, or before the handler panicked, stays a success (`transaction.go:80`). | `transaction.go:29-30`: "if the HTTP response status is < 500 the transaction is committed" |
| `RequestsPromises.cfg` (`MCRequests`) | `GaugeReturns` | The in-flight gauge is not lowered for a request that panics below it (`metrics.go:24-29`). | `metrics.go:15`: "decremented after each request" |
| `LimitsPromises.cfg` (`MCLimits`) | `QuietFailureIsHarmless` | One failure out of one request is a ratio of 1: the breaker trips. | `circuit_breaker.go:60-61`: "prevents tripping on a single initial failure in a quiet window" |
| `LimitsPromises.cfg` (`MCLimits`) | `RefusedFailsFast` | The retry is outside of the breaker and retries its refusals too, with back-off. | `http_client.go:19-20`: "trip the circuit breaker and fail fast" |
| `WorkersCancel.cfg` (`MCWorkers`) | `CancelEndsFanOut` | The workers of `FanOut` range over the input and do not see a cancelled context while it is open and empty. | `pipeline.go:19-20`: "workers stop reading from in and drain completes" |
| `SeedingCommit.cfg` (`MCSeeding`) | `OkIsCommitted` | A failed commit is recorded in a copy of the result (`seed/runner.go:236`): the caller's list says ok. | the assignment there, which has no effect |

Met while modelling and visible in the modules, without a property of their own:

- A `Reject` of the memory transport that saw the transport open sends on the
  channel (`memory/transport.go:110`) that `Close` closed meanwhile. `Worker` calls
  `Reject` outside of the recovery middleware (`worker.go:139`), so the panic ends
  the process and what was in the channel is gone (`Panic` in `Messenger`).
- A worker on a bus that has routes sends each command to its transport again
  (`bus.go:179-183`) and acknowledges the old one (`worker.go:148`): an outbox entry
  is marked published without its handler, and the copy goes round. A loop of the
  memory transport can block in that `Send` for ever. `PublishedIsHandled`,
  `RetryIsEarned`, `AsyncSettles` and `LoopsStop` are for a bus without routes.
- The truncation of `--fresh` precedes the global transaction, so it stays when
  the seeders are rolled back (`seed/runner.go:19-20`: "A failure in any seeder
  rolls back everything"); `GlobalIsAllOrNothing` counts from after it.
- An error handler has to sit inside the transaction middleware for its status
  to be seen.
- `WorkerPool.Submit` after `Stop` sends on a closed channel and panics in its
  caller (`workerpool.go:71`).
- A singleton whose factory panics leaves a finished `sync.Once` and a nil value.
- An unknown broker driver passes `Validate` and fails in `New`; keys without a default cannot come from the environment.

## 6. Hazards

`PROJECT.json` lists them at their lines with the properties that cover them.
The ones without a property, or with a note, are a documented choice of the code
or a finding of section 5.

## 7. Plan

Done: relay, unit of work, inbox, messenger, configuration and life cycle, cache,
sessions, requests, limits, workers, seeding; proofs for relay, life cycle, unit
of work, inbox, messenger, cache, sessions and workers.

1. *Relay schedule.* `Worker.Start` with ticker, back-off and notifier: a
   coalesced wake-up is enough for every insert, and back-off has bounds. It
   would refine the fairness of `poll` in `OutboxRelay`.
2. *End to end.* Unit of work, relay and inbox composed: an event of a committed
   change is handled, once behind an inbox.
3. *Proofs.* The load shedder's count and the truth of replies.

## 8. Not modelled

- Handlers of the NATS subscriptions during the life cycle: `AppLifecycle` has the
  requests, the relay and the handlers of the in-process bus as users of the
  pools. What a delivery does is in `InboxConsumer`, without the life cycle.
- Two subscriptions that share an inbox table: `InboxConsumer` has the
  subscriptions as a parameter, the run and the theorem have one.
- The timing of the relay's polls and its LISTEN/NOTIFY wake-up: they decide when
  a poll happens, and the models allow it at any time.
- `resilience/fallback.go`, `timeout.go` and `concurrency/async.go`: one call, no
  shared state. Object pools keep nothing between uses.
- `Validate` and `tryResolve` of the container, which check registrations once.
- Factories, fake data and the context of seeders; envelopes, stamps' contents,
  message encodings, value types, errors and specifications: values.
- Idempotency keys: a table with get, upsert and clean-up that no code in the
  repository composes into a protocol. Listing and retrying dead letters: tools
  for operators.
- Observability, profiling, the text of headers and logs: nothing depends on them.
- Signing, hashing, pools, connections and TLS: library calls. Databases, brokers,
  `net/http`, gRPC, gobreaker and `rate.Limiter` are modelled from how the code
  uses them and marked external.
