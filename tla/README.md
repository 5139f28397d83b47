# Meltica: specification and verification

TLA+ models of the Meltica trading gateway (`src/backend`), the TLC runs that
check them, and theorems about them checked by TLAPS.  Every definition that
models code is listed with the lines it stands for in `PROJECT.json` (`map`).

## 1. Inventory of the system

Meltica connects to exchanges (Binance, OKX), normalises what they send into
pooled events, publishes the events on an in-memory bus backed by a Postgres
outbox, and runs JavaScript strategies ("lambdas") that consume the events and
submit orders through the providers under a risk manager.  A gateway process
composes the parts, serves an HTTP control API, and is driven by a web
frontend.

| Component | State | Operations | Interacts with | Hard behaviours | What makes it correct |
|---|---|---|---|---|---|
| Object pool (`infra/pool/object_pool.go`) | request queue, one worker, object and lease per slot, lease map, counters | get, tryGet, put, tryPut, close | pool manager | goroutine interleavings, timeouts, close racing put | one owner per object, no reset while held, no lost request, no panic |
| Pool manager (`infra/pool/manager.go`, `orders.go`) | pools by name, shutdown flag, WaitGroup, active counter | Get/TryGet/Put/TryPut and Many forms, Shutdown | every component that handles events | lock held across close, count after hand-over | counters follow objects, Shutdown returns |
| Memory bus (`infra/bus/eventbus/memory.go`) | subscribers per type, bounded channels, bus context | Publish, Subscribe, Unsubscribe, Close | pool, dispatcher, lambdas | snapshot of subscribers against channel close, drop-oldest, ownership of the event on every path | every pooled event returned exactly once, no send on a closed channel |
| Durable bus and outbox (`eventbus/durable.go`, `postgres/outbox_store.go`) | outbox rows (status, attempts, available and claim times) | Publish, replay worker, claim, mark | memory bus, database | crash between steps, lease expiry, two publishers of one row | at-least-once hand-off, delivered rows stay delivered |
| Dispatcher runtime (`app/dispatcher/runtime.go`) | de-duplication window | Start, publish | adapters, bus | id remembered before the publish that fails | a duplicate is dropped, an event is not |
| Registrar and table (`app/dispatcher/registrar.go`, `table.go`, `route_compare.go`) | desired routes per lambda, active table, rebuild signal | Register, Unregister, apply | providers, lambdas | coalesced signals, failures in the middle | the table converges to what the lambdas ask |
| Subscription manager (`adapters/shared/subscription_manager.go`) | active routes | Activate, Deactivate | adapters | check-then-act | venue subscriptions follow the routes |
| Order books (`adapters/shared/orderbook_assembler.go`, Binance and OKX book handlers) | book, last sequence, buffered diffs, seeding flags | snapshot, diff, resync | venue stream and REST | REST snapshot racing the stream | no gap is ever applied silently |
| WebSocket managers (`binance/websocket_manager.go`, `okx/ws_manager.go`) | connection, desired streams | subscribe, unsubscribe, connect, read, ping | venue | reconnect racing subscribe | venue streams are those wanted |
| Provider manager (`app/provider/manager.go`) | provider status machine, running instances, cached routes | Create, Update, Start, Stop, Remove | adapters, store, registrar | asynchronous start | one running instance per name |
| Risk manager (`app/risk/risk.go`) | positions, in-flight orders, limits, breaker | CheckOrder, HandleExecution | lambdas | concurrent reservations, partial fills | exposure stays within limits |
| Lambda core and runtime (`app/lambda/core`, `app/lambda/runtime`) | instances, running lambdas, subscriptions, revision usage | Create, Update, Start, Stop, Remove | bus, providers, risk, store | concurrent control calls | one running lambda per id |
| Strategy loader and registry (`app/lambda/js`) | module registry, tags, revisions on disk | Write, Tag, Delete, Resolve | runtime | file and registry out of step | a tag resolves to a stored revision |
| Adapter feed (`shared/publisher.go`, the adapters' `Start`, `provider/manager.go`) | event channel of each provider, sequence per stream | publish, start, watch, stop | dispatcher, pool | channel closed under its senders, blocked start | no event mistaken, none kept but by queues, a stop ends |
| Stores (`infra/persistence/postgres`) | tables of providers, routes, orders, executions, balances, strategies | upserts, transactions, queries | runtime, providers, lambdas | snapshots saved after the lock, partial failure, repeated reports | a restart finds what was, listings show what was stored |
| Context backup (`infra/server/http/backup_handlers.go`) | none of its own | export, validate, restore | provider and lambda managers | many calls without a lock, spelling of names, clients that leave | a restore does all or, when refused, nothing |
| Rest of the HTTP control API (`infra/server/http`), gateway (`cmd/gateway`) | none, process lifecycle | handlers, shutdown order | all | order of shutdown | parts stop after their users |
| Frontend (`frontend`), strategies (`strategy/*.js`) | caches, strategy state | pages, callbacks | HTTP API, lambdas | stale caches | outside the present model |

The paths above are under `src/backend/internal` except `cmd/gateway`
(`src/backend/cmd/gateway`), `frontend` and `strategy`.

## 2. Modules

| Module | Models | Extends | Checked in |
|---|---|---|---|
| `Lending` | what an object pool promises (abstract) | | refined in `pool_safety` |
| `ObjectPool` | `infra/pool/object_pool.go` | | `pool_safety`, `events` |
| `PoolManager` | `infra/pool/manager.go` over one pool | `ObjectPool` | `events` |
| `ObjectPoolProofs` | theorems about `ObjectPool` and `PoolManager` | `PoolManager`, `SumProofs` | `tlapm` |
| `MemoryBus` | `eventbus/memory.go` with its consumers and the event pool | | `events`, `bus_panic` |
| `ProviderFeed` | publisher, event channel and watcher of an adapter, dispatcher runtime, order of shutdown | | `adapter`, `trading` |
| `ProviderFeedProofs` | theorems about `ProviderFeed` | `ProviderFeed`, `SumProofs` | `tlapm` |
| `Handoff` | what the durable bus promises (abstract) | | refined in `adapter` |
| `Outbox` | `eventbus/durable.go` and `postgres/outbox_store.go` with its SQL | | `adapter` |
| `BusProofs` | theorems about `MemoryBus` and `Outbox` | `MemoryBus`, `Outbox` | `tlapm` |
| `Streams` | both WebSocket managers and the calls that route streams to them | | `streams`, `streams_login`, `streams_ping` |
| `OrderBookAssembler` | `shared/orderbook_assembler.go`, as operators | | through the books |
| `BinanceBook`, `OkxBook` | the order-book paths of the two providers | `OrderBookAssembler` | through `OrderBooks` |
| `OrderBooks` | both books side by side | instances of the two | `adapter` |
| `VenueProofs` | theorems about `Streams` and `OrderBooks` | `Streams`, `OrderBooks`, `SumProofs` | `tlapm` |
| `RiskManager` | `app/risk/risk.go` | | through `OrderFlow` |
| `OrderFlow` | order life cycle: `BaseLambda`, order store, venue | `RiskManager` | `trading`, `order_uuid` |
| `Routing` | registrar, subscription manager and provider life cycle | | `control` |
| `StrategyRegistry` | `lambda/js/loader.go` and its use in `runtime/strategy_modules.go` | | `control` |
| `ControlProofs` | theorems about `Routing` and `StrategyRegistry` | `Routing`, `StrategyRegistry` | `tlapm` |
| `LambdaManager` | one id in `app/lambda/runtime`: specification, run, routes, usage, row | | `lambda`, `lambda_pin` |
| `BackupRestore` | `http/backup_handlers.go` with the managers' calls it makes | | `lambda` |
| `LambdaManagerProofs` | theorems about `LambdaManager` and `BackupRestore` | `LambdaManager`, `BackupRestore` | `tlapm` |
| `Ledger` | the tables of one provider, an order, its executions and a balance, and who writes them | | `trading` |
| `TradingProofs` | theorems about `OrderFlow` and `Ledger` | `OrderFlow`, `Ledger`, `SumProofs` | `tlapm` |
| `SumProofs` | facts about sums over finite sets, for the proofs that count | | `tlapm` |

`MCObjectPool`, `MCMemoryBus` and `MCOrderFlow` only name symmetry sets, model
values and small functions for the configurations.  `MCEvents`, `MCAdapter`,
`MCTrading`, `MCControl` and `MCLambdaManager` put two to four
modules in one run: a variable `side`, chosen at the start and never changed,
says which of them moves, while the others stay in one initial state.  The
states of such a run are the sum of the modules', not their product: these
modules meet through an interface that each of them has as its own choice (what
the bus does with an event, what a client asks for), and the modules that share
state are composed in one specification (`PoolManager` over `ObjectPool`,
`OrderFlow` over `RiskManager`, `Routing` of three components).
Each of them extends the modules it puts together (`MCEvents` those of the pool and the bus,
`MCTrading` the order flow, the ledger and the feed, and so on), so the properties such a run
checks are the definitions the theorems state; only the calm bus of `MCEvents` is an instance, of the
same module with other constants.

Every variable and constant is explained where it is declared; every action
carries the function it models.  What is common to all modules:

* An action is what one goroutine does between two points where another can be
  seen: a channel operation, an atomic or locked section, a call to the store,
  a venue or another component.  Where the source reads a value in one step and
  uses it in a later one, the model has both steps.
* Names, payloads, prices and times are model values or small integers.
  Contexts, timeouts and failures of a call are choices, bounded by constants
  (`MaxFaults`, `MaxReconnects`, `MaxMishaps`, `Cancellable`, `Impatient`, `Quitters`).
* History variables record what the properties except; the comment of a
  property says what that is.

### 2.1 Object pool, its promise and its manager

`Lending` has one variable, the place of each object: on the shelf, offered to
a caller, lent to it, handed back, or gone.  `ObjectPool` has the
code's: the request queue, the worker's position in `run` and `dispatch`, the
lease of each object with its two channels, the map of leases, the program
counter of each caller in `get`, `tryGet`, `put` and `tryPut`, and the closing
goroutine.  The queue holds requests that have not been received, those whose
caller gave up included; the worker delivers, cancels a lease it could not
deliver, and waits for the object or for close.  `Next` is the union of the
callers, the worker of each object, and the closer.  Bound: `Gens` generations
of a lease, reused when no channel or goroutine refers to one any more, and
`MaxHold` objects per caller.

`PoolManager` adds what `Get`, `TryGet`, `Put`, `TryPut` and `Shutdown` put
around the pool: the map lookup under the read lock, the WaitGroup, the active
counter, the shutdown signal, and the write lock held while the pools close.

### 2.2 Memory bus

`MemoryBus` composes `Publish`, `Subscribe`, `Unsubscribe`, subscriber
goroutines, `Close`, the consumer loop of `BaseLambda` with its drain, and a
free set of events that stands for the pool manager.  A publisher holds the
source event, takes a snapshot of the subscribers under the lock, borrows one
clone for each, hands them to at most `Workers` deliveries at once, and recycles
what was not delivered.  `DropOldest` and `Retry` are the two halves of the
full-channel path.  A publisher sends at most `MaxPublish` events.

### 2.3 Feed and dispatcher

`ProviderFeed` follows an event from an adapter's goroutine to the bus.  A
producer takes its number in the stream, borrows the event, and waits for room in
the provider's channel or for the end of the context; `Seeds` are what OKX publishes
before `Start` has returned, when nobody reads the channel yet.  The runtime takes an event,
drops it if its identifier has been seen, borrows a clone for each subscriber
(of the bus only what it does with the pool is kept) and publishes.  A borrow that ends with
its context, or with the pool, may leave its request with a worker (`GiveUp`); an event handed to
such a request is in a slot nobody reads (`Mislay`).  A stop
cancels the context; Binance's watcher waits for the user stream and for no other
goroutine before it closes the channel; the gateway's shutdown ends the contexts, the
bus and the pools, in its order.  A send on a closed channel and a return to a
closed pool are the panics that `crash` names.

### 2.4 Outbox

`Outbox` has the table (status, lease age, availability), for each row the live
publisher's position, and for each gateway its replay worker.  One row is one
event that some gateway publishes.  `Claim` is the SQL of `ClaimPendingEvents`, whole;
the live path and the replay path both hand an event to the inner bus and mark
the row afterwards, and neither knows of the other.  Calls can fail, answers get lost,
gateways close, crash and come back, and the clock ticks.  The column `attempts` is written
and read by nothing, and left out.  `Handoff` is the promise: stored events are owed,
are accepted once or more, and are settled only after.

### 2.5 WebSocket sessions

`Streams` is the connection loop with its reader and pinger, `subscribeAll`,
the requests in batches, the calls of `SubscribeRoute` and `UnsubscribeRoute`, the start of
the user stream and `stop`.  Binance's `streamManager` and OKX's `wsManager` differ in the locks
they hold while they write and in what a ping waits for; `session` selects one
of them or the private OKX session, which logs in.  `slipped` records the streams for
which opposite requests were decided in one order and written in the other.

### 2.6 Order books

`OrderBookAssembler` gives the assembler's operations on a record: what is
applied, whether a hole or a failed parse is in it.  `BinanceBook` has the
stream handler and the seeding goroutines of one symbol with the `orderBook`
handle they share; `OkxBook` has the channel handler, the check of the
checksum and the resync goroutines.  The venue is a counter of updates; a REST
snapshot may lag by `MaxLag`.  An OKX checksum covers the levels at the top of the book: `covered`
is a set of updates the venue chooses once, all, some or none.  An OKX snapshot may lack an entry
that has no price or quantity (`Converted`, recorded in `flawed`), may not parse, and a REST
one may come without a sequence number, for which the code takes a timestamp (`Clock`).  `overtaken` is set when
a snapshot replaced the book between two steps of a diff, or a diff was compared with the number the book
had before a snapshot: `seedOrderBook` changes the assembler first and `lastSeq` after.  `OrderBooks`
puts the two books side by side; they share nothing.

### 2.7 Risk manager and order flow

`RiskManager` holds the limits, the fills and slots of the registered orders,
positions and the breaker.  `OrderFlow` runs `SubmitOrder` step by step
(limiter, `CheckOrder`, insert, provider call, what follows a failure), a venue
that accepts, fills and ends orders, and the reports that any lambda of the
provider may handle, in any order and more than once, under the test of
`IsMyOrder`.

### 2.8 Routing

`Routing` composes the registrar's desired routes and coalescing signal, its
worker, the check-then-act steps of the subscription manager, and the provider
manager's `Create`, `Update`, `Start` (asynchronous), `Stop` and `Remove` for one
provider.  An actor (the worker, or a start that reapplies routes) has at most
one route call open, in `act`.  The lambda may change what it asks at any time.
A process starts with no provider or with one restored, together with the routes of an
earlier run.  The history variables `calm` (no stop, removal or start has met work in flight), `broken`
(the types a call to the venue has failed for), `astray` (the types whose routes need not be what the
lambdas ask for: those restored, and those given up while no provider ran, until the registrar
treats them again or finds the table right) and `overtaken` (a provider was removed while it
started) say when the properties apply.

### 2.9 Strategy registry

`StrategyRegistry` has `registry.json` and the files it names, the copy of both in the
loader with the cache of resolutions, and one instance with its specification and
the revision that runs.  Uploads, tags, removals (by name, tag or revision) and refreshes
are records in `job`: each reads the registry, changes its copy and writes it back, with the
other client's steps in between, and a write or a removal may fail half-way.
`muddled` records that a removal has failed half-way or a request has written over what it had not read,
`crossed` that, since the instance was started, a refresh has replaced a specification or passed over
a start or stop it had not read; the next start ends it (`BeginsAnew`).

### 2.10 Lambda manager

`LambdaManager` follows one id.  A control call is a record in `job` that says where
it is in `Create`, `Update`, `Start`, `Stop`, `Remove`, the refresh of the strategies, or the
restore at start-up; each step is one section under the manager's lock or one
call outside of it (registrar, `base.Start`, store).  Reads that belong to the first step
of a call are made with the request.  A run is a number, reused once it
is cancelled and nobody names it.  The loader is external: `Reload` changes which revisions
it has and which one the bare name stands for.  `Crash` empties everything but the
row and the loader; `Restore` runs before requests are served.  `overlap` and `owed` record what the
properties except and what a restart owes.

### 2.11 Context backup

`BackupRestore` has the providers, lambdas and limits as the managers hold them, an
export, and one restore that validates (`preflight`), then removes lambdas, then
providers, creates or updates, and sets the limits, one call at a time.  `Key` is the
lower-case form of a name: some places look a name up by it, others as it is spelt.
Other clients create, start and delete between any two calls, a `DELETE` or `POST` of a provider
in its own two halves; the restoring client may leave.  Backups are an
earlier export or one of a few written by hand (`ByHand` in `MCLambdaManager`): a
provider in either spelling, a reference that can be restored, one that cannot
be resolved, an unknown strategy.

### 2.12 Tables

`Ledger` has the manager's status of one provider and whether it keeps routes, the tables
`providers`, `provider_routes`, `orders`, `executions` and `balances` restricted to it,
and the calls of the provider manager as sequences of work: `persistSnapshot`
reads after the lock is released and writes later.  A lambda stores a report in one
transaction, whose row lock keeps the others out, so that an error or a crash in
between leaves nothing.  `KeyOf` is the primary key of an execution, `Kept` the conflict clause
of the balances, `RESTRICT` and `CASCADE` of the foreign keys are in the removal.  A crash keeps
the tables; `Restore` reads them.

## 3. Runs

| Run | Instance and bounds | Question |
|---|---|---|
| `pool_safety` | 2 objects, 2 borrowers that may time out, queue of 1, symmetry | ownership, resets, panics; refinement of `Lending` |
| `events` | pool: 1 object, 2 borrowers, one may time out; bus: 3 events, 2 publishers of 2; with fairness and a queue of 1, and with a queue of 2, a subscriber that quits, a context that ends and `Close` | exact counters, an answer for everyone but the robbed, a shutdown that returns; events that come home, their ownership and order |
| `adapter` | outbox: 2 rows and 2 gateways with one each, batch 1, lease 1, delay 1, one fault; feed of one adapter with 3 producers, pool of 6, one request left behind, shutdown; Binance's book with 4 updates and one loss, OKX's with 3, one reconnection, and checksums that cover all, some or no updates, lag 2 and one failure for each | hand-off, eventual delivery; identities, leaks and end of a feed; no gap unnoticed, seeding and resyncing end |
| `streams` | 3 kinds of session, 2 streams, 2 calls, one break | streams follow the wishes, stops end |
| `trading` | feeds: 2 adapters on a pool of 7, one request left behind; orders: 3, 2 symbols, 2 lambdas with a name that begins the other's, one fault; tables: 3 calls, 2 at once, 2 lives, 2 reports or balances, one failure or crash; 2.3 million states in all | no standstill, slots, positions, limits; tables that agree |
| `control` | routing: 1 lambda, 2 symbols, 2 starts, one fault; as long as nothing overlaps 2 types and routes from the database, otherwise 1 type; registry: empty or full at first, 3 requests, 2 at once, 2 revisions, each with a build tag of its own besides `latest`, one fault; 6.6 million states in all | no orphaned adapter, the venue streams what the lambda registered; the registry loads, a refresh installs what is tagged, what runs stays |
| `lambda` | lambdas: 1 id, 2 control calls at once, 2 revisions, 2 runs, 2 mishaps (crash, failed save, change of the loader), launches apart; backups: one restore, 2 requests of others; 4.4 million states in all | no stray run, exact usage and routes, agreement with the row, resumption; complete and harmless restores |
| `bus_panic` | 3 events, 1 publisher, 1 subscriber that may quit | finding 1 |
| `order_uuid` | as `trading`, store refuses ids that are no UUID | finding 2 |
| `streams_login` | a private OKX session, one break | finding 3 |
| `streams_ping` | a Binance session, 2 calls | finding 4 |
| `lambda_pin` | as `lambda`, one mishap | finding 5 |

Why these bounds are enough for what they ask.  The races of the pool need two
borrowers after one object and, for a queue that is full or stale requests that
displace others, more requests than the queue holds; the second object lets one be lent while
the other is handed back.  In the bus a clone per publisher and one
channel that is full is all that dropping, retrying and closing depend on; a
queue of two is the least in which order is visible.  A feed with a channel of one already
has senders that wait, an event left behind, and a start that fills the channel; the two feeds
of `trading` have the smallest pool their assumption allows.  Two gateways suffice for a
lease to lapse under a worker that is still alive, and a batch of one leaves a
second row for the other worker.  Two calls and one break are the least in which a
request crosses another or a replay.  In the books, four updates leave room for a
seed, a gap, a lagging snapshot and a diff after it; a snapshot that lags by two is the least that
puts the book so far behind the old number that a diff compared with it leaves a hole; OKX's stream starts with
update 1, so three updates are a snapshot, a gap and a diff after it, and a checksum that covers 1 and 3 lets a hole
at 2 pass.  One request left behind is the least that makes the pool lose an event.  Three orders give a
symbol with a competitor and one without.  Two starts are what a stop, a removal
and a new creation can confuse, and two types the least at which one is broken or astray and the other
is not.  The properties about routes were also checked with three starts and two faults.  Two requests at once are the least at which one overwrites
another's registry, a launch, a stop or a save can cross another, or a row is written
from a snapshot that is no longer true.  A restore with two foreign requests can be
disturbed before and after the call they concern.
`Apart` leaves out the behaviours in which two calls have both decided to launch:
the properties about runs, usage and routes except them, and the states that follow are
nine tenths of the whole.  With `Apart = FALSE` and one mishap the four properties of
`LambdaManager` hold as well (11 million states).

`CHECK_DEADLOCK FALSE` is set where the bounded behaviour ends: a closed pool or bus,
a venue at its last update, orders that are all done, a feed that has stopped, requests used up.
`lambda` runs with deadlock checking on: as long as nothing is used up, somebody can go on.

What the properties say, in short:

* `LendingSpec`, `ExclusiveLending`, `HeldObjectNotReset`: an object is with one
  party, and is reset by nobody while a borrower uses it.
  `NoPanicWhileOpen`: nothing sends on a closed channel before close.
  `WaitersServed`: while no context ends a borrower that is blocked goes on, unless it found the queue full and others
  emptied it before it took the oldest request (`Robbed`).
* `InFlightIsExact`: the WaitGroup is the number of objects lent through the
  manager, on every path, errors included.  `QuietShutdownEnds`: a shutdown with nothing lent
  returns.
* `OneOwner`: each pooled event is in exactly one of the pool, a publisher's
  hand, a channel, or a consumer's.  `PublisherOrder`: a
  consumer sees the events of a publisher in order, with holes at most.  `CalmEventsComeHome`: where nobody quits or
  closes, they all return to the pool.
* `NoneMistaken`: no event is dropped as a duplicate of another.  `OnlyQueuesKeep`:
  once the providers have ended, events are missing from the pool only as far as they are left in
  channels, and at most one for each request that a stopped borrower left behind.  `FeedEnds`: a stop comes
  to its end.  `NoStandstill`: runtimes that share a large enough pool do not all wait for each other,
  as long as it has lost no more than it has to spare.
* `OkMeansDelivered`, `HandoffSpec`, `StoredIsDelivered`: nil from `Publish`
  means the row is delivered, delivered means that the inner bus accepted the
  event, and what is stored is delivered in the end.
* `StreamsMatch`, `WantedArrives`, `StopEnds`: at rest the venue streams what is wanted, what stays
  wanted arrives, and a stop leaves no connection and no waiting goroutine.
* `GapsAreFound`: a published book has no hole, unless a snapshot came in the middle of a diff or lacked an entry.
  `PublishedExact`: overtaken or not, an OKX book made from a diff, and the one the next diff is applied to,
  lack no update of the levels the checksum covers; below these it shows nothing.
  `BufferedIsTaken`: while no seeder is at work, what is buffered gets one with the next diff.
  `ResyncEnds`: each resync takes its flag back.
* `SlotsAreOrders`, `PositionIsFills`, `VenueWithinLimits`: what the risk manager counts is what is
  open and filled, and limits hold at the venue.
* `NoOrphan`: a provider's adapter runs only under an instance that is recorded or under way.
  `RoutesHold`: between changes the venue streams, and the table says, what the lambdas have registered, through
  restarts and failed starts, except for types a call has failed for (`broken`), types that `astray` names, and
  histories in which a start or a stop overlapped the registrar's work.  What is astray is streamed as recorded.
* `RegistryLoads`: between requests a refresh would succeed.  `RunsWhatIsTagged`: after a lone
  refresh the specification of a running instance has the revision its selector has on disk, however requests
  before overlapped, and the instance runs it unless it is `crossed`.  `RunningStays`: a removal by name or by hash
  that is alone takes no revision that runs, unless the instance is `crossed`; removals by tag are excepted.
* `NoStrayRun`: a run that is not cancelled can be stopped.  `BooksFollowRun`: the revision
  counted as in use, and the routes, are those of the run, whatever the specification has become.
  `RowAgrees`, `ResumesAfterCrash`: the row exists and says `running` when the manager does,
  and a crash between calls is made good before requests are served.
* `Restored`: after a restore that succeeds everything that nobody else touched, in any spelling, is as the backup says.
  `FailureLeavesAlone`: one that fails has changed nothing, apart from the cases it names.
* `RestartAgrees`: between calls the tables restore what the manager has.  `StoredIsListed`: executions add up to
  the most that was reported, a filled order has all its quantity, the first balance is of the newest second,
  and an order keeps its provider.

The remaining predicates (the type invariants, `HaltHolds`, `StartIsUnderWay`, `DeliveredForGood`)
belong to the theorems of section 5 or are stated for the reader; no run lists them.

Each property of a passing run has a mutant in `PROJECT.json`, a plausible bug in
one mapped definition that the run finds.

## 4. Fairness

* Every goroutine that is ready takes its step (weak fairness of each one's
  action): the Go scheduler is preemptive.  Nothing makes callers borrow, venues send, lambdas
  ask, timeouts expire or operators stop and start.
* Strong fairness where a waiting goroutine stands in a FIFO queue and so is served when the
  resource comes back again and again: a publisher that borrows a clone in `MemoryBus`, producers and
  runtimes of `ProviderFeed` at the pool and the channel, and the mutexes of `Streams`.
* Borrowers give back what they hold, and subscribers consume, in the runs that ask whether the
  waiting are served; this is the duty of every user of the pool, and without it no bound exists.
* In `Streams` a connection delivers what the venue sends or breaks, and a dial succeeds in the end.
  In `BinanceBook` a snapshot that is asked for again and again is, at some time, up to date.
* In `Outbox` the clock ticks, workers that run take steps, and gateways that are
  down are started again; faults are finitely many.
* No liveness is claimed of the control plane: whether a route comes back after a failure
  depends on the next registration, see section 6.

## 5. What is proved

`ASSUME`s on constants say only that sizes are naturals (or positive),
that sets are finite where something is counted, that the model
values differ from members of the sets, and what a backup's providers look like.
`MemoryBus`, `ProviderFeed` and the two books state theirs as an operator (`BusAssumption`, `FeedAssumption`,
`BookAssumption`, `OkxAssumption`): a theorem has it as its hypothesis, and the `MC` module, or
`OrderBooks`, assumes it of the constants it is run with.

Every safety property, action property and refinement that a passing run checks is also a theorem.
None of the properties is inductive as it stands.  What had to be added, per module, each of them
checked by TLC on the instance of the run before it was proved:

* **`ObjectPoolProofs`**.  `PoolInv` (`TypeCorrect`, `Exclusive`, `NoPanic`): whether an object
  may be taken depends on the lease on which its last borrower handed it back.
  It adds that a lease in use belongs to one object (`LeaseInv`), that a
  putter holds the object and the lease it loaded (`PutInv`), that an
  object offered or held is away from its worker, with nothing to take back
  in its channel (`AwayInv`), and that while the pool is open the map has the lease of each object
  away (`OpenInv`).  `MarkInv` (`NotReset`): an idle worker has its object back and
  marked as returned, what is offered is not marked, and what is away and marked is on its way back, so nobody
  who holds an object can find it reset.  `Refinement`: every step is one step of `Lending` or a stutter; `Placed`
  says that each object has a place.
  For the manager, `PoolUnderManager` shows that the pool under it is the pool alone, so the
  invariants above hold of it, and `CallInv` and `FlightInv` that the WaitGroup is the sum over
  callers of what each has counted (`Due`), which at rest is what it holds (`InFlightExact`, `ManagerTypes`).
* **`BusProofs`**, the memory bus.  `OwnInv` (`EventsHaveOneOwner`): there is a function that gives
  every event a kind of place, a publisher and a subscription such that it is there and nowhere else
  (`Located`), no channel has an event twice (`NoneTwice`), and publishers and deliveries have what
  their positions say (`BusForm`).  Every step moves events from places it names to others, so one lemma
  about moves serves them all.  `OrderInv` (`PublishersKeepOrder`): what a publisher has in hand carries its
  latest number, what waits in a channel or is being handled carries an earlier or equal one, strictly earlier for
  a subscription to which the present one is still to be sent (`Stamped`).  With the place of each event
  this makes the tail of a channel the only place where a number can be added, and dropping the oldest leaves order alone.
* **`BusProofs`**, the outbox (`OutboxTypeCorrect`, `NilIsDelivered`, `DeliveredIsFinal`,
  `OutboxRefines`; invariant `OutboxInv`).  A row to be marked by a live
  publisher or a worker has been accepted by the inner bus, and marks are conditional
  on the status, so a lapsed lease cannot take a delivered row back.
  `OutboxRefines` maps a row to owed, accepted and settled; every action is one step of
  `Handoff` or a stutter.
* **`ProviderFeedProofs`**.  `NumberInv` (`NoEventIsMistaken`): that nothing was
  dropped says nothing of the next event; the invariant adds that every number under way was
  given out (`GivenOut`), and that no two events with the producers and in a channel are the
  same, nor the same as one the runtime has seen (`Distinct`).  `AccountInv`: until something panics, the free
  events, those with runtimes and their clones, those in channels, those with producers and those mislaid, at most one for
  each request left behind, add up to the pool.
  From it follow `NoOtherEventIsLost` and `RuntimesGoOn`: with a pool that, less what was mislaid, is larger than the
  channels, fan-outs and producers together, an empty pool with no clone outstanding leaves some runtime that needs none.
  The latter is `NoStandstill`, which `trading` checks of two feeds.
* **`VenueProofs`**.  `StreamsInv` (`VenueStreamsWanted`, `StreamsTypes`): opposite requests under
  way for one stream have crossed (`Opposites`); but for those, a request being sent says what the map of
  wanted streams does (`SendsWanted`), what is left of a replay is still wanted (`ReplaysWanted`), and a stream that no request is
  about agrees with the venue once it has been replayed (`Settled`).  Binance's callers keep the provider's lock (`OneAsks`).  A private session is only typed: finding 3 is that it does not agree.
  `BooksInv` (`NoGapIsPublished`, `ChecksumsHold`, `BooksTypes`) joins the two books' invariants, which stand at the
  end of their modules.  For Binance (`BookInv`): one seeder is between its `CompareAndSwap` and its end (`OneSeeds`);
  diffs reach the handler in the venue's order, and what is in the buffer or with a seeder came
  before what the handler has (`ComeInOrder`), since only the handler appends.  As long as no diff was overtaken, the number that diffs are compared with is
  not ahead of the book, so a diff that passes both comparisons carries the next update (`NumberFollows`).  A diff
  that fails to parse leaves the book at its number but torn; no other diff carries the same update, so every later one
  is a gap until the book is seeded again (`TornIsLeft`): this is why a handler that only reports such an error, and
  goes on, publishes nothing wrong.  For OKX (`OkxInv`) the handle's number is the book's except while a
  snapshot of the channel is on its way to the assembler (`NumberIsTheBooks`).  For the checksum, overtaken or not,
  a book that lacks a covered update is used no more but by the steps from the diff that made it to the resync,
  and the flag that would keep that resync from starting is down in between (`Firm`).
* **`TradingProofs`**, the orders.  `SlotInv` (`SlotsAreExact`): registration and execution change the count and the set of
  registered orders together; the saturating decrement never saturates
  because an order registered for a symbol makes its count positive.
  `FlowInv` (`FlowTypes`, `PositionsAreFills`) adds where each order is in its life (`OrderInv`), that no
  report is ahead of the venue, and that the one that ends an order tells all of it (`ReportInv`), so that
  positions are what was seen of the orders, whatever is repeated or late.  `LimitInv` (`VenueStaysWithinLimits`): position and open quantity
  are within the limit with each admitted order filled or not.  Its hypothesis `LimitsStay`
  says that all configurable limits agree on the number of orders and the position (`LimitSets` may still differ
  in the breaker): orders admitted under old limits are not looked at again when they change.  The run's `Guarded` satisfies it.
  `TradingStaysHalted` needs no invariant.
* **`TradingProofs`**, the tables (`RestartRestores`, `WhatIsStoredIsListed`, `LedgerTypes`).  `ManagerTypes`: what is left to do of a
  call of the provider manager is one of eleven lists, and it holds a snapshot only when it is about to write it.  `ListedInv`
  adds, for the listings, that a row has the row it refers to (`Owned`), that an adapter gives
  each report a number of its own (`ReportsNumbered`), and hence that executions of a single adapter never replace one
  another, so that the one that had filled the most is still there (`FillsStored`), and that one of the balances is of the
  newest second (`BalancesStored`).  For a restart, `AgreeInv` speaks only of histories in which no calls overlapped and
  none failed: one call is under way at most (`OneCall`), what it has read is still true (`CopyIsFresh`), whether it saves or
  removes says whether there is a provider (`InOrder`), and what nobody is to write any more has been written.
* **`ControlProofs`**, the routes.  `StartInv` (`NoAdapterIsOrphaned`, `StartingIsSettled`): a start that is
  creating its adapter is the one that the provider's status waits
  for; a provider that has been stopped or removed has its instance cancelled.  `RouteInv` (`RoutingTypes`, `TableHolds`)
  adds that routes are activated only on an instance whose start is recorded (`InstanceInv`) and, as long as no start or
  stop has overlapped the registrar's work, that one actor at most is at work on routes (`OneAtWork`), that
  the venue streams what is recorded but for the type being treated (`VenueFollows`), that the table names what is active
  or, while there is no instance, kept (`TableFollows`), that a start has reapplied what is not in its list any
  more (`Reapplied`), and, once the signal is taken, that the table of a type that is not to be treated, nor broken nor
  astray, is what the lambdas have registered (`LambdasFollowed`).  A type that is astray with an empty row of the
  table is bound to nothing (`Bound`).
* **`ControlProofs`**, the registry (`RegistryTypes`, `RegistryAlwaysLoads`, `RefreshFollows`, `RemovalSpares`), in three layers.
  `Well`: each request has the parts its step needs, the cache agrees with what a search would find, and a request that
  counts itself alone is the only one.  `OnDisk`: what a request has read is still so unless another has written since
  (`FreshJobs`), each tag names a listed revision (`TagsHold`), and a listed revision whose file is missing
  is one that a removal is about to take out of the registry, unless that removal was overtaken, which nothing repairs
  (`FilesHold`); the last two as long as no write has failed half-way or replaced a registry it had not read (`muddled`).
  `OnRun`: what runs is what the specification says or is about to be (`RunHolds`), a lone refresh finds memory, specification
  and instance as its last step left them (`RefreshHolds`), and a lone removal that has passed its check is of nothing that
  runs (`RemovalHolds`; a removal by tag is excepted, see section 6).  What `RunsWhatIsTagged` says of the specification needs
  no history: a lone refresh writes what it resolves from the registry it has read.
* **`LambdaManagerProofs`** (`NoRunIsLost`, `BooksAreRight`, `RowIsRight`, `RunsAgainAfterCrash`, `LambdaTypes`;
  invariant `LambdaInv`).  The four properties say what holds between calls; the invariant says how far each
  call has come: what its record knows (`JobInv`); that a run is entered, cancelled or in the books, and only one
  of these (`RunInv`); that the call that has decided to launch is the only one, and has found no run or taken it out (`LaunchInv`);
  whose the routes are, the run's or a launching call's (`RouteInv`); that the row is true or some call is on its way to
  persist (`RowInv`); and that a restart that owes a run is on its way to it (`OwedInv`).  Each part excepts the overlaps its
  property excepts, no more.
* **`LambdaManagerProofs`**, the backups (`RestoreRestores`, `FailedRestoreSpares`, `BackupTypes`; invariant `BackupInv`).  A request of
  another client adds the key of what it touches to `disturbed` and leaves everything under other keys as it was
  (`OthersSpare`), so the invariant can speak of each name by itself.  What the validation has found stays so (`Accepted`); what the
  backup does not have is gone once the loop that removes it has passed (`Pruned`); a provider of the backup is still to be
  applied, is being updated, or is there as the backup has it (`ProvidersApplied`); and before the first lambda is created
  every lambda of the backup is away, so that no creation finds one (`LambdasApplied`).  A step that fails has therefore met
  something that others disturbed, a client that left, or a reference that only the creation resolves (`Excused`).
  By name alone none of this holds: a client that deletes a configured lambda in another spelling makes the backup's lambda
  one to be restored while the restore is at work.  This is why `disturbed` holds keys.
* **`SumProofs`**.  `SumFunctionOnSet` of the community modules on finite sets: its type, what changing one
  value does, and bounds.  These need induction over the subsets of a set.  The theorems of the library that take
  a predicate cannot be used here, so a lemma takes the set of the counterexamples and its
  smallest element (`WFMin`) instead.

Only model-checked is liveness (`WaitersServed`, `QuietShutdownEnds`, `CalmEventsComeHome`, `StoredIsDelivered`,
`FeedEnds`, `BufferedIsTaken`, `ResyncEnds`, `StopEnds`, `WantedArrives`): fairness rests on `ENABLED`, which the
prover does not have.

## 6. Findings and observations

Findings, each with a run that shows it:

1. `bus_panic`: `Publish` uses a snapshot of the subscribers; one closed since
   makes the send panic, and the panic leaves `Publish` with the source event
   unclaimed (`memory.go:88` says the bus owns it on every outcome).
2. `order_uuid`: `SubmitOrder` builds ids that the Postgres order store
   refuses to parse, so no order reaches the provider.
3. `streams_login`: after a reconnection the private OKX session replays its login as if it were
   one channel among others, so it never logs in (`exchange_onboarding.md:32` asks for it).
4. `streams_ping`: the ping holds the lock a call needs, the call holds the lock the reader needs, and the
   reader alone can take the pong: a live connection is dropped as stale.
5. `lambda_pin`: a lambda pinned to a revision follows the default after a restart.

Met while modelling, described here and not kept as runs.  The properties are stated so
as not to hide them: where one is excluded, the comment of the property says so.

* Pool: `tryGet`, documented as not blocking, queues its request and waits for an
  object.  A borrower whose context ends after a worker has answered it loses the
  object, which is never returned.  A borrower that finds the queue full takes the oldest request out with a receive
  that listens to nothing else (`object_pool.go:265`): when others have emptied the queue in between, it is blocked until
  somebody asks again, whatever becomes of its context or of the pool.  `close` ends the workers of lent objects, so
  what comes back afterwards is refused.  A second `put` of the same object that
  comes after the worker has received the first and before it forgets the lease is accepted, and ends in a channel
  nobody reads.  `Shutdown` may return nil while a borrower has an object it has not
  counted, and hangs, with the write lock that `Put` needs, when a worker hands out
  an object after `close` has gone through the leases.
* Bus: events that are in a channel when its consumer has drained it and quit
  stay there; nobody recycles them.
* Feed: a provider that is stopped while one of its goroutines waits for the pool may cost the pool an event for good, as
  above: each restart can make it smaller.  Binance's watcher waits for the user stream only, so any other goroutine of the adapter may
  send on the closed channel and panic.  Events left in a channel by a stop are never drained (up to 2048 with each
  restart), though `base.go:397` drains "to prevent pool leaks".  After `PoolManager.Shutdown` whatever is
  returned panics.  `NoStandstill` needs a pool larger than the channels, fan-outs and producers together: the default
  of 8192 satisfies this with two adapters, the 4096 of `app.ci.yaml` does not.  OKX's `Start` blocks
  for ever when its instruments exceed the channel or the pool.  Identifiers of events drop the `-` of
  symbols while the sequence keeps it.  An event's id is remembered before the publication that may fail.
* Outbox: an event can be published twice without any fault (the live publisher is
  slow, the row becomes claimable).  `ResetEventForRetry` does not look
  at who holds the lease.
* Sessions: two opposite calls for one stream may be written in the other order than decided.  Crossing calls
  leave OKX's `tradeSubs` and the manager's subscriptions in disagreement; an unsubscription after a
  stop dereferences a nil `p.ws`; when `ensureWS` times out, the manager it made stays without an owner.
* Binance: a diff compared before and applied after a late seeder's swap leaves a
  hole that no check sees, and so does one compared after the swap and before the seeder writes `lastSeq`; a failed seeding does not start another until a diff comes;
  diffs taken from the buffer are lost when the book is not seeded by then.  What changes between the
  snapshot of the balances and the dial of the user stream is missed.
* OKX: without checksums a gap between two steps is not seen; diffs are dropped during a resync; a resync
  publishes its snapshot after it has released the lock, so sequence numbers can go backwards.  The checksum covers 25 levels
  a side (`provider.go:864`) and a book has 100 by default, so that a hole below them passes when a resync comes in the
  middle of a diff.  A snapshot of the stream whose checksum is wrong is reported and published all the same
  (`provider.go:717-722`); that of a REST snapshot is compared with itself (`provider.go:836-846`).  A REST snapshot without a `seqId` gets
  its timestamp as sequence number (`rest.go:226-249`), which no diff follows: the next diff is a gap and starts another resync, and so on
  until the stream reconnects.
* Risk: an order that passed the check and whose row cannot be written, or that the provider refuses, stays registered and
  keeps its slot, until a report ends it or the process does; with a limit of one the symbol trades no more.  The check of the position leaves out orders in flight, so with
  more than one at a time the limit can be exceeded.  The breaker counts breaches only with the kill switch on;
  `IsMyOrder` is a prefix test, a lambda whose name begins another's handles its reports.
* Routing: a lambda that unregisters while the provider is stopped is not followed by the provider: the registrar leaves the
  route in its table, the restart re-applies it from the cache, and the venue streams what nobody asks for until a lambda registers or
  unregisters again.  So it is with routes restored from the database,
  until a lambda asks for their type: the registrar's table does not have them.
  A route whose activation failed is not tried again until the lambdas'
  wishes change (the table already has it); two activations may both pass the check; a
  `Stop` during the reapplication of routes loses them; a stale table entry after
  a stop, the removal of the lambda and a new provider makes the registrar skip the activation;
  `Remove` and `Create` during a start orphan its adapter; a failed `Create` with
  start deletes the state by name, whoever's it is (`provider/manager.go:232-241`; only the gateway's bootstrap creates with
  start, so neither `Routing` nor `Ledger` has this).
* Strategy registry: `registry.json` is read, changed and written without a lock, so overlapping requests lose
  updates, and a deletion that fails or is cut off, or a lost update, leaves it naming a missing file: then every refresh fails.
  All writers share one `registry.json.tmp` and rename it (`loader.go:1340-1345`), so that one may rename what another has half written;
  the model's `Write` is atomic.
  Overlapping refreshes leave an instance running another revision than its specification's, and
  later refreshes report `alreadyPinned`, until the instance is started again.  `DELETE name:tag` is checked against the tag in memory and removes by the
  tag on disk, so even alone it can remove a running revision, which the operations manual
  (`js-strategy-operations-manual.md:15`) says is blocked.  A selector `name:tag` is
  stored with the build tag of the module it resolves to (`strategy_modules.go:575`), not with the tag that was asked for: an
  instance created with `name:prod` follows the build tag from then on and not `prod` when that is moved, although the manual
  (`js-strategy-operations-manual.md:13`) calls `name:tag` "an explicit tag".  `RunsWhatIsTagged` therefore speaks of the
  selector by which the refresh found the instance.
  "Reassign latest if necessary" (`loader.go`, the removal of a revision) is never reached.
* Lambda manager: two concurrent `Start`s both pass the check at
  `instance_lifecycle.go:122` and launch two runs, the first of which nobody can stop; `Update`
  launches what it found running without a check, over a run that a `Start` launched since it stopped the old one.
  A launch that crosses a stop loses the routes of the new run.
  A launch that crosses a removal leaves a running lambda without a specification,
  neither listed nor resumed.  A snapshot is saved outside the lock, so an older one can
  overwrite a newer, or bring a row back after `Remove`.  The refresh writes back
  a specification removed meanwhile, and does not persist what it resolved.  Restoring persists `running = false`
  before it starts the lambda, so a crash in between, a revision or a provider that is not there yet, forgets that it ran.
  `ensureSpec` reads the map of strategies without the lock.
* Backup: an export has no credentials and does not say what runs, so providers and lambdas come back stopped, and
  providers cannot connect until somebody sends their credentials again.  The selector, tag and hash of a lambda are
  ignored.  Names that differ only in case can both exist after a restore, and the next export is refused as having a
  duplicate; a lambda that says `p1` for the provider `P1` passes the validation and then names a provider that is not
  there.  The validation looks at the name of a strategy only, so a tag that cannot be resolved fails after lambdas have been
  removed.  A client that leaves, or a crash, ends a restore where it is.
  `validateContextBackupProviderRemovals` can never fail: the check of references before it does.
  `DELETE` of a provider checks its use and removes it in two calls.
* Tables: `persistSnapshot` reads after the lock is released and saves later, so calls that overlap leave a stale row, or bring a
  removed provider back.  A removed provider that has orders cannot be deleted (the failure is logged) and is back
  after a restart, without its routes.  Routes are written by `Stop` and `Update` only: a crash while the provider runs
  restores those of the last stop, which are activated though no lambda asks for them and which the registrar's empty table never removes.
  An order loses the strategy it belongs to when that strategy's row is removed, also by a restore.
  An execution is stored under (order, event id), and ids start anew with each adapter: an older report
  may replace a newer execution.  The quantity of an execution is the cumulative one.  Of two balances in one second the last one
  written wins.  Every lambda of a provider stores every report and balance it takes for its own.

## 7. What is not modelled

Telemetry, configuration parsing, parsers of venue messages, REST clients, decoding and
encoding of HTTP requests, the JavaScript engine and the strategies, migrations, generated queries and the frontend
are parsing, I/O or presentation, or hold no state that interleaves with the rest; `PROJECT.json`
gives the reason for each, and for a part that is modelled partly what is left out.  `accounting.go` and
`exec_report.go` of the shared adapter code are used by no adapter.
The real Postgres, the venues and the Go runtime are modelled by what the code
relies on: an insert or an update is atomic, a row lock excludes, a send to a buffered channel is FIFO.
Three steps are coarser than the code: `BackupRestore!Preflight` makes several reads (`backup_handlers.go:94-168`, 308) in one,
`StrategyRegistry!Write` writes a file and renames it in one, and `Streams!Take` ends quietly where an unsubscription after a stop
would dereference a nil `p.ws`.
The ids of events are taken as the store takes them in `Ledger`, since finding 2 would otherwise
leave nothing to ask of orders.

## 8. Plan

In order of importance to the system; all of it is done.

1. Object pool, its manager, `Lending`; proofs.
2. Memory bus with consumers; proofs.
3. Outbox and durable bus, `Handoff`; proofs.
4. Order books (assembler, Binance, OKX); proofs.
5. Risk manager and order flow; proofs.
6. Routing: registrar, subscriptions, provider life cycle; proofs.
7. Lambda manager: one id, concurrent control calls, persistence and restore after a crash; proofs.
8. Feed of the adapters, dispatcher runtime and order of shutdown; proofs.
9. WebSocket sessions: wanted against streamed topics across reconnections; proofs.
10. Strategy registry against files on disk; context backups; tables of providers, orders and balances; proofs.

What could come next lies outside these modules: the JavaScript instances, the REST clients, and several lambda ids over
one registrar.
