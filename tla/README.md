# TLA+ specification of the observability test application

This directory specifies the concurrent core of the FastAPI application under
`src/app`: the runtime failure switch, the instrumented database operations, the
metrics they keep, the stress scenarios, the life of a process from start-up and
seeding to shutdown, the numbers of its configuration, and the way of a request
through middleware, thread pool and connection pool; and the connections that the
application shares with the exhaustion drill of `src/infra/lambda`. TLC checks small
instances; TLAPS proves the main results for every value of the constants.

Paths below are relative to the repository (`src/...`); `T/` abbreviates
`src/app/routes/test_failures.py`.

## 1. Inventory of the system

### How the application runs

One process runs one asyncio event loop. `ObservabilityMiddleware.dispatch` and the
two stress handlers are coroutines: what they do between two `await`s is atomic with
respect to other coroutines, but not to threads. Every plain `def` endpoint, the first
half of the dependency `get_db`, and the stress work run in threads of one pool behind
a limiter (anyio, 40 threads). Those threads share module-level state with no lock. The
database is reached through one SQLAlchemy engine with a bounded connection pool.

| component | state | operations | interacts with |
|---|---|---|---|
| failure switch (`database.py:55-91`, `T/:417-470`) | `_failure_state` (enabled, mode), gauge `app_db_failure_simulation_active` | `init_failure_state`, `set_db_failure`, POST/GET `/api/test/db-failure` | read by every database operation |
| tracked operations (`database.py:94-126,230-283`) | gauge `db_up`, the exception in flight | `tracked_db_operation`, `_maybe_fail` | switch, classifier, counters |
| error mapping (`database.py:128-160`, `routes/_common.py`) | none | `classify_db_error`, `db_http_exception` | tracked operations, endpoints |
| counters (`metrics.py`) | `db_queries_total`, `db_errors_total`, `app_simulated_failures_total` | increments | read by `/metrics`, one family after another, in a thread |
| stress scenarios (`T/`) | two `BoundedSemaphore`s, two gauges, two run counters | GET `/api/cpu-stress`, GET `/api/database` | thread pool, database |
| start-up (`main.py`, `database.py:381-435`) | schema and seed rows | `lifespan`, `init_database` | switch, database, container restarts |
| engine and session caches, shutdown (`database.py:172-206,438-441`, `main.py:68-78`) | `lru_cache` of `get_engine`, `get_session_factory`, the pools of the engines | build, look up, `dispose_engine` | lifespan, requests |
| traffic generator (`traffic.py`) | one task | request loop, cancellation | the application's own HTTP port, lifespan |
| request pipeline (`middleware.py`, `get_db`, `routes/health.py`) | requests in progress, threads, connections, HTTP counters | `dispatch`, session open/close, endpoint | everything above |
| configuration (`config.py`) | settings | parse and clamp | all |
| logging (`logging_config.py`) | none | format | all |
| connection-exhaustion Lambda (`infra/lambda`) | its open connections | connect, query, hold, close | the server's `max_connections`, the application's pool |
| alarms, deployment, dashboards (`infra`, `docker-compose.yml`, ...) | third-party programs | - | metrics and logs |
| scripts | none | curl loops | the HTTP endpoints |

### What is hard here

* **Unlocked shared records.** `set_db_failure` writes two fields and a gauge in three
  steps, `_maybe_fail` reads the two fields in two steps, the response of the toggle
  reads them again, all in different threads.
* **`db_up` has many writers.** Every operation sets it at its end (a simulated one twice),
  in no order; an old operation may end after a newer one.
* **Counters are increments with gaps**, and a scrape is no snapshot: `generate_latest` reads one
  family after another, in a thread, while the increments go on.
* **Slots, threads and connections** are three bounded resources one request takes in
  turn, on paths that can fail at each step.
* **Start-up may meet an absent database, an armed switch, a crash, or a second process**
  doing the same.
* **`lru_cache` does not lock while it computes.** First requests that race may each build
  an engine, and shutdown disposes of the one the cache kept.
* **Shutdown waits** for requests in flight and for a task that never ends by itself.
* **Two programs share one server's connections**, and one of them may be killed with a
  connection open.
* **Labels come from messages**: the order of overlapping string tests decides the
  metric, the gauge and the HTTP status.
* **NaN and infinity** are numbers to `float`, and answer comparisons as no number does.

`PROJECT.json` lists the hazards one by one, at their lines, with the properties aimed at
each.

### What makes each component correct

* Switch: overlapping toggles settle on something one of them asked for
  (`SettlesOnAsked`), and a response reports what one of them asked for, but for a mode that
  is still to be written (`EchoesAsked`).
* Operations: the switch decides (`SwitchIsDecisive`), `db_up` is what `DbHealth` promises its
  reader (`HealthRefined`), and it converges (`Recovers`, `GoesDark`).
* Error mapping: metric and status agree (`DownIsAnswered503`).
* Counters: conservation in every state of the process, not only at rest (`OperationsConserved`,
  `ErrorsAgree`, `SimulatedAreErrors`, `ArmedBeforeFailing`).
* Stress: no slot leaks (`SlotsAccounted`, `SlotsReturn`), the semaphore is a lease
  (`SlotsAreLeased`), work is bounded (`WorkBounded`), each run is counted once
  (`RunsConserved`).
* Start-up: the seed is all or nothing (`SeedAllOrNothing`), and a failure is not fatal
  (`ServesEventually`).
* Caches and shutdown: a process that initialised has one engine everywhere (`OneEngine`), one that
  did not has no more engines than threads (`EnginesBounded`), an orderly shutdown leaves no
  connection (`ShutdownCloses`), and it ends (`ShutsDown`).
* Requests: no connection leaks (`ConnectionsAccounted`), none is taken twice or given back by
  another request (`ConnectionsAreLeased`), no deadlock between threads and
  connections (`Answered`), middleware metrics are conserved (`RequestsConserved`,
  `ErrorsKeepUp`).
* Configuration: no number lets a statement sleep longer than the environment allows
  (`SlowQueryBounded`), and no NaN survives a clamp (`ClampsRejectNaN`).
* Drill: connections have owners (`BackendsAccounted`), nobody is refused within the budget
  (`WithinBudget`), and the server is given back (`DrillPasses`).

## 2. Modules

```
FailureSwitch   ErrorMapping -- Settings    StressSlots   Startup   RequestPipeline
       \         /       \     /               |  ^         |           |   ^
       DbOperations    SlowQueries            |  |     Lifespan        |   |
        |        ^                            | Lease            RequestMetrics
   DbCounters   DbHealth                                              Lease

                                       ConnectionBudget
```

A module below another extends it; an arrow is an abstract specification (`DbHealth`, `Lease`)
that the other module is shown to implement by `INSTANCE ... WITH` and a refinement mapping.
`MC<module>` gives a module its constants for TLC. Proofs are in `DbOperations_proofs` (the
switch, then the operations), `DbCounters_proofs` (on top of it), `StressSlots_proofs`,
`RequestMetrics_proofs`, `Startup_proofs` (which extends `Lifespan`), `SlowQueries_proofs` (also on
`ErrorMapping` and `Settings`) and `ConnectionBudget_proofs`; those that count threads or requests
use `Census`.

### FailureSwitch

`switch` is `_failure_state`, `gauge` the Prometheus gauge, `tpc`, `req` and `reply` the
local state of a thread that serves a toggle. `WriteEnabled`, `WriteMode` and `SetGauge`
are the three writes of `set_db_failure`; `ReadEnabled` and `ReadMode` the two reads that
build the response; `Reject` the 403 and 400 early returns; `SwitchInit` is
`init_failure_state`. `asked` is history: the requests accepted since no toggle was last
under way. Modes are model values; `BadMode` stands for every invalid string.

### ErrorMapping

An exception is its class, the words of its message that the classifier looks for, and
the mode of the switch if it raised it. `Classify` is `classify_db_error`,
`HttpStatus` is `db_http_exception`, `UnavailableTypes` its set, `DownTypes` the types for
which `tracked_db_operation` lowers `db_up`. `RealExceptions` takes every subset of the
words, also those no driver message combines: the tests are total, so is the check.

### Settings and SlowQueries

`Settings` translates the clamps of `get_settings` and the tests of `/api/slow-query` over
tenths of a second with `NaN`, `Inf` and `NegInf` added. `PyMax` and `PyMin` keep their first
argument unless the second beats it, as Python does; that is what makes `max(0.0, x)` reject a
NaN and would make `max(x, 0.0)` keep it. `SlowQueries` lets a process with one of
`Environments` serve requests of `/api/slow-query` with one of `Parameters`, any sets of such
numbers: the number goes through `Settings`, the exception of the statement through
`ErrorMapping`. That a cancelled statement is classified like a connection that timed out is what
the code does and finding 3; no property here calls it right.

### DbOperations and DbHealth

Extends the switch by worker threads. `wpc` names the places between two accesses to
shared state: `CheckEnabled` and `PickMode` are the two reads of `_maybe_fail`, `Delay`
its sleep, `RaiseSimulated` its `db_up.set(0)` and raise; `QuerySucceeds` and `QueryFails`
the body; `CountFailed`, `CountError`, `FinishFailed` the except branch; `CountReturned`,
`FinishReturned` the else branch. `healthy` is the database itself. `expect` is history:
what the switch promised an operation at its beginning, voided when a toggle is accepted
before its check is over.

A query may succeed while the database is unhealthy, and never fails while it is healthy:
"healthy" means that every statement succeeds.

`DbHealth` is the abstract gauge: in the dark it can only fall, in the clear it can only
rise, and neither phase turns into the other at once. The refinement mapping takes `up` to
`dbUp` and `phase` to `Phase`: dark (`Blackout`) when no toggle is under way, the switch is on
and no operation that passed the check before is left; clear (`AllClear`) when it is off,
the database is healthy and no operation that will fail is left; mixed otherwise.

### DbCounters

Adds the counters, each the sum over its labels, as conjuncts on the steps of
`DbOperations`: each increment happens in the step whose code performs it. `begun` and
`bornArmed` are history. Increments are atomic because the client library locks each
child. `ScrapeQueries` is the moment at which a scrape leaves the family `db_queries_total`;
`scraped` is what it has read there of the failed operations. The properties speak of the process;
of a scrape they say what can be said: it may show `db_errors_total` ahead by any number, since it
reads it later, but misses no more of the errors than there are threads between the increments.

### StressSlots

One scenario: `FailingWork` tells `/api/database` from `/api/cpu-stress`. `Admit` is
everything between the check of the parameters and the `await` (semaphore, gauge, start of
the work); `StartWork` the moment the limiter gives a thread; `Complete` and `Fail`
everything after the `await`, including the `finally` block. `others` are threads held by
plain endpoints, taken and returned at will.

### Lease

What a limited resource promises: a client holds at most one unit, takes one only when one is
left, only its holder gives it back, and `left` changes in the step that changes `held`. Two
components implement it: the slots of a stress scenario (`held` is the requests between acquire and
`finally`, `left` the semaphore) and the engine's pool (`held` is the sessions with a connection,
`left` the capacity less `inUse`).

### Startup and Lifespan

`Startup` has several processes against one database. `Boot` begins the lifespan,
`InspectSchema` and `CreateSchema` are `create_all` (look, then create in a transaction),
`SeedCheck` and `SeedInsert` the two seeding operations, `OperationFails` a failure of any of
them, `SeedUnacknowledged` a commit whose confirmation is lost, `Crash` the death of a process
(`restart: unless-stopped` in `docker-compose.yml:43` boots it again). `users` counts
committed rows; orders commit in the same transaction. `DataStatus` is what
`/api/users` and `/api/orders` answer afterwards.

`Lifespan` composes it with the rest of the process: its steps are steps of `Startup` with
what they do to the caches, or leave `Startup` alone. `AskFactory`, `AskEngine`, `BuildEngine`
and `BindFactory` are the nested calls behind `get_db`: `functools.lru_cache` computes
without a lock, keeps the value of the first thread to finish, and every other thread that
missed goes on with its own. `Initialise` is `init_database`, which fills both caches
before any request. `Ready` creates the traffic task; `TrafficDies` is an exception it does not
catch (`httpx.InvalidURL` is no `httpx.HTTPError`). `Terminate` is the signal; the server
answers the requests in flight before it resumes the lifespan (`Drained`); `CancelTraffic`,
`AwaitRaises` and `Dispose` are the `finally` block of `lifespan`. The state of a process that
has ended stays visible until it boots again, so that `ShutdownCloses` can speak of it.

### RequestPipeline and RequestMetrics

A request's way: `Arrive` (dispatch up to its `await`), `SolveDependencies` (`get_settings` and
`get_db` up to its `yield`, in threads of the pool), `Refuse` (a 404 or 422, which takes no thread for
an endpoint) or `StartEndpoint`, `Checkout` or `PoolTimesOut`, `EndQuery`, `Resume`,
`CloseSession` (the `finally` of `get_db`), then the counting of dispatch in three steps
during which the loop does nothing else (`LoopFree`) while threads go on. Statuses are
reduced to their class, since every decision of the middleware compares with 400.
`/api/error` is the kind `"error"`: its exception is handled by nobody and dispatch takes
its except branch. `/health` with `HEALTH_CHECK_DB=true` is the kind `"probe"`: it opens a session
itself and closes it in its own thread (`EndProbe`). `RequestMetrics` adds the metrics on the
same steps, as differences: requests received less requests counted, and bad responses in the
total less those in the error counter. They need no bound on the requests served. They are of the
process; `ScrapeTotal` is the moment at which a scrape, which is a plain request in its thread,
leaves the family `http_requests_total`, and `missed` how many errors of what it has read it would
not find if it read on now.

Two facts of the framework matter and are modelled as the pinned versions have them:
a session's connection is taken at its first statement, not when the session is made, and
the exit of a `yield` dependency runs before the response reaches the middleware, in a
thread outside the pool's limiter. The second is what makes `Answered` hold: a request that
holds a connection never needs a thread of the pool to give it back.

### ConnectionBudget

One server's connections. Invocations of `lambda_handler` are alike, so the model counts how many
are in `psycopg.connect` (`dialing`), in their `SELECT` (`querying`) and asleep (`holding`).
`Connect`, `ConnectFails`, `QuerySucceeds`, `QueryFails` and `Release` are the handler's ways,
`Kill` the platform's time-out in the `SELECT` or in the sleep, after which no `finally` runs and
the connection is an orphan until the server finds out (`Reap`). `AppTakesIdle`, `AppConnects` and
`AppReturns` are SQLAlchemy's `QueuePool` with the arguments of `get_engine`. `backends` is what the
server counts, changed by every step that opens or closes a connection.

### Census

Lemmas about counting the processes at a set of places: what one process's move does to
`Cardinality({p \in S : pc[p] \in P})`. Used by every proof about a count.

## 3. Runs

| run | module, cfg | instance | shows |
|---|---|---|---|
| `switch` | MCFailureSwitch | 2 togglers, 2 modes | overlapping toggles settle on what was asked; what a response may report |
| `switch_gauge` | MCFailureSwitchGauge | the same | **violated**: the gauge may stay the opposite of the switch |
| `mapping` | MCSlowQueries | every exception; 4 x 9 environments, 9 parameters | what lowers `db_up` is a 503; sleeps are bounded; clamps hold against NaN |
| `mapping_cancel` | MCSlowQueriesCancel | the same | **violated**: a cancelled statement is answered 503 |
| `dbops` | MCDbOperations | 2 workers (1 prober), 1 toggler, 2 modes, 1 real error | decisiveness, refinement of `DbHealth`, convergence of `db_up` |
| `dbops_last` | MCDbOperationsLast | 1 worker, 2 real errors | **violated**: `db_up` stays 1 after an `operational_error` answered 503 |
| `counters` | MCDbCounters | 2 workers, 1 toggler, 3 operations, 1 arming | conservation of the counters; what a scrape may miss |
| `stress` | StressSlots, MCStressSlots | 3 requests, 2 slots, 3 threads, 4 runs | slots, bounds, counts, refinement of `Lease`, and that slots return |
| `lifespan` | MCLifespan | 2 processes, one with 2 threads, one with traffic; 2 seed rows | seed, one engine or as many as threads, shutdown; start and stop come to an end |
| `startup_outage` | Startup, MCStartupOutage | 1 process | **violated**: 500 instead of 503 after a start without database |
| `requests` | RequestMetrics, MCRequestMetrics | 3 requests, 2 threads, 1 connection | no leaked connection, refinement of `Lease`, conserved metrics, what a scrape may miss, every request answered |
| `conn_budget` | ConnectionBudget, MCConnectionBudget | 5 invocations, pool 2 + 1, 9 connections, 3 orphans | owners, budget, the server given back |

**Why these bounds.** Two togglers are enough for every pairwise race of writes; the
proof covers any number. Two workers suffice for one late operation against one newer one,
and the modes of `dbops` are one that delays and lowers `db_up` and one that does neither,
next to one real error. Three requests on two slots, and three requests on two threads and one
connection, are the smallest instances in which one request holds each resource, one waits
and one is refused or waits behind it. `stress` allows more threads than slots so that the
slots bind, and other endpoints may take all threads, so that the threads bind too.

In `lifespan` the two processes share nothing but the database, so it is enough that the threads
of one race for its caches while the other starts, seeds, stops, crashes and boots beside it; two
threads are the race (both may build an engine, and `EnginesBounded` is met with equality), and
`DB_AUTO_INIT` is chosen anew at every boot. The traffic task is with
the process that has no threads: the two meet only in the shutdown, after the requests have
drained, and both in one process would only multiply its states. `conn_budget` is within the
budget with one orphan (5 + 3 + 1 = 9) and beyond it with two, so that both sides of
`WithinBudget` happen.

`MaxOps`, `MaxArmings`, `MaxRuns` and `MaxOrphans` bound history counters, totals and the killed
invocations not yet reaped; they are guards of the model, named in the modules, and the proofs
hold for every value of them. `built` and the processes' restarts need no bound: a restart begins
with a new memory. Symmetry is used only in runs with no liveness property and no distinguished
element.

Deadlock is checked in every run, and no instance is allowed to stop.

### Fairness, and why the code justifies it

* *Threads and coroutines run*: weak fairness of each step of an operation, a toggle, a
  stress run, and of the counting in `dispatch`.
* *A started database operation ends*: `connect_timeout`, `statement_timeout` and
  `pool_timeout` are set on the engine, a slow query sleeps no longer than `SlowQueryBounded` says,
  and the failure delay is a sleep of a finite time. It has no upper bound: `max(0.0, ...)` lets any
  number pass, and infinity, for which `time.sleep` raises `OverflowError`; that value is
  outside the model of the operations.
* *Probers*: `Recovers` and `GoesDark` say something only if operations keep coming; the
  readiness checks and the traffic generator keep sending them. Only the workers in
  `Probers` are assumed to begin again and again.
* *Queues in order are strongly fair*: the limiter of the thread pool and the event loop
  serve their waiters first come, first served (`StartWork`, `QueuedStep`).
* *The connection pool promises no order.* It gets only weak fairness of "checked out, or
  timed out": a request may be overtaken at every release and still ends, by `pool_timeout`.
  The mutant of `Answered` removes that time-out and TLC finds the starving request.
* *A process goes on with what it began*: `LifespanFairness` makes the main line of a process
  (initialise, yield, cancel, dispose) and each of its requests weakly fair. That the cancelled
  task ends follows from asyncio: `run_traffic_generator` awaits only `client.get` and `sleep`, and
  raises `CancelledError` again.
* *Invocations end and dead clients are noticed*: `CONNECT_TIMEOUT`, `HOLD_SECONDS` and the
  function's time-out bound every invocation; the server finds a closed connection.
* Nothing obliges a client to ask, the database to change, an operator to stop a process or to end
  the drill, or a process to crash or boot.

## 4. Proofs

All assumptions are the named `ASSUME`s of the modules (finite or non-empty sets, naturals,
`Modes` valid, `NaN` and the infinities no integers); TLC evaluates them on the instances.

| module | theorem | for every |
|---|---|---|
| DbOperations_proofs | `SwitchTypeCorrect`, `SwitchSettles`, `ResponsesEcho`, `UnanimousGaugeShows`, `LoneToggleApplies` | set of togglers (finite or not) and modes |
| | `TypeCorrect`, `SwitchRefined`, `SwitchDecides`, `ArmedIsAnswered503`, `HealthImplemented` | sets of workers, togglers, error types |
| DbCounters_proofs | `CountersTypeCorrect`, `CountersConserved`, `ErrorsAreMatched`, `SimulatedBounded`, `FailuresAreArmed`, `OperationsImplemented`, `CountedSystemKeepsPromises` | finite set of workers, bounds |
| StressSlots_proofs | `StressTypeCorrect`, `SlotsNeverLeak`, `StressIsBounded`, `RunsAreConserved`, `SlotsImplementLease` | finite set of requests, slots, threads |
| Startup_proofs | `SeedIsIdempotent`, `StartupImplemented`, `SessionsShareEngine`, `ShutdownDisposes`, `LifespanTyped`, `SeedSurvivesLifespan`, `HerdIsBounded` | set of processes, finite set of threads of each, number of seed rows |
| RequestMetrics_proofs | `PipelineImplemented`, `MetricsTyped`, `NoConnectionLeaks`, `RequestsAreConserved`, `ErrorsDoKeepUp`, `ConnectionsImplementLease`, `EndpointsAreBounded` | finite set of requests, threads, connections |
| SlowQueries_proofs | `DownIsAnswered`, `SleepIsBounded`, `ClampsHold` | integer or float, NaN and infinities included, in environment and parameter; exception and message |
| ConnectionBudget_proofs | `BudgetTyped`, `ConnectionsHaveOwners`, `BudgetSuffices`, `FullOnlyWithOrphans` | concurrency, pool, server, orphans |

**Switch.** `SettlesOnAsked` speaks only of rest, so it is not inductive. `SwitchIInv` says what
holds in the middle: a toggle being served is in `asked`; the record's flag was asked for as soon as
some toggle has written it, or every toggle of the group is still to write it; the same for the mode
and the gauge. When the last toggle leaves, nobody is left to write and the statement about rest
follows. `ResponsesEcho` is about the step that returns a response; it needs that the flag already
read was asked for (`EnabledEchoed`), and that the mode is one of the group once a toggle which
names one is past its write (`ModeWritten`). Two consequences say when the finding of `switch_gauge`
cannot happen: toggles that agree leave the gauge right (`UnanimousGaugeShows`), and one that
nothing overlapped is applied to the letter (`LoneToggleApplies`).

**Operations.** `IInv` is `SwitchIInv` together with `OpIInv`: the types, that an operation past
its check carries the outcome promised to it (`PromiseKept`), and that the places between check
and raise are marked consistently (`Marked`). `SwitchRefined` shows that `DbOperations` implements
`FailureSwitch`: every step is a step of the switch or leaves it alone, so what is proved of the
switch alone carries over. `HealthImplemented` proves the refinement of `DbHealth` from `IInv`,
one action at a time: no step raises the gauge in a blackout or lowers it in an all-clear, and
none leads from one to the other. `ArmedIsAnswered503` joins three components: the decisive switch,
the label of a simulated failure and the status of that label.

**Counters.** Each conserved quantity is a sum of counters and of the number of workers at some
places. The lemmas of `Census` give the change of such a number when one worker moves, and
`WorkerTally` has one step per kind of action. `ArmedBeforeFailing` needs `ArmingTraced`: an armed
switch, or an operation that saw it armed, has a cause that is counted or still being served. What a
scrape has read was a value of `errors`, which never falls, so the second half of `ErrorsAgree` is
kept by every step once the first half holds. `OperationsImplemented` is the step simulation by which
all that is proved of the operations, `HealthRefined` included, holds of the counted system.

**Stress.** `StressIInv` adds to the types and the accounts that threads never exceed the tokens;
`free >= 0` then follows from the account, not from the guard alone. `SlotsImplementLease` maps
`Admit` to `Take`, `Complete` and `Fail` to `GiveBack`, and every other step to a stutter; that
what is given back is never more than there are needs `StressIInv` in the next state.

**Start-up and lifespan.** `StartupIInv` adds that only a process that has seen the tables looks at
the seed, which carries "seed implies tables" over crashes. `StartupImplemented` is a step
simulation and carries that over to `Lifespan`. `LifeIInv` says, process by process, that one which
called `init_database` has the cached engine in both caches and in every thread's hand
(`Shared`); that no thread is in a request once disposal begins (`Quiet`), which is what the drain
of the server is for; and that what has stopped is closed (`Closed`). A step of one process leaves
the statement about every other alone (`StepOfOne`).

`EnginesBounded` is not inductive: nothing in it says why a thread that is about to build may still
do so. `Herd` does: an engine is only built by a thread that found the cache empty; until the first
one is built there are no more such threads than threads; from then on the cache is full and no
thread joins them, and each that builds leaves them. So engines built and threads that will build
are together never more than the threads. `Herd` also has what remains of `Shared` without
`init_database`: every engine in a cache, in a thread's hand or with an open pool was built by this
very process, and a session never runs without one.

**Requests.** `PipelineImplemented` includes the fairness: the metrics take no part in any guard.
`MetricsIInv` counts the requests at their places with `Census`, and `LoopFree` gives that at most
one is between its two increments, hence `lag <= 1`. `missed` starts at `lag` when a scrape leaves
the first family and never passes it (`StepMissed`). In `ConnectionsImplementLease` the holders are
the sessions whose flag `holds` is set, and `inUse` moves with that flag (`StepPool`).
`EndpointsAreBounded` is the bound on threads that the guards of `StartEndpoint` keep, counted with
`Census`.

**Slow queries.** An answer is always the one to the request and the exception that stand beside
it (`MappingIInv`); the rest is about operators. `MaxClamps` and `MinClamps` say what Python's `max`
and `min` do to any float once their first argument is an integer, and carry all four bounds.
`DownIsAnswered` compares the tables themselves, for messages with any set of words.

**Connections.** `BudgetTypeOK` and `BackendsAccounted` are inductive together; the budget and
`FullOnlyWithOrphans` are arithmetic from them.

**Only model-checked**: the liveness properties (`Recovers`, `GoesDark`, `SlotsReturn`,
`ServesEventually`, `ShutsDown`, `Answered`, `DrillPasses`) and the absence of deadlock, which are
out of the prover's reach: they rest on fairness and on `ENABLED`. Every type invariant, safety
invariant and refinement that a passing run checks is proved.

## 5. Findings

1. **The failure gauge can stay wrong** (`switch_gauge`). `set_db_failure` writes record and gauge
   with no lock (`database.py:88-91`). Two overlapping toggles may leave
   `app_db_failure_simulation_active` opposite to the switch until the next toggle, against
   `metrics.py:128`. What does hold is `SettlesOnAsked`, and the gauge is right when the toggles agreed
   (`UnanimousGaugeShows`).
2. **`db_up` stays 1 in an outage answered 503** (`dbops_last`). A check that fails with
   `operational_error` (the server closed the connection, its name does not resolve) or
   `connection_limit` leaves the gauge as it was: `database.py:252` names three types only. But
   `metrics.py:87` says "Result of the most recent database connectivity check (1 = reachable)", and
   `_common.py:9` counts both types among the "Failures that mean "the dependency is down"". An error
   of a server that answers, such as `dbapi_error`, is not asked to lower it. What does hold is
   `DbHealth`.
3. **A cancelled statement is a 503** (`mapping_cancel`). The word "timeout" in PostgreSQL's
   "canceling statement due to statement timeout" makes it `connection_timeout`: 503, and
   `db_up` drops. The repository's `README.md:854` promises a 500.
4. **No tables after a start without database** (`startup_outage`). `init_database` is not tried
   again, so an empty database that returns is answered 500, not the 503-until-it-returns of
   `README.md:359`.

Seen while modelling, with no run of their own:

* **The drill cannot do what it is for.** `infra/lambda.tf` caps the function at 50 "so a single
  load-test run maxes out RDS connections", and the handler's docstring (lines 4-5) says it "quickly
  exhausts db.t3.micro's ~87-connection limit". With the pool's ten that is 60, as
  `infra/cloudwatch.tf` itself adds up in its comment to the alarm on `DatabaseConnections`; and 60
  is below that alarm's 70, too. `FullOnlyWithOrphans` says that whenever the server is
  full, at least the other 27 are connections of killed invocations. Nothing in the code bounds how
  many of those there may be.
* The handler takes "too many connections" for the server's message
  (`connection_exhaust_handler.py:157`), where PostgreSQL says "too many clients already"; and the
  CloudWatch metric filter of the same text matches the JSON key of every failed connection
  (line 175), whatever failed.
* The alarm `app_error_rate` is described as ">= 5" and compares with `GreaterThanThreshold` 5.
* With `DB_AUTO_INIT=false` two first requests may build two engines; the caches may keep different
  ones, the pool is then twice its size, and `dispose_engine` leaves one open. `OneEngine` holds
  under `auto` only, and without that hypothesis TLC shows this. The herd of first requests is the
  worst there is: `HerdIsBounded` allows one engine per thread of the pool (40 of them, with ten
  connections each), and no request after the first engine adds to them.
* A traffic task that died (a base URL httpx cannot parse) makes the `await` of the shutdown raise,
  and `dispose_engine` is skipped: hence the hypothesis of `ShutdownCloses`.
* `/api/slow-query?seconds=nan` passes both tests; the model has it sleep nothing and end in a 500,
  because the response repeats a NaN that JSON cannot render.
* `DB_POOL_SIZE=0` and `DB_MAX_OVERFLOW=-1` are not clamped and mean "no limit" to `QueuePool`.

## 6. Abstractions, and what is not modelled

* Connections that a crash of the application leaves open at the server: `ConnectionBudget` knows
  orphans of the function only.
* What a scrape shows of the gauge of requests beside their total: it reads them at different moments,
  and nothing is claimed of the pair.
* A failure delay of infinity, with which an armed `connection_timeout` ends in an `OverflowError` of
  `time.sleep`.
* Histograms and labels: observed next to the counters; no property tells them apart.
* Wording of messages, log lines and bodies; durations.
* GET `/api/test/db-failure`: reads only. Its torn read is the one of `_maybe_fail`, without effect.
* The sessions the stress work opens itself: not in `RequestPipeline`; their slots and threads are in
  `StressSlots`. `Startup` and `ConnectionBudget` do not see them either.
* A client that disconnects in the middle (cancellation of `dispatch` or of a stress handler).
* Configuration other than its numbers: booleans, ports and the assembly and redaction of the
  database URL are sequential text handling under unit test. A value that cannot be parsed is a
  `ConfigError` before any state exists.
* A pool without a limit (see section 5): the modules take its capacity for a natural number.
* Logging: no state another part reads.
* The mix and pace of the traffic generator: its requests are those of any client.
* Alarms: declarative thresholds that CloudWatch evaluates. Deployment files, dashboards and scripts
  configure or drive other programs; of them only the container's restart policy and the
  function's reserved concurrency are in a model.

## 7. Plan

Done: all modules of section 2, and the proofs of section 4. In order of importance, next:

1. That what `WithinBudget` assumes of the pool is what `RequestPipeline` guarantees: its `inUse` as
   `appOut` of `ConnectionBudget`, by a refinement.
2. Cancellation of a request in `RequestPipeline` and `StressSlots`.
3. Sessions of the stress work composed with the pools of `RequestPipeline`.
4. Alarm thresholds ("at least five" and "more than five") over periods.

## 8. Running

```
tlc -workers 2 -config MCDbOperations.cfg MCDbOperations.tla
tlapm DbCounters_proofs.tla
```

Every run ends within two minutes; the longest are `lifespan` (183,000 states, a minute and a half),
`requests` (128,000), `dbops` (636,000) and `counters` (1,008,000).
`MCStressSlots.cfg`, `MCStartupOutage.cfg`, `MCRequestMetrics.cfg` and `MCConnectionBudget.cfg`
instantiate `StressSlots`, `Startup`, `RequestMetrics` and `ConnectionBudget` directly, with no MC
module.
