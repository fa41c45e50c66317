# Order service: specification and proofs

This directory specifies the order service of the repository (`src/`) in TLA+,
checks it with TLC on small instances and proves its main safety properties
with TLAPS for every instance. So are the migrations every process runs at its
start, the life of a process, and the redaction of its log.

The service takes `POST /orders`, inserts a `pending` row, charges the customer
at an external Payment Service, reserves stock at an external Inventory
Service, and records every step in one Postgres table. A recovery worker in
every process resolves what a crash, a time-out or a lost write left open. There
are no transactions across calls: the design rests on one conditional `UPDATE`
per transition, idempotency keys, and the classification of errors.

## Inventory

| Component | State | Operations | Module | Properties that make it correct |
|---|---|---|---|---|
| Order aggregate (`internal/domain/order.go`) | status, reference, undrained events | `NewOrder`, five transitions, `PullEvents`, `Total` | `Order`, `OrderTotal` | a transition only from the statuses its guard lists; the total is the order value |
| Use case (`internal/usecase/create_order.go`) | one order per request | `Execute`, `saveTransition` | `CreateOrder` | pending row before the charge; paid row before the reservation; no ambiguous answer becomes a failure |
| Recovery worker (`internal/usecase/reconciler.go`) | cursor, page, order at hand | `Run`, `RunOnce`, `reconcileOrder`, `fulfill` | `Reconciler` | never overwrites a newer state; reaches every unresolved order; settles what the provider decided |
| Repository (`internal/repository/postgres/order_repo.go`) | the table | `Save`, `SaveIfStatus`, `FindByID`, `ListRecoverableIDs` | `OrderRepository` | conditional update; pages in key order |
| Payment client (`internal/paymentclient/client.go`, `ports.go`) | none | `Charge`, `LookupCharge`, error classification | `PaymentClient` | definitive only when nothing is or will be charged |
| Inventory client (`internal/inventoryclient/client.go`) | none | `Reserve` | `InventoryClient` | success only when the stock is held |
| HTTP handler, decorators (`internal/httpapi`, `internal/usecase/*_decorator.go`) | none | status code, counter label, logged outcome, span status | `HttpApi` | a failure answer never hides a charge; a success is a completed order; the observers agree |
| Pending gauge (`CountPending`, `observability/metrics.go`) | none | one count per scrape | `OrderRepository` | zero means that nothing is open |
| Process lifecycle (`cmd/orderservice/main.go`), tracer provider (`observability/tracing.go`) | goroutines, root context, server's result, pool, provider, spans | `run` with its deferred calls, signals, worker, server, handlers | `Process`; crash and restart in `OrderService` | resources outlive their users; exit code 0 means drained; spans end before the provider is shut down; it stops when asked |
| Migrations (`internal/repository/postgres/migrations.go`) | advisory lock, ledger, schema, sessions | `Migrate` | `Migrations`, `SchemaHistory` | a file name executed once, by one run at a time and after the files its release sorts before it; a process serves only a schema that has its release |
| Logger (`observability/logging.go`) | none | redaction of every logged value | `Redaction` | what a key or a pattern names never gets through, everything else does |

The components interact by calls. Requests and the workers of all processes
share the table, and through it and the idempotency key (the order ID) the two
services. What is hard: requests and workers interleave between any two calls;
every call may fail with its effect done, not done, or done later; processes
crash between any two calls; the provider may decide on a charge long after the
caller gave up. Processes of several releases start at the same time on one
database, and a session may go on after its client is gone; a signal may arrive
at any point of a start or of a failure. `PROJECT.json` lists the hazards at their lines.

## Modules

- `Order`: the aggregate as a record and operators. Data that no transition
  reads (customer, items, times) is left out; a request says whether they are
  valid.
- `OrderTotal`: `Total` in two's complement. `MaxInt` stands for 2^63 - 1; the
  loop is a recursive function over its rounds, so that it can be proved about.
- `OrderRepository`: a statement is the record of the row it looks for, the
  status it expects and the columns it sets; `Apply` executes one. IDs are
  numbers in the order of the primary key, 0 is the empty cursor.
- `PaymentClient`, `InventoryClient`, `HttpApi`: pure classification operators.
  `StrictDecoding = FALSE` is an adapter that passes on unknown statuses, the
  case the `default` branches of `Execute` and `reconcileOrder` are written for.
- `ServiceState`: constants, variables, `TypeOK`, `Init`, and the answers the
  services may give.
- `CreateOrder`: 16 actions, one per call `Execute` makes. `req[o].pc` is the
  place in `Execute`; `branch` is the case of its `switch` that `saveTransition`
  was called from, which decides the error that is returned.
- `Reconciler`: 17 actions, one per call of `RunOnce`, `reconcileOrder` and
  `fulfill`. `cutoff` is the set of orders old enough when the batch began.
- `OrderService`: composes the two with the services, the clock (`OrderAges`),
  the database (`LateStatement`) and `Crash`; fairness; properties.
- `OrderLifecycle`: the abstract specification. It has no requests, workers,
  messages or failures, only the status, the decision, the stock and whether the
  reference is kept.
- `HttpApi` also has what the three decorators report (`CountedAs`, `LoggedAs`,
  `SpanFailed`), and `OrderRepository` the gauge (`CountPending`, `PendingGauge`).
- `Migrations`: one action per statement of `Migrate`, for any number of runs; a
  process that is started again is another run. A release is a set of files, each a
  name and a checksum; the ledger is keyed by name, as in the code. Of names only
  the order matters, so they are numbers.
- `SchemaHistory`: the abstract specification of `Migrate`: one history of
  upgrades, each on top of the earlier files of its release, and processes that come
  up on it with all of theirs. No sessions, locks, ledger or transactions.
- `Process`: `run` of `main.go`, one action per step and per deferred call, with
  the goroutines it starts. `main` is the place in `run`; the tracer provider
  and the spans that pass through it are in the same module, because `run`
  shuts it down last.
- `Redaction`: `sanitizeValue` and its helpers on values of bounded depth. It is
  recursive, so it is checked and not proved.
- `OrderServiceProofs`: the inductive invariant of the service and what follows
  from it alone. `TransitionProofs` extends it by what is carried between two
  calls, and proves the refinement; `AnswerProofs` (what callers, metrics, log and
  trace are told) and `EventProofs` (the log of events) extend that one.
  `PagingProofs`: the worker's pages and cursor. `MigrationsProofs`, `ProcessProofs`,
  `OrderTotalProofs`: the proofs of those components.
- `MCOrderService`, `MCMigrations`, `MCProcess`: what the runs need.

Operators under a comment that begins with *Bug* are deliberately wrong variants
of the definition that follows them; no specification uses them. Replacing the
definition by its variant makes a named property fail, which shows that the
property has teeth; `PROJECT.json` pairs them.

Modelling decisions:

- A database call that returns an error has been executed, will be executed or
  never is. `Abandons` puts the statement in `late`, from where `LateStatement`
  may take it at any time, or never.
- A cancelled request context is a sequence of failing calls, so it needs no
  action of its own.
- `charge[o]` is the provider's decision, taken once per idempotency key at any
  time after the request was sent. `rejected` is a refusal without a record: a
  lookup does not find it. Answers that say nothing of the decision (transport
  failure, the codes of `UndecidedCodes`, unreadable bodies) are always possible.
- An order is named by its ID from the start of its request; IDs are 128 random
  bits in the code and unique in the model.
- `MinAge` and the requests' duration are unrelated: the time-outs are set
  independently and the database calls have none, so an order may age while its
  request is in flight.
- The Prometheus counter, the log, the trace and the HTTP answer are functions of
  the result of `Execute`.
- `Migrations`: a run whose connection breaks, whose process dies, or whose wait
  for the lock is given up leaves a lost session. The server may still execute
  the statement it was sent (`LateLock`, `LateLedger`, `LateCommit`), and only
  then, or instead, ends the session, which rolls back and releases the lock. A
  failing statement on a connection that stays usable is `StatementFails`. The
  ledger's primary key is modelled although the lock makes it unnecessary:
  that it is never hit is `NoLedgerConflict`. That does not mean that no start fails
  because of another: its wait for the lock is part of the 10 seconds of
  `connectCtx` (`ConnectionLost` at `lock`). All migrations are taken to be
  transactional, as the repository's are.
- A release may insert, rename, remove or edit a file. `Migrate` asks the ledger for
  the name, so an inserted file is executed after files that sort behind it, a
  removed one is not missed, and only an edited one is refused. `ExecutedInOrder`
  says what is left of the order: a migration follows all the files that a release
  with it sorts before it.
- `Process`: once `stop` has been called signals have their default effect again,
  so a second one kills (`Kill`). A handler that `Shutdown` gave up on is
  cut off at the exit; what that does to its order is `Crash` in
  `OrderService`. All batches of a worker share one span, whose fate is that of
  any of them. Requests have their own contexts; rootCtx does not cancel them. A
  connection that was accepted before `Shutdown` may still bring its request
  (`StartHandler`), and `Shutdown` waits for it; that it closes idle connections and
  waits for the others is `net/http`'s documented contract.
- A span that ends is queued, discarded by a full queue, or unsampled, since the
  sampler follows the caller. An export takes any part of the queue and writes any
  part of that. The provider's `Shutdown` may fail or run out of its 5 seconds with
  spans still queued, and `run` ignores its error, so exit code 0 says nothing about
  spans that were taken. What the order of the deferred calls does guarantee is that
  spans are not offered too late, which is `SpansEndInTime`.
- `FromThere(s)` is the set of statuses a row may have after `s`. That a row is there
  (`EventsFollowCommits`, `ReportedStatusWasStored`) means that it is at `s` or beyond.
  For `completed` and `failed` this is the status itself; for the others the row
  may have got there another way, so that a `payment_unknown` told of a row that went
  from `pending` to `paid` would not be noticed.
- `ListRecoverableIDs` and `CountPending` each have a list of statuses of their
  own, as their queries do.
- `Redaction`: a text is a sequence of fragments, each ordinary or found by
  exactly one pattern; a key is a word with a spelling. Values of types that
  `sanitizeValue` does not know pass through, as in the code.

## Runs

| Run | Instance | What it shows |
|---|---|---|
| `races` | 1 order, 2 processes, 1 late statement, processes symmetric | every interleaving of a request and two workers implements `OrderLifecycle`; `ServiceInv`; events once and after the commit; no reported state is ahead of the table; a success is a completed order |
| `crashes` | 1 order, 1 process, 2 crashes, 2 late statements | failed rows and failure answers never hide a charge; side effects follow the row that records them; the lifecycle is implemented through crashes; log, counter, trace and answer agree; a gauge at zero means that every order is settled |
| `recovery` | 1 order, 1 process, 1 crash, 1 late statement, fair | a decided charge ends in a completed or failed order |
| `paging` | 2 left-over orders in any state, 1 worker, page of 1 | the cursor passes an order that never settles, and wraps; no batch skips an order or comes back empty while there is one to recover |
| `lax_adapter` | 1 order, 1 process, unknown statuses passed on | protocol drift becomes neither a failed order nor an answer that reads as a failure; `ServiceInv` |
| `deploys` | 3 starts, 3 releases (one file; one that inserts a file before it; one in which the inserted file is edited and a later one added), fair | one migrator at a time; ledger and schema agree; no name is executed twice, and the primary key is never hit; a file follows those its release sorts before it; who serves has its schema; `SchemaHistory` is implemented; nobody waits for a lock for ever |
| `process` | 2 requests, every kind of exporter setting, fair | database and provider outlive worker and listener on every path; exit code 0 means that nothing was cut off; no span of the worker, and none of a request after a clean stop, ends after the provider; a signal or a failed server ends the process |
| `redaction` | a sensitive and a plain key word in every spelling, texts of up to 2 fragments, depth 2 | exactly what a key or a pattern names is replaced, at every depth |
| `total` | integers from -8 to 7, up to 2 items | exactly the values that fit are computed exactly |
| `overflow` (violation) | the same | a value that does not fit wraps |
| `redirect` (violation) | a 302 among the undecided codes | a 3xx becomes a definitive rejection |
| `lost_finish` (violation) | 1 order, 1 process | `ErrFulfillmentPending` for a completed order |

Bounds. Orders do not interact in the code but through the worker's page, so
safety runs have one order and `paging` has two, which with a page of one makes
the cursor advance and wrap; the proofs cover any number. Two processes give
three actors on one order, which is as many as can win, lose and be overtaken in
one transition. Each crash and each late statement may fall between any two
steps; two of each let a second one hit what the first left behind. Four-bit integers
wrap in the same way as 64-bit ones (and the proof is for every width). Three starts are one that dies with the lock,
one that overtakes it, and one that meets what both left; the releases let a file
be new, applied, changed, inserted before an applied one, and missing from a release
that starts later. Two requests let one be answered and one be
in flight when the time of `Shutdown` is over. Depth 2 puts maps and slices in each
other; deeper values repeat the same calls.

Fairness. `WorkersRun`: `Run` loops for ever and every call returns. HTTP
calls have a time-out; database calls have none, so this is an assumption on the
driver. `TimePasses`: a row becomes older than `MinAge`. `PagesListed` and
`CallsAnswered`: a call that is repeated for ever is not refused for ever
(strong fairness, since between two attempts the worker does other things).
Nothing is assumed of requests, of the provider's decisions, of late statements
or of crashes. In `paging`, calls for only one of the orders are ever answered.
An order whose charge the provider never decides on stays unresolved, as
`src/README.md` says: liveness is stated for decided charges only, and
`GaugeAtZeroIsSettled` says that such an order stays visible.

`Migrations`: a statement returns once the server can execute it, and the
server notices that a client is gone, which ends its session (TCP keep-alive).
Faults and late statements are never assumed to happen. `Process`: `run` goes on,
the context of `Shutdown` expires, and once rootCtx is done the worker's calls
return, since all of them take it. Nothing is assumed of handlers, and a batch
need not end while rootCtx lives.

Findings. `overflow`: `NewOrder` bounds neither price nor quantity from above,
so `Total`, "the order value in cents", wraps. `redirect`: `TRACING.md`
says that protocol failures move an order to `payment_unknown` and definitive
4xx to `failed`; `OutcomeMayHaveCommitted` treats 3xx like a 4xx. `lost_finish`:
the comment on `ErrFulfillmentPending` says something must be retried; a request
whose final write lost to recovery returns it with a completed order. A unit test
(`create_order_test.go:431-434`) expects this, so it is the comment that diverges.

With `StrictDecoding = FALSE`, `Execute` also stores an approval without
a reference, which `reconcileOrder` refuses; `PaidMeansCharged` and the lifecycle's
rule that a paid order keeps its reference therefore rest on the client's own
check. Nothing else does: see the proofs.

## Proofs

`OrderServiceProofs` proves, for every `Orders`, `Procs`, `BatchSize`,
`MaxCrashes` and `MaxLate`:

- `ServiceInvariant`: `TypeOK` and `ServiceInv` are invariant;
- `TypeCorrect`: the type invariant;
- `PaymentTruth`: `FailedMeansNotCharged`, and a paid row is of an approved charge;
- `PaidIsTraceable`: `PaidMeansCharged`, for a strict client;
- `ChargeIsTraceable`: `ChargeLeavesTrace`;
- `FulfillmentTruth`: `ReservationMeansPaid`, `CompletedMeansReserved`.

They assume `ProviderContract`: a code the provider may send although it charged,
or may still charge, is one that `OutcomeMayHaveCommitted` calls ambiguous.
`redirect` shows what happens without it. `StrictDecoding`, which is what the
repository's client does, is a hypothesis only where the reference matters:
of `PaidIsTraceable` and of `ServiceRefinesLifecycle`. Everything else holds for a
client that passes on what it decodes as well: there the `default` branch of
`Execute` and the checks of `reconcileOrder` are enough, and `ServiceInv` says that
a paid row carries its reference only under `StrictDecoding`.

The properties are not inductive: a row is only as good as the statement that
writes it, and statements are prepared in one step and executed in another, by
actors that may be gone. `ServiceInv` therefore says of every statement, in a
request, in a worker or abandoned in the database, that the services justify the
row it writes and that it moves its row forward from the status it expects; and of
every actor that the table has reached whatever the actor saw or stored. The
argument is one frame lemma: a step is `Forward` when rows only move
forward, decisions are never revised and stock is never released, and a forward
step keeps the invariant of everyone it does not touch (`Frame`). Executing a good
statement is a forward step, however late (`ApplyGood`). What is left is, per
action, that the actor's own part holds afterwards. `ChargeFacts` and
`LookupFacts` are where the error classification enters.

`TransitionProofs` proves `ServiceRefinesLifecycle`: the service implements
`OrderLifecycle`. `ServiceInv` is not enough for it: it says that a row on its way is
true and ahead of the table, not that it is one move ahead. `TransitionInv` says
that every statement, held by a request, by a worker or abandoned, makes exactly
one of the nine `Moves` from the status it expects, that a row which was never paid
has no reference, and that an order between its transition and its log entry
holds exactly the event of the transition (`AnnouncesItself`). It is proved
inductive together with `ServiceInv` (`TransitionInvariant`); per actor there is a
lemma on what it carries after its step (`RequestCarriesStep`,
`RecoverCarriesStep`, `EnvironmentCarriesStep`). The step lemma then has two cases:
a lawful statement that finds the status it expects is the abstract step of
its move (`ApplyRefines`), and every other step either is a decision or a reservation
or changes nothing the lifecycle sees (`StepRefines`).

`AnswerProofs` proves `AnswersAreTrue` (`ReportedStatusWasStored`,
`SuccessMeansCompleted`), `FailuresAreFree` (`FailureMeansNotCharged`), `OneStory`
(`ObserversAgree`) and `GaugeIsAuthoritative` (`GaugeAtZeroIsSettled`). The
invariant `AnswersInv` says of every answer given that its request is done, that
the row is at the status it reports or beyond, that an answer without an error
reports `completed` or a decline, and that a code that reads as a failure
goes with an order that cannot be charged any more; a request that has not
answered has no response yet. Once given, an answer stays true because steps
are `Forward` (`AnswerFrame`); that it is true when given is one case per branch of
`Execute` (`AnswerCodes`, `RequestAnswerStep`). The gauge needs finitely many
orders, since it is a count, and follows from `ServiceInv`.

`EventProofs` proves `EventsAreTrue` (`EventsFollowCommits`, `EventsLoggedOnce`).
That an event is logged once depends on who is about to log it: `TellersInv` says
that an actor between its write and its log entry is the only one for that
status, and that nothing has been logged for it. It is kept because whoever executes
a statement found the row in an earlier status, so nobody can have stored, let
alone logged, the new one before (`FreshStatus`, `StoreStep`); that the actor then
logs exactly that event is `TransitionInv` (`LogStep`).

`PagingProofs` proves `RecoverySweeps` (`SweepMissesNothing`) for any finite set of
orders and any page size. `ListRecoverableIDs` selects by rank, so the facts
about a page are facts about cardinalities: it is an initial segment of what is
ahead of the cursor, never longer than the limit, and shorter only if it is all
(`InitialSegment`, from the least and the greatest member of a finite set). `SweepInv`
adds that the second query of `RunOnce` starts from the first ID, and that the
cursor is never beyond the rest of its page. This is the safety half of
`NoStarvation`.

The hypotheses of these four modules are those above, and that `Orders` is finite
where a theorem counts. Before they were proved, `TransitionInv`, `AnswersInv` and
`TellersInv` were model-checked with the constants of `races` and of `crashes`,
with `StrictDecoding` true and false.

`MigrationsProofs` proves, for every set of runs and every set of releases:

- `MigrationsInvariant`: `MigrationsTypeOK` and `MigrationsInv` are invariant;
- `MigrationsAreSerial`: `OneMigrator`, `LedgerIsHistory`, `NoLedgerConflict`;
- `MigrationsAreOrdered`: `ExecutedInOrder`;
- `AppendOnlyIsSorted`: if releases only add files behind those of others
  (`AppendOnly`), the whole history is in the order of the names;
- `ReadyMeansMigrated`: `ServesMigratedSchema`;
- `MigrationsRefineHistory`: `Migrations` implements `SchemaHistory`.

They assume only that `NoRun` is no run and that a release has one file of a
name; releases may otherwise differ in any way. `ServesMigratedSchema` is not inductive: what a run that is up relies
on was established file by file, by it and by runs before it. `MigrationsInv` adds
who may have the lock (`LockInv`: a session that is open or lost, of a run past
the lock), what a run at a file has verified, namely that all earlier files of its
release are applied as they are, and that the name of an open transaction is not
applied yet (`RunInv`), and that a COMMIT, on its way or executed
late, always carries both the migration and its row (`TransactionInv`). Two
frame lemmas do most of the work: a step that commits nothing only has to
restore its own run's part (`Frame`), and a commit by the session with the lock
leaves the others' part alone, because they have neither lock nor transaction
and what they verified are rows of a ledger that only grows (`CommitFrame`).
`ExecutedInOrder` is kept because whoever commits had verified the earlier files, and
what is executed stays in its place.
The refinement maps `Commit` and `LateCommit` to `Upgrade`, the return without
an error to `ComesUp` (`PublishUpgrades`, `ReturnComesUp`) and all else to
stuttering.

`ProcessProofs` proves, for every set of requests and every exporter setting,
`ResourcesAreSafe` (`ResourcesOutliveUsers`), `CleanStopIsDrained`
(`CleanStopDrains`), `SpansAreInTime` (`SpansEndInTime`) and
`ProcessTypeCorrect`. The invariant behind them says for each place of `run` what
is still running and what is still there: nothing before the goroutines are
started, the worker stopped before the pool is closed, no listener once the
select is left, nothing in flight once nil is returned.

`OrderTotalProofs` proves, for every width of the machine's integers, any number
of items and every list of items `NewOrder` accepts, that `Total` is the order value
wrapped once (`TotalIsWrappedValue`), although the loop wraps after every
multiplication and after every addition, and so that it is the order value for
exactly the orders whose value fits (`TotalIsExactWhenItFits`, which is
`TotalIsValueWhenItFits`). There are three parts. Wrapping is a congruence: `Wrap(n)`
differs from `n` by a multiple of `Modulus` and lies in the machine's range, where no
two numbers do (`WrapFacts`, `WrapShift`, `WrapSum`). The recursive functions for
the loop exist and satisfy their equations: a loop with one number for its
state has a history (`LoopHistory`, `RunningTotalRounds`, `RunningValueRounds`).
And the rounds are inducted over: the library's induction theorems take an operator
as a parameter, which the provers cannot instantiate, so `RoundInduction` takes the
set of the rounds that are right and looks at the smallest one outside it, which
exists because `<` is well founded (`SmallestRound`).

Only model-checked, because it is out of the proof system's reach:

- liveness under fairness: `DecidedChargeSettles`, `NoStarvation`, `FocusSettles`,
  `MigrateReturns`, `StopsWhenAsked`;
- `RedactionIsExact`: `sanitizeValue` recurs on the structure of a value, not on a
  number. It and the leaves it is compared with are RECURSIVE operators, and no
  theorem can be proved in a module with one.

## Not modelled

`UpdateStatus`, which nothing calls; `TracingOrderRepository`, which passes
every call through; span attributes, propagation and IDs, metric
durations, exemplars and the tier label, and the wording of log lines, which
nothing reads back; the parsing of settings and the values of durations; the
contents of items and their JSON; the ticker's interval; HTTP header and body
limits beyond "the body is well formed or not"; the SQL of the migrations, beyond
the CHECK constraint that `TypeOK` has; replays of a request by the HTTP transport,
which the idempotency keys make invisible; a client that repeats `POST /orders`,
which creates a second order by design of the API. The regular expressions of
the logger are taken at their word: what they find is an input of `Redaction`.

## Status

The order service with its recovery, the migrations, the process lifecycle, the
total, the redaction and the observers are modelled and checked. Every safety
property of a passing run is proved for every instance but `RedactionIsExact`, and
both refinements are; liveness stays with TLC.

A change of the code that would want a new piece here: a bound on prices and
quantities in `NewOrder` turns `overflow` into a passing run and, with
`TotalIsWrappedValue`, into a corollary; an adapter without the reference check
needs a lifecycle in which a paid order may lack it.
