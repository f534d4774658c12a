# A TLA+ model of Go-server

Go-server serves investment reports. It reads brokerage accounts from the
broker (ESCO), copies them into Postgres, computes returns against reference
variables (BCRA), renders reports, and schedules them. One binary (`main.go`)
starts either the API or the worker.

This directory holds TLA+ modules for the parts of the program where steps of
several goroutines, requests or processes meet and for the computation of its
reports, the TLC configurations that check them, and TLAPS proofs.
`PROJECT.json` lists the runs, the mapping from definitions to source lines, the
hazards each property is for, and the mutants that show each property can fail.

Source paths below are relative to `src/src/` unless they start with `src/`.

## 1. Inventory

| Component | State it keeps | Operations | Interacts with |
|---|---|---|---|
| Account synchronisation: `services/sync_service.go`, `repositories/*`, `api/*/accounts.go` | tables `asset_categories`, `assets`, `holdings`, `transactions`, `sync_logs`; per request: days to sync, fetched account state, days collected | `SyncAccount`, `SyncDataFromAccount`, `StoreAccountState`, the repositories' `Create`, `MarkClientForDates`, `GetSyncedDates` | calls the ESCO service; shares Postgres with every other request and with the account queries |
| ESCO account fetch: `services/esco_service.go`, `clients/esco/service.go` | per call: the results and `err` variables its goroutines share, two channels, retry counters; Redis answers | `GetAccountStateWithTransactions`, `GetAccountStateDateRange`, one goroutine per day, parsing | the broker over HTTP; Redis |
| Report worker: `worker/controllers/reports.go`, `scheduler/base.go` | map `Schedulers` under `SchedulerMutex`; one cron, entry and cancel channel per task | `ScheduleReport`, `Cancel`, cron jobs, the two loaders | `robfig/cron`; the table `report_schedules` |
| Reference variables: `api/controllers/variables.go`, `clients/bcra` | an unlocked map and an error channel per call; the variables cache | `GetReferenceVariables...DateRange`, `ComputeValuationVariations` | BCRA over HTTP; the in-process cache |
| Caches: `utils/cache.go`, `utils/redis` | value, time cached, expiration; Redis keys without expiry | `Get`, `Set`, `Clear` | ESCO and BCRA clients |
| Report schedules: `api/controllers/report_schedule.go` | table `report_schedules` | create, read, update (read, then write of all columns), delete | Postgres; read by the worker |
| Account queries: `services/account_service.go` | none of its own | the queries behind a report, grouping by category | reads the tables a sync writes |
| Report returns: `services/report_service.go` | none (pure) | returns per holding, asset and category, collapsing by interval, weighted totals | account state in, report out |
| Rendering, dataframes: `services/report_parser_service.go`, `utils/dataframes.go`, `utils/interval.go`, `utils/render`, `api/*/reports.go` | none | dataframes, their union by date, shares, charts, HTML, PDF, Excel | report and reference variables in, bytes out |
| Plumbing: routing, config, tokens, AWS, logging | none | pass-through | |

What makes each of them correct, and what is hard about it:

* **Synchronisation.** The tables must agree with what the broker delivered,
  on every day `sync_logs` calls synced. Hard: a request makes dozens of
  separately committed calls; requests overlap (a sync runs on
  `context.Background()` and outlives a client that has given up and asks
  again); any call can fail, its acknowledgement can be lost, and the process
  can die between any two; `transactions` has no unique key.
* **ESCO fetch.** A success must not hide missing data, and a transient
  failure must be retried. Hard: all goroutines of a call assign and read one
  `err`.
* **Worker.** At most one live task per schedule, cancelled once, and no job
  after those it has when it is cancelled; no task lost but to an invalid cron
  expression. Hard: the mutex is released between cancel and insert, and jobs
  already started race the cancel.
* **Reference variables.** The two goroutines must not lose a result, corrupt
  the map or block on the unbuffered channel.
* **Caches.** A value served must be one that was current when the caller's
  freshness limit says so. Hard: the clock is read before the lock is taken, the
  list is fetched without it, and whatever came back is stored over what is there.
* **Report schedules.** An update must not undo a concurrent one.
* **Account queries.** The totals and assets of one report must describe one
  state of the tables.
* **Returns and tables.** The returns, weights and shares a report states must
  be what the holdings did. Hard: movements are not earnings, and lose their
  value on the way through the tables; returns are cumulative over the report
  while weights are per interval; days, intervals and the grid of the report
  must line up at both ends, for every number of days and any gap.

## 2. Modules

| Module | Contents |
|---|---|
| `SyncService` | one POST `/sync` after another, or overlapping: every call of a sync, failures, crashes, the five tables; its properties and inductive invariants |
| `SyncContract` | what synchronisation promises: an abstract specification of three actions |
| `MCSyncService` | broker books for TLC |
| `SyncServiceProofs` | the inductive invariants, the safety properties, the refinement of `SyncContract` |
| `AccountQueries` | composes `SyncService` with the queries of one report; `MCAccountQueries`, `AccountQueriesProofs` |
| `EscoFetch` | one `GetAccountStateWithTransactions` with all its goroutines; `MCEscoFetch`, `EscoFetchProofs` |
| `ReportWorker` | calls of `ScheduleReport`, the map, the crons and their jobs; `ReportWorkerProofs` |
| `ReferenceVariables` | the goroutines, map and error channel of a report's variables, lookups, the cached list, valuations and variations; `MCReferenceVariables`, `ReferenceVariablesProofs` |
| `ReportSchedules` | the operations on schedules, statement by statement; `MCReportSchedules`, `ReportSchedulesProofs` |
| `ScheduleStore` | what the schedules promise: an abstract store |
| `Fractions` | exact rational numbers; `NumberProofs` |
| `AccountStates` | parsing, collapsing and grouping of account states, and their way through the tables, as functions |
| `ReportReturns` | returns, weights and the report, as functions |
| `ReportTables` | dataframes and charts, as functions |
| `Reports` | a report request from the broker's data to its file; `MCReports`, `ReportsProofs` |

### SyncService

A request is one call of the handler. `pc[r]` names the call it makes next;
`span`, `toSync`, `fetched`, `todo`, `asset`, `pending` and `dates` are the
locals of `SyncDataFromAccount` and `StoreAccountState` (`datesToSync`,
`accountState`, the range over `Assets`, the current asset, the rows its loops
have still to write, `datesWithData`). The tables are sets, except
`transactions`, which counts rows, for it has no unique key.

| Action | Code |
|---|---|
| `SyncAccount` | the handler accepts a range with `startDate <= endDate` |
| `GetDatesToSync` | the read of `sync_logs`, and the days of the range it lacks; the end of the range is excluded (`sync_service.go:88`) |
| `FetchAccountState` | the broker fetch, whose range does include the end; `Deliveries` is what it can return |
| `FetchNothing` | the branch for a nil state without an error (`sync_service.go:66`); today's `ESCOService` never takes it, other implementations of the interface may |
| `NextAsset`, `AllAssetsStored` | the loop over the map of assets, in any order |
| `GetCategory`, `CreateCategory`, `CreateAsset` | `storeAsset`: a read that ends before its first row counts as "not found" |
| `CreateHolding`, `CreateTransaction` | one database transaction per row, holdings before transactions; holdings upsert, transactions insert |
| `AssetStored` | the days of the asset's rows join `datesWithData` |
| `MarkDatesAsSynced` | all collected days enter `sync_logs` in one transaction |
| `Respond` | the answer, which is another fetch |
| `CallFails`, `Crash` | an error path returns at once and undoes nothing; a crash ends all requests and leaves the tables |

A write either commits and returns, fails without effect (`CallFails`), or
commits and returns an error because the acknowledgement was lost (`Committed`).
Retries are further requests. An ended request keeps its locals; the properties
read them as the record of what the broker gave it.

Data is abstract: a holding is an account, asset and day; a transaction also
has an id that tells apart equal ones, and may be undated. Amounts, names and
currencies are left out: they are copied, and no branch depends on them.

### SyncContract

Three variables: account states offered by the broker, items stored, days
marked. An item is stored only if it was offered; a day is marked only if one
offered state of that account has data for the day and all of it is stored.
`SyncService` implements it with `offered` the non-empty states its requests
fetched, `stored` the rows and `marked` the log. The contract says nothing of
requests, assets, crashes or order.

### EscoFetch

One call with its goroutines: the one that runs `GetAccountStateDateRange`
(`rangePc`), one per day (`dayPc`), and the one for the transactions (`txPc`).
`dayErr` is the `err` of `GetAccountStateDateRange`, `err` that of
`GetAccountStateWithTransactions`; each is written when a call returns and read
in a later step.

Reading and writing them unsynchronised is undefined in Go. A check directly
after the call may read the shared variable or the result kept in a register:
`SeesFailure`/`SeesSuccess` and `CheckCtaCte` allow both. Only whether an error
is nil is modelled. That is decided by one machine word; which message goes
with it is not modelled. A failed call always comes with nil data, so `answered`
and `withTx` also say what the call itself returned.

`failures`, `noAccount` and `unparsed` are history: the number of failed calls (up
to `CountUpTo`), whether the lookup of the account failed, which is never retried,
and the days whose own answer did not parse, which is not retried either. Nothing
reads them but the properties. Waiting 100 ms between
tries is the state `"sleep"`: what matters of it is that others run meanwhile.
The day each goroutine asks for is left out, and what is in an answer: that is
parsed and merged in `AccountStates`. That a state may lack days or all
transactions is what `SyncService` takes from here, as `LossyFetch`.

### ReportWorker

A call of `ScheduleReport` looks up, cancels (in two steps: the cron entry, then
the channel), creates and inserts; `mutex` is held from the lookup of an
existing task to its delete, and taken again for the insert. `Tick` is the cron
starting a job, `CheckCancel` the job's `select` on the cancel channel,
`StartReport` the call of the report in its `default` branch, `JobEnds` the
end of the report. The check and the call are two steps, so a cancel between them
comes too late: the job still runs the report (`cleared` counts such jobs). What
the code does promise is that this is the last of it: the cron entry is gone
before the channel is closed, so no job joins those under way, none of those
that look at the channel later gets past it, and in the end the task has none
(`CancelledTasksDrain`, `CancelledTasksRest`). `before` is history: the calls already
over when one starts.
A task is named by the call that made it. An invalid cron expression is a
choice of the environment; it is found out only after the old task was cancelled,
and `TaskLostToInvalid` says that nothing else leaves a schedule without its task.

### AccountQueries

A report makes seven queries and then one more per client (`at` names the next):
sums by category, totals by day, the categories of all assets, the rows
themselves, and the assets of each client by id. Each is a statement of its own
on the connection pool. `AccountQueries` extends `SyncService`: between any two
queries, any commit of any sync may fall, fail or crash. A sum is modelled by
the rows it is taken over, so that two sums can be compared. `marked` is
history: the log when the report began. An error of a query (`QueryFails`) ends
the report.

| Action | Code |
|---|---|
| `ReadHoldings`, `ReadTransactions` | the six queries over a range of days, both ends included (`holding_repository.go`, `transaction_repository.go`), in the order of `account_service.go:88-126` |
| `GetWithCategories` | all assets joined with their categories |
| `GetByIDs` | `buildAccountState` of one client: the assets of its rows; a row whose asset is not found is skipped |
| `BuildAccountStateByCategory` | the grouping, which puts an asset without a known category under `"S / C"` |

### ReferenceVariables

A report's call of `GetReferenceVariablesWithValuationDateRange` starts three
goroutines. `at[f]` is where a fetching goroutine is, `main[r]` where the report
is, `result[r]` which entries the map has, `closed[r]` whether `errChan` is
closed. Every fetch asks for the list of variables (cached) and for values.

| Action | Code |
|---|---|
| `GetReferenceVariables`, `Lookup` | a report starts its goroutines; a lookup runs in its own request |
| `ReadClock`, `GetCached` | a lookup in the cache: the clock is read before the lock is taken, so that a list cached in between is not taken (`utils/cache.go:49`); `seen` is what was cached when the clock was read |
| `GetVariables` | the list from the bank, and its way into the cache; an error status is not checked, so that an error's body, an empty list, is cached as well (`clients/bcra/service.go:64`) |
| `GetValues`, `CallFails`, `GetNothing` | an answer with values, an error, or an answer with neither: then `nil` is passed to `CompleteValuations`, which panics |
| `StartWrite`, `EndWrite` | a write to the map; if two overlap, the runtime may detect it and end the process, or may not |
| `ReceiveError`, `CloseErrChan`, `ReceiveClose` | the unbuffered channel: one receive, by a report that then answers or fails; the close needs both fetches done |
| `Tick` | time, for the expiry of the list |

A panic in a goroutine of a report takes the process down (`up`); one in a lookup
ends that request. `errors` and `blank` are history. Values are natural numbers
by day; a variation is an exact fraction.

### ReportSchedules and ScheduleStore

A request is one call of a handler; `pc` names the statement it makes next.
`ReadRow` and `WriteRow` are the two halves of an update, `RowExists` and
`DeleteRow` those of a delete; `copy` is the row an update read with its fields
replaced. Each statement is a transaction whose acknowledgement may be lost
(`Committed`), or fails (`StatementFails`; the handlers time out after 10 s).
`versions` (rows each schedule has had) and `before` (requests over when one
began) are history. Of the columns, those an update may set are modelled.

`ScheduleStore` is the abstract specification: ids are given once, a deleted
schedule never returns, an update writes its fields over a row the schedule once
had. It does not promise that this row is the latest, because the code does not
either. `ReportSchedules` implements it with the same `rows` and `versions`.

### AccountStates, ReportReturns, ReportTables, Reports

These are functions from one stage of a report to the next, named as in the
code; `Reports` puts them in order, with the two ways a request ends early
(`RangeRefused`, `LoopForever`).

* `AccountStates`: a day's answer is parsed into holdings by asset, a ledger into
  movements. Then there are two ways to a state by category: through the tables
  (`StoreAccountStates`, the queries, `buildAccountStateByCategory`), which is the one
  reports take, and straight (`CollapseAndGroupAccountsStates`).
* `ReportReturns`: daily rates of an asset net of its movements, compounded and
  collapsed into intervals; category returns; the weighted total; the final
  return; the filter to the days of the report's grid.
* `ReportTables`: the interval parsed from the query, the grid, six dataframes,
  shares, the union by date, and what the charts of the file show.

Amounts are integers with `One` the amount of a peso, rates exact fractions
(`Fractions`): the rounding of `float64` is left out, the rounding to two decimals
in the tables (`Hundredths`) is not. Days are integers, for all times of a report
are the same hour of a day. Iteration over Go maps is a choice only where it
decides the result (`order`), and the sort of an asset's rows by date leaves the
order of rows of one date open (`SortedByDate`).

`InOrder` and `Select` stand for Go's sort of dates and for its filtering loops. The
library's `SortSeq` and `SelectSeq` would say the same, but nothing can be proved
of them: one is defined by recursion inside `LET`, the other is built into TLC. For the
same reason tables are put together with `Merged` and `Named`, not with TLC's `@@` and
`:>`. The name of a column is a pair of a category and an id or, for the total, a
sequence of one word (`Word`), so that no asset's column is the total's.

Two properties of `Reports` say when they apply. `ReturnsShownAtTheirEnd` is about
entries with an id (`Identified`): a category's assets without one would all have the
column of its name and an empty id. `SharesSumToWhole` is about days on which each
asset is worth nothing, or a peso or more in whole hundredths (`ShownExactly`): what is
below a peso is shown as zero while the total counts it, and fractions of a hundredth
are lost in each cell before the shares are taken of them. `NearWhole` then allows half
a hundredth of a percent a share.

## 3. Runs

| Run | Distinct states | What it shows |
|---|---|---|
| `sync_faults` | 151,861 | Two requests over one account in every interleaving, with failing calls, lost acknowledgements, crashes and fetches that lose data: foreign keys hold, a marked day is backed by one complete delivery, a success is stored and marked, a request inserts a transaction once, and the contract is implemented. |
| `sync_serial` | 3,542 | Two accounts, one request after another, no faults: no duplicate transactions, marked days agree with the books, every asked day with data is stored and marked. |
| `sync_overlap` | violation | Two overlapping requests insert the same transaction twice. |
| `esco_fetch` | 21,364 | One fetch of two days: it returns; fewer failures than retries cost nothing; a day missing from a success has used up its own retries or did not parse itself. |
| `esco_lost_movements` | violation | All transactions can be missing from a success. |
| `worker` | 31,804 | Three calls for one schedule with their crons and jobs: a task is cancelled once, two live tasks take overlapping calls, a schedule loses its task only to an invalid cron expression or a call about to replace it, a cancelled task comes to rest, every call returns, a task that is not replaced runs. |
| `worker_orphan` | violation | Two overlapping calls leave a task no later call can cancel. |
| `account_queries` | 401,812 | One report among syncs of two accounts with faults: later queries see no less than earlier ones, only assets that came after the totals lack their category, and days marked before the report are in it entirely. |
| `reference_variables` | 242,989 | One report and one lookup, all answers: a report without an error has all variables, a goroutine is stuck only if both fetches failed, failed calls alone do not end the process, gaps are filled with the latest earlier value, a one-day variation is growth, a list that serves is replaced only by a request on its way to the bank since before it was cached, every report is answered. |
| `report_schedules` | 303,611 | Three requests, two ids: an update is lost only to an overlapping one, a schedule is deleted once and for good, and the abstract store is implemented. |
| `account_reports` | 16,680 | Reports over books of two accounts: moving money is no return; returns are growth since the first day; the total lies within the assets' returns and is right in the first interval; returns appear at their end and shares sum to the whole; tables and broker data give one state; only an interval whose days lack their colon, or of zeros only, or of more days than a duration holds, loops. |
| `final_return` | violation | The final return over two intervals is not the growth of the portfolio. |

### Bounds

* **Requests = 2.** The tables change only through single commits, and every
  hazard of the list involves two requests: one that reads and one that writes
  meanwhile. A third adds no new pair. The proofs remove the bound.
* **Books.** In `sync_faults`, asset a1 is held on days 0 and 1, a2 on day 0 and
  sold on day 1, day 2 is empty; one transaction belongs to an asset without a
  holding that day, one is undated, and both assets share one category so that
  two requests race to create it. `sync_serial` has two accounts with the same
  asset, two equal transactions on one day, and ranges of every length
  including the empty one (`startDate = endDate`).
* **Days = 2 in `EscoFetch`.** Days interact only through `err` and the order of
  arrival in `errChan`; two goroutines exhibit both. `Retries` is the code's 3
  and `CountUpTo` equals it: a larger count changes no property.
* **Calls = 3, Schedules = 1, MaxJobs = 1 in `ReportWorker`.** Two calls race,
  the third meets what they leave. Schedules share nothing but the mutex. One
  job at a time is enough to race a cancel at its check and after it; more only
  repeat it. `MaxJobs` is
  a bound on behaviour: a real cron starts jobs that overlap.
* **`account_queries`**: two accounts, two days, syncs one after another: a
  report sees of them only single commits, one after another, which overlapping
  syncs make in more orders. The proofs cover overlapping syncs as well.
* **`reference_variables`**: one report and one lookup share the cache; two
  reports share nothing more. Answers have gaps at the start, inside, and a zero;
  windows start before and after the first value. `Lead` stands for the 30 days
  of inflation, `Expiry` for 24 hours, `MaxTime` bounds the clock.
* **`report_schedules`**: three requests of any kind, so that a third can come
  before or after a racing pair; two ids, two fields (one with a default), two values.
* **`account_reports`**: four days, intervals of one, two, seven and (as in
  `12d`, whose first digit is lost) two days, and of none: `1d`, `0w:0d`, `:0d`
  and `0w`. An account's assets are steady,
  rising and falling, traded with a ledger, held late, with a gap, below a peso,
  held once, sold before the report, in two lots, or overdrawn. Every return is a
  function of a few neighbouring days and interval ends, and these four days hold
  two whole intervals and a part of one. `Longest = 12` stands for the 106,751
  days of a `time.Duration`, so that 14 days (`2w`) overflow it and 12 do not.

Deadlock is checked in `account_reports` and `final_return`, whose requests end in
a step of their own (`Ended`). The other systems stop when their requests, calls
or goroutines are over; there, blocking is left to the liveness properties.

### Fairness

* `SyncService`: every request that can take a step takes one (`WF` of
  `Step(r)`), no fairness for starting a request. Goroutines are scheduled by
  the Go runtime. That every database or broker call *returns* is an assumption
  about the environment: the sync runs on `context.Background()` and the broker
  client has no timeout, so a call that hangs would hold the request for ever.
  The hazard list has this as uncovered. `AskedDaysGetSynced` is checked without
  faults: with them it is plainly false until somebody retries.
* `EscoFetch`: weak fairness of every goroutine, with the same assumption. No
  fairness on the outcome of a call: `FetchReturns` holds even if every one fails.
* `ReportWorker`: weak fairness of every call and cron, and of each step of a job.
  A call that waits for the mutex waits for one holder at a time, who needs two steps; with
  finitely many calls weak fairness is enough.
* `ReferenceVariables`: weak fairness of every goroutine, with the assumption that
  calls return. None for a request to arrive or for the clock.
* The other modules check safety only.

## 4. Proofs

Assumptions: the named `ASSUME`s of the modules, which TLC evaluates on every
run. `SyncAssumption`, `FetchAssumption`, `WorkerAssumption`, `QueryAssumption`,
`VariablesAssumption` and `ScheduleAssumption` type the constants (`LastDay` a
natural number, a finite non-empty set of days, at least one retry, placeholders
such as `None` that are no proper value). `AccountAssumption`: a peso is a positive
amount, and every asset has a category. `BooksAssumption`: the broker answers for
finitely many days, with rows of whole amounts. `QueriesAssumption`: a request
names finitely many accounts, and its interval is a row of digits of fewer than
twice the days a duration holds (from there on it wraps to a wrong but positive
duration). Four theorems assume more: `OneInsertPerRequest` finitely many requests;
`SerialSyncsDoNotDuplicate` also that syncs run one after another and no call fails
(`Serial`, `~Faults`), for with either it is false; `MarksAreComplete` and
`MarkedDaysAreReported` that no fetch loses data (`~LossyFetch`).

**`SyncServiceProofs`.** `MarkedDaysStored` is not inductive: it says nothing of
requests that have yet to mark. `IInv` adds, per request,

* `LocalsInv`: what its position says of its locals (the days collected are
  missing days it has data for; what it fetched is a possible delivery);
* `ReferencesInv`: the row it inserts next refers to committed rows;
* `ProgressInv`: each due item (fetched, on a missing day) is stored with its
  day collected, or its asset is still ahead in the loop; after the mark, every
  due item is stored and its day marked.

A step of request `r` keeps these for `r` action by action (`MoverKeeps`), and
for the others because tables only grow (`TablesGrow`, `Frame`). Then
`MarkDatesAsSynced` marks only days all of whose items are stored. From `IInv`
follow `TypeCorrect`, `ForeignKeysSafe`, `MarksAreBacked`, `SuccessIsComplete`,
`MarksAreComplete`, and `SyncImplementsContract` (each step is an `Offer`, a
`Store`, a `Mark` or a stutter).

`InsertedBy(m)` is the set of requests that were given
transaction `m` on a missing day and have its insert behind them. `InsertInv`:
the rows of `m` never outnumber `InsertedBy(m)`. Only `CreateTransaction` adds a
row, and the request that makes it joins the set with it (`InsertCounts`); no
request leaves it. `OneInsertPerRequest` follows. `SerialInv` is for syncs in series: at most
one is in flight, none has failed, the days the present one lacks are unmarked, and
no two were due to store the same item. So no transaction is in the `InsertedBy` of
two requests, and `NoDuplicateTransactions` follows.

**`EscoFetchProofs`.** The property is that few failures are harmless although a
goroutine may spend a retry on another's error. It is not inductive; `FewInv`
strengthens it to an account: while failures are fewer than the retries, the
account was found and every answer parsed, the retries a goroutine has spent, plus
the one its next check may spend, are at most the number of failures. A failing
call raises both sides by
one, for every goroutine at once; a check moves a retry from "may spend" to
"spent". So no goroutine runs out. `DroppedInv` carries
`DropsAreExhausted`, day by day: a goroutine that ended without its day in the
channel has no retries left or is among `unparsed`.

**`ReportWorkerProofs`.** `CallInv` says of each call what its step implies: it
holds the mutex exactly between finding a task and deleting it, and the entry of
that task is gone once it is about to close its channel. `MapInv`: the map points
to calls that are done and whose channel is open, with a live entry unless a call
for that schedule is just cancelling it. With both, `CloseCancel` closes only open
channels (`TasksAreCancelledOnce`). `SequentialInv` is for `OrphansNeedOverlap`:
either two calls for a schedule overlapped, or each entry still firing is the
map's or about to become it. `TaskLostToInvalid` is inductive with `MapInv` and is
part of `IInv`: only `CloseCancel` takes a task off the map, its call is then about
to create one, and it ends in an insert or, if its expression is invalid, in a
failure (`TasksAreLostToInvalid`). `CancelledTasksOnlyDrain` needs that a closed
channel's task has no entry, so that `Tick` is not for it.

**`AccountQueriesProofs`** extends `SyncServiceProofs`. Syncs only add rows
(`RowsGrow`), so what a query returned stays below the tables (`RowsInv`) and a
later query over the same range returns more (`LaterInv`). `AssetsInv` ties the
assets found to the rows read before them by the foreign keys. `MarkedInv` uses
`MarksAreComplete`: what was marked when the report began is complete, and the
tables have kept it since.

**`ReferenceVariablesProofs`.** `ChannelInv`: a report's channel is closed only when
both of its fetches have ended, and a fetch that has ended without an error has
written its entries; one still sending after the receive belongs to two
failures. `MapInv` follows the entries in `result` and the writes under way.
`CacheInv`: a cached list is from a request that has been at the bank, so no request
still on its way there is its own source, and one that is on its way found no
serving list that it could take. Hence `ServingListsStay`, an action property: the
request that replaces a serving list looked before that list was stored. `DataInv`: what a
fetch has between its calls and its last write is an answer of the bank for the days
it asked for. Completed valuations and variations are recursive functions over those
days; that each day has the latest earlier valuation, and that the daily variations
multiply up to the growth since the first day, go by induction over the days.
TLC had refuted a first form of `DailyVariationIsGrowth`: a zero breaks the
chain of growths, so the property speaks of days up to the first zero.

**`ReportSchedulesProofs`.** `TableInv`: rows are versions, an id not yet given has
none, and each field of each version was provided. `RequestInv`: the copy an update
is about to write is an earlier version with its own fields replaced. `DeletesInv`:
after an ended delete no later request gets past the existence check. From these
follow `DeletesAreFinal`, `FieldsAreProvided` and, step by step, `StoreIsImplemented`
(`StoreStep`). `UpdatesInv` is for `LostUpdateNeedsOverlap`: the row may be written
back by an update that has not ended, so it also says that what such an update read
after another had ended has that one's fields, unless somebody who may undo them
came in between.

**`NumberProofs`.** The library's induction theorems take a predicate as parameter,
which the provers cannot instantiate; here a set takes its place, the set of numbers
a fact holds of (`NatSetInduction`, `DayInduction`). From that: the greatest common
divisor exists and divides, so that fractions are in lowest terms, equal numbers are
equal fractions, and sums, differences and products are exact (`FractionsAreExact`).
The bounds of TLC's integers are no bounds here.

**`ReportsProofs`.** `ReturnInv`: the entries of the state were read in order, with a
total for each of their dates, and the returns of a report are computed from them.
`ShownInv` adds what the tables need: each entry's rows are its own asset's and the totals
are sums of the rows of all entries (`EntriesHold`), and the report, the dataframes and
the charts are those of the state.

* *Folds.* `FoldLeft` recurs over sets of places. `FoldExists` turns it, for any
  step, into a function on the numbers of elements folded, on which the rest goes by
  induction: the digits of an interval, the daily returns collapsed into intervals,
  the movements taken off a day's value, the terms of a sum.
* *The tables.* What the broker may answer is followed through parsing, the
  upsert, the queries and the grouping (`TablesHaveRows`, `QueriedEntryListed`,
  `EntriesAreAssets`): the holdings of each entry have one date each, in order, within the
  range, and its movements have no value (`TablesAreReadInOrder`). The other theorems
  rest on it, so they hold for whatever the broker has, not for sequences assumed sorted.
* *Returns.* What has been collapsed up to a day tiles the days up to it
  (`CollapsedByDay`), hence `ReturnsTileTheRange`. If each daily rate is the growth of
  a worth, what has been collapsed is the growth since the first day (`CollapsedGrow`),
  hence `ReturnsAreGrowth`. At one price the movements of a day are worth the change of
  the holding (`NetOfMovements`), so each daily rate is zero and with it every return,
  also on the day after the last holding (`TradesAreNotReturns`).
* *Loops.* A row of digits with one that is not zero stands for a positive number
  (`NumberIsPositive`), so an interval that keeps its digits (`LosesDigit`) and is not
  all zeros (`OfNoDays`) is of some days: `EndlessNeedsBadInterval`. The three kinds
  of text it leaves are all accepted, and each has texts that loop; the repository's own test takes
  `0w:0d` for a valid interval (`src/tests/utils/interval_test.go:24`).
* *Totals.* An entry held on every day has at least a peso on the date each of its
  returns starts (`ValueAtDate`, `TileWithin`), and the rows the report was read from
  make a whole total for that date (`ReadTotals`), so that where the total is positive
  so is the entry's weight (`PeriodWeighs`). Every term of the total is such a return
  (`PeriodsOfEntries`), and the quotient of two sums term by term lies between the
  least and the greatest rate as long as the weights are positive (`MeanLiesBetween`
  on the order of fractions, `TotalLiesBetween`): `TotalsLieWithinAssets`. For one
  portfolio held, untraded, over the same days, the terms of the first total are the
  first returns of its entries, one each (`FirstEnds`: `Lists` counts what `FlattenSeq`
  and `Select` keep). Weighted, each is the gain of the entry over the value of the whole,
  pesos included; that value cancels out of the quotient, and what is left is the growth
  of the sum of the entries (`GrowthOfPortfolio`): `FirstTotalsAreGrowth`. The proof found
  what the instances had not: with debts in pesos that outweigh the assets every weight
  is zero, and so is the return; the property now asks for a positive total.
* *What is shown.* A return that starts on the first day ends a whole number of
  intervals later (`TileEnds`, `MultipleOnGrid`), so on a day of the grid; its entry is
  the only one with its name (`NameFindsEntry`), and the union of the dataframes keeps
  the cell (`CellOfReturn`): `ReturnsAreShown`.
* *Shares.* Sums over finite sets are split, moved along a bijection and compared term by
  term by induction on subsets (`SubsetInduction`, `SumSplits`, `SumMoves`, `SumsCompared`).
  In whole hundredths nothing is lost in a cell (`WholeHundredths`), so the cells of a
  day are its rows (`CellsOfEntries`, through the filter to the grid: `FilteredHoldings`,
  `KeptEntries`) and the cell of the total is their sum (`TotalOfDay`, `TotalIsExact`). Each
  share is within half a hundredth of the exact one (`SharesAreRounded`), hence their sum
  of the whole (`SharesOfTotal`); the slices left out of the pie are zero
  (`PieHasAllShares`): `SharesAddUp`. The proof found that the property had forgotten
  fractions of a hundredth: each cell may lose half of one, and enough cells add up.

The type invariants of `ReportWorker`, `AccountQueries`, `ReferenceVariables` and
`ReportSchedules`, `MapHoldsLiveTasks`, `CancelledTasksDrain`, `IntervalsTile` and
`FieldsWereProvided` are proved, and are not repeated in the runs.

Only model-checked:

* the liveness properties (`AskedDaysGetSynced`, `FetchReturns`, `CallsReturn`,
  `CancelledTasksRest`, `ScheduledReportsRun`, `ReportAnswered`), which are beyond the prover;
* of `SourcesAgree`, all but its first part, the order of what is read: that the tables
  and the broker's data, collapsed and grouped directly, give one state. Nothing about it
  is out of the prover's reach in principle: it needs the inductions over the other path
  (`CollapseAndGroupAccountsStates`), which no report takes.

## 5. Disagreements found

1. **Duplicate transactions** (`sync_overlap`). Two overlapping syncs read
   `sync_logs` before either writes it, and `transactionRepo.Create` is a plain
   insert. The same happens when a request fails after its inserts and is
   retried.
2. **Lost transactions are a success** (`esco_lost_movements`). The goroutine of
   the holdings overwrites the other's error with nil.
3. **Orphaned tasks** (`worker_orphan`). The mutex is released between cancel and
   insert.
4. **The final return counts growth twice** (`final_return`). The returns of the
   intervals are cumulative; their product is the growth only for one interval.

Also seen, without a run of their own: a day whose retries ran out may be missing
from a success, for the error sent is the shared `err` of that moment; days
without data are never marked, and are fetched again by every sync; a variation
over an interval of more than a day overlaps itself (`variables.go:259`); an asset
two accounts hold gets the weight of one of them (`report_service.go:283`); days on which
the bank gives a zero drop out of a variation, and with them what happened across them;
an interval of zero days, as in `0w:0d` or, by the digit lost, `1d`, keeps the loop over
its dates on the first; one of more than 106,751 days overflows a `time.Duration` and
sends it back in time; a job that passed its check just before a cancel still runs the
report of the schedule that was replaced.

## 6. Not modelled

* The worker's loaders: both scan a row into a pointer to a struct or slice,
  which fails for every row, so they reach `ScheduleReport` in no execution.
* The Excel file, HTML templates, chart drawing and PDF conversion
  (`report_service.go:594-626` and `972-1205`, `utils/render`, `api/controllers/charts.go`):
  layout, colours and external programs. What they are given is modelled.
* The parsing, collapsing and grouping in `api/controllers/accounts.go:82-417`: an
  older copy of the code in `services/esco_service.go`, called by nothing.
* Redis: the keys of ESCO answers never expire, so a cached answer is a fixed
  answer. Broker books that change after a fetch are not modelled, and
  `MarkedDaysComplete` speaks of fixed books.
* Authentication, account search and the schemas of ESCO answers: one call each,
  and decoding.
* Routing, configuration, tokens, AWS, logging: no state of their own.
* `CleanupSyncLogs`, `MarkClientForDate`, liquidaciones and boletos: no caller.

## 7. Plan

Done: all components of the inventory but for the parts of section 6, the proofs
of section 4. What would add most from here:

1. A refinement: `EscoFetch` implements the one-step fetch of `SyncService` with
   `LossyFetch` (what it returns is a set of days and all or none of the
   transactions).
2. A proof of the rest of `SourcesAgree`, by the lemmas on tables of `ReportsProofs` and
   their like for the collapsing of states.
3. Broker books that change between fetches, with the cache of answers: what
   `sync_logs` still promises about a day that was fetched before it ended.
