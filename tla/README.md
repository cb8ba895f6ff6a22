# Verification of the options data service

The options data service (`service/`, Python, asyncio) collects one-minute
option and underlying bars from TastyTrade's DXLink feed into a Postgres
database and serves them over HTTP. This directory holds TLA+ modules that
model it, TLC configurations that check the models, and TLAPS proofs about
them. Every definition is translated from the code; `PROJECT.json` names the
lines each definition stands for.

## 1. Inventory

All processes share one database and nothing else: no process sends another a
message, so what one of them can do to another goes through the rows of four
tables (`contracts`, `option_bars_1m`, `underlying_bars_1m`, and the migration
bookkeeping). Inside a process, asyncio tasks interleave at every `await`.

| Part | State it keeps | Operations | Talks to |
|---|---|---|---|
| Bar aggregation, `ingestion/bar_aggregator.py` | one `Bucket` for each instrument and minute | `on_quote`, `on_greeks`, `pop_ready`, `restore` | called by the pipeline |
| Ingestion pipeline, `ingestion/pipeline.py` | two aggregators, symbol-to-ticker map, closed flag | feed handlers, refresh loop, flush loop, `close` | source (callbacks), contract manager, database |
| Contract manager, `ingestion/contract_manager.py` | `_tracked` | `refresh` (resolve, persist, diff) | source (chain, Greeks snapshot), database |
| TastyTrade source, `sources/tastytrade.py` | streamer, two locks, tracked symbols, callbacks, two listener tasks | connect, reconnect, subscribe, unsubscribe, snapshot, candles, close | the feed; called by every ingesting process |
| Async helpers, `sources/_async_utils.py` | none | `with_timeout`, `collect_events` | wraps every await on the feed |
| Ingestion entry point, `ingestion/main.py` | run task, stop event | start, SIGTERM, cancel, close | owns the pipeline and the source |
| Conflict-tolerant insert, `db/upsert.py` | none | `insert_ignore` | the pipeline's two writes |
| Backfill, `ingestion/backfill.py` | report, semaphore | candidate search, candle writes, gap reconciliation | source, database |
| Gap detection, `ingestion/gap_detection.py` | none | `expected_bar_minutes`, `find_gaps` | API and backfill |
| Live underlying poller, `ingestion/live_underlying.py` | trade buckets, write lock, catch-up task | trade drain and flush, candle poll, startup catch-up | source, database |
| Live options poller, `ingestion/live_options.py` | the time of the pass, its candidates, a semaphore | refresh, filter today's chain, persist, poll candles | contract manager, backfill, database |
| Greeks job, `greeks/backfill_job.py` | keyset cursor, coverage, cutoff | batch query, compute, bulk update | database |
| Black-Scholes, `greeks/black_scholes.py` | none | `implied_volatility`, `compute_greeks` | Greeks job |
| Scheduler, `ingestion/scheduler.py` | next run time | catch-up run, daily loop, job sequence | runs backfill, Greeks job, gap report |
| API, `api/` | none | paged reads, gaps, metadata | database |
| Bar queries, `db/aggregations.py` | none | SQL text for larger bars | API |
| Schema and sessions, `db/models.py`, `db/session.py` | the tables | keys and constraints | every process |

### What is hard, and what must hold

*Ingestion pipeline and aggregation.* The flush loop takes buckets out of
memory and then awaits the database. While it waits, events arrive, a refresh
changes the tracked set, another program inserts the same rows, and the process
may be stopped or killed; the commit may land and still raise. So: every
accepted observation is in exactly one place or known to be gone; a bucket that
was put back and merged still reports its observations; the flush loop never
writes part of a minute; retrying a bar whose row exists discards nothing; no
writer changes a row; underlying bars do not depend on option writes.

*TastyTrade source.* Two listener loops, the refresh task and the shutdown share
one connection that may die at any await, under two locks that cover different
parts of its life. So: no connection is left open and forgotten; nothing
deadlocks; after a reconnection every tracked symbol is subscribed; the service
gets out of every state in which it receives nothing.

*Contract manager.* `_tracked` is replaced after the metadata is committed and
before the source is told. So: a tracked contract has its row in `contracts`
(bars reference it); a failed ticker keeps its contracts; every tracked contract
ends up subscribed.

*Candle requests.* All requests of a process take their events from one queue,
end on the candle that repeats, and must remove their subscription the way it
was made. So: an old candle that repeats does not end a request, no subscription
is left behind, and every request ends, also on a dead connection.

*Pollers and backfill.* Several programs write `underlying_bars_1m` with
check-then-insert and take "the newest bar stored" as the point to resume from.
So: a written bar is that of a finished minute, a missing minute is still
recoverable, a bar is only asked for when its contract has a row, and a check
that is stale when the insert runs does no harm.

*Greeks job.* Rows that cannot be computed keep matching the query. So: the run
ends although other programs insert rows meanwhile, each row is examined at most
once, rows with Greeks from the feed are never touched, and what the job skips
can be computed by a later run.

*Scheduler.* Fixed wall-clock time, jobs that may overrun it. So: the next run
is strictly later, never on a weekend, and one failing job does not keep the
others from running.

*Gap detection, API, queries.* Gaps are exactly the maximal runs of missing
expected minutes; a client that pages through a result while others write
receives every row that was there when it began, and none twice.

## 2. Plan

Order of work, the most important behaviour first. What is ticked is in this
directory; the rest is what comes next.

| # | Modules | Subject | Done |
|---|---|---|---|
| 1 | `Bars`, `BarLedger`, `Pipeline`, `PipelineProofs` | aggregation, flush loop, restore, shutdown | yes |
| 2 | `Streamer`, `StreamerProofs` | the shared connection, its locks, reconnection, refresh commands, close | yes |
| 3 | `GreeksFill`, `GreeksJob`, `GreeksJobProofs` | keyset batches of the Greeks job | yes |
| 4 | `LiveUnderlying`, `LiveUnderlyingProofs` | trade path, catch-up, write lock | yes |
| 5 | `Tracking`, `Contracts`, `ContractsProofs` | what a contract manager promises and does | yes |
| 6 | `DailyBackfill` (on `Tracking`, `Gaps`), `DailyBackfillProofs` | backfill, gap reconciliation, scheduler, ingestion beside them | yes |
| 7 | `Candles`, `LiveOptions`, `LiveOptionsProofs` | candle requests on the one queue; the options poller that makes them | yes |
| 8 | `Gaps`, `Api`, `ApiProofs` | `find_gaps` and its report; paging through results that grow | yes |

Abstract specifications: `BarLedger` (what the pipeline promises of each
observation), `GreeksFill` (what the Greeks job may do to a row), `Tracking`
(what a contract manager promises). The first two are promises of one program.
`Tracking` is used from both sides: `Contracts` is shown to implement it, and
`DailyBackfill` is built on it instead of on the manager's code, so that the
composition stays small enough to check.

Every safety property that a passing run checks is a theorem too (section 5); its
liveness properties stay with TLC. Code still to be added to the modules
that are there: `--full` of the backfill and `--source candle` of the underlying
poller.

## 3. The modules and the code

Conventions. A task of an asyncio program runs from one `await` to the next
without interruption, so an action is what a task does between two awaits, and
the variable `at` (`stage` in `Pipeline`, `phase` and `work` in
`DailyBackfill`) names the await a task is suspended in. A lock that is held
exactly between two awaits needs no variable; the type invariants say that it
has one holder. A "history" variable is not in the code: it records what
happened, for the properties, and no guard reads it.

### Pipeline (`Bars`, `Pipeline`, `BarLedger`)

`Bars` holds the pure part of `bar_aggregator.py`: what a bucket becomes when a
price or a Greeks snapshot arrives, or an older bucket is merged into it. A
bucket carries, besides the code's fields, the numbers of the observations it
was made from. `RowsInserted` of `Pipeline` is the insert of `db/upsert.py` that
yields to existing rows.

| Module | Code |
|---|---|
| `bars` | the `_buckets` of both aggregators; a slot is an instrument and a minute |
| `popped`, `stage`, `writing` | the local variables of `_flush_ready_bars` during an await |
| `tracked` | `ContractManager._tracked` |
| `rows` | `option_bars_1m` and `underlying_bars_1m` |
| `phase`, `life` | the process: running, run task cancelled, in `close()`, down |
| event actions | `_handle_quote_event`, `_handle_greeks_event` and the aggregator calls they make |
| `FlushReadyBars` | `pop_ready` of both aggregators and the first statement |
| `WriteCommits`, `WriteRaises(landed)` | the end of an awaited transaction; `landed`: the commit took place and its answer was lost |
| stop and restart actions | `main()`: SIGTERM, cancellation of the run task, `close()`, a kill at any point, a start with empty memory |

Prices are natural numbers, the mark of a two-sided quote is kept without the
division by two (only its order matters), and Greeks are opaque. A backfill may
insert a row for any slot at any time. The Greeks job, which later fills other
columns of a row (`GreeksJob`), is not in this module: what `RowsImmutable` says
is that nothing that inserts bars changes one.

`BarLedger` is the promise behind it. While the service is up it lets go of an
observation without a row in a single case: the option was not tracked when the
row of its slot was to be built (`released`, which maps to `Untracked`: what is
in the batch and not among the rows), and the write of that batch then went
through.

### The connection (`Streamer`)

One action per segment of `_ensure_streamer`, `_reconnect`,
`_resubscribe_all`, `_listen_*`, `subscribe_*`, `unsubscribe`, `close`, of the
refresh cycle that calls them and of the shutdown in `main()`. `_streamer_lock`
is held by the task that awaits a connection, `_reconnect_lock` by the listener
from `auth` to the end of its resubscription.

Assumed of the feed (external): a connection dies at any time; a command on a
dead one raises; one on a live connection may time out when part of its symbols
went through; a listener raises only once its connection is dead or closed.
Names of connections are used again once nobody remembers them; five always
suffice (the streamer, one per task, and a new one). A first refresh that fails
ends the service. `request_candles` is in `Candles`; `snapshot_greeks` is a
result that comes or does not. `_mark_disconnected` may clear a streamer that
another task has just made (`tastytrade.py:224`); the module has that behaviour,
but no property forbids it.

### Greeks job (`GreeksFill`, `GreeksJob`)

One action per SQL statement: `Start` (coverage and cutoff), `Select` (first
the batch query), `Fetch` (spot prices and computation), `Update` (row by row,
each taking its lock), `Commit`. A READ COMMITTED statement sees what is
committed when it begins. A number is `"good"`, `"bad"` (not positive) or
absent: the computation tells nothing else apart. Keys are numbered in the
order of `(time, contract_id)`, which is the order of the cursor and of the
updates. Where two runs waited for each other's row, Postgres would abort one;
the model would block, and `RunsEnd` shows that it never comes to that.

### Live underlying poller (`LiveUnderlying`)

The trade path (`PollBegins`, `Subscribed`, `Receive`, `Drained`, then lock,
check and commit of `_write_bars`) and the catch-up task (`ReadLatest`,
`RequestCandles`, `Replayed`, then the same writes) share one connection and
`write_lock`. Time is in minutes; a bar is the set of trades in it. The feed is
behind the clock by one of `Delays`. A connection dies with an error
(`"broken"`) or without a word (`"silent"`). `cut` marks a replay whose
connection died or whose cancellation `collect_events` took for the end of the
stream. Only the default `--source trade` is modelled. Catch-ups run one after
the other, and the newest row of a ticker is only read when its turn comes;
`met` (history) keeps which minutes had a row then. A minute before one of
those is `Overtaken`, and `CatchUpClosesGap` excepts it; a row that comes later
excuses nothing.

### Contract manager (`Tracking`, `Contracts`)

`RefreshBegins`, `ReadChain` per ticker, `SnapshotComes`, `ResolveFails`,
`Check` and `Persist` are the segments of `refresh`, `_resolve` and `_persist`.
The option chain is a function of time (`Listed`, `Expires`); the delta range
is a choice the Greeks snapshot makes; of a row of `contracts` only its
presence is kept. Three programs have a manager and share the table: the
ingestion service, the backfill, and the options poller through its
`BackfillJob`. So a check may be stale when the insert runs, and the transaction
then raises; a commit may also raise although it landed (`Written`), which
leaves rows and changes nothing that is tracked. `FallbackPersists` is the
poller writing, through the same `_persist`, what its chain fallback found.
`Tracking` has a step for the two (`Records`).

### Daily backfill (`DailyBackfill`)

`RunBegins` to `RunExits` are `BackfillJob.run` as the scheduler spawns it:
refresh, candidates, effective starts, replays under the semaphore, then the
tickers one by one; `SchedulerStarts`, `Sleep`, `Wake` and `NextRun` are
`run_jobs` and `run_forever`. The ingestion service is `Refreshed`, `IngestBar`
and `IngestionDies`; the two pollers are `PollerBar`, which may write any minute
that has begun, and `OtherManager`. Of a bar only its minute is kept, and of a
candle whether its close is usable: `_backfill_underlying` skips one that is
zeroed (`unusable`; `Degraded` says which may be), so a complete replay may
leave a minute without a row. A replay returns any part of what was asked for:
its limits, a dead connection and the queue that concurrent replays share can
all cut it short. Slots of the schedule are given as a set of minutes: weekdays
and the time zone are not modelled, nor is `--full`. `SpawnReconcile` to
`ReconcileDone` are the gap reconciliation, `_main` with
`--reconcile-underlying-gaps` and `reconcile_underlying_gaps`: its scan is
`FindGaps` of `Gaps` over the stored minutes, and the replay and the writes are
those of a run. The Greeks job between the two is one step. That the process of
a job ends, so that `proc.wait()` (`scheduler.py:148`) returns, is assumed of
the Greeks job and follows for the others from the fairness below.

### Candle requests and the options poller (`Candles`, `LiveOptions`)

`Candles` is `request_candles` with the loop of `collect_events` inside it:
`Begin`, `Subscribed` or `SubscribeRaises` and the fallback, `Take` (one event,
with the substring filter and the repeated key), `GivesUp` (idle limit, time
limit, `max_count`, an error of `listen()`), `Unsubscribed`. One variable per
symbol holds what is local to its request. The feed (external) sends the history
of a subscription in any order, may repeat what is older than the gate, and
sends the candle of the minute in progress over and over; events that nobody
takes stay in `queue` for the next request. `trouble` is a history variable: it
records that another request shared the queue while this one ran (`"shared"`)
or that something was left over from an earlier one, or that the fallback
subscribed without a start time (`"spoilt"`). `leftover` records subscriptions a
command that raised may have left at the server.

`LiveOptions` adds `run` and `poll_ticker`: `PassBegins`, `Refreshed`,
`ReadCandidates`, `ReadChain`, `Check` and `Persist` for each ticker, the
semaphore (`Free`), and for each contract `Request`, `Lookup`, `Insert` or
`WriteFails` as in `_backfill_option_contract`. All contracts of the model
expire today; the strike window is any part of the chain. `asOf` is the time of
the pass, between passes the time at which the last one ended (`--interval` is
waited for from there). `Elsewhere` is what the ingestion service and the
backfill do to the two tables.

### Query API (`Gaps`, `Api`)

`Gaps` is `gap_detection.py`: `SessionMinutes`, `ExpectedBarMinutes`, the loop
of `find_gaps` as a recursive function over the ticks of the range (`ScanOf`, a
`Look` at each expected minute), and `CloseGap`. Weekdays, time zone and
holidays are the set of sessions. Time is in ticks finer than the minute,
because the range of a report may begin anywhere. `Api` is a client that asks
`/options/bars`, `/underlying/bars` or `/contracts` for page after page until
`returned < limit`, while `Insert` adds rows. `Result` stands for the WHERE and
GROUP BY of `aggregations.py` and `routes.py`, `Pages` for ORDER BY, LIMIT and
OFFSET: all the pages the statement allows, since rows with the same sort key
come in any order. A row is a series and its time; what is aggregated in its
columns is left out. `Report` is `/gaps`.

## 4. What the runs show

State counts are of distinct states.

| Run | States | Checks | Shows |
|---|---|---|---|
| `pipeline` | 77 404 | `TypeOK`, `Accounted`, `BarsFaithful`, `WholeMinute`, `RetryHarmless`, `RowsImmutable`, `ImplementsLedger`, `UnderlyingSettles` | One option and one ticker, one- and two-sided quotes, Greeks, failing and half-failing writes, a crash and a restart: no observation vanishes, every row reports its observations, flushed minutes are whole, retries and other writers never change a row, the pipeline keeps the promise of BarLedger, and every underlying observation leaves memory once underlying writes get through, however long option writes fail. |
| `streamer` | 1 519 408 | `TypeOK`, `NoLeakedConnection`, `ClosedForGood`, `ResubscriptionComplete` | One underlying, one contract, two dropped connections, every interleaving of the two listeners, the refresh and the shutdown: each lock has one holder, no connection is forgotten, close() leaves nothing running, and a finished resubscription leaves nothing out. |
| `contracts` | 122 273 | `TypeOK`, `TrackedHasRow`, `KeepsPromise` | Three contracts of two tickers, one of which expires and one of which is listed late, refreshed by two programs, one of them the options poller with its chain fallback, whose lookups, snapshots and writes may fail, collide or land although they raise: what is tracked has its row, and the manager implements Tracking. |
| `backfill` | 868 359 | `TypeOK`, `GapClosed`, `Reconciled`, `SchedulerKeepsRunning` | Startup and scheduled runs beside an ingestion service that comes and goes and pollers that write any minute, with cut replays, zeroed candles, colliding writes, runs that die and a gap reconciliation: a run closes the gaps it owes, of an expired contract too, the reconciliation those that are left, but for the minutes whose candle is zeroed, and no failure ends the schedule. |
| `live` | 388 587 | `TypeOK`, `OnlyOthersCollide`, `TradesAccounted`, `CatchUpClosesGap`, `CaptureResumes`, `StopEnds` | One ticker, a connection that dies (raising or silently), two starts of the process, the catch-up and the daily backfill beside the trade path: the poller's writers never collide with each other, no trade vanishes or counts twice, a catch-up closes the gap of its ticker but for what comes before a row that was there when its turn had come, capture resumes after a dead connection and SIGTERM ends the process. |
| `greeks` | 292 164 | `TypeOK`, `ExaminedOnce`, `NothingOverlooked`, `FillSpec`, `RunsEnd`, `ComputedInTheEnd` | A run of the scheduler and one started by hand with --max-rows overlap over two keys while options and underlyings are inserted and one run fails: no row is examined twice, no run overlooks a row it could compute, only gaps are filled, overlapping runs end, and what becomes computable is computed in the end. |
| `options` | 480 576 | `TypeOK`, `NoLeakedSubscription`, `KnownBeforeRequested`, `WindowCovered`, `PassesEnd` | Two contracts, the name of one a part of the other's, polled over one connection that repeats candles, raises and dies, beside writers of the same rows: no request leaves a subscription, none is made for a contract without a row, an undisturbed poll covers its window, and every pass ends. |
| `api` | 349 874 | `TypeOK`, `PageWalkComplete`, `NothingTwice`, `GapsExact` | A client pages through any result, of two series and aggregated or not, while rows come in, and every range of the gap report is compared with its definition: a walk to the end misses nothing, no row comes twice in a result at rest, and the report is exact. |
| `pipeline_stop` | violated | `GracefulStopLosesNothing` | A SIGTERM that lands while a flush is awaiting the database loses the popped bars. |
| `streamer_resubscribe` | violated | `ReconnectResubscribes` | A connection made by the refresh while a listener waits to reconnect is taken for a finished reconnection: nobody resubscribes. |
| `streamer_stuck` | violated | `NeverGivesUp` | A second drop hits the connection that a reconnection has just made, before its resubscription has ended: the reconnection tries the same dead connection for ever, and the other listener waits for it. (With one drop the property holds.) |
| `live_delay` | violated | `OnlyClosedMinutes` | With trades that are one minute old when they arrive, the drain boundary cuts a minute in two: its first part becomes the row, its second part is skipped. |

Why the bounds are enough.

- *Pipeline.* Three ticks of a clock with two ticks a minute and one of grace
  let a minute end, be flushed, fail, be put back and be flushed again. The
  clock stops before events of a second minute could come, so a bucket that is
  put back meets a newer one (`MergeOlder`) only around `close()`; the theorems
  cover any number of minutes. Two observations are the least with an order
  (first and last, high and low, a merge of an older and a newer part), two
  lives the least with a restart. One option and one ticker suffice since no
  code path reads two instruments together; the proofs cover any number of
  either.
- *Streamer.* The two listeners and the refresh are all the tasks there are. Two
  dropped connections make one die during the reconnection that the other
  caused, which is what `streamer_stuck` needs: with one drop its property
  holds. One underlying and one contract make a command partly successful.
- *Greeks.* Two keys with batches of one or two rows (by `--max-rows`) give a
  cursor that passes a row and rows that appear behind and ahead of it; two runs
  can wait for each other.
- *Live.* Two trades, one drop and two starts of the process: the catch-up of
  one ticker beside its trade path is the smallest collision, a restart the
  smallest downtime. The last of the three minutes is one the feed zeroed. With one
  ticker a turn comes soon, but still after the trade path may have written; the
  theorems cover any number of tickers. Trades come without delay here;
  `live_delay` has a delayed feed, and what is proved of the trades covers any
  delays.
- *Contracts.* Three contracts of two tickers: one expires, one appears later,
  one belongs to a ticker whose lookup may fail while the other's succeeds. Two
  programs are the least that collide; one of them has the fallback.
- *Backfill.* One contract that expires during a downtime and one ticker, three
  minutes, a startup run and a scheduled one, each with a reconciliation over a
  range of two sessions, of one minute and of two. The semaphore never limits
  anything in this instance; the proof covers every `--concurrency`.
  One minute of the ticker may come with a zeroed candle (`Degraded`).
- *Options.* Two contracts, the name of one a part of the other's, a chain in
  which either may be missing, two tickers (one without contracts), two minutes,
  one event in the queue and one command that raises. The semaphore admits both
  contracts, so it never blocks here; the proof covers every `--concurrency`. A
  longer queue only lets more leftovers gather.
- *Api.* Two series with rows in the same minutes and in minutes of their own,
  limits at, below and above the maximum, a period that is refused; two sessions
  with a gap over the close, ranges that begin before, in and after them, and a
  least length of one to four minutes.

`CHECK_DEADLOCK FALSE` is set where the clock and the other bounds end a
behaviour, or where the process has stopped for good (`streamer` after
`close()`).

Constraints. `streamer_stuck` looks at the listeners alone (nobody shuts
down, the refresh is idle after the first), which keeps the liveness graph small
and leaves a behaviour of the code.

Fairness.

- *Pipeline* (`FairSpec`): the event loop runs the flush loop and the clock
  moves (weak fairness); an awaited write ends, in success or with an error
  (weak). Underlying writes are tried again at every flush, so one succeeds in
  the end (strong, on that step alone); option writes may fail for ever.
- *Streamer* (`FairSpec`, for `streamer_stuck`): listeners, connection
  attempts and the shutdown go on (weak). Locks are first come first served. At a
  healthy feed a login, a connection and each of the two commands of a
  resubscription, for itself, succeed when they are tried again and again
  (strong); a command on a dead connection never does. Under all that the
  property still fails.
- *Greeks* (`FairSpec`): a run that has begun goes on; the scheduler starts
  another (its run has no `--max-rows`). Nothing is assumed of the runs started
  by hand but that they go on.
- *Live* (`FairSpec`): the event loop and the time limits (weak); a
  subscription that is tried again works, and the lock is fair (strong).
- *Backfill* (`Spec`): the clock, the steps of a run, its exit and the
  scheduler's sleep. Each await of a run has a time limit or is a statement of
  the database, and a job's process ends (`proc.wait()` itself has no time
  limit); nothing is assumed of the ingestion service and the pollers.
- *Options* (`Spec`): one weak fairness for all that the poller does by itself
  (`Own`: the steps of a pass, of its requests and writes, the time limits).
  Nothing is assumed of the feed, nor of the order in which requests get on.
- *Api*: none; its properties are safety.

What the properties except, each by a definition of its own:

- `Overtaken` in `LiveUnderlying` and `DailyBackfill`: a row newer than the gap
  was there when the start was read, and was written since the process began.
  The minutes before it stay open until a reconciliation (`Reconciled`).
- `unusable` and `Zeroed`: a minute whose candle has no usable close gets no row.
- `"short"` and `"failed"` in `GapClosed`: a replay that missed something and a
  key that was given up are left to a later run.
- `trouble` in `WindowCovered`: a request that shared the queue, met leftovers or
  had to use the fallback may miss candles with no sign of it. `backfill.py:115`
  calls concurrent requests safe; nothing in the code makes up for what one takes
  from the other. `repeated` restricts it to requests that ended on the repeated
  candle: one that idles out, or meets a limit, may be short.
- `Alone` in `PageWalkComplete` and `NothingTwice`: rows that share their sort
  key have no order (`routes.py:142`, `aggregations.py:125`), so they may be on
  two pages or on none; most rows of `/options/bars` do.
- `Aligned` in `GapsExact`: a range that begins inside a minute of a session
  counts that session's minutes from there (`gap_detection.py:102`), finds none
  of them in the table and reports all as missing.

### Where the code and its documentation disagree

Four runs are expected to fail. Each states what a comment or docstring says and
TLC shows a behaviour of the code against it; `PROJECT.json` quotes the lines.

- `pipeline_stop`: SIGTERM while a flush awaits the database. The run task is
  cancelled, `CancelledError` is not an `Exception`, nothing is put back, and
  `close()` has nothing to flush: the popped bars are lost.
- `streamer_resubscribe`: the refresh makes the new connection while a
  listener waits to reconnect; the listener finds a streamer, takes the
  reconnection for done, and nobody resubscribes.
- `streamer_stuck`: a connection that dies after `_ensure_streamer` and before
  its resubscription has succeeded stays the streamer; every attempt of the
  listener uses it again, each command fails, and the other listener waits for
  the lock for ever.
- `live_delay`: with a delayed feed the end of a drain cuts a minute in two,
  and the row of the first part makes the write skip the second.

Known without a run of its own. The models have the first four, and the
properties except them:

- The catch-up reads the newest row of a ticker when its turn comes
  (`live_underlying.py:385`). By then the trade path may have written a minute,
  and the stretch before the restart is not replayed, although lines 369-370 say
  that it is.
- The daily backfill reads the starts of the tickers when all contracts are done
  (`backfill.py:268`); a newer row that a poller or the ingestion service has
  written meanwhile makes it start after the gap, although the repository's
  `README.md:383-385` says that one pass covers it.
- A drained minute is out of the aggregator when its write fails, and its trades
  are lost (`live_underlying.py:510`), although lines 452-453 say that completed
  minutes stay queued.
- Rows of the same sort key may change places between two pages
  (`routes.py:142`, `aggregations.py:125`); a client that reads to the end may
  have one twice and another never.
- A subscription that fails in a refresh cycle is not sent again: the contracts
  are tracked already, so the next cycle sees no difference, although
  `pipeline.py:224` says that it retries.
- A late listener tears down the connection the other one has just made
  (`tastytrade.py:227`); lines 224-226 call the second call a no-op.
- The options poller never replaces a dead connection: nothing on its path calls
  `_mark_disconnected`, so every later request fails or returns nothing.
  `PassesEnd` shows that it keeps polling all the same.
- `GapMinutes` counts by the clock, so a gap that goes over the close counts the
  night; `min_gap_minutes` and `total_missing_minutes` take it as it is.
- A Greeks run with `--max-rows` meets the same uncomputable rows first every
  time; a row whose volatility came as 0 is never computed
  (`black_scholes.py:174`).

## 5. What is proved

All proofs hold for every value of the constants that satisfies the named
assumptions of the modules (`PipelineAssumption`, `StreamerAssumption`,
`FillAssumption`, `JobAssumption`, `TrackingAssumption`, `ContractsAssumption`,
`CandlesAssumption`, `LiveOptionsAssumption`, `LiveAssumption`,
`BackfillAssumption`, `GapsAssumption`, `ApiAssumption`): they only give the
constants their types, keep model values apart from data, and ask for finite
sets of keys, contracts and rows, non-empty configuration (a feed has some
delay) and sessions that open and close with a minute. TLC evaluates them in
the runs. Every theorem of this section is about all reachable states, or all
steps, of the specification the run checks.

**PipelineProofs.** `Inv` is the conjunction of `TypeOK`; `Stages`, what each
write stage has popped; `SlotsRight`, an observation sits in its own slot;
`PoppedOlder`, what is popped is older than what is held for the same slot;
`Accounted`; `Whole`; and `Faithful`. `WholeMinute`, `RetryHarmless` and
`BarsFaithful` are not inductive: a minute stays whole because no event can
reach a slot whose minute is over, a retried bar equals its row because the
slot got nothing since it was popped, and a merged bucket is right because the
older part precedes the newer one. From `Inv`, each step of `Pipeline` maps to
a step of `BarLedger` or a stutter (`PipelineKeepsLedger`), and no step
changes a row (`RowsNeverChange`). The step that begins an option write maps to
`Release`: its untracked bars are found there, and only `WriteCommits` lets go of
them.

**StreamerProofs.** `Inv` is `TypeOK`, `NoneWhileConnecting`,
`NoLeakedConnection` and `Stopped`. The key is the second: whoever awaits a
connection does so because there is no streamer, and nobody else can make one
meanwhile; so the connection that comes in replaces none, and none is forgotten.

`NoneLeftOut` is the action property `ResubscriptionComplete`. Its invariant
`Course` follows `Missing`, the symbols the streamer should send and does not,
apart from what the refresh is sending to it (`Pending`) or was told failed: all
of it is in the hands of the listener that resubscribes, or of a kind whose turn
is yet to come (`Resumes`). No step of another task adds to `Missing` while the
streamer stays (`Carries`), and a command of the refresh only excuses what is
missing as long as it is meant for this streamer.

**GreeksJobProofs.** `Inv` is `TypeOK` and a `Scan` of each run: where its
cursor is relative to what it examined (`Fresh`, `Passed`, `Ahead`), that
the rows in hand are as read or computed by another run since (`BatchCurrent`,
`StagedRight`), and that a row that was computable when the run began still is
or has been computed (`DueLasts`). It rests on a row only ever going from gap
to computed (`RowsSettle`), which is also the refinement of `GreeksFill`.

**ContractsProofs.** `Inv` is `TypeOK`, `TrackedHasRow` and, for each program,
`Seen`, `Carried`, `Offered` and `Clean`. `Carried` is the heart: a tracked
contract whose ticker has been dealt with in this refresh is among the
resolved ones, unless the chain has dropped it; so the set that replaces
`_tracked` loses nothing that is still listed, also when a lookup failed. A
refresh that raises maps to `Records`, with the rows its commit may have left.

**LiveOptionsProofs.** `Typed` is `TypeOK` with `WayKnown` (between subscribing
and unsubscribing a request knows how it subscribed), `Timed` and `Quiet`
(requests only while a pass gathers). `Known` adds that what a pass is about to
gather has its row but for what it is to add (`ChosenKnown`). `Leak` bounds what
a symbol may be subscribed to by `Justified`: what a raise left, and what its
request listens to. The bound of the semaphore is shown by the cardinality of
`Busy`, which only `Request` enlarges, and only when it is `Free`.

`WindowIsCovered` follows one request from its subscription to its write
(`Polled`): if nothing disturbed it, it is alone with the queue (`Solo`); what it
is owed has come, is in the queue or is still to be sent (`Coming`); when a candle
that may end it comes for the second time, all it is owed is before that one
(`LastRepeats`); and what it has got it keeps until each of it has a row (`Kept`).

**ApiProofs.** `Inv` is `TypeOK`, `Accepted`, `Fresh`, `Ahead` and `Counted`. The
argument is about the place of a row, the number of rows before it: a result only
grows, so places only move away from the pages that have been read. A row that
is not delivered yet is ahead of the offset (`Ahead`); a page that comes back
short leaves none ahead (`PageSize`, `PlaceInside`).

`ReportExact` needs no invariant of the steps: it holds of any table. It is an
induction over the ticks of the range with the loop invariant `Scanned`: the
list has, in order, the long stretches of the minutes looked at so far, but for
the one that may go on, which is the open gap. Three lemmas say what one more
minute does to the stretches (`StretchesKept`, `StretchBegins`, `StretchGrows`);
`ExpectedRegular` that the minutes counted from the start of the range are the
session minutes when the range is `Aligned`; `GapLength` that rounding a gap down
to minutes loses nothing in the comparison.

**LiveUnderlyingProofs.** `Inv` is `TypeOK`, `Hands` (what each writer has in hand
at each await: what it found missing only under the lock, and no trades in the
bars of the catch-up), `OnlyOthersCollide`, `TradesAccounted` and `PoppedPlaced`
(the trades of a bar in hand are of its minute). A commit splits what is in hand
into rows and skipped trades; the two are disjoint because each trade has one
minute, and no row is written over because the commit needs each of them absent.

`GapIsClosed` (`CatchUpClosesGap`) has a second invariant, `Course`, along the
awaits of the catch-up: no ticker has been caught up before its turn (`Unserved`);
a start beyond the newest bar at the beginning of the process is a row that was
there when the turn came, which overtakes what is before it (`Passed`); a
replay that was not cut has all that is owed from that start on (`Fetched`); what
the catch-up does not write has a row or no usable close (`Looked`); and what is
settled stays so, since no row goes away (`AllSettled`, `RowsStay`).

**DailyBackfillProofs.** `Inv` follows each key through a run: `Course`, the work
that each phase finds; `Taken`, what is owed is among the candidates; `Untouched`
and `Started`, nobody else writes to a contract that had expired when the run
began, so its start is where its gap begins; `Covered` and `Closed`, what a key that
is done was to bring has rows, whoever wrote them, or came as zeroed candles. The
ingestion service and the pollers may write at any step; that only adds rows, and
none of a contract that had expired before. `TypeCorrect` adds `Shaped` and
`Bounded`, the semaphore by the cardinality of `InWork`.

`RangeReconciled` (`Reconciled`) needs `Mending`: a ticker that is being
replayed has a row for every session minute of its range before the start of the
replay (`Held`), and one that is done for every one up to the beginning of the
reconciliation, but for zeroed candles (`Mended`). That nothing is missing
before that start is what `find_gaps` promises its caller, by an induction over
the ticks of the range with the loop invariant `FirstFound`.

**Induction.** The library's induction theorems take an operator as a parameter,
which the installed provers cannot instantiate. `ApiProofs` and
`DailyBackfillProofs` therefore do the two inductions they need with sets and
functions as parameters: every set of numbers has a least one (`LeastNumber`,
from `WFMin` and `NatLessThanWellFounded`), so a set with 0 that is closed under
the successor is all of `Nat` (`AllNumbers`); steps given as a function have an
iteration (`Iterated`), so the recursive function `ScanOf` is what its equations
say (`ScanSteps`).

### Only model-checked

- Liveness (`UnderlyingSettles`, `RunsEnd`, `ComputedInTheEnd`,
  `CaptureResumes`, `StopEnds`, `SchedulerKeepsRunning`, `PassesEnd`) and the
  temporal counterexample of `streamer_stuck`: liveness under fairness is out of
  this prover's reach.
- The runs that expect a violation, which refute a comment or docstring.
- `Tracking`, `BarLedger` and `GreeksFill` have no theorems of their own: they are
  what `Contracts`, `Pipeline` and `GreeksJob` are shown to implement.

## 6. What is not modelled

- *API*: `/metadata`, `/health`, the key check and the 120-day limit of `/gaps`
  keep no state and return what one statement says; the aggregates in the columns
  of larger bars are the database's.
- *Backfill*: `--full` (the same run with the window as every start), the
  reports and the truncation warnings. *Live underlying poller*:
  `--source candle`. *Options poller*: `--once`, `--as-of` and the arithmetic of
  the strike window.
- *TastyTrade source*: `snapshot_greeks`, the option chain and the symbol lookup
  are results that come or do not.
- *Black-Scholes* is numerical: the Greeks job's model keeps only whether it
  finds a result. The values of bars in `DailyBackfill`, `LiveOptions` and `Api`
  are left out; a bar is its minute.
- The schema migrations, logging, configuration and session set-up
  (`db/session.py`, `alembic/`, `config`) are declarative or read once; the
  operator scripts stand alone.

`PROJECT.json` lists every part with its status, and every known hazard with the
property that covers it.
