# TLA+ models of the OANDA v3 trading agent

The repository holds one program twice. The main tree is a local MCP server for
one OANDA account: it reads prices, scans markets, and keeps a local journal of
trades and transactions in a TinyDB file. `.worktrees/scan-force` is the chat bot
it grew out of, with a live price stream, alerts, a job scheduler and more
detectors. These modules model the parts of both whose correctness depends on
the order of things, and some of their calculations.

Paths below are relative to the repository root; "worktree" is
`.worktrees/scan-force`.

## 1. The system

| Component | State | Operations | Module |
| --- | --- | --- | --- |
| `AgentRuntime` (`agent/runtime.py`) | the `RLock` `_state_lock` | `run_blocking`, `sync_open_trades`, `sync_trade_history`, `sync_account_state`, `close` | `HistorySync`, `TradeJournal`, `MarketScan` |
| MCP handlers (`mcp_server/adapters.py`) | none | one per tool; most sync first, then read | `HistorySync`, `TradeJournal`, `MarketScan`, `MarketContext` |
| `TradeHistoryService`, `OandaHistoryClient` | none of their own | `incremental_sync`, `backfill_history`, projection, repair | `HistorySync`, `TradeJournal` |
| `TradePollerTask`, `JournalService` | status fields | `run_once`; open, modify, close | `TradeJournal` |
| `TradeStore` (`data/persistence/trade_store.py`) | tables in one JSON file, an `RLock`, `<file>.lock` | upserts and lists; each atomic | in the modules of its tables |
| normalizer, `TradeStatsService` | none | commission of a fill; statistics of a window | `TradeFigures` |
| `CandleCache`, `OandaMarketDataProvider`, `candle_policy` | CSV per instrument and timeframe, metadata in the store, memory | get, refresh, append, replace | `CandleCache` |
| `ScanOrchestrator`, `MarketStateStore` | versioned snapshots, statuses | scan, refresh, resolve, chart | `MarketScan` |
| the same two in the worktree | snapshots and bundles | scan, chart refresh, publish a bundle | `BundleScan` |
| `ForexCalendarClient`, `MacroContextService` | cached feed, status | get, refresh, force | `MarketContext` |
| `ExcursionTracker`, MAE/MFE report | samples in the store, last written | sample, replay | `Excursions` |
| `PriceStreamTask`, `PriceAlertEngine` (worktree) | coalescing queue, armed set, alert table | receive, get, evaluate; create and clear by chat | `PriceStream` |
| `TimeAlertEngine`, scheduler (worktree) | alert table | evaluate what is due, next occurrence | `TimeAlerts` |
| `IndicatorAlertEngine` (worktree) | alert table, evaluation cursor | evaluate a closed candle | `IndicatorAlerts` |
| `MarketHoursService`, market-open warm (worktree) | one scheduled job | status, next opening, warm | `MarketHours` |
| turtle soup, swing failure, opening range, zones, bias, trade plan (worktree) | none | computation over a chart | `Detectors` |
| stream client, rendering, registry, settings, data classes | none that others rely on | requests, drawing, schemas | not modelled, section 6 |

What is hard: requests run in parallel threads and only some of them hold the
runtime lock; a sync is a sequence of network calls and durable writes, any of
which may raise, and the process may die between two; two writers with
different evidence, the poller and the projection, write the same trade
records; a second program, the `backfill-trades` CLI, works on the same file
when the server is down; reads that fail return the same value as an empty
table; the candle file and its record are two writes; forced and unforced
refreshes of the calendar answer out of order; in the worktree nothing locks a
scan, an engine's read-modify-write of an alert or the chat against each other,
and ticks coalesce between a producer and a consumer.

What makes each component correct:

- history: nothing below the watermark is missing; rows can be rebuilt from raw
  payloads; the watermark never moves back; every call ends and frees its locks;
- journal: closed only if closed at the broker, never reopened, equal to what
  the poll saw, P/L and reason from the best evidence, eventually in agreement;
- candle cache: file and record agree, no candle missing inside the file, no
  older candles served than before, "fresh" means the newest closed candle;
- scans and snapshots: versions without gaps, never back in time, what a scan
  reports as scanned was published, no answer older than what is published;
- bundles: the bias and the freshness come from the snapshots the bundle names;
- calendar and macro: no late answer replaces events with older ones, what a
  caller is left with was replaced within the refresh interval if at all, no
  later request takes macro values out of view;
- excursions: no excursion a tick showed is lost by more than the minimum move,
  and a trade's report is no milder than its samples;
- price alerts: no tick lost, no crossing missed, fired once and only after the
  price was on the safe side;
- reminders: told once, told eventually, no alert hidden by the cursor;
- warms: every opening is followed by one;
- calculations: shares add up, the drawdown is the worst, no direction favoured.

`PROJECT.json` lists the hazards at their lines with the properties that guard
against them.

## 2. The modules

| Module | Content |
| --- | --- |
| `LedgerMirror` | abstract: a growing local copy of the broker's log and a mark below which nothing is missing |
| `HistorySync` | `incremental_sync` and `backfill_history` over the three history tables, both locks, failures, crashes; implements `LedgerMirror` |
| `TradeJournal` | `HistorySync` (instantiated as `History`) with the poller, the projection and the repair over the `trades` table |
| `CandleWindow` | abstract: a window of the broker's closed candles that only moves forward |
| `CandleCache` | one key of the cache with its memory, file and record; implements `CandleWindow` |
| `MarketScan` | scans, refreshes, resolves and charts of the main tree over the versioned store |
| `BundleScan` | scans and chart refreshes of the worktree, with bundles, without a lock |
| `MarketContext` | calendar and macro context under and outside the lock |
| `Excursions` | the sampling of ticks, and the report of a trade from candles or samples |
| `PriceStream` | stream, queue and price alert engine with the chat beside them |
| `TimeAlerts`, `IndicatorAlerts` | the two kinds of alert that are not about a price |
| `MarketHours` | market status and the chain of one-shot warms |
| `TradeFigures` | allocation of commissions, statistics of closed trades |
| `Detectors` | pure operators: the detectors over small charts, the plan made of what they found |
| `MC...` | instances for TLC; `MCTradeStore`, `MCServices` and `MCReminders` put several independent modules in one run, one per behaviour (`focus`) |
| `HistorySyncProofs`, `TradeJournalProofs`, `ServiceProofs`, `PriceStreamProofs`, `MarketScanProofs`, `ScanContextProofs`, `CandleCacheProofs`, `ReminderProofs` | section 4 |

`HistorySync` and `TradeJournal` compose by `INSTANCE`; the others meet at an
interface each states as external: `MarketScan` takes the candle cache to be what
`CandleCache` shows (its newest bar never goes back), `IndicatorAlerts` the
candles a scan evaluates, `Excursions` the ticks of the queue in `PriceStream`.
Operators marked `(mutant)` in a comment are seeded faults: what the code would
be with a plausible bug. No specification uses them; each property is shown to
fail when one of them takes the place of the definition it is a variant of.

### HistorySync

State: `log` is the broker's transaction log (external; the index is the id),
`raw`, `events` and `watermark` are the three durable tables, `job[r]` the local
variables of the call that runner `r` executes (`pc` is the next step),
`holders` the runtime lock, `owner` the process holding the lock file. `base` is
auxiliary: nothing is promised about transactions older than the first
watermark or the start of the first backfill, and `base` remembers that point.

A runner is an MCP request (`Workers`) or the CLI (`Cli`). A request in
`UnlockedReaders` is one that reaches `incremental_sync` through
`_try_sync_for_read`, which `adapters.py` calls in a thread without the lock.

| Actions | Code |
| --- | --- |
| `BeginSync`, `FetchDetails`, `InitialiseWatermark`, `FetchSince`, `PersistRaw`, `PersistEvents`, `FinishProjection`, `AdvanceSync` | `incremental_sync`, one action per network call or durable write |
| `BeginBackfill`, `FetchChunk`, `PersistRaw`, `PersistEvents`, `FinishProjection`, `AdvanceBackfill` | `backfill_history` and `main` |
| `Fail` | a request or a strict write raises; an upsert loop may have written a prefix |
| `Crash`, `OpenServer`, `CloseServer` | death of the process, `TradeStore.__init__`, `close` |
| `BrokerCommit` | external |

Three hazards are constants so that each can be switched on alone:
`UnlockedReaders`, `ReadFaults` (a read of the sync state raises, is swallowed by
`_read_operation` and looks like an empty table) and `GapWindows` (a backfill
window starts above the stored watermark).

### TradeJournal

Adds `journal` (the `trades` table), `level` (external: the protective level the
broker shows) and `work[r]` (the locals of a poll or a projection). A transaction
is now a sequence of legs, as `_normalize_order_fill` makes them. The poll
fetches, lists, records openings, modifies, closes, one durable write at a time;
the projection reads the stored rows of a trade and the record, then writes;
`write` holds the record between reading and writing, which is where another
thread can get in. P/L is the set of broker transactions it sums, so "complete"
is set equality; a reason is `MIT` or `MANUAL`.

### CandleCache

State: the clock `now`, what the broker has `closed`, the three levels `memory`,
`csv` and `meta`, the runtime lock `holder`, `job[w]` and the last `answer`. A bar
is a number with a start; `BarStart` may give a bar another length than `Delta`,
`Traded` leaves weekends out, and `ClockLag` lets the broker's clock run ahead.

| Actions | Code |
| --- | --- |
| `GetCandles`, `LookupMemory`, `LookupCsv`, `Resolve` | `CandleCache.get_candles` and its levels, the bootstrap of a missing record |
| `FetchReplacement`, `FetchNewer` | a full request and a request since the newest candle, every outcome without a new candle included |
| `SaveCsv`, `SaveMeta` | the two durable writes; the second may fail without notice |
| `GetCached` | the reads that never fetch |
| `IsFresh`, `TrimToClosed`, `FloorTime` | `core/candle_policy.py` |
| `Fail`, `Crash`, `Tick`, `BrokerCloses` | a raising request, a restart, external |

### MarketScan and BundleScan

`MarketScan`: `version`, `history` and `latest` are the maps of `MarketStateStore`,
`cached` the newest cached candle of a key. `ScanAll`, `RefreshInstrument`,
`RefreshSnapshot` and `ResolveSnapshot` begin under the lock; `AskSnapshot` and
`ChartSnapshot` first read outside it. Then `ReadPrice`, `ReadCandles`,
`PublishSnapshot`, `Skip`, `Fail` walk the instruments and timeframes as
`_scan_instrument` does. Market hours and whether a fetch brings a newer candle
are nondeterministic.

`BundleScan` is the worktree's version of the same walk, one instrument, with no
lock around it: `PriceRead`, `CandlesRead`, `CandlesFetched`, `EntryPersisted`,
`FreshnessRead`, `SnapshotPublished` for each timeframe, and `BundlePublished`,
which pins the versions, takes the bias of the candles the thread holds and
reports their lags.

### MarketContext

`calendar`, `macro` and `lastStatus` are what the two clients hold, `view` the
attribute `macro_status` of the orchestrator, `task[w]` the calls a request still
makes. `feed` is external: the hours at which the revisions of the calendar came
out. A request under the lock is a forced refresh or the context part of a scan;
one outside it filters events or views the macro context. A fetch of the calendar
is three steps: decide (`GetEvents`), read the feed (`FetchRows`), store
(`ApplyAnswer`). An answer may have no event that can be read (`blank`); it is
stored as a success, and any later answer replaces it. `GetStatus` answers from
memory, the last status before the first success included, or fetches in `Download`;
`AssignView` writes the view. `since`, an auxiliary field of a task, is the time of
the good values when the request began.

### PriceStream, TimeAlerts, IndicatorAlerts

`PriceStream`: `queue`, `queued` and `latest` are the coalescing queue of
`_enqueue_latest`; `task` is the consumer, which gets an instrument (`Get`), takes
its tick (`Take`) and evaluates the alerts in a worker thread, one store
operation per step: `ListPending`, `Pass`, `ReadToArm`, `MarkArmed`, `Deliver`,
`MarkStamped`, `MarkFired` and their failures. `PriceAlertCommand` and
`ClearPriceAlertCommand` are the chat, in between.

`TimeAlerts`: `EvaluateDueAlerts` is the scheduled job, `DeliverDue` and
`MarkTriggered` its two steps per alert, `NextFire` the next occurrence, with
`Muted` session reminders. `IndicatorAlerts`: two scanners run `Scan`,
`ReadCursor`, `List`, `Deliver`, `MarkFired`, `Advance`, unlocked.

### Excursions, MarketHours

`Excursions`: `TakeTick`, `ListOpen`, `Sample` are `ExcursionTracker`'s handling of a
tick. `Summary` is the report: of an open trade from the complete one-minute candles
since the minute it opened in (`Frame`, `SliceTradeFrame`, `SummaryFromFrame`), from
the samples if there are none or the request failed (`LoadedFrames`), and of a
closed one from the samples. `candles` and `handled` are auxiliary: what the broker's
minutes contain and what the tracker was shown. `ReportCoversSamples` leaves out what
a replay does: samples of the running minute (section 5).

`MarketHours`: `CategoryStatus` and `NextMarketOpenAt` are the service,
`RunWarm` and `WarmEnds` the job that schedules its own successor, `HRestart` the
scheduling at start. `Timetables` says what the chain needs of the calendars, which
come from a library (`pandas_market_calendars`), and of a warm: a session is longer
than the grace of the job (a minute), the next one opens after a break that is
longer than the second the service looks beyond a close, and before the
look-ahead ends; a warm that starts late is over before the other category opens,
unless both open together. The last is a fact about the load: `warm_all` reads some
candles, and the categories open at full hours. Without it an opening during a warm
would not be served, and `OpeningsWarmed` would be too much to ask.

### TradeFigures, Detectors

Calculations as operators and single steps: `AllocateLeg` and `CountTrade` follow
the loops of `_allocate_commission` and of the statistics, and their properties
compare what was accumulated with a definition over all inputs. `Detectors` has
no steps at all: an initial state is an input, the property is about the outputs.
Besides the worktree's detectors it has both trees' choice of zones
(`_build_zone_summary`) and `bot/tradeplan.py`, where the first setup that fits the
bias, the nearest target and the reward for the risk make a plan. `Inputs` states
what an input is, as the data classes do: a block's or candle's range is not upside
down, a detected sweep or block has a direction, the marks of a library are as many
as the candles, the counts are positive. Only the neutral band is assumed to be more
than the settings demand (section 5).

## 3. The runs

| Run | Checks | Shows |
| --- | --- | --- |
| `TradeStore` | `TypeOK`, `EventsHaveRaw`, `WatermarkComplete`, `WatermarkMonotone`, `MirrorsLedger`, `ExcursionsKept`, `ReportCoversSamples` | with the hazards off and two failures or crashes anywhere, the pipeline implements `LedgerMirror`; samples follow the ticks through failed inserts and restarts, and reports cover them |
| `HistorySync_anyway` | `CallsEnd` | with every hazard on, every call ends, and leaves neither the runtime lock nor the lock file behind |
| `HistorySync_unlocked` | `NoInterleavedMutations`, violated | section 5 |
| `TradeJournal_locked` | `ClosedOnlyIfClosedAtBroker`, `NeverReopened`, `PollReconciles` | serialised polls and syncs with failures and crashes |
| `TradeJournal_fair` | `SyncedJournalAgrees`, `SyncRepairsReasons`, `JournalCatchesUp` | two trades, flips, partial and market-if-touched closes, a backfill; after the last failure the journal follows the broker |
| `TradeJournal_reopen` | `NeverReopened`, violated | section 5 |
| `CandleCache` | `ReportBacked`, `NeverServedOlder`, `FreshMeansNewest`, `KeepsWindow`, `CatchesUp` | the cache implements `CandleWindow`, whatever fails, and catches up |
| `MarketScan` | `PinnedWindow`, `BarsNeverGoBack`, `ScannedMeansAll`, `AnswersAreNewest`, `LiveSpreadKept` | what scans publish and answer under the lock, with unlocked first reads |
| `PriceStream` | `QueueAgrees`, `NoMissedCrossing`, `FiresOnce`, `FiresOnlyAfterSafe`, `EveryTickTaken` | no tick or crossing is lost, an alert fires once |
| `PriceStream_cleared` | `ClearedStays`, violated | section 5 |
| `Reminders` | `RemindsOnce`, `CursorHidesNothing`, `DueIsTold` | reminders and indicator alerts, with failures, restarts and unlocked scans |
| `Services` | `OpeningsWarmed`, `CommissionShared`, `DrawdownIsWorst`, `BundleHangsTogether`, `DetectorsMirror`, `LateAnswerDropped`, `ServedRecently`, `ViewKeepsValues` | one focus per behaviour: hours, commission, statistics, context, bundles, detectors |

`FiresOnce` and `RemindsOnce` allow one more message for each failed call and
restart: delivery and the record of it are two steps in the code, and it chooses
to tell twice rather than never.

### Bounds

- History and journal: 2 to 4 transactions (`MaxLog`), 1 or 2 failures, 0 or 1
  backfills, 1 or 2 workers, 1 or 2 trades. Three transactions give every shape
  that matters to the watermark: before it, inside a batch, after a batch was
  fetched; payloads with 0, 1 and 2 rows give filtered transactions, the plain
  case and a partial write inside one transaction. Two failures give a failure
  during the recovery from a failure. One trade can open, be reduced and be
  closed in three transactions; the second is there for flips and loops.
- Candle cache: six bars with a weekend and one too short, requests of one and
  three candles, pages of two and responses of at most four, so that an append
  needs several pages and a response may not reach back to the file.
- Scans: two instruments with two timeframes each, so that one instrument can
  fail after another and a timeframe after another of the same; a retention of 1
  makes eviction happen on the second version; two candles and three requests
  give a candle that could go back.
- Price stream: two instruments fill a queue of two; prices 0 to 2 with one alert
  above and one below; three ticks are arm, coalesce and fire.
- Reminders: four units of a three-unit day, so a daily reminder falls due twice;
  two candles; one failure and one restart. `MaxListFailures` is 0: section 5.
- Excursions: one trade, two ticks handled over three minutes and one failure or
  restart, prices 0 to 3 with a minimum move of 2: a sample that is remembered,
  forgotten and written again, in the minute of the opening, a complete and the
  running one. Section 4 removes the bounds.
- Services: three requests on three threads over four hours with a refresh every
  three; two days of sessions; up to
  four legs and three closed trades, which is enough for every rounding of the
  last leg and for a drawdown inside another; three scans of two threads over two
  timeframes; charts of four candles over five price ranks, the last one free;
  plans from snapshots with up to three kinds of setup, so that each precedence of
  one over another decides some plan, and with a block of no height.
  The unlocked readers, and the scan threads, are interchangeable
  (`AlikeThreads`); no property of the run is a liveness property, so the
  symmetry loses nothing.

Deadlock is checked in the runs of `TradeStore`, `HistorySync`, `TradeJournal` and
`CandleCache`, where something can always go on. It is not checked in the others: their
requests, ticks, days and inputs are bounded and a behaviour that has used them
up stops, and `Detectors` never moves.

### Fairness

- `HistorySync`: a call that has started goes on: its thread or process is
  scheduled (weak fairness of `SyncStep`, `BackfillStep`).
- `TradeJournal_fair` adds that the server is opened again, and strong fairness of
  beginning a poll and a sync: each journal request runs both
  (`sync_account_state`), and a request that waits for the lock gets it. It is a
  statement about a client that keeps asking; without requests nothing in this
  program syncs, and nothing is claimed.
- `CandleCache`: requests go on, the clock ticks, the broker closes bars, and
  clients keep asking (strong fairness of `GetCandles`, since the lock may be
  taken again and again by others). The same caveat applies.
- `PriceStream`: the event loop runs the consumer (`Get`, `Take`) and the worker
  thread finishes (`Evaluate`).
- `Reminders`: the scheduler runs the job every minute with `max_instances=1`, so
  `EvaluateDueAlerts` is weakly fair.

No fairness is assumed of the broker's transactions, of failures, of backfills,
of the stream or of the chat.

## 4. The proofs

All theorems hold for every value of the constants that the `ASSUME`s of the
modules admit: any payloads, workers, instruments, bounds.

`HistorySyncProofs`:

- `TypeCorrect`: `Spec => []TypeOK`. `TypeOK` is inductive by itself.
- `RowsHavePayloads`: `Spec => []EventsHaveRaw`, with no assumption about locks,
  windows or failing reads of the sync state. The strengthening is
  `PayloadsStored`: a call about to write rows has written the payloads. It is
  preserved because `raw` only grows and a fetched range is not changed by what
  the broker appends.

- `WatermarkMovesBackOnlyStale`, with every hazard on as well: a stored watermark moves
  back only at the end of a sync whose reading of it is out of date (`StoresStale`), or
  of a backfill whose own read of it failed. A sync's range never ends before it
  begins (`RangesOrdered`), so one that found the watermark unchanged does not lower it.

The rest of `HistorySyncProofs` assumes `Serialised` (no unlocked reader, no failing read
of the sync state, no gap window); section 5 tells what happens without each.
The inductive invariant `Sound` consists of

- `Exclusive`: the runtime lock and the lock file admit one call at a time, so
  the watermark read at the beginning of a sync is still the stored one at its end;
- `SyncProgress`: a sync works on the range that begins at the stored watermark,
  and has stored all rows of it before it advances;
- `BackfillProgress`: a backfill has stored everything from `base` to its current
  chunk, and its largest id is not beyond that;
- `BaseKnown`, `StoredAreReal`, and `WatermarkComplete` itself, which is not
  inductive without the others.

From it follow `WatermarkIsComplete` and `ImplementsMirror` (`Spec => Mirror!Spec`:
each step is a step of `LedgerMirror` or a stutter), and from the refinement the
corollary `MarkNeverMovesBack`.

`TradeJournalProofs` begins with `JournalWritersExclude`, which assumes nothing: when two
calls are under way both are threads of the server and one of them is a read that
syncs without the lock (`OnlyUnlockedOverlap`). Polls and locked syncs exclude each
other, and the CLI's backfill excludes the server with its unlocked reads.

The other theorems assume that every sync takes the runtime lock (`Serialised`, here
without the other two conditions); failing reads of the sync state, gap windows and
any number of crashes are allowed. `JournalInv` consists of

- `Locking`: whoever works has the locks it needs, and a poll is not part of a sync;
- `Evidence`: a record, and a record about to be written, is backed by legs of the
  broker's log; a poll that has its answer knows every open journaled trade to be
  shown in it or closed, which is what makes a missing trade a closed one. Without
  the lock a projection may journal a trade that opened after the answer, and the
  poll would then book it as closed;
- `Progress`: in the middle of a poll each trade shown is right in the journal, on
  a list, or about to be written, and every other open trade on its way to be closed;
- `Typed`: stored rows are legs of the log.

`ClosedMeansClosed` and `PollsReconcile` follow.

`SyncsRepair` adds `Repairing`. A repair is due when the journal shows a trade closed
by hand and the last closing event stored says market-if-touched. While a call
projects, each due repair is of a trade still on its list, or is the record it is
about to write; when it is done none is left. Whoever stored the events, and however
an earlier call ended, the next sync that ends finds them. The record a projection
writes is never a due one itself, since it takes the reason from the same events.

Two theorems relate the journal to the history and need both sides complete. They
assume in addition that reads answer (`~ReadFaults`) and that there was no backfill:

- `Flowing` is the completeness: the rows above `base` and up to the watermark are
  stored, a sync works from the watermark to the end of the log it was shown, no row
  beyond that end is stored, and after its inserts all rows up to it are.
- `ClosesLast`: in the broker's log a trade opens before it closes, and no leg of
  it follows the one that closes it. This is preserved by what `BrokerFill` allows.
- `Coherent` compares the journal with what the stored events say of a trade (`Told`).
  A trade is `Old` when the transaction that closes it is below the watermark, and
  then a journaled record of it has the state, P/L and reason of `Told` (`Settled`). A poll
  in progress was shown no trade that is old or closed in the journal
  (`PollAgrees`); the answer a sync works on shows the close of each trade the journal
  has closed (`SyncAgrees`); and a projection has every trade whose close is stored
  still on its list, about to be written, or settled, and writes what the events say
  (`ProjectionAgrees`).

From it follow `ClosedStaysClosed`, as a record written over a closed one is closed, and
`JournalAgrees`. Both hypotheses are needed. `TradeJournal_reopen` is the backfill. After
one failed read of the sync state TLC finds two behaviours that are in section 5:
a sync that stored events and died is not resumed, so the journal never learns
of them; and a repair reopens a closed trade.

`MarketScanProofs` rests on `ScanInv` (theorem `ScansKeepOrder`): one request at a
time works under the lock; the candle it read of its key is still the newest
cached one; what is published is no newer than that. `NewerShowsNoOlder`,
`LiveSpreadSurvives` and `AnswersNotOlder` follow. For the last: a chart falls back on a
snapshot it read under the lock; a resolve read its own outside, but answers with
it only if the cache holds no candle, and then nothing was published either.
`PinnedStays` needs `PinInv`: the history of a key holds each version from the
oldest kept to the newest once, so that as many are newer than a version as there
are numbers above it, and the bounded history drops exactly one.
`ScannedIsPublished` needs `CountInv`: a scan has published every timeframe of the
instruments it counts, and of the instrument at hand every timeframe it has no
frame left for; the instruments still to do are not counted yet. Here
`NothingTwice` is used, that `SCAN_INSTRUMENTS` and `SCAN_TIMEFRAMES` name nothing
twice: otherwise the snapshots counted would be more than those there are.

`CandleCacheProofs`: `Inv` is `TypeOK`, `Filled` (a record of a window has a
candle) and `CacheInv`, of which `Locking` makes one request at a time work,
`FileSound` has the file be a window without a hole of candles that are closed
and the record end within it, `MemorySound` has memory equal the file except
between the two writes of one request, and `JobSound` says what a request relies
on at each of its steps. `TypeCorrect`, `NobodyIsServedOlder` and `FreshLacksNothing`
follow, and `FileKeepsWindow`: every step of the file is a step of `CandleWindow` or
none. Two theorems have a hypothesis that the code does not enforce, and TLC finds
the property violated without it:

- `FreshIsNewest` assumes `NoLongBar`. Within the last hour of a 25-hour bar the
  policy compares nominal ends; it still hides no bar, which is `FreshLacksNothing`.
- `ReportsAreBacked` (with the strengthening `CountsSound`) assumes `LagBounded`: only
  the newest candle may be cut by a local clock that is behind; one behind by a
  bar and more would cut two. Any count may be asked for. A request for the
  broker's maximum has no room for the candle that is forming, and its record may
  promise one candle more than the file holds, but not two (`NotAbove`, section 5).

`ReminderProofs`: `RemindersOnce` from `RemindInv`. Each occurrence of a reminder is
counted against the failures and restarts that excuse telling it again; an
occurrence that was told without an excuse is not due any more, or is the one the
job is about to mark (`Accounted`, with `RunShape` about the list a run holds).
`CursorIsSafe` from `CursorInv`: an alert that a scanner has not told at the candle
of the cursor is in the list of a scanner that has not written the cursor yet. It
says `listFailures = 0 => CursorHidesNothing`: after a read of the pending alerts
that failed the code takes the empty list for the answer and moves on.

`ScanContextProofs`: `BundlesHangTogether` without any lock. The invariant
`BundleInv` says that versions are never reused (`HistoryOK`), so that what a
thread pinned is the very snapshot it published, or gone (`PinsOK`), and that a
scan has pinned each timeframe it is done with before it assembles a bundle.

`PriceStreamProofs`: `QueueNeverDisagrees` from `QueueInv` (no instrument twice in
the queue, and the pending ticks counted), `SafeSideFirst` and `DeliveredOnce`
from `AlertInv`: `OnceInv` accounts for each message beyond the first with a fault
or restart, `SafeInv` traces armed alerts to a tick on the safe side through the
store, the engine's memory and the chat's writes. `NoCrossingIsMissed` from
`MissInv`: as long as nothing failed, an armed alert that the newest tick of its
instrument crosses has that instrument in the queue, or is in the hand of the engine
(`Minded`); an engine about to arm an alert was not crossed by its tick (`Fresh`).

`ServiceProofs`: `SamplingKeepsExcursions` from `Remembered` (the sample the
process remembers writing is stored, so that a tick too near to it is covered),
`ReportCovers` from `Witnessed` (every sample is a price of the candle of its
minute): a complete minute of a sample lies in the slice of the frame, and the
extremes of a finite set of candles bound each of them (`FrameBounds`); without
candles the extremes are those of the samples (`SamplesBound`).

`OpeningsAreWarmed`: lemma `NextMarketOpenIsNext` says that the service finds the
first opening of any category after the time asked for, whether the category is open
(then it is asked again after its close) or closed. `Chained` says what may be missing:
an opening since the start that no warm has served is not before the job that is
scheduled, or after the longest time the warm under way may last. A warm serves
every category that opened when it was due, because sessions outlast its grace
(`WarmServes`), and schedules the first opening after its end (`RestartsChain`).

`CommissionIsShared` and `DrawdownIsDeepest` are about sums, of any number of legs or
trades. Their induction is a lemma without an operator parameter (`CountingUp`, by
the least number that is missing), from which `TotalUnfolds` and `ProfitOfOneMore`
say what the recursive functions of `TradeFigures` compute. `Allocated` bounds the
error of what was allocated so far: half a quantum for each leg done
(`RoundsWithinHalf`), which is what the last leg takes over when it gets the rest.
`Drawn` says that trades are counted by their closing times, and that peak and
drawdown are right for each moment whose trades are all counted; `Traced` that both
are values of the curve, so that the drawdown is not too large either.

`DetectorsFavourNoDirection` has no step to reason along; its argument follows the
calculations. `TurnReverses` and `TurnedExtremes` carry comparisons, `Max` and `Min`
to the mirror image, and each detector has a lemma from there (`TurtleSoupMirrors`,
`SwingFailureMirrors`, `OpeningBreakoutMirrors`, `FibMirrors`). What is chosen among
several must not depend on the side: the order of breaks and zones is a list by keys
(`RankedLists`: keys that tell the members apart give one) and the keys of a mirror
image are the same (`NearestMirrors`, `RecentBreaksMirror`). Every kind of evidence
changes its sign (`StructureMirrors` and its like), so the score does
(`ScoreMirrors`), which is a multiple of ten, so that the tenths of `Weigh` lose
nothing to rounding; votes at the band change theirs (`VoteMirrors`), and `Verdict`
compares votes for equality alone. In a plan the first triggers of two lists are
`Opposed`, and so are the nearest targets; a level of 0, not known, is never one.

About `MarketContext`, `ScanContextProofs` assumes that the refresh interval outlasts a fetch
(`RefreshOutlastsFetches`). `ContextInv` consists of `Clocked`, a fetch sees the
clock turn at most once; `CalendarOK`, events at hand and answers on their way were
current when they were asked for (`CurrentAt`), and an answer that is older than
the events at hand was asked for no more than an hour after them, so that it finds
them not due and is dropped (`NotOlder`); and `MacroOK`, a status about to be
assigned is at most an hour older than the values its request began with, and not
without values if there were some (`Informed`). `LateAnswersDrop`,
`CalendarServedRecently` and `ViewKeepsMacro` follow.

Every invariant that a passing run checks, and every action property but liveness, is
stated by a theorem. Only model-checked: liveness under fairness (`CallsEnd`, `JournalCatchesUp`, `CatchesUp`, `EveryTickTaken`,
`DueIsTold`) and what needs `ENABLED`, which are out of the prover's reach.

## 5. Disagreements of code and documents

Three runs end in a counterexample against a statement of the repository:

- `HistorySync_unlocked`: `get_trade_history` syncs a second time outside the
  lock and writes rows between the writes of a locked sync (README.md:135).
- `TradeJournal_reopen`: a backfill window with an opening and without the close
  overwrites a closed record as open (docs/COMMANDS.md:167).
- `PriceStream_cleared`: an alert cleared while the engine arms it is written back
  as pending (`trade_store.py:892`, `:900` of the worktree).

Met while modelling, not the subject of a run; some only say where a property
stops to hold:

- One failed read of the sync state sends the next sync down the initialisation
  path, and a backfill of recent days on an old store moves the watermark over
  the days between: both leave transactions below the watermark that were never
  fetched. `Serialised` excludes them.
- A sync outside the lock that ends after another has moved the watermark on writes
  back its own, older one (`journal/trade_history_service.py:128`): the next sync
  reads the same range again. `WatermarkMovesBackOnlyStale` says that nothing else does.
- A calendar answer without events is a success, and is kept until it is due; the last
  condition of `data/forex_calendar.py:286` lets any answer replace it, a late unforced
  one that is older than it too. `LateAnswerDropped` is about calendars with events.
- Before its first success the macro service answers an unforced request with its
  last status, a failure maybe (`data/macro.py:57`), and `refresh_macro` assigns what
  it got (`orchestration/scan_orchestrator.py:203`). A request that got the failure
  may assign it after a refresh that succeeded, and the views are answered with it
  (`agent/runtime_views.py:26`) until the next scan or forced refresh.
  `ViewKeepsValues` says that only a request from before the first success does this.
- The report of an open trade replays complete minutes (`providers/account_client.py:896`),
  so a sample of the running minute may show more than the report.
- After such a re-initialisation a stored market-if-touched reduction may be the last
  closing event of a trade whose close was skipped. A poll books the close as made
  by hand, the repair of the next sync takes the reduction for its evidence, and the
  projection, which finds no close, writes the trade back as open
  (`journal/trade_history_service.py:567`, `:512`).
- Without the lock, a trade journaled between the poll's two reads is taken for
  one that disappeared, and its detail is used without a look at its state.
- The projection replaces the broker's P/L by the sum of the stored closing
  events, from which partial closes before the first watermark are missing.
- A response without candles raises at `providers/oanda.py:156`, where the
  comments at `cache.py:253` and `oanda.py:201` speak of a fall back on the cache.
- `is_cache_fresh` (`cache.py:43`) calls the 25-hour daily bar stale for its last
  hour: it counts slots of the nominal length. The cost is a request.
- `refresh_calendar` reads two properties that each fetch again after a failed
  fetch, contrary to the comment at `scan_orchestrator.py:173`.
- A request for `OANDA_MAX_CANDLE_COUNT` candles is not given one more for the candle
  that is forming (`providers/oanda.py:268`): after a replacement the record may
  report a candle more than the file holds.
- `/pricealert` takes any instrument of the registry, the stream only those of
  `stream_instruments`: an alert on another one never fires. `NoMissedCrossing` is
  about streamed instruments.
- The worktree's `/config scan_interval` is stored and not applied after a restart
  (`scheduler.py:152`).
- With a neutral band of 0, which the settings allow, a timeframe without
  evidence votes bullish and the mirror of `DetectorsMirror` fails; the run uses
  the default band.
- A plan whose setup is an order block of no height, which the data class admits,
  risks nothing, is rejected for no reason and fails `assert reward_risk is not None`
  (`bot/tradeplan.py:124` of the worktree).
- The last leg of a commission takes the rest and may be negative; a fill whose
  legs have no units loses its commission (`CommissionShared` assumes units).
- `mark_triggered` and `mark_fired` write back a record that was cleared between
  their read and write, like `PriceStream_cleared`; `RemindsOnce` and
  `CursorHidesNothing` hold all the same.
- A failed read of the pending indicator alerts looks like an empty list, and the
  cursor moves past the candle: `CursorHidesNothing` assumes such a read does not
  fail (`MaxListFailures`). Two unlocked scans may tell an alert of one candle
  twice, so nothing is claimed about telling an indicator alert once.
- The follow-up of a closing market is looked for one second after its close and
  misses a session that opens at that very second; a market that opens while a
  warm is running is skipped by that warm. The schedules of the run leave at
  least the length of a warm and its grace between openings.
- The worktree keeps the nearest zones whatever their status, so that mitigated
  ones can crowd out the active one; the main tree counts by status.

## 6. Abstractions

History and journal:

- A response is taken in one step. The pages of a window
  (`fetch_transactions_for_window_sync`) are one `FetchChunk`: the function
  returns all pages or raises, and ids below its end do not change.
- Dates are ids: transactions are ordered by time and id alike. Chunks without
  ids, which change nothing, are left out.
- An upsert of one record is atomic (`AtomicJSONStorage` replaces the file, under
  the store's `RLock`). An upsert of many is a prefix if it fails; no other
  store operation falls inside one, since the lock is held for the whole loop.
- `ReadProjection` reads rows and record together, and `close_trade` reads and
  writes in one step; the gap that remains is between reading and writing.
- Of reads that fail, only that of the sync state is modelled.
- Close reasons are `MIT` or `MANUAL`; a trade is reduced at most once and its
  financing is part of the fill.

The others:

- Prices are ranks or whole pips, times whole units, scores whole counts of an
  exact unit (floats in the code). Indicator values, swings, sessions, breaks and
  blocks marked by external libraries are inputs.
- A candle is its bar; a parsed response is a set of bars.
- Health reports, back-off delays, cool-off times and the rerun queue of the
  scheduler (unreachable with one instance of a job) are left out, as are misfires
  longer than a minute, after which the chain of warms would break.
- `Excursions` takes its ticks as the stream gives them; coalescing, which drops
  ticks before the tracker, is in `PriceStream`. A tick that a queue delays may be
  handled after a trade it predates was opened: it counts as handled.
- `MarketScan` keeps the last scan status with the request that wrote it, and takes
  one answer about market hours per request; the code asks for each instrument.
- `BundleScan` leaves out the spread of closed markets and starts with an empty
  cache. Without a lock a newer version may show older candles; nothing is
  claimed of that.
- `MarketContext` claims nothing of a forced answer that is late: force means
  overwrite.
- `Detectors` leaves out the liquidity levels, whose tie-break prefers a side by
  design, changepoint detection and the spread gate.

Not modelled: the parsing of requests and answers of the broker and of the feeds;
rendering (`charting/`, the panels and messages of the worktree's `bot.py`); data
classes and schemas (`core/models.py`); registry, settings and logging; the read
side of the history (pages, periods, report texts); tables that are plain rows
(sessions, configuration, signals); the downloads and statistics of the market
data services. They are half of the source, have no state that others depend on
or are floating-point and text work without order. A large part of the rest is
there twice, since the worktree repeats the main tree's files: `TradeStore`, the
history service, the cache and the journal are modelled where they are first
read and not a second time. This is why a small share of all lines is named by
the modules, though most of the code that has control of its own is.

## 7. Where it could go

- Failing reads of the `trades` table in `TradeJournal`.
- The stop-loss and take-profit reasons, which need price levels.
