------------------------------ MODULE MarketScan ------------------------------
(***************************************************************************)
(* Scans and the snapshots they publish: orchestration/scan_orchestrator,  *)
(* core/market_state and the snapshot readers of mcp_server/adapters and   *)
(* charting/renderer.                                                      *)
(*                                                                         *)
(* A scan walks instruments and timeframes; for each it reads candles,     *)
(* analyses them and publishes one version of one snapshot.  Whatever      *)
(* fails on the way stays published.  The candle cache is external here    *)
(* and is what CandleCache shows it to be: its newest bar never goes back. *)
(***************************************************************************)
EXTENDS Integers, Sequences, FiniteSets

CONSTANTS
    Instruments,   \* SCAN_INSTRUMENTS, a sequence
    Timeframes,    \* SCAN_TIMEFRAMES, a sequence
    Retention,     \* snapshot_history_retention
    Scanners,      \* concurrent requests that scan or refresh
    Readers,       \* concurrent requests for one snapshot
    Named,         \* bound: the instruments single requests name
    MaxBar,        \* bound: candles of the broker
    MaxRequests,   \* bound: instruments asked for in all
    MaxFaults      \* bound: failures and restarts

ASSUME ScanType == /\ Instruments \in Seq(STRING) /\ Timeframes \in Seq(STRING)
                   /\ Len(Instruments) > 0 /\ Len(Timeframes) > 0
ASSUME NothingTwice ==
    /\ \A i, j \in 1 .. Len(Instruments) : Instruments[i] = Instruments[j] => i = j
    /\ \A i, j \in 1 .. Len(Timeframes) : Timeframes[i] = Timeframes[j] => i = j
ASSUME NamedAreScanned == Named \subseteq {Instruments[i] : i \in 1 .. Len(Instruments)}
ASSUME BoundsType == Retention \in Nat /\ MaxBar \in Nat /\ MaxRequests \in Nat /\ MaxFaults \in Nat

Workers == Scanners \union Readers

Keys == {Instruments[i] : i \in 1 .. Len(Instruments)} \X {Timeframes[i] : i \in 1 .. Len(Timeframes)}

VARIABLES
    cached,     \* [Keys -> newest cached candle, 0 if there is none]
    version,    \* _snapshot_versions
    history,    \* _snapshot_history: [Keys -> set of versioned snapshots]
    latest,     \* _latest_snapshots
    holder,     \* who holds AgentRuntime._state_lock (at most one)
    job,        \* what each request is doing, and what it answered
    asked,      \* instruments asked for so far
    faults      \* failures so far

store == <<version, history, latest>>
vars  == <<cached, store, holder, job, asked, faults>>

NoSnapshot == [version |-> 0, bar |-> 0, spread |-> "none"]
NoScan     == [scanned |-> {}, published |-> 0, errors |-> {}, skipped |-> FALSE]
Idle == [pc |-> "idle", kind |-> "none", todo |-> <<>>, frames |-> <<>>, force |-> FALSE, hours |-> FALSE,
         bar |-> 0, since |-> [k \in Keys |-> 0], done |-> NoScan, key |-> <<>>, seen |-> NoSnapshot]

EmptyStore ==
    /\ version = [k \in Keys |-> 0]
    /\ history = [k \in Keys |-> {}]
    /\ latest = [k \in Keys |-> NoSnapshot]

Init ==
    /\ cached \in [Keys -> {0, 1}]
    /\ EmptyStore
    /\ holder = {}
    /\ job = [w \in Workers |-> Idle]
    /\ asked = 0 /\ faults = 0

-----------------------------------------------------------------------------
(* core/market_state.py                                                    *)

(* What the bounded history keeps.                                         *)
Trim(versions) == {s \in versions : Cardinality({t \in versions : t.version > s.version}) <= Retention}

(* Seeded fault: the first version is dropped early.                       *)
PublishTrimmingOneMore(k, snapshot) ==
    LET v == version[k] + 1
        stored == [snapshot EXCEPT !.version = v]
    IN  /\ version' = [version EXCEPT ![k] = v]
        /\ latest' = [latest EXCEPT ![k] = stored]
        /\ history' = [history EXCEPT ![k] = Trim({s \in @ : s.version > 1} \union {stored})]

(* publish_snapshot: one more version; the oldest beyond the retention go. *)
Publish(k, snapshot) ==
    LET v == version[k] + 1
        stored == [snapshot EXCEPT !.version = v]
    IN  /\ version' = [version EXCEPT ![k] = v]
        /\ latest' = [latest EXCEPT ![k] = stored]
        /\ history' = [history EXCEPT ![k] = Trim(@ \union {stored})]

-----------------------------------------------------------------------------
(* orchestration/scan_orchestrator.py                                      *)

(* What scan_all, refresh_instrument and refresh_snapshot do on entering    *)
(* the lock: they look at the market hours.  "since" is a ghost: the       *)
(* versions the request found.                                             *)
Enter(w, request) ==
    /\ \E hours \in BOOLEAN :
          job' = [job EXCEPT ![w] = [request EXCEPT !.pc = "price", !.since = version, !.hours = hours, !.force = @ /\ ~hours]]
    /\ asked' = asked + Len(request.todo) /\ asked' <= MaxRequests
    /\ UNCHANGED <<cached, store, faults>>

(* Seeded fault: a request does not take the runtime lock.                 *)
BeginWithoutLock(w, request) == Enter(w, request) /\ UNCHANGED holder

(* AgentRuntime.run_blocking(write=True)                                   *)
Begin(w, request) ==
    /\ holder = {} /\ holder' = {w}
    /\ Enter(w, request)

ScanAll(w, force) ==
    /\ job[w].pc = "idle"
    /\ Begin(w, [Idle EXCEPT !.kind = "full", !.todo = Instruments, !.frames = Timeframes, !.force = force])

RefreshInstrument(w, i, force) ==
    /\ job[w].pc = "idle"
    /\ Begin(w, [Idle EXCEPT !.kind = "instrument", !.todo = <<i>>, !.frames = Timeframes, !.force = force])

RefreshSnapshot(w, i, t, force) ==
    /\ job[w].pc = "idle"
    /\ Begin(w, [Idle EXCEPT !.kind = "snapshot", !.todo = <<i>>, !.frames = <<t>>, !.force = force])

(* adapters._resolve_snapshot: the latest snapshot is read before the lock *)
(* is asked for, and served if the refresh comes back empty.               *)
AskSnapshot(w, i, t) ==
    /\ job[w].pc = "idle"
    /\ job' = [job EXCEPT ![w] = [Idle EXCEPT !.pc = "wait", !.kind = "resolve", !.todo = <<i>>, !.frames = <<t>>,
                                              !.key = <<i, t>>, !.seen = latest[<<i, t>>]]]
    /\ UNCHANGED <<cached, store, holder, asked, faults>>

ResolveSnapshot(w) == job[w].pc = "wait" /\ Begin(w, job[w])

(* ChartRenderer._resolve_snapshot reads it under the lock, and refreshes  *)
(* a snapshot that is stale.                                               *)
ChartSnapshot(w, i, t) ==
    /\ job[w].pc = "idle"
    /\ Begin(w, [Idle EXCEPT !.kind = "chart", !.todo = <<i>>, !.frames = <<t>>,
                             !.key = <<i, t>>, !.seen = latest[<<i, t>>]])

Instrument(w) == Head(job[w].todo)
Key(w)        == <<Instrument(w), Head(job[w].frames)>>
CacheOnly(w)  == ~job[w].hours /\ ~job[w].force

(* A request leaves the lock with last_scan_status (none if it raised) and *)
(* an answer (a snapshot, for a resolve or a chart).                       *)
Finish(w, status, answer) ==
    /\ job' = [job EXCEPT ![w] = [Idle EXCEPT !.pc = "answered", !.kind = job[w].kind, !.since = job[w].since,
                                              !.done = status, !.key = job[w].key, !.seen = answer]]
    /\ holder' = holder \ {w}

(* Seeded fault: a failed resolve falls back on what it read, too.         *)
RaiseWithFallback(w) == Finish(w, NoScan, job[w].seen)

(* A chart falls back on the snapshot it read; any other request raises.   *)
Raise(w) == Finish(w, NoScan, IF job[w].kind = "chart" THEN job[w].seen ELSE NoSnapshot)

Report(done) == [done EXCEPT !.skipped = @ /\ done.scanned = {} /\ done.errors = {}]

Reply(w) ==
    /\ job[w].pc = "answered"
    /\ job' = [job EXCEPT ![w] = Idle]
    /\ UNCHANGED <<cached, store, holder, asked, faults>>

(* What follows an instrument: the next one, or the end of the scan.       *)
NextInstrument(w, done) ==
    IF Len(job[w].todo) > 1
    THEN /\ job' = [job EXCEPT ![w].pc = "price", ![w].todo = Tail(@), ![w].frames = Timeframes, ![w].done = done]
         /\ UNCHANGED holder
    ELSE Finish(w, Report(done), job[w].seen)

(* Seeded fault: a skipped instrument counts as scanned.                   *)
SkipAsScanned(w) ==
    NextInstrument(w, [job[w].done EXCEPT !.scanned = @ \union {Instrument(w)}])

(* An exception ends the instrument in a full scan, and the request in any *)
(* other.                                                                  *)
Fail(w) ==
    IF job[w].kind = "full"
    THEN NextInstrument(w, [job[w].done EXCEPT !.errors = @ \union {Instrument(w)}])
    ELSE Raise(w)

(* market_closed_no_cache                                                  *)
Skip(w) == NextInstrument(w, [job[w].done EXCEPT !.skipped = TRUE])

(* get_current_price, for an open market only.                             *)
ReadPrice(w) ==
    /\ job[w].pc = "price"
    /\ \/ /\ job' = [job EXCEPT ![w].pc = "read"]
          /\ UNCHANGED <<holder, faults>>
       \/ /\ job[w].hours
          /\ faults < MaxFaults /\ faults' = faults + 1
          /\ Fail(w)
    /\ UNCHANGED <<cached, store, asked>>

(* get_cached_candles, or get_candles with what CandleCache may answer:    *)
(* the broker's newest candle, what was cached, or an exception.           *)
ReadCandles(w) ==
    /\ job[w].pc = "read"
    /\ \/ /\ CacheOnly(w) /\ cached[Key(w)] = 0
          /\ Skip(w)
          /\ UNCHANGED <<cached, faults>>
       \/ \E bar \in (IF CacheOnly(w) THEN {cached[Key(w)]} ELSE cached[Key(w)] .. MaxBar) \ {0} :
             /\ cached' = [cached EXCEPT ![Key(w)] = bar]
             /\ job' = [job EXCEPT ![w].pc = "publish", ![w].bar = bar]
             /\ UNCHANGED <<holder, faults>>
       \/ /\ faults < MaxFaults /\ faults' = faults + 1
          /\ Fail(w)
          /\ UNCHANGED cached
    /\ UNCHANGED <<store, asked>>

(* Seeded fault: the spread of a closed market is always synthesized.      *)
SpreadSynthesized(w) == IF job[w].hours THEN "live" ELSE "synthetic"

(* _closed_market_spread_context: the spread of the snapshot before, or    *)
(* bid and ask at the cached close.                                        *)
Spread(w) ==
    IF job[w].hours THEN "live"
    ELSE IF latest[Key(w)] # NoSnapshot THEN latest[Key(w)].spread ELSE "synthetic"

(* The instrument counts as scanned once all its frames are published.     *)
Scanned(w) == [job[w].done EXCEPT !.scanned = @ \union {Instrument(w)},
                  !.published = @ + (IF job[w].kind \in {"full", "instrument"} THEN Len(Timeframes) ELSE 1)]

(* The detectors, publish_snapshot and what the scan does next.            *)
PublishSnapshot(w) ==
    /\ job[w].pc = "publish"
    /\ \/ /\ faults < MaxFaults /\ faults' = faults + 1
          /\ Fail(w)
          /\ UNCHANGED store
       \/ /\ Publish(Key(w), [NoSnapshot EXCEPT !.bar = job[w].bar, !.spread = Spread(w)])
          /\ \/ /\ Len(job[w].frames) > 1
                /\ job' = [job EXCEPT ![w].pc = "read", ![w].frames = Tail(@)]
                /\ UNCHANGED holder
             \/ /\ Len(job[w].frames) = 1 /\ Len(job[w].todo) > 1
                /\ NextInstrument(w, Scanned(w))
             \/ /\ Len(job[w].frames) = 1 /\ Len(job[w].todo) = 1
                /\ Finish(w, Report(Scanned(w)), IF job[w].key = <<>> THEN NoSnapshot ELSE latest'[job[w].key])
          /\ UNCHANGED faults
    /\ UNCHANGED <<cached, asked>>

(* The process is restarted: the store is in memory, the cache on disk.    *)
Restart ==
    /\ faults < MaxFaults /\ faults' = faults + 1
    /\ version' = [k \in Keys |-> 0]
    /\ history' = [k \in Keys |-> {}]
    /\ latest' = [k \in Keys |-> NoSnapshot]
    /\ holder' = {} /\ job' = [w \in Workers |-> Idle]
    /\ UNCHANGED <<cached, asked>>

-----------------------------------------------------------------------------
ScanStep(w) == ReadPrice(w) \/ ReadCandles(w) \/ PublishSnapshot(w) \/ Reply(w)

Next ==
    \/ Restart
    \/ \E w \in Scanners, force \in BOOLEAN :
          \/ ScanAll(w, force)
          \/ \E i \in Named : RefreshInstrument(w, i, force)
          \/ \E i \in Named, t \in 1 .. Len(Timeframes) : RefreshSnapshot(w, i, Timeframes[t], force)
    \/ \E w \in Readers :
          \/ \E i \in Named, t \in 1 .. Len(Timeframes) : AskSnapshot(w, i, Timeframes[t])
          \/ \E i \in Named, t \in 1 .. Len(Timeframes) : ChartSnapshot(w, i, Timeframes[t])
          \/ ResolveSnapshot(w)
    \/ \E w \in Workers : ScanStep(w)

Spec == Init /\ [][Next]_vars

-----------------------------------------------------------------------------
(* Properties                                                              *)

Snapshots == [version : 0 .. MaxRequests, bar : 0 .. MaxBar, spread : {"none", "live", "synthetic"}]

(* Every variable keeps its shape, the lock has at most one holder, and    *)
(* whoever works holds it.                                                 *)
TypeOK ==
    /\ asked \in 0 .. MaxRequests /\ faults \in 0 .. MaxFaults
    /\ cached \in [Keys -> 0 .. MaxBar]
    /\ version \in [Keys -> 0 .. MaxRequests]
    /\ latest \in [Keys -> Snapshots]
    /\ \A k \in Keys : history[k] \subseteq Snapshots
    /\ Cardinality(holder) <= 1
    /\ \A w \in Workers : w \in holder <=> job[w].pc \in {"price", "read", "publish"}

(* A pinned version can be read until Retention newer ones exist, the      *)
(* newest is the latest snapshot, and versions have no gap: what           *)
(* get_snapshot_version promises whoever kept a version.                   *)
PinnedWindow ==
    \A k \in Keys :
        LET kept == IF version[k] > Retention + 1 THEN Retention + 1 ELSE version[k]
        IN  /\ {s.version : s \in history[k]} = (version[k] - kept + 1) .. version[k]
            /\ Cardinality(history[k]) = kept
            /\ version[k] > 0 => latest[k] \in history[k] /\ latest[k].version = version[k]

(* A newer version never shows an older candle, whatever scans, forced     *)
(* refreshes and failures came between: readers take the latest version    *)
(* for the newest state of the market.                                     *)
BarsNeverGoBack ==
    [][\A k \in Keys : version'[k] > version[k] => latest'[k].bar >= latest[k].bar]_vars

(* A scan reports an instrument as scanned only if it published every      *)
(* timeframe of it, and counts exactly what the scanned ones published.    *)
ScannedMeansAll ==
    [][\A w \in Workers : job[w].pc # "answered" /\ job'[w].pc = "answered" =>
          LET done == job'[w].done
              made == {k \in Keys : k[1] \in done.scanned /\ version'[k] > job[w].since[k]}
          IN  /\ done.published = Cardinality(made)
              /\ job[w].kind \in {"full", "instrument"} => made = {k \in Keys : k[1] \in done.scanned}]_vars

(* A resolve that had to wait for the lock, or a chart whose refresh       *)
(* failed, never answers with an older candle than is published by then,   *)
(* though both fall back on a snapshot read earlier.                       *)
AnswersAreNewest ==
    [][\A w \in Workers :
          job[w].pc # "answered" /\ job'[w].pc = "answered" /\ job'[w].seen # NoSnapshot
          => job'[w].seen.bar >= latest'[job'[w].key].bar]_vars

(* A live spread is never replaced by one made up from a close.            *)
LiveSpreadKept ==
    [][\A k \in Keys : latest[k].spread = "live" /\ version'[k] > 0 => latest'[k].spread = "live"]_vars
=============================================================================
