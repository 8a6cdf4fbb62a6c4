----------------------------- MODULE BundleScan -----------------------------
(***************************************************************************)
(* The scans of the worktree, which bundle what they publish: its          *)
(* orchestration/scan_orchestrator and core/market_state, for one          *)
(* instrument.  The bot runs the scheduled scan, /scan and the refresh of  *)
(* a chart in threads of their own with no lock around a scan: only single *)
(* calls of the store are atomic.  A bundle pins the snapshot version of   *)
(* every timeframe and carries a bias computed from the candles of some.   *)
(***************************************************************************)
EXTENDS Integers, Sequences

CONSTANTS
    ScanFrames,      \* SCAN_TIMEFRAMES, a sequence
    BiasFrames,      \* HTF_TIMEFRAMES
    KeptVersions,    \* snapshot_history_retention
    ScanThreads,     \* threads that scan
    MaxCandle,       \* bound: candles of the broker
    MaxScans,        \* bound: scans and refreshes
    MaxScanFaults    \* bound: failed requests and detectors

Frames == {ScanFrames[i] : i \in DOMAIN ScanFrames}

ASSUME FramesType == ScanFrames \in Seq(Frames) \ {<<>>} /\ BiasFrames \subseteq Frames /\ KeptVersions \in Nat

VARIABLES
    newest,      \* [Frames -> the broker's newest closed candle]
    entry,       \* [Frames -> newest candle of the cache's memory entry, 0 if none]
    versions,    \* _snapshot_versions
    published,   \* _snapshot_history: [Frames -> set of versioned snapshots]
    bundle,      \* _bundles of the instrument, or NoBundle
    scan,        \* [ScanThreads -> what the thread is doing]
    scans, scanFaults

bundleVars == <<newest, entry, versions, published, bundle, scan, scans, scanFaults>>
storeVars  == <<versions, published, bundle>>

NoPins   == [f \in Frames |-> 0]
NoBundle == [version |-> 0, members |-> NoPins, lags |-> NoPins, bias |-> [f \in BiasFrames |-> 0]]
NotScanning == [pc |-> "idle", todo |-> <<>>, whole |-> FALSE, cacheOnly |-> FALSE,
                bar |-> 0, lag |-> 0, pins |-> NoPins, bars |-> NoPins]

BInit ==
    /\ newest = [f \in Frames |-> 1]
    /\ entry \in [Frames -> {0, 1}]
    /\ versions = NoPins
    /\ published = [f \in Frames |-> {}]
    /\ bundle = NoBundle
    /\ scan = [w \in ScanThreads |-> NotScanning]
    /\ scans = 0 /\ scanFaults = 0

-----------------------------------------------------------------------------
(* The broker closes a candle (external).                                  *)
CandleCloses(f) ==
    /\ newest[f] < MaxCandle
    /\ newest' = [newest EXCEPT ![f] = @ + 1]
    /\ UNCHANGED <<entry, storeVars, scan, scans, scanFaults>>

(* The newest snapshot of a timeframe, if there is one.                    *)
Latest(f) == {s \in published[f] : s.version = versions[f]}

StartScan(w, todo, whole, cacheOnly) ==
    /\ scan[w] = NotScanning
    /\ scans < MaxScans /\ scans' = scans + 1
    /\ scan' = [scan EXCEPT ![w] = [NotScanning EXCEPT !.pc = "price", !.todo = todo, !.whole = whole,
                                                       !.cacheOnly = cacheOnly]]
    /\ UNCHANGED <<newest, entry, storeVars, scanFaults>>

(* scan_all and refresh_instrument reach every timeframe; a closed market  *)
(* that is not forced is scanned from the cache only.                      *)
ScanInstrument(w) == \E cacheOnly \in BOOLEAN : StartScan(w, ScanFrames, TRUE, cacheOnly)

(* The renderer refreshes a snapshot that is missing or stale.             *)
RefreshChart(w, f) ==
    /\ \A s \in Latest(f) : s.lag > 0
    /\ \E cacheOnly \in BOOLEAN : StartScan(w, <<f>>, FALSE, cacheOnly)

NextFrame(w) == Head(scan[w].todo)
Goes(w, pc)  == scan' = [scan EXCEPT ![w].pc = pc]

(* An exception, or market_closed_no_cache: what is published stays.       *)
Stops(w) == scan' = [scan EXCEPT ![w] = NotScanning]

Fails(w) == scanFaults < MaxScanFaults /\ scanFaults' = scanFaults + 1 /\ Stops(w)

(* get_current_price                                                       *)
PriceRead(w) ==
    /\ scan[w].pc = "price"
    /\ \/ Goes(w, "read") /\ UNCHANGED scanFaults
       \/ Fails(w) /\ ~scan[w].cacheOnly
    /\ UNCHANGED <<newest, entry, storeVars, scans>>

(* get_cached_candles, or get_candles of an entry that is fresh: served    *)
(* from memory.  Otherwise a request goes out for what the entry lacks.    *)
CandlesRead(w) ==
    LET f == NextFrame(w)
    IN  /\ scan[w].pc = "read"
        /\ \/ /\ scan[w].cacheOnly /\ entry[f] = 0
              /\ Stops(w)
           \/ /\ entry[f] > 0 /\ (scan[w].cacheOnly \/ entry[f] = newest[f])
              /\ scan' = [scan EXCEPT ![w].pc = "check", ![w].bar = entry[f]]
           \/ /\ ~scan[w].cacheOnly /\ entry[f] < newest[f]
              /\ Goes(w, "fetch")
        /\ UNCHANGED <<newest, entry, storeVars, scans, scanFaults>>

(* The broker answers, or the request fails.                               *)
CandlesFetched(w) ==
    /\ scan[w].pc = "fetch"
    /\ \/ scan' = [scan EXCEPT ![w].pc = "persist", ![w].bar = newest[NextFrame(w)]] /\ UNCHANGED scanFaults
       \/ Fails(w)
    /\ UNCHANGED <<newest, entry, storeVars, scans>>

(* _persist_entry replaces the entry, a newer one that another thread put  *)
(* there meanwhile too.                                                    *)
EntryPersisted(w) ==
    /\ scan[w].pc = "persist"
    /\ entry' = [entry EXCEPT ![NextFrame(w)] = scan[w].bar]
    /\ Goes(w, "check")
    /\ UNCHANGED <<newest, storeVars, scans, scanFaults>>

(* _build_snapshot_freshness: what the cache says of its entry must be     *)
(* about the candles that were read.                                       *)
FreshnessRead(w) ==
    LET f == NextFrame(w)
    IN  /\ scan[w].pc = "check"
        /\ IF entry[f] = scan[w].bar
             THEN scan' = [scan EXCEPT ![w].pc = "publish", ![w].lag = newest[f] - entry[f]]
             ELSE Stops(w)
        /\ UNCHANGED <<newest, entry, storeVars, scans, scanFaults>>

(* The bounded history of a timeframe: its oldest versions go.             *)
KeepNewest(snaps, v) == {s \in snaps : v - s.version <= KeptVersions}

(* The detectors, publish_snapshot, and the next timeframe or the bundle.  *)
SnapshotPublished(w) ==
    LET f == NextFrame(w)
        v == versions[f] + 1
        rest == Tail(scan[w].todo)
    IN  /\ scan[w].pc = "publish"
        /\ \/ /\ versions' = [versions EXCEPT ![f] = v]
              /\ published' = [published EXCEPT ![f] = KeepNewest(@ \union
                                  {[version |-> v, bar |-> scan[w].bar, lag |-> scan[w].lag]}, v)]
              /\ IF rest = <<>> /\ ~scan[w].whole
                   THEN Stops(w)
                   ELSE scan' = [scan EXCEPT ![w].todo = rest, ![w].pins[f] = v, ![w].bars[f] = scan[w].bar,
                                             ![w].pc = IF rest = <<>> THEN "bundle" ELSE "read"]
              /\ UNCHANGED scanFaults
           \/ Fails(w) /\ UNCHANGED <<versions, published>>
        /\ UNCHANGED <<newest, entry, bundle, scans>>

Pinned(f, v) == {s \in published[f] : s.version = v}

BundleOf(members, bars) ==
    [version |-> bundle.version + 1, members |-> members,
     lags |-> [f \in Frames |-> (CHOOSE s \in Pinned(f, members[f]) : TRUE).lag],
     bias |-> [f \in BiasFrames |-> bars[f]]]

(* Seeded fault: the bundle is assembled from the latest snapshots, as     *)
(* assemble_bundle does.                                                   *)
AssembleFromLatest(members, bars) ==
    /\ \A f \in Frames : Latest(f) # {}
    /\ bundle' = BundleOf(versions, bars)

(* assemble_bundle_from_versions: every pinned version must still be kept, *)
(* and lends the bundle its freshness; mixed_freshness and the stalest     *)
(* timeframe follow from it.                                               *)
AssembleFromVersions(members, bars) ==
    /\ \A f \in Frames : Pinned(f, members[f]) # {}
    /\ bundle' = BundleOf(members, bars)

(* The bias, then the bundle.  A KeyError ends the scan.                   *)
BundlePublished(w) ==
    /\ scan[w].pc = "bundle"
    /\ \/ AssembleFromVersions(scan[w].pins, scan[w].bars) /\ Stops(w) /\ UNCHANGED scanFaults
       \/ /\ \E f \in Frames : Pinned(f, scan[w].pins[f]) = {}
          /\ Stops(w) /\ UNCHANGED <<bundle, scanFaults>>
       \/ Fails(w) /\ UNCHANGED bundle
    /\ UNCHANGED <<newest, entry, versions, published, scans>>

BNext ==
    \/ \E f \in Frames : CandleCloses(f)
    \/ \E w \in ScanThreads :
          \/ ScanInstrument(w)
          \/ \E f \in Frames : RefreshChart(w, f)
          \/ PriceRead(w) \/ CandlesRead(w) \/ CandlesFetched(w) \/ EntryPersisted(w)
          \/ FreshnessRead(w) \/ SnapshotPublished(w) \/ BundlePublished(w)

BSpec == BInit /\ [][BNext]_bundleVars

-----------------------------------------------------------------------------
(* A bundle hangs together however many threads publish meanwhile: each    *)
(* member can be read until KeptVersions newer ones exist, and is the very *)
(* snapshot whose candles the bias was computed from and whose freshness   *)
(* the bundle reports.                                                     *)
BundleHangsTogether ==
    bundle # NoBundle =>
        \A f \in Frames :
            versions[f] - bundle.members[f] <= KeptVersions =>
                \E s \in Pinned(f, bundle.members[f]) :
                    /\ s.lag = bundle.lags[f]
                    /\ f \in BiasFrames => s.bar = bundle.bias[f]
=============================================================================
