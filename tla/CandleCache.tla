----------------------------- MODULE CandleCache -----------------------------
(***************************************************************************)
(* The three-level candle cache of providers/cache.py for one instrument   *)
(* and timeframe, with the fetcher of providers/oanda.py, the file of      *)
(* data/csv_persistence.py and the boundary rules of core/candle_policy.py.*)
(*                                                                         *)
(* A candle is named by its bar.  BarStart gives the bars their starts on  *)
(* the provider's alignment; a bar need not last Delta, the nominal        *)
(* duration the policy computes with (the daily bar of an instrument that  *)
(* trades through the weekend lasts 23 or 25 hours when the New York clock *)
(* changes).  The file and the metadata record are two durable writes; the *)
(* process may die between them and a write of the record may fail without *)
(* anybody noticing.                                                       *)
(***************************************************************************)
EXTENDS Integers, FiniteSets

CONSTANTS
    Bars,        \* bound: bars of the timeframe
    BarStart,    \* [1 .. Bars + 1 -> Nat]: where each begins; the last ends time
    Delta,       \* get_timeframe_delta
    Traded,      \* bars in which the market is open
    Workers,     \* concurrent MCP requests
    Counts,      \* candle counts they ask for
    MaxCount,    \* OANDA_MAX_CANDLE_COUNT
    PageSize,    \* candles the broker sends for a request by start time
    ClockLag,    \* how far the local clock may be behind the broker's
    MaxFaults    \* bound: failed requests, failed writes and crashes

ASSUME BarsType == /\ Bars \in Nat \ {0}
                   /\ BarStart \in [1 .. Bars + 1 -> Nat]
                   /\ \A b \in 1 .. Bars : BarStart[b] < BarStart[b + 1]
                   /\ BarStart[1] = 0
ASSUME TwoBarsOutlastDelta == \A b \in 1 .. Bars - 1 : BarStart[b] + Delta < BarStart[b + 2]
ASSUME TradedType == Traded \subseteq 1 .. Bars
ASSUME CountsType == /\ MaxCount \in Nat \ {0} /\ PageSize \in Nat \ {0}
                     /\ Counts \subseteq 1 .. MaxCount
ASSUME PolicyType == Delta \in Nat \ {0} /\ ClockLag \in Nat /\ MaxFaults \in Nat

VARIABLES
    now,      \* the local clock
    closed,   \* bars the broker has marked complete: 1 .. closed
    csv,      \* bars in the CSV file, {} if there is none
    meta,     \* the cache_metadata record, or NoMeta
    memory,   \* the in-memory entry, or NoEntry
    holder,   \* who holds AgentRuntime._state_lock (at most one)
    job,      \* what each request is doing
    answer,   \* the last candles a request was given
    faults    \* failures so far

vars == <<now, closed, csv, meta, memory, holder, job, answer, faults>>

NoMeta  == [count |-> 0, last |-> 0]
NoEntry == [frame |-> {}, count |-> 0]
Idle    == [pc |-> "idle", count |-> 0, existing |-> {}, since |-> 0, frame |-> {}]
NoAnswer == [frame |-> {}, count |-> 0, seen |-> {}]

Init ==
    /\ now = 0 /\ closed = 0
    /\ csv = {} /\ meta = NoMeta /\ memory = NoEntry
    /\ holder = {}
    /\ job = [w \in Workers |-> Idle]
    /\ answer = NoAnswer
    /\ faults = 0

-----------------------------------------------------------------------------
(* core/candle_policy.py                                                   *)

Newest(f) == CHOOSE b \in f : \A c \in f : c <= b

(* The bar a time falls in, and floor_time_to_boundary: the policy counts  *)
(* slots of length Delta from the anchor, and sees two in a long bar.      *)
BarAt(t)   == Newest({b \in 1 .. Bars : BarStart[b] <= t})
FloorTime(t) == LET anchor == BarStart[BarAt(t)] IN anchor + ((t - anchor) \div Delta) * Delta

(* get_last_completed_candle_start                                         *)
LastCompletedStart == FloorTime(now) - Delta

(* Seeded fault: the boundary itself counts as stale.                      *)
IsFreshStrict(last) == BarStart[last] > LastCompletedStart

(* calculate_candle_staleness_seconds is zero                              *)
IsFresh(last) == BarStart[last] >= LastCompletedStart

TrimToClosed(f) == {b \in f : BarStart[b] + Delta <= now}

(* Seeded fault: the oldest candles are served instead of the newest.      *)
HeadForTail(f, n) == {b \in f : Cardinality({c \in f : c < b}) < n}

(* DataFrame.tail and the first page of a response.                        *)
Tail(f, n)      == {b \in f : Cardinality({c \in f : b < c}) < n}
FirstPage(f, n) == {b \in f : Cardinality({c \in f : c < b}) < n}

-----------------------------------------------------------------------------
(* The broker and the clock (external)                                     *)

(* Bars the broker sends: complete ones, and the one that is forming if it *)
(* has seen a price.                                                       *)
Complete == {b \in Traded : b <= closed}
Forming  == SUBSET {b \in Traded : b = closed + 1 /\ BarStart[b] <= now + ClockLag}

Tick ==
    /\ now + 1 < BarStart[Bars + 1]
    /\ now' = now + 1
    /\ UNCHANGED <<closed, csv, meta, memory, holder, job, answer, faults>>

(* The broker marks a bar complete at its end or a little later.           *)
BrokerCloses ==
    /\ closed < Bars
    /\ BarStart[closed + 2] <= now + ClockLag
    /\ closed' = closed + 1
    /\ UNCHANGED <<now, csv, meta, memory, holder, job, answer, faults>>

(* Seeded fault: the payload of a request by start skips a bar.            *)
SincePayloadSkips(t, sent) == FirstPage({b \in sent : BarStart[b] >= t + Delta}, PageSize)

(* _request_candles_payload without and with a start: the last count + 1   *)
(* candles, at most MaxCount, or the first page from the start, with the   *)
(* candle that covers it.                                                  *)
LatestPayload(n, sent) == Tail(sent, IF n + 1 <= MaxCount THEN n + 1 ELSE MaxCount)
SincePayload(t, sent)  == FirstPage({b \in sent : t < BarStart[b + 1]}, PageSize)

-----------------------------------------------------------------------------
(* providers/cache.py                                                      *)

(* A request returns: run_blocking releases the lock.                      *)
Return(w, f, n, seen) ==
    /\ answer' = [frame |-> Tail(f, n), count |-> n, seen |-> seen]
    /\ job' = [job EXCEPT ![w] = Idle]
    /\ holder' = holder \ {w}

Raise(w) ==
    /\ job' = [job EXCEPT ![w] = Idle]
    /\ holder' = holder \ {w}
    /\ answer' = NoAnswer

FetchAll(w, n) == job' = [job EXCEPT ![w] = [Idle EXCEPT !.pc = "replace", !.count = n]]

FetchSince(w, n, f) ==
    job' = [job EXCEPT ![w] =
        [Idle EXCEPT !.pc = "append", !.count = n, !.existing = f, !.since = BarStart[Newest(f)] + Delta]]

(* The tail of get_candles, the same for an entry of memory and of the     *)
(* file: serve it, replace it if it is fresh and too short, or append.     *)
Resolve(w, n, entry) ==
    \/ /\ IsFresh(Newest(entry.frame)) /\ entry.count >= n
       /\ Return(w, entry.frame, n, memory.frame)
    \/ /\ IsFresh(Newest(entry.frame)) /\ entry.count < n
       /\ FetchAll(w, n)
       /\ UNCHANGED <<holder, answer>>
    \/ /\ ~IsFresh(Newest(entry.frame))
       /\ FetchSince(w, n, entry.frame)
       /\ UNCHANGED <<holder, answer>>

(* get_candles up to its memory lookup, in a thread that holds the lock.   *)
GetCandles(w, n) ==
    /\ holder = {} /\ job[w].pc = "idle"
    /\ holder' = {w}
    /\ job' = [job EXCEPT ![w] = [Idle EXCEPT !.pc = "lookup", !.count = n]]
    /\ UNCHANGED <<now, closed, csv, meta, memory, answer, faults>>

LookupMemory(w) ==
    /\ job[w].pc = "lookup"
    /\ IF memory # NoEntry
       THEN Resolve(w, job[w].count, memory)
       ELSE job' = [job EXCEPT ![w].pc = "csv"] /\ UNCHANGED <<holder, answer>>
    /\ UNCHANGED <<now, closed, csv, meta, memory, faults>>

(* _load_csv_entry: the candles of the file with the count of the record.  *)
(* A record that is missing, or whose read failed, is written anew from    *)
(* the file; that write may fail too.                                      *)
CsvEntry(m) == [frame |-> csv, count |-> IF m = NoMeta THEN Cardinality(csv) ELSE m.count]

Bootstrap(m) == IF m = NoMeta THEN [count |-> Cardinality(csv), last |-> Newest(csv)] ELSE meta

ReadMeta == {meta} \union (IF faults < MaxFaults THEN {NoMeta} ELSE {})

LookupCsv(w) ==
    /\ job[w].pc = "csv"
    /\ \/ /\ csv = {}
          /\ FetchAll(w, job[w].count)
          /\ UNCHANGED <<meta, memory, holder, answer, faults>>
       \/ \E m \in ReadMeta :
             /\ csv # {}
             /\ meta' \in {meta, Bootstrap(m)}
             /\ faults' = IF m # meta \/ meta' # Bootstrap(m) THEN faults + 1 ELSE faults
             /\ faults' <= MaxFaults
             /\ memory' = CsvEntry(m)
             /\ Resolve(w, job[w].count, CsvEntry(m))
    /\ UNCHANGED <<now, closed, csv>>

(* Seeded fault: the candles of a refresh are served and not kept.         *)
FetchNewerForgets(w) ==
    /\ job[w].pc = "append"
    /\ LET newer == TrimToClosed(SincePayload(job[w].since, Complete))
       IN  IF newer = {} THEN Raise(w) ELSE Return(w, job[w].existing \union newer, job[w].count, memory.frame)
    /\ UNCHANGED <<now, closed, csv, meta, memory, faults>>

(* _fetch_candles_from_api and what its callers make of the answer: an     *)
(* empty payload raises; a payload without a complete candle is an empty   *)
(* answer to a request by start and raises otherwise; nothing left after   *)
(* trimming raises.                                                        *)
FetchReplacement(w) ==
    /\ job[w].pc = "replace"
    /\ \E forming \in Forming :
          LET kept == TrimToClosed(LatestPayload(job[w].count, Complete \union forming) \intersect Complete)
          IN  IF kept = {} THEN Raise(w)
              ELSE /\ job' = [job EXCEPT ![w].pc = "csv_write", ![w].frame = kept]
                   /\ UNCHANGED <<holder, answer>>
    /\ UNCHANGED <<now, closed, csv, meta, memory, faults>>

FetchNewer(w) ==
    /\ job[w].pc = "append"
    /\ \E forming \in Forming :
          LET payload == SincePayload(job[w].since, Complete \union forming)
              newer   == payload \intersect Complete
              kept    == TrimToClosed(newer)
          IN  \/ /\ payload # {} /\ newer = {}
                 /\ Return(w, job[w].existing, job[w].count, memory.frame)
              \/ /\ payload = {} \/ (newer # {} /\ kept = {})
                 /\ Raise(w)
              \/ /\ kept # {}
                 /\ job' = [job EXCEPT ![w].pc = "csv_write", ![w].frame = job[w].existing \union kept]
                 /\ UNCHANGED <<holder, answer>>
    /\ UNCHANGED <<now, closed, csv, meta, memory, faults>>

(* Seeded fault: the record is written before the file.                    *)
SaveCsvAfterMeta(w) ==
    /\ job[w].pc = "csv_write"
    /\ meta' = [count |-> Cardinality(job[w].frame), last |-> Newest(job[w].frame)]
    /\ job' = [job EXCEPT ![w].pc = "meta_write"]
    /\ UNCHANGED <<now, closed, csv, memory, holder, answer, faults>>

(* save_candles: written beside the file and moved over it.                *)
SaveCsv(w) ==
    /\ job[w].pc = "csv_write"
    /\ csv' = job[w].frame
    /\ job' = [job EXCEPT ![w].pc = "meta_write"]
    /\ UNCHANGED <<now, closed, meta, memory, holder, answer, faults>>

(* upsert_cache_metadata does not raise when it fails; the entry enters    *)
(* memory either way.                                                      *)
SaveMeta(w) ==
    /\ job[w].pc = "meta_write"
    /\ LET written == [count |-> Cardinality(job[w].frame), last |-> Newest(job[w].frame)]
       IN  \/ meta' = written /\ UNCHANGED faults
           \/ UNCHANGED meta /\ faults < MaxFaults /\ faults' = faults + 1
    /\ memory' = [frame |-> job[w].frame, count |-> Cardinality(job[w].frame)]
    /\ Return(w, job[w].frame, job[w].count, memory.frame)
    /\ UNCHANGED <<now, closed, csv>>

(* get_cached_candles: memory, then the file if it has a record; never the *)
(* broker.  A scan of a closed market calls it.                            *)
GetCached(w, n) ==
    /\ holder = {} /\ job[w].pc = "idle"
    /\ \/ /\ memory # NoEntry
          /\ answer' = [frame |-> Tail(memory.frame, n), count |-> n, seen |-> memory.frame]
          /\ UNCHANGED memory
       \/ /\ memory = NoEntry /\ csv # {} /\ meta # NoMeta
          /\ memory' = CsvEntry(meta)
          /\ answer' = [frame |-> Tail(csv, n), count |-> n, seen |-> {}]
    /\ UNCHANGED <<now, closed, csv, meta, holder, job, faults>>

(* get_candle_freshness, read without the lock.                            *)
Freshness == IF memory # NoEntry THEN [count |-> memory.count, last |-> Newest(memory.frame)] ELSE meta

-----------------------------------------------------------------------------
(* Failures                                                                *)

(* A request to the broker raises, or the file cannot be written.          *)
Fail(w) ==
    /\ job[w].pc \in {"replace", "append", "csv_write"}
    /\ faults < MaxFaults /\ faults' = faults + 1
    /\ Raise(w)
    /\ UNCHANGED <<now, closed, csv, meta, memory>>

(* The process dies and is started again: memory and requests are gone.    *)
Crash ==
    /\ faults < MaxFaults /\ faults' = faults + 1
    /\ memory' = NoEntry
    /\ holder' = {} /\ job' = [w \in Workers |-> Idle]
    /\ answer' = NoAnswer
    /\ UNCHANGED <<now, closed, csv, meta>>

-----------------------------------------------------------------------------
RequestStep(w) ==
    \/ LookupMemory(w) \/ LookupCsv(w) \/ FetchReplacement(w) \/ FetchNewer(w)
    \/ SaveCsv(w) \/ SaveMeta(w)

Next ==
    \/ Tick \/ BrokerCloses \/ Crash
    \/ \E w \in Workers :
          \/ \E n \in Counts : GetCandles(w, n) \/ GetCached(w, n)
          \/ RequestStep(w) \/ Fail(w)

Spec == Init /\ [][Next]_vars

(* Threads are scheduled, so that a request that has begun goes on; and    *)
(* clients keep asking, of a market that goes on.                          *)
PollingSpec ==
    /\ Spec
    /\ \A w \in Workers : WF_vars(RequestStep(w))
    /\ WF_vars(Tick) /\ WF_vars(BrokerCloses)
    /\ \A w \in Workers, n \in Counts : SF_vars(GetCandles(w, n))

-----------------------------------------------------------------------------
(* Properties                                                              *)

Frames == {f \in SUBSET Traded : \A b \in f : b <= closed}

(* The state is well typed; every frame holds closed candles only.         *)
TypeOK ==
    /\ now \in Nat /\ closed \in 0 .. Bars
    /\ csv \in Frames
    /\ meta \in [count : Nat, last : 0 .. Bars]
    /\ memory \in [frame : Frames, count : Nat]
    /\ holder \subseteq Workers
    /\ job \in [Workers -> [pc : {"idle", "lookup", "csv", "replace", "append", "csv_write", "meta_write"},
                            count : Nat, existing : Frames, since : Nat, frame : Frames]]
    /\ answer \in [frame : Frames, count : Nat, seen : Frames]
    /\ faults \in Nat

(* The file is a gapless, forward-moving window of the broker's candles    *)
(* whatever fails and wherever the process dies: appending from the last   *)
(* cached bar never leaves a hole (cache.py:229).                          *)
Window == INSTANCE CandleWindow WITH closed <- closed, window <- csv
KeepsWindow == Window!Spec

(* A request for the broker's maximum leaves no room in the response for   *)
(* the candle that is forming (oanda.py:268), and the local clock may cut  *)
(* another: it may replace a file one candle short of the maximum by one   *)
(* that is two short.                                                      *)
NotAbove(c, d) == c <= d \/ (MaxCount \in Counts /\ c = MaxCount - 1 /\ d = MaxCount - 2)

(* get_candle_freshness, and the count a restarted process goes by, never  *)
(* promise more than the file holds, that one candle apart, whichever of   *)
(* the two writes failed or was not reached (cache.py:320,                 *)
(* trade_store.py:358).                                                    *)
ReportBacked ==
    LET report == Freshness
    IN  report # NoMeta =>
           csv # {} /\ NotAbove(report.count, Cardinality(csv)) /\ report.last <= Newest(csv)

(* What a request is served never ends before what memory held when it     *)
(* was answered: nobody is sent back in time by an older refresh.          *)
NeverServedOlder == answer.frame # {} => Window!ReachesAsFar(answer.frame, answer.seen)

(* The boundary rule says fresh exactly if the newest completed bar is     *)
(* cached (is_cache_fresh, cache.py:46): no bar is refetched that is there,*)
(* none that is missing is overlooked.                                     *)
FreshMeansNewest ==
    memory # NoEntry /\ BarAt(now) > 1 =>
        (IsFresh(Newest(memory.frame)) <=> BarAt(now) - 1 <= Newest(memory.frame))

Ends(w) == job[w].pc # "idle" /\ job'[w].pc = "idle" /\ faults' = faults

(* If somebody keeps asking and requests stop failing, the file catches up *)
(* with the broker's last candle, however far it had fallen behind and     *)
(* however few candles one response carries.                               *)
CatchesUp == <>[](\A b \in Traded : b < Bars => \E c \in csv : b <= c)
=============================================================================
