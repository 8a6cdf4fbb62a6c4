------------------------------ MODULE Excursions ------------------------------
(***************************************************************************)
(* Excursion samples of open trades: the tick consumer that stores a       *)
(* sample when a trade moved far enough since the last one it wrote        *)
(* (tracking/excursion_tracker.py), the samples table                      *)
(* (data/persistence/trade_store.py), and the report that replays the      *)
(* broker's one-minute candles of an open trade or falls back to the       *)
(* samples (journal/mae_mfe_service.py).  Prices are whole pips.           *)
(***************************************************************************)
EXTENDS Integers, FiniteSets

CONSTANTS
    Trades,        \* trade ids
    MinMove,       \* mae_mfe_min_pip_move
    Spread,        \* ask less bid
    MaxBid,        \* bound on the bid
    MaxMinute,     \* bound on the clock
    MaxHandled,    \* bound on the ticks handled
    MaxLost        \* bound on failed reads, writes and restarts

ASSUME ExcursionAssumption ==
    /\ MinMove \in Nat /\ MinMove > 0
    /\ Spread \in Nat /\ MaxBid \in Nat /\ MaxMinute \in Nat

VARIABLES
    minute, bid,
    candles,       \* minute -> the lowest and highest bid the broker saw in it
    trade,         \* trade id -> [state, side, price, minute] in the journal
    tracker,       \* the consumer: [pc, bid, minute, todo]
    lastWritten,   \* trade id -> the sample the process wrote last, or NoSample
    samples,       \* trade id -> stored samples
    handled,       \* trade id -> excursions the tracker took (history)
    ticks, lost

excursionVars == <<minute, bid, candles, trade, tracker, lastWritten, samples, handled, ticks, lost>>

NoSample == [adverse |-> -1, favorable |-> -1, minute |-> -1]
Waiting  == [pc |-> "idle", bid |-> 0, minute |-> 0, todo |-> {}]

EInit ==
    /\ minute = 0 /\ bid \in 1 .. MaxBid
    /\ candles = [m \in 0 .. MaxMinute |-> [low |-> bid, high |-> bid]]
    /\ trade = [t \in Trades |-> [state |-> "NONE", side |-> "LONG", price |-> 0, minute |-> 0]]
    /\ tracker = Waiting
    /\ lastWritten = [t \in Trades |-> NoSample]
    /\ samples = [t \in Trades |-> {}] /\ handled = [t \in Trades |-> {}]
    /\ ticks = 0 /\ lost = 0

-----------------------------------------------------------------------------
(* The market and the journal. *)

Lower(a, b)  == IF a < b THEN a ELSE b
Higher(a, b) == IF a > b THEN a ELSE b

\* A price goes into the candle of its minute.
PriceMoves ==
    \E p \in 1 .. MaxBid :
        /\ bid' = p
        /\ candles' = [candles EXCEPT ![minute] =
                         [low |-> Lower(@.low, p), high |-> Higher(@.high, p)]]
        /\ UNCHANGED <<minute, trade, tracker, lastWritten, samples, handled, ticks, lost>>

MinutePasses ==
    /\ minute < MaxMinute
    /\ minute' = minute + 1
    /\ candles' = [candles EXCEPT ![minute + 1] = [low |-> bid, high |-> bid]]
    /\ UNCHANGED <<bid, trade, tracker, lastWritten, samples, handled, ticks, lost>>

OpenTrade(t) ==
    /\ trade[t].state = "NONE"
    /\ \E side \in {"LONG", "SHORT"} :
         trade' = [trade EXCEPT ![t] =
                     [state |-> "OPEN", side |-> side, minute |-> minute,
                      price |-> IF side = "LONG" THEN bid + Spread ELSE bid]]
    /\ UNCHANGED <<minute, bid, candles, tracker, lastWritten, samples, handled, ticks, lost>>

CloseTrade(t) ==
    /\ trade[t].state = "OPEN"
    /\ trade' = [trade EXCEPT ![t].state = "CLOSED"]
    /\ UNCHANGED <<minute, bid, candles, tracker, lastWritten, samples, handled, ticks, lost>>

-----------------------------------------------------------------------------
(* process_tick *)

marketFrame == <<minute, bid, candles, trade>>

\* The consumer takes a tick off its queue; what it handles may be late.
TakeTick ==
    /\ tracker.pc = "idle" /\ ticks < MaxHandled
    /\ ticks' = ticks + 1
    /\ tracker' = [Waiting EXCEPT !.pc = "list", !.bid = bid, !.minute = minute]
    /\ UNCHANGED <<marketFrame, lastWritten, samples, handled, lost>>

Loses == lost < MaxLost /\ lost' = lost + 1

\* The open trades; a read that fails finds none.
ListOpen ==
    /\ tracker.pc = "list"
    /\ \/ /\ tracker' = [tracker EXCEPT !.pc = "loop",
                           !.todo = {t \in Trades : trade[t].state = "OPEN"}]
          /\ UNCHANGED lost
       \/ tracker' = Waiting /\ Loses
    /\ UNCHANGED <<marketFrame, lastWritten, samples, handled, ticks>>

Adverse(t, price) ==
    LET p == trade[t].price
    IN  IF trade[t].side = "LONG" THEN Higher(0, p - price) ELSE Higher(0, price + Spread - p)

Favorable(t, price) ==
    LET p == trade[t].price
    IN  IF trade[t].side = "LONG" THEN Higher(0, price - p) ELSE Higher(0, p - (price + Spread))

BuildSample(t) ==
    [adverse |-> Adverse(t, tracker.bid), favorable |-> Favorable(t, tracker.bid),
     minute |-> tracker.minute]

Distance(a, b) == IF a > b THEN a - b ELSE b - a

\* (mutant) Both excursions must have moved.
ShouldWriteBoth(t, s) ==
    LET last == lastWritten[t]
    IN  \/ last = NoSample
        \/ /\ Distance(s.adverse, last.adverse) >= MinMove
           /\ Distance(s.favorable, last.favorable) >= MinMove

ShouldWrite(t, s) ==
    LET last == lastWritten[t]
    IN  \/ last = NoSample
        \/ Distance(s.adverse, last.adverse) >= MinMove
        \/ Distance(s.favorable, last.favorable) >= MinMove

Next1(t) == tracker' = [tracker EXCEPT !.todo = @ \ {t}]

Sample(t) ==
    LET s == BuildSample(t)
    IN  /\ tracker.pc = "loop" /\ t \in tracker.todo
        /\ IF ShouldWrite(t, s)
             THEN /\ samples' = [samples EXCEPT ![t] = @ \cup {s}]
                  /\ lastWritten' = [lastWritten EXCEPT ![t] = s]
             ELSE UNCHANGED <<samples, lastWritten>>
        /\ handled' = [handled EXCEPT ![t] = @ \cup {s}]
        /\ Next1(t)
        /\ UNCHANGED <<marketFrame, ticks, lost>>

\* An insert that fails raises out of the tick.
SampleFails(t) ==
    /\ tracker.pc = "loop" /\ t \in tracker.todo /\ ShouldWrite(t, BuildSample(t))
    /\ Loses
    /\ tracker' = Waiting
    /\ UNCHANGED <<marketFrame, lastWritten, samples, handled, ticks>>

TickDone ==
    /\ tracker.pc = "loop" /\ tracker.todo = {}
    /\ tracker' = Waiting
    /\ UNCHANGED <<marketFrame, lastWritten, samples, handled, ticks, lost>>

ERestart ==
    /\ Loses
    /\ tracker' = Waiting
    /\ lastWritten' = [t \in Trades |-> NoSample]
    /\ UNCHANGED <<marketFrame, samples, handled, ticks>>

ENext ==
    \/ PriceMoves \/ MinutePasses
    \/ \E t \in Trades : OpenTrade(t) \/ CloseTrade(t) \/ Sample(t) \/ SampleFails(t)
    \/ TakeTick \/ ListOpen \/ TickDone \/ ERestart

ESpec == EInit /\ [][ENext]_excursionVars

-----------------------------------------------------------------------------
(* summary_for_trade: the replay of the broker's candles, or the samples. *)

\* The candles of a request from the earliest open trade until now: complete
\* ones, so never that of the running minute.
Frame == {m \in 0 .. minute - 1 : \E t \in Trades : trade[t].state = "OPEN" /\ trade[t].minute <= m}

\* A request that fails leaves an empty frame.
LoadedFrames == {Frame, {}}

\* (mutant) The candle of the minute the trade opened in is left out.
SliceAfterOpen(t, frame) == {m \in frame : m > trade[t].minute}

\* The candles from the minute the trade opened in.
SliceTradeFrame(t, frame) == {m \in frame : m >= trade[t].minute}

Greatest(S) == CHOOSE x \in S : \A y \in S : y <= x
Least(S)    == CHOOSE x \in S : \A y \in S : x <= y

SummaryFromFrame(t, frame) ==
    LET low  == Least({candles[m].low : m \in frame})
        high == Greatest({candles[m].high : m \in frame})
    IN  IF trade[t].side = "LONG" THEN [mae |-> Adverse(t, low), mfe |-> Favorable(t, high)]
        ELSE [mae |-> Adverse(t, high), mfe |-> Favorable(t, low)]

\* The stored summary aggregates the same samples.
SummaryFromSamples(t) ==
    [mae |-> Greatest({s.adverse : s \in samples[t]}), mfe |-> Greatest({s.favorable : s \in samples[t]})]

\* What is reported of a trade that has candles or samples.
Summary(t, frame) ==
    IF trade[t].state = "OPEN" /\ SliceTradeFrame(t, frame) # {}
    THEN SummaryFromFrame(t, SliceTradeFrame(t, frame))
    ELSE SummaryFromSamples(t)

-----------------------------------------------------------------------------
(* Properties. *)

\* The sampling loses less than the smallest move: whatever excursion a tick
\* showed the tracker, a stored sample comes within MinMove of it, on either
\* side, across closes, failures and restarts (_should_write).
ExcursionsKept ==
    \A t \in Trades : \A h \in handled[t] :
        /\ \E s \in samples[t] : s.adverse > h.adverse - MinMove
        /\ \E s \in samples[t] : s.favorable > h.favorable - MinMove

\* The report of a trade is no milder than its samples: an open trade's than
\* those of the complete minutes since the one it opened in, and than all of
\* them when no candle answers the request or none is complete since then;
\* a closed trade's than all of them.  Only a replay leaves something out:
\* what the stream saw in the running minute, or before the trade opened.
ReportCoversSamples ==
    \A t \in Trades, frame \in LoadedFrames : \A s \in samples[t] :
        \/ trade[t].state = "CLOSED" \/ frame = {} \/ trade[t].minute = minute
        \/ s.minute \in trade[t].minute .. minute - 1
        => s.adverse <= Summary(t, frame).mae /\ s.favorable <= Summary(t, frame).mfe
=============================================================================
