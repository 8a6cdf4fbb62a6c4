------------------------------- MODULE Detectors -------------------------------
(***************************************************************************)
(* What the worktree's detectors read out of a chart: its smc/turtle_soup, *)
(* sfp, orb and htf_bias, with the parts of smc/provider the bias is built *)
(* on, the main tree's choice of zones, and bot/tradeplan, which puts them *)
(* together.  Pure calculations over the candles and over what the         *)
(* external smc and ruptures libraries mark in them.  Each is written      *)
(* twice in the code, once for either direction.  Prices are ranks,        *)
(* positions are indexes from 1, scores are counted in Unit-ths.           *)
(***************************************************************************)
EXTENDS Integers, Sequences, FiniteSets, FiniteSetsExt

CONSTANTS
    MaxPrice,      \* bound: prices are 1 .. MaxPrice
    Lookback,      \* lookback_bars
    SwingLength,   \* default_swing_length
    OpeningBars,   \* opening_range_bars
    MaxBlocks,     \* MAX_ACTIVE_ORDER_BLOCKS
    MaxPerStatus,  \* MAX_ORDER_BLOCKS_PER_MITIGATION_STATUS
    Weights,       \* <<D, H4, H1>>: the bias weights, in tenths
    NeutralBand,   \* htf_bias_neutral_band, in Unit-ths
    Charts,        \* bound: sequences of closed candles
    Swings,        \* bound: what swing_highs_lows marks: 1 a high, -1 a low
    Sessions,      \* bound: sequences, by name, of what sessions marks as active
    Readings,      \* bound: what one timeframe shows
    Members,       \* bound: what the timeframes of a bias show
    Retraced,      \* bound: direction and the latest swings of a snapshot
    Setups         \* bound: bias, M15 and H1 snapshot of a trade plan

BULLISH == 1
BEARISH == -1
NEUTRAL == 0

NotDetected == [direction |-> NEUTRAL, level |-> 0, at |-> 0, price |-> 0, close |-> 0]
NoBlock     == [direction |-> NEUTRAL, lower |-> 0, upper |-> 0, mitigatedAt |-> 0]

\* What the inputs are: the counts are positive (ORB and turtle soup raise
\* otherwise), ranges are not upside down, a detected zone or sweep has a
\* direction, and a price of a snapshot may be 0 when it is not known.
Prices     == 1 .. MaxPrice
Directions == {BULLISH, BEARISH}
Candles    == {b \in [low : Prices, high : Prices, close : Prices] : b.low <= b.high}
Blocks     == {b \in [direction : Directions, lower : Prices, upper : Prices, mitigatedAt : Int] : b.lower <= b.upper}
Breaks     == [kind : {"BOS", "CHOCH"}, direction : Directions \cup {NEUTRAL}, brokenAt : Int]
Sweeps     == [direction : Directions, level : Prices, at : Int, price : Prices, close : Prices]
Readable   ==
    [breaks : Seq(Breaks), blocks : Seq(Blocks \cup {NoBlock}), close : Prices,
     day : [brokenHigh : BOOLEAN, brokenLow : BOOLEAN, close : {"above", "below", "inside"}],
     retracement : [direction : Directions \cup {NEUTRAL}, percent : Int],
     macd : Int, rsi : Int, adx : Int, changed : BOOLEAN]
Snapshots  ==
    [blocks : Seq(Blocks), sfp : Sweeps \cup {NotDetected}, turtle : Sweeps \cup {NotDetected}, rejected : BOOLEAN,
     dayHigh : Prices \cup {0}, dayLow : Prices \cup {0}, swingHigh : Prices \cup {0}, swingLow : Prices \cup {0},
     sellSide : SUBSET Prices, buySide : SUBSET Prices]

ASSUME Inputs ==
    /\ MaxPrice \in Nat /\ Lookback \in Nat \ {0} /\ OpeningBars \in Nat \ {0}
    /\ SwingLength \in Nat /\ MaxBlocks \in Nat /\ MaxPerStatus \in Nat
    /\ Weights \in Seq(Int) /\ Len(Weights) = 3 /\ NeutralBand \in Nat \ {0}
    /\ Charts \subseteq Seq(Candles) /\ Swings \subseteq Seq({-1, 0, 1}) /\ Sessions \subseteq Seq(Seq(BOOLEAN))
    /\ Readings \subseteq Readable /\ Members \subseteq Readable
    /\ Retraced \subseteq (Directions \cup {NEUTRAL}) \X (0 .. MaxPrice) \X (0 .. MaxPrice)
    /\ Setups \subseteq (Directions \cup {NEUTRAL}) \X Snapshots \X Snapshots

VARIABLES detector, shown   \* the detector to consider and what it is shown

detectorVars == <<detector, shown>>

DInit ==
    \/ detector = "turtle_soup" /\ shown \in Charts
    \/ detector = "sfp" /\ shown \in {p \in Charts \X Swings : Len(p[2]) = Len(p[1])}
    \/ detector = "orb" /\ shown \in {p \in Charts \X Sessions : \A s \in DOMAIN p[2] : Len(p[2][s]) = Len(p[1])}
    \/ detector = "score" /\ shown \in Readings
    \/ detector = "bias" /\ shown \in Members \X Members \X Members
    \/ detector = "zones" /\ shown \in {<<r.blocks, r.close>> : r \in Readings}
    \/ detector = "fib" /\ shown \in Retraced
    \/ detector = "plan" /\ shown \in Setups

\* An input stays what it is.
DSpec == DInit /\ [][FALSE]_detectorVars

\* The order of triples by their first difference.
Precedes(r, s) == \E k \in 1 .. 3 : r[k] < s[k] /\ \A l \in 1 .. k - 1 : r[l] = s[l]

\* The members of S in the order of their keys.
Ranked(S, key) ==
    CHOOSE seq \in [1 .. Cardinality(S) -> S] :
        \A k \in DOMAIN seq : \A l \in 1 .. k - 1 : Precedes(key[seq[l]], key[seq[k]])

\* The first n members of a sequence, or all of it.
FirstFew(seq, n) == SubSeq(seq, 1, IF Len(seq) < n THEN Len(seq) ELSE n)

-----------------------------------------------------------------------------
(* The last candle reaches beyond a level and closes back.                 *)

Sweep(chart, direction, level, at) ==
    LET last == chart[Len(chart)]
    IN  [direction |-> direction, level |-> level, at |-> at, close |-> last.close,
         price |-> IF direction = BULLISH THEN last.low ELSE last.high]

(* detect_turtle_soup: the level is an extreme of the Lookback candles     *)
(* before, where it was last touched.                                      *)
TurtleSoup(chart) ==
    LET n      == Len(chart)
        last   == chart[n]
        window == n - Lookback .. n - 1
        high   == Max({chart[i].high : i \in window})
        low    == Min({chart[i].low : i \in window})
        bearish == last.high > high /\ low <= last.close /\ last.close < high
        bullish == last.low < low /\ low < last.close /\ last.close <= high
    IN  IF n < Lookback + 1 \/ bearish = bullish THEN NotDetected
        ELSE IF bullish
               THEN Sweep(chart, BULLISH, low, Max({i \in window : chart[i].low = low}))
               ELSE Sweep(chart, BEARISH, high, Max({i \in window : chart[i].high = high}))

(* detect_sfp: the level is the latest swing before the last candle.       *)
SwingFailure(chart, swings) ==
    LET n     == Len(chart)
        last  == chart[n]
        highs == {i \in 1 .. n - 1 : swings[i] = 1}
        lows  == {i \in 1 .. n - 1 : swings[i] = -1}
        bearish == highs # {} /\ LET level == chart[Max(highs)].high
                                 IN  last.high > level /\ last.close < level
        bullish == lows # {} /\ LET level == chart[Max(lows)].low
                                IN  last.low < level /\ last.close > level
    IN  IF n < 2 * SwingLength + 2 \/ bearish = bullish THEN NotDetected
        ELSE IF bullish THEN Sweep(chart, BULLISH, chart[Max(lows)].low, Max(lows))
                        ELSE Sweep(chart, BEARISH, chart[Max(highs)].high, Max(highs))

-----------------------------------------------------------------------------
(* detect_orb: the first close outside the opening range of the session    *)
(* that began last; of those, the longest, then the last by name.          *)

Windows(active) ==
    {w \in (DOMAIN active) \X (DOMAIN active) :
        /\ w[1] <= w[2] /\ \A i \in w[1] .. w[2] : active[i]
        /\ w[1] - 1 \in DOMAIN active => ~active[w[1] - 1]
        /\ w[2] + 1 \in DOMAIN active => ~active[w[2] + 1]}

SessionWindows(sessions) ==
    {w \in UNION {Windows(sessions[s]) \X {s} : s \in DOMAIN sessions} :
        w[1][2] - w[1][1] + 1 >= OpeningBars + 1}

NoBreakout == [direction |-> NEUTRAL, session |-> 0, high |-> 0, low |-> 0, price |-> 0, at |-> 0]

OpeningRange(chart, w) ==
    LET opening == w[1][1] .. w[1][1] + OpeningBars - 1
        high == Max({chart[i].high : i \in opening})
        low  == Min({chart[i].low : i \in opening})
        outside == {i \in w[1][1] + OpeningBars .. w[1][2] : chart[i].close > high \/ chart[i].close < low}
        first == Min(outside)
    IN  IF outside = {} THEN NoBreakout
        ELSE [direction |-> IF chart[first].close > high THEN BULLISH ELSE BEARISH, session |-> w[2],
              high |-> high, low |-> low, price |-> chart[first].close, at |-> first]

OpeningBreakout(chart, sessions) ==
    LET windows == SessionWindows(sessions)
    IN  IF Len(chart) < OpeningBars + 1 \/ windows = {} THEN NoBreakout
        ELSE OpeningRange(chart, CHOOSE w \in windows : \A v \in windows \ {w} :
                                      Precedes(<<v[1][1], v[1][2], v[2]>>, <<w[1][1], w[1][2], w[2]>>))

-----------------------------------------------------------------------------
(* What the bias reads of one timeframe (smc/provider, filters/chop).      *)

NoAdx   == -1

(* _build_structure_summary: the breaks marked by origin, latest first;    *)
(* a break index outside the chart stands for the origin.                  *)
OccurredAt(rows, i) == IF rows[i].brokenAt \in DOMAIN rows THEN rows[i].brokenAt ELSE i

RecentBreaks(rows) ==
    LET marked == {i \in DOMAIN rows : rows[i].direction # NEUTRAL}
        order  == Ranked(marked, [i \in marked |-> <<-OccurredAt(rows, i), i, 0>>])
    IN  FirstFew([k \in DOMAIN order |-> rows[order[k]]], 3)

(* _zone_distance_pips *)
ZoneDistance(close, block) ==
    IF close > block.upper THEN close - block.upper
    ELSE IF close < block.lower THEN block.lower - close ELSE 0

(* mitigatedAt counts from 0, which the library also uses for "not yet".   *)
Mitigated(rows, i) == 0 < rows[i].mitigatedAt /\ rows[i].mitigatedAt < Len(rows)

(* _build_order_block_candidates: nearest first, then active ones, then    *)
(* the newest.                                                             *)
Nearest(rows, close) ==
    LET marked == {i \in DOMAIN rows : rows[i] # NoBlock}
    IN  Ranked(marked, [i \in marked |->
            <<ZoneDistance(close, rows[i]), IF Mitigated(rows, i) THEN 1 ELSE 0, -i>>])

(* _build_zone_summary of the worktree cuts the list, that of the main     *)
(* tree keeps some of either status.                                       *)
Zones(rows, close) == FirstFew(Nearest(rows, close), MaxBlocks)

ZonesByStatus(rows, close) ==
    LET near == Nearest(rows, close)
        kept == {k \in DOMAIN near : MaxPerStatus >
                    Cardinality({l \in 1 .. k - 1 : Mitigated(rows, near[l]) <=> Mitigated(rows, near[k])})}
        order == Ranked(kept, [k \in kept |-> <<k, 0, 0>>])
    IN  [k \in DOMAIN order |-> near[order[k]]]

\* The nearest zone that is still active.
ActiveZones(rows, zones) ==
    {zones[k] : k \in {m \in DOMAIN zones :
        ~Mitigated(rows, zones[m]) /\ \A l \in 1 .. m - 1 : Mitigated(rows, zones[l])}}

(* evaluate_chop *)
ChopStatus(adx) == IF adx >= 20 THEN "PASS" ELSE IF adx = NoAdx \/ adx >= 15 THEN "CAUTION" ELSE "REJECT"

(* _trend_dampener, in percent of percent.                                 *)
Dampener(adx) ==
    (CASE ChopStatus(adx) = "PASS" -> 100 [] ChopStatus(adx) = "CAUTION" -> 80 [] OTHER -> 60)
  * (CASE adx = NoAdx -> 85 [] adx # NoAdx /\ adx < 15 -> 65 [] adx >= 15 /\ adx < 20 -> 80 [] OTHER -> 100)

-----------------------------------------------------------------------------
(* The bias of three timeframes (smc/htf_bias).                            *)

Unit == 1000 * 100 * 100   \* the score 1.0

Clamp(score) == IF score > Unit THEN Unit ELSE IF score < -Unit THEN -Unit ELSE score

\* What each kind of evidence adds to the score, in thousandths.
StructureScore(breaks) ==
    IF breaks = <<>> THEN 0
    ELSE LET up   == Cardinality({i \in DOMAIN breaks : breaks[i].direction = BULLISH})
             down == Len(breaks) - up
         IN  (IF breaks[1].kind = "BOS" THEN 450 ELSE 350) * breaks[1].direction
             + (150 \div Len(breaks)) * (up - down)

PreviousDayScore(day) ==
    IF day.brokenHigh /\ ~day.brokenLow /\ day.close = "above" THEN 200
    ELSE IF day.brokenLow /\ ~day.brokenHigh /\ day.close = "below" THEN -200 ELSE 0

RetracementScore(retracement) ==
    retracement.direction
    * (IF retracement.percent > 66 THEN 40 ELSE IF retracement.percent > 50 THEN 70 ELSE 100)

BlockScore(rows, zones) ==
    IF ActiveZones(rows, zones) = {} THEN 0
    ELSE 100 * rows[CHOOSE i \in ActiveZones(rows, zones) : TRUE].direction

MomentumScore(macd, rsi) ==
    (IF macd > 0 THEN 100 ELSE IF macd < 0 THEN -100 ELSE 0)
  + (IF rsi >= 55 THEN 50 ELSE IF rsi <= 45 THEN -50 ELSE 0)

(* _score_timeframe *)
Score(r) ==
    Clamp((StructureScore(RecentBreaks(r.breaks)) + PreviousDayScore(r.day) + RetracementScore(r.retracement)
             + BlockScore(r.blocks, Zones(r.blocks, r.close)) + MomentumScore(r.macd, r.rsi)) * Dampener(r.adx))

(* Seeded fault: a score at the band counts on one side only.              *)
VoteAbove(score, band) ==
    IF score >= band THEN BULLISH ELSE IF score < -band THEN BEARISH ELSE NEUTRAL

(* _direction_from_score *)
Vote(score, band) ==
    IF score >= band THEN BULLISH ELSE IF score <= -band THEN BEARISH ELSE NEUTRAL

(* compute: the weighted score, unless D and H4 or a recent transition     *)
(* speak against it.  Its own band is the default, whatever the settings.  *)
Verdict(changing, votes, aggregate) ==
    LET size      == IF aggregate < 0 THEN -aggregate ELSE aggregate
        base      == Vote(aggregate, (15 * Unit) \div 100)
        neutral   == \/ base = NEUTRAL \/ size < NeutralBand
                     \/ votes[1] # NEUTRAL /\ votes[2] # NEUTRAL /\ votes[1] # votes[2]
                     \/ \E i \in changing : votes[i] \notin {NEUTRAL, base}
        capped    == changing # {} /\ {votes[i] : i \in 1 .. 3} \ {NEUTRAL} = {base}
        most      == IF capped THEN (55 * Unit) \div 100 ELSE Unit
    IN  [votes |-> votes, transitioning |-> changing # {},
         direction |-> IF neutral THEN NEUTRAL ELSE base,
         alignment |-> IF neutral THEN 0 ELSE IF size < most THEN size ELSE most]

Weigh(changing, scores) ==
    Verdict(changing, [i \in 1 .. 3 |-> Vote(scores[i], NeutralBand)],
            (Weights[1] * scores[1] + Weights[2] * scores[2] + Weights[3] * scores[3]) \div 10)

Bias(members) ==
    Weigh({i \in 1 .. 3 : members[i].changed}, [i \in 1 .. 3 |-> Score(members[i])])

-----------------------------------------------------------------------------
(* bot/tradeplan: where a move has retraced to, and a plan from the bias   *)
(* and the snapshots of M15 and H1.                                        *)

FibRatios == <<236, 382, 500, 618, 786>>

(* build_fib_summary, in thousandths; swings may be in either order.       *)
FibLevels(direction, high, low) ==
    LET top    == Max({high, low})
        bottom == Min({high, low})
    IN  IF direction = NEUTRAL \/ 0 \in {high, low} \/ top = bottom THEN <<>>
        ELSE [k \in DOMAIN FibRatios |->
                 IF direction = BULLISH THEN 1000 * top - (top - bottom) * FibRatios[k]
                                        ELSE 1000 * bottom + (top - bottom) * FibRatios[k]]

Trigger(setup, low, high, invalidation) ==
    [setup |-> setup, low |-> low, high |-> high, invalidation |-> invalidation]

BlockTriggers(direction, blocks) ==
    LET matching == {k \in DOMAIN blocks : blocks[k].direction = direction}
        first    == blocks[Min(matching)]
    IN  IF matching = {} THEN <<>>
        ELSE <<Trigger("block", first.lower, first.upper,
                       IF direction = BULLISH THEN first.lower ELSE first.upper)>>

SweepTriggers(direction, setup, sweep) ==
    LET entry == {sweep.level, sweep.close}
    IN  IF sweep.direction # direction THEN <<>>
        ELSE <<Trigger(setup, Min(entry), Max(entry),
                       IF direction = BULLISH THEN Min(entry \union {sweep.price}) ELSE Max(entry \union {sweep.price}))>>

(* _select_trigger: the first of these, M15 before H1.                     *)
Triggers(direction, snapshot) ==
    BlockTriggers(direction, snapshot.blocks)
      \o SweepTriggers(direction, "sfp", snapshot.sfp)
      \o SweepTriggers(direction, "turtle_soup", snapshot.turtle)

(* _select_target_price: the nearest level beyond the entry.  A swing or   *)
(* a previous day of 0 is not known.                                       *)
Targets(direction, snapshot, trigger) ==
    IF direction = BULLISH
    THEN {p \in {snapshot.dayHigh, snapshot.swingHigh} \union snapshot.sellSide : p > trigger.high}
    ELSE {p \in ({snapshot.dayLow, snapshot.swingLow} \ {0}) \union snapshot.buySide : p < trigger.low}

NoPlan == [valid |-> FALSE]

(* _compute_reward_risk, both from the middle of the entry and doubled. A  *)
(* plan that nothing rejects and that risks nothing fails an assertion.    *)
Priced(direction, trigger, target) ==
    LET middle == trigger.low + trigger.high
        risk   == direction * (middle - 2 * trigger.invalidation)
        reward == direction * (2 * target - middle)
    IN  IF risk <= 0 \/ reward <= 0 THEN [valid |-> TRUE, asserts |-> FALSE]
        ELSE IF reward < risk THEN NoPlan
        ELSE [valid |-> TRUE, asserts |-> TRUE, direction |-> direction, trigger |-> trigger,
              target |-> target, reward |-> reward, risk |-> risk]

(* build_trade_plan *)
TradePlan(bias, m15, h1) ==
    LET triggers == Triggers(bias, m15) \o Triggers(bias, h1)
        targets  == Targets(bias, m15, Head(triggers)) \union Targets(bias, h1, Head(triggers))
    IN  IF bias = NEUTRAL \/ m15.rejected \/ h1.rejected \/ triggers = <<>> THEN NoPlan
        ELSE IF targets = {} THEN NoPlan
        ELSE Priced(bias, Head(triggers), IF bias = BULLISH THEN Min(targets) ELSE Max(targets))

-----------------------------------------------------------------------------
(* The same chart, turned upside down.                                     *)

Turn(price) == MaxPrice + 1 - price

TurnChart(chart) ==
    [i \in DOMAIN chart |-> [low |-> Turn(chart[i].high), high |-> Turn(chart[i].low), close |-> Turn(chart[i].close)]]

TurnSweep(s) ==
    IF s = NotDetected THEN s
    ELSE [direction |-> -s.direction, level |-> Turn(s.level), at |-> s.at,
          price |-> Turn(s.price), close |-> Turn(s.close)]

TurnBreakout(b) ==
    IF b = NoBreakout THEN b
    ELSE [b EXCEPT !.direction = -@, !.high = Turn(b.low), !.low = Turn(b.high), !.price = Turn(@)]

TurnBlock(b) ==
    [direction |-> -b.direction, lower |-> Turn(b.upper), upper |-> Turn(b.lower), mitigatedAt |-> b.mitigatedAt]

TurnBlocks(rows) == [i \in DOMAIN rows |-> IF rows[i] = NoBlock THEN NoBlock ELSE TurnBlock(rows[i])]

TurnBreaks(rows) ==
    [i \in DOMAIN rows |-> [kind |-> rows[i].kind, direction |-> -rows[i].direction, brokenAt |-> rows[i].brokenAt]]

TurnDay(day) ==
    [brokenHigh |-> day.brokenLow, brokenLow |-> day.brokenHigh,
     close |-> CASE day.close = "above" -> "below" [] day.close = "below" -> "above" [] OTHER -> "inside"]

TurnReading(r) ==
    [breaks |-> TurnBreaks(r.breaks), blocks |-> TurnBlocks(r.blocks), close |-> Turn(r.close), day |-> TurnDay(r.day),
     retracement |-> [direction |-> -r.retracement.direction, percent |-> r.retracement.percent],
     macd |-> -r.macd, rsi |-> 100 - r.rsi, adx |-> r.adx, changed |-> r.changed]

TurnKnown(price) == IF price = 0 THEN 0 ELSE Turn(price)

TurnSnapshot(s) ==
    [blocks |-> TurnBlocks(s.blocks), sfp |-> TurnSweep(s.sfp), turtle |-> TurnSweep(s.turtle), rejected |-> s.rejected,
     dayHigh |-> TurnKnown(s.dayLow), dayLow |-> TurnKnown(s.dayHigh),
     swingHigh |-> TurnKnown(s.swingLow), swingLow |-> TurnKnown(s.swingHigh),
     sellSide |-> {Turn(p) : p \in s.buySide}, buySide |-> {Turn(p) : p \in s.sellSide}]

TurnTrigger(t) == Trigger(t.setup, Turn(t.high), Turn(t.low), Turn(t.invalidation))

TurnPlan(p) ==
    IF ~p.valid \/ ~p.asserts THEN p
    ELSE [p EXCEPT !.direction = -@, !.target = Turn(@), !.trigger = TurnTrigger(@)]

(* Neither direction is favoured: a chart turned upside down, prices, the  *)
(* library's marks and indicators, gets the opposite answer for the same   *)
(* candle, level and strength, at every boundary the comparisons share.    *)
DetectorsMirror ==
    CASE detector = "turtle_soup" ->
            TurtleSoup(TurnChart(shown)) = TurnSweep(TurtleSoup(shown))
      [] detector = "sfp" ->
            SwingFailure(TurnChart(shown[1]), [i \in DOMAIN shown[2] |-> -shown[2][i]])
              = TurnSweep(SwingFailure(shown[1], shown[2]))
      [] detector = "orb" ->
            OpeningBreakout(TurnChart(shown[1]), shown[2]) = TurnBreakout(OpeningBreakout(shown[1], shown[2]))
      [] detector = "score" -> Score(TurnReading(shown)) = -Score(shown)
      [] detector = "bias" ->
            LET turned == [i \in 1 .. 3 |-> TurnReading(shown[i])]
                bias   == Bias(shown)
            IN  Bias(turned) = [bias EXCEPT !.direction = -@, !.votes = [i \in 1 .. 3 |-> -@[i]]]
      [] detector = "zones" ->
            LET rows == TurnBlocks(shown[1])
                close == Turn(shown[2])
            IN  /\ Zones(rows, close) = Zones(shown[1], shown[2])
                /\ ZonesByStatus(rows, close) = ZonesByStatus(shown[1], shown[2])
      [] detector = "fib" ->
            LET levels == FibLevels(shown[1], shown[2], shown[3])
            IN  FibLevels(-shown[1], TurnKnown(shown[3]), TurnKnown(shown[2]))
                  = [k \in DOMAIN levels |-> 1000 * (MaxPrice + 1) - levels[k]]
      [] detector = "plan" ->
            TradePlan(-shown[1], TurnSnapshot(shown[2]), TurnSnapshot(shown[3]))
              = TurnPlan(TradePlan(shown[1], shown[2], shown[3]))
      [] OTHER -> TRUE
=============================================================================
