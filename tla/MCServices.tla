------------------------------ MODULE MCServices ------------------------------
(* The services around the journal and the scans for TLC: the market hours, *)
(* the calculations of the journal, the calendar with the macro context,    *)
(* and the bundles and detectors of the worktree's scans, each in           *)
(* behaviours of its own: they share no state.                              *)
EXTENDS MarketHours, TradeFigures, MarketContext, BundleScan, Detectors, TLC

CONSTANTS w1, w2, w3, s1, s2

VARIABLE focus   \* what a behaviour is about

vars == <<focus, hoursVars, figureVars, contextVars, bundleVars, detectorVars>>

\* Threads of one kind are interchangeable.
AlikeThreads == Permutations(Unlocked) \union Permutations(ScanThreads)

MCScanFrames == <<"D", "M15">>

\* Candles around prices 2 to 4, and a last one that may reach beyond.
Bar(l, h, c) == [low |-> l, high |-> h, close |-> c]
MCCharts ==
    LET inner == {Bar(2, 4, 2), Bar(2, 4, 4), Bar(2, 3, 3), Bar(3, 4, 3), Bar(3, 3, 3)}
        last  == {b \in [low : 1 .. 5, high : 1 .. 5, close : 1 .. 5] : b.low <= b.close /\ b.close <= b.high}
    IN  {<<Bar(2, 4, 2)>> \o <<b, c, d>> : b \in inner, c \in inner, d \in last}
MCSwings == {<<a, b, c, 0>> : a \in -1 .. 1, b \in -1 .. 1, c \in -1 .. 1}
MCSessions ==
    LET on    == <<TRUE, TRUE, TRUE, TRUE>>
        marks == {on, [on EXCEPT ![1] = FALSE], [on EXCEPT ![3] = FALSE, ![4] = FALSE],
                  [on EXCEPT ![2] = FALSE], [i \in 1 .. 4 |-> FALSE]}
    IN  {<<a, b>> : a \in marks, b \in marks}

\* Breaks and order blocks of up to three candles, some outside the chart.
Break(k, d, i) == [kind |-> k, direction |-> d, brokenAt |-> i]
NoBreak == Break("BOS", NEUTRAL, 0)
MCBreaks ==
    {<<NoBreak, NoBreak, NoBreak>>, <<Break("BOS", BULLISH, 3), NoBreak, NoBreak>>,
     <<Break("CHOCH", BEARISH, 2), Break("BOS", BULLISH, 3), NoBreak>>,
     <<Break("CHOCH", BULLISH, 3), Break("BOS", BEARISH, 3), NoBreak>>,
     <<Break("BOS", BEARISH, 2), Break("CHOCH", BULLISH, 3), Break("BOS", BULLISH, 9)>>}
Block(d, l, u, m) == [direction |-> d, lower |-> l, upper |-> u, mitigatedAt |-> m]
MCBlocks ==
    LET rows == {NoBlock, Block(BULLISH, 1, 2, 0), Block(BEARISH, 3, 4, 0),
                 Block(BULLISH, 2, 3, 2), Block(BEARISH, 4, 5, 3)}
    IN  {<<a, b, c>> : a \in {NoBlock, Block(BEARISH, 4, 5, 0)}, b \in rows, c \in rows}
Day(h, l, c) == [brokenHigh |-> h, brokenLow |-> l, close |-> c]
MCReadings ==
    [breaks : MCBreaks, blocks : MCBlocks, close : {1, 3},
     day : {Day(FALSE, FALSE, "inside"), Day(TRUE, FALSE, "above"), Day(FALSE, TRUE, "above"), Day(TRUE, TRUE, "below")},
     retracement : {[direction |-> NEUTRAL, percent |-> 0], [direction |-> BULLISH, percent |-> 60]},
     macd : {-1, 1}, rsi : {45, 50}, adx : {NoAdx, 14, 20}, changed : {FALSE}]
MCMembers ==
    {[breaks |-> b, blocks |-> <<>>, close |-> 3, day |-> Day(FALSE, FALSE, "inside"),
      retracement |-> [direction |-> e[1], percent |-> 70], macd |-> e[2], rsi |-> e[3], adx |-> 20, changed |-> c] :
        b \in {<<>>, <<Break("BOS", BULLISH, 1)>>, <<Break("CHOCH", BEARISH, 1)>>},
        e \in {<<1, 0, 50>>, <<0, 1, 55>>, <<-1, -1, 46>>}, c \in BOOLEAN}
MCWeights == <<5, 3, 2>>

MCRetraced == {BEARISH, NEUTRAL, BULLISH} \X (0 .. MaxPrice) \X (0 .. MaxPrice)

\* Setups of one or two kinds in M15, of another in H1, a flat block among them.
Swept(d, l, p, c) == [direction |-> d, level |-> l, at |-> 1, price |-> p, close |-> c]
MCM15 ==
    [blocks : {<<>>, <<Block(BULLISH, 1, 2, 0), Block(BEARISH, 4, 5, 0)>>, <<Block(BULLISH, 3, 3, 0)>>},
     sfp : {NotDetected, Swept(BULLISH, 2, 1, 3), Swept(BEARISH, 3, 4, 2)},
     turtle : {NotDetected, Swept(BEARISH, 4, 5, 3)}, rejected : BOOLEAN,
     dayHigh : {0, 3}, dayLow : {0, 2}, swingHigh : {5}, swingLow : {1}, sellSide : {{}, {4}}, buySide : {{}, {1, 3}}]
MCH1 ==
    [blocks : {<<>>, <<Block(BULLISH, 1, 3, 2)>>}, sfp : {NotDetected}, turtle : {NotDetected, Swept(BULLISH, 2, 1, 2)},
     rejected : {FALSE}, dayHigh : {0}, dayLow : {0}, swingHigh : {0, 4}, swingLow : {0, 2}, sellSide : {{5}}, buySide : {{}}]
MCSetups == {BEARISH, NEUTRAL, BULLISH} \X MCM15 \X MCH1

\* Two sessions of fx and one or two of metals, closed in between, opening at
\* the same time or at least Grace + MaxWarm apart.
MCSchedules ==
    {[fx |-> <<[open |-> a, close |-> a + 4], [open |-> a + 6, close |-> a + 10]>>,
      metals |-> IF d = 0 THEN <<[open |-> b, close |-> b + 2]>>
                 ELSE <<[open |-> b, close |-> b + d], [open |-> b + d + 2, close |-> b + d + 4]>>] :
        <<a, b, d>> \in {<<1, 1, 0>>, <<1, 4, 0>>, <<1, 4, 5>>, <<4, 0, 5>>, <<0, 3, 7>>}}

MCLegs == UNION {[1 .. n -> 0 .. 3] : n \in 0 .. 4}
MCClosed == UNION {[1 .. n -> [at : 1 .. 3, pnl : {-2, -1, 1, 2}]] : n \in 0 .. 3}

\* What a behaviour is not about starts in one state and stays there.
Init ==
    /\ focus \in {"hours", "commission", "statistics", "context", "bundles", "detectors"}
    /\ IF focus = "hours" THEN sessions \in Schedules
       ELSE sessions = CHOOSE s \in Schedules : TRUE
    /\ IF focus = "commission" THEN legs \in Legs /\ commission \in Commissions
       ELSE legs = <<>> /\ commission = 0
    /\ IF focus = "statistics" THEN trades \in Closed ELSE trades = <<>>
    /\ entry = [f \in Frames |-> 0]
    /\ HInit /\ FInit /\ CtxInit /\ BInit
    /\ IF focus = "detectors" THEN DInit ELSE detector = "none" /\ shown = <<>>

Next ==
    /\ UNCHANGED <<focus, detectorVars>>
    /\ \/ focus = "hours" /\ HNext /\ UNCHANGED <<figureVars, contextVars, bundleVars>>
       \/ FNext /\ UNCHANGED <<hoursVars, contextVars, bundleVars>>
       \/ focus = "context" /\ CtxNext /\ UNCHANGED <<hoursVars, figureVars, bundleVars>>
       \/ focus = "bundles" /\ BNext /\ UNCHANGED <<hoursVars, figureVars, contextVars>>

Spec == Init /\ [][Next]_vars
=============================================================================
