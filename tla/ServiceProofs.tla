---------------------------- MODULE ServiceProofs -----------------------------
(***************************************************************************)
(* Theorems about the services, for every value of their constants.        *)
(* Excursions: the samples come within MinMove of everything a tick        *)
(* showed, and the report of a trade is no milder than its samples.        *)
(* MarketHours: the chain of one-shot warms misses no opening.             *)
(* TradeFigures: the legs of a rollover share its commission exactly, and  *)
(* the drawdown reported is the deepest of the curve of profits.           *)
(* Detectors: a chart upside down gets the opposite answer of each.        *)
(***************************************************************************)
EXTENDS Excursions, MarketHours, TradeFigures, Detectors, FiniteSetTheorems, TLAPS

-----------------------------------------------------------------------------
(* The greatest member of a set of whole numbers.                          *)

(* A set of whole numbers with an upper bound has a greatest member.       *)
LEMMA BoundedHasGreatest ==
    ASSUME NEW hi \in Int, NEW S, S \subseteq Int, S # {}, \A x \in S : x <= hi
    PROVE  \E x \in S : \A y \in S : y <= x
<1> DEFINE Up(x) == x .. hi
           Ups == {Up(x) : x \in S}
           R == StrictSubsetOrdering(Int)
           F == FiniteSubsetsOf(Int)
<1>1. IsWellFoundedOn(R, F)
  BY FS_StrictSubsetOrderingWellFounded
<1>2. Ups \subseteq F /\ Ups # {}
  <2>1. \A x \in S : x \in Int /\ IsFiniteSet(Up(x))
    BY FS_Interval
  <2>2. \A x \in S : Up(x) \in F
    BY <2>1 DEF FiniteSubsetsOf
  <2> QED BY <2>2
<1>3. PICK m \in Ups : \A u \in Ups : <<u, m>> \notin R
  <2> HIDE DEF R, F, Ups
  <2> QED BY <1>1, <1>2, WFMin
<1>4. PICK x \in S : m = Up(x)
  OBVIOUS
<1>5. ASSUME NEW y \in S PROVE y <= x
  <2>1. SUFFICES ASSUME y > x PROVE FALSE
    OBVIOUS
  <2>2. x \in Up(x) /\ x \notin Up(y) /\ Up(y) \subseteq Up(x)
    BY <2>1
  <2>3. <<Up(y), Up(x)>> \in R
    BY <2>2, <1>2 DEF StrictSubsetOrdering
  <2> QED BY <2>3, <1>3, <1>4
<1> QED BY <1>5

(* Greatest bounds every member of a bounded set.                          *)
LEMMA GreatestBounds ==
    ASSUME NEW hi \in Int, NEW S, S \subseteq Int, \A x \in S : x <= hi, NEW y \in S
    PROVE  y <= Greatest(S) /\ Greatest(S) \in S
<1>1. \E x \in S : \A z \in S : z <= x
  BY BoundedHasGreatest
<1> QED BY <1>1 DEF Greatest

(* The least member that Min chooses of whole numbers.                     *)
LEMMA LeastOfNaturals ==
  ASSUME NEW S, S \subseteq Nat, S # {}
  PROVE  Min(S) \in S /\ \A x \in S : Min(S) <= x
<1> DEFINE Down(x) == 0 .. x
           Downs == {Down(x) : x \in S}
           R == StrictSubsetOrdering(Nat)
           F == FiniteSubsetsOf(Nat)
<1>1. IsWellFoundedOn(R, F)
  BY FS_StrictSubsetOrderingWellFounded
<1>2. Downs \subseteq F /\ Downs # {}
  <2>1. \A x \in S : x \in Int /\ IsFiniteSet(Down(x))
    BY FS_Interval
  <2>2. \A x \in S : Down(x) \in F
    BY <2>1 DEF FiniteSubsetsOf
  <2> QED BY <2>2
<1>3. PICK m \in Downs : \A u \in Downs : <<u, m>> \notin R
  <2> HIDE DEF R, F, Downs
  <2> QED BY <1>1, <1>2, WFMin
<1>4. PICK x \in S : m = Down(x)
  OBVIOUS
<1>5. ASSUME NEW y \in S PROVE x <= y
  <2>1. SUFFICES ASSUME y < x PROVE FALSE
    OBVIOUS
  <2>2. x \in Down(x) /\ x \notin Down(y) /\ Down(y) \subseteq Down(x)
    BY <2>1
  <2>3. <<Down(y), Down(x)>> \in R
    BY <2>2, <1>2 DEF StrictSubsetOrdering
  <2> QED BY <2>3, <1>3, <1>4
<1> QED BY <1>5 DEF Min

(* So does Least.                                                          *)
LEMMA LeastBounds ==
    ASSUME NEW S, S \subseteq Nat, NEW y \in S
    PROVE  Least(S) <= y /\ Least(S) \in S
<1>1. Min(S) \in S /\ \A x \in S : Min(S) <= x
  BY LeastOfNaturals
<1> QED BY <1>1 DEF Least

-----------------------------------------------------------------------------
(* Type correctness.                                                       *)

Bids == 1 .. MaxBid
Sampled == [adverse : Nat, favorable : Nat, minute : 0 .. MaxMinute]

MarketTyped ==
    /\ minute \in 0 .. MaxMinute /\ bid \in Bids
    /\ candles \in [0 .. MaxMinute -> [low : Bids, high : Bids]]
    /\ trade \in [Trades -> [state : {"NONE", "OPEN", "CLOSED"}, side : {"LONG", "SHORT"},
                             price : Int, minute : 0 .. MaxMinute]]

TrackerTyped ==
    /\ tracker \in [pc : {"idle", "list", "loop"}, bid : Int, minute : 0 .. MaxMinute, todo : SUBSET Trades]
    /\ tracker.pc # "idle" => tracker.bid \in Bids /\ tracker.minute <= minute

SamplesTyped ==
    /\ lastWritten \in [Trades -> Sampled \cup {NoSample}]
    /\ samples \in [Trades -> SUBSET Sampled] /\ handled \in [Trades -> SUBSET Sampled]

TypeOK == MarketTyped /\ TrackerTyped /\ SamplesTyped

(* A sample has its type and follows from the definitions of the           *)
(* excursions.                                                             *)
LEMMA SampleTyped ==
    ASSUME TypeOK, NEW t \in Trades, NEW b \in Bids
    PROVE  /\ Adverse(t, b) \in Nat /\ Favorable(t, b) \in Nat
           /\ tracker.pc # "idle" => BuildSample(t) \in Sampled
<1>1. Spread \in Int /\ trade[t].price \in Int
  BY ExcursionAssumption DEF TypeOK, MarketTyped
<1>2. \A x \in Int : Higher(0, x) \in Nat
  BY DEF Higher
<1>3. ASSUME NEW c \in Bids PROVE Adverse(t, c) \in Nat /\ Favorable(t, c) \in Nat
  <2>1. c \in Int
    BY ExcursionAssumption DEF Bids
  <2> QED BY <1>1, <1>2, <2>1 DEF Adverse, Favorable
<1>4. tracker.pc # "idle" => tracker.bid \in Bids /\ tracker.minute \in 0 .. MaxMinute
  BY DEF TypeOK, TrackerTyped
<1> QED BY <1>3, <1>4 DEF BuildSample, Sampled

(* The initial state is typed.                                             *)
LEMMA TypeInit == EInit => TypeOK
BY ExcursionAssumption
   DEF EInit, TypeOK, MarketTyped, TrackerTyped, SamplesTyped, Bids, Sampled, NoSample, Waiting

(* Every step keeps the types.                                             *)
LEMMA TypeStep == TypeOK /\ [ENext]_excursionVars => TypeOK'
<1> SUFFICES ASSUME TypeOK, [ENext]_excursionVars PROVE TypeOK'
  OBVIOUS
<1> USE ExcursionAssumption
<1>1. ASSUME UNCHANGED <<tracker, lastWritten, samples, handled>>, MarketTyped', minute' >= minute
      PROVE  TrackerTyped' /\ SamplesTyped'
  <2>1. SamplesTyped'
    BY <1>1 DEF TypeOK, SamplesTyped
  <2>2. minute \in Int /\ minute' \in Int
    BY <1>1 DEF TypeOK, MarketTyped
  <2>3. tracker.minute \in Int /\ tracker.pc # "idle" => tracker.minute <= minute
    BY DEF TypeOK, TrackerTyped
  <2>4. TrackerTyped'
    BY <1>1, <2>2, <2>3 DEF TypeOK, TrackerTyped
  <2> QED BY <2>1, <2>4
<1>2. CASE PriceMoves
  <2>1. MarketTyped'
    BY <1>2 DEF PriceMoves, TypeOK, MarketTyped, Bids, Lower, Higher
  <2> QED BY <1>1, <1>2, <2>1 DEF PriceMoves, TypeOK, MarketTyped
<1>3. CASE MinutePasses
  <2>1. MarketTyped'
    BY <1>3 DEF MinutePasses, TypeOK, MarketTyped, Bids
  <2> QED BY <1>1, <1>3, <2>1 DEF MinutePasses, TypeOK, MarketTyped
<1>4. ASSUME NEW t \in Trades, OpenTrade(t) PROVE TypeOK'
  <2>1. MarketTyped'
    BY <1>4 DEF OpenTrade, TypeOK, MarketTyped, Bids
  <2> QED BY <1>1, <1>4, <2>1 DEF OpenTrade, TypeOK, MarketTyped
<1>5. ASSUME NEW t \in Trades, CloseTrade(t) PROVE TypeOK'
  <2>1. MarketTyped'
    BY <1>5 DEF CloseTrade, TypeOK, MarketTyped
  <2> QED BY <1>1, <1>5, <2>1 DEF CloseTrade, TypeOK, MarketTyped
<1>6. ASSUME UNCHANGED marketFrame PROVE MarketTyped' /\ minute' = minute
  BY <1>6 DEF marketFrame, MarketTyped, TypeOK
<1>7. ASSUME NEW t \in Trades, Sample(t) PROVE TypeOK'
  <2>1. BuildSample(t) \in Sampled
    <3>1. tracker.pc # "idle" /\ bid \in Bids
      BY <1>7 DEF Sample, TypeOK, MarketTyped
    <3> QED BY <3>1, SampleTyped
  <2>2. UNCHANGED marketFrame /\ tracker' = [tracker EXCEPT !.todo = @ \ {t}]
    BY <1>7 DEF Sample, Next1
  <2>3. SamplesTyped'
    BY <1>7, <2>1 DEF Sample, TypeOK, SamplesTyped
  <2>4. TrackerTyped'
    <3>1. tracker'.pc = tracker.pc /\ tracker'.bid = tracker.bid /\ tracker'.minute = tracker.minute
          /\ tracker' \in [pc : {"idle", "list", "loop"}, bid : Int, minute : 0 .. MaxMinute, todo : SUBSET Trades]
      BY <2>2 DEF TypeOK, TrackerTyped
    <3> QED BY <1>6, <2>2, <3>1 DEF TypeOK, TrackerTyped
  <2> QED BY <1>6, <2>2, <2>3, <2>4 DEF TypeOK
<1>8. ASSUME UNCHANGED marketFrame, UNCHANGED <<samples, handled>>,
             lastWritten' = lastWritten \/ lastWritten' = [t \in Trades |-> NoSample],
             \/ tracker' = Waiting
             \/ tracker' = [Waiting EXCEPT !.pc = "list", !.bid = bid, !.minute = minute]
             \/ /\ tracker.pc = "list"
                /\ tracker' = [tracker EXCEPT !.pc = "loop", !.todo = {t \in Trades : trade[t].state = "OPEN"}]
      PROVE  TypeOK'
  <2>1. SamplesTyped'
    BY <1>8 DEF TypeOK, SamplesTyped
  <2>2. TrackerTyped'
    <3>1. minute' = minute /\ minute \in 0 .. MaxMinute /\ bid \in Bids
      BY <1>6, <1>8 DEF TypeOK, MarketTyped
    <3>2. CASE tracker' = Waiting
      BY <3>2 DEF TrackerTyped, Waiting
    <3>3. CASE tracker' = [Waiting EXCEPT !.pc = "list", !.bid = bid, !.minute = minute]
      <4>1. tracker' = [pc |-> "list", bid |-> bid, minute |-> minute, todo |-> {}]
        BY <3>3 DEF Waiting
      <4>2. bid \in Int /\ minute <= minute
        BY <3>1 DEF Bids
      <4>3. tracker' \in [pc : {"idle", "list", "loop"}, bid : Int, minute : 0 .. MaxMinute, todo : SUBSET Trades]
        BY <3>1, <4>1, <4>2
      <4>4. tracker'.bid \in Bids /\ tracker'.minute <= minute'
        BY <3>1, <4>1, <4>2
      <4> QED BY <4>3, <4>4 DEF TrackerTyped
    <3>4. CASE /\ tracker.pc = "list"
               /\ tracker' = [tracker EXCEPT !.pc = "loop", !.todo = {t \in Trades : trade[t].state = "OPEN"}]
      BY <3>1, <3>4 DEF TypeOK, TrackerTyped
    <3> QED BY <1>8, <3>2, <3>3, <3>4
  <2> QED BY <1>6, <1>8, <2>1, <2>2 DEF TypeOK
<1>9. CASE (\E t \in Trades : SampleFails(t)) \/ TakeTick \/ ListOpen \/ TickDone \/ ERestart
  <2>1. UNCHANGED marketFrame /\ UNCHANGED <<samples, handled>>
    BY <1>9 DEF SampleFails, TakeTick, ListOpen, TickDone, ERestart
  <2>2. lastWritten' = lastWritten \/ lastWritten' = [t \in Trades |-> NoSample]
    BY <1>9 DEF SampleFails, TakeTick, ListOpen, TickDone, ERestart
  <2>3. \/ tracker' = Waiting
        \/ tracker' = [Waiting EXCEPT !.pc = "list", !.bid = bid, !.minute = minute]
        \/ /\ tracker.pc = "list"
           /\ tracker' = [tracker EXCEPT !.pc = "loop", !.todo = {t \in Trades : trade[t].state = "OPEN"}]
    BY <1>9 DEF SampleFails, TakeTick, ListOpen, TickDone, ERestart
  <2> QED BY <1>8, <2>1, <2>2, <2>3
<1>10. CASE UNCHANGED excursionVars
  BY <1>1, <1>6, <1>10 DEF excursionVars, TypeOK, marketFrame, MarketTyped
<1> QED
  BY <1>2, <1>3, <1>4, <1>5, <1>7, <1>9, <1>10 DEF ENext

(* Every variable keeps its type.                                          *)
THEOREM TypeCorrect == ESpec => []TypeOK
BY TypeInit, TypeStep, PTL DEF ESpec

-----------------------------------------------------------------------------
(* ExcursionsKept: the sample the process remembers writing is stored.     *)

Remembered == \A t \in Trades : lastWritten[t] # NoSample => lastWritten[t] \in samples[t]

(* A tick that is not written is near the sample that was.                 *)
LEMMA UnwrittenIsNear ==
    ASSUME TypeOK, NEW t \in Trades, tracker.pc # "idle", ~ShouldWrite(t, BuildSample(t))
    PROVE  /\ lastWritten[t] # NoSample
           /\ lastWritten[t].adverse > BuildSample(t).adverse - MinMove
           /\ lastWritten[t].favorable > BuildSample(t).favorable - MinMove
<1> DEFINE s == BuildSample(t)
           last == lastWritten[t]
<1>1. s \in Sampled
  BY SampleTyped DEF TypeOK, MarketTyped, SamplesTyped
<1>2. last # NoSample /\ ~(Distance(s.adverse, last.adverse) >= MinMove)
                      /\ ~(Distance(s.favorable, last.favorable) >= MinMove)
  BY DEF ShouldWrite
<1>3. last \in Sampled
  BY <1>2 DEF TypeOK, MarketTyped, SamplesTyped
<1> HIDE DEF s, last
<1>4. {s.adverse, s.favorable, last.adverse, last.favorable} \subseteq Int /\ MinMove \in Int
  BY <1>1, <1>3, ExcursionAssumption DEF Sampled
<1>5. last.adverse > s.adverse - MinMove /\ last.favorable > s.favorable - MinMove
  BY <1>2, <1>4 DEF Distance
<1> QED BY <1>2, <1>5 DEF s, last

(* Every step keeps the excursions of the samples seen.                    *)
LEMMA KeptStep ==
    TypeOK /\ Remembered /\ ExcursionsKept /\ [ENext]_excursionVars
        => Remembered' /\ ExcursionsKept'
<1> SUFFICES ASSUME TypeOK, Remembered, ExcursionsKept, [ENext]_excursionVars
             PROVE  Remembered' /\ ExcursionsKept'
  OBVIOUS
<1>1. ASSUME NEW t \in Trades, Sample(t) PROVE Remembered' /\ ExcursionsKept'
  <2> DEFINE s == BuildSample(t)
  <2>1. tracker.pc # "idle" /\ handled' = [handled EXCEPT ![t] = @ \cup {s}]
    BY <1>1 DEF Sample
  <2>2. s \in Sampled /\ MinMove \in Nat /\ MinMove > 0
    BY <2>1, SampleTyped, ExcursionAssumption DEF TypeOK, MarketTyped, SamplesTyped
  <2>3. s.adverse > s.adverse - MinMove /\ s.favorable > s.favorable - MinMove
    BY <2>2 DEF Sampled
  <2>4. Remembered' /\ \A u \in Trades : samples[u] \subseteq samples'[u]
    <3>1. samples \in [Trades -> SUBSET Sampled] /\ lastWritten \in [Trades -> Sampled \cup {NoSample}]
      BY DEF TypeOK, SamplesTyped
    <3>2. CASE ShouldWrite(t, s)
      <4>1. samples' = [samples EXCEPT ![t] = @ \cup {s}] /\ lastWritten' = [lastWritten EXCEPT ![t] = s]
        BY <1>1, <3>2 DEF Sample
      <4> HIDE DEF s
      <4> QED BY <3>1, <4>1 DEF Remembered
    <3>3. CASE ~ShouldWrite(t, s)
      <4>1. UNCHANGED <<samples, lastWritten>>
        BY <1>1, <3>3 DEF Sample
      <4> QED BY <4>1 DEF Remembered
    <3> QED BY <3>2, <3>3
  <2>5. \E k \in samples'[t] : k.adverse > s.adverse - MinMove
    <3>1. CASE ShouldWrite(t, s)
      BY <1>1, <2>3, <3>1 DEF Sample, TypeOK, SamplesTyped
    <3>2. CASE ~ShouldWrite(t, s)
      BY <2>1, <2>4, <3>2, UnwrittenIsNear DEF Remembered
    <3> QED BY <3>1, <3>2
  <2>6. \E k \in samples'[t] : k.favorable > s.favorable - MinMove
    <3>1. CASE ShouldWrite(t, s)
      BY <1>1, <2>3, <3>1 DEF Sample, TypeOK, SamplesTyped
    <3>2. CASE ~ShouldWrite(t, s)
      BY <2>1, <2>4, <3>2, UnwrittenIsNear DEF Remembered
    <3> QED BY <3>1, <3>2
  <2>7. \A u \in Trades : \A h \in handled'[u] : h \in handled[u] \/ (u = t /\ h = s)
    BY <2>1 DEF TypeOK, MarketTyped, SamplesTyped
  <2> HIDE DEF s
  <2>8. ASSUME NEW u \in Trades, NEW h \in handled'[u]
        PROVE  /\ \E k \in samples'[u] : k.adverse > h.adverse - MinMove
               /\ \E k \in samples'[u] : k.favorable > h.favorable - MinMove
    <3>1. CASE h \in handled[u]
      BY <3>1, <2>4 DEF ExcursionsKept
    <3>2. CASE u = t /\ h = s
      BY <3>2, <2>5, <2>6
    <3> QED BY <2>7, <3>1, <3>2
  <2> QED BY <2>4, <2>8 DEF ExcursionsKept
<1>2. ASSUME UNCHANGED <<samples, handled>>,
             lastWritten' = lastWritten \/ lastWritten' = [t \in Trades |-> NoSample]
      PROVE  Remembered' /\ ExcursionsKept'
  BY <1>2 DEF Remembered, ExcursionsKept
<1>3. CASE \E t \in Trades : OpenTrade(t) \/ CloseTrade(t) \/ SampleFails(t)
  BY <1>2, <1>3 DEF OpenTrade, CloseTrade, SampleFails
<1>4. CASE PriceMoves \/ MinutePasses \/ TakeTick \/ ListOpen \/ TickDone \/ ERestart
  BY <1>2, <1>4 DEF PriceMoves, MinutePasses, TakeTick, ListOpen, TickDone, ERestart
<1>5. CASE UNCHANGED excursionVars
  BY <1>2, <1>5 DEF excursionVars
<1> QED BY <1>1, <1>3, <1>4, <1>5 DEF ENext

(* Whatever excursion a tick showed, a stored sample comes within MinMove  *)
(* of it (_should_write): for any number of trades, any prices and any     *)
(* sequence of failed reads, failed inserts and restarts.                  *)
THEOREM SamplingKeepsExcursions == ESpec => []ExcursionsKept
<1>1. EInit => Remembered /\ ExcursionsKept
  BY DEF EInit, Remembered, ExcursionsKept
<1> QED BY <1>1, TypeCorrect, KeptStep, PTL DEF ESpec

-----------------------------------------------------------------------------
(* ReportCoversSamples: what the tracker holds is a price of the candle of *)
(* its minute, and so is every sample of a trade that is still open.       *)

InCandle(b, m) == b \in Bids /\ candles[m].low <= b /\ b <= candles[m].high

FromCandle(t, s) ==
    /\ s.minute <= minute
    /\ \E b \in Bids : /\ InCandle(b, s.minute)
                          /\ s.adverse = Adverse(t, b) /\ s.favorable = Favorable(t, b)

Witnessed ==
    /\ InCandle(bid, minute)
    /\ tracker.pc # "idle" => InCandle(tracker.bid, tracker.minute)
    /\ tracker.pc = "loop" => \A t \in tracker.todo : trade[t].state # "NONE"
    /\ \A t \in Trades : trade[t].state = "NONE" => samples[t] = {}
    /\ \A t \in Trades : trade[t].minute <= minute
    /\ \A t \in Trades : \A s \in samples[t] : FromCandle(t, s)

(* The adverse excursion falls with the bid for a long trade and rises for *)
(* a short one, and the favorable one the other way round.                 *)
LEMMA ExcursionsFollowBids ==
    ASSUME TypeOK, NEW t \in Trades, NEW low \in Bids, NEW high \in Bids, low <= high
    PROVE  /\ trade[t].side = "LONG" => /\ Adverse(t, high) <= Adverse(t, low)
                                        /\ Favorable(t, low) <= Favorable(t, high)
           /\ trade[t].side # "LONG" => /\ Adverse(t, low) <= Adverse(t, high)
                                        /\ Favorable(t, high) <= Favorable(t, low)
<1>1. {low, high, Spread, trade[t].price} \subseteq Int
  BY ExcursionAssumption DEF TypeOK, MarketTyped, Bids
<1> QED BY <1>1 DEF Adverse, Favorable, Higher

(* Excursions are no larger than the prices.                               *)
LEMMA ExcursionsBounded ==
    ASSUME TypeOK, NEW t \in Trades
    PROVE  \E hi \in Int : hi >= 0 /\ \A b \in Bids : Adverse(t, b) <= hi /\ Favorable(t, b) <= hi
<1> DEFINE p == trade[t].price
           hi == Higher(0, p) + Higher(0, 0 - p) + Spread + MaxBid
<1>1. p \in Int /\ Spread \in Nat /\ MaxBid \in Nat
  BY ExcursionAssumption DEF TypeOK, MarketTyped
<1>2. hi \in Int /\ hi >= 0 /\ \A b \in Bids : Adverse(t, b) <= hi /\ Favorable(t, b) <= hi
  <2>1. ASSUME NEW b \in 1 .. MaxBid PROVE Adverse(t, b) <= hi /\ Favorable(t, b) <= hi
    <3>1. b \in Int /\ 1 <= b /\ b <= MaxBid
      BY <1>1, <2>1
    <3>2. CASE trade[t].side = "LONG"
      <4>1. Adverse(t, b) = Higher(0, p - b) /\ Favorable(t, b) = Higher(0, b - p)
        BY <3>2 DEF Adverse, Favorable
      <4> HIDE DEF p
      <4> QED BY <1>1, <3>1, <4>1 DEF Higher
    <3>3. CASE trade[t].side # "LONG"
      <4>1. Adverse(t, b) = Higher(0, b + Spread - p) /\ Favorable(t, b) = Higher(0, p - (b + Spread))
        BY <3>3 DEF Adverse, Favorable
      <4> HIDE DEF p
      <4> QED BY <1>1, <3>1, <4>1 DEF Higher
    <3> QED BY <3>2, <3>3
  <2>2. hi \in Int /\ hi >= 0
    <3> HIDE DEF p
    <3> QED BY <1>1 DEF Higher
  <2> QED BY <2>1, <2>2 DEF Bids
<1> QED BY <1>2

(* The replay finds at least the excursions of every price of its candles. *)
LEMMA FrameBounds ==
    ASSUME TypeOK, NEW t \in Trades, NEW frame, frame \subseteq 0 .. MaxMinute,
           NEW m \in frame, NEW b, InCandle(b, m)
    PROVE  Adverse(t, b) <= SummaryFromFrame(t, frame).mae /\ Favorable(t, b) <= SummaryFromFrame(t, frame).mfe
<1> DEFINE L == {candles[k].low : k \in frame}
           H == {candles[k].high : k \in frame}
<1>1. /\ L \subseteq Bids /\ H \subseteq Bids /\ MaxBid \in Nat
      /\ candles[m].low \in L /\ candles[m].high \in H
  BY ExcursionAssumption DEF TypeOK, MarketTyped
<1>2. SummaryFromFrame(t, frame) =
         IF trade[t].side = "LONG" THEN [mae |-> Adverse(t, Least(L)), mfe |-> Favorable(t, Greatest(H))]
         ELSE [mae |-> Adverse(t, Greatest(H)), mfe |-> Favorable(t, Least(L))]
  BY DEF SummaryFromFrame
<1> HIDE DEF L, H
<1>3. Least(L) \in Bids /\ Least(L) <= candles[m].low
  <2>1. L \subseteq Nat
    BY <1>1 DEF Bids
  <2> QED BY <1>1, <2>1, LeastBounds
<1>4. Greatest(H) \in Bids /\ candles[m].high <= Greatest(H)
  <2>1. H \subseteq Int /\ MaxBid \in Int /\ \A x \in H : x <= MaxBid
    BY <1>1 DEF Bids
  <2>2. candles[m].high <= Greatest(H) /\ Greatest(H) \in H
    BY <1>1, <2>1, GreatestBounds
  <2> QED BY <1>1, <2>2
<1>5. b \in Bids /\ Least(L) <= b /\ b <= Greatest(H)
  <2>1. candles[m].low \in Bids /\ candles[m].high \in Bids
    BY <1>1
  <2> QED BY <1>1, <1>3, <1>4, <2>1 DEF InCandle, Bids
<1>6. CASE trade[t].side = "LONG"
  <2>1. Adverse(t, b) <= Adverse(t, Least(L)) /\ Favorable(t, b) <= Favorable(t, Greatest(H))
    BY <1>3, <1>4, <1>5, <1>6, ExcursionsFollowBids
  <2> QED BY <1>2, <1>6, <2>1
<1>7. CASE trade[t].side # "LONG"
  <2>1. Adverse(t, b) <= Adverse(t, Greatest(H)) /\ Favorable(t, b) <= Favorable(t, Least(L))
    BY <1>3, <1>4, <1>5, <1>7, ExcursionsFollowBids
  <2> QED BY <1>2, <1>7, <2>1
<1> QED BY <1>6, <1>7

(* The greatest excursions of the samples bound each of them.              *)
LEMMA SamplesBound ==
    ASSUME TypeOK, Witnessed, NEW t \in Trades, NEW s \in samples[t]
    PROVE  s.adverse <= SummaryFromSamples(t).mae /\ s.favorable <= SummaryFromSamples(t).mfe
<1> DEFINE A == {k.adverse : k \in samples[t]}
           F == {k.favorable : k \in samples[t]}
<1>1. PICK hi \in Int : hi >= 0 /\ \A c \in Bids : Adverse(t, c) <= hi /\ Favorable(t, c) <= hi
  BY ExcursionsBounded
<1>2. ASSUME NEW k \in samples[t]
      PROVE  k.adverse \in Int /\ k.favorable \in Int /\ k.adverse <= hi /\ k.favorable <= hi
  <2>1. k \in Sampled /\ FromCandle(t, k)
    BY DEF TypeOK, SamplesTyped, Witnessed
  <2> QED BY <1>1, <2>1 DEF FromCandle, Sampled
<1>3. /\ A \subseteq Int /\ F \subseteq Int /\ (\A x \in A : x <= hi) /\ (\A x \in F : x <= hi)
      /\ s.adverse \in A /\ s.favorable \in F
  BY <1>2
<1>4. SummaryFromSamples(t) = [mae |-> Greatest(A), mfe |-> Greatest(F)]
  BY DEF SummaryFromSamples
<1> HIDE DEF A, F
<1>5. s.adverse <= Greatest(A) /\ s.favorable <= Greatest(F)
  BY <1>3, GreatestBounds
<1> QED BY <1>4, <1>5

(* Samples that are all witnessed by candles are covered by the report.    *)
LEMMA WitnessedCovers == TypeOK /\ Witnessed => ReportCoversSamples
<1> SUFFICES ASSUME TypeOK, Witnessed, NEW t \in Trades, NEW frame \in LoadedFrames, NEW s \in samples[t],
                    \/ trade[t].state = "CLOSED" \/ frame = {} \/ trade[t].minute = minute
                    \/ s.minute \in trade[t].minute .. minute - 1
             PROVE  s.adverse <= Summary(t, frame).mae /\ s.favorable <= Summary(t, frame).mfe
  BY DEF ReportCoversSamples
<1> DEFINE slice == SliceTradeFrame(t, frame)
<1>1. minute \in 0 .. MaxMinute /\ MaxMinute \in Nat /\ trade[t].minute \in 0 .. MaxMinute /\ s.minute \in 0 .. MaxMinute
  BY ExcursionAssumption DEF TypeOK, MarketTyped, SamplesTyped, Sampled
<1>2. CASE trade[t].state = "OPEN" /\ slice # {}
  <2>1. Summary(t, frame) = SummaryFromFrame(t, slice)
    BY <1>2 DEF Summary
  <2>2. frame = Frame /\ slice \subseteq 0 .. MaxMinute
    <3>1. frame # {}
      BY <1>2 DEF SliceTradeFrame
    <3>2. frame = Frame
      BY <3>1 DEF LoadedFrames
    <3>3. Frame \subseteq 0 .. MaxMinute
      BY <1>1 DEF Frame
    <3>4. slice \subseteq frame
      BY DEF SliceTradeFrame
    <3> QED BY <3>2, <3>3, <3>4
  <2>3. trade[t].minute # minute
    <3>1. PICK m \in slice : TRUE
      BY <1>2
    <3>2. m \in 0 .. minute - 1 /\ m >= trade[t].minute
      BY <2>2, <3>1 DEF SliceTradeFrame, Frame
    <3> QED BY <1>1, <3>2
  <2>4. s.minute \in slice
    <3>1. s.minute \in trade[t].minute .. minute - 1
      BY <1>2, <2>3 DEF SliceTradeFrame
    <3> QED BY <1>1, <1>2, <2>2, <3>1 DEF SliceTradeFrame, Frame
  <2>5. PICK b \in Bids : /\ InCandle(b, s.minute)
                          /\ s.adverse = Adverse(t, b) /\ s.favorable = Favorable(t, b)
    BY DEF Witnessed, FromCandle
  <2> HIDE DEF slice
  <2> QED BY <2>1, <2>2, <2>4, <2>5, FrameBounds
<1>3. CASE ~(trade[t].state = "OPEN" /\ slice # {})
  <2>1. Summary(t, frame) = SummaryFromSamples(t)
    BY <1>3 DEF Summary
  <2> QED BY <2>1, SamplesBound
<1> QED BY <1>2, <1>3

(* A candle of an earlier or of the current minute only widens.            *)
LEMMA CandlesWiden ==
    ASSUME TypeOK, Witnessed, [ENext]_excursionVars
    PROVE  /\ \A m \in 0 .. MaxMinute : \A b : m <= minute /\ InCandle(b, m) => InCandle(b, m)'
           /\ minute \in Int /\ minute' \in Int /\ minute' >= minute
           /\ InCandle(bid, minute)'
<1>1. minute \in 0 .. MaxMinute /\ candles \in [0 .. MaxMinute -> [low : Bids, high : Bids]] /\ Bids \subseteq Int
  BY DEF TypeOK, MarketTyped, Bids
<1>2. InCandle(bid, minute)
  BY DEF Witnessed
<1>3. CASE PriceMoves
  <2>1. PICK p \in Bids : /\ bid' = p
                            /\ candles' = [candles EXCEPT ![minute] =
                                              [low |-> Lower(@.low, p), high |-> Higher(@.high, p)]]
    BY <1>3 DEF PriceMoves, Bids
  <2>2. UNCHANGED minute
    BY <1>3 DEF PriceMoves
  <2>3. /\ candles'[minute].low = Lower(candles[minute].low, p)
        /\ candles'[minute].high = Higher(candles[minute].high, p)
        /\ \A m \in 0 .. MaxMinute : m # minute => candles'[m] = candles[m]
    BY <1>1, <2>1
  <2>4. candles[minute].low \in Int /\ candles[minute].high \in Int /\ p \in Int
    BY <1>1
  <2>5. candles'[minute].low <= p /\ p <= candles'[minute].high
        /\ candles'[minute].low <= candles[minute].low /\ candles[minute].high <= candles'[minute].high
        /\ candles'[minute].low \in Int /\ candles'[minute].high \in Int
    BY <2>3, <2>4 DEF Lower, Higher
  <2>6. ASSUME NEW m \in 0 .. MaxMinute, NEW b, InCandle(b, m) PROVE InCandle(b, m)'
    <3>1. CASE m # minute
      BY <2>3, <2>6, <3>1 DEF InCandle
    <3>2. CASE m = minute
      BY <1>1, <2>4, <2>5, <2>6, <3>2 DEF InCandle
    <3> QED BY <3>1, <3>2
  <2> QED BY <1>1, <2>1, <2>2, <2>5, <2>6 DEF InCandle
<1>4. CASE MinutePasses
  <2>1. /\ minute' = minute + 1 /\ minute + 1 \in 0 .. MaxMinute /\ bid' = bid
        /\ candles' = [candles EXCEPT ![minute + 1] = [low |-> bid, high |-> bid]]
    BY <1>1, <1>4, ExcursionAssumption DEF MinutePasses
  <2>2. candles'[minute'].low = bid' /\ candles'[minute'].high = bid' /\ bid' \in Bids
    BY <1>1, <1>2, <2>1 DEF InCandle
  <2>3. \A m \in 0 .. MaxMinute : m <= minute => candles'[m] = candles[m]
    BY <1>1, <2>1
  <2>4. InCandle(bid, minute)'
    <3>1. \A x \in Int : x <= x
      OBVIOUS
    <3>2. bid' \in Int
      BY <1>1, <2>2
    <3>3. bid' <= bid'
      BY <3>1, <3>2
    <3> QED BY <2>2, <3>3 DEF InCandle
  <2> QED BY <1>1, <2>1, <2>3, <2>4 DEF InCandle
<1>5. CASE UNCHANGED marketFrame
  BY <1>1, <1>2, <1>5 DEF marketFrame, InCandle
<1>6. CASE \E t \in Trades : OpenTrade(t) \/ CloseTrade(t)
  <2>1. UNCHANGED <<minute, bid, candles>>
    BY <1>6 DEF OpenTrade, CloseTrade
  <2> QED BY <1>1, <1>2, <2>1 DEF InCandle
<1>7. CASE (\E t \in Trades : Sample(t) \/ SampleFails(t)) \/ TakeTick \/ ListOpen \/ TickDone \/ ERestart
  BY <1>5, <1>7 DEF Sample, SampleFails, TakeTick, ListOpen, TickDone, ERestart
<1>8. CASE UNCHANGED excursionVars
  BY <1>5, <1>8 DEF excursionVars, marketFrame
<1> QED BY <1>3, <1>4, <1>6, <1>7, <1>8 DEF ENext

(* A stored sample stays one of its candle while its trade keeps its side  *)
(* and price.                                                              *)
LEMMA SamplesStayInCandles ==
    ASSUME TypeOK, Witnessed, [ENext]_excursionVars, NEW t \in Trades, NEW s \in samples[t],
           trade'[t].side = trade[t].side, trade'[t].price = trade[t].price
    PROVE  FromCandle(t, s)'
<1>1. s.minute \in 0 .. MaxMinute /\ s.minute <= minute
  BY DEF TypeOK, SamplesTyped, Sampled, Witnessed, FromCandle
<1>2. PICK b \in Bids : /\ InCandle(b, s.minute)
                          /\ s.adverse = Adverse(t, b) /\ s.favorable = Favorable(t, b)
  BY DEF Witnessed, FromCandle
<1>3. InCandle(b, s.minute)'
  BY <1>1, <1>2, CandlesWiden
<1>4. s.minute <= minute'
  BY <1>1, CandlesWiden
<1>5. s.adverse = Adverse(t, b)' /\ s.favorable = Favorable(t, b)'
  BY <1>2 DEF Adverse, Favorable
<1> QED BY <1>3, <1>4, <1>5 DEF FromCandle

(* Every step leaves the prices witnessed.                                 *)
LEMMA WitnessedStep == TypeOK /\ Witnessed /\ [ENext]_excursionVars => Witnessed'
<1> SUFFICES ASSUME TypeOK, Witnessed, [ENext]_excursionVars PROVE Witnessed'
  OBVIOUS
<1>1. InCandle(bid, minute)' /\ minute \in Int /\ minute' \in Int /\ minute' >= minute
  BY CandlesWiden
<1>2. trade \in [Trades -> [state : {"NONE", "OPEN", "CLOSED"}, side : {"LONG", "SHORT"},
                            price : Int, minute : 0 .. MaxMinute]]
      /\ minute \in 0 .. MaxMinute /\ samples \in [Trades -> SUBSET Sampled]
  BY DEF TypeOK, MarketTyped, SamplesTyped
(* A step that keeps the samples and the trades that are not new.          *)
<1>3. ASSUME UNCHANGED samples,
             \A t \in Trades : /\ trade'[t].minute = trade[t].minute \/ trade'[t].minute = minute
                               /\ trade[t].state # "NONE" =>
                                    /\ trade'[t].state # "NONE"
                                    /\ trade'[t].side = trade[t].side /\ trade'[t].price = trade[t].price,
             tracker'.pc # "idle" => InCandle(tracker.bid, tracker.minute)',
             tracker'.pc = "loop" => \A t \in tracker'.todo : trade[t].state # "NONE" /\ t \in Trades
      PROVE  Witnessed'
  <2>1. ASSUME NEW t \in Trades PROVE trade'[t].minute <= minute'
    <3>1. trade[t].minute <= minute /\ trade[t].minute \in Int
      BY <1>2 DEF Witnessed
    <3> QED BY <1>1, <1>3, <3>1
  <2>2. ASSUME NEW t \in Trades, NEW s \in samples'[t] PROVE FromCandle(t, s)'
    <3>1. s \in samples[t] /\ trade[t].state # "NONE"
      BY <1>3 DEF Witnessed
    <3> QED BY <1>3, <3>1, SamplesStayInCandles
  <2>3. \A t \in Trades : trade'[t].state = "NONE" => samples'[t] = {}
    BY <1>3 DEF Witnessed
  <2>4. tracker'.pc = "loop" => \A t \in tracker'.todo : trade'[t].state # "NONE"
    BY <1>3
  <2> QED BY <1>1, <1>3, <2>1, <2>2, <2>3, <2>4 DEF Witnessed
<1>4. CASE PriceMoves \/ MinutePasses \/ UNCHANGED excursionVars
  <2>1. UNCHANGED <<samples, trade, tracker>>
    BY <1>4 DEF PriceMoves, MinutePasses, excursionVars
  <2>2. tracker.pc # "idle" => tracker.minute \in 0 .. MaxMinute /\ tracker.minute <= minute
        /\ InCandle(tracker.bid, tracker.minute)
    BY DEF TypeOK, TrackerTyped, Witnessed
  <2>3. tracker'.pc # "idle" => InCandle(tracker.bid, tracker.minute)'
    <3>1. tracker.pc # "idle" => InCandle(tracker.bid, tracker.minute)'
      BY <2>1, <2>2, CandlesWiden DEF InCandle
    <3> QED BY <2>1, <3>1
  <2>4. tracker.pc = "loop" => \A t \in tracker.todo : trade[t].state # "NONE" /\ t \in Trades
    BY DEF Witnessed, TypeOK, TrackerTyped
  <2> QED BY <1>3, <2>1, <2>3, <2>4
<1>5. ASSUME NEW u \in Trades, OpenTrade(u) \/ CloseTrade(u) PROVE Witnessed'
  <2>1. UNCHANGED <<samples, tracker, candles, minute, bid>>
    BY <1>5 DEF OpenTrade, CloseTrade
  <2>2. tracker'.pc # "idle" => InCandle(tracker.bid, tracker.minute)'
    BY <2>1 DEF Witnessed, InCandle
  <2>3. tracker.pc = "loop" => \A t \in tracker.todo : trade[t].state # "NONE" /\ t \in Trades
    BY DEF Witnessed, TypeOK, TrackerTyped
  <2>4. ASSUME NEW t \in Trades
        PROVE  /\ trade'[t].minute = trade[t].minute \/ trade'[t].minute = minute
               /\ trade[t].state # "NONE" =>
                    /\ trade'[t].state # "NONE"
                    /\ trade'[t].side = trade[t].side /\ trade'[t].price = trade[t].price
    BY <1>2, <1>5 DEF OpenTrade, CloseTrade
  <2> QED BY <1>3, <2>1, <2>2, <2>3, <2>4
<1>6. CASE (\E t \in Trades : SampleFails(t)) \/ TakeTick \/ ListOpen \/ TickDone \/ ERestart
  <2>1. UNCHANGED marketFrame /\ UNCHANGED samples
    BY <1>6 DEF SampleFails, TakeTick, ListOpen, TickDone, ERestart
  <2>2. UNCHANGED <<candles, minute, bid, trade>>
    BY <2>1 DEF marketFrame
  <2>3. /\ tracker'.pc # "idle" => InCandle(tracker.bid, tracker.minute)'
        /\ tracker'.pc = "loop" => \A t \in tracker'.todo : trade[t].state # "NONE" /\ t \in Trades
    <3>1. CASE ListOpen
      <4>1. tracker' = Waiting \/ tracker' = [tracker EXCEPT !.pc = "loop",
                                               !.todo = {t \in Trades : trade[t].state = "OPEN"}]
        BY <3>1 DEF ListOpen
      <4>2. tracker.pc = "list"
        BY <3>1 DEF ListOpen
      <4>3. CASE tracker' = Waiting
        BY <4>3 DEF Waiting
      <4>4. CASE tracker' = [tracker EXCEPT !.pc = "loop", !.todo = {t \in Trades : trade[t].state = "OPEN"}]
        <5>1. tracker'.bid = tracker.bid /\ tracker'.minute = tracker.minute
              /\ tracker'.todo = {t \in Trades : trade[t].state = "OPEN"}
          BY <4>4 DEF TypeOK, TrackerTyped
        <5>2. InCandle(tracker.bid, tracker.minute)
          BY <4>2 DEF Witnessed
        <5> QED BY <2>2, <5>1, <5>2 DEF InCandle
      <4> QED BY <4>1, <4>3, <4>4
    <3>2. CASE TakeTick
      BY <1>1, <2>2, <3>2 DEF TakeTick, Waiting, InCandle, Witnessed
    <3>3. CASE (\E t \in Trades : SampleFails(t)) \/ TickDone \/ ERestart
      BY <3>3 DEF SampleFails, TickDone, ERestart, Waiting
    <3> QED BY <1>6, <3>1, <3>2, <3>3
  <2> QED BY <1>3, <2>1, <2>2, <2>3
<1>7. ASSUME NEW u \in Trades, Sample(u) PROVE Witnessed'
  <2> DEFINE n == BuildSample(u)
  <2>1. UNCHANGED <<candles, minute, bid, trade>>
    BY <1>7 DEF Sample, marketFrame
  <2>2. /\ tracker.pc = "loop" /\ u \in tracker.todo
        /\ tracker' = [tracker EXCEPT !.todo = @ \ {u}]
        /\ UNCHANGED samples \/ samples' = [samples EXCEPT ![u] = @ \cup {n}]
    BY <1>7 DEF Sample, Next1
  <2>3. tracker.bid \in Bids /\ tracker.minute <= minute /\ InCandle(tracker.bid, tracker.minute)
    BY <2>2 DEF Witnessed, TypeOK, TrackerTyped
  <2>4. FromCandle(u, n)
    BY <2>3 DEF FromCandle, BuildSample
  <2>5. \A t \in Trades : \A s \in samples'[t] : s \in samples[t] \/ (t = u /\ s = n)
    BY <1>2, <2>2
  <2> HIDE DEF n
  <2>6. \A t \in Trades : \A s \in samples'[t] : FromCandle(t, s)
    BY <2>4, <2>5 DEF Witnessed
  <2>7. \A t \in Trades : \A s : FromCandle(t, s) => FromCandle(t, s)'
    BY <2>1 DEF FromCandle, InCandle, Adverse, Favorable
  <2>8. trade[u].state # "NONE"
    BY <2>2 DEF Witnessed
  <2>9. \A t \in Trades : trade'[t].state = "NONE" => samples'[t] = {}
    BY <1>2, <2>1, <2>2, <2>8 DEF Witnessed
  <2>10. /\ tracker'.pc = "loop" /\ tracker'.bid = tracker.bid /\ tracker'.minute = tracker.minute
         /\ tracker'.todo \subseteq tracker.todo
    BY <2>2 DEF TypeOK, TrackerTyped
  <2> QED BY <1>1, <2>1, <2>2, <2>3, <2>6, <2>7, <2>9, <2>10 DEF Witnessed, InCandle
<1> QED BY <1>4, <1>5, <1>6, <1>7 DEF ENext

(* The report of a trade is no milder than its samples, but for those that *)
(* a replay leaves out, of the running minute and from before the minute   *)
(* the trade opened in (summary_map_for_open_trades): for any prices,      *)
(* spread, faults, failed requests for candles and any delay between a     *)
(* tick and its handling.                                                  *)
THEOREM ReportCovers == ESpec => []ReportCoversSamples
<1>1. EInit => Witnessed
  BY ExcursionAssumption DEF EInit, Witnessed, InCandle, Bids, Waiting
<1> QED BY <1>1, TypeCorrect, WitnessedStep, WitnessedCovers, PTL DEF ESpec

-----------------------------------------------------------------------------
(* The next opening.                                                       *)

(* The times at which some category opens.                                 *)
Openings == UNION {{sessions[c][i].open : i \in DOMAIN sessions[c]} : c \in Categories}

(* n is the first opening after t among those of S, Never if there is none. *)
FirstAfter(n, S, t) ==
    IF \E o \in S : o > t THEN n \in S /\ n > t /\ \A o \in S : o > t => n <= o
    ELSE n = Never

(* The times at which the category c opens.                                *)
OpeningsOf(c) == {sessions[c][i].open : i \in DOMAIN sessions[c]}

(* Earliest of candidates that reach every opening after t is the first of *)
(* them.                                                                   *)
LEMMA EarliestIsFirst ==
  ASSUME NEW S, NEW t \in Nat, S \subseteq Nat, NEW F, F \subseteq S, \A o \in F : o > t,
         (\E o \in S : o > t) => \E o \in F : \A p \in S : p > t => o <= p
  PROVE  FirstAfter(Earliest(F), S, t)
<1>1. CASE F = {}
  <2>1. Earliest(F) = Never
    BY <1>1 DEF Earliest
  <2> QED BY <1>1, <2>1 DEF FirstAfter
<1>2. CASE F # {}
  <2>1. Earliest(F) = Min(F) /\ F \subseteq Nat
    BY <1>2 DEF Earliest
  <2>2. Min(F) \in F /\ \A x \in F : Min(F) <= x
    BY <2>1, <1>2, LeastOfNaturals
  <2>3. PICK o \in F : \A p \in S : p > t => o <= p
    BY <2>2
  <2>4. Min(F) \in S /\ Min(F) > t
    BY <2>2
  <2>5. ASSUME NEW p \in S, p > t PROVE Min(F) <= p
    <3>1. Min(F) <= o /\ o <= p
      BY <2>2, <2>3, <2>5
    <3>2. Min(F) \in Nat /\ o \in Nat /\ p \in Nat
      BY <2>1, <2>2
    <3> QED BY <3>1, <3>2
  <2> QED BY <2>1, <2>4, <2>5 DEF FirstAfter
<1> QED BY <1>1, <1>2

(* The sessions of a timetable are listed from 1 and have whole times.     *)
LEMMA SessionsAreNumbers ==
  ASSUME Timetable(sessions), NEW c \in Categories
  PROVE  /\ DOMAIN sessions[c] = 1 .. Len(sessions[c]) /\ Len(sessions[c]) \in Nat
         /\ \A i \in DOMAIN sessions[c] :
               i \in Nat /\ sessions[c][i].open \in Nat /\ sessions[c][i].close \in Nat
<1>1. sessions[c] \in Seq([open : Nat, close : Nat])
  BY DEF Timetable
<1>2. ASSUME NEW T, NEW s \in Seq(T)
      PROVE  DOMAIN s = 1 .. Len(s) /\ Len(s) \in Nat /\ \A i \in DOMAIN s : i \in Nat /\ s[i] \in T
  OBVIOUS
<1> DEFINE T == [open : Nat, close : Nat]
<1>3. \A x \in T : x.open \in Nat /\ x.close \in Nat
  OBVIOUS
<1> HIDE DEF T
<1> QED BY <1>1, <1>2, <1>3 DEF T

(* While no session is under way, the look-ahead reaches the next opening. *)
LEMMA FindsNextOpen ==
  ASSUME Timetable(sessions), NEW c \in Categories, NEW t \in Nat, Spanning(c, t) = {}
  PROVE  FirstAfter(FindNextOpenAfter(c, t), OpeningsOf(c), t)
<1> DEFINE s  == sessions[c]
           js == {j \in DOMAIN s : s[j].open > t}
           F  == {s[i].open : i \in {j \in Coming(c, t) : s[j].open > t}}
<1>1. /\ s \in Seq([open : Nat, close : Nat])
      /\ \A i \in DOMAIN s : /\ s[i].open + Grace < s[i].close
                             /\ \A j \in DOMAIN s : i < j => s[i].close + 1 < s[j].open
                             /\ s[i].open <= LookAhead + (IF i = 1 THEN 0 ELSE s[i - 1].close)
  BY DEF Timetable
<1>2. /\ DOMAIN s = 1 .. Len(s) /\ Len(s) \in Nat
      /\ \A i \in DOMAIN s : i \in Nat /\ s[i].open \in Nat /\ s[i].close \in Nat
  BY SessionsAreNumbers
<1>3. OpeningsOf(c) \subseteq Nat /\ F \subseteq OpeningsOf(c) /\ \A o \in F : o > t
  BY <1>2 DEF OpeningsOf, Coming
<1>4. ASSUME \E o \in OpeningsOf(c) : o > t PROVE \E o \in F : \A p \in OpeningsOf(c) : p > t => o <= p
  <2>1. js # {} /\ js \subseteq Nat
    BY <1>4, <1>2 DEF OpeningsOf
  <2>2. PICK k \in js : \A j \in js : k <= j
    <3> HIDE DEF js
    <3> QED BY <2>1, LeastOfNaturals
  <2>3. k \in DOMAIN s /\ k \in 1 .. Len(s) /\ s[k].open > t
    BY <2>2, <1>1
  <2>4. s[k].open <= t + LookAhead
    <3>1. CASE k = 1
      <4>1. s[k].open <= LookAhead + 0
        BY <3>1, <2>3, <1>1
      <4> QED BY <4>1, <2>3, <1>2, Bounds
    <3>2. CASE k # 1
      <4>1. k - 1 \in DOMAIN s /\ k - 1 \notin js
        BY <3>2, <2>2, <2>3, <1>1
      <4>2. s[k - 1].open <= t /\ s[k - 1].close <= t
        BY <4>1, <1>2 DEF Spanning
      <4>3. s[k].open <= LookAhead + s[k - 1].close
        BY <3>2, <2>3, <1>1
      <4> QED BY <4>1, <4>2, <4>3, <2>3, <1>2, Bounds
    <3> QED BY <3>1, <3>2
  <2>5. s[k].close > t
    <3>1. s[k].open + Grace < s[k].close /\ s[k].open \in Nat /\ s[k].close \in Nat /\ Grace \in Nat
      BY <2>3, <1>1, <1>2, Bounds
    <3> HIDE DEF s
    <3> QED BY <2>3, <3>1
  <2>6. s[k].open \in F
    BY <2>3, <2>4, <2>5 DEF Coming
  <2>7. ASSUME NEW j \in js PROVE s[k].open <= s[j].open
    <3>1. j \in DOMAIN s /\ k <= j
      BY <2>2
    <3>2. CASE k < j
      <4>1. s[k].close + 1 < s[j].open /\ s[k].open + Grace < s[k].close
        BY <3>1, <3>2, <2>3, <1>1
      <4> QED BY <4>1, <3>1, <2>3, <1>2, Bounds
    <3>3. CASE k = j
      BY <3>3, <2>3, <1>2
    <3> QED BY <3>1, <3>2, <3>3, <2>3, <1>2
  <2>8. \A p \in OpeningsOf(c) : p > t => s[k].open <= p
    BY <2>7 DEF OpeningsOf
  <2> QED BY <2>6, <2>8
<1>5. FindNextOpenAfter(c, t) = Earliest(F)
  BY DEF FindNextOpenAfter
<1> HIDE DEF F
<1> QED BY <1>3, <1>4, <1>5, EarliestIsFirst

(* The status of a closed category names its next opening.                 *)
LEMMA StatusClosed ==
  ASSUME Timetable(sessions), NEW c \in Categories, NEW t \in Nat, Spanning(c, t) = {}
  PROVE  ~CategoryStatus(c, t).open /\ FirstAfter(CategoryStatus(c, t).nextOpen, OpeningsOf(c), t)
<1>1. {i \in Coming(c, t) : sessions[c][i].open <= t} = {}
  <2>1. \A i \in DOMAIN sessions[c] : sessions[c][i].open \in Nat /\ sessions[c][i].close \in Nat
    BY SessionsAreNumbers
  <2> QED BY <2>1 DEF Coming, Spanning
<1>2. CategoryStatus(c, t) = [open |-> FALSE, nextOpen |-> FindNextOpenAfter(c, t), nextClose |-> Never]
  BY <1>1 DEF CategoryStatus
<1> QED BY <1>2, FindsNextOpen

(* The next opening of a category, whether it is open or not.              *)
LEMMA CandidateIsNext ==
  ASSUME Timetable(sessions), NEW c \in Categories, NEW t \in Nat
  PROVE  LET s == CategoryStatus(c, t)
         IN  FirstAfter(IF s.open THEN CategoryStatus(c, s.nextClose + 1).nextOpen ELSE s.nextOpen,
                        OpeningsOf(c), t)
<1> DEFINE active == {i \in Coming(c, t) : sessions[c][i].open <= t}
           s == sessions[c]
<1>1. /\ s \in Seq([open : Nat, close : Nat])
      /\ \A i \in DOMAIN s : /\ s[i].open + Grace < s[i].close
                             /\ \A j \in DOMAIN s : i < j => s[i].close + 1 < s[j].open
  BY DEF Timetable
<1>2. /\ DOMAIN s = 1 .. Len(s) /\ Len(s) \in Nat
      /\ \A i \in DOMAIN s : i \in Nat /\ s[i].open \in Nat /\ s[i].close \in Nat
  BY SessionsAreNumbers
<1>3. active = Spanning(c, t)
  BY <1>2, Bounds DEF Coming, Spanning
<1>4. CASE active = {}
  <2>1. Spanning(c, t) = {}
    BY <1>3, <1>4
  <2> QED BY <2>1, StatusClosed
<1>5. CASE active # {}
  <2> DEFINE a == Min(active)
             u == s[a].close + 1
  <2>1. active \subseteq Nat
    BY <1>2, <1>3 DEF Spanning
  <2>2. a \in active
    <3> HIDE DEF active
    <3> QED BY <2>1, <1>5, LeastOfNaturals
  <2>3. a \in DOMAIN s /\ s[a].open <= t /\ t < s[a].close
    BY <2>2, <1>3 DEF Spanning
  <2>4. CategoryStatus(c, t) = [open |-> TRUE, nextOpen |-> Never, nextClose |-> s[a].close]
    BY <1>5 DEF CategoryStatus
  <2> HIDE DEF active, a
  <2>5. u \in Nat /\ t < u
    BY <2>3, <1>2
  <2>6. ASSUME NEW i \in DOMAIN s
        PROVE  (s[i].open <= u <=> s[i].open <= t) /\ (s[i].open <= t => s[i].close <= u)
    <3>1. /\ s[i].open + Grace < s[i].close /\ s[a].open + Grace < s[a].close
          /\ i < a => s[i].close + 1 < s[a].open
          /\ a < i => s[a].close + 1 < s[i].open
      BY <2>3, <1>1
    <3>2. s[i].open \in Nat /\ s[i].close \in Nat /\ s[a].open \in Nat /\ s[a].close \in Nat
          /\ i \in Nat /\ a \in Nat
      BY <2>3, <1>2
    <3>3. CASE i = a
      BY <3>1, <3>2, <3>3, <2>3, Bounds
    <3>4. CASE i < a
      BY <3>1, <3>2, <3>4, <2>3, Bounds
    <3>5. CASE a < i
      BY <3>1, <3>2, <3>5, <2>3, Bounds
    <3> QED BY <3>2, <3>3, <3>4, <3>5
  <2>7. Spanning(c, u) = {}
    BY <2>5, <2>6, <1>2 DEF Spanning
  <2>8. FirstAfter(CategoryStatus(c, u).nextOpen, OpeningsOf(c), u)
    BY <2>5, <2>7, StatusClosed
  <2>9. OpeningsOf(c) \subseteq Nat /\ \A o \in OpeningsOf(c) : o > u <=> o > t
    BY <2>5, <2>6, <1>2 DEF OpeningsOf
  <2>10. FirstAfter(CategoryStatus(c, u).nextOpen, OpeningsOf(c), t)
    BY <2>5, <2>8, <2>9 DEF FirstAfter
  <2> QED BY <2>4, <2>10
<1> QED BY <1>4, <1>5

(* The next opening of any market is the first of all openings after t:    *)
(* the one that a job must be scheduled for (next_market_open_at).         *)
LEMMA NextMarketOpenIsNext ==
  ASSUME Timetable(sessions), NEW t \in Nat
  PROVE  FirstAfter(NextMarketOpenAt(t), Openings, t)
<1> DEFINE cand(c) == LET s == CategoryStatus(c, t)
                      IN  IF s.open THEN CategoryStatus(c, s.nextClose + 1).nextOpen ELSE s.nextOpen
           F == {cand(c) : c \in Categories} \ {Never}
<1>1. \A c \in Categories : FirstAfter(cand(c), OpeningsOf(c), t)
  BY CandidateIsNext
<1>2. NextMarketOpenAt(t) = Earliest(F)
  BY DEF NextMarketOpenAt
<1>3. Openings \subseteq Nat /\ \A c \in Categories : OpeningsOf(c) \subseteq Openings
  BY SessionsAreNumbers DEF Openings, OpeningsOf
<1>4. \A o \in Openings : \E c \in Categories : o \in OpeningsOf(c)
  BY DEF Openings, OpeningsOf
<1> HIDE DEF cand
<1>5. F \subseteq Openings /\ \A o \in F : o > t
  BY <1>1, <1>3 DEF FirstAfter
<1>6. ASSUME NEW o \in Openings, o > t PROVE \E x \in F : x <= o
  <2>1. PICK c \in Categories : o \in OpeningsOf(c)
    BY <1>4
  <2>2. cand(c) \in OpeningsOf(c) /\ cand(c) <= o
    BY <1>1, <1>6, <2>1 DEF FirstAfter
  <2>3. cand(c) \in F
    BY <2>2, <1>3 DEF Never
  <2> QED BY <2>2, <2>3
<1> HIDE DEF F
<1>7. ASSUME \E o \in Openings : o > t PROVE \E x \in F : \A o \in Openings : o > t => x <= o
  <2>1. F # {} /\ F \subseteq Nat
    BY <1>3, <1>5, <1>6, <1>7
  <2>2. Min(F) \in F /\ \A x \in F : Min(F) <= x
    BY <2>1, LeastOfNaturals
  <2>3. ASSUME NEW o \in Openings, o > t PROVE Min(F) <= o
    <3>1. PICK x \in F : x <= o
      BY <1>6, <2>3
    <3>2. Min(F) <= x /\ Min(F) \in Nat /\ x \in Nat /\ o \in Nat
      BY <1>3, <2>1, <2>2
    <3> QED BY <3>1, <3>2
  <2> QED BY <2>2, <2>3
<1> QED BY <1>2, <1>3, <1>5, <1>7, EarliestIsFirst

-----------------------------------------------------------------------------
(* The chain of warms.                                                     *)

(* No time is left over between the job that is due, the warm that runs    *)
(* and the next opening: an opening since the start that was not served is *)
(* not before the job scheduled, and after the longest time that a warm    *)
(* under way may last.                                                     *)
Unserved == {o \in Openings : /\ o > started
                              /\ \E c \in Categories : o \in OpeningsOf(c) /\ <<c, o>> \notin warmed}

Chained ==
    /\ hour \in Nat /\ started \in 0 .. hour
    /\ runAt # Never => warming = Never /\ runAt \in Openings /\ hour <= runAt + Grace
    /\ warming # Never => warming \in Nat /\ hour <= warming + MaxWarm
    /\ \A o \in Unserved : \/ runAt # Never /\ runAt <= o
                           \/ warming # Never /\ warming + MaxWarm < o

(* The invariant of the chain: the calendar is one of the schedules.       *)
HoursInv == sessions \in Schedules /\ Chained

(* Openings are whole times.                                               *)
LEMMA OpeningsAreNumbers == Timetable(sessions) => Openings \subseteq Nat
BY SessionsAreNumbers DEF Openings

(* What a first opening is, told apart from there being none.              *)
LEMMA FirstMeans ==
  ASSUME NEW n, NEW S, S \subseteq Nat, NEW t \in Nat, FirstAfter(n, S, t)
  PROVE  /\ n # Never => n \in S /\ n \in Nat /\ n > t
         /\ \A o \in S : o > t => n # Never /\ n <= o
<1>1. CASE \E o \in S : o > t
  <2>1. n \in S /\ n > t /\ \A o \in S : o > t => n <= o
    BY <1>1 DEF FirstAfter
  <2>2. n \in Nat /\ n # Never
    BY <2>1 DEF Never
  <2> QED BY <2>1, <2>2
<1>2. CASE ~\E o \in S : o > t
  BY <1>2 DEF FirstAfter
<1> QED BY <1>1, <1>2

(* An opening to come is scheduled as it is: it lies ahead of the hour.    *)
LEMMA Rescheduled ==
  ASSUME Timetable(sessions), hour \in Nat
  PROVE  /\ Schedule(NextMarketOpenAt(hour)) = NextMarketOpenAt(hour)
         /\ FirstAfter(NextMarketOpenAt(hour), Openings, hour)
<1>1. FirstAfter(NextMarketOpenAt(hour), Openings, hour)
  BY NextMarketOpenIsNext
<1>2. NextMarketOpenAt(hour) # Never => NextMarketOpenAt(hour) \in Nat /\ NextMarketOpenAt(hour) > hour
  BY <1>1, OpeningsAreNumbers, FirstMeans
<1> QED BY <1>1, <1>2 DEF Schedule

(* Unserved openings are openings since the start.                         *)
LEMMA UnservedAreOpenings == Unserved \subseteq Openings /\ \A o \in Unserved : o > started
BY DEF Unserved

(* After a warm or a start, the first opening to come is scheduled.        *)
LEMMA RestartsChain ==
  ASSUME Timetable(sessions), hour \in Nat, sessions' = sessions, hour' = hour, started' \in 0 .. hour,
         warming' = Never, runAt' = Schedule(NextMarketOpenAt(hour)), \A o \in Unserved' : o > hour
  PROVE  Chained'
<1>1. FirstAfter(runAt', Openings, hour)
  BY Rescheduled
<1>2. Openings' = Openings /\ Openings \subseteq Nat
  BY OpeningsAreNumbers DEF Openings
<1>3. Unserved' \subseteq Openings
  BY <1>2 DEF Unserved
<1>4. /\ runAt' # Never => runAt' \in Openings /\ runAt' \in Nat /\ runAt' > hour
      /\ \A o \in Openings : o > hour => runAt' # Never /\ runAt' <= o
  BY <1>1, <1>2, FirstMeans
<1>5. runAt' # Never => runAt' \in Openings /\ hour <= runAt' + Grace
  BY <1>4, Bounds
<1>6. \A o \in Unserved' : runAt' # Never /\ runAt' <= o
  BY <1>3, <1>4
<1> QED BY <1>2, <1>5, <1>6 DEF Chained

(* A warm finds every market open that opened when it was due; the next    *)
(* opening comes after it ends.                                            *)
LEMMA WarmServes ==
  ASSUME Timetable(sessions), Chained, RunWarm PROVE Chained'
<1>1. /\ runAt # Never /\ hour >= runAt /\ hour <= runAt + Grace /\ warming = Never
      /\ hour \in Nat /\ runAt \in Openings /\ runAt \in Nat
      /\ runAt' = Never /\ warming' = hour /\ UNCHANGED <<hour, sessions, started>>
      /\ warmed \subseteq warmed'
  BY OpeningsAreNumbers DEF Chained, RunWarm
<1>2. ASSUME NEW c \in Categories, NEW i \in DOMAIN sessions[c], sessions[c][i].open = runAt
      PROVE  <<c, sessions[c][i].open>> \in warmed'
  <2>1. sessions[c][i].open + Grace < sessions[c][i].close
    BY DEF Timetable
  <2>2. sessions[c][i].close \in Nat
    BY SessionsAreNumbers
  <2>3. i \in Spanning(c, hour)
    BY <1>1, <1>2, <2>1, <2>2, Bounds DEF Spanning
  <2> QED BY <2>3 DEF RunWarm
<1>3. ASSUME NEW o \in Unserved' PROVE hour + MaxWarm < o
  <2>1. Openings' = Openings /\ started' = started /\ \A c \in Categories : OpeningsOf(c)' = OpeningsOf(c)
    BY <1>1 DEF Openings, OpeningsOf
  <2>2. o \in Openings' /\ o > started' /\ \E c \in Categories : o \in OpeningsOf(c)' /\ <<c, o>> \notin warmed'
    BY <1>3 DEF Unserved
  <2>3. PICK c \in Categories : o \in Openings /\ o > started /\ o \in OpeningsOf(c) /\ <<c, o>> \notin warmed'
    BY <2>1, <2>2
  <2>4. PICK i \in DOMAIN sessions[c] :
           o = sessions[c][i].open /\ o > started /\ <<c, o>> \notin warmed'
    BY <2>3 DEF OpeningsOf
  <2>5. o \in Unserved /\ o \in Nat
    BY <1>1, <2>3, OpeningsAreNumbers DEF Unserved
  <2>6. runAt <= o
    BY <1>1, <2>5 DEF Chained
  <2>7. runAt # o
    BY <1>2, <2>4
  <2>8. PICK d \in Categories : \E j \in DOMAIN sessions[d] : runAt = sessions[d][j].open
    BY <1>1 DEF Openings
  <2>9. PICK j \in DOMAIN sessions[d] : runAt = sessions[d][j].open
    BY <2>8
  <2>10. runAt < o
    BY <2>5, <2>6, <2>7, <1>1
  <2>11. runAt + Grace + MaxWarm < o
    BY <2>4, <2>9, <2>10 DEF Timetable
  <2> QED BY <2>11, <2>5, <1>1, Bounds
<1> QED BY <1>1, <1>3, Bounds DEF Chained, Never

(* The start schedules the first opening.                                  *)
LEMMA InitChained == HInit => HoursInv
<1> SUFFICES ASSUME HInit PROVE HoursInv
  OBVIOUS
<1>1. Timetable(sessions) /\ sessions \in Schedules
  BY Timetables DEF HInit
<1>2. FirstAfter(runAt, Openings, 0)
  BY <1>1, NextMarketOpenIsNext DEF HInit
<1>3. hour = 0 /\ started = 0 /\ warming = Never
  BY DEF HInit
<1>4. Openings \subseteq Nat
  BY <1>1, OpeningsAreNumbers
<1>5. /\ runAt # Never => runAt \in Openings /\ runAt \in Nat /\ runAt > 0
      /\ \A o \in Openings : o > 0 => runAt # Never /\ runAt <= o
  BY <1>2, <1>4, FirstMeans
<1>6. runAt # Never => hour <= runAt + Grace
  BY <1>3, <1>5, Bounds
<1>7. \A o \in Unserved : runAt # Never /\ runAt <= o
  BY <1>3, <1>5, UnservedAreOpenings
<1> QED BY <1>1, <1>3, <1>5, <1>6, <1>7 DEF HoursInv, Chained

(* Every step keeps the chain: an hour, a warm, its end, a restart.        *)
LEMMA HoursInductive == HoursInv /\ [HNext]_hoursVars => HoursInv'
<1> SUFFICES ASSUME HoursInv, [HNext]_hoursVars PROVE HoursInv'
  OBVIOUS
<1>1. Timetable(sessions) /\ sessions \in Schedules /\ sessions' = sessions
  BY Timetables DEF HoursInv, HNext, HourPasses, RunWarm, WarmEnds, HRestart, hoursVars
<1>2. Openings \subseteq Nat /\ Openings' = Openings
  BY <1>1, OpeningsAreNumbers DEF Openings
<1>3. CASE HourPasses
  <2>1. Unserved' = Unserved /\ hour' = hour + 1 /\ UNCHANGED <<runAt, warming, started>>
    BY <1>3 DEF HourPasses, Unserved, Openings, OpeningsOf
  <2>2. /\ hour \in Nat /\ started \in 0 .. hour
        /\ runAt # Never => runAt \in Nat /\ hour < runAt + Grace
        /\ warming # Never => warming \in Nat /\ hour < warming + MaxWarm
    BY <1>2, <1>3 DEF HoursInv, Chained, HourPasses
  <2>3. /\ runAt' # Never => hour' <= runAt' + Grace
        /\ warming' # Never => hour' <= warming' + MaxWarm
        /\ hour' \in Nat /\ started' \in 0 .. hour'
    BY <2>1, <2>2, Bounds
  <2> QED BY <1>1, <1>2, <2>1, <2>3 DEF HoursInv, Chained
<1>4. CASE RunWarm
  BY <1>1, <1>4, WarmServes DEF HoursInv
<1>5. CASE WarmEnds
  <2>1. /\ warming # Never /\ warming' = Never /\ runAt' = Schedule(NextMarketOpenAt(hour))
        /\ UNCHANGED <<hour, sessions, started, warmed>>
    BY <1>5 DEF WarmEnds
  <2>2. Unserved' = Unserved /\ started' \in 0 .. hour /\ hour \in Nat
    BY <2>1 DEF Unserved, Openings, OpeningsOf, HoursInv, Chained
  <2>3. ASSUME NEW o \in Unserved PROVE o > hour
    <3>1. runAt = Never /\ warming \in Nat /\ hour <= warming + MaxWarm
      BY <2>1 DEF HoursInv, Chained
    <3>2. warming + MaxWarm < o /\ o \in Nat
      BY <3>1, <1>2, UnservedAreOpenings DEF HoursInv, Chained
    <3> QED BY <3>1, <3>2, <2>2, Bounds
  <2> QED BY <1>1, <2>1, <2>2, <2>3, RestartsChain DEF HoursInv
<1>6. CASE HRestart
  <2>1. /\ started' = hour /\ warming' = Never /\ runAt' = Schedule(NextMarketOpenAt(hour))
        /\ hour' = hour /\ hour \in Nat
    BY <1>6 DEF HRestart, HoursInv, Chained
  <2>2. \A o \in Unserved' : o > hour
    BY <2>1 DEF Unserved
  <2> QED BY <1>1, <2>1, <2>2, RestartsChain DEF HoursInv
<1>7. CASE UNCHANGED hoursVars
  <2>1. Unserved' = Unserved /\ UNCHANGED <<hour, sessions, runAt, warming, started>>
    BY <1>7 DEF hoursVars, Unserved, Openings, OpeningsOf
  <2> QED BY <1>1, <1>2, <2>1 DEF HoursInv, Chained
<1> QED BY <1>3, <1>4, <1>5, <1>6, <1>7 DEF HNext

(* Every opening of a market since the bot started is served by a warm that *)
(* finds it open, whenever the bot restarts and however long a warm takes  *)
(* within its bound: the chain of one-shot jobs does not break             *)
(* (_run_market_open_warm, next_market_open_at).                           *)
THEOREM OpeningsAreWarmed == HSpec => []OpeningsWarmed
<1>1. HoursInv => OpeningsWarmed
  <2>1. ASSUME HoursInv, NEW c \in Categories, NEW i \in DOMAIN sessions[c], sessions[c][i].open > started,
               sessions[c][i].open + Grace < hour, <<c, sessions[c][i].open>> \notin warmed
        PROVE  FALSE
    <3> DEFINE o == sessions[c][i].open
    <3>1. o \in Unserved
      BY <2>1 DEF Unserved, Openings, OpeningsOf
    <3>2. Timetable(sessions)
      BY <2>1, Timetables DEF HoursInv
    <3>3. o \in Nat /\ Openings \subseteq Nat
      BY <3>2, SessionsAreNumbers, OpeningsAreNumbers
    <3> HIDE DEF o
    <3>4. o + Grace < hour /\ hour \in Nat
      BY <2>1 DEF o, HoursInv, Chained
    <3>5. CASE runAt # Never /\ runAt <= o
      <4>1. runAt \in Openings /\ hour <= runAt + Grace
        BY <2>1, <3>5 DEF HoursInv, Chained
      <4> QED BY <4>1, <3>3, <3>4, <3>5, Bounds
    <3>6. CASE warming # Never /\ warming + MaxWarm < o
      <4>1. warming \in Nat /\ hour <= warming + MaxWarm
        BY <2>1, <3>6 DEF HoursInv, Chained
      <4> QED BY <4>1, <3>3, <3>4, <3>6, Bounds
    <3> QED BY <2>1, <3>1, <3>5, <3>6 DEF HoursInv, Chained
  <2> QED BY <2>1 DEF OpeningsWarmed
<1> QED BY <1>1, InitChained, HoursInductive, PTL DEF HSpec

-----------------------------------------------------------------------------
(* Induction over whole numbers, without an operator parameter.            *)

(* A set that has 0 and the successor of each member below n has 0 .. n.   *)
LEMMA CountingUp ==
  ASSUME NEW n \in Nat, NEW S, 0 \in S, \A k \in 0 .. n : (k \in S /\ k < n) => k + 1 \in S
  PROVE  0 .. n \subseteq S
<1> DEFINE Missing == (0 .. n) \ S
<1>1. SUFFICES ASSUME Missing # {} PROVE FALSE
  OBVIOUS
<1>2. Missing \subseteq Nat
  OBVIOUS
<1>3. Min(Missing) \in Missing /\ \A x \in Missing : Min(Missing) <= x
  <2> HIDE DEF Missing
  <2> QED BY <1>1, <1>2, LeastOfNaturals
<1>4. PICK m \in Missing : \A x \in Missing : m <= x
  <2> HIDE DEF Missing
  <2> QED BY <1>3
<1>5. m \in 0 .. n /\ m \notin S /\ m # 0
  BY <1>4
<1>6. m - 1 \in 0 .. n /\ m - 1 < n /\ (m - 1) + 1 = m
  BY <1>5
<1>7. m - 1 \in S
  <2>1. m - 1 \notin Missing
    <3>1. ~(m <= m - 1)
      BY <1>5
    <3> HIDE DEF Missing
    <3> QED BY <1>4, <3>1
  <2> QED BY <2>1, <1>6
<1> QED BY <1>5, <1>6, <1>7

-----------------------------------------------------------------------------
(* Running sums.                                                           *)

(* g is the running sum of s up to n.                                      *)
Adds(g, s, n) == g[0] = 0 /\ \A k \in 1 .. n : g[k] = g[k - 1] + s[k]

(* Every finite sequence of whole numbers has a running sum.               *)
LEMMA SumsExist ==
  ASSUME NEW n \in Nat, NEW s \in [1 .. n -> Int]
  PROVE  \E g \in [0 .. n -> Int] : Adds(g, s, n)
<1> DEFINE S == {m \in 0 .. n : \E g \in [0 .. m -> Int] : Adds(g, s, m)}
<1>1. 0 \in S
  <2>1. [k \in 0 .. 0 |-> 0] \in [0 .. 0 -> Int] /\ Adds([k \in 0 .. 0 |-> 0], s, 0)
    BY DEF Adds
  <2> QED BY <2>1
<1>2. ASSUME NEW m \in 0 .. n, m \in S, m < n PROVE m + 1 \in S
  <2>1. PICK g \in [0 .. m -> Int] : Adds(g, s, m)
    BY <1>2
  <2> DEFINE h == [k \in 0 .. m + 1 |-> IF k = m + 1 THEN g[m] + s[m + 1] ELSE g[k]]
  <2>2. m + 1 \in 1 .. n /\ s[m + 1] \in Int /\ g[m] \in Int
    BY <1>2
  <2>3. h \in [0 .. m + 1 -> Int]
    BY <2>2
  <2>4. h[0] = 0
    BY <2>1 DEF Adds
  <2>5. ASSUME NEW k \in 1 .. m + 1 PROVE h[k] = h[k - 1] + s[k]
    <3>1. CASE k = m + 1
      BY <3>1, <2>2
    <3>2. CASE k # m + 1
      <4>1. k \in 1 .. m /\ k - 1 \in 0 .. m
        BY <3>2
      <4>2. h[k] = g[k] /\ h[k - 1] = g[k - 1]
        BY <4>1
      <4> QED BY <4>1, <4>2, <2>1 DEF Adds
    <3> QED BY <3>1, <3>2
  <2> HIDE DEF h
  <2>6. Adds(h, s, m + 1)
    BY <2>4, <2>5 DEF Adds
  <2> QED BY <2>2, <2>3, <2>6
<1>3. 0 .. n \subseteq S
  <2> HIDE DEF S
  <2> QED BY <1>1, <1>2, CountingUp
<1> QED BY <1>3

(* Running sums of whole numbers are whole numbers.                        *)
LEMMA SumsAreInts ==
  ASSUME NEW n \in Nat, NEW s, \A k \in 1 .. n : s[k] \in Int, NEW g, Adds(g, s, n)
  PROVE  \A k \in 0 .. n : g[k] \in Int
<1> DEFINE S == {k \in 0 .. n : g[k] \in Int}
<1>1. 0 \in S
  BY DEF Adds
<1>2. ASSUME NEW k \in 0 .. n, k \in S, k < n PROVE k + 1 \in S
  <2>1. k + 1 \in 1 .. n /\ (k + 1) - 1 = k
    BY <1>2
  <2>2. g[k + 1] = g[k] + s[k + 1]
    BY <2>1 DEF Adds
  <2> QED BY <1>2, <2>1, <2>2
<1>3. 0 .. n \subseteq S
  <2> HIDE DEF S
  <2> QED BY <1>1, <1>2, CountingUp
<1> QED BY <1>3

(* Two sums of the same numbers are equal.                                 *)
LEMMA SumsAgree ==
  ASSUME NEW n \in Nat, NEW s, NEW g, NEW h, Adds(g, s, n), Adds(h, s, n)
  PROVE  g[n] = h[n]
<1> DEFINE S == {k \in 0 .. n : g[k] = h[k]}
<1>1. 0 \in S
  BY DEF Adds
<1>2. ASSUME NEW k \in 0 .. n, k \in S, k < n PROVE k + 1 \in S
  <2>1. k + 1 \in 1 .. n /\ (k + 1) - 1 = k
    BY <1>2
  <2>2. g[k + 1] = g[k] + s[k + 1] /\ h[k + 1] = h[k] + s[k + 1]
    BY <2>1 DEF Adds
  <2> QED BY <1>2, <2>1, <2>2
<1>3. 0 .. n \subseteq S
  <2> HIDE DEF S
  <2> QED BY <1>1, <1>2, CountingUp
<1> QED BY <1>3

(* What Total computes.                                                    *)
Sums(s) == CHOOSE sum : sum = [k \in 0 .. Len(s) |-> IF k = 0 THEN 0 ELSE sum[k - 1] + s[k]]

(* Total is the running sum.                                               *)
LEMMA TotalAdds ==
  ASSUME NEW s \in Seq(Int)
  PROVE  Adds(Sums(s), s, Len(s)) /\ \A n \in 0 .. Len(s) : Total(s, n) = Sums(s)[n]
<1> DEFINE Step(g) == [k \in 0 .. Len(s) |-> IF k = 0 THEN 0 ELSE g[k - 1] + s[k]]
<1>1. Len(s) \in Nat /\ s \in [1 .. Len(s) -> Int]
  OBVIOUS
<1>2. PICK g \in [0 .. Len(s) -> Int] : Adds(g, s, Len(s))
  BY <1>1, SumsExist
<1>3. g = Step(g)
  <2>1. \A k \in 0 .. Len(s) : g[k] = Step(g)[k]
    <3>1. ASSUME NEW k \in 0 .. Len(s), k # 0 PROVE g[k] = g[k - 1] + s[k]
      <4>1. k \in 1 .. Len(s)
        BY <1>1, <3>1
      <4> QED BY <4>1, <1>2 DEF Adds
    <3>2. g[0] = 0
      BY <1>2 DEF Adds
    <3> QED BY <3>1, <3>2
  <2> QED BY <2>1
<1>4. Sums(s) = Step(Sums(s))
  <2>1. \E f : f = Step(f)
    BY <1>3
  <2>2. Sums(s) = CHOOSE f : f = Step(f)
    BY DEF Sums
  <2> HIDE DEF Step
  <2> QED BY <2>1, <2>2
<1>5. Adds(Sums(s), s, Len(s))
  <2> DEFINE f == Sums(s)
  <2>1. f = Step(f)
    BY <1>4
  <2> HIDE DEF f
  <2>2. f[0] = 0
    <3>1. 0 \in 0 .. Len(s)
      BY <1>1
    <3>2. Step(f)[0] = 0
      BY <3>1
    <3> HIDE DEF Step
    <3> QED BY <2>1, <3>2
  <2>3. ASSUME NEW k \in 1 .. Len(s) PROVE f[k] = f[k - 1] + s[k]
    <3>1. k \in 0 .. Len(s) /\ k # 0
      BY <1>1
    <3>2. Step(f)[k] = f[k - 1] + s[k]
      BY <3>1
    <3> HIDE DEF Step
    <3> QED BY <2>1, <3>2
  <2> QED BY <2>2, <2>3 DEF Adds, f
<1>6. \A n \in 0 .. Len(s) : Total(s, n) = Sums(s)[n]
  BY DEF Total, Sums
<1> QED BY <1>5, <1>6

(* Total, number by number.                                                *)
LEMMA TotalUnfolds ==
  ASSUME NEW s \in Seq(Int)
  PROVE  /\ Total(s, 0) = 0
         /\ \A k \in 1 .. Len(s) : Total(s, k) = Total(s, k - 1) + s[k]
         /\ \A k \in 0 .. Len(s) : Total(s, k) \in Int
<1>1. Len(s) \in Nat /\ \A k \in 1 .. Len(s) : s[k] \in Int
  OBVIOUS
<1>2. Adds(Sums(s), s, Len(s)) /\ \A n \in 0 .. Len(s) : Total(s, n) = Sums(s)[n]
  BY TotalAdds
<1>3. \A k \in 0 .. Len(s) : Sums(s)[k] \in Int
  BY <1>1, <1>2, SumsAreInts
<1>4. \A k \in 1 .. Len(s) : k \in 0 .. Len(s) /\ k - 1 \in 0 .. Len(s)
  BY <1>1
<1>5. 0 \in 0 .. Len(s)
  BY <1>1
<1> QED BY <1>2, <1>3, <1>4, <1>5 DEF Adds

(* A number appended adds to the total.                                    *)
LEMMA TotalOfAppend ==
  ASSUME NEW s \in Seq(Int), NEW x \in Int
  PROVE  Total(Append(s, x), Len(s) + 1) = Total(s, Len(s)) + x
<1> DEFINE u == Append(s, x)
           n == Len(s)
<1>1. u \in Seq(Int) /\ Len(u) = n + 1 /\ n \in Nat /\ u[n + 1] = x /\ \A k \in 1 .. n : s[k] = u[k]
  OBVIOUS
<1> HIDE DEF u
<1>2. Adds(Sums(s), s, n) /\ Adds(Sums(u), u, n + 1)
  BY <1>1, TotalAdds
<1>3. Adds(Sums(u), s, n)
  BY <1>1, <1>2 DEF Adds
<1>4. Sums(s)[n] = Sums(u)[n]
  BY <1>1, <1>2, <1>3, SumsAgree
<1>5. Total(s, n) = Sums(s)[n] /\ Total(u, n) = Sums(u)[n]
  BY <1>1, TotalAdds
<1>6. Total(u, n + 1) = Total(u, n) + x
  <2>1. n + 1 \in 1 .. Len(u) /\ (n + 1) - 1 = n
    BY <1>1
  <2> QED BY <1>1, <2>1, TotalUnfolds
<1> QED BY <1>4, <1>5, <1>6 DEF u

-----------------------------------------------------------------------------
(* The shares of a commission.                                             *)

(* A rounded share is within half a quantum of the exact one.              *)
LEMMA RoundsWithinHalf ==
  ASSUME NEW a \in Int, NEW b \in Nat, b > 0
  PROVE  /\ RoundHalfUp(a, b) \in Int
         /\ 2 * (RoundHalfUp(a, b) * b - a) <= b
         /\ -b <= 2 * (RoundHalfUp(a, b) * b - a)
<1> DEFINE q == (2 * a + b) \div (2 * b)
           d == 2 * b
           c == 2 * a + b
<1>1. c \in Int /\ d \in Nat /\ d > 0
  OBVIOUS
<1>2. q \in Int /\ d * q <= c /\ c < d * (q + 1)
  <2> HIDE DEF c, d
  <2>1. (c \div d) \in Int /\ d * (c \div d) <= c /\ c < d * ((c \div d) + 1)
    BY <1>1
  <2> QED BY <2>1 DEF c, d
<1>3. d * q = 2 * (q * b) /\ d * (q + 1) = 2 * (q * b) + 2 * b
  BY <1>2
<1>4. RoundHalfUp(a, b) = q
  BY DEF RoundHalfUp
<1> DEFINE P == q * b
<1>5. P \in Int
  BY <1>2
<1>6. 2 * P <= 2 * a + b /\ 2 * a + b < 2 * P + 2 * b
  BY <1>2, <1>3
<1> HIDE DEF q, P
<1>7. 2 * (P - a) <= b /\ -b <= 2 * (P - a)
  BY <1>5, <1>6
<1> QED BY <1>2, <1>4, <1>7 DEF P

(* The exact share of units l is commission * l / units: how far an        *)
(* allocated sum is from it, in units.                                     *)
Off(sum, units, l) == sum * units - commission * l

(* x is at most half of bound away from zero.                              *)
Near(x, bound) == 2 * x <= bound /\ -bound <= 2 * x

(* The commission allocated so far is right to half a quantum for each leg *)
(* done, so that the last leg, which takes the rest, is right to as much.  *)
Allocated ==
    LET n == Len(legs)
        units == TotalUnits
        k == Len(allocations)
    IN  /\ k <= n /\ running = Total(allocations, k)
        /\ units > 0 =>
              /\ \A i \in 1 .. k : i < n => Near(Off(allocations[i], units, legs[i]), units)
              /\ k < n => Near(Off(running, units, Total(legs, k)), k * units)
              /\ k = n => running = commission
                          /\ Near(Off(allocations[n], units, legs[n]), (n - 1) * units)

(* Types of the allocation: units are not negative.                        *)
AllocTyped ==
    /\ legs \in Seq(Nat) /\ commission \in Int
    /\ allocations \in Seq(Int) /\ running \in Int

(* Units add up leg by leg, and are never negative.                        *)
LEMMA UnitsAdd ==
  ASSUME AllocTyped
  PROVE  /\ legs \in Seq(Int) /\ Len(legs) \in Nat /\ TotalUnits \in Nat
         /\ \A k \in 1 .. Len(legs) : legs[k] \in Nat /\ Total(legs, k) = Total(legs, k - 1) + legs[k]
         /\ \A k \in 0 .. Len(legs) : Total(legs, k) \in Nat
         /\ Total(legs, 0) = 0
<1>1. legs \in Seq(Nat)
  BY DEF AllocTyped
<1>2. legs \in Seq(Int) /\ Len(legs) \in Nat /\ \A k \in 1 .. Len(legs) : legs[k] \in Nat
  BY <1>1
<1>3. Len(legs) \in 0 .. Len(legs)
  BY <1>2
<1>4. /\ Total(legs, 0) = 0
      /\ \A k \in 1 .. Len(legs) : Total(legs, k) = Total(legs, k - 1) + legs[k]
  BY <1>2, TotalUnfolds
<1> DEFINE n == Len(legs)
           S == {k \in 0 .. n : Total(legs, k) \in Nat}
<1>5. 0 \in S
  BY <1>2, <1>4
<1>6. ASSUME NEW k \in 0 .. n, k \in S, k < n PROVE k + 1 \in S
  <2>1. k + 1 \in 1 .. n /\ (k + 1) - 1 = k
    BY <1>2, <1>6
  <2>2. Total(legs, k + 1) = Total(legs, k) + legs[k + 1] /\ legs[k + 1] \in Nat
    BY <1>2, <1>4, <2>1
  <2> QED BY <1>6, <2>1, <2>2
<1>7. 0 .. n \subseteq S
  <2> HIDE DEF S
  <2> QED BY <1>2, <1>5, <1>6, CountingUp
<1> QED BY <1>2, <1>3, <1>4, <1>7 DEF TotalUnits

(* The errors of the legs add up to the error of their sum.                *)
LEMMA OffAdds ==
  ASSUME commission \in Int, NEW sum \in Int, NEW share \in Int, NEW units \in Int, NEW t \in Int,
         NEW l \in Int, NEW k \in Int, Near(Off(sum, units, t), k * units), Near(Off(share, units, l), units)
  PROVE  Near(Off(sum + share, units, t + l), (k + 1) * units)
<1> DEFINE a == sum * units
           b == share * units
           x == commission * t
           y == commission * l
           z == k * units
<1>1. a \in Int /\ b \in Int /\ x \in Int /\ y \in Int /\ z \in Int
  OBVIOUS
<1>2. (sum + share) * units = a + b /\ commission * (t + l) = x + y /\ (k + 1) * units = z + units
  OBVIOUS
<1>3. 2 * (a - x) <= z /\ -z <= 2 * (a - x) /\ 2 * (b - y) <= units /\ -units <= 2 * (b - y)
  BY DEF Near, Off
<1> HIDE DEF a, b, x, y, z
<1>4. 2 * ((a + b) - (x + y)) <= z + units /\ -(z + units) <= 2 * ((a + b) - (x + y))
  BY <1>1, <1>3
<1> QED BY <1>2, <1>4 DEF Near, Off

(* The last leg's error is that of the others together, the other way.     *)
LEMMA OffRest ==
  ASSUME commission \in Int, NEW share \in Int, NEW t \in Int, NEW l \in Int, NEW k \in Int,
         Near(Off(commission - share, t + l, t), k * (t + l))
  PROVE  Near(Off(share, t + l, l), k * (t + l))
<1> DEFINE e == Off(commission - share, t + l, t)
           f == Off(share, t + l, l)
           z == k * (t + l)
<1>1. e \in Int /\ f \in Int /\ z \in Int
  BY DEF Off
<1>2. f = -e
  BY DEF Off
<1>3. 2 * e <= z /\ -z <= 2 * e
  BY DEF Near
<1> HIDE DEF e, f, z
<1>4. 2 * f <= z /\ -z <= 2 * f
  BY <1>1, <1>2, <1>3
<1> QED BY <1>4 DEF Near, f, z

(* Allocating a leg keeps the shares near the exact ones.                  *)
LEMMA AllocateLegShares == ASSUME AllocTyped, Allocated, AllocateLeg PROVE AllocTyped' /\ Allocated'
<1> DEFINE n == Len(legs)
           units == TotalUnits
           k == Len(allocations)
           i == k + 1
           share == CASE units = 0 -> 0
                      [] units # 0 /\ i = n -> commission - running
                      [] OTHER -> RoundHalfUp(commission * legs[i], units)
<1>1. /\ i <= n /\ allocations' = Append(allocations, share) /\ running' = running + share
      /\ UNCHANGED <<legs, commission>>
  BY DEF AllocateLeg
<1>2. /\ n \in Nat /\ units \in Nat /\ legs[i] \in Nat /\ k \in Nat /\ i \in 1 .. n
      /\ Total(legs, i) = Total(legs, k) + legs[i] /\ Total(legs, k) \in Int
  <2>1. k \in Nat /\ i \in 1 .. n /\ k \in 0 .. n /\ i - 1 = k
    BY <1>1, UnitsAdd DEF AllocTyped
  <2> QED BY <2>1, UnitsAdd
<1>3. units' = units
  BY <1>1 DEF TotalUnits
<1>4. /\ share \in Int
      /\ units > 0 /\ i = n => running + share = commission
      /\ units > 0 /\ i # n => Near(Off(share, units, legs[i]), units)
  <2>1. CASE units = 0
    BY <2>1, <1>2
  <2>2. CASE units # 0 /\ i = n
    BY <2>2, <1>2 DEF AllocTyped
  <2>3. CASE units > 0 /\ i # n
    <3> DEFINE a == commission * legs[i]
    <3>1. a \in Int /\ share = RoundHalfUp(a, units) /\ units \in Nat
      BY <2>3, <1>2 DEF AllocTyped
    <3>2. /\ RoundHalfUp(a, units) \in Int
          /\ 2 * (RoundHalfUp(a, units) * units - a) <= units
          /\ -units <= 2 * (RoundHalfUp(a, units) * units - a)
      BY <2>3, <3>1, RoundsWithinHalf
    <3> QED BY <2>3, <3>1, <3>2 DEF Near, Off
  <2> QED BY <2>1, <2>2, <2>3, <1>2
<1> HIDE DEF share
<1>5. /\ allocations' \in Seq(Int) /\ Len(allocations') = i /\ allocations'[i] = share
      /\ running' \in Int /\ \A j \in 1 .. k : allocations'[j] = allocations[j]
  BY <1>1, <1>2, <1>4 DEF AllocTyped
<1>6. running' = Total(allocations', i)
  <2>1. Total(Append(allocations, share), k + 1) = Total(allocations, k) + share
    BY <1>4, TotalOfAppend DEF AllocTyped
  <2> QED BY <1>1, <2>1 DEF Allocated
<1>7. AllocTyped'
  BY <1>1, <1>5 DEF AllocTyped
<1>8. ASSUME units > 0
      PROVE  /\ \A j \in 1 .. i : j < n => Near(Off(allocations'[j], units, legs[j]), units)
             /\ i < n => Near(Off(running', units, Total(legs, i)), i * units)
             /\ i = n => running' = commission
                         /\ Near(Off(allocations'[n], units, legs[n]), (n - 1) * units)
  <2>1. /\ \A j \in 1 .. k : j < n => Near(Off(allocations[j], units, legs[j]), units)
        /\ Near(Off(running, units, Total(legs, k)), k * units)
    BY <1>2, <1>8 DEF Allocated
  <2>2. \A j \in 1 .. i : j \in 1 .. k \/ j = i
    BY <1>2
  <2>3. \A j \in 1 .. i : j < n => Near(Off(allocations'[j], units, legs[j]), units)
    BY <1>8, <1>4, <1>5, <2>1, <2>2
  <2>4. ASSUME i < n PROVE Near(Off(running', units, Total(legs, i)), i * units)
    <3>1. Near(Off(share, units, legs[i]), units)
      BY <1>8, <1>4, <2>4
    <3> DEFINE t == Total(legs, k)
               l == legs[i]
    <3>2. /\ commission \in Int /\ running \in Int /\ k \in Int /\ share \in Int /\ units \in Int
          /\ t \in Int /\ l \in Int
      BY <1>2, <1>4 DEF AllocTyped
    <3>3. Near(Off(running, units, t), k * units) /\ Near(Off(share, units, l), units)
      BY <2>1, <3>1
    <3> HIDE DEF t, l, k, units
    <3>4. Near(Off(running + share, units, t + l), (k + 1) * units)
      BY ONLY <3>2, <3>3, OffAdds
    <3>5. running' = running + share /\ Total(legs, i) = t + l /\ i = k + 1
      BY <1>1, <1>2 DEF t, l
    <3> QED BY <3>4, <3>5
  <2>5. ASSUME i = n PROVE Near(Off(allocations'[n], units, legs[n]), (n - 1) * units)
    <3>1. units = Total(legs, k) + legs[n]
      BY <2>5, <1>2 DEF TotalUnits
    <3>2. running = commission - share
      BY <1>8, <1>4, <2>5 DEF AllocTyped
    <3> DEFINE t == Total(legs, k)
    <3>3. commission \in Int /\ k \in Int /\ k = n - 1 /\ t \in Int /\ legs[n] \in Int
      BY <2>5, <1>2 DEF AllocTyped
    <3>4. Near(Off(commission - share, t + legs[n], t), k * (t + legs[n]))
      BY <2>1, <3>1, <3>2
    <3>5. Near(Off(share, t + legs[n], legs[n]), k * (t + legs[n]))
      BY <3>3, <3>4, <1>4, OffRest
    <3>6. allocations'[n] = share
      BY <2>5, <1>5
    <3> QED BY <3>1, <3>3, <3>5, <3>6
  <2> QED BY <1>1, <1>8, <1>4, <2>3, <2>4, <2>5
<1>9. Allocated'
  <2>1. Len(legs') = n /\ TotalUnits' = units /\ Len(allocations') = i /\ legs' = legs
        /\ commission' = commission
    BY <1>1, <1>3, <1>5
  <2>2. \A sum, u, l : Off(sum, u, l)' = Off(sum, u, l)
    BY <2>1 DEF Off
  <2> HIDE DEF n, units, i
  <2> QED BY <1>1, <1>8, <1>6, <2>1, <2>2 DEF Allocated
<1> QED BY <1>7, <1>9

(* Nothing is allocated at first.                                          *)
LEMMA InitAllocated == FInit => AllocTyped /\ Allocated
<1> SUFFICES ASSUME FInit PROVE AllocTyped /\ Allocated
  OBVIOUS
<1>1. AllocTyped /\ allocations = <<>> /\ running = 0 /\ Len(allocations) = 0
  BY Figures DEF FInit, AllocTyped
<1>2. /\ Len(legs) \in Nat /\ TotalUnits \in Nat /\ Total(legs, 0) = 0
  BY <1>1, UnitsAdd
<1>3. Total(allocations, 0) = 0
  BY <1>1, TotalUnfolds DEF AllocTyped
<1>4. TotalUnits > 0 => 0 < Len(legs)
  BY <1>2 DEF TotalUnits
<1>5. Near(Off(0, TotalUnits, 0), 0 * TotalUnits)
  BY <1>1, <1>2 DEF Near, Off, AllocTyped
<1> QED BY <1>1, <1>2, <1>3, <1>4, <1>5 DEF Allocated

(* Every step of the figures keeps the shares near the exact ones.         *)
LEMMA AllocatedInductive == AllocTyped /\ Allocated /\ [FNext]_figureVars => AllocTyped' /\ Allocated'
<1> SUFFICES ASSUME AllocTyped, Allocated, [FNext]_figureVars PROVE AllocTyped' /\ Allocated'
  OBVIOUS
<1>1. CASE AllocateLeg
  BY <1>1, AllocateLegShares
<1>2. CASE UNCHANGED legVars
  BY <1>2 DEF legVars, AllocTyped, Allocated, TotalUnits, Off
<1>3. (\E i \in DOMAIN trades : CountTrade(i)) \/ UNCHANGED figureVars => UNCHANGED legVars
  BY DEF CountTrade, figureVars, legVars
<1> QED BY <1>1, <1>2, <1>3 DEF FNext

(* However many legs a fill has and whatever their units, the shares of    *)
(* its commission add up to it, each is the exact share to half a quantum, *)
(* and the last one to half a quantum for each of the others               *)
(* (_allocate_commission).                                                 *)
THEOREM CommissionIsShared == FSpec => []CommissionShared
<1>1. AllocTyped /\ Allocated => CommissionShared
  <2> SUFFICES ASSUME AllocTyped, Allocated, Len(allocations) = Len(legs), TotalUnits > 0
               PROVE  /\ Total(allocations, Len(legs)) = commission
                      /\ \A i \in 1 .. Len(legs) :
                           2 * Abs(allocations[i] * TotalUnits - commission * legs[i])
                             <= TotalUnits * (IF i = Len(legs) THEN Len(legs) - 1 ELSE 1)
    BY DEF CommissionShared
  <2> DEFINE n == Len(legs)
             units == TotalUnits
  <2>1. /\ running = commission /\ running = Total(allocations, n)
        /\ \A i \in 1 .. n : i < n => Near(Off(allocations[i], units, legs[i]), units)
        /\ Near(Off(allocations[n], units, legs[n]), (n - 1) * units)
    BY DEF Allocated
  <2>2. n \in Nat /\ units \in Nat /\ commission \in Int
        /\ \A i \in 1 .. n : legs[i] \in Nat /\ allocations[i] \in Int
    BY UnitsAdd DEF AllocTyped
  <2>3. \A x, b \in Int : Near(x, b) => 2 * Abs(x) <= b
    BY DEF Near, Abs
  <2>4. ASSUME NEW i \in 1 .. n
        PROVE  2 * Abs(Off(allocations[i], units, legs[i])) <= units * (IF i = n THEN n - 1 ELSE 1)
    <3>1. Off(allocations[i], units, legs[i]) \in Int
      BY <2>2 DEF Off
    <3>2. CASE i = n
      <4>1. (n - 1) * units = units * (n - 1) /\ (n - 1) * units \in Int
        BY <2>2
      <4> QED BY <2>1, <2>3, <3>1, <3>2, <4>1
    <3>3. CASE i # n
      <4>1. i < n /\ units * 1 = units /\ units \in Int
        BY <2>2, <3>3
      <4> QED BY <2>1, <2>3, <3>1, <3>3, <4>1
    <3> QED BY <3>2, <3>3
  <2> QED BY <2>1, <2>4 DEF Off
<1> QED BY <1>1, InitAllocated, AllocatedInductive, PTL DEF FSpec

-----------------------------------------------------------------------------
(* The drawdown.                                                           *)

(* The profit of the trades C.                                             *)
Profit(C) ==
    LET sum[k \in 0 .. Len(trades)] ==
            IF k = 0 THEN 0 ELSE sum[k - 1] + (IF k \in C THEN trades[k].pnl ELSE 0)
    IN  sum[Len(trades)]

(* The trades closed by t.                                                 *)
By(t) == {i \in 1 .. Len(trades) : trades[i].at <= t}

(* Closed trades, as the statistics read them.                             *)
Trade == [at : Int, pnl : Int]

(* What each trade adds to the profit of C.                                *)
Parts(C) == [k \in 1 .. Len(trades) |-> IF k \in C THEN trades[k].pnl ELSE 0]

(* The sum of which Profit takes the last value.                           *)
PartSums(C) ==
    CHOOSE sum : sum = [k \in 0 .. Len(trades) |->
                          IF k = 0 THEN 0 ELSE sum[k - 1] + (IF k \in C THEN trades[k].pnl ELSE 0)]

(* Times and profits are whole numbers.                                    *)
LEMMA TradesAreNumbers ==
  ASSUME trades \in Seq(Trade)
  PROVE  Len(trades) \in Nat
         /\ \A k \in 1 .. Len(trades) : trades[k].at \in Int /\ trades[k].pnl \in Int
<1>1. Len(trades) \in Nat /\ \A k \in 1 .. Len(trades) : trades[k] \in Trade
  OBVIOUS
<1> QED BY <1>1 DEF Trade

(* A profit is the running sum of its parts.                               *)
LEMMA ProfitAdds ==
  ASSUME trades \in Seq(Trade), NEW C
  PROVE  /\ Adds(PartSums(C), Parts(C), Len(trades)) /\ Profit(C) = PartSums(C)[Len(trades)]
         /\ Profit(C) \in Int
<1> DEFINE n == Len(trades)
           Step(g) == [k \in 0 .. n |-> IF k = 0 THEN 0
                                        ELSE g[k - 1] + (IF k \in C THEN trades[k].pnl ELSE 0)]
           s == Parts(C)
           f == PartSums(C)
<1>1. n \in Nat /\ s \in [1 .. n -> Int]
  BY TradesAreNumbers DEF Parts
<1>2. \A k \in 1 .. n : s[k] = IF k \in C THEN trades[k].pnl ELSE 0
  BY DEF Parts
<1>3. PICK g \in [0 .. n -> Int] : Adds(g, s, n)
  <2> HIDE DEF s, n
  <2> QED BY <1>1, SumsExist
<1>4. g = Step(g)
  <2>1. \A k \in 0 .. n : g[k] = Step(g)[k]
    <3>1. ASSUME NEW k \in 0 .. n, k # 0
          PROVE  g[k] = g[k - 1] + (IF k \in C THEN trades[k].pnl ELSE 0)
      <4>1. k \in 1 .. n
        BY <1>1, <3>1
      <4>2. g[k] = g[k - 1] + s[k]
        BY <4>1, <1>3 DEF Adds
      <4> QED BY <4>1, <4>2, <1>2
    <3>2. g[0] = 0
      BY <1>3 DEF Adds
    <3> QED BY <3>1, <3>2
  <2> QED BY <2>1
<1>5. f = Step(f)
  <2>1. \E h : h = Step(h)
    BY <1>4
  <2>2. f = CHOOSE h : h = Step(h)
    BY DEF PartSums
  <2> HIDE DEF Step, f
  <2> QED BY <2>1, <2>2
<1> HIDE DEF f
<1>6. f[0] = 0
  <2>1. 0 \in 0 .. n
    BY <1>1
  <2>2. Step(f)[0] = 0
    BY <2>1
  <2> HIDE DEF Step
  <2> QED BY <1>5, <2>2
<1>7. ASSUME NEW k \in 1 .. n PROVE f[k] = f[k - 1] + s[k]
  <2>1. k \in 0 .. n /\ k # 0
    BY <1>1
  <2>2. Step(f)[k] = f[k - 1] + (IF k \in C THEN trades[k].pnl ELSE 0)
    BY <2>1
  <2> HIDE DEF Step, s
  <2>3. Step(f)[k] = f[k - 1] + s[k]
    BY <1>2, <2>2
  <2> QED BY <1>5, <2>3
<1>8. Adds(f, s, n)
  BY <1>6, <1>7 DEF Adds
<1>9. f[n] \in Int
  <2>1. \A k \in 0 .. n : f[k] \in Int
    <3> HIDE DEF s, n
    <3>1. \A k \in 1 .. n : s[k] \in Int
      BY <1>1
    <3> QED BY <1>1, <1>8, <3>1, SumsAreInts
  <2> QED BY <1>1, <2>1
<1>10. Profit(C) = f[n]
  BY DEF Profit, PartSums, f
<1> QED BY <1>8, <1>9, <1>10 DEF f

(* No trades have no profit.                                               *)
LEMMA ProfitOfNone == ASSUME trades \in Seq(Trade) PROVE Profit({}) = 0
<1> DEFINE n == Len(trades)
           f == PartSums({})
           S == {k \in 0 .. n : f[k] = 0}
<1>1. n \in Nat /\ f[0] = 0 /\ \A k \in 1 .. n : f[k] = f[k - 1] + 0
  BY ProfitAdds, TradesAreNumbers DEF Adds, Parts
<1> HIDE DEF f
<1>2. 0 \in S
  BY <1>1
<1>3. ASSUME NEW k \in 0 .. n, k \in S, k < n PROVE k + 1 \in S
  <2>1. k + 1 \in 1 .. n /\ (k + 1) - 1 = k
    BY <1>1, <1>3
  <2>2. f[k + 1] = f[k] + 0
    BY <1>1, <2>1
  <2> QED BY <1>3, <2>1, <2>2
<1>4. 0 .. n \subseteq S
  <2> HIDE DEF S, n
  <2> QED BY <1>1, <1>2, <1>3, CountingUp
<1>5. f[n] = 0
  BY <1>1, <1>4
<1> QED BY <1>5, ProfitAdds DEF f

(* One more trade adds what it made.                                       *)
LEMMA ProfitOfOneMore ==
  ASSUME trades \in Seq(Trade), NEW C, NEW i \in 1 .. Len(trades), i \notin C
  PROVE  Profit(C \cup {i}) = Profit(C) + trades[i].pnl
<1> DEFINE n == Len(trades)
           D == C \cup {i}
           f == PartSums(C)
           g == PartSums(D)
           p == trades[i].pnl
           S == {k \in 0 .. n : g[k] = f[k] + (IF i <= k THEN p ELSE 0)}
<1>1. n \in Nat /\ i \in 1 .. n /\ p \in Int /\ \A k \in 1 .. n : trades[k].pnl \in Int
  BY TradesAreNumbers
<1>2. /\ Adds(f, Parts(C), n) /\ Adds(g, Parts(D), n) /\ Profit(C) = f[n] /\ Profit(D) = g[n]
  BY ProfitAdds
<1>3. \A k \in 0 .. n : f[k] \in Int
  <2> DEFINE s == Parts(C)
  <2>1. \A k \in 1 .. n : s[k] \in Int
    BY <1>1 DEF Parts
  <2> HIDE DEF f, n, s
  <2> QED BY <1>1, <1>2, <2>1, SumsAreInts DEF s
<1>4. \A k \in 1 .. n : Parts(D)[k] = (IF k = i THEN p ELSE Parts(C)[k]) /\ Parts(C)[k] \in Int
                        /\ Parts(C)[i] = 0
  BY <1>1 DEF Parts
<1>5. f[0] = 0 /\ g[0] = 0 /\ \A k \in 1 .. n : f[k] = f[k - 1] + Parts(C)[k] /\ g[k] = g[k - 1] + Parts(D)[k]
  BY <1>2 DEF Adds
<1> HIDE DEF f, g, D, p
<1>6. 0 \in S
  BY <1>1, <1>5
<1>7. ASSUME NEW k \in 0 .. n, k \in S, k < n PROVE k + 1 \in S
  <2>1. k + 1 \in 1 .. n /\ k + 1 \in 0 .. n /\ (k + 1) - 1 = k
    BY <1>1, <1>7
  <2>2. f[k + 1] = f[k] + Parts(C)[k + 1] /\ g[k + 1] = g[k] + Parts(D)[k + 1]
    BY <1>5, <2>1
  <2>3. g[k] = f[k] + (IF i <= k THEN p ELSE 0) /\ f[k] \in Int
    BY <1>3, <1>7
  <2>4. CASE k + 1 = i
    <3>1. Parts(D)[k + 1] = p /\ Parts(C)[k + 1] = 0 /\ ~(i <= k) /\ i <= k + 1
      BY <1>4, <2>1, <2>4, <1>1
    <3> QED BY <1>1, <2>1, <2>2, <2>3, <3>1
  <2>5. CASE k + 1 # i
    <3>1. Parts(D)[k + 1] = Parts(C)[k + 1] /\ Parts(C)[k + 1] \in Int /\ (i <= k <=> i <= k + 1)
      BY <1>4, <2>1, <2>5, <1>1
    <3> QED BY <1>1, <2>1, <2>2, <2>3, <3>1
  <2> QED BY <2>4, <2>5
<1>8. 0 .. n \subseteq S
  <2> HIDE DEF S, n
  <2> QED BY <1>1, <1>6, <1>7, CountingUp
<1>9. g[n] = f[n] + p
  BY <1>1, <1>8
<1> QED BY <1>2, <1>9 DEF D, p

(* Types of the statistics.                                                *)
StatsTyped ==
    /\ trades \in Seq(Trade) /\ counted \subseteq 1 .. Len(trades)
    /\ cumulative \in Int /\ peak \in Int /\ maxDrawdown \in Int

(* The trades are counted in the order of their closing times, and the     *)
(* peak and the drawdown are right for the moments whose trades are all    *)
(* counted.                                                                *)
Drawn ==
    /\ cumulative = Profit(counted) /\ cumulative <= peak /\ 0 <= peak /\ 0 <= maxDrawdown
    /\ \A i \in counted, j \in Uncounted : trades[i].at <= trades[j].at
    /\ \A i \in 1 .. Len(trades) : By(trades[i].at) \subseteq counted => Profit(By(trades[i].at)) <= peak
    /\ \A j \in 1 .. Len(trades) : By(trades[j].at) \subseteq counted =>
          /\ 0 - Profit(By(trades[j].at)) <= maxDrawdown
          /\ \A i \in 1 .. Len(trades) : trades[i].at <= trades[j].at =>
                Profit(By(trades[i].at)) - Profit(By(trades[j].at)) <= maxDrawdown

(* Peak and drawdown are values of the curve.                              *)
Traced ==
    /\ curve \in Seq(Int) /\ cumulative \in Int /\ peak \in Int /\ maxDrawdown \in Int
    /\ \E i \in DOMAIN curve : peak = curve[i]
    /\ \E i, j \in DOMAIN curve : i <= j /\ maxDrawdown = curve[i] - curve[j]

(* The invariant of the statistics.                                        *)
StatsInv == StatsTyped /\ Drawn /\ Traced

(* The statistics start at zero.                                           *)
LEMMA InitDrawn == FInit => StatsInv
<1> SUFFICES ASSUME FInit PROVE StatsInv
  OBVIOUS
<1>1. /\ trades \in Seq(Trade) /\ counted = {} /\ cumulative = 0 /\ peak = 0 /\ maxDrawdown = 0
      /\ curve = <<0>>
  BY Figures DEF FInit, Trade
<1>2. Profit({}) = 0
  BY <1>1, ProfitOfNone
<1>3. \A i \in 1 .. Len(trades) : i \in By(trades[i].at)
  BY <1>1, TradesAreNumbers DEF By
<1>4. Drawn
  BY <1>1, <1>2, <1>3 DEF Drawn
<1>5. Traced
  <2>1. curve \in Seq(Int) /\ 1 \in DOMAIN curve /\ curve[1] = 0
    BY <1>1
  <2>2. peak = curve[1] /\ maxDrawdown = curve[1] - curve[1] /\ 1 <= 1
    BY <1>1, <2>1
  <2> QED BY <1>1, <2>1, <2>2 DEF Traced
<1> QED BY <1>1, <1>4, <1>5 DEF StatsInv, StatsTyped

(* Counting a trade leaves the drawdown on the curve.                      *)
LEMMA CountTradeTraces ==
  ASSUME StatsTyped, Traced, NEW i \in DOMAIN trades, CountTrade(i) PROVE Traced'
<1> DEFINE sum == cumulative + trades[i].pnl
           top == IF sum > peak THEN sum ELSE peak
           m   == Len(curve)
<1>1. /\ cumulative' = sum /\ peak' = top /\ curve' = Append(curve, sum)
      /\ maxDrawdown' = (IF top - sum > maxDrawdown THEN top - sum ELSE maxDrawdown)
  BY DEF CountTrade
<1>2. cumulative \in Int /\ peak \in Int /\ maxDrawdown \in Int /\ trades[i].pnl \in Int /\ sum \in Int /\ top \in Int
  BY TradesAreNumbers DEF StatsTyped
<1> HIDE DEF sum
<1>3. /\ curve' \in Seq(Int) /\ m \in Nat /\ DOMAIN curve' = 1 .. m + 1 /\ DOMAIN curve = 1 .. m
      /\ curve'[m + 1] = sum /\ \A k \in 1 .. m : curve'[k] = curve[k]
  BY <1>1, <1>2 DEF Traced
<1>4. PICK k \in 1 .. m : peak = curve[k]
  BY <1>3 DEF Traced
<1>5. PICK a \in 1 .. m + 1 : top = curve'[a]
  <2>1. CASE sum > peak
    BY <2>1, <1>3
  <2>2. CASE ~(sum > peak)
    BY <2>2, <1>3, <1>4
  <2> QED BY <2>1, <2>2
<1>6. \E x, y \in 1 .. m + 1 : x <= y /\ maxDrawdown' = curve'[x] - curve'[y]
  <2>1. CASE top - sum > maxDrawdown
    <3>1. maxDrawdown' = curve'[a] - curve'[m + 1] /\ a <= m + 1 /\ m + 1 \in 1 .. m + 1
      BY <1>1, <1>3, <1>5, <2>1
    <3> QED BY <3>1
  <2>2. CASE ~(top - sum > maxDrawdown)
    <3>1. PICK x \in 1 .. m, y \in 1 .. m : x <= y /\ maxDrawdown = curve[x] - curve[y]
      BY <1>3 DEF Traced
    <3>2. maxDrawdown' = curve'[x] - curve'[y] /\ x \in 1 .. m + 1 /\ y \in 1 .. m + 1
      BY <1>1, <1>3, <2>2, <3>1
    <3> QED BY <3>1, <3>2
  <2> QED BY <2>1, <2>2
<1>7. cumulative' \in Int /\ peak' \in Int /\ maxDrawdown' \in Int
  BY <1>1, <1>2
<1> QED BY <1>1, <1>3, <1>5, <1>6, <1>7 DEF Traced

(* Counting the first trade closed keeps the peak and the drawdown right   *)
(* for every moment whose trades are now all counted.                      *)
LEMMA CountTradeDraws ==
  ASSUME StatsTyped, Drawn, NEW i \in DOMAIN trades, CountTrade(i) PROVE StatsTyped' /\ Drawn'
<1> DEFINE n == Len(trades)
           sum == cumulative + trades[i].pnl
           top == IF sum > peak THEN sum ELSE peak
           P(j) == Profit(By(trades[j].at))
<1>1. /\ i \in Uncounted /\ \A j \in Uncounted : trades[i].at <= trades[j].at
      /\ counted' = counted \cup {i} /\ cumulative' = sum /\ peak' = top
      /\ maxDrawdown' = (IF top - sum > maxDrawdown THEN top - sum ELSE maxDrawdown)
      /\ trades' = trades
  <2>1. \A j \in Uncounted : trades[i].at \in Int /\ trades[j].at \in Int
    BY TradesAreNumbers DEF StatsTyped, Uncounted
  <2> QED BY <2>1 DEF CountTrade, FirstClosed
<1>2. /\ n \in Nat /\ i \in 1 .. n /\ \A k \in 1 .. n : trades[k].at \in Int /\ trades[k].pnl \in Int
      /\ cumulative \in Int /\ peak \in Int /\ maxDrawdown \in Int /\ i \notin counted
  BY <1>1, TradesAreNumbers DEF StatsTyped, Uncounted
<1>3. sum \in Int /\ top \in Int /\ sum <= top /\ peak <= top /\ 0 <= top
      /\ maxDrawdown' \in Int /\ maxDrawdown <= maxDrawdown' /\ top - sum <= maxDrawdown'
  BY <1>1, <1>2 DEF Drawn
<1>4. sum = Profit(counted')
  BY <1>1, <1>2, ProfitOfOneMore DEF StatsTyped, Drawn
<1> HIDE DEF sum, top
<1>5. StatsTyped'
  BY <1>1, <1>2, <1>3 DEF StatsTyped
<1>6. ASSUME NEW j \in 1 .. n, By(trades[j].at) \subseteq counted', ~(By(trades[j].at) \subseteq counted)
      PROVE  By(trades[j].at) = counted'
  <2>1. trades[i].at <= trades[j].at
    BY <1>1, <1>6 DEF By
  <2>2. ASSUME NEW k \in counted PROVE k \in By(trades[j].at)
    <3>1. k \in 1 .. n /\ trades[k].at <= trades[i].at
      BY <1>1 DEF StatsTyped, Drawn
    <3> QED BY <2>1, <3>1, <1>2, <1>6 DEF By
  <2>3. i \in By(trades[j].at)
    BY <2>1, <1>2 DEF By
  <2> QED BY <1>1, <1>6, <2>2, <2>3
<1>7. \A j \in 1 .. n : P(j) \in Int
  BY ProfitAdds DEF StatsTyped
<1>8. ASSUME NEW j \in 1 .. n, By(trades[j].at) \subseteq counted' PROVE P(j) <= top
  <2>1. CASE By(trades[j].at) \subseteq counted
    <3>1. P(j) <= peak
      BY <2>1 DEF Drawn
    <3> QED BY <3>1, <1>2, <1>3, <1>7
  <2>2. CASE ~(By(trades[j].at) \subseteq counted)
    <3>1. P(j) = sum
      BY <2>2, <1>4, <1>6, <1>8
    <3> QED BY <3>1, <1>3
  <2> QED BY <2>1, <2>2
<1>9. ASSUME NEW j \in 1 .. n, By(trades[j].at) \subseteq counted'
      PROVE  /\ 0 - P(j) <= maxDrawdown'
             /\ \A k \in 1 .. n : trades[k].at <= trades[j].at => P(k) - P(j) <= maxDrawdown'
  <2>1. CASE By(trades[j].at) \subseteq counted
    <3>1. /\ 0 - P(j) <= maxDrawdown
          /\ \A k \in 1 .. n : trades[k].at <= trades[j].at => P(k) - P(j) <= maxDrawdown
      BY <2>1 DEF Drawn
    <3> QED BY <3>1, <1>2, <1>3, <1>7
  <2>2. CASE ~(By(trades[j].at) \subseteq counted)
    <3>1. P(j) = sum /\ By(trades[j].at) = counted'
      BY <2>2, <1>4, <1>6, <1>9
    <3>2. 0 - P(j) <= maxDrawdown'
      BY <3>1, <1>3
    <3>3. ASSUME NEW k \in 1 .. n, trades[k].at <= trades[j].at PROVE P(k) - P(j) <= maxDrawdown'
      <4>1. By(trades[k].at) \subseteq By(trades[j].at)
        BY <3>3, <1>2 DEF By
      <4>2. P(k) <= top /\ P(k) \in Int
        BY <4>1, <3>1, <1>7, <1>8
      <4> QED BY <4>2, <3>1, <1>3
    <3> QED BY <3>2, <3>3
  <2> QED BY <2>1, <2>2
<1>10. \A k \in counted', j \in Uncounted' : trades[k].at <= trades[j].at
  <2>1. ASSUME NEW k \in counted', NEW j \in Uncounted' PROVE trades[k].at <= trades[j].at
    <3>1. j \in Uncounted
      BY <1>1, <2>1 DEF Uncounted
    <3>2. CASE k = i
      BY <1>1, <3>1, <3>2
    <3>3. CASE k \in counted
      BY <3>1, <3>3 DEF Drawn
    <3> QED BY <1>1, <3>2, <3>3
  <2> QED BY <2>1
<1>11. \A C : Profit(C)' = Profit(C)
  BY <1>1 DEF Profit
<1>12. \A t : By(t)' = By(t)
  BY <1>1 DEF By
<1>13. Drawn'
  <2>1. cumulative' = Profit(counted)'
    BY <1>1, <1>4, <1>11
  <2>2. \A j \in 1 .. n : Profit(By(trades[j].at))' = P(j)
    BY <1>1, <1>11, <1>12
  <2> HIDE DEF P
  <2>3. trades' = trades /\ Len(trades') = n /\ 0 <= maxDrawdown' /\ cumulative' <= peak' /\ 0 <= peak'
    BY <1>1, <1>2, <1>3 DEF Drawn
  <2>4. \A j \in 1 .. n : By(trades[j].at)' = By(trades[j].at)
    BY <1>1, <1>12
  <2>5. \A j \in 1 .. n : (By(trades[j].at) \subseteq counted)' => By(trades[j].at) \subseteq counted'
    BY <2>4
  <2>6. \A j \in 1 .. n : (By(trades[j].at) \subseteq counted)' => P(j) <= peak'
    BY <1>1, <1>8, <2>5
  <2>7. \A j \in 1 .. n : (By(trades[j].at) \subseteq counted)' =>
           /\ 0 - P(j) <= maxDrawdown'
           /\ \A k \in 1 .. n : trades[k].at <= trades[j].at => P(k) - P(j) <= maxDrawdown'
    BY <1>9, <2>5
  <2> QED BY <2>1, <2>2, <2>3, <2>6, <2>7, <1>10 DEF Drawn
<1> QED BY <1>5, <1>13

(* Every step of the figures keeps the statistics right.                   *)
LEMMA StatsInductive == StatsInv /\ [FNext]_figureVars => StatsInv'
<1> SUFFICES ASSUME StatsInv, [FNext]_figureVars PROVE StatsInv'
  OBVIOUS
<1>1. ASSUME NEW i \in DOMAIN trades, CountTrade(i) PROVE StatsInv'
  BY <1>1, CountTradeDraws, CountTradeTraces DEF StatsInv
<1>2. CASE UNCHANGED statsVars
  <2>1. UNCHANGED <<trades, counted, cumulative, peak, maxDrawdown, curve>>
    BY <1>2 DEF statsVars
  <2>2. \A C : Profit(C)' = Profit(C)
    BY <2>1 DEF Profit
  <2>3. \A t : By(t)' = By(t)
    BY <2>1 DEF By
  <2> QED BY <2>1, <2>2, <2>3 DEF StatsInv, StatsTyped, Drawn, Traced, Uncounted
<1>3. AllocateLeg \/ UNCHANGED figureVars => UNCHANGED statsVars
  BY DEF AllocateLeg, figureVars, statsVars
<1> QED BY <1>1, <1>2, <1>3 DEF FNext

(* Whatever the trades and the order the store lists them in, the drawdown *)
(* reported is at least every fall of the profit between two moments, and  *)
(* is one that the curve of the counted trades shows (_max_drawdown).      *)
THEOREM DrawdownIsDeepest == FSpec => []DrawdownIsWorst
<1>1. StatsInv => DrawdownIsWorst
  <2> SUFFICES ASSUME StatsInv PROVE DrawdownIsWorst
    OBVIOUS
  <2>1. \A t : ProfitBy(t) = Profit(By(t))
    BY DEF ProfitBy, Profit, By
  <2>2. ASSUME counted = 1 .. Len(trades), NEW i \in 1 .. Len(trades), NEW j \in 1 .. Len(trades),
               trades[i].at <= trades[j].at
        PROVE  /\ maxDrawdown >= ProfitBy(trades[i].at) - ProfitBy(trades[j].at)
               /\ maxDrawdown >= 0 - ProfitBy(trades[j].at)
    <3>1. By(trades[j].at) \subseteq counted
      BY <2>2 DEF By
    <3>2. /\ Profit(By(trades[i].at)) - Profit(By(trades[j].at)) <= maxDrawdown
          /\ 0 - Profit(By(trades[j].at)) <= maxDrawdown
      BY <2>2, <3>1 DEF StatsInv, Drawn
    <3>3. maxDrawdown \in Int /\ Profit(By(trades[i].at)) \in Int /\ Profit(By(trades[j].at)) \in Int
      BY ProfitAdds DEF StatsInv, StatsTyped
    <3> QED BY <2>1, <3>2, <3>3
  <2> QED BY <2>2 DEF DrawdownIsWorst, StatsInv, Traced
<1> QED BY <1>1, InitDrawn, StatsInductive, PTL DEF FSpec

-----------------------------------------------------------------------------
(* The detectors of the scans: prices upside down, and extremes of them.    *)

(* The greatest member that Max chooses.                                   *)
LEMMA GreatestOfBounded ==
  ASSUME NEW hi \in Int, NEW S, S \subseteq Int, S # {}, \A x \in S : x <= hi
  PROVE  Max(S) \in S /\ \A x \in S : x <= Max(S)
<1>1. PICK x \in S : \A y \in S : y <= x
  BY BoundedHasGreatest
<1>2. \A y \in S : x >= y
  BY <1>1
<1> QED BY <1>1, <1>2 DEF Max

(* The two directions are opposite.                                        *)
LEMMA Opposites ==
  /\ BULLISH \in Directions /\ BEARISH \in Directions /\ BULLISH \in Int /\ BEARISH \in Int
  /\ BULLISH # BEARISH /\ BULLISH # NEUTRAL /\ BEARISH # NEUTRAL /\ -NEUTRAL = NEUTRAL
  /\ -BULLISH = BEARISH /\ -BEARISH = BULLISH
<1>1. /\ BULLISH \in Directions /\ BEARISH \in Directions /\ BULLISH \in Int /\ BEARISH \in Int
      /\ BULLISH # BEARISH /\ BULLISH # NEUTRAL /\ BEARISH # NEUTRAL
  BY DEF Directions, BULLISH, BEARISH, NEUTRAL
<1>2. -BULLISH = BEARISH
  BY DEF BULLISH, BEARISH
<1>3. \A x \in Int : -(-x) = x /\ (x = 0 => -x = x)
  OBVIOUS
<1>4. -BEARISH = BULLISH
  BY <1>1, <1>2, <1>3
<1>5. -NEUTRAL = NEUTRAL
  <2>1. NEUTRAL \in Int /\ NEUTRAL = 0
    BY DEF NEUTRAL
  <2> QED BY <2>1, <1>3
<1> QED BY <1>1, <1>2, <1>4, <1>5

(* Prices are turned the other way round.                                  *)
LEMMA TurnReverses ==
  ASSUME NEW p \in Prices
  PROVE  /\ p \in Nat /\ p <= MaxPrice /\ MaxPrice \in Nat /\ Turn(p) \in Prices /\ Turn(p) \in Nat
         /\ Turn(p) = MaxPrice + 1 - p /\ Turn(p) <= MaxPrice /\ Turn(Turn(p)) = p
         /\ \A q \in Prices :
               /\ (Turn(p) < Turn(q)) <=> (q < p)
               /\ (Turn(p) <= Turn(q)) <=> (q <= p)
               /\ (Turn(p) > Turn(q)) <=> (q > p)
               /\ (Turn(p) = Turn(q)) <=> (p = q)
<1>1. MaxPrice \in Nat
  BY Inputs
<1>2. p \in Nat /\ 1 <= p /\ p <= MaxPrice
  BY <1>1 DEF Prices
<1>3. Turn(p) = MaxPrice + 1 - p
  BY DEF Turn
<1>4. Turn(p) \in Nat /\ 1 <= Turn(p) /\ Turn(p) <= MaxPrice
  BY <1>1, <1>2, <1>3
<1>5. Turn(p) \in Prices
  BY <1>1, <1>4 DEF Prices
<1>6. Turn(Turn(p)) = p
  BY <1>1, <1>2 DEF Turn
<1>7. ASSUME NEW q \in Prices
      PROVE  /\ (Turn(p) < Turn(q)) <=> (q < p)
             /\ (Turn(p) <= Turn(q)) <=> (q <= p)
             /\ (Turn(p) > Turn(q)) <=> (q > p)
             /\ (Turn(p) = Turn(q)) <=> (p = q)
  <2>1. q \in Nat /\ Turn(q) = MaxPrice + 1 - q
    BY <1>1 DEF Prices, Turn
  <2> QED BY <1>1, <1>2, <1>3, <2>1
<1> QED BY <1>1, <1>2, <1>3, <1>4, <1>5, <1>6, <1>7

(* Extremes of prices, and of the same prices upside down.                 *)
LEMMA TurnedExtremes ==
  ASSUME NEW S, S \subseteq Prices, S # {}
  PROVE  LET T == {Turn(p) : p \in S}
         IN  /\ Max(S) \in S /\ Min(S) \in S /\ \A p \in S : Min(S) <= p /\ p <= Max(S)
             /\ Max(T) = Turn(Min(S)) /\ Min(T) = Turn(Max(S))
<1>1. ASSUME NEW R, R \subseteq Prices, R # {}
      PROVE  Max(R) \in R /\ Min(R) \in R /\ \A p \in R : Min(R) <= p /\ p <= Max(R)
  <2>1. R \subseteq Nat /\ R \subseteq Int /\ (\A p \in R : p <= MaxPrice) /\ MaxPrice \in Int
    BY <1>1, TurnReverses
  <2>2. Max(R) \in R /\ \A p \in R : p <= Max(R)
    BY ONLY <1>1, <2>1, GreatestOfBounded
  <2>3. Min(R) \in R /\ \A p \in R : Min(R) <= p
    BY ONLY <1>1, <2>1, LeastOfNaturals
  <2> QED BY <2>2, <2>3
<1> DEFINE T == {Turn(p) : p \in S}
<1>2. T \subseteq Prices /\ T # {} /\ \A p \in S : Turn(p) \in T
  BY TurnReverses
<1>3. \A t \in T : \E p \in S : t = Turn(p)
  OBVIOUS
<1> HIDE DEF T
<1>4. /\ Max(T) \in T /\ Min(T) \in T /\ \A p \in T : Min(T) <= p /\ p <= Max(T)
      /\ Max(S) \in S /\ Min(S) \in S /\ \A p \in S : Min(S) <= p /\ p <= Max(S)
  BY <1>1, <1>2
<1>5. PICK a \in S : Max(T) = Turn(a)
  BY <1>3, <1>4
<1>6. PICK b \in S : Min(T) = Turn(b)
  BY <1>3, <1>4
<1>7. Max(T) = Turn(Min(S))
  <2>1. Turn(Min(S)) <= Turn(a) /\ Min(S) <= a
    BY <1>2, <1>4, <1>5
  <2>2. a <= Min(S) /\ a \in Nat /\ Min(S) \in Nat
    BY <1>4, <2>1, TurnReverses
  <2> QED BY <1>5, <2>1, <2>2
<1>8. Min(T) = Turn(Max(S))
  <2>1. Turn(b) <= Turn(Max(S)) /\ b <= Max(S)
    BY <1>2, <1>4, <1>6
  <2>2. Max(S) <= b /\ b \in Nat /\ Max(S) \in Nat
    BY <1>4, <2>1, TurnReverses
  <2> QED BY <1>6, <2>1, <2>2
<1> QED BY <1>4, <1>7, <1>8 DEF T

(* What a turned chart shows.                                              *)
LEMMA TurnedCandles ==
  ASSUME NEW chart \in Seq(Candles)
  PROVE  /\ Len(chart) \in Nat /\ Len(TurnChart(chart)) = Len(chart)
         /\ \A i \in 1 .. Len(chart) :
               /\ chart[i].low \in Prices /\ chart[i].high \in Prices /\ chart[i].close \in Prices
               /\ chart[i].low <= chart[i].high
               /\ TurnChart(chart)[i].low = Turn(chart[i].high)
               /\ TurnChart(chart)[i].high = Turn(chart[i].low)
               /\ TurnChart(chart)[i].close = Turn(chart[i].close)
<1> DEFINE turn(b) == [low |-> Turn(b.high), high |-> Turn(b.low), close |-> Turn(b.close)]
<1>1. Len(chart) \in Nat /\ DOMAIN chart = 1 .. Len(chart) /\ \A i \in 1 .. Len(chart) : chart[i] \in Candles
  OBVIOUS
<1>2. TurnChart(chart) = [i \in 1 .. Len(chart) |-> turn(chart[i])]
  BY <1>1 DEF TurnChart
<1>3. \A b \in Candles : /\ b.low \in Prices /\ b.high \in Prices /\ b.close \in Prices /\ b.low <= b.high
  BY DEF Candles
<1>4. Len(TurnChart(chart)) = Len(chart)
  <2> HIDE DEF turn
  <2> QED BY <1>1, <1>2
<1>5. \A i \in 1 .. Len(chart) : TurnChart(chart)[i] = turn(chart[i])
  BY <1>2
<1>6. \A i \in 1 .. Len(chart) :
         /\ chart[i].low \in Prices /\ chart[i].high \in Prices /\ chart[i].close \in Prices
         /\ chart[i].low <= chart[i].high
  BY <1>1, <1>3
<1>7. \A i \in 1 .. Len(chart) :
         /\ TurnChart(chart)[i].low = Turn(chart[i].high)
         /\ TurnChart(chart)[i].high = Turn(chart[i].low)
         /\ TurnChart(chart)[i].close = Turn(chart[i].close)
  <2>1. \A b : turn(b).low = Turn(b.high) /\ turn(b).high = Turn(b.low) /\ turn(b).close = Turn(b.close)
    OBVIOUS
  <2> HIDE DEF turn
  <2> QED BY <1>5, <2>1
<1> QED BY <1>1, <1>4, <1>6, <1>7

(* A sweep of a turned chart is the sweep turned.                          *)
LEMMA TurnSweeps ==
  ASSUME NEW chart \in Seq(Candles), chart # <<>>, NEW direction \in Directions, NEW level, NEW at
  PROVE  Sweep(TurnChart(chart), -direction, Turn(level), at) = TurnSweep(Sweep(chart, direction, level, at))
<1>1. /\ Len(chart) \in 1 .. Len(chart) /\ Len(TurnChart(chart)) = Len(chart)
      /\ TurnChart(chart)[Len(chart)].low = Turn(chart[Len(chart)].high)
      /\ TurnChart(chart)[Len(chart)].high = Turn(chart[Len(chart)].low)
      /\ TurnChart(chart)[Len(chart)].close = Turn(chart[Len(chart)].close)
  <2>1. Len(chart) \in 1 .. Len(chart)
    OBVIOUS
  <2> QED BY <2>1, TurnedCandles
<1>2. \/ direction = BULLISH /\ -direction = BEARISH
      \/ direction = BEARISH /\ -direction = BULLISH
  BY Opposites DEF Directions
<1>3. Sweep(chart, direction, level, at) # NotDetected
  BY <1>2, Opposites DEF Sweep, NotDetected
<1> QED BY <1>1, <1>2, <1>3, Opposites DEF Sweep, TurnSweep

(* detect_turtle_soup favours no direction.                                *)
LEMMA TurtleSoupMirrors ==
  ASSUME NEW chart \in Seq(Candles)
  PROVE  TurtleSoup(TurnChart(chart)) = TurnSweep(TurtleSoup(chart))
<1> DEFINE n      == Len(chart)
           turned == TurnChart(chart)
           window == n - Lookback .. n - 1
           highs  == {chart[i].high : i \in window}
           lows   == {chart[i].low : i \in window}
           high   == Max(highs)
           low    == Min(lows)
<1>1. n \in Nat /\ Len(turned) = n
  BY TurnedCandles
<1>2. CASE n < Lookback + 1
  BY <1>1, <1>2 DEF TurtleSoup, TurnSweep
<1>3. CASE ~(n < Lookback + 1)
  <2>1. /\ n \in 1 .. n /\ window \subseteq 1 .. n /\ window # {} /\ chart # <<>>
    <3>1. Lookback \in Nat /\ Lookback > 0
      BY Inputs
    <3>2. n - 1 \in window /\ n > 0
      BY <1>1, <1>3, <3>1
    <3>3. window \subseteq 1 .. n
      BY <1>1, <1>3, <3>1
    <3> QED BY <1>1, <3>2, <3>3
  <2> DEFINE last == chart[n]
             Ats  == {i \in window : chart[i].low = low}
             Bts  == {i \in window : chart[i].high = high}
             bearish == last.high > high /\ low <= last.close /\ last.close < high
             bullish == last.low < low /\ low < last.close /\ last.close <= high
  <2>2. /\ turned[n].low = Turn(last.high) /\ turned[n].high = Turn(last.low) /\ turned[n].close = Turn(last.close)
        /\ last.low \in Prices /\ last.high \in Prices /\ last.close \in Prices
    BY <2>1, TurnedCandles
  <2>3. \A i \in window : /\ turned[i].low = Turn(chart[i].high) /\ turned[i].high = Turn(chart[i].low)
                          /\ chart[i].low \in Prices /\ chart[i].high \in Prices
    BY <2>1, TurnedCandles
  <2> HIDE DEF turned, window
  <2>4. highs \subseteq Prices /\ lows \subseteq Prices /\ highs # {} /\ lows # {}
    BY <2>1, <2>3
  <2>5. /\ {turned[i].high : i \in window} = {Turn(p) : p \in lows}
        /\ {turned[i].low : i \in window} = {Turn(p) : p \in highs}
    BY <2>3
  <2> HIDE DEF highs, lows
  <2>6. /\ high \in Prices /\ low \in Prices
        /\ Max({turned[i].high : i \in window}) = Turn(low) /\ Min({turned[i].low : i \in window}) = Turn(high)
    BY <2>4, <2>5, TurnedExtremes
  <2> HIDE DEF high, low
  <2>7. /\ {i \in window : turned[i].low = Turn(high)} = Bts
        /\ {i \in window : turned[i].high = Turn(low)} = Ats
    <3>1. \A i \in window : /\ (Turn(chart[i].high) = Turn(high)) <=> (chart[i].high = high)
                            /\ (Turn(chart[i].low) = Turn(low)) <=> (chart[i].low = low)
      BY <2>3, <2>6, TurnReverses
    <3> QED BY <2>3, <3>1
  <2>8. /\ (turned[n].high > Turn(low) /\ Turn(high) <= turned[n].close /\ turned[n].close < Turn(low)) <=> bullish
        /\ (turned[n].low < Turn(high) /\ Turn(high) < turned[n].close /\ turned[n].close <= Turn(low)) <=> bearish
    <3> DEFINE l == last.low
               h == last.high
               c == last.close
    <3>1. l \in Prices /\ h \in Prices /\ c \in Prices /\ low \in Prices /\ high \in Prices
      BY <2>2, <2>6
    <3>2. turned[n].low = Turn(h) /\ turned[n].high = Turn(l) /\ turned[n].close = Turn(c)
      BY <2>2
    <3>3. /\ bullish <=> (l < low /\ low < c /\ c <= high)
          /\ bearish <=> (h > high /\ low <= c /\ c < high)
      OBVIOUS
    <3> HIDE DEF l, h, c, bullish, bearish
    <3>4. /\ (Turn(l) > Turn(low)) <=> (low > l)
          /\ (Turn(high) <= Turn(c)) <=> (c <= high)
          /\ (Turn(c) < Turn(low)) <=> (low < c)
          /\ (Turn(h) < Turn(high)) <=> (high < h)
          /\ (Turn(high) < Turn(c)) <=> (c < high)
          /\ (Turn(c) <= Turn(low)) <=> (low <= c)
      BY <3>1, TurnReverses
    <3>5. ((low > l) <=> (l < low)) /\ ((high < h) <=> (h > high))
      BY <3>1, TurnReverses
    <3> QED BY <3>2, <3>3, <3>4, <3>5
  <2>9. TurtleSoup(chart) = IF bearish <=> bullish THEN NotDetected
                            ELSE IF bullish THEN Sweep(chart, BULLISH, low, Max(Ats))
                                            ELSE Sweep(chart, BEARISH, high, Max(Bts))
    BY <1>1, <1>3 DEF TurtleSoup, high, low, highs, lows, window
  <2>10. TurtleSoup(turned) = IF bearish <=> bullish THEN NotDetected
                              ELSE IF bearish THEN Sweep(turned, BULLISH, Turn(high), Max(Bts))
                                              ELSE Sweep(turned, BEARISH, Turn(low), Max(Ats))
    <3> DEFINE up   == turned[n].low < Turn(high) /\ Turn(high) < turned[n].close /\ turned[n].close <= Turn(low)
               down == turned[n].high > Turn(low) /\ Turn(high) <= turned[n].close /\ turned[n].close < Turn(low)
    <3>1. TurtleSoup(turned) = IF down <=> up THEN NotDetected
                               ELSE IF up THEN Sweep(turned, BULLISH, Turn(high), Max(Bts))
                                          ELSE Sweep(turned, BEARISH, Turn(low), Max(Ats))
      BY <1>1, <1>3, <2>6, <2>7 DEF TurtleSoup, window
    <3> HIDE DEF up, down, bearish, bullish
    <3>2. (up <=> bearish) /\ (down <=> bullish)
      BY <2>8 DEF up, down, bearish, bullish
    <3> QED BY <3>1, <3>2
  <2> HIDE DEF Ats, Bts
  <2>11. BULLISH \in Directions /\ BEARISH \in Directions /\ -BULLISH = BEARISH /\ -BEARISH = BULLISH
    BY Opposites
  <2>12. /\ Sweep(turned, BULLISH, Turn(high), Max(Bts)) = TurnSweep(Sweep(chart, BEARISH, high, Max(Bts)))
         /\ Sweep(turned, BEARISH, Turn(low), Max(Ats)) = TurnSweep(Sweep(chart, BULLISH, low, Max(Ats)))
    BY <2>1, <2>11, TurnSweeps DEF turned
  <2>13. TurnSweep(NotDetected) = NotDetected
    BY DEF TurnSweep
  <2>14. CASE bearish <=> bullish
    <3> HIDE DEF bearish, bullish
    <3>1. TurtleSoup(chart) = NotDetected /\ TurtleSoup(turned) = NotDetected
      BY <2>9, <2>10, <2>14
    <3> QED BY <3>1, <2>13 DEF turned
  <2>15. CASE ~bearish /\ bullish
    <3> HIDE DEF bearish, bullish
    <3>1. /\ TurtleSoup(chart) = Sweep(chart, BULLISH, low, Max(Ats))
          /\ TurtleSoup(turned) = Sweep(turned, BEARISH, Turn(low), Max(Ats))
      BY <2>9, <2>10, <2>15
    <3> QED BY <3>1, <2>12 DEF turned
  <2>16. CASE bearish /\ ~bullish
    <3> HIDE DEF bearish, bullish
    <3>1. /\ TurtleSoup(chart) = Sweep(chart, BEARISH, high, Max(Bts))
          /\ TurtleSoup(turned) = Sweep(turned, BULLISH, Turn(high), Max(Bts))
      BY <2>9, <2>10, <2>16
    <3> QED BY <3>1, <2>12 DEF turned
  <2> QED BY <2>14, <2>15, <2>16
<1> QED BY <1>2, <1>3

(* detect_sfp favours no direction.                                        *)
LEMMA SwingFailureMirrors ==
  ASSUME NEW chart \in Seq(Candles), NEW swings \in Seq({-1, 0, 1}), Len(swings) = Len(chart)
  PROVE  SwingFailure(TurnChart(chart), [i \in DOMAIN swings |-> -swings[i]])
           = TurnSweep(SwingFailure(chart, swings))
<1> DEFINE n      == Len(chart)
           turned == TurnChart(chart)
           marks  == [i \in DOMAIN swings |-> -swings[i]]
           highs  == {i \in 1 .. n - 1 : swings[i] = 1}
           lows   == {i \in 1 .. n - 1 : swings[i] = -1}
           h      == Max(highs)
           l      == Max(lows)
           last   == chart[n]
           bearish == highs # {} /\ last.high > chart[h].high /\ last.close < chart[h].high
           bullish == lows # {} /\ last.low < chart[l].low /\ last.close > chart[l].low
           up   == highs # {} /\ turned[n].low < turned[h].low /\ turned[n].close > turned[h].low
           down == lows # {} /\ turned[n].high > turned[l].high /\ turned[n].close < turned[l].high
<1>1. n \in Nat /\ Len(turned) = n /\ DOMAIN swings = 1 .. n /\ 2 * SwingLength + 2 > 0
  BY TurnedCandles, Inputs
<1>2. \A i \in 1 .. n - 1 : i \in DOMAIN swings /\ marks[i] = -swings[i] /\ swings[i] \in {-1, 0, 1}
  BY <1>1
<1>3. \A x \in {-1, 0, 1} : ((-x = 1) <=> (x = -1)) /\ ((-x = -1) <=> (x = 1))
  OBVIOUS
<1>4. {i \in 1 .. n - 1 : marks[i] = 1} = lows /\ {i \in 1 .. n - 1 : marks[i] = -1} = highs
  <2> HIDE DEF marks
  <2> QED BY <1>2, <1>3
<1>5. ASSUME NEW S, S \subseteq 1 .. n - 1, S # {} PROVE Max(S) \in 1 .. n
  <2>1. S \subseteq Int /\ n - 1 \in Int /\ \A x \in S : x <= n - 1
    BY <1>1, <1>5
  <2>2. Max(S) \in S
    BY ONLY <1>5, <2>1, GreatestOfBounded
  <2>3. 1 .. n - 1 \subseteq 1 .. n
    BY <1>1
  <2> QED BY <1>5, <2>2, <2>3
<1>6. (highs # {} => h \in 1 .. n) /\ (lows # {} => l \in 1 .. n)
  <2>1. highs \subseteq 1 .. n - 1 /\ lows \subseteq 1 .. n - 1
    OBVIOUS
  <2> HIDE DEF highs, lows
  <2> QED BY <1>5, <2>1
<1>7. SwingFailure(chart, swings) =
         IF n < 2 * SwingLength + 2 \/ (bearish <=> bullish) THEN NotDetected
         ELSE IF bullish THEN Sweep(chart, BULLISH, chart[l].low, l)
                         ELSE Sweep(chart, BEARISH, chart[h].high, h)
  BY DEF SwingFailure
<1>8. SwingFailure(turned, marks) =
         IF n < 2 * SwingLength + 2 \/ (down <=> up) THEN NotDetected
         ELSE IF up THEN Sweep(turned, BULLISH, turned[h].low, h)
                    ELSE Sweep(turned, BEARISH, turned[l].high, l)
  <2> HIDE DEF marks, turned, highs, lows
  <2> QED BY <1>1, <1>4 DEF SwingFailure
<1>9. CASE n < 2 * SwingLength + 2
  BY <1>7, <1>8, <1>9 DEF TurnSweep
<1>10. CASE ~(n < 2 * SwingLength + 2)
  <2>1. n \in 1 .. n /\ chart # <<>>
    BY <1>1, <1>10
  <2>2. \A i \in 1 .. n :
           /\ turned[i].low = Turn(chart[i].high) /\ turned[i].high = Turn(chart[i].low)
           /\ turned[i].close = Turn(chart[i].close)
           /\ chart[i].low \in Prices /\ chart[i].high \in Prices /\ chart[i].close \in Prices
    BY TurnedCandles
  <2> HIDE DEF turned, highs, lows, h, l, n
  <2>3. /\ last.low \in Prices /\ last.high \in Prices /\ last.close \in Prices
        /\ turned[n].low = Turn(last.high) /\ turned[n].high = Turn(last.low) /\ turned[n].close = Turn(last.close)
    BY <2>1, <2>2
  <2>4. up <=> bearish
    <3>1. ASSUME highs # {}
          PROVE  /\ (turned[n].low < turned[h].low) <=> (last.high > chart[h].high)
                 /\ (turned[n].close > turned[h].low) <=> (last.close < chart[h].high)
      <4> DEFINE p == chart[h].high
                 q == last.high
                 c == last.close
      <4>1. p \in Prices /\ q \in Prices /\ c \in Prices /\ turned[h].low = Turn(p)
        BY <1>6, <2>2, <2>3, <3>1
      <4>2. turned[n].low = Turn(q) /\ turned[n].close = Turn(c)
        BY <2>3
      <4> HIDE DEF p, q, c, last
      <4>3. /\ (Turn(q) < Turn(p)) <=> (p < q)
            /\ (Turn(c) > Turn(p)) <=> (p > c)
            /\ (p < q) <=> (q > p)
            /\ (p > c) <=> (c < p)
        BY <4>1, TurnReverses
      <4> QED BY <4>1, <4>2, <4>3 DEF p, q, c
    <3> QED BY <3>1
  <2>5. down <=> bullish
    <3>1. ASSUME lows # {}
          PROVE  /\ (turned[n].high > turned[l].high) <=> (last.low < chart[l].low)
                 /\ (turned[n].close < turned[l].high) <=> (last.close > chart[l].low)
      <4> DEFINE p == chart[l].low
                 q == last.low
                 c == last.close
      <4>1. p \in Prices /\ q \in Prices /\ c \in Prices /\ turned[l].high = Turn(p)
        BY <1>6, <2>2, <2>3, <3>1
      <4>2. turned[n].high = Turn(q) /\ turned[n].close = Turn(c)
        BY <2>3
      <4> HIDE DEF p, q, c, last
      <4>3. /\ (Turn(q) > Turn(p)) <=> (p > q)
            /\ (Turn(c) < Turn(p)) <=> (p < c)
            /\ (p > q) <=> (q < p)
            /\ (p < c) <=> (c > p)
        BY <4>1, TurnReverses
      <4> QED BY <4>1, <4>2, <4>3 DEF p, q, c
    <3> QED BY <3>1
  <2>6. /\ bearish => Sweep(turned, BULLISH, turned[h].low, h) = TurnSweep(Sweep(chart, BEARISH, chart[h].high, h))
        /\ bullish => Sweep(turned, BEARISH, turned[l].high, l) = TurnSweep(Sweep(chart, BULLISH, chart[l].low, l))
    <3>1. /\ bearish => turned[h].low = Turn(chart[h].high)
          /\ bullish => turned[l].high = Turn(chart[l].low)
      BY <1>6, <2>2
    <3>2. /\ \A x, y : Sweep(turned, BULLISH, Turn(x), y) = TurnSweep(Sweep(chart, BEARISH, x, y))
          /\ \A x, y : Sweep(turned, BEARISH, Turn(x), y) = TurnSweep(Sweep(chart, BULLISH, x, y))
      BY <2>1, Opposites, TurnSweeps DEF turned
    <3> QED BY <3>1, <3>2
  <2>7. TurnSweep(NotDetected) = NotDetected
    BY DEF TurnSweep
  <2> HIDE DEF up, down, bearish, bullish
  <2>8. CASE bearish <=> bullish
    BY <1>7, <1>8, <1>10, <2>4, <2>5, <2>7, <2>8 DEF turned
  <2>9. CASE bearish /\ ~bullish
    BY <1>7, <1>8, <1>10, <2>4, <2>5, <2>6, <2>9 DEF turned
  <2>10. CASE ~bearish /\ bullish
    BY <1>7, <1>8, <1>10, <2>4, <2>5, <2>6, <2>10 DEF turned
  <2> QED BY <2>8, <2>9, <2>10
<1> QED BY <1>9, <1>10

-----------------------------------------------------------------------------
(* The opening range: its window depends on the clock alone.               *)

(* Keys that differ, of whole numbers with an upper bound, have a last one. *)
LEMMA LastByKey ==
  ASSUME NEW S, S # {}, NEW key, NEW hi \in Int,
         \A i \in S : \A k \in 1 .. 3 : key[i][k] \in Int /\ key[i][k] <= hi,
         \A i, j \in S : i # j => \E k \in 1 .. 3 : key[i][k] # key[j][k]
  PROVE  \E m \in S : \A j \in S \ {m} : Precedes(key[j], key[m])
<1>1. ASSUME NEW R, R \subseteq S, R # {}, NEW k \in 1 .. 3
      PROVE  \E m \in R : \A j \in R : key[j][k] <= key[m][k]
  <2> DEFINE K == {key[i][k] : i \in R}
  <2>1. K \subseteq Int /\ K # {} /\ \A x \in K : x <= hi
    BY <1>1
  <2>2. PICK x \in K : \A y \in K : y <= x
    <3> HIDE DEF K
    <3> QED BY <2>1, BoundedHasGreatest
  <2> QED BY <2>2
<1>2. PICK a \in S : \A j \in S : key[j][1] <= key[a][1]
  BY <1>1
<1> DEFINE A == {i \in S : key[i][1] = key[a][1]}
<1>3. A \subseteq S /\ a \in A
  OBVIOUS
<1>4. PICK b \in A : \A j \in A : key[j][2] <= key[b][2]
  <2> HIDE DEF A
  <2>1. A \subseteq S /\ A # {} /\ 2 \in 1 .. 3
    BY <1>3
  <2> QED BY <1>1, <2>1
<1> DEFINE B == {i \in A : key[i][2] = key[b][2]}
<1>5. B \subseteq S /\ b \in B
  OBVIOUS
<1>6. PICK c \in B : \A j \in B : key[j][3] <= key[c][3]
  <2> HIDE DEF B
  <2>1. B \subseteq S /\ B # {} /\ 3 \in 1 .. 3
    BY <1>5
  <2> QED BY <1>1, <2>1
<1>7. ASSUME NEW j \in S, j # c PROVE Precedes(key[j], key[c])
  <2>1. /\ c \in S /\ key[c][1] = key[a][1] /\ key[c][2] = key[b][2]
        /\ \A k \in 1 .. 3 : key[j][k] \in Int /\ key[c][k] \in Int
    BY <1>6
  <2>2. CASE key[j][1] # key[c][1]
    <3>1. key[j][1] < key[c][1] /\ \A l \in 1 .. 1 - 1 : key[j][l] = key[c][l]
      BY <1>2, <2>1, <2>2
    <3> QED BY <3>1 DEF Precedes
  <2>3. CASE key[j][1] = key[c][1] /\ key[j][2] # key[c][2]
    <3>1. j \in A
      BY <2>1, <2>3
    <3>2. key[j][2] < key[c][2] /\ \A l \in 1 .. 2 - 1 : key[j][l] = key[c][l]
      BY <1>4, <2>1, <2>3, <3>1
    <3> QED BY <3>2 DEF Precedes
  <2>4. CASE key[j][1] = key[c][1] /\ key[j][2] = key[c][2]
    <3>1. j \in B
      BY <2>1, <2>4
    <3>2. key[j][3] # key[c][3]
      <4>1. PICK k \in 1 .. 3 : key[j][k] # key[c][k]
        BY <1>7, <2>1
      <4> QED BY <2>4, <4>1
    <3>3. key[j][3] < key[c][3] /\ \A l \in 1 .. 3 - 1 : key[j][l] = key[c][l]
      BY <1>6, <2>1, <2>4, <3>1, <3>2
    <3> QED BY <3>3 DEF Precedes
  <2> QED BY <2>2, <2>3, <2>4
<1>8. c \in S
  BY <1>6
<1> QED BY <1>7, <1>8

(* The opening range of one window favours no direction.                   *)
LEMMA OpeningRangeMirrors ==
  ASSUME NEW chart \in Seq(Candles), NEW w, w[1][1] \in 1 .. Len(chart), w[1][2] \in 1 .. Len(chart),
         w[1][2] - w[1][1] + 1 >= OpeningBars + 1
  PROVE  OpeningRange(TurnChart(chart), w) = TurnBreakout(OpeningRange(chart, w))
<1> DEFINE n       == Len(chart)
           turned  == TurnChart(chart)
           opening == w[1][1] .. w[1][1] + OpeningBars - 1
           later   == w[1][1] + OpeningBars .. w[1][2]
           highs   == {chart[i].high : i \in opening}
           lows    == {chart[i].low : i \in opening}
           high    == Max(highs)
           low     == Min(lows)
           outside == {i \in later : chart[i].close > high \/ chart[i].close < low}
           first   == Min(outside)
<1>1. /\ n \in Nat /\ OpeningBars \in Nat /\ OpeningBars > 0
      /\ opening \subseteq 1 .. n /\ w[1][1] \in opening /\ later \subseteq 1 .. n
  <2>1. n \in Nat /\ OpeningBars \in Nat /\ OpeningBars > 0
    BY TurnedCandles, Inputs
  <2> DEFINE a == w[1][1]
             b == w[1][2]
  <2>2. a \in 1 .. n /\ b \in 1 .. n /\ b - a + 1 >= OpeningBars + 1
    OBVIOUS
  <2> HIDE DEF a, b, n
  <2>3. /\ a .. a + OpeningBars - 1 \subseteq 1 .. n /\ a \in a .. a + OpeningBars - 1
        /\ a + OpeningBars .. b \subseteq 1 .. n
    BY <2>1, <2>2
  <2> QED BY <2>1, <2>3 DEF a, b
<1>2. \A i \in 1 .. n :
         /\ turned[i].low = Turn(chart[i].high) /\ turned[i].high = Turn(chart[i].low)
         /\ turned[i].close = Turn(chart[i].close) /\ chart[i].low <= chart[i].high
         /\ chart[i].low \in Prices /\ chart[i].high \in Prices /\ chart[i].close \in Prices
  BY TurnedCandles
<1> HIDE DEF turned, opening, later, n
<1>3. highs \subseteq Prices /\ lows \subseteq Prices /\ highs # {} /\ lows # {}
  BY <1>1, <1>2
<1>4. /\ {turned[i].high : i \in opening} = {Turn(p) : p \in lows}
      /\ {turned[i].low : i \in opening} = {Turn(p) : p \in highs}
  <2>1. \A i \in opening : turned[i].high = Turn(chart[i].low) /\ turned[i].low = Turn(chart[i].high)
    BY <1>1, <1>2
  <2> QED BY <2>1
<1>5. chart[w[1][1]].high \in highs /\ chart[w[1][1]].low \in lows
      /\ chart[w[1][1]].low <= chart[w[1][1]].high
  BY <1>1, <1>2
<1> HIDE DEF highs, lows
<1>6. /\ high \in Prices /\ low \in Prices
      /\ chart[w[1][1]].high <= high /\ low <= chart[w[1][1]].low
      /\ Max({turned[i].high : i \in opening}) = Turn(low) /\ Min({turned[i].low : i \in opening}) = Turn(high)
  BY <1>3, <1>4, <1>5, TurnedExtremes
<1>7. low <= high /\ high \in Nat /\ low \in Nat
  <2>1. /\ high \in Nat /\ low \in Nat /\ chart[w[1][1]].high \in Nat /\ chart[w[1][1]].low \in Nat
    BY <1>3, <1>5, <1>6, TurnReverses
  <2> QED BY <1>5, <1>6, <2>1
<1> HIDE DEF high, low
<1>8. ASSUME NEW i \in later
      PROVE  /\ (turned[i].close > Turn(low)) <=> (chart[i].close < low)
             /\ (turned[i].close < Turn(high)) <=> (chart[i].close > high)
             /\ ~(chart[i].close < low /\ chart[i].close > high)
  <2> DEFINE c == chart[i].close
  <2>1. c \in Prices /\ turned[i].close = Turn(c)
    BY <1>1, <1>2
  <2>2. c \in Nat
    BY <2>1, TurnReverses
  <2> HIDE DEF c
  <2>3. ((Turn(c) > Turn(low)) <=> (low > c)) /\ ((Turn(c) < Turn(high)) <=> (high < c))
    BY <1>6, <2>1, TurnReverses
  <2>4. ((low > c) <=> (c < low)) /\ ((high < c) <=> (c > high)) /\ ~(c < low /\ c > high)
    BY <1>7, <2>2
  <2> QED BY <2>1, <2>3, <2>4 DEF c
<1>9. {i \in later : turned[i].close > Turn(low) \/ turned[i].close < Turn(high)} = outside
  BY <1>8
<1>10. OpeningRange(chart, w) =
         IF outside = {} THEN NoBreakout
         ELSE [direction |-> IF chart[first].close > high THEN BULLISH ELSE BEARISH, session |-> w[2],
               high |-> high, low |-> low, price |-> chart[first].close, at |-> first]
  BY DEF OpeningRange, later, high, low, highs, lows, opening
<1>11. OpeningRange(turned, w) =
         IF outside = {} THEN NoBreakout
         ELSE [direction |-> IF turned[first].close > Turn(low) THEN BULLISH ELSE BEARISH, session |-> w[2],
               high |-> Turn(low), low |-> Turn(high), price |-> turned[first].close, at |-> first]
  <2> HIDE DEF outside
  <2> QED BY <1>6, <1>9 DEF OpeningRange, opening, later
<1>12. CASE outside = {}
  BY <1>10, <1>11, <1>12 DEF TurnBreakout, turned
<1>13. CASE outside # {}
  <2>1. outside \subseteq Nat /\ outside \subseteq later
    <3>1. 1 .. n \subseteq Nat
      BY <1>1
    <3> QED BY <1>1, <3>1
  <2>2. first \in outside
    <3> HIDE DEF outside
    <3> QED BY <2>1, <1>13, LeastOfNaturals
  <2>3. first \in later /\ (chart[first].close > high \/ chart[first].close < low)
    BY <2>2
  <2> HIDE DEF first, outside
  <2>4. turned[first].close = Turn(chart[first].close)
    BY <1>1, <1>2, <2>3
  <2> DEFINE d == IF chart[first].close > high THEN BULLISH ELSE BEARISH
             b == [direction |-> d, session |-> w[2],
                   high |-> high, low |-> low, price |-> chart[first].close, at |-> first]
  <2>5. (IF turned[first].close > Turn(low) THEN BULLISH ELSE BEARISH) = -d
    BY <1>8, <2>3, Opposites
  <2>6. b # NoBreakout
    BY Opposites DEF NoBreakout
  <2> HIDE DEF d
  <2>7. TurnBreakout(b) = [direction |-> -d, session |-> w[2],
                           high |-> Turn(low), low |-> Turn(high), price |-> Turn(chart[first].close), at |-> first]
    BY <2>6 DEF TurnBreakout
  <2>8. OpeningRange(chart, w) = b
    BY <1>10, <1>13 DEF d
  <2>9. OpeningRange(turned, w) = TurnBreakout(b)
    BY <1>11, <1>13, <2>4, <2>5, <2>7
  <2> QED BY <2>8, <2>9 DEF turned
<1> QED BY <1>12, <1>13

(* What the windows of a session are.                                      *)
LEMMA WindowsAreRanges ==
  ASSUME NEW n \in Nat, NEW masks \in Seq(Seq(BOOLEAN)), \A s \in DOMAIN masks : Len(masks[s]) = n,
         NEW w \in SessionWindows(masks)
  PROVE  /\ w = <<<<w[1][1], w[1][2]>>, w[2]>>
         /\ w[1][1] \in 1 .. n /\ w[1][2] \in 1 .. n /\ w[2] \in 1 .. Len(masks)
         /\ w[1][2] - w[1][1] + 1 >= OpeningBars + 1
<1>1. PICK s \in DOMAIN masks : w \in Windows(masks[s]) \X {s}
  BY DEF SessionWindows
<1>2. PICK v \in Windows(masks[s]) : w = <<v, s>>
  BY <1>1
<1>3. DOMAIN masks[s] = 1 .. n /\ DOMAIN masks = 1 .. Len(masks)
  <2>1. masks[s] \in Seq(BOOLEAN)
    OBVIOUS
  <2> QED BY <2>1
<1>4. v \in (1 .. n) \X (1 .. n)
  BY <1>3 DEF Windows
<1>5. v = <<v[1], v[2]>> /\ v[1] \in 1 .. n /\ v[2] \in 1 .. n
  BY <1>4
<1>6. w[1] = v /\ w[2] = s
  BY <1>2
<1>7. w[1][2] - w[1][1] + 1 >= OpeningBars + 1
  BY DEF SessionWindows
<1> QED BY <1>2, <1>3, <1>5, <1>6, <1>7

(* detect_orb favours no direction: the window depends on the clock alone. *)
LEMMA OpeningBreakoutMirrors ==
  ASSUME NEW chart \in Seq(Candles), NEW masks \in Seq(Seq(BOOLEAN)),
         \A s \in DOMAIN masks : Len(masks[s]) = Len(chart)
  PROVE  OpeningBreakout(TurnChart(chart), masks) = TurnBreakout(OpeningBreakout(chart, masks))
<1> DEFINE n == Len(chart)
           windows == SessionWindows(masks)
           key == [w \in windows |-> <<w[1][1], w[1][2], w[2]>>]
           Last(w) == \A v \in windows \ {w} : Precedes(key[v], key[w])
           last == CHOOSE w \in windows : \A v \in windows \ {w} :
                     Precedes(<<v[1][1], v[1][2], v[2]>>, <<w[1][1], w[1][2], w[2]>>)
<1>1. n \in Nat /\ Len(TurnChart(chart)) = n /\ Len(masks) \in Nat
  BY TurnedCandles
<1>2. CASE n < OpeningBars + 1 \/ windows = {}
  BY <1>1, <1>2 DEF OpeningBreakout, TurnBreakout
<1>3. CASE ~(n < OpeningBars + 1 \/ windows = {})
  <2>1. \A w \in windows : /\ w = <<<<w[1][1], w[1][2]>>, w[2]>>
                           /\ w[1][1] \in 1 .. n /\ w[1][2] \in 1 .. n /\ w[2] \in 1 .. Len(masks)
                           /\ w[1][2] - w[1][1] + 1 >= OpeningBars + 1
    BY <1>1, WindowsAreRanges
  <2> HIDE DEF windows
  <2>2. \A w \in windows : key[w][1] = w[1][1] /\ key[w][2] = w[1][2] /\ key[w][3] = w[2]
    OBVIOUS
  <2> HIDE DEF key
  <2>3. ASSUME NEW v \in windows, NEW w \in windows, v # w PROVE \E k \in 1 .. 3 : key[v][k] # key[w][k]
    <3>1. ~(v[1][1] = w[1][1] /\ v[1][2] = w[1][2] /\ v[2] = w[2])
      BY <2>1, <2>3
    <3>2. key[v][1] # key[w][1] \/ key[v][2] # key[w][2] \/ key[v][3] # key[w][3]
      BY <2>2, <3>1
    <3> QED BY <3>2
  <2> DEFINE hi == n + Len(masks)
  <2>4. ASSUME NEW w \in windows PROVE \A k \in 1 .. 3 : key[w][k] \in Int /\ key[w][k] <= hi
    <3>1. /\ w[1][1] \in Int /\ w[1][1] <= hi /\ w[1][2] \in Int /\ w[1][2] <= hi
          /\ w[2] \in Int /\ w[2] <= hi
      <4>1. w[1][1] \in 1 .. n /\ w[1][2] \in 1 .. n /\ w[2] \in 1 .. Len(masks)
        BY <2>1
      <4> HIDE DEF n
      <4> QED BY <1>1, <4>1
    <3>2. \A k \in 1 .. 3 : k = 1 \/ k = 2 \/ k = 3
      OBVIOUS
    <3> QED BY <2>2, <3>1, <3>2
  <2>5. hi \in Int /\ windows # {}
    BY <1>1, <1>3
  <2> HIDE DEF hi
  <2>6. \E m \in windows : \A j \in windows \ {m} : Precedes(key[j], key[m])
    BY <2>3, <2>4, <2>5, LastByKey
  <2>7. \A v, w \in windows : Precedes(key[v], key[w]) =>
                                 Precedes(<<v[1][1], v[1][2], v[2]>>, <<w[1][1], w[1][2], w[2]>>)
    BY DEF key
  <2>8. \E w \in windows : \A v \in windows \ {w} :
                     Precedes(<<v[1][1], v[1][2], v[2]>>, <<w[1][1], w[1][2], w[2]>>)
    BY <2>6, <2>7
  <2>9. last \in windows
    BY <2>8
  <2>10. /\ OpeningBreakout(chart, masks) = OpeningRange(chart, last)
         /\ OpeningBreakout(TurnChart(chart), masks) = OpeningRange(TurnChart(chart), last)
    BY <1>1, <1>3 DEF OpeningBreakout, windows
  <2> HIDE DEF last
  <2>11. OpeningRange(TurnChart(chart), last) = TurnBreakout(OpeningRange(chart, last))
    BY <2>1, <2>9, OpeningRangeMirrors
  <2> QED BY <2>10, <2>11
<1> QED BY <1>2, <1>3

-----------------------------------------------------------------------------
(* What the bias reads of a timeframe: lists by their keys.                 *)

(* Keys of whole numbers, bounded above, that tell the members of S apart. *)
Keyed(S, key, hi) ==
    /\ \A i \in S : \A k \in 1 .. 3 : key[i][k] \in Int /\ key[i][k] <= hi
    /\ \A i, j \in S : i # j => \E k \in 1 .. 3 : key[i][k] # key[j][k]

(* Members with such keys can be listed in their order.                    *)
LEMMA RankedLists ==
  ASSUME NEW S, IsFiniteSet(S), NEW key, NEW hi \in Int, Keyed(S, key, hi)
  PROVE  Ranked(S, key) \in [1 .. Cardinality(S) -> S]
<1> DEFINE N == Cardinality(S)
           Sorted(seq) == \A k \in DOMAIN seq : \A l \in 1 .. k - 1 : Precedes(key[seq[l]], key[seq[k]])
           Listed(T, m) == \E seq \in [1 .. m -> T] : Sorted(seq)
           G == {m \in 0 .. N : \A T \in SUBSET S : Cardinality(T) = m => Listed(T, m)}
<1>1. N \in Nat
  BY FS_CardinalityType
<1>2. 0 \in G
  <2>1. ASSUME NEW T \in SUBSET S, Cardinality(T) = 0 PROVE Listed(T, 0)
    <3>1. [k \in 1 .. 0 |-> 0] \in [1 .. 0 -> T] /\ Sorted([k \in 1 .. 0 |-> 0])
      OBVIOUS
    <3> QED BY <3>1
  <2> QED BY <1>1, <2>1
<1>3. ASSUME NEW m \in 0 .. N, m \in G, m < N PROVE m + 1 \in G
  <2>1. ASSUME NEW T \in SUBSET S, Cardinality(T) = m + 1 PROVE Listed(T, m + 1)
    <3>1. IsFiniteSet(T) /\ T # {}
      <4>1. IsFiniteSet(T)
        BY FS_Subset
      <4>2. T # {}
        <5>1. Cardinality({}) = 0
          BY FS_EmptySet
        <5> QED BY <2>1, <5>1
      <4> QED BY <4>1, <4>2
    <3>2. /\ \A i \in T : \A k \in 1 .. 3 : key[i][k] \in Int /\ key[i][k] <= hi
          /\ \A i, j \in T : i # j => \E k \in 1 .. 3 : key[i][k] # key[j][k]
      BY DEF Keyed
    <3>3. PICK t \in T : \A j \in T \ {t} : Precedes(key[j], key[t])
      BY <3>1, <3>2, LastByKey
    <3> DEFINE R == T \ {t}
    <3>4. Cardinality(R) = m /\ R \in SUBSET S
      <4>1. Cardinality(R) = Cardinality(T) - 1
        BY <3>1, FS_RemoveElement
      <4> QED BY <2>1, <4>1
    <3>5. Listed(R, m)
      <4> HIDE DEF R, Listed
      <4> QED BY <1>3, <3>4
    <3>6. PICK seq \in [1 .. m -> R] : Sorted(seq)
      BY <3>5
    <3> DEFINE more == [k \in 1 .. m + 1 |-> IF k = m + 1 THEN t ELSE seq[k]]
    <3>7. more \in [1 .. m + 1 -> T]
      <4>1. \A k \in 1 .. m + 1 : k # m + 1 => k \in 1 .. m
        BY <1>1
      <4> QED BY <4>1
    <3>8. ASSUME NEW k \in 1 .. m + 1, NEW l \in 1 .. k - 1 PROVE Precedes(key[more[l]], key[more[k]])
      <4>1. l \in 1 .. m /\ l \in 1 .. m + 1 /\ l # m + 1
        BY <1>1
      <4>2. more[l] = seq[l] /\ seq[l] \in R
        BY <4>1
      <4>3. CASE k = m + 1
        <5>1. more[k] = t
          BY <4>3
        <5> QED BY <3>3, <4>2, <5>1
      <4>4. CASE k # m + 1
        <5>1. k \in 1 .. m /\ more[k] = seq[k]
          BY <1>1, <4>4
        <5>2. Precedes(key[seq[l]], key[seq[k]])
          BY <3>6, <5>1
        <5> QED BY <4>2, <5>1, <5>2
      <4> QED BY <4>3, <4>4
    <3>9. DOMAIN more = 1 .. m + 1
      OBVIOUS
    <3> HIDE DEF more
    <3> QED BY <3>7, <3>8, <3>9
  <2>2. m + 1 \in 0 .. N
    BY <1>1, <1>3
  <2> HIDE DEF Listed
  <2> QED BY <2>1, <2>2
<1>4. 0 .. N \subseteq G
  <2> HIDE DEF G, N
  <2> QED BY <1>1, <1>2, <1>3, CountingUp
<1>5. Listed(S, N)
  <2>1. N \in G /\ S \in SUBSET S
    BY <1>1, <1>4
  <2> HIDE DEF Listed
  <2> QED BY <2>1
<1>6. PICK seq \in [1 .. N -> S] : Sorted(seq)
  BY <1>5
<1>7. Ranked(S, key) = CHOOSE s \in [1 .. N -> S] : Sorted(s)
  BY DEF Ranked
<1> HIDE DEF Sorted, N
<1>8. Ranked(S, key) \in [1 .. N -> S]
  BY <1>6, <1>7
<1> QED BY <1>8 DEF N

(* The first of a list are of the list.                                    *)
LEMMA FirstOfList ==
  ASSUME NEW S, NEW m \in Nat, NEW seq \in [1 .. m -> S], NEW n \in Nat, NEW k, k = IF m < n THEN m ELSE n
  PROVE  /\ FirstFew(seq, n) \in [1 .. k -> S] /\ Len(FirstFew(seq, n)) = k /\ DOMAIN FirstFew(seq, n) = 1 .. k
         /\ \A i \in 1 .. k : i \in 1 .. m /\ FirstFew(seq, n)[i] = seq[i]
<1>1. Len(seq) = m /\ k \in Nat /\ \A i \in 1 .. k : i \in 1 .. m
  OBVIOUS
<1>2. FirstFew(seq, n) = [i \in 1 .. k |-> seq[i]]
  BY <1>1 DEF FirstFew
<1>3. FirstFew(seq, n) \in [1 .. k -> S] /\ Len(FirstFew(seq, n)) = k
  BY <1>1, <1>2
<1> QED BY <1>1, <1>2, <1>3

(* The candles at which a block, or none, is marked.                       *)
Marked(rows) == {i \in DOMAIN rows : rows[i] # NoBlock}

(* What the blocks are ordered by.                                         *)
NearKey(rows, close) ==
    [i \in Marked(rows) |->
        <<ZoneDistance(close, rows[i]), IF Mitigated(rows, i) THEN 1 ELSE 0, -i>>]

(* Rows of blocks, and the same rows upside down.                          *)
LEMMA TurnedBlocks ==
  ASSUME NEW rows \in Seq(Blocks \cup {NoBlock}), NEW close \in Prices
  PROVE  LET turned == TurnBlocks(rows)
         IN  /\ Len(rows) \in Nat /\ DOMAIN rows = 1 .. Len(rows) /\ DOMAIN turned = DOMAIN rows
             /\ Marked(turned) = Marked(rows) /\ Marked(rows) \subseteq DOMAIN rows
             /\ \A i \in DOMAIN rows : Mitigated(turned, i) <=> Mitigated(rows, i)
             /\ \A i \in Marked(rows) :
                   /\ rows[i] \in Blocks /\ turned[i] = TurnBlock(rows[i])
                   /\ ZoneDistance(Turn(close), turned[i]) = ZoneDistance(close, rows[i])
                   /\ ZoneDistance(close, rows[i]) \in Int /\ ZoneDistance(close, rows[i]) <= MaxPrice
             /\ NearKey(turned, Turn(close)) = NearKey(rows, close)
<1> DEFINE turned == TurnBlocks(rows)
<1>1. /\ Len(rows) \in Nat /\ DOMAIN rows = 1 .. Len(rows)
      /\ \A i \in DOMAIN rows : rows[i] \in Blocks \cup {NoBlock}
  OBVIOUS
<1>2. DOMAIN turned = DOMAIN rows
      /\ \A i \in DOMAIN rows : turned[i] = IF rows[i] = NoBlock THEN NoBlock ELSE TurnBlock(rows[i])
  BY DEF TurnBlocks
<1>3. Len(turned) = Len(rows)
  <2> HIDE DEF turned
  <2> QED BY <1>1, <1>2
<1> HIDE DEF turned
<1>4. ASSUME NEW b \in Blocks
      PROVE  /\ TurnBlock(b) = [direction |-> -b.direction, lower |-> Turn(b.upper), upper |-> Turn(b.lower),
                                mitigatedAt |-> b.mitigatedAt]
             /\ TurnBlock(b) # NoBlock
  <2>1. b.direction \in Directions /\ b = [direction |-> b.direction, lower |-> b.lower, upper |-> b.upper,
                                           mitigatedAt |-> b.mitigatedAt]
    BY DEF Blocks
  <2>2. TurnBlock(b) = [direction |-> -b.direction, lower |-> Turn(b.upper), upper |-> Turn(b.lower),
                        mitigatedAt |-> b.mitigatedAt]
    BY DEF TurnBlock
  <2>3. -b.direction # NEUTRAL
    BY <2>1, Opposites DEF Directions
  <2> QED BY <2>2, <2>3 DEF NoBlock
<1>5. Marked(turned) = Marked(rows) /\ Marked(rows) \subseteq DOMAIN rows
  BY <1>1, <1>2, <1>4 DEF Marked
<1>6. \A i \in DOMAIN rows : turned[i].mitigatedAt = rows[i].mitigatedAt
  BY <1>1, <1>2, <1>4
<1>7. \A i \in DOMAIN rows : Mitigated(turned, i) <=> Mitigated(rows, i)
  BY <1>3, <1>6 DEF Mitigated
<1>8. ASSUME NEW i \in Marked(rows)
      PROVE  /\ rows[i] \in Blocks /\ turned[i] = TurnBlock(rows[i])
             /\ ZoneDistance(Turn(close), turned[i]) = ZoneDistance(close, rows[i])
             /\ ZoneDistance(close, rows[i]) \in Int /\ ZoneDistance(close, rows[i]) <= MaxPrice
  <2> DEFINE b == rows[i]
             l == b.lower
             u == b.upper
  <2>1. b \in Blocks /\ turned[i] = TurnBlock(b) /\ i \in DOMAIN rows
    BY <1>1, <1>2 DEF Marked
  <2>2. l \in Prices /\ u \in Prices /\ l <= u /\ turned[i].lower = Turn(u) /\ turned[i].upper = Turn(l)
    BY <2>1, <1>4 DEF Blocks
  <2>3. /\ MaxPrice \in Nat /\ l \in Nat /\ u \in Nat /\ close \in Nat /\ u <= MaxPrice /\ close <= MaxPrice
        /\ Turn(u) = MaxPrice + 1 - u /\ Turn(l) = MaxPrice + 1 - l /\ Turn(close) = MaxPrice + 1 - close
    BY <2>2, TurnReverses
  <2>4. ZoneDistance(close, b) = IF close > u THEN close - u ELSE IF close < l THEN l - close ELSE 0
    BY DEF ZoneDistance
  <2>5. ZoneDistance(Turn(close), turned[i]) =
          IF Turn(close) > Turn(l) THEN Turn(close) - Turn(l)
          ELSE IF Turn(close) < Turn(u) THEN Turn(u) - Turn(close) ELSE 0
    BY <2>2 DEF ZoneDistance
  <2> HIDE DEF l, u, b
  <2>6. l <= u
    BY <2>2
  <2>7. ZoneDistance(Turn(close), turned[i]) = ZoneDistance(close, b)
    <3>1. CASE close > u
      BY <2>3, <2>4, <2>5, <2>6, <3>1
    <3>2. CASE close < l
      BY <2>3, <2>4, <2>5, <2>6, <3>2
    <3>3. CASE ~(close > u) /\ ~(close < l)
      BY <2>3, <2>4, <2>5, <2>6, <3>3
    <3> QED BY <3>1, <3>2, <3>3
  <2>8. ZoneDistance(close, b) \in Int /\ ZoneDistance(close, b) <= MaxPrice
    <3>1. CASE close > u
      BY <2>3, <2>4, <2>6, <3>1
    <3>2. CASE close < l
      BY <2>3, <2>4, <2>6, <3>2
    <3>3. CASE ~(close > u) /\ ~(close < l)
      BY <2>3, <2>4, <2>6, <3>3
    <3> QED BY <3>1, <3>2, <3>3
  <2> QED BY <2>1, <2>7, <2>8 DEF b
<1>9. NearKey(turned, Turn(close)) = NearKey(rows, close)
  <2>1. \A i \in Marked(rows) :
           <<ZoneDistance(Turn(close), turned[i]), IF Mitigated(turned, i) THEN 1 ELSE 0, -i>>
             = <<ZoneDistance(close, rows[i]), IF Mitigated(rows, i) THEN 1 ELSE 0, -i>>
    BY <1>5, <1>7, <1>8
  <2> QED BY <1>5, <2>1 DEF NearKey
<1> QED BY <1>1, <1>2, <1>5, <1>7, <1>8, <1>9 DEF turned

(* The nearest blocks are a list of positions, the same upside down.       *)
LEMMA NearestMirrors ==
  ASSUME NEW rows \in Seq(Blocks \cup {NoBlock}), NEW close \in Prices
  PROVE  /\ Nearest(TurnBlocks(rows), Turn(close)) = Nearest(rows, close)
         /\ Cardinality(Marked(rows)) \in Nat
         /\ Nearest(rows, close) \in [1 .. Cardinality(Marked(rows)) -> Marked(rows)]
<1> DEFINE S == Marked(rows)
           key == NearKey(rows, close)
           hi == MaxPrice + Len(rows) + 1
<1>1. /\ Len(rows) \in Nat /\ DOMAIN rows = 1 .. Len(rows) /\ S \subseteq 1 .. Len(rows)
      /\ Marked(TurnBlocks(rows)) = S /\ NearKey(TurnBlocks(rows), Turn(close)) = key
      /\ \A i \in S : ZoneDistance(close, rows[i]) \in Int /\ ZoneDistance(close, rows[i]) <= MaxPrice
  BY TurnedBlocks
<1>2. Nearest(rows, close) = Ranked(S, key)
  BY DEF Nearest, NearKey, Marked
<1>3. Nearest(TurnBlocks(rows), Turn(close)) = Ranked(S, key)
  <2>1. Nearest(TurnBlocks(rows), Turn(close))
          = Ranked(Marked(TurnBlocks(rows)), NearKey(TurnBlocks(rows), Turn(close)))
    BY DEF Nearest, NearKey, Marked
  <2> QED BY <1>1, <2>1
<1>4. IsFiniteSet(S) /\ Cardinality(S) \in Nat
  <2>1. IsFiniteSet(1 .. Len(rows))
    BY <1>1, FS_Interval
  <2>2. IsFiniteSet(S)
    BY <1>1, <2>1, FS_Subset
  <2> QED BY <2>2, FS_CardinalityType
<1>5. MaxPrice \in Nat /\ hi \in Int
  BY <1>1, Inputs
<1>6. \A i \in S : /\ key[i][1] = ZoneDistance(close, rows[i])
                   /\ key[i][2] = IF Mitigated(rows, i) THEN 1 ELSE 0
                   /\ key[i][3] = -i
  BY DEF NearKey
<1> HIDE DEF S, key
<1>7. Keyed(S, key, hi)
  <2>1. ASSUME NEW i \in S PROVE \A k \in 1 .. 3 : key[i][k] \in Int /\ key[i][k] <= hi
    <3>1. i \in Nat /\ -i \in Int /\ -i <= 0
      BY <1>1
    <3>2. \A k \in 1 .. 3 : k = 1 \/ k = 2 \/ k = 3
      OBVIOUS
    <3>3. key[i][1] \in Int /\ key[i][1] <= hi
      BY <1>1, <1>5, <1>6
    <3>4. key[i][2] \in Int /\ key[i][2] <= hi
      BY <1>1, <1>5, <1>6
    <3>5. key[i][3] \in Int /\ key[i][3] <= hi
      BY <1>1, <1>5, <1>6, <3>1
    <3> QED BY <3>2, <3>3, <3>4, <3>5
  <2>2. ASSUME NEW i \in S, NEW j \in S, i # j PROVE \E k \in 1 .. 3 : key[i][k] # key[j][k]
    <3>1. i \in Nat /\ j \in Nat /\ -i # -j
      BY <1>1, <2>2
    <3>2. key[i][3] # key[j][3] /\ 3 \in 1 .. 3
      BY <1>6, <3>1
    <3> QED BY <3>2
  <2> QED BY <2>1, <2>2 DEF Keyed
<1>8. Ranked(S, key) \in [1 .. Cardinality(S) -> S]
  BY <1>4, <1>5, <1>7, RankedLists
<1> QED BY <1>2, <1>3, <1>4, <1>8 DEF S

(* Neither tree's choice of zones depends on the direction.                *)
LEMMA ZonesMirror ==
  ASSUME NEW rows \in Seq(Blocks \cup {NoBlock}), NEW close \in Prices
  PROVE  /\ Zones(TurnBlocks(rows), Turn(close)) = Zones(rows, close)
         /\ ZonesByStatus(TurnBlocks(rows), Turn(close)) = ZonesByStatus(rows, close)
<1> DEFINE near == Nearest(rows, close)
           turned == TurnBlocks(rows)
<1>1. /\ Nearest(turned, Turn(close)) = near
      /\ \A k \in DOMAIN near : near[k] \in DOMAIN rows
      /\ \E m \in Nat : DOMAIN near = 1 .. m
  BY NearestMirrors, TurnedBlocks
<1>2. \A k \in DOMAIN near : Mitigated(turned, near[k]) <=> Mitigated(rows, near[k])
  BY <1>1, TurnedBlocks
<1>3. Zones(turned, Turn(close)) = Zones(rows, close)
  BY <1>1 DEF Zones
<1> HIDE DEF near, turned
<1> DEFINE Before(r, k) == {l \in 1 .. k - 1 : Mitigated(r, near[l]) <=> Mitigated(r, near[k])}
<1>4. \A k \in DOMAIN near : Before(turned, k) = Before(rows, k)
  <2>1. \A k \in DOMAIN near : \A l \in 1 .. k - 1 : l \in DOMAIN near
    BY <1>1
  <2> QED BY <1>2, <2>1
<1>5. {k \in DOMAIN near : MaxPerStatus > Cardinality(Before(turned, k))}
        = {k \in DOMAIN near : MaxPerStatus > Cardinality(Before(rows, k))}
  <2> HIDE DEF Before
  <2> QED BY <1>4
<1>6. ZonesByStatus(turned, Turn(close)) = ZonesByStatus(rows, close)
  <2> DEFINE List(kept) == LET order == Ranked(kept, [k \in kept |-> <<k, 0, 0>>])
                           IN  [k \in DOMAIN order |-> near[order[k]]]
  <2>1. /\ ZonesByStatus(rows, close) = List({k \in DOMAIN near : MaxPerStatus > Cardinality(Before(rows, k))})
        /\ ZonesByStatus(turned, Turn(close)) = List({k \in DOMAIN near : MaxPerStatus > Cardinality(Before(turned, k))})
    BY <1>1 DEF ZonesByStatus, near
  <2> HIDE DEF List, Before
  <2> QED BY <1>5, <2>1
<1> QED BY <1>3, <1>6 DEF turned

(* The zones that the bias reads are positions of blocks.                  *)
LEMMA ZonesArePositions ==
  ASSUME NEW rows \in Seq(Blocks \cup {NoBlock}), NEW close \in Prices
  PROVE  \A k \in DOMAIN Zones(rows, close) : Zones(rows, close)[k] \in Marked(rows)
<1>1. /\ Cardinality(Marked(rows)) \in Nat
      /\ Nearest(rows, close) \in [1 .. Cardinality(Marked(rows)) -> Marked(rows)]
  BY NearestMirrors
<1>2. MaxBlocks \in Nat
  BY Inputs
<1>3. \A k \in DOMAIN FirstFew(Nearest(rows, close), MaxBlocks) :
         FirstFew(Nearest(rows, close), MaxBlocks)[k] \in Marked(rows)
  <2> DEFINE few == FirstFew(Nearest(rows, close), MaxBlocks)
             m == Cardinality(Marked(rows))
             k == IF m < MaxBlocks THEN m ELSE MaxBlocks
  <2>1. k = IF m < MaxBlocks THEN m ELSE MaxBlocks
    OBVIOUS
  <2> HIDE DEF k
  <2>2. few \in [1 .. k -> Marked(rows)]
    BY <1>1, <1>2, <2>1, FirstOfList
  <2> HIDE DEF few
  <2> QED BY <2>2 DEF few
<1> QED BY <1>3 DEF Zones

(* Products of whole numbers change sign with a factor.                    *)
LEMMA SignsOfProducts ==
  ASSUME NEW a \in Int, NEW b \in Int
  PROVE  a * b \in Int /\ a * (-b) = -(a * b) /\ (-a) * b = -(a * b)
OBVIOUS

(* What a turned reading shows.                                            *)
LEMMA TurnedReading ==
  ASSUME NEW r \in Readable
  PROVE  /\ TurnReading(r).breaks = TurnBreaks(r.breaks) /\ TurnReading(r).blocks = TurnBlocks(r.blocks)
         /\ TurnReading(r).close = Turn(r.close) /\ TurnReading(r).day = TurnDay(r.day)
         /\ TurnReading(r).retracement = [direction |-> -r.retracement.direction, percent |-> r.retracement.percent]
         /\ TurnReading(r).macd = -r.macd /\ TurnReading(r).rsi = 100 - r.rsi
         /\ TurnReading(r).adx = r.adx /\ TurnReading(r).changed = r.changed
BY DEF TurnReading

(* The candles at which a break has a direction.                           *)
MarkedBreaks(rows) == {i \in DOMAIN rows : rows[i].direction # NEUTRAL}

(* The recent breaks of a timeframe, the same ones upside down.            *)
LEMMA RecentBreaksMirror ==
  ASSUME NEW rows \in Seq(Breaks)
  PROVE  \E m \in Nat :
           /\ RecentBreaks(rows) \in [1 .. m -> {b \in Breaks : b.direction \in Directions}]
           /\ RecentBreaks(TurnBreaks(rows)) \in [1 .. m -> {b \in Breaks : b.direction \in Directions}]
           /\ \A k \in 1 .. m : /\ RecentBreaks(TurnBreaks(rows))[k].kind = RecentBreaks(rows)[k].kind
                                /\ RecentBreaks(TurnBreaks(rows))[k].direction = -RecentBreaks(rows)[k].direction
<1> DEFINE turned == TurnBreaks(rows)
           S == MarkedBreaks(rows)
           key(x) == [i \in MarkedBreaks(x) |-> <<-OccurredAt(x, i), i, 0>>]
           order == Ranked(S, key(rows))
           of(x) == [k \in DOMAIN order |-> x[order[k]]]
           B == {b \in Breaks : b.direction \in Directions}
           hi == Len(rows) + 1
<1>1. /\ Len(rows) \in Nat /\ DOMAIN rows = 1 .. Len(rows) /\ DOMAIN turned = DOMAIN rows
      /\ \A i \in DOMAIN rows : rows[i] \in Breaks
  BY DEF TurnBreaks
<1>2. \A i \in DOMAIN rows : turned[i] = [kind |-> rows[i].kind, direction |-> -rows[i].direction,
                                          brokenAt |-> rows[i].brokenAt]
  BY DEF TurnBreaks
<1> HIDE DEF turned
<1>3. ASSUME NEW i \in DOMAIN rows
      PROVE  /\ turned[i].brokenAt = rows[i].brokenAt /\ turned[i].kind = rows[i].kind
             /\ turned[i].direction = -rows[i].direction
             /\ (turned[i].direction # NEUTRAL) <=> (rows[i].direction # NEUTRAL)
             /\ rows[i].direction # NEUTRAL => rows[i] \in B /\ turned[i] \in B
  <2>1. rows[i] \in Breaks /\ rows[i].direction \in Directions \cup {NEUTRAL} /\ rows[i].kind \in {"BOS", "CHOCH"}
        /\ rows[i].brokenAt \in Int
    BY <1>1 DEF Breaks
  <2>2. /\ (-rows[i].direction # NEUTRAL) <=> (rows[i].direction # NEUTRAL)
        /\ rows[i].direction # NEUTRAL => rows[i].direction \in Directions /\ -rows[i].direction \in Directions
    BY <2>1, Opposites DEF Directions
  <2>3. /\ turned[i].brokenAt = rows[i].brokenAt /\ turned[i].kind = rows[i].kind
        /\ turned[i].direction = -rows[i].direction
    <3> DEFINE d == -rows[i].direction
    <3>1. turned[i] = [kind |-> rows[i].kind, direction |-> d, brokenAt |-> rows[i].brokenAt]
      BY <1>2
    <3> HIDE DEF d
    <3>2. /\ turned[i].brokenAt = rows[i].brokenAt /\ turned[i].kind = rows[i].kind /\ turned[i].direction = d
      BY <3>1
    <3> QED BY <3>2 DEF d
  <2>4. ASSUME rows[i].direction # NEUTRAL PROVE turned[i] \in B
    <3>1. -rows[i].direction \in Directions
      BY <2>2, <2>4
    <3> DEFINE d == -rows[i].direction
    <3>2. turned[i] = [kind |-> rows[i].kind, direction |-> d, brokenAt |-> rows[i].brokenAt]
      BY <1>2
    <3>3. d \in Directions \cup {NEUTRAL}
      BY <3>1
    <3> HIDE DEF d
    <3>4. turned[i] \in Breaks
      BY <2>1, <3>2, <3>3 DEF Breaks
    <3> QED BY <2>3, <3>1, <3>4
  <2> QED BY <2>1, <2>2, <2>3, <2>4
<1>4. MarkedBreaks(turned) = S /\ S \subseteq 1 .. Len(rows)
  BY <1>1, <1>3 DEF MarkedBreaks
<1>5. \A i \in S : OccurredAt(turned, i) = OccurredAt(rows, i) /\ OccurredAt(rows, i) \in 1 .. Len(rows)
  BY <1>1, <1>3, <1>4 DEF OccurredAt
<1>6. key(turned) = key(rows)
  <2>1. \A i \in S : <<-OccurredAt(turned, i), i, 0>> = <<-OccurredAt(rows, i), i, 0>>
    BY <1>5
  <2> QED BY <1>4, <2>1
<1>7. IsFiniteSet(S) /\ Cardinality(S) \in Nat
  <2>1. IsFiniteSet(1 .. Len(rows))
    BY <1>1, FS_Interval
  <2>2. IsFiniteSet(S)
    BY <1>4, <2>1, FS_Subset
  <2> QED BY <2>2, FS_CardinalityType
<1>8. order \in [1 .. Cardinality(S) -> S]
  <2> DEFINE q == key(rows)
  <2>1. \A i \in S : q[i][1] = -OccurredAt(rows, i) /\ q[i][2] = i /\ q[i][3] = 0
    OBVIOUS
  <2> HIDE DEF q, S
  <2>2. \A i \in S : i \in Nat /\ i <= Len(rows) /\ OccurredAt(rows, i) \in Nat
    BY <1>1, <1>4, <1>5
  <2>3. ASSUME NEW i \in S PROVE \A k \in 1 .. 3 : q[i][k] \in Int /\ q[i][k] <= hi
    <3>1. \A k \in 1 .. 3 : k = 1 \/ k = 2 \/ k = 3
      OBVIOUS
    <3>2. q[i][1] \in Int /\ q[i][1] <= hi
      BY <1>1, <2>1, <2>2
    <3>3. q[i][2] \in Int /\ q[i][2] <= hi /\ q[i][3] \in Int /\ q[i][3] <= hi
      BY <1>1, <2>1, <2>2
    <3> QED BY <3>1, <3>2, <3>3
  <2>4. ASSUME NEW i \in S, NEW j \in S, i # j PROVE \E k \in 1 .. 3 : q[i][k] # q[j][k]
    <3>1. q[i][2] # q[j][2] /\ 2 \in 1 .. 3
      BY <2>1, <2>4
    <3> QED BY <3>1
  <2>5. Keyed(S, q, hi) /\ hi \in Int
    BY <1>1, <2>3, <2>4 DEF Keyed
  <2>6. Ranked(S, q) \in [1 .. Cardinality(S) -> S]
    BY <1>7, <2>5, RankedLists
  <2> QED BY <2>6 DEF q
<1>9. RecentBreaks(rows) = FirstFew(of(rows), 3) /\ RecentBreaks(turned) = FirstFew(of(turned), 3)
  <2>1. \A x : RecentBreaks(x) = FirstFew([k \in DOMAIN Ranked(MarkedBreaks(x), key(x)) |->
                                             x[Ranked(MarkedBreaks(x), key(x))[k]]], 3)
    BY DEF RecentBreaks, MarkedBreaks
  <2> HIDE DEF key
  <2> QED BY <1>4, <1>6, <2>1
<1> HIDE DEF order, key
<1> DEFINE n == Cardinality(S)
           m == IF n < 3 THEN n ELSE 3
<1>10. /\ of(rows) \in [1 .. n -> B] /\ of(turned) \in [1 .. n -> B]
       /\ \A k \in 1 .. n : of(turned)[k].kind = of(rows)[k].kind /\ of(turned)[k].direction = -of(rows)[k].direction
  <2>1. \A k \in 1 .. n : order[k] \in DOMAIN rows /\ rows[order[k]].direction # NEUTRAL
    BY <1>8 DEF MarkedBreaks
  <2>2. DOMAIN order = 1 .. n
    BY <1>8
  <2> HIDE DEF B, n
  <2> QED BY <1>3, <2>1, <2>2
<1> HIDE DEF of
<1>11. n \in Nat /\ m \in Nat
  BY <1>7
<1>12. /\ FirstFew(of(rows), 3) \in [1 .. m -> B] /\ FirstFew(of(turned), 3) \in [1 .. m -> B]
       /\ \A k \in 1 .. m : /\ k \in 1 .. n /\ FirstFew(of(rows), 3)[k] = of(rows)[k]
                            /\ FirstFew(of(turned), 3)[k] = of(turned)[k]
  <2>1. 3 \in Nat /\ n \in Nat /\ m = IF n < 3 THEN n ELSE 3
    BY <1>11
  <2> HIDE DEF B, n, m
  <2>2. /\ FirstFew(of(rows), 3) \in [1 .. m -> B]
        /\ \A k \in 1 .. m : k \in 1 .. n /\ FirstFew(of(rows), 3)[k] = of(rows)[k]
    <3> DEFINE seq == of(rows)
               most == 3
    <3>1. seq \in [1 .. n -> B] /\ n \in Nat /\ most \in Nat /\ m = IF n < most THEN n ELSE most
      BY <1>10, <2>1
    <3> HIDE DEF seq, most
    <3>2. FirstFew(seq, most) \in [1 .. m -> B]
      BY <3>1, FirstOfList
    <3>3. \A k \in 1 .. m : k \in 1 .. n /\ FirstFew(seq, most)[k] = seq[k]
      BY <3>1, <3>2, FirstOfList
    <3> QED BY <3>2, <3>3 DEF seq, most
  <2>3. /\ FirstFew(of(turned), 3) \in [1 .. m -> B]
        /\ \A k \in 1 .. m : k \in 1 .. n /\ FirstFew(of(turned), 3)[k] = of(turned)[k]
    <3> DEFINE seq == of(turned)
               most == 3
    <3>1. seq \in [1 .. n -> B] /\ n \in Nat /\ most \in Nat /\ m = IF n < most THEN n ELSE most
      BY <1>10, <2>1
    <3> HIDE DEF seq, most
    <3>2. FirstFew(seq, most) \in [1 .. m -> B]
      BY <3>1, FirstOfList
    <3>3. \A k \in 1 .. m : k \in 1 .. n /\ FirstFew(seq, most)[k] = seq[k]
      BY <3>1, <3>2, FirstOfList
    <3> QED BY <3>2, <3>3 DEF seq, most
  <2> QED BY <2>2, <2>3
<1> HIDE DEF m, n
<1>13. /\ RecentBreaks(rows) \in [1 .. m -> B] /\ RecentBreaks(turned) \in [1 .. m -> B]
       /\ \A k \in 1 .. m : /\ RecentBreaks(turned)[k].kind = RecentBreaks(rows)[k].kind
                            /\ RecentBreaks(turned)[k].direction = -RecentBreaks(rows)[k].direction
  <2> HIDE DEF B
  <2> QED BY <1>9, <1>10, <1>12
<1> HIDE DEF B
<1> QED BY <1>11, <1>13 DEF turned, B

-----------------------------------------------------------------------------
(* The scores, the votes and the verdict.                                  *)

(* What the breaks add to the score, upside down.                          *)
LEMMA StructureMirrors ==
  ASSUME NEW m \in Nat, NEW a \in [1 .. m -> {b \in Breaks : b.direction \in Directions}],
         NEW c \in [1 .. m -> {b \in Breaks : b.direction \in Directions}],
         \A k \in 1 .. m : c[k].kind = a[k].kind /\ c[k].direction = -a[k].direction
  PROVE  StructureScore(a) \in Int /\ StructureScore(c) = -StructureScore(a)
<1>1. Len(a) = m /\ Len(c) = m /\ DOMAIN a = 1 .. m /\ DOMAIN c = 1 .. m
  OBVIOUS
<1>2. (a = <<>> <=> m = 0) /\ (c = <<>> <=> m = 0)
  BY <1>1
<1>3. CASE m = 0
  <2>1. StructureScore(a) = 0 /\ StructureScore(c) = 0
    BY <1>2, <1>3 DEF StructureScore
  <2>2. -NEUTRAL = NEUTRAL /\ NEUTRAL = 0 /\ NEUTRAL \in Int
    BY Opposites DEF NEUTRAL
  <2> QED BY <2>1, <2>2
<1>4. CASE m # 0
  <2> DEFINE Up == {i \in 1 .. m : a[i].direction = BULLISH}
             Down == {i \in 1 .. m : c[i].direction = BULLISH}
             up == Cardinality(Up)
             down == Cardinality(Down)
             first == IF a[1].kind = "BOS" THEN 450 ELSE 350
             d == a[1].direction
             each == 150 \div m
  <2>1. \A k \in 1 .. m : a[k].direction \in Directions
    OBVIOUS
  <2>2. \A k \in 1 .. m : (c[k].direction = BULLISH) <=> (a[k].direction # BULLISH)
    BY <2>1, Opposites DEF Directions
  <2>3. Down = (1 .. m) \ Up /\ Up \subseteq 1 .. m
    BY <2>2
  <2>4. IsFiniteSet(1 .. m) /\ Cardinality(1 .. m) = m
    <3>1. 1 \in Int /\ m \in Int
      OBVIOUS
    <3>2. IsFiniteSet(1 .. m) /\ Cardinality(1 .. m) = IF 1 > m THEN 0 ELSE m - 1 + 1
      BY <3>1, FS_Interval
    <3> QED BY <3>2, <1>4
  <2> HIDE DEF Up, Down
  <2>5. up \in Nat /\ down = m - up
    <3>1. IsFiniteSet(Up)
      BY <2>3, <2>4, FS_Subset
    <3>2. Cardinality((1 .. m) \ Up) = Cardinality(1 .. m) - Cardinality((1 .. m) \cap Up)
      BY <2>4, FS_Difference
    <3>3. (1 .. m) \cap Up = Up
      BY <2>3
    <3>4. up \in Nat
      BY <3>1, FS_CardinalityType
    <3> QED BY <2>3, <2>4, <3>2, <3>3, <3>4
  <2>6. /\ StructureScore(a) = first * d + each * (up - (m - up))
        /\ StructureScore(c) = (IF c[1].kind = "BOS" THEN 450 ELSE 350) * c[1].direction + each * (down - (m - down))
    BY <1>1, <1>2, <1>4 DEF StructureScore, Up, Down
  <2> HIDE DEF up, down, each
  <2>7. c[1].kind = a[1].kind /\ c[1].direction = -d /\ d \in Int /\ first \in Int
    <3>1. 1 \in 1 .. m
      BY <1>4
    <3> QED BY <2>1, <3>1, Opposites DEF Directions
  <2>8. each \in Int
    BY <1>4 DEF each
  <2> HIDE DEF first, d
  <2>9. StructureScore(c) = first * (-d) + each * (down - (m - down))
    BY <2>6, <2>7 DEF first
  <2>10. down - (m - down) = -(up - (m - up)) /\ up - (m - up) \in Int
    BY <2>5
  <2> DEFINE e == up - (m - up)
  <2>11. e \in Int /\ StructureScore(a) = first * d + each * e /\ StructureScore(c) = first * (-d) + each * (-e)
    BY <2>6, <2>9, <2>10
  <2> HIDE DEF e
  <2>12. /\ first * d \in Int /\ each * e \in Int /\ first * (-d) = -(first * d) /\ each * (-e) = -(each * e)
    BY <2>7, <2>8, <2>11, SignsOfProducts
  <2> QED BY <2>11, <2>12
<1> QED BY <1>3, <1>4

(* What yesterday's extremes add to the score, upside down.                *)
LEMMA PreviousDayMirrors ==
  ASSUME NEW day \in [brokenHigh : BOOLEAN, brokenLow : BOOLEAN, close : {"above", "below", "inside"}]
  PROVE  PreviousDayScore(day) \in Int /\ PreviousDayScore(TurnDay(day)) = -PreviousDayScore(day)
<1> DEFINE two == 200
           up == day.brokenHigh /\ ~day.brokenLow /\ day.close = "above"
           down == day.brokenLow /\ ~day.brokenHigh /\ day.close = "below"
<1>1. PreviousDayScore(day) = IF up THEN two ELSE IF down THEN -two ELSE 0
  BY DEF PreviousDayScore
<1>2. day.close \in {"above", "below", "inside"}
  OBVIOUS
<1>3. /\ TurnDay(day).brokenHigh = day.brokenLow /\ TurnDay(day).brokenLow = day.brokenHigh
      /\ (TurnDay(day).close = "above" <=> day.close = "below")
      /\ (TurnDay(day).close = "below" <=> day.close = "above")
  <2>1. CASE day.close = "above"
    BY <2>1 DEF TurnDay
  <2>2. CASE day.close = "below"
    BY <2>2 DEF TurnDay
  <2>3. CASE day.close = "inside"
    BY <2>3 DEF TurnDay
  <2> QED BY <1>2, <2>1, <2>2, <2>3
<1>4. PreviousDayScore(TurnDay(day)) = IF down THEN two ELSE IF up THEN -two ELSE 0
  BY <1>3 DEF PreviousDayScore
<1>5. ~(up /\ down) /\ two \in Int /\ -two \in Int /\ -(-two) = two
  <2>1. two \in Int /\ \A x \in Int : -x \in Int /\ -(-x) = x
    OBVIOUS
  <2> HIDE DEF two
  <2> QED BY <2>1
<1> HIDE DEF two, up, down
<1>6. CASE up
  BY <1>1, <1>4, <1>5, <1>6
<1>7. CASE down
  BY <1>1, <1>4, <1>5, <1>7
<1>8. CASE ~up /\ ~down
  <2>1. -NEUTRAL = NEUTRAL /\ NEUTRAL = 0 /\ NEUTRAL \in Int
    BY Opposites DEF NEUTRAL
  <2>2. PreviousDayScore(day) = 0 /\ PreviousDayScore(TurnDay(day)) = 0
    BY <1>1, <1>4, <1>8
  <2> QED BY <2>1, <2>2
<1> QED BY <1>6, <1>7, <1>8

(* What a retracement adds to the score, upside down.                      *)
LEMMA RetracementMirrors ==
  ASSUME NEW r \in [direction : Directions \cup {NEUTRAL}, percent : Int]
  PROVE  /\ RetracementScore(r) \in Int
         /\ RetracementScore([direction |-> -r.direction, percent |-> r.percent]) = -RetracementScore(r)
<1> DEFINE d == r.direction
           w == IF r.percent > 66 THEN 40 ELSE IF r.percent > 50 THEN 70 ELSE 100
<1>1. d \in Int /\ w \in Int
  <2>1. NEUTRAL \in Int
    BY DEF NEUTRAL
  <2> QED BY <2>1, Opposites DEF Directions
<1>2. RetracementScore(r) = d * w /\ RetracementScore([direction |-> -d, percent |-> r.percent]) = (-d) * w
  BY DEF RetracementScore
<1> HIDE DEF w
<1>3. d * w \in Int /\ (-d) * w = -(d * w)
  BY <1>1, SignsOfProducts
<1> QED BY <1>2, <1>3

(* What momentum adds to the score, upside down.                           *)
LEMMA MomentumMirrors ==
  ASSUME NEW macd \in Int, NEW rsi \in Int
  PROVE  MomentumScore(macd, rsi) \in Int /\ MomentumScore(-macd, 100 - rsi) = -MomentumScore(macd, rsi)
<1> DEFINE hundred == 100
           fifty == 50
           left(x) == IF x > 0 THEN hundred ELSE IF x < 0 THEN -hundred ELSE 0
           right(x) == IF x >= 55 THEN fifty ELSE IF x <= 45 THEN -fifty ELSE 0
<1>1. \A x, y \in Int : MomentumScore(x, y) = left(x) + right(y)
  BY DEF MomentumScore
<1>2. hundred \in Int /\ fifty \in Int
  OBVIOUS
<1>3. /\ (-macd > 0 <=> macd < 0) /\ (-macd < 0 <=> macd > 0) /\ ~(macd > 0 /\ macd < 0) /\ -macd \in Int
      /\ (100 - rsi >= 55 <=> rsi <= 45) /\ (100 - rsi <= 45 <=> rsi >= 55) /\ ~(rsi >= 55 /\ rsi <= 45)
      /\ 100 - rsi \in Int
  OBVIOUS
<1> HIDE DEF hundred, fifty
<1>4. left(macd) \in Int /\ left(-macd) = -left(macd)
  BY <1>2, <1>3
<1>5. right(rsi) \in Int /\ right(100 - rsi) = -right(rsi)
  BY <1>2, <1>3
<1> HIDE DEF left, right
<1>6. MomentumScore(macd, rsi) = left(macd) + right(rsi) /\ MomentumScore(-macd, 100 - rsi) = left(-macd) + right(100 - rsi)
  BY <1>1, <1>3
<1> QED BY <1>4, <1>5, <1>6

(* A score is clamped on both sides alike.                                 *)
LEMMA ClampMirrors ==
  ASSUME NEW score \in Int
  PROVE  Clamp(score) \in Int /\ Clamp(-score) = -Clamp(score)
<1>1. Unit \in Int /\ Unit > 0
  BY DEF Unit
<1>2. Clamp(score) = (IF score > Unit THEN Unit ELSE IF score < -Unit THEN -Unit ELSE score)
  BY DEF Clamp
<1>3. Clamp(-score) = (IF -score > Unit THEN Unit ELSE IF -score < -Unit THEN -Unit ELSE -score)
  BY DEF Clamp
<1>4. CASE score > Unit
  BY <1>1, <1>2, <1>3, <1>4
<1>5. CASE score < -Unit
  BY <1>1, <1>2, <1>3, <1>5
<1>6. CASE ~(score > Unit) /\ ~(score < -Unit)
  BY <1>1, <1>2, <1>3, <1>6
<1> QED BY <1>4, <1>5, <1>6

(* The dampener is a multiple of ten, the score a tenfold.                 *)
LEMMA DampenerTens ==
  ASSUME NEW adx \in Int
  PROVE  \E z \in Int : Dampener(adx) = 10 * z
<1> DEFINE chop == CASE ChopStatus(adx) = "PASS" -> 100 [] ChopStatus(adx) = "CAUTION" -> 80 [] OTHER -> 60
           trend == CASE adx = NoAdx -> 85 [] adx # NoAdx /\ adx < 15 -> 65 [] adx >= 15 /\ adx < 20 -> 80 [] OTHER -> 100
<1>1. Dampener(adx) = chop * trend
  BY DEF Dampener
<1>2. chop \in {100, 80, 60}
  <2>1. CASE ChopStatus(adx) = "PASS"
    BY <2>1
  <2>2. CASE ChopStatus(adx) = "CAUTION"
    BY <2>2
  <2>3. CASE ChopStatus(adx) # "PASS" /\ ChopStatus(adx) # "CAUTION"
    BY <2>3
  <2> QED BY <2>1, <2>2, <2>3
<1>3. trend \in Int
  <2>1. NoAdx = -1 /\ NoAdx \in Int
    BY DEF NoAdx
  <2>2. CASE adx = NoAdx
    BY <2>1, <2>2
  <2>3. CASE adx # NoAdx /\ adx < 15
    BY <2>3
  <2>4. CASE adx # NoAdx /\ adx >= 15 /\ adx < 20
    BY <2>4
  <2>5. CASE adx # NoAdx /\ adx >= 20
    BY <2>5
  <2> QED BY <2>2, <2>3, <2>4, <2>5
<1> HIDE DEF chop, trend
<1>4. chop * trend = 10 * (10 * trend) \/ chop * trend = 10 * (8 * trend) \/ chop * trend = 10 * (6 * trend)
  BY <1>2, <1>3
<1>5. 10 * trend \in Int /\ 8 * trend \in Int /\ 6 * trend \in Int
  BY <1>3
<1> QED BY <1>1, <1>4, <1>5

(* What the nearest active block adds to the score, upside down.           *)
LEMMA BlockMirrors ==
  ASSUME NEW rows \in Seq(Blocks \cup {NoBlock}), NEW close \in Prices
  PROVE  /\ BlockScore(rows, Zones(rows, close)) \in Int
         /\ BlockScore(TurnBlocks(rows), Zones(TurnBlocks(rows), Turn(close))) = -BlockScore(rows, Zones(rows, close))
<1> DEFINE zones == Zones(rows, close)
           turned == TurnBlocks(rows)
           A == ActiveZones(rows, zones)
           i == CHOOSE j \in A : TRUE
           d == rows[i].direction
<1>1. /\ \A k \in DOMAIN zones : zones[k] \in Marked(rows)
      /\ \A j \in Marked(rows) : j \in DOMAIN rows
      /\ \A j \in DOMAIN rows : Mitigated(turned, j) <=> Mitigated(rows, j)
  BY ZonesArePositions, TurnedBlocks
<1>2. \E m \in Nat : DOMAIN zones = 1 .. m
  <2> DEFINE near == Nearest(rows, close)
             m == Cardinality(Marked(rows))
             k == IF m < MaxBlocks THEN m ELSE MaxBlocks
  <2>1. m \in Nat /\ near \in [1 .. m -> Marked(rows)] /\ MaxBlocks \in Nat /\ k \in Nat
    BY NearestMirrors, Inputs
  <2>2. k = IF m < MaxBlocks THEN m ELSE MaxBlocks
    OBVIOUS
  <2> HIDE DEF k, m, near
  <2>3. FirstFew(near, MaxBlocks) \in [1 .. k -> Marked(rows)]
    BY <2>1, <2>2, FirstOfList
  <2> QED BY <2>1, <2>3 DEF Zones, near
<1>3. Zones(turned, Turn(close)) = zones
  BY ZonesMirror
<1> HIDE DEF zones, turned
<1>4. ActiveZones(turned, zones) = A
  <2>1. \A k \in DOMAIN zones : Mitigated(turned, zones[k]) <=> Mitigated(rows, zones[k])
    BY <1>1
  <2>2. \A k \in DOMAIN zones : \A l \in 1 .. k - 1 : l \in DOMAIN zones
    BY <1>2
  <2> QED BY <2>1, <2>2 DEF ActiveZones
<1>5. A \subseteq Marked(rows)
  BY <1>1 DEF ActiveZones
<1>6. /\ BlockScore(rows, zones) = IF A = {} THEN 0 ELSE 100 * d
      /\ BlockScore(turned, zones) = IF A = {} THEN 0 ELSE 100 * turned[i].direction
  BY <1>4 DEF BlockScore
<1> HIDE DEF A, i
<1>7. CASE A = {}
  <2>1. -NEUTRAL = NEUTRAL /\ NEUTRAL = 0 /\ NEUTRAL \in Int
    BY Opposites DEF NEUTRAL
  <2>2. BlockScore(rows, zones) = 0 /\ BlockScore(turned, zones) = 0
    BY <1>6, <1>7
  <2> QED BY <1>3, <2>1, <2>2 DEF zones, turned
<1>8. CASE A # {}
  <2>1. i \in Marked(rows)
    BY <1>5, <1>8 DEF i
  <2>2. rows[i] \in Blocks /\ turned[i] = TurnBlock(rows[i])
    BY <2>1, TurnedBlocks DEF turned
  <2>3. d \in Int /\ turned[i].direction = -d
    <3>1. rows[i].direction \in Directions
      BY <2>2 DEF Blocks
    <3> QED BY <2>2, <3>1, Opposites DEF TurnBlock, Directions
  <2> HIDE DEF d
  <2>4. BlockScore(rows, zones) = 100 * d /\ BlockScore(turned, zones) = 100 * (-d)
    BY <1>6, <1>8, <2>3
  <2>5. 100 * d \in Int /\ 100 * (-d) = -(100 * d)
    BY <2>3
  <2> QED BY <1>3, <2>4, <2>5 DEF zones, turned
<1> QED BY <1>7, <1>8

(* The score of a timeframe changes its sign.                              *)
LEMMA ScoreMirrors ==
  ASSUME NEW r \in Readable
  PROVE  /\ Score(r) \in Int /\ Score(TurnReading(r)) = -Score(r)
         /\ \E z \in Int : Score(r) = 10 * z
<1> DEFINE t == TurnReading(r)
           sb == StructureScore(RecentBreaks(r.breaks))
           pd == PreviousDayScore(r.day)
           rt == RetracementScore(r.retracement)
           bl == BlockScore(r.blocks, Zones(r.blocks, r.close))
           mo == MomentumScore(r.macd, r.rsi)
           da == Dampener(r.adx)
<1>1. /\ r.breaks \in Seq(Breaks) /\ r.blocks \in Seq(Blocks \cup {NoBlock}) /\ r.close \in Prices
      /\ r.day \in [brokenHigh : BOOLEAN, brokenLow : BOOLEAN, close : {"above", "below", "inside"}]
      /\ r.retracement \in [direction : Directions \cup {NEUTRAL}, percent : Int]
      /\ r.macd \in Int /\ r.rsi \in Int /\ r.adx \in Int
  BY DEF Readable
<1>2. /\ t.breaks = TurnBreaks(r.breaks) /\ t.blocks = TurnBlocks(r.blocks)
      /\ t.close = Turn(r.close) /\ t.day = TurnDay(r.day)
      /\ t.retracement = [direction |-> -r.retracement.direction, percent |-> r.retracement.percent]
      /\ t.macd = -r.macd /\ t.rsi = 100 - r.rsi /\ t.adx = r.adx
  BY TurnedReading
<1> HIDE DEF t
<1>3. sb \in Int /\ StructureScore(RecentBreaks(TurnBreaks(r.breaks))) = -sb
  <2> DEFINE B == {b \in Breaks : b.direction \in Directions}
             one == RecentBreaks(r.breaks)
             two == RecentBreaks(TurnBreaks(r.breaks))
  <2>1. PICK m \in Nat :
           /\ one \in [1 .. m -> B] /\ two \in [1 .. m -> B]
           /\ \A k \in 1 .. m : two[k].kind = one[k].kind /\ two[k].direction = -one[k].direction
    BY <1>1, RecentBreaksMirror
  <2> HIDE DEF one, two
  <2>2. StructureScore(one) \in Int /\ StructureScore(two) = -StructureScore(one)
    BY <2>1, StructureMirrors
  <2> QED BY <2>2 DEF one, two
<1>4. pd \in Int /\ PreviousDayScore(t.day) = -pd
  BY <1>1, <1>2, PreviousDayMirrors
<1>5. rt \in Int /\ RetracementScore(t.retracement) = -rt
  BY <1>1, <1>2, RetracementMirrors
<1>6. bl \in Int /\ BlockScore(t.blocks, Zones(t.blocks, t.close)) = -bl
  BY <1>1, <1>2, BlockMirrors
<1>7. mo \in Int /\ MomentumScore(t.macd, t.rsi) = -mo
  BY <1>1, <1>2, MomentumMirrors
<1>8. PICK z \in Int : da = 10 * z
  BY <1>1, DampenerTens
<1>9. /\ Score(r) = Clamp((sb + pd + rt + bl + mo) * da)
      /\ Score(t) = Clamp((StructureScore(RecentBreaks(t.breaks)) + PreviousDayScore(t.day) + RetracementScore(t.retracement)
                            + BlockScore(t.blocks, Zones(t.blocks, t.close)) + MomentumScore(t.macd, t.rsi)) * Dampener(t.adx))
  BY DEF Score
<1>10. Score(t) = Clamp(((-sb) + (-pd) + (-rt) + (-bl) + (-mo)) * da)
  <2>1. StructureScore(RecentBreaks(t.breaks)) = -sb /\ Dampener(t.adx) = da
    BY <1>2, <1>3
  <2> QED BY <1>4, <1>5, <1>6, <1>7, <1>9, <2>1
<1> HIDE DEF sb, pd, rt, bl, mo, da
<1> DEFINE s == sb + pd + rt + bl + mo
<1>11. s \in Int /\ (-sb) + (-pd) + (-rt) + (-bl) + (-mo) = -s
  BY <1>3, <1>4, <1>5, <1>6, <1>7
<1>12. Score(r) = Clamp(s * da) /\ Score(t) = Clamp((-s) * da)
  BY <1>9, <1>10, <1>11
<1> HIDE DEF s
<1>13. da \in Int
  BY <1>8
<1>14. s * da \in Int /\ (-s) * da = -(s * da)
  BY <1>11, <1>13, SignsOfProducts
<1>15. Score(r) \in Int /\ Score(t) = -Score(r)
  BY <1>12, <1>14, ClampMirrors
<1>16. \E y \in Int : Score(r) = 10 * y
  <2> DEFINE x == s * da
  <2>1. Score(r) = (IF x > Unit THEN Unit ELSE IF x < -Unit THEN -Unit ELSE x)
    BY <1>12 DEF Clamp
  <2>2. PICK w \in Int : x = 10 * w
    <3>1. s * (10 * z) = 10 * (s * z) /\ s * z \in Int
      BY <1>8, <1>11
    <3> QED BY <1>8, <3>1
  <2>3. Unit = 10 * 1000000 /\ -Unit = 10 * (-1000000) /\ 1000000 \in Int /\ -1000000 \in Int
    BY DEF Unit
  <2> HIDE DEF x
  <2> QED BY <2>1, <2>2, <2>3
<1> QED BY <1>15, <1>16 DEF t

(* A vote changes its sign with the score, at the band as beyond it.       *)
LEMMA VoteMirrors ==
  ASSUME NEW score \in Int, NEW band \in Int, band > 0
  PROVE  Vote(score, band) \in Directions \cup {NEUTRAL} /\ Vote(-score, band) = -Vote(score, band)
<1>1. /\ Vote(score, band) = IF score >= band THEN BULLISH ELSE IF score <= -band THEN BEARISH ELSE NEUTRAL
      /\ Vote(-score, band) = IF -score >= band THEN BULLISH ELSE IF -score <= -band THEN BEARISH ELSE NEUTRAL
  BY DEF Vote
<1>2. /\ (-score >= band <=> score <= -band) /\ (-score <= -band <=> score >= band)
      /\ ~(score >= band /\ score <= -band)
  OBVIOUS
<1> QED BY <1>1, <1>2, Opposites

(* The members of a bias that vote, and how, upside down.                  *)
LEMMA TurnedVotes ==
  ASSUME NEW v \in Directions \cup {NEUTRAL}, NEW w \in Directions \cup {NEUTRAL}
  PROVE  /\ v \in Int /\ -v \in Directions \cup {NEUTRAL} /\ -(-v) = v
         /\ (-v = NEUTRAL <=> v = NEUTRAL) /\ (-v = -w <=> v = w)
<1>1. v \in {BULLISH, BEARISH, NEUTRAL} /\ w \in {BULLISH, BEARISH, NEUTRAL}
  BY DEF Directions
<1>2. NEUTRAL \in Int
  BY DEF NEUTRAL
<1>3. v \in Int /\ w \in Int
  BY <1>1, <1>2, Opposites
<1>4. -v \in Directions \cup {NEUTRAL} /\ (-v = NEUTRAL <=> v = NEUTRAL)
  BY <1>1, Opposites DEF Directions
<1>5. -(-v) = v /\ (-v = -w <=> v = w)
  BY <1>3
<1> QED BY <1>3, <1>4, <1>5

(* The verdict on the opposite votes is the opposite verdict.              *)
LEMMA VerdictMirrors ==
  ASSUME NEW changing \in SUBSET (1 .. 3), NEW votes \in [1 .. 3 -> Directions \cup {NEUTRAL}], NEW aggregate \in Int
  PROVE  LET verdict == Verdict(changing, votes, aggregate)
             against == Verdict(changing, [i \in 1 .. 3 |-> -votes[i]], -aggregate)
         IN  /\ against.votes = [i \in 1 .. 3 |-> -verdict.votes[i]]
             /\ against.direction = -verdict.direction
             /\ against.transitioning = verdict.transitioning
             /\ against.alignment = verdict.alignment
<1> DEFINE V == Directions \cup {NEUTRAL}
           band == (15 * Unit) \div 100
           turned == [i \in 1 .. 3 |-> -votes[i]]
           sizeOf(x) == IF x < 0 THEN -x ELSE x
           baseOf(x) == Vote(x, band)
           neutralOf(vs, x) == \/ baseOf(x) = NEUTRAL \/ sizeOf(x) < NeutralBand
                               \/ vs[1] # NEUTRAL /\ vs[2] # NEUTRAL /\ vs[1] # vs[2]
                               \/ \E i \in changing : vs[i] \notin {NEUTRAL, baseOf(x)}
           cappedOf(vs, x) == changing # {} /\ {vs[i] : i \in 1 .. 3} \ {NEUTRAL} = {baseOf(x)}
           mostOf(vs, x) == IF cappedOf(vs, x) THEN (55 * Unit) \div 100 ELSE Unit
           verdictOf(vs, x) ==
             [votes |-> vs, transitioning |-> changing # {},
              direction |-> IF neutralOf(vs, x) THEN NEUTRAL ELSE baseOf(x),
              alignment |-> IF neutralOf(vs, x) THEN 0
                            ELSE IF sizeOf(x) < mostOf(vs, x) THEN sizeOf(x) ELSE mostOf(vs, x)]
<1>1. \A vs, x : Verdict(changing, vs, x) = verdictOf(vs, x)
  BY DEF Verdict
<1>2. band \in Int /\ band > 0
  BY DEF Unit
<1> HIDE DEF band
<1>3. sizeOf(-aggregate) = sizeOf(aggregate)
  <2>1. CASE aggregate < 0
    BY <2>1
  <2>2. CASE aggregate > 0
    BY <2>2
  <2>3. CASE aggregate = 0
    BY <2>3, Opposites DEF NEUTRAL
  <2> QED BY <2>1, <2>2, <2>3
<1> DEFINE base == baseOf(aggregate)
<1>4. base \in V /\ baseOf(-aggregate) = -base
  BY <1>2, VoteMirrors
<1> HIDE DEF sizeOf, baseOf
<1>5. \A i \in 1 .. 3 : votes[i] \in V /\ turned[i] = -votes[i]
  OBVIOUS
<1>6. (-base = NEUTRAL <=> base = NEUTRAL) /\ \A i \in 1 .. 3 : (-votes[i] = -base <=> votes[i] = base)
  BY <1>4, <1>5, TurnedVotes
<1>7. \A i \in 1 .. 3 : \A j \in 1 .. 3 : /\ (turned[i] = NEUTRAL <=> votes[i] = NEUTRAL)
                                        /\ (turned[i] = turned[j] <=> votes[i] = votes[j])
                                        /\ (turned[i] = -base <=> votes[i] = base)
  <2> SUFFICES ASSUME NEW i \in 1 .. 3, NEW j \in 1 .. 3
               PROVE  /\ (-votes[i] = NEUTRAL <=> votes[i] = NEUTRAL)
                      /\ (-votes[i] = -votes[j] <=> votes[i] = votes[j])
                      /\ (-votes[i] = -base <=> votes[i] = base)
    BY <1>5
  <2> DEFINE v == votes[i]
             w == votes[j]
  <2>1. v \in V /\ w \in V
    OBVIOUS
  <2> HIDE DEF v, w, base
  <2>2. (-v = NEUTRAL <=> v = NEUTRAL) /\ (-v = -w <=> v = w) /\ (-v = -base <=> v = base)
    BY <1>4, <2>1, TurnedVotes
  <2> QED BY <2>2 DEF v, w
<1> HIDE DEF turned, base
<1>8. neutralOf(turned, -aggregate) <=> neutralOf(votes, aggregate)
  <2>1. 1 \in 1 .. 3 /\ 2 \in 1 .. 3
    OBVIOUS
  <2>2. (turned[1] # NEUTRAL /\ turned[2] # NEUTRAL /\ turned[1] # turned[2])
          <=> (votes[1] # NEUTRAL /\ votes[2] # NEUTRAL /\ votes[1] # votes[2])
    BY <1>7, <2>1
  <2>3. (\E i \in changing : turned[i] \notin {NEUTRAL, baseOf(-aggregate)})
          <=> (\E i \in changing : votes[i] \notin {NEUTRAL, baseOf(aggregate)})
    <3>1. \A i \in changing : i \in 1 .. 3
      OBVIOUS
    <3>2. baseOf(-aggregate) = -base /\ baseOf(aggregate) = base
      BY <1>4 DEF base
    <3> QED BY <1>7, <3>1, <3>2
  <2>4. (baseOf(-aggregate) = NEUTRAL) <=> (baseOf(aggregate) = NEUTRAL)
    BY <1>4, <1>6 DEF base
  <2> QED BY <1>3, <2>2, <2>3, <2>4
<1>9. cappedOf(turned, -aggregate) <=> cappedOf(votes, aggregate)
  <2> DEFINE all == {votes[i] : i \in 1 .. 3} \ {NEUTRAL}
             both == {turned[i] : i \in 1 .. 3} \ {NEUTRAL}
  <2>1. (both = {-base}) <=> (\E i \in 1 .. 3 : turned[i] # NEUTRAL) /\ \A i \in 1 .. 3 : turned[i] \in {NEUTRAL, -base}
    <3>1. ASSUME both = {-base}
          PROVE  (\E i \in 1 .. 3 : turned[i] # NEUTRAL) /\ \A i \in 1 .. 3 : turned[i] \in {NEUTRAL, -base}
      <4>1. -base \in both
        BY <3>1
      <4>2. \A i \in 1 .. 3 : turned[i] # NEUTRAL => turned[i] \in both
        OBVIOUS
      <4> QED BY <3>1, <4>1, <4>2
    <3>2. ASSUME (\E i \in 1 .. 3 : turned[i] # NEUTRAL) /\ \A i \in 1 .. 3 : turned[i] \in {NEUTRAL, -base}
          PROVE  both = {-base}
      <4>1. \A x \in both : x = -base
        BY <3>2
      <4>2. both # {}
        BY <3>2
      <4> QED BY <4>1, <4>2
    <3> QED BY <3>1, <3>2
  <2>2. (all = {base}) <=> (\E i \in 1 .. 3 : votes[i] # NEUTRAL) /\ \A i \in 1 .. 3 : votes[i] \in {NEUTRAL, base}
    <3>1. ASSUME all = {base}
          PROVE  (\E i \in 1 .. 3 : votes[i] # NEUTRAL) /\ \A i \in 1 .. 3 : votes[i] \in {NEUTRAL, base}
      <4>1. base \in all
        BY <3>1
      <4>2. \A i \in 1 .. 3 : votes[i] # NEUTRAL => votes[i] \in all
        OBVIOUS
      <4> QED BY <3>1, <4>1, <4>2
    <3>2. ASSUME (\E i \in 1 .. 3 : votes[i] # NEUTRAL) /\ \A i \in 1 .. 3 : votes[i] \in {NEUTRAL, base}
          PROVE  all = {base}
      <4>1. \A x \in all : x = base
        BY <3>2
      <4>2. all # {}
        BY <3>2
      <4> QED BY <4>1, <4>2
    <3> QED BY <3>1, <3>2
  <2> HIDE DEF all, both
  <2>3. (both = {-base}) <=> (all = {base})
    BY <1>7, <2>1, <2>2
  <2>4. cappedOf(turned, -aggregate) <=> changing # {} /\ both = {-base}
    BY <1>4 DEF base, both
  <2>5. cappedOf(votes, aggregate) <=> changing # {} /\ all = {base}
    BY DEF base, all
  <2> QED BY <2>3, <2>4, <2>5
<1> HIDE DEF neutralOf, cappedOf
<1>10. mostOf(turned, -aggregate) = mostOf(votes, aggregate)
  BY <1>9
<1> HIDE DEF mostOf
<1>11. verdictOf(turned, -aggregate).alignment = verdictOf(votes, aggregate).alignment
  BY <1>3, <1>8, <1>10
<1>12. verdictOf(turned, -aggregate).direction = -verdictOf(votes, aggregate).direction
  <2>1. baseOf(-aggregate) = -baseOf(aggregate) /\ -NEUTRAL = NEUTRAL
    BY <1>4, Opposites DEF base
  <2>2. CASE neutralOf(votes, aggregate)
    BY <1>8, <2>1, <2>2
  <2>3. CASE ~neutralOf(votes, aggregate)
    BY <1>8, <2>1, <2>3
  <2> QED BY <2>2, <2>3
<1>13. /\ verdictOf(turned, -aggregate).transitioning = verdictOf(votes, aggregate).transitioning
       /\ verdictOf(turned, -aggregate).votes = turned /\ verdictOf(votes, aggregate).votes = votes
  OBVIOUS
<1> HIDE DEF verdictOf
<1> QED BY <1>1, <1>11, <1>12, <1>13 DEF turned

(* A tenth of a tenfold.                                                   *)
LEMMA TenthOfTenfold ==
  ASSUME NEW z \in Int
  PROVE  (10 * z) \div 10 = z
OBVIOUS

(* Weights are in tenths, and every score is a tenfold.                    *)
LEMMA WeighedTens ==
  ASSUME NEW w \in Int, NEW z \in Int
  PROVE  w * z \in Int /\ w * (10 * z) = 10 * (w * z) /\ w * (10 * (-z)) = 10 * (-(w * z))
<1>1. w * z \in Int /\ w * (10 * z) = 10 * (w * z)
  OBVIOUS
<1>2. w * (-z) = -(w * z) /\ -z \in Int
  BY SignsOfProducts
<1>3. w * (10 * (-z)) = 10 * (w * (-z))
  BY <1>2
<1> QED BY <1>1, <1>2, <1>3

(* What a sequence holds.                                                  *)
LEMMA MembersOfSeq ==
  ASSUME NEW S, NEW s \in Seq(S), NEW i \in 1 .. Len(s)
  PROVE  s[i] \in S
OBVIOUS

(* The bias of three timeframes shown upside down is the opposite one.     *)
LEMMA BiasMirrors ==
  ASSUME NEW members, \A i \in 1 .. 3 : members[i] \in Readable
  PROVE  LET bias    == Bias(members)
             against == Bias([i \in 1 .. 3 |-> TurnReading(members[i])])
         IN  /\ against.votes = [i \in 1 .. 3 |-> -bias.votes[i]]
             /\ against.direction = -bias.direction
             /\ against.transitioning = bias.transitioning /\ against.alignment = bias.alignment
<1> DEFINE turned == [i \in 1 .. 3 |-> TurnReading(members[i])]
           scores == [i \in 1 .. 3 |-> Score(members[i])]
           against == [i \in 1 .. 3 |-> Score(turned[i])]
           changing == {i \in 1 .. 3 : members[i].changed}
           votes == [i \in 1 .. 3 |-> Vote(scores[i], NeutralBand)]
           total(s) == Weights[1] * s[1] + Weights[2] * s[2] + Weights[3] * s[3]
<1>1. /\ Weights[1] \in Int /\ Weights[2] \in Int /\ Weights[3] \in Int
      /\ NeutralBand \in Int /\ NeutralBand > 0
  <2>1. Weights \in Seq(Int) /\ Len(Weights) = 3 /\ NeutralBand \in Nat \ {0}
    BY Inputs
  <2>2. \A i \in 1 .. Len(Weights) : Weights[i] \in Int
    BY <2>1, MembersOfSeq
  <2>3. 1 \in 1 .. 3 /\ 2 \in 1 .. 3 /\ 3 \in 1 .. 3
    OBVIOUS
  <2> QED BY <2>1, <2>2, <2>3
<1>2. ASSUME NEW i \in 1 .. 3
      PROVE  /\ scores[i] \in Int /\ against[i] = -scores[i] /\ \E z \in Int : scores[i] = 10 * z
             /\ turned[i].changed = members[i].changed
  BY ScoreMirrors, TurnedReading
<1>3. /\ Bias(members) = Verdict(changing, votes, total(scores) \div 10)
      /\ Bias(turned) = Verdict({i \in 1 .. 3 : turned[i].changed}, [i \in 1 .. 3 |-> Vote(against[i], NeutralBand)],
                                total(against) \div 10)
  BY DEF Bias, Weigh
<1>4. {i \in 1 .. 3 : turned[i].changed} = changing
  BY <1>2
<1> HIDE DEF scores, against
<1>5. [i \in 1 .. 3 |-> Vote(against[i], NeutralBand)] = [i \in 1 .. 3 |-> -votes[i]]
  BY <1>1, <1>2, VoteMirrors
<1>6. votes \in [1 .. 3 -> Directions \cup {NEUTRAL}]
  BY <1>1, <1>2, VoteMirrors
<1>7. total(scores) \div 10 \in Int /\ total(against) \div 10 = -(total(scores) \div 10)
  <2>1. 1 \in 1 .. 3 /\ 2 \in 1 .. 3 /\ 3 \in 1 .. 3
    OBVIOUS
  <2>2. PICK x \in Int : scores[1] = 10 * x
    BY <1>2, <2>1
  <2>3. PICK y \in Int : scores[2] = 10 * y
    BY <1>2, <2>1
  <2>4. PICK z \in Int : scores[3] = 10 * z
    BY <1>2, <2>1
  <2>5. against[1] = 10 * (-x) /\ against[2] = 10 * (-y) /\ against[3] = 10 * (-z)
    BY <1>2, <2>1, <2>2, <2>3, <2>4
  <2> DEFINE a == Weights[1] * x
             b == Weights[2] * y
             c == Weights[3] * z
  <2>6. /\ a \in Int /\ Weights[1] * scores[1] = 10 * a /\ Weights[1] * against[1] = 10 * (-a)
        /\ b \in Int /\ Weights[2] * scores[2] = 10 * b /\ Weights[2] * against[2] = 10 * (-b)
        /\ c \in Int /\ Weights[3] * scores[3] = 10 * c /\ Weights[3] * against[3] = 10 * (-c)
    BY <1>1, <2>2, <2>3, <2>4, <2>5, WeighedTens
  <2> HIDE DEF a, b, c
  <2> DEFINE sum == a + b + c
  <2>7. /\ sum \in Int /\ -sum \in Int /\ 10 * a + 10 * b + 10 * c = 10 * sum
        /\ 10 * (-a) + 10 * (-b) + 10 * (-c) = 10 * (-sum)
    BY <2>6
  <2>8. total(scores) = 10 * a + 10 * b + 10 * c /\ total(against) = 10 * (-a) + 10 * (-b) + 10 * (-c)
    BY <2>6
  <2> HIDE DEF sum, total
  <2>9. total(scores) \div 10 = sum /\ total(against) \div 10 = -sum
    BY <2>7, <2>8, TenthOfTenfold
  <2> QED BY <2>7, <2>9
<1> DEFINE aggregate == total(scores) \div 10
<1>8. /\ changing \in SUBSET (1 .. 3) /\ aggregate \in Int
      /\ Bias(members) = Verdict(changing, votes, aggregate)
      /\ Bias(turned) = Verdict(changing, [i \in 1 .. 3 |-> -votes[i]], -aggregate)
  BY <1>3, <1>4, <1>5, <1>7
<1> HIDE DEF votes, changing, aggregate, turned
<1> QED BY <1>6, <1>8, VerdictMirrors DEF turned

-----------------------------------------------------------------------------
(* The trade plan.                                                         *)

(* A price that may be unknown, and upside down.                           *)
LEMMA TurnedKnown ==
  ASSUME NEW p \in Prices \cup {0}
  PROVE  (p = 0 <=> TurnKnown(p) = 0) /\ (p # 0 => p \in Prices /\ TurnKnown(p) = Turn(p))
<1>1. CASE p = 0
  BY <1>1 DEF TurnKnown
<1>2. CASE p # 0
  <2>1. p \in Prices /\ TurnKnown(p) = Turn(p)
    BY <1>2 DEF TurnKnown
  <2>2. Turn(p) # 0
    <3>1. Turn(p) \in Prices /\ MaxPrice \in Nat
      BY <2>1, TurnReverses
    <3> QED BY <3>1 DEF Prices
  <2> QED BY <1>2, <2>1, <2>2
<1> QED BY <1>1, <1>2

(* The levels of a retracement, upside down.                               *)
LEMMA FibMirrors ==
  ASSUME NEW direction \in Directions \cup {NEUTRAL}, NEW high \in Prices \cup {0}, NEW low \in Prices \cup {0}
  PROVE  LET levels == FibLevels(direction, high, low)
         IN  FibLevels(-direction, TurnKnown(low), TurnKnown(high))
               = [k \in DOMAIN levels |-> 1000 * (MaxPrice + 1) - levels[k]]
<1> DEFINE levels == FibLevels(direction, high, low)
           turned == FibLevels(-direction, TurnKnown(low), TurnKnown(high))
           top == Max({high, low})
           bottom == Min({high, low})
<1> SUFFICES turned = [k \in DOMAIN levels |-> 1000 * (MaxPrice + 1) - levels[k]]
  OBVIOUS
<1>1. /\ 0 \in {high, low} <=> 0 \in {TurnKnown(low), TurnKnown(high)}
      /\ -direction = NEUTRAL <=> direction = NEUTRAL
  BY TurnedKnown, TurnedVotes
<1>2. ASSUME levels = <<>>, turned = <<>>
      PROVE  turned = [k \in DOMAIN levels |-> 1000 * (MaxPrice + 1) - levels[k]]
  <2> HIDE DEF levels, turned
  <2> QED BY <1>2
<1>3. CASE direction = NEUTRAL \/ 0 \in {high, low}
  <2>1. levels = <<>> /\ turned = <<>>
    BY <1>1, <1>3 DEF FibLevels
  <2> QED BY <1>2, <2>1
<1>4. CASE direction # NEUTRAL /\ ~(0 \in {high, low})
  <2>1. high \in Prices /\ low \in Prices /\ TurnKnown(high) = Turn(high) /\ TurnKnown(low) = Turn(low)
    BY <1>4, TurnedKnown
  <2>2. {Turn(p) : p \in {high, low}} = {Turn(low), Turn(high)}
    OBVIOUS
  <2>3. /\ top \in Prices /\ bottom \in Prices
        /\ Max({TurnKnown(low), TurnKnown(high)}) = Turn(bottom)
        /\ Min({TurnKnown(low), TurnKnown(high)}) = Turn(top)
    <3> DEFINE S == {high, low}
    <3>1. S \subseteq Prices /\ S # {} /\ {TurnKnown(low), TurnKnown(high)} = {Turn(p) : p \in S}
      BY <2>1, <2>2
    <3> HIDE DEF S
    <3>2. Max(S) \in S /\ Min(S) \in S /\ Max({Turn(p) : p \in S}) = Turn(Min(S)) /\ Min({Turn(p) : p \in S}) = Turn(Max(S))
      BY <3>1, TurnedExtremes
    <3> QED BY <3>1, <3>2 DEF S
  <2>4. levels = IF top = bottom THEN <<>>
                 ELSE [k \in DOMAIN FibRatios |->
                         IF direction = BULLISH THEN 1000 * top - (top - bottom) * FibRatios[k]
                                                ELSE 1000 * bottom + (top - bottom) * FibRatios[k]]
    BY <1>4 DEF FibLevels
  <2>5. turned = IF Turn(bottom) = Turn(top) THEN <<>>
                 ELSE [k \in DOMAIN FibRatios |->
                         IF -direction = BULLISH THEN 1000 * Turn(bottom) - (Turn(bottom) - Turn(top)) * FibRatios[k]
                                                 ELSE 1000 * Turn(top) + (Turn(bottom) - Turn(top)) * FibRatios[k]]
    <3> DEFINE hi == TurnKnown(low)
               lo == TurnKnown(high)
               levelsOf(x, y) == IF x = y THEN <<>>
                                 ELSE [k \in DOMAIN FibRatios |->
                                         IF -direction = BULLISH THEN 1000 * x - (x - y) * FibRatios[k]
                                                                 ELSE 1000 * y + (x - y) * FibRatios[k]]
    <3>1. -direction # NEUTRAL /\ ~(0 \in {hi, lo})
      BY <1>1, <1>4
    <3>2. turned = levelsOf(Max({hi, lo}), Min({hi, lo}))
      BY <3>1 DEF FibLevels
    <3>3. Max({hi, lo}) = Turn(bottom) /\ Min({hi, lo}) = Turn(top)
      BY <2>3
    <3> HIDE DEF hi, lo, turned, top, bottom, levelsOf
    <3>4. turned = levelsOf(Turn(bottom), Turn(top))
      BY <3>2, <3>3
    <3> QED BY <3>4 DEF levelsOf
  <2> HIDE DEF levels, turned, top, bottom
  <2>6. /\ top \in Int /\ bottom \in Int /\ MaxPrice \in Int
        /\ Turn(top) = MaxPrice + 1 - top /\ Turn(bottom) = MaxPrice + 1 - bottom
        /\ (Turn(bottom) = Turn(top)) <=> (top = bottom)
    BY <2>3, TurnReverses
  <2>7. CASE top = bottom
    BY <1>2, <2>4, <2>5, <2>6, <2>7
  <2>8. CASE top # bottom
    <3> DEFINE ratio(k) == FibRatios[k]
               step(k) == (top - bottom) * ratio(k)
               upper == 1000 * (MaxPrice + 1)
    <3>1. \A k \in DOMAIN FibRatios : ratio(k) \in Int
      <4>1. DOMAIN FibRatios = 1 .. 5 /\ \A k \in 1 .. 5 : k = 1 \/ k = 2 \/ k = 3 \/ k = 4 \/ k = 5
        BY DEF FibRatios
      <4>2. ratio(1) \in Int /\ ratio(2) \in Int /\ ratio(3) \in Int /\ ratio(4) \in Int /\ ratio(5) \in Int
        BY DEF FibRatios
      <4> QED BY <4>1, <4>2
    <3>2. \A k \in DOMAIN FibRatios : step(k) \in Int /\ step(k) = (Turn(bottom) - Turn(top)) * FibRatios[k]
      <4>1. Turn(bottom) - Turn(top) = top - bottom /\ top - bottom \in Int
        BY <2>6
      <4> QED BY <3>1, <4>1
    <3>3. /\ levels = [k \in DOMAIN FibRatios |-> IF direction = BULLISH THEN 1000 * top - step(k) ELSE 1000 * bottom + step(k)]
          /\ turned = [k \in DOMAIN FibRatios |->
                         IF -direction = BULLISH THEN 1000 * Turn(bottom) - step(k) ELSE 1000 * Turn(top) + step(k)]
      BY <2>4, <2>5, <2>6, <2>8, <3>2
    <3>4. (-direction = BULLISH) <=> ~(direction = BULLISH)
      BY <1>4, Opposites DEF Directions
    <3> HIDE DEF step
    <3>5. \A k \in DOMAIN FibRatios : /\ upper - (1000 * top - step(k)) = 1000 * Turn(top) + step(k)
                                      /\ upper - (1000 * bottom + step(k)) = 1000 * Turn(bottom) - step(k)
      BY <2>6, <3>2
    <3> HIDE DEF upper
    <3>6. DOMAIN levels = DOMAIN FibRatios /\ DOMAIN turned = DOMAIN FibRatios
      BY <3>3
    <3>7. \A k \in DOMAIN FibRatios : turned[k] = upper - levels[k]
      <4>1. CASE direction = BULLISH
        BY <3>3, <3>4, <3>5, <4>1
      <4>2. CASE direction # BULLISH
        BY <3>3, <3>4, <3>5, <4>2
      <4> QED BY <4>1, <4>2
    <3>8. turned = [k \in DOMAIN FibRatios |-> turned[k]]
      BY <3>3
    <3> QED BY <3>6, <3>7, <3>8 DEF upper
  <2> QED BY <2>7, <2>8
<1> QED BY <1>3, <1>4

(* What a trigger is.                                                      *)
Entries == [setup : {"block", "sfp", "turtle_soup"}, low : Prices, high : Prices, invalidation : Prices]

(* Two lists of triggers of which the first are each other upside down.    *)
Opposed(seq, against) ==
    /\ seq \in Seq(Entries) /\ against \in Seq(Entries)
    /\ seq = <<>> <=> against = <<>>
    /\ seq # <<>> => Head(seq) \in Entries /\ Head(against) = TurnTrigger(Head(seq))

(* A turned trigger is a trigger, its bounds swapped.                      *)
LEMMA TurnedTriggers ==
  ASSUME NEW t \in Entries
  PROVE  /\ TurnTrigger(t) \in Entries /\ TurnTrigger(t).setup = t.setup
         /\ TurnTrigger(t).low = Turn(t.high) /\ TurnTrigger(t).high = Turn(t.low)
         /\ TurnTrigger(t).invalidation = Turn(t.invalidation)
<1>1. t.low \in Prices /\ t.high \in Prices /\ t.invalidation \in Prices /\ t.setup \in {"block", "sfp", "turtle_soup"}
  BY DEF Entries
<1>2. Turn(t.low) \in Prices /\ Turn(t.high) \in Prices /\ Turn(t.invalidation) \in Prices
  BY <1>1, TurnReverses
<1> QED BY <1>1, <1>2 DEF TurnTrigger, Trigger, Entries

(* No trigger on either side.                                              *)
LEMMA OpposedNone ==
  Opposed(<<>>, <<>>)
BY DEF Opposed

(* One trigger, and the same upside down.                                  *)
LEMMA OpposedOne ==
  ASSUME NEW t \in Entries
  PROVE  Opposed(<<t>>, <<TurnTrigger(t)>>)
<1>1. TurnTrigger(t) \in Entries
  BY TurnedTriggers
<1> DEFINE u == TurnTrigger(t)
<1> HIDE DEF u
<1>2. /\ <<t>> \in Seq(Entries) /\ <<u>> \in Seq(Entries) /\ <<t>> # <<>> /\ <<u>> # <<>>
      /\ Head(<<t>>) = t /\ Head(<<u>>) = u
  BY <1>1 DEF u
<1> QED BY <1>2 DEF Opposed, u

(* One list after the other.                                               *)
LEMMA HeadOfTwo ==
  ASSUME NEW S, NEW a \in Seq(S), NEW b \in Seq(S)
  PROVE  /\ a \o b \in Seq(S) /\ (a \o b = <<>> <=> a = <<>> /\ b = <<>>)
         /\ a # <<>> => Head(a \o b) = Head(a)
         /\ a = <<>> => a \o b = b
<1>1. a \o b \in Seq(S) /\ Len(a \o b) = Len(a) + Len(b) /\ Len(a) \in Nat /\ Len(b) \in Nat
  OBVIOUS
<1>2. /\ a = <<>> <=> Len(a) = 0
      /\ b = <<>> <=> Len(b) = 0
      /\ a \o b = <<>> <=> Len(a \o b) = 0
  BY <1>1
<1>3. a # <<>> => Head(a \o b) = Head(a)
  OBVIOUS
<1>4. a = <<>> => a \o b = b
  OBVIOUS
<1> QED BY <1>1, <1>2, <1>3, <1>4

(* The first of two lists is the first of either.                          *)
LEMMA OpposedBoth ==
  ASSUME NEW a, NEW b, NEW c, NEW d, Opposed(a, c), Opposed(b, d)
  PROVE  Opposed(a \o b, c \o d)
<1>1. /\ a \in Seq(Entries) /\ c \in Seq(Entries) /\ (a = <<>> <=> c = <<>>)
      /\ a # <<>> => Head(a) \in Entries /\ Head(c) = TurnTrigger(Head(a))
      /\ b \in Seq(Entries) /\ d \in Seq(Entries) /\ (b = <<>> <=> d = <<>>)
      /\ b # <<>> => Head(b) \in Entries /\ Head(d) = TurnTrigger(Head(b))
  BY DEF Opposed
<1>2. /\ a \o b \in Seq(Entries) /\ (a \o b = <<>> <=> a = <<>> /\ b = <<>>)
      /\ a # <<>> => Head(a \o b) = Head(a)
      /\ a = <<>> => a \o b = b
  BY <1>1, HeadOfTwo
<1>3. /\ c \o d \in Seq(Entries) /\ (c \o d = <<>> <=> c = <<>> /\ d = <<>>)
      /\ c # <<>> => Head(c \o d) = Head(c)
      /\ c = <<>> => c \o d = d
  BY <1>1, HeadOfTwo
<1>4. CASE a = <<>>
  BY <1>1, <1>2, <1>3, <1>4 DEF Opposed
<1>5. CASE a # <<>>
  BY <1>1, <1>2, <1>3, <1>5 DEF Opposed
<1> QED BY <1>4, <1>5

(* The trigger of the first block of the bias.                             *)
LEMMA BlockTriggersMirror ==
  ASSUME NEW direction \in Directions, NEW blocks \in Seq(Blocks)
  PROVE  Opposed(BlockTriggers(direction, blocks), BlockTriggers(-direction, TurnBlocks(blocks)))
<1> DEFINE turned == TurnBlocks(blocks)
           M == {k \in DOMAIN blocks : blocks[k].direction = direction}
           b == blocks[Min(M)]
<1>1. ASSUME NEW k \in DOMAIN blocks
      PROVE  /\ blocks[k] \in Blocks /\ blocks[k].direction \in Directions
             /\ blocks[k].lower \in Prices /\ blocks[k].upper \in Prices
             /\ turned[k].direction = -blocks[k].direction
             /\ turned[k].lower = Turn(blocks[k].upper) /\ turned[k].upper = Turn(blocks[k].lower)
  <2>1. blocks[k] \in Blocks
    OBVIOUS
  <2>2. blocks[k].direction \in Directions /\ blocks[k].lower \in Prices /\ blocks[k].upper \in Prices
    BY <2>1 DEF Blocks
  <2>3. blocks[k] # NoBlock
    BY <2>2, Opposites DEF NoBlock, Directions
  <2>4. turned[k] = TurnBlock(blocks[k])
    BY <2>3 DEF TurnBlocks
  <2>5. /\ TurnBlock(blocks[k]).direction = -blocks[k].direction
        /\ TurnBlock(blocks[k]).lower = Turn(blocks[k].upper) /\ TurnBlock(blocks[k]).upper = Turn(blocks[k].lower)
    BY DEF TurnBlock
  <2> HIDE DEF turned
  <2> QED BY <2>1, <2>2, <2>4, <2>5
<1>2. DOMAIN turned = DOMAIN blocks /\ DOMAIN blocks \subseteq Nat
  BY DEF TurnBlocks
<1>3. {k \in DOMAIN turned : turned[k].direction = -direction} = M
  <2>1. \A k \in DOMAIN blocks : (-blocks[k].direction = -direction) <=> (blocks[k].direction = direction)
    BY <1>1, TurnedVotes
  <2> HIDE DEF turned
  <2> QED BY <1>1, <1>2, <2>1
<1>4. CASE M = {}
  <2>1. BlockTriggers(direction, blocks) = <<>> /\ BlockTriggers(-direction, turned) = <<>>
    BY <1>3, <1>4 DEF BlockTriggers
  <2> QED BY <2>1, OpposedNone
<1>5. CASE M # {}
  <2>1. Min(M) \in M
    BY <1>2, <1>5, LeastOfNaturals
  <2>2. /\ b \in Blocks /\ b.lower \in Prices /\ b.upper \in Prices
        /\ turned[Min(M)].lower = Turn(b.upper) /\ turned[Min(M)].upper = Turn(b.lower)
    <3> DEFINE k == Min(M)
    <3>1. k \in DOMAIN blocks
      BY <2>1
    <3> HIDE DEF k, turned
    <3> QED BY <1>1, <3>1 DEF k
  <2>3. (-direction = BULLISH) <=> ~(direction = BULLISH)
    BY Opposites DEF Directions
  <2> DEFINE t == Trigger("block", b.lower, b.upper, IF direction = BULLISH THEN b.lower ELSE b.upper)
  <2>4. BlockTriggers(direction, blocks) = <<t>>
    BY <1>5 DEF BlockTriggers
  <2>5. BlockTriggers(-direction, turned)
          = <<Trigger("block", Turn(b.upper), Turn(b.lower), IF -direction = BULLISH THEN Turn(b.upper) ELSE Turn(b.lower))>>
    <3>1. LET f == turned[Min(M)]
          IN  BlockTriggers(-direction, turned)
                = <<Trigger("block", f.lower, f.upper, IF -direction = BULLISH THEN f.lower ELSE f.upper)>>
      BY <1>3, <1>5 DEF BlockTriggers
    <3> HIDE DEF turned, M
    <3> QED BY <2>2, <3>1
  <2>6. t \in Entries
    BY <2>2 DEF Trigger, Entries
  <2>7. TurnTrigger(t) = Trigger("block", Turn(b.upper), Turn(b.lower), IF -direction = BULLISH THEN Turn(b.upper) ELSE Turn(b.lower))
    BY <2>3 DEF TurnTrigger, Trigger
  <2> HIDE DEF t
  <2> QED BY <2>4, <2>5, <2>6, <2>7, OpposedOne
<1> QED BY <1>4, <1>5

(* The trigger of a sweep in the direction of the bias.                    *)
LEMMA SweepTriggersMirror ==
  ASSUME NEW direction \in Directions, NEW setup \in {"sfp", "turtle_soup"}, NEW sweep \in Sweeps \cup {NotDetected}
  PROVE  Opposed(SweepTriggers(direction, setup, sweep), SweepTriggers(-direction, setup, TurnSweep(sweep)))
<1> DEFINE turned == TurnSweep(sweep)
<1>1. direction # NEUTRAL /\ -direction # NEUTRAL /\ ((-direction = BULLISH) <=> ~(direction = BULLISH))
  BY Opposites DEF Directions
<1>2. CASE sweep = NotDetected
  <2>1. turned = sweep /\ sweep.direction = NEUTRAL
    BY <1>2 DEF TurnSweep, NotDetected
  <2>2. SweepTriggers(direction, setup, sweep) = <<>> /\ SweepTriggers(-direction, setup, turned) = <<>>
    BY <1>1, <2>1 DEF SweepTriggers
  <2> QED BY <2>2, OpposedNone
<1>3. CASE sweep \in Sweeps
  <2> DEFINE l == sweep.level
             c == sweep.close
             p == sweep.price
  <2>1. sweep.direction \in Directions /\ l \in Prices /\ c \in Prices /\ p \in Prices
    BY <1>3 DEF Sweeps
  <2>2. sweep # NotDetected
    BY <2>1, Opposites DEF NotDetected, Directions
  <2>3. turned = [direction |-> -sweep.direction, level |-> Turn(l), at |-> sweep.at, price |-> Turn(p), close |-> Turn(c)]
    BY <2>2 DEF TurnSweep
  <2> HIDE DEF turned
  <2>4. /\ turned.direction = -sweep.direction /\ turned.level = Turn(l) /\ turned.price = Turn(p) /\ turned.close = Turn(c)
        /\ (turned.direction = -direction) <=> (sweep.direction = direction)
    <3>1. (-sweep.direction = -direction) <=> (sweep.direction = direction)
      BY <2>1, TurnedVotes
    <3>2. turned.direction = -sweep.direction
      <4> DEFINE d == -sweep.direction
      <4>1. turned = [direction |-> d, level |-> Turn(l), at |-> sweep.at, price |-> Turn(p), close |-> Turn(c)]
        BY <2>3
      <4> HIDE DEF d
      <4>2. turned.direction = d
        BY <4>1
      <4> QED BY <4>2 DEF d
    <3>3. turned.level = Turn(l) /\ turned.price = Turn(p) /\ turned.close = Turn(c)
      BY <2>3
    <3> QED BY <3>1, <3>2, <3>3
  <2>5. CASE sweep.direction # direction
    <3>1. SweepTriggers(direction, setup, sweep) = <<>> /\ SweepTriggers(-direction, setup, turned) = <<>>
      BY <2>4, <2>5 DEF SweepTriggers
    <3> QED BY <3>1, OpposedNone DEF turned
  <2>6. CASE sweep.direction = direction
    <3> DEFINE E == {l, c}
               A == {l, c} \union {p}
               F == {Turn(l), Turn(c)}
               B == {Turn(l), Turn(c)} \union {Turn(p)}
    <3> HIDE DEF l, c, p
    <3>1. /\ E \subseteq Prices /\ E # {} /\ A \subseteq Prices /\ A # {}
          /\ F = {Turn(q) : q \in E} /\ B = {Turn(q) : q \in A}
      BY <2>1
    <3>2. SweepTriggers(direction, setup, sweep)
            = <<Trigger(setup, Min(E), Max(E), IF direction = BULLISH THEN Min(A) ELSE Max(A))>>
      BY <2>6 DEF SweepTriggers, l, c, p
    <3>3. SweepTriggers(-direction, setup, turned)
            = <<Trigger(setup, Min(F), Max(F), IF -direction = BULLISH THEN Min(B) ELSE Max(B))>>
      BY <2>4, <2>6 DEF SweepTriggers
    <3> HIDE DEF E, A, F, B
    <3>4. /\ Min(E) \in Prices /\ Max(E) \in Prices /\ Min(A) \in Prices /\ Max(A) \in Prices
          /\ Min(F) = Turn(Max(E)) /\ Max(F) = Turn(Min(E))
          /\ Min(B) = Turn(Max(A)) /\ Max(B) = Turn(Min(A))
      <4>1. Min(E) \in E /\ Max(E) \in E /\ Min(F) = Turn(Max(E)) /\ Max(F) = Turn(Min(E))
        BY <3>1, TurnedExtremes
      <4>2. Min(A) \in A /\ Max(A) \in A /\ Min(B) = Turn(Max(A)) /\ Max(B) = Turn(Min(A))
        BY <3>1, TurnedExtremes
      <4> QED BY <3>1, <4>1, <4>2
    <3> DEFINE stop == IF direction = BULLISH THEN Min(A) ELSE Max(A)
               t == Trigger(setup, Min(E), Max(E), stop)
    <3>5. t \in Entries
      BY <3>4 DEF Trigger, Entries
    <3>6. (IF -direction = BULLISH THEN Min(B) ELSE Max(B)) = Turn(stop)
      BY <1>1, <3>4
    <3> HIDE DEF stop
    <3>7. TurnTrigger(t) = Trigger(setup, Min(F), Max(F), Turn(stop))
      BY <3>4 DEF TurnTrigger, Trigger
    <3>8. SweepTriggers(direction, setup, sweep) = <<t>> /\ SweepTriggers(-direction, setup, turned) = <<TurnTrigger(t)>>
      BY <3>2, <3>3, <3>6, <3>7 DEF stop
    <3> HIDE DEF t
    <3> QED BY <3>5, <3>8, OpposedOne DEF turned
  <2> QED BY <2>5, <2>6 DEF turned
<1> QED BY <1>2, <1>3

(* What a turned snapshot holds.                                           *)
LEMMA TurnedSnapshot ==
  ASSUME NEW s
  PROVE  LET t == TurnSnapshot(s)
         IN  /\ t.blocks = TurnBlocks(s.blocks) /\ t.sfp = TurnSweep(s.sfp) /\ t.turtle = TurnSweep(s.turtle)
             /\ t.rejected = s.rejected /\ t.dayHigh = TurnKnown(s.dayLow) /\ t.dayLow = TurnKnown(s.dayHigh)
             /\ t.swingHigh = TurnKnown(s.swingLow) /\ t.swingLow = TurnKnown(s.swingHigh)
             /\ t.sellSide = {Turn(p) : p \in s.buySide} /\ t.buySide = {Turn(p) : p \in s.sellSide}
BY DEF TurnSnapshot

(* The triggers of a snapshot, upside down.                                *)
LEMMA TriggersMirror ==
  ASSUME NEW direction \in Directions, NEW s \in Snapshots
  PROVE  Opposed(Triggers(direction, s), Triggers(-direction, TurnSnapshot(s)))
<1>1. s.blocks \in Seq(Blocks) /\ s.sfp \in Sweeps \cup {NotDetected} /\ s.turtle \in Sweeps \cup {NotDetected}
  BY DEF Snapshots
<1> DEFINE t == TurnSnapshot(s)
           a == BlockTriggers(direction, s.blocks)
           b == SweepTriggers(direction, "sfp", s.sfp)
           c == SweepTriggers(direction, "turtle_soup", s.turtle)
           x == BlockTriggers(-direction, TurnBlocks(s.blocks))
           y == SweepTriggers(-direction, "sfp", TurnSweep(s.sfp))
           z == SweepTriggers(-direction, "turtle_soup", TurnSweep(s.turtle))
<1>2. Opposed(a, x) /\ Opposed(b, y) /\ Opposed(c, z)
  BY <1>1, BlockTriggersMirror, SweepTriggersMirror
<1>3. Triggers(direction, s) = a \o b \o c
  BY DEF Triggers
<1>4. Triggers(-direction, t) = x \o y \o z
  <2>1. t.blocks = TurnBlocks(s.blocks) /\ t.sfp = TurnSweep(s.sfp) /\ t.turtle = TurnSweep(s.turtle)
    BY TurnedSnapshot
  <2> HIDE DEF t
  <2> QED BY <2>1 DEF Triggers
<1> HIDE DEF a, b, c, x, y, z, t
<1>5. Opposed(a \o b, x \o y)
  BY <1>2, OpposedBoth
<1>6. Opposed((a \o b) \o c, (x \o y) \o z)
  BY <1>2, <1>5, OpposedBoth
<1> QED BY <1>3, <1>4, <1>6 DEF t

(* The targets of a snapshot, upside down.                                 *)
LEMMA TargetsMirror ==
  ASSUME NEW direction \in Directions, NEW s \in Snapshots, NEW trigger \in Entries
  PROVE  /\ Targets(direction, s, trigger) \subseteq Prices
         /\ Targets(-direction, TurnSnapshot(s), TurnTrigger(trigger)) = {Turn(p) : p \in Targets(direction, s, trigger)}
<1> DEFINE t == TurnSnapshot(s)
           u == TurnTrigger(trigger)
           lo == trigger.low
           hi == trigger.high
           T == Targets(direction, s, trigger)
           R == Targets(-direction, t, u)
<1>1. /\ s.dayHigh \in Prices \cup {0} /\ s.dayLow \in Prices \cup {0} /\ s.swingHigh \in Prices \cup {0}
      /\ s.swingLow \in Prices \cup {0} /\ s.sellSide \subseteq Prices /\ s.buySide \subseteq Prices
  BY DEF Snapshots
<1>2. lo \in Prices /\ hi \in Prices /\ u.low = Turn(hi) /\ u.high = Turn(lo)
  <2>1. lo \in Prices /\ hi \in Prices
    BY DEF Entries
  <2> QED BY <2>1, TurnedTriggers
<1>3. /\ t.dayHigh = TurnKnown(s.dayLow) /\ t.dayLow = TurnKnown(s.dayHigh)
      /\ t.swingHigh = TurnKnown(s.swingLow) /\ t.swingLow = TurnKnown(s.swingHigh)
      /\ t.sellSide = {Turn(p) : p \in s.buySide} /\ t.buySide = {Turn(p) : p \in s.sellSide}
  BY TurnedSnapshot
<1>4. ASSUME NEW p \in Prices PROVE p # 0 /\ ~(0 > p) /\ Turn(p) # 0 /\ ~(0 > Turn(p))
  <2>1. p \in Nat /\ p # 0 /\ Turn(p) \in Nat /\ Turn(p) # 0
    <3>1. MaxPrice \in Nat /\ Turn(p) \in Prices
      BY TurnReverses
    <3> QED BY <3>1 DEF Prices
  <2> QED BY <2>1
<1> HIDE DEF t, u, lo, hi
<1>5. CASE direction = BULLISH
  <2>1. -direction = BEARISH /\ BULLISH # BEARISH
    BY <1>5, Opposites
  <2>2. T = {p \in {s.dayHigh, s.swingHigh} \union s.sellSide : p > hi}
    BY <1>5 DEF Targets, hi
  <2>3. R = {p \in ({TurnKnown(s.dayHigh), TurnKnown(s.swingHigh)} \ {0}) \union {Turn(p) : p \in s.sellSide} : p < Turn(hi)}
    BY <1>2, <1>3, <2>1 DEF Targets
  <2> HIDE DEF T, R
  <2>4. T \subseteq Prices
    BY <1>1, <1>2, <1>4, <2>2
  <2>5. \A p \in Prices : (Turn(p) < Turn(hi)) <=> (p > hi)
    <3>1. \A p \in Prices : ((Turn(p) < Turn(hi)) <=> (hi < p)) /\ ((hi < p) <=> (p > hi))
      BY <1>2, TurnReverses
    <3> QED BY <3>1
  <2>6. ASSUME NEW p \in T PROVE Turn(p) \in R
    <3>1. p \in Prices /\ p > hi /\ Turn(p) < Turn(hi) /\ Turn(p) # 0
      BY <1>4, <2>2, <2>4, <2>5
    <3>2. CASE p \in s.sellSide
      BY <2>3, <3>1, <3>2
    <3>3. CASE p \in {s.dayHigh, s.swingHigh}
      <4>1. TurnKnown(p) = Turn(p)
        BY <1>4, <3>1, TurnedKnown
      <4> QED BY <2>3, <3>1, <3>3, <4>1
    <3> QED BY <2>2, <3>2, <3>3
  <2>7. ASSUME NEW r \in R PROVE \E p \in T : r = Turn(p)
    <3>1. r < Turn(hi)
      BY <2>3
    <3>2. CASE r \in {Turn(p) : p \in s.sellSide}
      <4>1. PICK p \in s.sellSide : r = Turn(p)
        BY <3>2
      <4> QED BY <1>1, <2>2, <2>5, <3>1, <4>1
    <3>3. CASE r \in {TurnKnown(s.dayHigh), TurnKnown(s.swingHigh)} \ {0}
      <4>1. PICK p \in {s.dayHigh, s.swingHigh} : r = TurnKnown(p) /\ r # 0
        BY <3>3
      <4>2. p \in Prices /\ r = Turn(p)
        BY <1>1, <4>1, TurnedKnown
      <4> QED BY <2>2, <2>5, <3>1, <4>1, <4>2
    <3> QED BY <2>3, <3>2, <3>3
  <2>8. R = {Turn(p) : p \in T}
    BY <2>6, <2>7
  <2> QED BY <2>4, <2>8 DEF T, R, t, u
<1>6. CASE direction = BEARISH
  <2>1. -direction = BULLISH /\ BULLISH # BEARISH
    BY <1>6, Opposites
  <2>2. T = {p \in ({s.dayLow, s.swingLow} \ {0}) \union s.buySide : p < lo}
    BY <1>6, <2>1 DEF Targets, lo
  <2>3. R = {p \in {TurnKnown(s.dayLow), TurnKnown(s.swingLow)} \union {Turn(p) : p \in s.buySide} : p > Turn(lo)}
    BY <1>2, <1>3, <2>1 DEF Targets
  <2> HIDE DEF T, R
  <2>4. T \subseteq Prices
    BY <1>1, <1>2, <1>4, <2>2
  <2>5. \A p \in Prices : (Turn(p) > Turn(lo)) <=> (p < lo)
    <3>1. \A p \in Prices : ((Turn(p) > Turn(lo)) <=> (lo > p)) /\ ((lo > p) <=> (p < lo))
      BY <1>2, TurnReverses
    <3> QED BY <3>1
  <2>6. ASSUME NEW p \in T PROVE Turn(p) \in R
    <3>1. p \in Prices /\ p < lo /\ Turn(p) > Turn(lo) /\ p # 0
      BY <1>4, <2>2, <2>4, <2>5
    <3>2. CASE p \in s.buySide
      BY <2>3, <3>1, <3>2
    <3>3. CASE p \in {s.dayLow, s.swingLow}
      <4>1. TurnKnown(p) = Turn(p)
        BY <3>1, TurnedKnown
      <4> QED BY <2>3, <3>1, <3>3, <4>1
    <3> QED BY <2>2, <3>2, <3>3
  <2>7. ASSUME NEW r \in R PROVE \E p \in T : r = Turn(p)
    <3>1. r > Turn(lo) /\ r # 0
      <4>1. r > Turn(lo)
        BY <2>3
      <4>2. ~(0 > Turn(lo))
        BY <1>2, <1>4
      <4> QED BY <4>1, <4>2
    <3>2. CASE r \in {Turn(p) : p \in s.buySide}
      <4>1. PICK p \in s.buySide : r = Turn(p)
        BY <3>2
      <4> QED BY <1>1, <2>2, <2>5, <3>1, <4>1
    <3>3. CASE r \in {TurnKnown(s.dayLow), TurnKnown(s.swingLow)}
      <4>1. PICK p \in {s.dayLow, s.swingLow} : r = TurnKnown(p) /\ r # 0
        BY <3>1, <3>3
      <4>2. p \in Prices /\ r = Turn(p) /\ p # 0
        BY <1>1, <1>4, <4>1, TurnedKnown
      <4> QED BY <2>2, <2>5, <3>1, <4>1, <4>2
    <3> QED BY <2>3, <3>2, <3>3
  <2>8. R = {Turn(p) : p \in T}
    BY <2>6, <2>7
  <2> QED BY <2>4, <2>8 DEF T, R, t, u
<1> QED BY <1>5, <1>6 DEF Directions

(* Risk and reward, upside down.                                           *)
LEMMA PricedMirrors ==
  ASSUME NEW direction \in Directions, NEW trigger \in Entries, NEW target \in Prices
  PROVE  Priced(-direction, TurnTrigger(trigger), Turn(target)) = TurnPlan(Priced(direction, trigger, target))
<1> DEFINE u == TurnTrigger(trigger)
           riskOf(d, lo, hi, stop) == d * ((lo + hi) - 2 * stop)
           rewardOf(d, lo, hi, goal) == d * (2 * goal - (lo + hi))
           risk == riskOf(direction, trigger.low, trigger.high, trigger.invalidation)
           reward == rewardOf(direction, trigger.low, trigger.high, target)
           plan(d, t, g, w, k) == [valid |-> TRUE, asserts |-> TRUE, direction |-> d, trigger |-> t,
                                   target |-> g, reward |-> w, risk |-> k]
           failed == [valid |-> TRUE, asserts |-> FALSE]
           pricedOf(d, t, g, w, k) == IF k <= 0 \/ w <= 0 THEN failed
                                      ELSE IF w < k THEN NoPlan ELSE plan(d, t, g, w, k)
<1>1. /\ trigger.low \in Prices /\ trigger.high \in Prices /\ trigger.invalidation \in Prices
      /\ u.low = Turn(trigger.high) /\ u.high = Turn(trigger.low) /\ u.invalidation = Turn(trigger.invalidation)
  BY TurnedTriggers DEF Entries
<1>2. ASSUME NEW d \in Directions, NEW t \in Entries, NEW g \in Prices
      PROVE  Priced(d, t, g) = pricedOf(d, t, g, rewardOf(d, t.low, t.high, g), riskOf(d, t.low, t.high, t.invalidation))
  <2>1. d \in Int /\ t.low \in Int /\ t.high \in Int /\ t.invalidation \in Int /\ g \in Int
    <3>1. t.low \in Prices /\ t.high \in Prices /\ t.invalidation \in Prices
      BY DEF Entries
    <3> QED BY <3>1, TurnReverses, Opposites DEF Directions
  <2> QED BY <2>1 DEF Priced
<1> HIDE DEF u
<1>3. /\ riskOf(-direction, u.low, u.high, u.invalidation) = risk
      /\ rewardOf(-direction, u.low, u.high, Turn(target)) = reward
  <2> DEFINE l == trigger.low
             h == trigger.high
             i == trigger.invalidation
  <2>1. /\ MaxPrice \in Int /\ l \in Int /\ h \in Int /\ i \in Int /\ target \in Int
        /\ Turn(l) = MaxPrice + 1 - l /\ Turn(h) = MaxPrice + 1 - h /\ Turn(i) = MaxPrice + 1 - i
        /\ Turn(target) = MaxPrice + 1 - target
    BY <1>1, TurnReverses
  <2> HIDE DEF l, h, i
  <2> DEFINE x == (l + h) - 2 * i
             y == 2 * target - (l + h)
  <2>2. x \in Int /\ (Turn(h) + Turn(l)) - 2 * Turn(i) = -x
    BY <2>1
  <2>3. y \in Int /\ 2 * Turn(target) - (Turn(h) + Turn(l)) = -y
    BY <2>1
  <2>4. direction \in Int /\ -direction \in Int
    BY Opposites DEF Directions
  <2>5. /\ riskOf(-direction, u.low, u.high, u.invalidation) = (-direction) * (-x)
        /\ rewardOf(-direction, u.low, u.high, Turn(target)) = (-direction) * (-y)
    BY <1>1, <2>2, <2>3 DEF l, h, i
  <2>6. risk = direction * x /\ reward = direction * y
    BY DEF l, h, i
  <2> HIDE DEF x, y
  <2>7. /\ (-direction) * x = -(direction * x) /\ (-direction) * (-x) = -((-direction) * x) /\ direction * x \in Int
        /\ (-direction) * y = -(direction * y) /\ (-direction) * (-y) = -((-direction) * y) /\ direction * y \in Int
    BY <2>2, <2>3, <2>4, SignsOfProducts
  <2>8. \A e \in Int : -(-e) = e
    OBVIOUS
  <2> QED BY <2>5, <2>6, <2>7, <2>8
<1>4. /\ Priced(direction, trigger, target) = pricedOf(direction, trigger, target, reward, risk)
      /\ Priced(-direction, u, Turn(target)) = pricedOf(-direction, u, Turn(target), reward, risk)
  <2>1. -direction \in Directions /\ u \in Entries /\ Turn(target) \in Prices
    BY TurnedTriggers, TurnReverses, Opposites DEF Directions, u
  <2> HIDE DEF pricedOf, riskOf, rewardOf
  <2> QED BY <1>2, <1>3, <2>1 DEF risk, reward
<1> HIDE DEF risk, reward
<1>5. TurnPlan(failed) = failed /\ TurnPlan(NoPlan) = NoPlan
  BY DEF TurnPlan, NoPlan
<1>6. TurnPlan(plan(direction, trigger, target, reward, risk)) = plan(-direction, u, Turn(target), reward, risk)
  BY DEF TurnPlan, u
<1> HIDE DEF plan, failed
<1>7. CASE risk <= 0 \/ reward <= 0
  BY <1>4, <1>5, <1>7 DEF u
<1>8. CASE ~(risk <= 0 \/ reward <= 0) /\ reward < risk
  BY <1>4, <1>5, <1>8 DEF u
<1>9. CASE ~(risk <= 0 \/ reward <= 0) /\ ~(reward < risk)
  BY <1>4, <1>6, <1>9 DEF u
<1> QED BY <1>7, <1>8, <1>9

(* The plan of the opposite bias for snapshots upside down.                *)
LEMMA TradePlanMirrors ==
  ASSUME NEW bias \in Directions \cup {NEUTRAL}, NEW m15 \in Snapshots, NEW h1 \in Snapshots
  PROVE  TradePlan(-bias, TurnSnapshot(m15), TurnSnapshot(h1)) = TurnPlan(TradePlan(bias, m15, h1))
<1> DEFINE m == TurnSnapshot(m15)
           h == TurnSnapshot(h1)
           list == Triggers(bias, m15) \o Triggers(bias, h1)
           against == Triggers(-bias, m) \o Triggers(-bias, h)
           first == Head(list)
           goals == Targets(bias, m15, first) \union Targets(bias, h1, first)
           turned == Targets(-bias, m, Head(against)) \union Targets(-bias, h, Head(against))
           best == IF bias = BULLISH THEN Min(goals) ELSE Max(goals)
           worst == IF -bias = BULLISH THEN Min(turned) ELSE Max(turned)
<1>1. m.rejected = m15.rejected /\ h.rejected = h1.rejected
  BY TurnedSnapshot
<1>2. -bias = NEUTRAL <=> bias = NEUTRAL
  BY TurnedVotes
<1>3. TradePlan(bias, m15, h1) =
        IF bias = NEUTRAL \/ m15.rejected \/ h1.rejected \/ list = <<>> THEN NoPlan
        ELSE IF goals = {} THEN NoPlan ELSE Priced(bias, first, best)
  BY DEF TradePlan
<1>4. TradePlan(-bias, m, h) =
        IF -bias = NEUTRAL \/ m.rejected \/ h.rejected \/ against = <<>> THEN NoPlan
        ELSE IF turned = {} THEN NoPlan ELSE Priced(-bias, Head(against), worst)
  BY DEF TradePlan
<1>5. TurnPlan(NoPlan) = NoPlan
  BY DEF TurnPlan, NoPlan
<1>6. CASE bias = NEUTRAL \/ m15.rejected \/ h1.rejected
  BY <1>1, <1>2, <1>3, <1>4, <1>5, <1>6
<1>7. CASE bias \in Directions
  <2>1. Opposed(list, against)
    <3>1. Opposed(Triggers(bias, m15), Triggers(-bias, m)) /\ Opposed(Triggers(bias, h1), Triggers(-bias, h))
      BY <1>7, TriggersMirror
    <3> QED BY <3>1, OpposedBoth
  <2>2. /\ list = <<>> <=> against = <<>>
        /\ list # <<>> => first \in Entries /\ Head(against) = TurnTrigger(first)
    BY <2>1 DEF Opposed
  <2> HIDE DEF m, h, list, against
  <2>3. CASE list = <<>>
    BY <1>3, <1>4, <1>5, <2>2, <2>3 DEF m, h
  <2>4. CASE list # <<>>
    <3>1. goals \subseteq Prices /\ turned = {Turn(p) : p \in goals}
      <4>1. /\ Targets(bias, m15, first) \subseteq Prices /\ Targets(bias, h1, first) \subseteq Prices
            /\ Targets(-bias, m, TurnTrigger(first)) = {Turn(p) : p \in Targets(bias, m15, first)}
            /\ Targets(-bias, h, TurnTrigger(first)) = {Turn(p) : p \in Targets(bias, h1, first)}
        BY <1>7, <2>2, <2>4, TargetsMirror DEF m, h
      <4>2. Head(against) = TurnTrigger(first)
        BY <2>2, <2>4
      <4> QED BY <4>1, <4>2
    <3> HIDE DEF first, goals, turned
    <3>2. CASE goals = {}
      <4>1. turned = {}
        BY <3>1, <3>2
      <4> QED BY <1>1, <1>2, <1>3, <1>4, <1>5, <3>2, <4>1 DEF m, h
    <3>3. CASE goals # {}
      <4>1. turned # {}
        BY <3>1, <3>3
      <4>2. /\ Min(goals) \in Prices /\ Max(goals) \in Prices
            /\ Max(turned) = Turn(Min(goals)) /\ Min(turned) = Turn(Max(goals))
        BY <3>1, <3>3, TurnedExtremes
      <4>3. (-bias = BULLISH) <=> ~(bias = BULLISH)
        BY <1>7, Opposites DEF Directions
      <4>4. best \in Prices /\ worst = Turn(best)
        BY <4>2, <4>3
      <4> HIDE DEF best, worst
      <4>5. Priced(-bias, Head(against), worst) = TurnPlan(Priced(bias, first, best))
        BY <1>7, <2>2, <2>4, <4>4, PricedMirrors
      <4>6. CASE m15.rejected \/ h1.rejected
        BY <1>6, <4>6
      <4>7. CASE ~(m15.rejected \/ h1.rejected)
        <5>1. bias # NEUTRAL /\ -bias # NEUTRAL
          BY <1>2, <1>7, Opposites DEF Directions
        <5> QED BY <1>1, <1>3, <1>4, <2>2, <2>4, <3>3, <4>1, <4>5, <4>7, <5>1 DEF m, h
      <4> QED BY <4>6, <4>7
    <3> QED BY <3>2, <3>3
  <2> QED BY <2>3, <2>4
<1> QED BY <1>6, <1>7

-----------------------------------------------------------------------------
(* All detectors.                                                          *)

(* The bias as a whole.                                                    *)
LEMMA BiasIsRecord ==
  ASSUME NEW members
  PROVE  LET b == Bias(members)
         IN  b = [votes |-> b.votes, transitioning |-> b.transitioning, direction |-> b.direction, alignment |-> b.alignment]
<1>1. ASSUME NEW changing, NEW votes, NEW aggregate
      PROVE  LET v == Verdict(changing, votes, aggregate)
             IN  v = [votes |-> v.votes, transitioning |-> v.transitioning, direction |-> v.direction, alignment |-> v.alignment]
  BY SMTT(30) DEF Verdict
<1>2. \E changing, votes, aggregate : Bias(members) = Verdict(changing, votes, aggregate)
  BY DEF Bias, Weigh
<1> QED BY <1>1, <1>2

(* Whatever a detector is shown, it favours neither direction.             *)
LEMMA EachDetectorMirrors ==
  ASSUME DInit
  PROVE  DetectorsMirror
<1>1. CASE detector = "turtle_soup" /\ shown \in Charts
  <2>1. shown \in Seq(Candles)
    BY <1>1, Inputs
  <2>2. TurtleSoup(TurnChart(shown)) = TurnSweep(TurtleSoup(shown))
    BY <2>1, TurtleSoupMirrors
  <2> QED BY <1>1, <2>2 DEF DetectorsMirror
<1>2. CASE detector = "sfp" /\ shown \in {p \in Charts \X Swings : Len(p[2]) = Len(p[1])}
  <2>1. shown[1] \in Seq(Candles) /\ shown[2] \in Seq({-1, 0, 1}) /\ Len(shown[2]) = Len(shown[1])
    BY <1>2, Inputs
  <2>2. SwingFailure(TurnChart(shown[1]), [i \in DOMAIN shown[2] |-> -shown[2][i]])
          = TurnSweep(SwingFailure(shown[1], shown[2]))
    BY <2>1, SwingFailureMirrors
  <2> QED BY <1>2, <2>2 DEF DetectorsMirror
<1>3. CASE detector = "orb" /\ shown \in {p \in Charts \X Sessions : \A s \in DOMAIN p[2] : Len(p[2][s]) = Len(p[1])}
  <2>1. /\ shown[1] \in Seq(Candles) /\ shown[2] \in Seq(Seq(BOOLEAN))
        /\ \A s \in DOMAIN shown[2] : Len(shown[2][s]) = Len(shown[1])
    BY <1>3, Inputs
  <2>2. OpeningBreakout(TurnChart(shown[1]), shown[2]) = TurnBreakout(OpeningBreakout(shown[1], shown[2]))
    BY <2>1, OpeningBreakoutMirrors
  <2> QED BY <1>3, <2>2 DEF DetectorsMirror
<1>4. CASE detector = "score" /\ shown \in Readings
  <2>1. shown \in Readable
    BY <1>4, Inputs
  <2>2. Score(TurnReading(shown)) = -Score(shown)
    BY <2>1, ScoreMirrors
  <2> QED BY <1>4, <2>2 DEF DetectorsMirror
<1>5. CASE detector = "bias" /\ shown \in Members \X Members \X Members
  <2> DEFINE turned == [i \in 1 .. 3 |-> TurnReading(shown[i])]
             b == Bias(shown)
             c == Bias(turned)
  <2>1. shown[1] \in Members /\ shown[2] \in Members /\ shown[3] \in Members
    BY <1>5
  <2>2. \A i \in 1 .. 3 : shown[i] \in Readable
    <3>1. \A i \in 1 .. 3 : i = 1 \/ i = 2 \/ i = 3
      OBVIOUS
    <3>2. Members \subseteq Readable
      BY Inputs
    <3> QED BY <2>1, <3>1, <3>2
  <2>3. /\ c.votes = [i \in 1 .. 3 |-> -b.votes[i]] /\ c.direction = -b.direction
        /\ c.transitioning = b.transitioning /\ c.alignment = b.alignment
    BY <2>2, BiasMirrors
  <2>4. /\ b = [votes |-> b.votes, transitioning |-> b.transitioning, direction |-> b.direction, alignment |-> b.alignment]
        /\ c = [votes |-> c.votes, transitioning |-> c.transitioning, direction |-> c.direction, alignment |-> c.alignment]
    BY BiasIsRecord
  <2> HIDE DEF b, c
  <2>5. c = [b EXCEPT !.direction = -@, !.votes = [i \in 1 .. 3 |-> -@[i]]]
    BY <2>3, <2>4
  <2> QED BY <1>5, <2>5 DEF DetectorsMirror, b, c
<1>6. CASE detector = "zones" /\ shown \in {<<r.blocks, r.close>> : r \in Readings}
  <2>1. shown[1] \in Seq(Blocks \cup {NoBlock}) /\ shown[2] \in Prices
    <3>1. PICK r \in Readings : shown = <<r.blocks, r.close>>
      BY <1>6
    <3>2. r \in Readable
      BY Inputs
    <3>3. r.blocks \in Seq(Blocks \cup {NoBlock}) /\ r.close \in Prices
      BY <3>2 DEF Readable
    <3> QED BY <3>1, <3>3
  <2>2. /\ Zones(TurnBlocks(shown[1]), Turn(shown[2])) = Zones(shown[1], shown[2])
        /\ ZonesByStatus(TurnBlocks(shown[1]), Turn(shown[2])) = ZonesByStatus(shown[1], shown[2])
    BY <2>1, ZonesMirror
  <2> QED BY <1>6, <2>2 DEF DetectorsMirror
<1>7. CASE detector = "fib" /\ shown \in Retraced
  <2>1. /\ shown[1] \in Directions \cup {NEUTRAL} /\ shown[2] \in Prices \cup {0} /\ shown[3] \in Prices \cup {0}
    <3>1. shown \in (Directions \cup {NEUTRAL}) \X (0 .. MaxPrice) \X (0 .. MaxPrice)
      BY <1>7, Inputs
    <3>2. 0 .. MaxPrice \subseteq Prices \cup {0}
      BY Inputs DEF Prices
    <3>3. shown[1] \in Directions \cup {NEUTRAL} /\ shown[2] \in 0 .. MaxPrice /\ shown[3] \in 0 .. MaxPrice
      BY <3>1
    <3> QED BY <3>2, <3>3
  <2> DEFINE levels == FibLevels(shown[1], shown[2], shown[3])
  <2>2. FibLevels(-shown[1], TurnKnown(shown[3]), TurnKnown(shown[2]))
          = [k \in DOMAIN levels |-> 1000 * (MaxPrice + 1) - levels[k]]
    BY <2>1, FibMirrors
  <2> QED BY <1>7, <2>2 DEF DetectorsMirror
<1>8. CASE detector = "plan" /\ shown \in Setups
  <2>1. shown[1] \in Directions \cup {NEUTRAL} /\ shown[2] \in Snapshots /\ shown[3] \in Snapshots
    BY <1>8, Inputs
  <2>2. TradePlan(-shown[1], TurnSnapshot(shown[2]), TurnSnapshot(shown[3]))
          = TurnPlan(TradePlan(shown[1], shown[2], shown[3]))
    BY <2>1, TradePlanMirrors
  <2> QED BY <1>8, <2>2 DEF DetectorsMirror
<1> QED BY <1>1, <1>2, <1>3, <1>4, <1>5, <1>6, <1>7, <1>8 DEF DInit

(* The detectors favour no direction.                                      *)
THEOREM DetectorsFavourNoDirection == DSpec => []DetectorsMirror
<1>1. DInit => DetectorsMirror
  BY EachDetectorMirrors
<1>2. DetectorsMirror /\ [FALSE]_detectorVars => DetectorsMirror'
  BY DEF detectorVars, DetectorsMirror
<1> QED BY <1>1, <1>2, PTL DEF DSpec
===============================================================================
