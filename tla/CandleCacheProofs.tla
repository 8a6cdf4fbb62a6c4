------------------------- MODULE CandleCacheProofs -------------------------
(***************************************************************************)
(* Theorems about CandleCache, for every calendar of bars, any number of   *)
(* requests and failures: the file is a gapless window that only moves     *)
(* forward (the refinement of CandleWindow), nobody is served older        *)
(* candles than memory held, fresh data lack no completed bar, and, when   *)
(* the clock lags by less than a bar, no report promises more than the     *)
(* file holds, but for one candle at the broker's maximum.                 *)
(***************************************************************************)
EXTENDS CandleCache, FiniteSetTheorems, TLAPS

-----------------------------------------------------------------------------
(* The calendar and frames                                                 *)

(* A set of whole numbers with an upper bound has a greatest member.       *)
LEMMA BoundedHasGreatest ==
    ASSUME NEW hi \in Int, NEW S, S \subseteq Int, S # {}, \A x \in S : x <= hi
    PROVE  \E x \in S : \A y \in S : y <= x
<1> DEFINE Up(x) == x .. hi
           Ups == {Up(x) : x \in S}
           R == StrictSubsetOrdering(Int)
           F == FiniteSubsetsOf(Int)
<1>1. IsWellFoundedOn(R, F)
  BY FS_StrictSubsetOrderingWellFounded
<1>2. Ups \subseteq F /\ Ups # {}
  <2>1. \A x \in S : x \in Int /\ IsFiniteSet(Up(x))
    BY FS_Interval
  <2>2. \A x \in S : Up(x) \in F
    BY <2>1 DEF FiniteSubsetsOf
  <2> QED BY <2>2
<1>3. PICK m \in Ups : \A u \in Ups : <<u, m>> \notin R
  <2> HIDE DEF R, F, Ups
  <2> QED BY <1>1, <1>2, WFMin
<1>4. PICK x \in S : m = Up(x)
  OBVIOUS
<1>5. ASSUME NEW y \in S PROVE y <= x
  <2>1. SUFFICES ASSUME y > x PROVE FALSE
    OBVIOUS
  <2>2. x \in Up(x) /\ x \notin Up(y) /\ Up(y) \subseteq Up(x)
    BY <2>1
  <2>3. <<Up(y), Up(x)>> \in R
    BY <2>2, <1>2 DEF StrictSubsetOrdering
  <2> QED BY <2>3, <1>3, <1>4
<1> QED BY <1>5

(* The newest bar of a frame is one of its own and no other is newer.      *)
LEMMA NewestBar ==
    ASSUME NEW f, f \subseteq 1 .. Bars, f # {}
    PROVE  Newest(f) \in f /\ \A b \in f : b <= Newest(f)
<1>1. Bars \in Int /\ f \subseteq Int /\ \A x \in f : x <= Bars
  BY BarsType
<1>2. \E x \in f : \A y \in f : y <= x
  BY <1>1, BoundedHasGreatest
<1> QED BY <1>2 DEF Newest

(* Bars begin in their order.                                              *)
LEMMA BarsInOrder ==
    ASSUME NEW a \in 1 .. Bars + 1, NEW b \in 1 .. Bars + 1, a < b
    PROVE  BarStart[a] < BarStart[b]
<1> DEFINE late == {c \in a + 1 .. b : BarStart[c] <= BarStart[a]}
           Back == {0 - c : c \in late}
<1>0. Bars \in Nat /\ BarStart[a] \in Nat /\ BarStart[b] \in Nat
  BY BarsType
<1>1. SUFFICES ASSUME late # {} PROVE FALSE
  <2>1. b \notin late
    OBVIOUS
  <2> QED BY <2>1, <1>0
<1>2. Back \subseteq Int /\ Back # {} /\ \A x \in Back : x <= 0
  BY <1>1, BarsType
<1>3. PICK x \in Back : \A y \in Back : y <= x
  <2> HIDE DEF Back
  <2>1. 0 \in Int
    OBVIOUS
  <2> QED BY <2>1, <1>2, BoundedHasGreatest
<1>4. PICK c \in late : x = 0 - c /\ \A d \in late : c <= d
  <2>1. PICK c \in late : x = 0 - c
    OBVIOUS
  <2>2. ASSUME NEW d \in late PROVE c <= d
    <3>1. 0 - d \in Back /\ c \in Int /\ d \in Int
      BY BarsType
    <3> QED BY <3>1, <2>1, <1>3
  <2> QED BY <2>1, <2>2
<1>5. BarStart[c - 1] < BarStart[c] /\ BarStart[c - 1] \in Nat /\ BarStart[c] \in Nat /\ BarStart[a] \in Nat
  BY BarsType
<1>6. c - 1 = a \/ c - 1 \in late
  BY <1>5, <1>4, <1>0
<1>7. c - 1 \notin late /\ BarStart[c] <= BarStart[a]
  BY <1>4, <1>0
<1> QED BY <1>5, <1>6, <1>7

(* A frame is a finite set of bars, and a part of one is no larger.        *)
LEMMA FrameFinite ==
    ASSUME NEW f, f \subseteq 1 .. Bars + 1
    PROVE  /\ IsFiniteSet(f) /\ Cardinality(f) \in Nat
           /\ \A g \in SUBSET f : IsFiniteSet(g) /\ Cardinality(g) \in Nat /\ Cardinality(g) <= Cardinality(f)
<1>1. IsFiniteSet(1 .. Bars + 1)
  BY FS_Interval, BarsType
<1>2. IsFiniteSet(f)
  BY <1>1, FS_Subset
<1> QED BY <1>2, FS_Subset, FS_CardinalityType

(* The newer end of what Tail keeps is the newer end of what it is given.  *)
LEMMA TailIsNewerEnd ==
    ASSUME NEW f, f \subseteq 1 .. Bars + 1, NEW n \in Nat,
           NEW x \in Tail(f, n), NEW y \in f, x <= y
    PROVE  y \in Tail(f, n)
<1>0. x \in Int /\ y \in Int /\ \A c \in f : c \in Int
  BY DEF Tail
<1>1. {c \in f : y < c} \subseteq {c \in f : x < c} /\ {c \in f : x < c} \subseteq 1 .. Bars + 1
  <2>1. \A c \in f : y < c => x < c
    BY <1>0
  <2> QED BY <2>1
<1>2. Cardinality({c \in f : y < c}) <= Cardinality({c \in f : x < c})
      /\ Cardinality({c \in f : y < c}) \in Nat /\ Cardinality({c \in f : x < c}) \in Nat
  BY <1>1, FrameFinite
<1> QED BY <1>2 DEF Tail

(* A page begins with the oldest candles it is given.                      *)
LEMMA PageIsOlderEnd ==
    ASSUME NEW f, f \subseteq 1 .. Bars + 1, NEW n \in Nat,
           NEW x \in FirstPage(f, n), NEW y \in f, y <= x
    PROVE  y \in FirstPage(f, n)
<1>0. x \in Int /\ y \in Int /\ \A c \in f : c \in Int
  BY DEF FirstPage
<1>1. {c \in f : c < y} \subseteq {c \in f : c < x} /\ {c \in f : c < x} \subseteq 1 .. Bars + 1
  <2>1. \A c \in f : c < y => c < x
    BY <1>0
  <2> QED BY <2>1
<1>2. Cardinality({c \in f : c < y}) <= Cardinality({c \in f : c < x})
      /\ Cardinality({c \in f : c < y}) \in Nat /\ Cardinality({c \in f : c < x}) \in Nat
  BY <1>1, FrameFinite
<1> QED BY <1>2 DEF FirstPage

(* What is served of a frame reaches as far as the frame.                  *)
LEMMA ServedReachesAsFar ==
    ASSUME NEW f, f \subseteq 1 .. Bars, NEW n \in Nat, Tail(f, n) # {},
           NEW g, Window!ReachesAsFar(f, g), g \subseteq 1 .. Bars
    PROVE  Window!ReachesAsFar(Tail(f, n), g)
<1>1. SUFFICES ASSUME NEW b \in g PROVE \E c \in Tail(f, n) : b <= c
  BY DEF Window!ReachesAsFar
<1>2. PICK c \in f : b <= c
  BY DEF Window!ReachesAsFar
<1>3. Newest(f) \in f /\ c <= Newest(f) /\ Tail(f, n) \subseteq f
  BY NewestBar DEF Tail
<1>4. PICK x \in Tail(f, n) : x \in f /\ x <= Newest(f)
  BY <1>3, NewestBar
<1>5. Newest(f) \in Tail(f, n)
  <2>1. f \subseteq 1 .. Bars + 1
    BY BarsType
  <2> QED BY <2>1, <1>3, <1>4, TailIsNewerEnd
<1>6. b \in Int /\ c \in Int /\ Newest(f) \in Int
  <2>1. b \in 1 .. Bars /\ c \in 1 .. Bars /\ Newest(f) \in 1 .. Bars
    BY <1>2, <1>3
  <2> QED BY <2>1
<1> QED BY <1>2, <1>3, <1>5, <1>6

-----------------------------------------------------------------------------
(* Type correctness                                                        *)

Pcs == {"idle", "lookup", "csv", "replace", "append", "csv_write", "meta_write"}
Jobs == [pc : Pcs, count : Nat, existing : Frames, since : Nat, frame : Frames]
Answers == [frame : Frames, count : Nat, seen : Frames]

(* Frames are sets of bars, of which Frames has every part.                *)
LEMMA FramesAreBars ==
    ASSUME closed \in 0 .. Bars
    PROVE  /\ {} \in Frames
           /\ \A f \in Frames : /\ f \subseteq 1 .. Bars /\ f \subseteq 1 .. Bars + 1
                                /\ \A g \in SUBSET f : g \in Frames
           /\ \A f, g \in Frames : f \union g \in Frames
           /\ Complete \in Frames
BY TradedType, BarsType DEF Frames, Complete

(* A frame may be counted, and its newest bar is a bar.                    *)
LEMMA FrameMeasured ==
    ASSUME closed \in 0 .. Bars, NEW f \in Frames
    PROVE  /\ Cardinality(f) \in Nat
           /\ f # {} => Newest(f) \in 1 .. Bars /\ BarStart[Newest(f)] + Delta \in Nat
<1>1. f \subseteq 1 .. Bars + 1 /\ f \subseteq 1 .. Bars
  BY FramesAreBars
<1>2. Cardinality(f) \in Nat
  BY <1>1, FrameFinite
<1>3. f # {} => Newest(f) \in 1 .. Bars
  BY <1>1, NewestBar
<1>4. ASSUME NEW b \in 1 .. Bars PROVE BarStart[b] + Delta \in Nat
  BY BarsType, PolicyType
<1> QED BY <1>2, <1>3, <1>4

(* What a request is told, and the end of its job, are typed.              *)
LEMMA EndsTyped ==
    ASSUME TypeOK, NEW w \in Workers, NEW f \in Frames, NEW n \in Nat, NEW seen \in Frames,
           Return(w, f, n, seen) \/ Raise(w)
    PROVE  holder' \subseteq Workers /\ job' \in [Workers -> Jobs] /\ answer' \in Answers
<1>1. Tail(f, n) \in Frames /\ {} \in Frames
  <2>1. Tail(f, n) \in SUBSET f
    BY DEF Tail
  <2> QED BY <2>1, FramesAreBars DEF TypeOK
<1>2. Idle \in Jobs /\ NoAnswer \in Answers
  BY <1>1 DEF Idle, NoAnswer, Jobs, Answers, Pcs
<1>3. [frame |-> Tail(f, n), count |-> n, seen |-> seen] \in Answers
  BY <1>1 DEF Answers
<1>4. holder \subseteq Workers /\ job \in [Workers -> Jobs]
  BY DEF TypeOK, Jobs, Pcs
<1>5. answer' \in Answers
  BY <1>2, <1>3 DEF Return, Raise
<1>6. job' = [job EXCEPT ![w] = Idle] /\ holder' = holder \ {w}
  BY DEF Return, Raise
<1> QED BY <1>2, <1>4, <1>5, <1>6

(* Jobs that turn to the broker are typed.                                 *)
LEMMA FetchTyped ==
    ASSUME TypeOK, NEW w \in Workers, NEW n \in Nat, NEW f \in Frames,
           FetchAll(w, n) \/ (f # {} /\ FetchSince(w, n, f))
    PROVE  job' \in [Workers -> Jobs]
<1>1. job \in [Workers -> Jobs] /\ {} \in Frames
  BY FramesAreBars DEF TypeOK, Jobs, Pcs
<1>2. CASE FetchAll(w, n)
  <2>1. [Idle EXCEPT !.pc = "replace", !.count = n] \in Jobs
    BY <1>1 DEF Idle, Jobs, Pcs
  <2> QED BY <2>1, <1>1, <1>2 DEF FetchAll
<1>3. CASE f # {} /\ FetchSince(w, n, f)
  <2>1. BarStart[Newest(f)] + Delta \in Nat
    BY <1>3, FrameMeasured DEF TypeOK
  <2>2. [Idle EXCEPT !.pc = "append", !.count = n, !.existing = f, !.since = BarStart[Newest(f)] + Delta] \in Jobs
    BY <1>1, <2>1 DEF Idle, Jobs, Pcs
  <2> QED BY <2>2, <1>1, <1>3 DEF FetchSince
<1> QED BY <1>2, <1>3

(* So is what comes of finding an entry.                                   *)
LEMMA ResolveTyped ==
    ASSUME TypeOK, NEW w \in Workers, NEW n \in Nat, NEW entry \in [frame : Frames, count : Nat],
           entry.frame # {}, Resolve(w, n, entry)
    PROVE  holder' \subseteq Workers /\ job' \in [Workers -> Jobs] /\ answer' \in Answers
<1>1. memory.frame \in Frames /\ entry.frame \in Frames
  BY DEF TypeOK
<1>2. CASE Return(w, entry.frame, n, memory.frame)
  BY <1>1, <1>2, EndsTyped
<1>3. CASE (FetchAll(w, n) \/ FetchSince(w, n, entry.frame)) /\ UNCHANGED <<holder, answer>>
  <2>1. job' \in [Workers -> Jobs]
    BY <1>1, <1>3, FetchTyped
  <2> QED BY <2>1, <1>3 DEF TypeOK, Answers
<1> QED BY <1>2, <1>3 DEF Resolve

(* Jobs that go on are typed.                                              *)
LEMMA GoesOnTyped ==
    ASSUME TypeOK, NEW w \in Workers, NEW pc \in Pcs, NEW f \in Frames,
           \/ job' = [job EXCEPT ![w].pc = pc]
           \/ job' = [job EXCEPT ![w].pc = pc, ![w].frame = f]
    PROVE  job' \in [Workers -> Jobs]
BY DEF TypeOK, Jobs, Pcs

(* Frames stay frames.                                                     *)
LEMMA FramesStay ==
    ASSUME closed \in 0 .. Bars, closed' = closed \/ closed' = closed + 1
    PROVE  \A f \in Frames : f \in Frames'
BY TradedType, BarsType DEF Frames

(* No empty frame is kept or about to be kept.                             *)
Filled ==
    /\ memory # NoEntry => memory.frame # {}
    /\ \A w \in Workers : job[w].pc \in {"csv_write", "meta_write"} => job[w].frame # {}

LEMMA TypeInit == Init => TypeOK /\ Filled
<1> SUFFICES ASSUME Init PROVE TypeOK /\ Filled
  OBVIOUS
<1>1. {} \in Frames /\ closed \in 0 .. Bars
  BY BarsType, FramesAreBars DEF Init
<1>2. \A w \in Workers : Idle \in Jobs
  BY <1>1 DEF Idle, Jobs, Pcs
<1>3. TypeOK
  BY <1>1, <1>2, BarsType DEF Init, TypeOK, NoMeta, NoEntry, NoAnswer, Jobs, Pcs
<1> QED BY <1>3 DEF Init, Filled, Idle

LEMMA TypeInductive == TypeOK /\ Filled /\ [Next]_vars => TypeOK'
<1> SUFFICES ASSUME TypeOK, Filled, [Next]_vars PROVE TypeOK'
  OBVIOUS
<1>1. /\ now \in Nat /\ closed \in 0 .. Bars /\ csv \in Frames /\ {} \in Frames
      /\ meta \in [count : Nat, last : 0 .. Bars] /\ memory \in [frame : Frames, count : Nat]
      /\ holder \subseteq Workers /\ job \in [Workers -> Jobs] /\ answer \in Answers /\ faults \in Nat
  BY FramesAreBars DEF TypeOK, Jobs, Pcs, Answers
<1>2. ASSUME now' \in Nat, closed' = closed, csv' \in Frames, meta' \in [count : Nat, last : 0 .. Bars],
             memory' \in [frame : Frames, count : Nat], holder' \subseteq Workers,
             job' \in [Workers -> Jobs], answer' \in Answers, faults' \in Nat
      PROVE  TypeOK'
  <2>1. Frames' = Frames
    BY <1>2 DEF Frames
  <2> QED BY <2>1, <1>1, <1>2 DEF TypeOK, Jobs, Pcs, Answers
<1>3. \A w \in Workers : /\ job[w].count \in Nat /\ job[w].since \in Nat
                         /\ job[w].frame \in Frames /\ job[w].existing \in Frames
  BY <1>1 DEF Jobs
<1>4. ASSUME NEW m \in {meta, NoMeta}, csv # {}
      PROVE  CsvEntry(m) \in [frame : Frames, count : Nat] /\ Bootstrap(m) \in [count : Nat, last : 0 .. Bars]
             /\ CsvEntry(m).frame = csv
  <2>1. Cardinality(csv) \in Nat /\ Newest(csv) \in 0 .. Bars
    <3>1. Cardinality(csv) \in Nat /\ Newest(csv) \in 1 .. Bars
      BY <1>1, <1>4, FrameMeasured
    <3> QED BY <3>1, BarsType
  <2> QED BY <1>1, <1>4, <2>1 DEF CsvEntry, Bootstrap
<1>5. CASE Tick
  BY <1>1, <1>2, <1>5 DEF Tick
<1>6. CASE BrokerCloses
  <2>1. closed' \in 0 .. Bars /\ \A f \in Frames : f \in Frames'
    BY <1>1, <1>6, BarsType, FramesStay DEF BrokerCloses
  <2> HIDE DEF Frames
  <2>2. UNCHANGED <<now, csv, meta, memory, holder, job, answer, faults>>
    BY <1>6 DEF BrokerCloses
  <2>3. csv \in Frames' /\ memory \in [frame : Frames', count : Nat] /\ answer \in Answers'
    BY <1>1, <2>1 DEF Answers
  <2>4. job \in [Workers -> Jobs']
    BY <1>1, <2>1 DEF Jobs, Pcs
  <2> QED BY <1>1, <2>1, <2>2, <2>3, <2>4 DEF TypeOK, Jobs, Pcs, Answers
<1>7. CASE Crash
  <2>1. NoEntry \in [frame : Frames, count : Nat] /\ Idle \in Jobs /\ NoAnswer \in Answers
    BY <1>1 DEF NoEntry, Idle, NoAnswer, Jobs, Answers, Pcs
  <2> QED BY <1>1, <1>2, <1>7, <2>1 DEF Crash
<1>8. ASSUME NEW w \in Workers, NEW n \in Counts, GetCandles(w, n)
      PROVE  TypeOK'
  <2>1. n \in Nat
    BY CountsType
  <2>2. [Idle EXCEPT !.pc = "lookup", !.count = n] \in Jobs
    BY <1>1, <2>1 DEF Idle, Jobs, Pcs
  <2> QED BY <1>1, <1>2, <1>8, <2>2 DEF GetCandles
<1>9. ASSUME NEW w \in Workers, NEW n \in Counts, GetCached(w, n)
      PROVE  TypeOK'
  <2>1. n \in Nat /\ memory.frame \in Frames /\ Tail(memory.frame, n) \in SUBSET memory.frame
        /\ Tail(csv, n) \in SUBSET csv
    BY <1>1, CountsType DEF Tail
  <2>2. Tail(memory.frame, n) \in Frames /\ Tail(csv, n) \in Frames
    BY <2>1, <1>1, FramesAreBars
  <2>3. csv # {} => CsvEntry(meta) \in [frame : Frames, count : Nat]
    BY <1>4
  <2>4. answer' \in Answers /\ memory' \in [frame : Frames, count : Nat]
    BY <1>1, <1>9, <2>1, <2>2, <2>3 DEF GetCached, Answers
  <2> QED BY <1>1, <1>2, <1>9, <2>4 DEF GetCached
<1>10. ASSUME NEW w \in Workers, LookupMemory(w)
       PROVE  TypeOK'
  <2>1. CASE memory # NoEntry
    <3>1. memory.frame # {} /\ Resolve(w, job[w].count, memory)
      BY <2>1, <1>10 DEF LookupMemory, Filled
    <3>2. holder' \subseteq Workers /\ job' \in [Workers -> Jobs] /\ answer' \in Answers
      BY <3>1, <1>1, <1>3, ResolveTyped
    <3> QED BY <3>2, <1>1, <1>2, <1>10 DEF LookupMemory
  <2>2. CASE memory = NoEntry
    <3>1. job' \in [Workers -> Jobs]
      <4>1. "csv" \in Pcs
        BY DEF Pcs
      <4> QED BY <4>1, <2>2, <1>1, <1>10, GoesOnTyped DEF LookupMemory
    <3> QED BY <3>1, <2>2, <1>1, <1>2, <1>10 DEF LookupMemory
  <2> QED BY <2>1, <2>2
<1>11. ASSUME NEW w \in Workers, LookupCsv(w)
       PROVE  TypeOK'
  <2>1. CASE csv = {}
    <3>1. FetchAll(w, job[w].count) /\ UNCHANGED <<now, closed, csv, meta, memory, holder, answer, faults>>
      BY <2>1, <1>11 DEF LookupCsv
    <3>2. job' \in [Workers -> Jobs]
      BY <3>1, <1>1, <1>3, FetchTyped
    <3> QED BY <3>1, <3>2, <1>1, <1>2
  <2>2. CASE csv # {}
    <3>1. PICK m \in ReadMeta :
             /\ meta' \in {meta, Bootstrap(m)}
             /\ faults' = IF m # meta \/ meta' # Bootstrap(m) THEN faults + 1 ELSE faults
             /\ memory' = CsvEntry(m)
             /\ Resolve(w, job[w].count, CsvEntry(m))
             /\ UNCHANGED <<now, closed, csv>>
      BY <2>2, <1>11 DEF LookupCsv
    <3>2. m \in {meta, NoMeta}
      BY DEF ReadMeta
    <3>3. CsvEntry(m) \in [frame : Frames, count : Nat] /\ Bootstrap(m) \in [count : Nat, last : 0 .. Bars]
          /\ CsvEntry(m).frame # {}
      BY <2>2, <3>2, <1>4
    <3>4. holder' \subseteq Workers /\ job' \in [Workers -> Jobs] /\ answer' \in Answers
      BY <3>1, <3>3, <1>3, ResolveTyped
    <3>5. faults' \in Nat
      BY <3>1, <1>1
    <3> QED BY <3>1, <3>3, <3>4, <3>5, <1>1, <1>2
  <2> QED BY <2>1, <2>2
<1>12. ASSUME NEW w \in Workers, FetchReplacement(w)
       PROVE  TypeOK'
  <2>1. UNCHANGED <<now, closed, csv, meta, memory, faults>>
    BY <1>12 DEF FetchReplacement
  <2>2. PICK forming \in Forming :
          LET kept == TrimToClosed(LatestPayload(job[w].count, Complete \union forming) \intersect Complete)
          IN  \/ Raise(w)
              \/ /\ job' = [job EXCEPT ![w].pc = "csv_write", ![w].frame = kept]
                 /\ UNCHANGED <<holder, answer>>
    BY <1>12 DEF FetchReplacement
  <2> DEFINE kept == TrimToClosed(LatestPayload(job[w].count, Complete \union forming) \intersect Complete)
  <2>3. kept \in Frames
    <3>1. kept \subseteq Complete
      BY DEF TrimToClosed
    <3> QED BY <3>1, <1>1, FramesAreBars
  <2> HIDE DEF kept
  <2>4. CASE Raise(w)
    BY <2>4, <2>1, <1>1, <1>2, <1>3, EndsTyped
  <2>5. CASE job' = [job EXCEPT ![w].pc = "csv_write", ![w].frame = kept] /\ UNCHANGED <<holder, answer>>
    <3>1. "csv_write" \in Pcs
      BY DEF Pcs
    <3> QED BY <2>1, <2>3, <2>5, <3>1, <1>1, <1>2, GoesOnTyped
  <2> QED BY <2>2, <2>4, <2>5 DEF kept
<1>13. ASSUME NEW w \in Workers, FetchNewer(w)
       PROVE  TypeOK'
  <2>1. UNCHANGED <<now, closed, csv, meta, memory, faults>>
    BY <1>13 DEF FetchNewer
  <2>2. PICK forming \in Forming :
          LET kept == TrimToClosed(SincePayload(job[w].since, Complete \union forming) \intersect Complete)
          IN  \/ Return(w, job[w].existing, job[w].count, memory.frame)
              \/ Raise(w)
              \/ /\ job' = [job EXCEPT ![w].pc = "csv_write", ![w].frame = job[w].existing \union kept]
                 /\ UNCHANGED <<holder, answer>>
    BY <1>13 DEF FetchNewer
  <2> DEFINE kept == TrimToClosed(SincePayload(job[w].since, Complete \union forming) \intersect Complete)
  <2>3. job[w].existing \union kept \in Frames
    <3>1. kept \subseteq Complete
      BY DEF TrimToClosed
    <3>2. kept \in Frames
      BY <3>1, <1>1, FramesAreBars
    <3> QED BY <3>2, <1>1, <1>3, FramesAreBars
  <2> HIDE DEF kept
  <2>4. CASE Return(w, job[w].existing, job[w].count, memory.frame) \/ Raise(w)
    <3>1. memory.frame \in Frames
      BY <1>1
    <3>2. holder' \subseteq Workers /\ job' \in [Workers -> Jobs] /\ answer' \in Answers
      BY <2>4, <3>1, <1>3, EndsTyped
    <3> QED BY <3>2, <2>1, <1>1, <1>2
  <2>5. CASE /\ job' = [job EXCEPT ![w].pc = "csv_write", ![w].frame = job[w].existing \union kept]
             /\ UNCHANGED <<holder, answer>>
    <3>1. "csv_write" \in Pcs
      BY DEF Pcs
    <3>2. job' \in [Workers -> Jobs]
      BY <2>3, <2>5, <3>1, <1>1, GoesOnTyped
    <3> QED BY <2>1, <2>5, <3>2, <1>1, <1>2
  <2> QED BY <2>2, <2>4, <2>5 DEF kept
<1>14. ASSUME NEW w \in Workers, SaveCsv(w)
       PROVE  TypeOK'
  <2>1. "meta_write" \in Pcs
    BY DEF Pcs
  <2>2. job' \in [Workers -> Jobs]
    BY <2>1, <1>1, <1>14, GoesOnTyped DEF SaveCsv
  <2> QED BY <2>2, <1>1, <1>2, <1>3, <1>14 DEF SaveCsv
<1>15. ASSUME NEW w \in Workers, SaveMeta(w)
       PROVE  TypeOK'
  <2>1. job[w].frame # {} /\ job[w].frame \in Frames
    BY <1>3, <1>15 DEF SaveMeta, Filled
  <2>2. Cardinality(job[w].frame) \in Nat /\ Newest(job[w].frame) \in 0 .. Bars
    <3>1. Cardinality(job[w].frame) \in Nat /\ Newest(job[w].frame) \in 1 .. Bars
      BY <2>1, <1>1, FrameMeasured
    <3> QED BY <3>1, BarsType
  <2>3. /\ meta' = [count |-> Cardinality(job[w].frame), last |-> Newest(job[w].frame)] \/ meta' = meta
        /\ memory' = [frame |-> job[w].frame, count |-> Cardinality(job[w].frame)]
        /\ faults' = faults \/ faults' = faults + 1
        /\ UNCHANGED <<now, closed, csv>>
        /\ Return(w, job[w].frame, job[w].count, memory.frame)
    BY <1>15 DEF SaveMeta
  <2>4. holder' \subseteq Workers /\ job' \in [Workers -> Jobs] /\ answer' \in Answers
    <3>1. memory.frame \in Frames
      BY <1>1
    <3> QED BY <2>1, <2>3, <3>1, <1>3, EndsTyped
  <2>5. meta' \in [count : Nat, last : 0 .. Bars] /\ memory' \in [frame : Frames, count : Nat] /\ faults' \in Nat
    BY <2>1, <2>2, <2>3, <1>1
  <2> QED BY <2>3, <2>4, <2>5, <1>1, <1>2
<1>16. ASSUME NEW w \in Workers, Fail(w)
       PROVE  TypeOK'
  <2>1. holder' \subseteq Workers /\ job' \in [Workers -> Jobs] /\ answer' \in Answers
    BY <1>1, <1>3, <1>16, EndsTyped DEF Fail
  <2> QED BY <2>1, <1>1, <1>2, <1>16 DEF Fail
<1>17. CASE UNCHANGED vars
  BY <1>1, <1>2, <1>17 DEF vars
<1> QED BY <1>5, <1>6, <1>7, <1>8, <1>9, <1>10, <1>11, <1>12, <1>13, <1>14, <1>15, <1>16, <1>17
       DEF Next, RequestStep

-----------------------------------------------------------------------------
(* The inductive invariant                                                 *)

(* Candles of f were over, on the local clock, when they were kept.        *)
Past(f) == \A b \in f : BarStart[b] + Delta <= now

(* The state lock admits one request at a time (runtime.py:48).            *)
Locking == \A w \in Workers : job[w].pc # "idle" => holder = {w}

(* What is on disk is a window of closed candles, and the record ends      *)
(* within it.                                                              *)
FileSound ==
    /\ Window!Contiguous(csv) /\ Past(csv)
    /\ meta # NoMeta => \E c \in csv : meta.last <= c

(* An entry of memory is the file, but while a request is between its two  *)
(* writes.                                                                 *)
MemorySound ==
    memory # NoEntry =>
        memory.frame = csv \/ \E w \in Workers : job[w].pc = "meta_write"

(* What a request may rely on at each of its steps: memory is empty when   *)
(* it turns to the file; it appends to what is on disk; what it is about   *)
(* to write is a later window of closed candles; what it has written is    *)
(* what it puts into memory.                                               *)
JobSound(w) ==
    /\ job[w].pc = "csv" => memory = NoEntry
    /\ job[w].pc = "replace" => memory # NoEntry \/ csv = {}
    /\ job[w].pc = "append" =>
          /\ memory # NoEntry /\ job[w].existing = csv
          /\ job[w].since = BarStart[Newest(csv)] + Delta
    /\ job[w].pc = "csv_write" =>
          /\ Window!Contiguous(job[w].frame) /\ Past(job[w].frame)
          /\ Window!ReachesAsFar(job[w].frame, csv)
          /\ memory # NoEntry \/ csv = {}
    /\ job[w].pc = "meta_write" =>
          /\ job[w].frame = csv
          /\ Window!ReachesAsFar(csv, memory.frame)

CacheInv ==
    /\ Locking /\ FileSound /\ MemorySound /\ NeverServedOlder
    /\ \A w \in Workers : JobSound(w)

(* The counts, which the order of the writes alone does not settle: a      *)
(* replacement is asked for only when it will be at least as long as what  *)
(* it replaces.                                                            *)
CountsSound ==
    /\ \A b \in 1 .. closed : BarStart[b + 1] <= now + ClockLag
    /\ NotAbove(meta.count, Cardinality(csv)) /\ NotAbove(memory.count, Cardinality(csv))
    /\ memory # NoEntry => NotAbove(meta.count, memory.count)
    /\ \A w \in Workers :
          /\ job[w].pc # "idle" => job[w].count \in Counts
          /\ job[w].pc = "replace" => memory = NoEntry \/ memory.count < job[w].count
          /\ job[w].pc = "csv_write" =>
                NotAbove(meta.count, Cardinality(job[w].frame)) /\ NotAbove(memory.count, Cardinality(job[w].frame))

-----------------------------------------------------------------------------
(* What a fetch makes of a window                                          *)

(* The clock's rule keeps the older end of a set of bars.                  *)
LEMMA TrimIsOlderEnd ==
    ASSUME now \in Nat, NEW f, f \subseteq 1 .. Bars,
           NEW x \in TrimToClosed(f), NEW y \in f, y <= x
    PROVE  y \in TrimToClosed(f)
<1>1. x \in 1 .. Bars + 1 /\ y \in 1 .. Bars + 1 /\ BarStart[x] + Delta <= now
  BY BarsType DEF TrimToClosed
<1>2. BarStart[y] <= BarStart[x]
  <2>1. y = x \/ y < x
    BY <1>1
  <2>2. BarStart[x] \in Nat /\ (y = x => BarStart[y] = BarStart[x])
    BY <1>1, BarsType
  <2>3. y < x => BarStart[y] < BarStart[x] /\ BarStart[y] \in Nat
    BY <1>1, BarsType, BarsInOrder
  <2> QED BY <2>1, <2>2, <2>3
<1>3. BarStart[x] \in Nat /\ BarStart[y] \in Nat /\ Delta \in Nat
  BY <1>1, BarsType, PolicyType
<1> QED BY <1>1, <1>2, <1>3 DEF TrimToClosed

(* Whatever the broker sends is bars, and what it sends as complete is not *)
(* newer than its last closed bar.                                         *)
LEMMA SentAreBars ==
    ASSUME closed \in 0 .. Bars, NEW forming \in Forming
    PROVE  /\ Complete \union forming \subseteq 1 .. Bars
           /\ Complete \union forming \subseteq 1 .. Bars + 1
           /\ \A b \in forming : b = closed + 1
<1>1. Complete \subseteq Traded
  BY DEF Complete
<1>2. forming \subseteq {b \in Traded : b = closed + 1 /\ BarStart[b] <= now + ClockLag}
  BY DEF Forming
<1>3. forming \subseteq Traded /\ \A b \in forming : b = closed + 1
  BY <1>2
<1>4. 1 .. Bars \subseteq 1 .. Bars + 1
  BY BarsType
<1> QED BY <1>1, <1>3, <1>4, TradedType

(* A replacement is a window of closed candles that reaches as far as any  *)
(* window that was closed before.                                          *)
LEMMA ReplacementIsWindow ==
    ASSUME TypeOK, NEW n \in Nat, NEW forming \in Forming, NEW kept, kept # {},
           kept = TrimToClosed(LatestPayload(n, Complete \union forming) \intersect Complete),
           NEW f \in Frames, Past(f)
    PROVE  Window!Contiguous(kept) /\ Past(kept) /\ Window!ReachesAsFar(kept, f)
<1> DEFINE sent == Complete \union forming
           m == IF n + 1 <= MaxCount THEN n + 1 ELSE MaxCount
<1>1. closed \in 0 .. Bars /\ now \in Nat /\ m \in Nat /\ sent \subseteq 1 .. Bars /\ sent \subseteq 1 .. Bars + 1
  BY CountsType, SentAreBars DEF TypeOK
<1>2. LatestPayload(n, sent) = Tail(sent, m)
  BY DEF LatestPayload
<1> HIDE DEF m
<1>3. \A b : b \in kept <=> b \in Tail(sent, m) /\ b \in Complete /\ BarStart[b] + Delta <= now
  BY <1>2 DEF TrimToClosed
<1>4. ASSUME NEW lo \in kept, NEW b \in Complete, lo <= b, BarStart[b] + Delta <= now
      PROVE  b \in kept
  <2>1. lo \in Tail(sent, m) /\ b \in sent
    BY <1>3, <1>4
  <2> HIDE DEF sent
  <2>2. b \in Tail(sent, m)
    BY <2>1, <1>1, <1>4, TailIsNewerEnd
  <2> QED BY <2>2, <1>3, <1>4
<1>5. Past(kept)
  BY <1>3 DEF Past
<1>6. Window!Contiguous(kept)
  <2>1. SUFFICES ASSUME NEW lo \in kept, NEW hi \in kept, NEW b \in Traded, lo <= b, b <= hi
                 PROVE  b \in kept
    BY DEF Window!Contiguous
  <2>2. hi \in Complete /\ b \in Complete /\ Complete \subseteq 1 .. Bars
    <3>1. hi \in Complete /\ hi <= closed /\ hi \in 1 .. Bars /\ b \in 1 .. Bars
      BY <1>3, TradedType DEF Complete
    <3> QED BY <3>1, <2>1, <1>1, TradedType DEF Complete
  <2>3. hi \in TrimToClosed(Complete)
    BY <2>2, <1>3 DEF TrimToClosed
  <2>4. b \in TrimToClosed(Complete)
    BY <2>1, <2>2, <2>3, <1>1, TrimIsOlderEnd
  <2> QED BY <2>1, <2>2, <2>4, <1>4 DEF TrimToClosed
<1>7. Window!ReachesAsFar(kept, f)
  <2>1. SUFFICES ASSUME NEW b \in f PROVE \E c \in kept : b <= c
    BY DEF Window!ReachesAsFar
  <2>2. PICK x \in kept : TRUE
    OBVIOUS
  <2>3. x \in 1 .. Bars /\ b \in 1 .. Bars /\ b \in Complete
    BY <1>1, <1>3, TradedType DEF Complete, Frames
  <2>4. b <= x \/ x <= b
    BY <2>3
  <2>5. x <= b => b \in kept
    BY <2>3, <1>4 DEF Past
  <2> QED BY <2>2, <2>3, <2>4, <2>5
<1> QED BY <1>5, <1>6, <1>7

(* Two bars outlast the nominal duration: asking for what ends after the   *)
(* newest bar's nominal end overlooks no bar, and repeats at most that one.*)
LEMMA SinceOverlooksNothing ==
    ASSUME NEW e \in 1 .. Bars, NEW b \in 1 .. Bars
    PROVE  /\ e < b => BarStart[e] + Delta < BarStart[b + 1]
           /\ BarStart[e] + Delta < BarStart[b + 1] => e <= b
<1>1. /\ e \in Int /\ b \in Int /\ Bars \in Int /\ Delta \in Nat
      /\ e + 2 \in Int /\ BarStart[e] \in Nat /\ BarStart[b + 1] \in Nat /\ b + 1 \in 1 .. Bars + 1
      /\ e \in 1 .. Bars + 1
  BY BarsType, PolicyType
<1>2. CASE e < b
  <2>1. e \in 1 .. Bars - 1 /\ e + 2 \in 1 .. Bars + 1
    BY <1>1, <1>2
  <2>2. BarStart[e] + Delta < BarStart[e + 2] /\ BarStart[e + 2] \in Nat
    BY <2>1, TwoBarsOutlastDelta, BarsType
  <2>3. e + 2 = b + 1 \/ e + 2 < b + 1
    BY <1>1, <1>2
  <2>4. BarStart[e + 2] <= BarStart[b + 1]
    BY <2>1, <2>2, <2>3, <1>1, BarsInOrder
  <2> QED BY <2>2, <2>4, <1>1, <1>2
<1>3. CASE ~(e < b)
  <2>1. b = e \/ b < e
    BY <1>1, <1>3
  <2>2. b < e => b + 1 = e \/ b + 1 < e
    BY <1>1
  <2>3. b < e => BarStart[b + 1] <= BarStart[e]
    BY <2>2, <1>1, BarsInOrder
  <2> QED BY <2>1, <2>3, <1>1, <1>3
<1> QED BY <1>2, <1>3

(* Appending continues the window without a gap.                           *)
LEMMA AppendIsWindow ==
    ASSUME TypeOK, NEW forming \in Forming, NEW kept, NEW f \in Frames, f # {},
           Window!Contiguous(f), Past(f),
           kept = TrimToClosed(SincePayload(BarStart[Newest(f)] + Delta, Complete \union forming)
                               \intersect Complete)
    PROVE  Window!Contiguous(f \union kept) /\ Past(f \union kept) /\ Window!ReachesAsFar(f \union kept, f)
<1> DEFINE sent == Complete \union forming
           e == Newest(f)
           later == {b \in sent : BarStart[e] + Delta < BarStart[b + 1]}
<1>1. /\ closed \in 0 .. Bars /\ now \in Nat /\ PageSize \in Nat /\ sent \subseteq 1 .. Bars
      /\ f \subseteq 1 .. Bars /\ later \subseteq 1 .. Bars + 1 /\ Complete \subseteq 1 .. Bars
  BY CountsType, SentAreBars, FramesAreBars DEF TypeOK
<1>2. e \in f /\ e \in 1 .. Bars /\ \A b \in f : b <= e
  BY <1>1, NewestBar
<1>3. SincePayload(BarStart[e] + Delta, sent) = FirstPage(later, PageSize)
  BY DEF SincePayload
<1>4. \A b : b \in kept <=> b \in FirstPage(later, PageSize) /\ b \in Complete /\ BarStart[b] + Delta <= now
  BY <1>3 DEF TrimToClosed
<1> HIDE DEF e
<1>5. ASSUME NEW hi \in kept, NEW b \in Complete, e < b, b <= hi
      PROVE  b \in kept
  <2>1. hi \in FirstPage(later, PageSize) /\ hi \in Complete
    BY <1>4
  <2>2. b \in later
    BY <1>1, <1>2, <1>5, SinceOverlooksNothing
  <2>3. b \in FirstPage(later, PageSize)
    <3> HIDE DEF later
    <3> QED BY <2>1, <2>2, <1>1, <1>5, PageIsOlderEnd
  <2>4. hi \in TrimToClosed(Complete)
    BY <2>1, <1>4 DEF TrimToClosed
  <2>5. b \in TrimToClosed(Complete)
    BY <2>4, <1>1, <1>5, TrimIsOlderEnd
  <2> QED BY <2>3, <2>5, <1>4 DEF TrimToClosed
<1>6. \A b \in kept : b \in 1 .. Bars /\ b \in Complete /\ e <= b
  <2>1. \A b \in kept : b \in later /\ b \in 1 .. Bars
    BY <1>1, <1>4 DEF FirstPage
  <2> QED BY <2>1, <1>2, <1>4, SinceOverlooksNothing
<1>7. Past(f \union kept)
  BY <1>4 DEF Past
<1>8. Window!ReachesAsFar(f \union kept, f)
  BY <1>1 DEF Window!ReachesAsFar
<1>9. Window!Contiguous(f \union kept)
  <2>1. SUFFICES ASSUME NEW lo \in f \union kept, NEW hi \in f \union kept, NEW b \in Traded,
                        lo <= b, b <= hi
                 PROVE  b \in f \union kept
    BY DEF Window!Contiguous
  <2>2. lo \in 1 .. Bars /\ hi \in 1 .. Bars /\ b \in 1 .. Bars /\ e \in 1 .. Bars
    BY <1>1, <1>2, <1>6, TradedType
  <2>3. CASE b <= e
    <3>1. lo \in f \/ lo = b
      <4>1. lo \in kept => e <= lo
        BY <1>6
      <4>2. lo \in Int /\ b \in Int /\ e \in Int
        BY <2>2
      <4> QED BY <4>1, <4>2, <2>1, <2>3
    <3>2. lo \in f => b \in f
      BY <3>1, <2>1, <2>3, <1>2 DEF Window!Contiguous
    <3>3. lo = b => b \in f \union kept
      BY <2>1
    <3> QED BY <3>1, <3>2, <3>3
  <2>4. CASE e < b
    <3>1. hi \in kept
      BY <2>1, <2>2, <2>4, <1>2
    <3>2. b \in Complete
      <4>1. hi <= closed /\ hi \in Int /\ b \in Int
        BY <3>1, <2>2, <1>6 DEF Complete
      <4> QED BY <4>1, <2>1, <1>1 DEF Complete
    <3> QED BY <3>1, <3>2, <2>1, <2>4, <1>5
  <2> QED BY <2>2, <2>3, <2>4
<1> QED BY <1>7, <1>8, <1>9

-----------------------------------------------------------------------------
(* The invariant is inductive                                              *)

Inv == TypeOK /\ Filled /\ CacheInv

(* While one request is at work every other is idle.                       *)
LEMMA OthersIdle ==
    ASSUME Locking, NEW w \in Workers, job[w].pc # "idle"
    PROVE  holder = {w} /\ \A v \in Workers \ {w} : job[v].pc = "idle"
BY DEF Locking

(* A set of bars reaches as far as itself and, if not empty, as nothing.   *)
LEMMA ReachesItself ==
    ASSUME NEW f, f \subseteq 1 .. Bars
    PROVE  Window!ReachesAsFar(f, f) /\ Window!ReachesAsFar(f, {})
<1>1. \A b \in f : b <= b
  BY BarsType
<1> QED BY <1>1 DEF Window!ReachesAsFar

(* An answer is no older than what it is compared with.                    *)
LEMMA ServeSound ==
    ASSUME closed \in 0 .. Bars, NEW w \in Workers, NEW f \in Frames, NEW n \in Nat, NEW seen \in Frames,
           Window!ReachesAsFar(f, seen), Return(w, f, n, seen)
    PROVE  NeverServedOlder'
<1>1. answer'.frame = Tail(f, n) /\ answer'.seen = seen
  BY DEF Return
<1>2. Tail(f, n) # {} => Window!ReachesAsFar(Tail(f, n), seen)
  BY FramesAreBars, ServedReachesAsFar
<1> QED BY <1>1, <1>2 DEF NeverServedOlder

(* When the request that holds the lock ends, all are idle.                *)
LEMMA EndSound ==
    ASSUME TypeOK, Locking, NEW w \in Workers, job[w].pc # "idle",
           job' = [job EXCEPT ![w] = Idle], holder' = holder \ {w}
    PROVE  Locking' /\ \A v \in Workers : job'[v].pc = "idle" /\ JobSound(v)'
<1>1. \A v \in Workers : job'[v].pc = "idle"
  BY OthersIdle DEF TypeOK, Idle
<1> QED BY <1>1 DEF Locking, JobSound

(* When it goes on, it alone matters.                                      *)
LEMMA GoesOnSound ==
    ASSUME TypeOK, Locking, NEW w \in Workers, job[w].pc # "idle", NEW j,
           job' = [job EXCEPT ![w] = j], holder' = holder
    PROVE  /\ Locking' /\ job'[w] = j
           /\ \A v \in Workers \ {w} : job'[v].pc = "idle" /\ JobSound(v)'
<1>1. job'[w] = j /\ \A v \in Workers \ {w} : job'[v].pc = "idle"
  BY OthersIdle DEF TypeOK
<1>2. \A v \in Workers : job'[v].pc # "idle" => v = w
  BY <1>1
<1>3. Locking'
  BY <1>2, OthersIdle DEF Locking
<1> QED BY <1>1, <1>3 DEF JobSound

(* A window that was past stays so.                                        *)
LEMMA FileStays ==
    ASSUME TypeOK, FileSound, UNCHANGED <<csv, meta>>, now' = now \/ now' = now + 1
    PROVE  FileSound' /\ \A f \in Frames : Past(f) => Past(f)'
<1>1. \A f \in Frames : Past(f) => Past(f)'
  <2>1. ASSUME NEW f \in Frames, Past(f), NEW b \in f PROVE BarStart[b] + Delta <= now'
    <3>1. b \in 1 .. Bars /\ BarStart[b] \in Nat /\ Delta \in Nat /\ now \in Nat
      BY TradedType, BarsType, PolicyType DEF Frames, TypeOK
    <3> QED BY <3>1, <2>1 DEF Past
  <2> QED BY <2>1 DEF Past
<1>2. csv \in Frames /\ csv' = csv /\ meta' = meta
  BY DEF TypeOK
<1>3. Past(csv)'
  <2>1. Past(csv) => \A b \in csv : BarStart[b] + Delta <= now'
    BY <1>1, <1>2 DEF Past
  <2> QED BY <2>1, <1>2 DEF Past, FileSound
<1>4. FileSound'
  BY <1>2, <1>3 DEF FileSound
<1> QED BY <1>1, <1>4

(* Memory is the file unless a request is between its writes.              *)
LEMMA MemoryIsFile ==
    ASSUME MemorySound, memory # NoEntry, \A v \in Workers : job[v].pc # "meta_write"
    PROVE  memory.frame = csv
BY DEF MemorySound

LEMMA InitInv == Init => Inv
<1> SUFFICES ASSUME Init PROVE Inv
  OBVIOUS
<1>1. TypeOK /\ Filled
  BY TypeInit
<1>2. \A w \in Workers : job[w].pc = "idle"
  BY DEF Init, Idle
<1>3. Locking /\ \A w \in Workers : JobSound(w)
  BY <1>2 DEF Locking, JobSound
<1>4. FileSound /\ MemorySound /\ NeverServedOlder
  BY DEF Init, FileSound, MemorySound, NeverServedOlder, NoAnswer, Window!Contiguous, Past
<1> QED BY <1>1, <1>3, <1>4 DEF Inv, CacheInv

(* What an entry found in memory or in the file leads to.  An entry is the *)
(* file.                                                                   *)
LEMMA ResolveSound ==
    ASSUME Inv, NEW w \in Workers, NEW n \in Nat, NEW entry, entry.frame = csv, csv # {},
           job[w].pc \in {"lookup", "csv"}, memory # NoEntry => memory.frame = csv,
           Resolve(w, n, entry), csv' = csv, memory' # NoEntry
    PROVE  /\ Locking' /\ NeverServedOlder' /\ \A v \in Workers : JobSound(v)'
           /\ \A v \in Workers : job'[v].pc \notin {"csv_write", "meta_write"}
<1>1. TypeOK /\ Locking /\ csv \in Frames /\ memory.frame \in Frames /\ csv \subseteq 1 .. Bars
      /\ closed \in 0 .. Bars /\ NeverServedOlder
  BY FramesAreBars DEF Inv, TypeOK, CacheInv
<1>2. CASE Return(w, entry.frame, n, memory.frame)
  <2>1. Window!ReachesAsFar(csv, memory.frame)
    <3>1. memory.frame = csv \/ memory.frame = {}
      BY DEF NoEntry
    <3> QED BY <3>1, <1>1, ReachesItself
  <2>2. NeverServedOlder'
    BY <2>1, <1>1, <1>2, ServeSound
  <2>3. Locking' /\ \A v \in Workers : job'[v].pc = "idle" /\ JobSound(v)'
    BY <1>1, <1>2, EndSound DEF Return
  <2> QED BY <2>2, <2>3
<1>3. CASE (FetchAll(w, n) \/ FetchSince(w, n, csv)) /\ UNCHANGED <<holder, answer>>
  <2>1. NeverServedOlder'
    BY <1>1, <1>3 DEF NeverServedOlder
  <2>2. PICK j : /\ job' = [job EXCEPT ![w] = j]
                 /\ \/ j.pc = "replace"
                    \/ j.pc = "append" /\ j.existing = csv /\ j.since = BarStart[Newest(csv)] + Delta
    <3>1. CASE FetchAll(w, n)
      <4> DEFINE j == [Idle EXCEPT !.pc = "replace", !.count = n]
      <4>1. job' = [job EXCEPT ![w] = j] /\ j.pc = "replace"
        BY <3>1 DEF FetchAll, Idle
      <4> QED BY <4>1
    <3>2. CASE FetchSince(w, n, csv)
      <4> DEFINE j == [Idle EXCEPT !.pc = "append", !.count = n, !.existing = csv,
                                   !.since = BarStart[Newest(csv)] + Delta]
      <4>1. job' = [job EXCEPT ![w] = j]
        BY <3>2 DEF FetchSince
      <4>2. j.pc = "append" /\ j.existing = csv /\ j.since = BarStart[Newest(csv)] + Delta
        BY DEF Idle
      <4> QED BY <4>1, <4>2
    <3> QED BY <3>1, <3>2, <1>3
  <2>3. /\ Locking' /\ job'[w] = j
        /\ \A v \in Workers \ {w} : job'[v].pc = "idle" /\ JobSound(v)'
    BY <2>2, <1>1, <1>3, GoesOnSound
  <2>4. JobSound(w)'
    BY <2>2, <2>3 DEF JobSound
  <2> QED BY <2>1, <2>2, <2>3, <2>4
<1> QED BY <1>2, <1>3 DEF Resolve

LEMMA InvInductive == Inv /\ [Next]_vars => Inv'
<1> SUFFICES ASSUME Inv, [Next]_vars PROVE Inv'
  OBVIOUS
<1>1. /\ TypeOK /\ Filled /\ Locking /\ FileSound /\ MemorySound /\ NeverServedOlder
      /\ \A w \in Workers : JobSound(w)
      /\ closed \in 0 .. Bars /\ now \in Nat /\ csv \in Frames /\ csv \subseteq 1 .. Bars
      /\ memory.frame \in Frames /\ {} \in Frames
  BY FramesAreBars DEF Inv, CacheInv, TypeOK
<1>2. \A w \in Workers : job[w].count \in Nat /\ job[w].frame \in Frames
  BY <1>1 DEF TypeOK
<1>3. TypeOK'
  BY <1>1, TypeInductive
<1> SUFFICES Filled' /\ CacheInv'
  BY <1>3 DEF Inv
<1>4. ASSUME NEW w \in Workers, Raise(w), job[w].pc \notin {"idle", "meta_write"},
             UNCHANGED <<now, csv, meta, memory>>
      PROVE  Filled' /\ CacheInv'
  <2>1. Locking' /\ \A v \in Workers : job'[v].pc = "idle" /\ JobSound(v)'
    BY <1>1, <1>4, EndSound DEF Raise
  <2>2. FileSound'
    BY <1>1, <1>4, FileStays
  <2>3. \A v \in Workers : job[v].pc # "meta_write"
    BY <1>1, <1>4, OthersIdle
  <2>4. MemorySound'
    BY <2>3, <1>1, <1>4 DEF MemorySound
  <2>5. NeverServedOlder'
    BY <1>4 DEF Raise, NeverServedOlder, NoAnswer
  <2>6. Filled'
    BY <2>1, <1>1, <1>4 DEF Filled
  <2> QED BY <2>1, <2>2, <2>4, <2>5, <2>6 DEF CacheInv
<1>5. ASSUME now' = now \/ now' = now + 1, UNCHANGED <<csv, meta, memory, holder, job, answer>>
      PROVE  Filled' /\ CacheInv'
  <2>1. FileSound' /\ \A f \in Frames : Past(f) => Past(f)'
    BY <1>1, <1>5, FileStays
  <2>2. ASSUME NEW v \in Workers PROVE JobSound(v)'
    <3>1. JobSound(v) /\ job[v].frame \in Frames /\ job'[v] = job[v] /\ csv' = csv /\ memory' = memory
      BY <1>1, <1>2, <1>5
    <3>2. job[v].pc = "csv_write" => Past(job[v].frame)'
      <4>1. job[v].pc = "csv_write" => Past(job[v].frame)
        BY <3>1 DEF JobSound
      <4>2. ASSUME Past(job[v].frame), NEW b \in job[v].frame PROVE BarStart[b] + Delta <= now'
        BY <4>2, <3>1, <2>1 DEF Past
      <4> QED BY <4>1, <4>2, <3>1 DEF Past
    <3> QED BY <3>1, <3>2 DEF JobSound, Past
  <2>3. Locking' /\ MemorySound' /\ NeverServedOlder' /\ Filled'
    BY <1>1, <1>5 DEF Locking, MemorySound, NeverServedOlder, Filled
  <2> QED BY <2>1, <2>2, <2>3 DEF CacheInv
<1>6. CASE Crash
  <2>1. \A v \in Workers : job'[v].pc = "idle"
    BY <1>6 DEF Crash, Idle
  <2>2. FileSound'
    BY <1>1, <1>6, FileStays DEF Crash
  <2> QED BY <2>1, <2>2, <1>6
          DEF Crash, CacheInv, Locking, JobSound, MemorySound, NeverServedOlder, NoAnswer, Filled, NoEntry
<1>7. ASSUME NEW w \in Workers, NEW n \in Counts, GetCandles(w, n)
      PROVE  Filled' /\ CacheInv'
  <2>1. \A v \in Workers : job[v].pc = "idle"
    BY <1>1, <1>7 DEF GetCandles, Locking
  <2>2. \A v \in Workers : job'[v].pc # "idle" => v = w /\ job'[v].pc = "lookup"
    BY <2>1, <1>1, <1>7 DEF GetCandles, TypeOK, Idle
  <2>3. Locking' /\ \A v \in Workers : JobSound(v)'
    BY <2>2, <1>7 DEF GetCandles, Locking, JobSound
  <2>4. FileSound'
    BY <1>1, <1>7, FileStays DEF GetCandles
  <2>5. MemorySound' /\ NeverServedOlder' /\ Filled'
    BY <2>1, <2>2, <1>1, <1>7 DEF GetCandles, MemorySound, NeverServedOlder, Filled
  <2> QED BY <2>3, <2>4, <2>5 DEF CacheInv
<1>8. ASSUME NEW w \in Workers, NEW n \in Counts, GetCached(w, n)
      PROVE  Filled' /\ CacheInv'
  <2>1. \A v \in Workers : job[v].pc = "idle"
    BY <1>1, <1>8 DEF GetCached, Locking
  <2>2. Locking' /\ \A v \in Workers : JobSound(v)'
    BY <2>1, <1>8 DEF GetCached, Locking, JobSound
  <2>3. FileSound'
    BY <1>1, <1>8, FileStays DEF GetCached
  <2>4. MemorySound' /\ Filled'
    <3>1. memory' = memory \/ (memory'.frame = csv /\ csv # {})
      BY <1>8 DEF GetCached, CsvEntry
    <3>2. memory # NoEntry => memory.frame = csv
      BY <2>1, <1>1, MemoryIsFile
    <3> QED BY <3>1, <3>2, <2>1, <1>1, <1>8 DEF GetCached, MemorySound, Filled
  <2>5. NeverServedOlder'
    <3>1. n \in Nat /\ memory.frame \subseteq 1 .. Bars
      <4>1. n \in Nat
        BY CountsType
      <4> QED BY <4>1, <1>1, FramesAreBars
    <3>2. \/ answer'.frame = Tail(memory.frame, n) /\ answer'.seen = memory.frame
          \/ answer'.seen = {}
      BY <1>8 DEF GetCached
    <3>3. Tail(memory.frame, n) # {} => Window!ReachesAsFar(Tail(memory.frame, n), memory.frame)
      BY <3>1, ReachesItself, ServedReachesAsFar
    <3> QED BY <3>2, <3>3 DEF NeverServedOlder, Window!ReachesAsFar
  <2> QED BY <2>2, <2>3, <2>4, <2>5 DEF CacheInv
<1>9. ASSUME NEW w \in Workers, LookupMemory(w)
      PROVE  Filled' /\ CacheInv'
  <2>1. job[w].pc = "lookup" /\ UNCHANGED <<now, closed, csv, meta, memory>>
    BY <1>9 DEF LookupMemory
  <2>2. \A v \in Workers : job[v].pc # "meta_write"
    BY <2>1, <1>1, OthersIdle
  <2>3. FileSound' /\ (memory' # NoEntry => memory'.frame = csv' /\ csv' # {})
    BY <2>1, <2>2, <1>1, MemoryIsFile, FileStays DEF Filled
  <2>4. /\ Locking' /\ NeverServedOlder' /\ \A v \in Workers : JobSound(v)'
        /\ \A v \in Workers : job'[v].pc \notin {"csv_write", "meta_write"}
    <3>1. CASE memory # NoEntry
      <4>1. Resolve(w, job[w].count, memory) /\ memory.frame = csv /\ csv # {}
        BY <2>1, <2>3, <3>1, <1>9 DEF LookupMemory
      <4> QED BY <4>1, <2>1, <3>1, <1>2, ResolveSound
    <3>2. CASE memory = NoEntry
      <4> DEFINE j == [job[w] EXCEPT !.pc = "csv"]
      <4>1. job' = [job EXCEPT ![w] = j] /\ holder' = holder /\ answer' = answer
        BY <3>2, <1>9 DEF LookupMemory
      <4>2. j.pc = "csv"
        BY <1>1 DEF TypeOK
      <4> HIDE DEF j
      <4>3. Locking' /\ job'[w] = j /\ \A v \in Workers \ {w} : job'[v].pc = "idle" /\ JobSound(v)'
        BY <4>1, <2>1, <1>1, GoesOnSound
      <4>4. JobSound(w)'
        BY <4>2, <4>3, <2>1, <3>2 DEF JobSound
      <4>5. NeverServedOlder'
        BY <4>1, <1>1 DEF NeverServedOlder
      <4> QED BY <4>2, <4>3, <4>4, <4>5
    <3> QED BY <3>1, <3>2
  <2> QED BY <2>3, <2>4 DEF CacheInv, MemorySound, Filled
<1>10. ASSUME NEW w \in Workers, LookupCsv(w)
       PROVE  Filled' /\ CacheInv'
  <2>1. job[w].pc = "csv" /\ UNCHANGED <<now, closed, csv>> /\ memory = NoEntry
    BY <1>1, <1>10 DEF LookupCsv, JobSound
  <2>2. CASE csv = {}
    <3>1. FetchAll(w, job[w].count) /\ UNCHANGED <<meta, memory, holder, answer>>
      BY <2>2, <1>10 DEF LookupCsv
    <3> DEFINE j == [Idle EXCEPT !.pc = "replace", !.count = job[w].count]
    <3>2. job' = [job EXCEPT ![w] = j] /\ j.pc = "replace"
      BY <3>1 DEF FetchAll, Idle
    <3> HIDE DEF j
    <3>3. Locking' /\ job'[w] = j /\ \A v \in Workers \ {w} : job'[v].pc = "idle" /\ JobSound(v)'
      BY <3>1, <3>2, <2>1, <1>1, GoesOnSound
    <3>4. JobSound(w)'
      BY <3>2, <3>3, <2>1, <2>2 DEF JobSound
    <3>5. FileSound' /\ NeverServedOlder' /\ MemorySound' /\ Filled'
      BY <3>1, <3>2, <3>3, <2>1, <1>1, FileStays DEF NeverServedOlder, MemorySound, Filled
    <3> QED BY <3>3, <3>4, <3>5 DEF CacheInv
  <2>3. CASE csv # {}
    <3>1. PICK m \in ReadMeta :
             meta' \in {meta, Bootstrap(m)} /\ memory' = CsvEntry(m) /\ Resolve(w, job[w].count, CsvEntry(m))
      BY <2>3, <1>10 DEF LookupCsv
    <3>2. CsvEntry(m).frame = csv /\ CsvEntry(m) # NoEntry
      BY <2>3 DEF CsvEntry, NoEntry
    <3>3. /\ Locking' /\ NeverServedOlder' /\ \A v \in Workers : JobSound(v)'
          /\ \A v \in Workers : job'[v].pc \notin {"csv_write", "meta_write"}
      BY <3>1, <3>2, <2>1, <2>3, <1>2, ResolveSound
    <3>4. meta' = meta \/ meta'.last = Newest(csv)
      BY <3>1 DEF Bootstrap
    <3>5. FileSound'
      <4>1. Newest(csv) \in csv /\ Newest(csv) <= Newest(csv)
        BY <2>3, <1>1, NewestBar
      <4> QED BY <4>1, <3>4, <2>1, <1>1 DEF FileSound, Past
    <3>6. MemorySound' /\ Filled'
      BY <3>1, <3>2, <3>3, <2>1, <2>3 DEF MemorySound, Filled
    <3> QED BY <3>3, <3>5, <3>6 DEF CacheInv
  <2> QED BY <2>2, <2>3
<1>11. ASSUME NEW w \in Workers, NEW f \in Frames, f # {}, job[w].pc \in {"replace", "append"},
              Window!Contiguous(f), Past(f), Window!ReachesAsFar(f, csv), memory # NoEntry \/ csv = {},
              job' = [job EXCEPT ![w].pc = "csv_write", ![w].frame = f],
              UNCHANGED <<now, csv, meta, memory, holder, answer>>
       PROVE  Filled' /\ CacheInv'
  <2> DEFINE j == [job[w] EXCEPT !.pc = "csv_write", !.frame = f]
  <2>1. job' = [job EXCEPT ![w] = j] /\ j.pc = "csv_write" /\ j.frame = f
    BY <1>1, <1>11 DEF TypeOK
  <2> HIDE DEF j
  <2>2. Locking' /\ job'[w] = j /\ \A v \in Workers \ {w} : job'[v].pc = "idle" /\ JobSound(v)'
    BY <2>1, <1>1, <1>11, GoesOnSound
  <2>3. JobSound(w)'
    BY <2>1, <2>2, <1>11 DEF JobSound, Past
  <2>4. FileSound' /\ NeverServedOlder'
    BY <1>1, <1>11, FileStays DEF NeverServedOlder
  <2>5. \A v \in Workers : job[v].pc # "meta_write"
    BY <1>1, <1>11, OthersIdle
  <2>6. MemorySound' /\ Filled'
    BY <2>1, <2>2, <2>5, <1>1, <1>11 DEF MemorySound, Filled
  <2> QED BY <2>2, <2>3, <2>4, <2>6 DEF CacheInv
<1>12. ASSUME NEW w \in Workers, FetchReplacement(w)
       PROVE  Filled' /\ CacheInv'
  <2>1. job[w].pc = "replace" /\ UNCHANGED <<now, closed, csv, meta, memory, faults>>
    BY <1>12 DEF FetchReplacement
  <2>2. PICK forming \in Forming :
          LET kept == TrimToClosed(LatestPayload(job[w].count, Complete \union forming) \intersect Complete)
          IN  IF kept = {} THEN Raise(w)
              ELSE /\ job' = [job EXCEPT ![w].pc = "csv_write", ![w].frame = kept]
                   /\ UNCHANGED <<holder, answer>>
    BY <1>12 DEF FetchReplacement
  <2> DEFINE kept == TrimToClosed(LatestPayload(job[w].count, Complete \union forming) \intersect Complete)
  <2>3. kept \in Frames
    <3>1. kept \subseteq Complete
      BY DEF TrimToClosed
    <3> QED BY <3>1, <1>1, FramesAreBars
  <2>4. kept # {} => Window!Contiguous(kept) /\ Past(kept) /\ Window!ReachesAsFar(kept, csv)
    BY <1>1, <1>2, ReplacementIsWindow DEF FileSound
  <2>5. memory # NoEntry \/ csv = {}
    BY <2>1, <1>1 DEF JobSound
  <2> HIDE DEF kept
  <2>6. CASE kept = {}
    BY <2>1, <2>2, <2>6, <1>4 DEF kept
  <2>7. CASE kept # {}
    <3>1. job' = [job EXCEPT ![w].pc = "csv_write", ![w].frame = kept] /\ UNCHANGED <<holder, answer>>
      BY <2>2, <2>7 DEF kept
    <3> QED BY <3>1, <2>1, <2>3, <2>4, <2>5, <2>7, <1>11
  <2> QED BY <2>6, <2>7
<1>13. ASSUME NEW w \in Workers, FetchNewer(w)
       PROVE  Filled' /\ CacheInv'
  <2>1. job[w].pc = "append" /\ UNCHANGED <<now, closed, csv, meta, memory, faults>>
    BY <1>13 DEF FetchNewer
  <2>2. memory # NoEntry /\ job[w].existing = csv /\ job[w].since = BarStart[Newest(csv)] + Delta
    BY <2>1, <1>1 DEF JobSound
  <2>3. memory.frame = csv /\ csv # {}
    <3>1. \A v \in Workers : job[v].pc # "meta_write"
      BY <2>1, <1>1, OthersIdle
    <3> QED BY <3>1, <2>2, <1>1, MemoryIsFile DEF Filled
  <2>4. PICK forming \in Forming :
          LET kept == TrimToClosed(SincePayload(job[w].since, Complete \union forming) \intersect Complete)
          IN  \/ Return(w, job[w].existing, job[w].count, memory.frame)
              \/ Raise(w)
              \/ /\ job' = [job EXCEPT ![w].pc = "csv_write", ![w].frame = job[w].existing \union kept]
                 /\ UNCHANGED <<holder, answer>>
    BY <1>13 DEF FetchNewer
  <2> DEFINE kept == TrimToClosed(SincePayload(BarStart[Newest(csv)] + Delta, Complete \union forming)
                                  \intersect Complete)
  <2>5. csv \union kept \in Frames
    <3>1. kept \subseteq Complete
      BY DEF TrimToClosed
    <3> QED BY <3>1, <1>1, FramesAreBars
  <2>6. /\ Window!Contiguous(csv \union kept) /\ Past(csv \union kept)
        /\ Window!ReachesAsFar(csv \union kept, csv)
    BY <2>3, <1>1, AppendIsWindow DEF FileSound
  <2> HIDE DEF kept
  <2>7. CASE Return(w, csv, job[w].count, csv)
    <3>1. NeverServedOlder'
      BY <2>7, <1>1, <1>2, ReachesItself, ServeSound
    <3>2. Locking' /\ \A v \in Workers : job'[v].pc = "idle" /\ JobSound(v)'
      BY <2>1, <2>7, <1>1, EndSound DEF Return
    <3>3. FileSound'
      BY <2>1, <1>1, FileStays
    <3> QED BY <3>1, <3>2, <3>3, <2>1, <2>3 DEF CacheInv, MemorySound, Filled
  <2>8. CASE Raise(w)
    BY <2>1, <2>8, <1>4
  <2>9. CASE /\ job' = [job EXCEPT ![w].pc = "csv_write", ![w].frame = csv \union kept]
             /\ UNCHANGED <<holder, answer>>
    <3>1. csv \union kept # {}
      BY <2>3
    <3> QED BY <3>1, <2>1, <2>2, <2>5, <2>6, <2>9, <1>11
  <2> QED BY <2>2, <2>3, <2>4, <2>7, <2>8, <2>9 DEF kept
<1>14. ASSUME NEW w \in Workers, SaveCsv(w)
       PROVE  Filled' /\ CacheInv'
  <2>1. /\ job[w].pc = "csv_write" /\ csv' = job[w].frame
        /\ job' = [job EXCEPT ![w].pc = "meta_write"] /\ UNCHANGED <<now, meta, memory, holder, answer>>
    BY <1>14 DEF SaveCsv
  <2>2. /\ job[w].frame # {} /\ Window!Contiguous(job[w].frame) /\ Past(job[w].frame)
        /\ Window!ReachesAsFar(job[w].frame, csv)
    BY <2>1, <1>1 DEF JobSound, Filled
  <2> DEFINE j == [job[w] EXCEPT !.pc = "meta_write"]
  <2>3. job' = [job EXCEPT ![w] = j] /\ j.pc = "meta_write" /\ j.frame = job[w].frame
    BY <2>1, <1>1 DEF TypeOK
  <2> HIDE DEF j
  <2>4. Locking' /\ job'[w] = j /\ \A v \in Workers \ {w} : job'[v].pc = "idle" /\ JobSound(v)'
    BY <2>1, <2>3, <1>1, GoesOnSound
  <2>5. FileSound'
    <3>1. ASSUME NEW c \in csv, meta.last <= c PROVE \E d \in csv' : meta.last <= d
      <4>1. PICK d \in csv' : c <= d
        BY <2>1, <2>2 DEF Window!ReachesAsFar
      <4>2. c \in Int /\ d \in Int /\ meta.last \in Int
        <5>1. c \in 1 .. Bars /\ d \in 1 .. Bars /\ meta.last \in 0 .. Bars
          BY <2>1, <4>1, <1>1, <1>2, FramesAreBars DEF TypeOK
        <5> QED BY <5>1
      <4> QED BY <4>1, <4>2, <3>1
    <3> QED BY <3>1, <2>1, <2>2, <1>1 DEF FileSound, Past
  <2>6. Window!ReachesAsFar(csv', memory'.frame)
    <3>1. memory.frame = csv \/ memory.frame = {}
      <4>1. \A v \in Workers : job[v].pc # "meta_write"
        BY <2>1, <1>1, OthersIdle
      <4> QED BY <4>1, <1>1, MemoryIsFile DEF NoEntry
    <3> QED BY <3>1, <2>1, <2>2 DEF Window!ReachesAsFar
  <2>7. JobSound(w)'
    BY <2>1, <2>3, <2>4, <2>6 DEF JobSound
  <2>8. MemorySound' /\ NeverServedOlder' /\ Filled'
    BY <2>1, <2>2, <2>3, <2>4, <1>1 DEF MemorySound, NeverServedOlder, Filled
  <2> QED BY <2>4, <2>5, <2>7, <2>8 DEF CacheInv
<1>15. ASSUME NEW w \in Workers, SaveMeta(w)
       PROVE  Filled' /\ CacheInv'
  <2>1. /\ job[w].pc = "meta_write" /\ UNCHANGED <<now, csv>>
        /\ meta' = meta \/ meta'.last = Newest(job[w].frame)
        /\ memory'.frame = job[w].frame
        /\ Return(w, job[w].frame, job[w].count, memory.frame)
    BY <1>15 DEF SaveMeta
  <2>2. job[w].frame = csv /\ csv # {} /\ Window!ReachesAsFar(csv, memory.frame)
    BY <2>1, <1>1 DEF JobSound, Filled
  <2>3. NeverServedOlder'
    BY <2>1, <2>2, <1>1, <1>2, ServeSound
  <2>4. Locking' /\ \A v \in Workers : job'[v].pc = "idle" /\ JobSound(v)'
    BY <2>1, <1>1, EndSound DEF Return
  <2>5. FileSound'
    <3>1. Newest(csv) \in csv /\ Newest(csv) <= Newest(csv)
      BY <2>2, <1>1, NewestBar
    <3> QED BY <3>1, <2>1, <2>2, <1>1 DEF FileSound, Past
  <2>6. MemorySound' /\ Filled'
    BY <2>1, <2>2, <2>4 DEF MemorySound, Filled
  <2> QED BY <2>3, <2>4, <2>5, <2>6 DEF CacheInv
<1>16. ASSUME NEW w \in Workers, Fail(w)
       PROVE  Filled' /\ CacheInv'
  BY <1>4, <1>16 DEF Fail
<1>17. CASE Tick \/ BrokerCloses \/ UNCHANGED vars
  BY <1>5, <1>17 DEF Tick, BrokerCloses, vars
<1> QED BY <1>6, <1>7, <1>8, <1>9, <1>10, <1>12, <1>13, <1>14, <1>15, <1>16, <1>17 DEF Next, RequestStep

LEMMA InvAlways == Spec => []Inv
<1> QED BY InitInv, InvInductive, PTL DEF Spec

(* The clock, the bars the broker has closed, the file, its record, memory *)
(* and every request keep to their types: in particular every frame on     *)
(* disk, in memory or on its way holds closed candles only.                *)
THEOREM TypeCorrect == Spec => []TypeOK
<1>1. Inv => TypeOK
  BY DEF Inv
<1> QED BY <1>1, InvAlways, PTL

(* What a request is served never ends before what memory held when it was *)
(* answered, whoever refreshed in between (cache.py:94).                   *)
THEOREM NobodyIsServedOlder == Spec => []NeverServedOlder
<1>1. Inv => NeverServedOlder
  BY DEF Inv, CacheInv
<1> QED BY <1>1, InvAlways, PTL

-----------------------------------------------------------------------------
(* The file implements CandleWindow                                        *)

(* Every step is a step of CandleWindow or a stutter: only SaveCsv writes  *)
(* the file, and what it writes is a later window of closed candles.       *)
LEMMA WindowStep == Inv /\ [Next]_vars => [Window!Next]_<<closed, csv>>
<1> SUFFICES ASSUME Inv, [Next]_vars PROVE [Window!Next]_<<closed, csv>>
  OBVIOUS
<1>1. CASE UNCHANGED <<closed, csv>>
  BY <1>1
<1>2. CASE BrokerCloses
  BY <1>2 DEF BrokerCloses, Window!Next, Window!CloseBar
<1>3. ASSUME NEW w \in Workers, SaveCsv(w) PROVE Window!Next
  <2>1. /\ job[w].frame # {} /\ job[w].frame \in Frames /\ Window!Contiguous(job[w].frame)
        /\ Window!ReachesAsFar(job[w].frame, csv)
    BY <1>3 DEF SaveCsv, Inv, TypeOK, Filled, CacheInv, JobSound
  <2>2. csv' = job[w].frame /\ UNCHANGED closed
    BY <1>3 DEF SaveCsv
  <2>3. Window!Store(job[w].frame) /\ job[w].frame \in SUBSET Traded
    BY <2>1, <2>2 DEF Window!Store, Frames
  <2> QED BY <2>3 DEF Window!Next
<1>4. \/ UNCHANGED <<closed, csv>> \/ BrokerCloses \/ \E w \in Workers : SaveCsv(w)
  BY DEF Next, vars, RequestStep, Tick, Crash, GetCandles, GetCached, LookupMemory, LookupCsv,
         FetchReplacement, FetchNewer, SaveMeta, Fail
<1> QED BY <1>1, <1>2, <1>3, <1>4

(* The CSV file implements CandleWindow, whatever fails and wherever the   *)
(* process dies: a gapless window of the broker's closed candles that only *)
(* moves forward (cache.py:229, csv_persistence.py:61).                    *)
THEOREM FileKeepsWindow == Spec => KeepsWindow
<1>1. Init => Window!Init
  BY DEF Init, Window!Init
<1>2. Spec => [][Window!Next]_<<closed, csv>>
  BY InvAlways, WindowStep, PTL DEF Spec
<1> QED BY <1>1, <1>2, PTL DEF Spec, KeepsWindow, Window!Spec

-----------------------------------------------------------------------------
(* Freshness                                                               *)

(* No bar outlasts the nominal duration, as the 25 hours of the autumn     *)
(* Sunday do.                                                              *)
NoLongBar == \A b \in 1 .. Bars : BarStart[b + 1] <= BarStart[b] + Delta

(* Time ends with the last bar.                                            *)
InTime == now < BarStart[Bars + 1]

(* Data called fresh lack no bar completed on the calendar.                *)
FreshHidesNoBar ==
    memory # NoEntry /\ BarAt(now) > 1 /\ IsFresh(Newest(memory.frame)) =>
        BarAt(now) - 1 <= Newest(memory.frame)

(* The bar a time falls in is the last to have begun.                      *)
LEMMA BarOfTime ==
    ASSUME NEW t \in Nat
    PROVE  /\ BarAt(t) \in 1 .. Bars /\ BarStart[BarAt(t)] <= t
           /\ \A b \in 1 .. Bars : BarStart[b] <= t => b <= BarAt(t)
<1> DEFINE begun == {b \in 1 .. Bars : BarStart[b] <= t}
<1>1. 1 \in begun /\ begun \subseteq 1 .. Bars
  BY BarsType
<1>2. Newest(begun) \in begun /\ \A b \in begun : b <= Newest(begun)
  <2> HIDE DEF begun
  <2> QED BY <1>1, NewestBar
<1> QED BY <1>2 DEF BarAt

(* Slots are counted from the start of the bar, and are none when the bar  *)
(* has not lasted one.                                                     *)
LEMMA FloorFromBar ==
    ASSUME NEW t \in Nat
    PROVE  /\ FloorTime(t) \in Nat /\ FloorTime(t) >= BarStart[BarAt(t)]
           /\ t < BarStart[BarAt(t)] + Delta => FloorTime(t) = BarStart[BarAt(t)]
<1> DEFINE anchor == BarStart[BarAt(t)]
           q == (t - anchor) \div Delta
<1>1. anchor \in Nat /\ anchor <= t /\ Delta \in Nat \ {0}
  <2>1. BarAt(t) \in 1 .. Bars /\ BarStart[BarAt(t)] <= t
    BY BarOfTime
  <2>2. BarAt(t) \in 1 .. Bars + 1
    BY <2>1, BarsType
  <2> QED BY <2>1, <2>2, BarsType, PolicyType
<1>2. FloorTime(t) = anchor + q * Delta
  BY DEF FloorTime
<1> HIDE DEF anchor
<1>3. t - anchor \in Nat
  BY <1>1
<1>4. q \in Nat /\ (t - anchor < Delta => q = 0)
  BY <1>1, <1>3
<1> HIDE DEF q
<1>5. q * Delta \in Nat /\ (q = 0 => q * Delta = 0)
  BY <1>1, <1>4
<1>6. t < anchor + Delta => t - anchor < Delta
  BY <1>1
<1> QED BY <1>1, <1>2, <1>4, <1>5, <1>6 DEF anchor

(* The boundary rule never calls data fresh that lack a completed bar.     *)
LEMMA FreshStep == Inv => FreshHidesNoBar
<1> SUFFICES ASSUME Inv, memory # NoEntry, BarAt(now) > 1, IsFresh(Newest(memory.frame))
             PROVE  BarAt(now) - 1 <= Newest(memory.frame)
  BY DEF FreshHidesNoBar
<1> DEFINE k == BarAt(now)
           last == Newest(memory.frame)
<1>1. now \in Nat /\ k \in 1 .. Bars /\ BarStart[k] <= now
  BY BarOfTime DEF Inv, TypeOK
<1>2. last \in 1 .. Bars
  BY FramesAreBars, NewestBar DEF Inv, TypeOK, Filled
<1>3. BarStart[last] >= FloorTime(now) - Delta /\ FloorTime(now) >= BarStart[k] /\ FloorTime(now) \in Nat
  BY <1>1, FloorFromBar DEF IsFresh, LastCompletedStart
<1> HIDE DEF k, last
<1>4. SUFFICES ASSUME last < k - 1 PROVE FALSE
  <2>1. k \in Int /\ last \in Int
    BY <1>1, <1>2
  <2> QED BY <2>1, <1>4 DEF k, last
<1>5. k - 1 \in 1 .. Bars
  BY <1>1, <1>2, <1>4, BarsType
<1>6. BarStart[last] + Delta < BarStart[k]
  <2>1. (k - 1) + 1 = k
    BY <1>1
  <2> QED BY <2>1, <1>2, <1>4, <1>5, SinceOverlooksNothing
<1>7. BarStart[last] \in Nat /\ BarStart[k] \in Nat /\ Delta \in Nat
  BY <1>1, <1>2, BarsType, PolicyType
<1> QED BY <1>3, <1>6, <1>7

(* Where no bar is long, it also calls fresh what lacks none.              *)
LEMMA FreshExactStep == NoLongBar /\ Inv /\ InTime => FreshMeansNewest
<1> SUFFICES ASSUME NoLongBar, Inv, InTime, memory # NoEntry, BarAt(now) > 1,
                    BarAt(now) - 1 <= Newest(memory.frame)
             PROVE  IsFresh(Newest(memory.frame))
  BY FreshStep DEF FreshHidesNoBar, FreshMeansNewest
<1> DEFINE k == BarAt(now)
           last == Newest(memory.frame)
<1>1. /\ now \in Nat /\ k \in 1 .. Bars /\ BarStart[k] <= now /\ 1 < k /\ k - 1 <= last
      /\ \A b \in 1 .. Bars : BarStart[b] <= now => b <= k
  BY BarOfTime DEF Inv, TypeOK
<1>2. last \in 1 .. Bars
  BY FramesAreBars, NewestBar DEF Inv, TypeOK, Filled
<1>3. now < BarStart[k] + Delta => FloorTime(now) = BarStart[k]
  BY <1>1, FloorFromBar
<1>4. IsFresh(last) <=> BarStart[last] >= FloorTime(now) - Delta
  BY DEF IsFresh, LastCompletedStart
<1> SUFFICES IsFresh(last)
  OBVIOUS
<1> HIDE DEF k, last
<1>5. /\ k + 1 \in 1 .. Bars + 1 /\ k - 1 \in 1 .. Bars /\ k \in 1 .. Bars + 1 /\ last \in 1 .. Bars + 1
      /\ k - 1 \in 1 .. Bars + 1 /\ Bars \in Nat /\ (k - 1) + 1 = k
  BY <1>1, <1>2, BarsType
<1>6. /\ BarStart[k] \in Nat /\ BarStart[k + 1] \in Nat /\ BarStart[last] \in Nat /\ BarStart[k - 1] \in Nat
      /\ Delta \in Nat
  BY <1>5, BarsType, PolicyType
<1>7. now < BarStart[k + 1]
  <2>1. k + 1 \in 1 .. Bars \/ k = Bars
    BY <1>1, <1>5
  <2> QED BY <2>1, <1>1, <1>5, <1>6 DEF InTime
<1>8. FloorTime(now) = BarStart[k]
  <2>1. BarStart[k + 1] <= BarStart[k] + Delta
    BY <1>1 DEF NoLongBar
  <2> QED BY <2>1, <1>1, <1>3, <1>6, <1>7
<1>9. BarStart[k] <= BarStart[k - 1] + Delta
  BY <1>5 DEF NoLongBar
<1>10. BarStart[k - 1] <= BarStart[last]
  <2>1. k - 1 = last \/ k - 1 < last
    BY <1>1, <1>2, <1>5
  <2> QED BY <2>1, <1>5, <1>6, BarsInOrder
<1> QED BY <1>4, <1>6, <1>8, <1>9, <1>10

(* No bar that has completed is overlooked as long as the data are called  *)
(* fresh (is_cache_fresh, cache.py:46), whatever the lengths of the bars   *)
(* as long as two together outlast Delta.                                  *)
THEOREM FreshLacksNothing == Spec => []FreshHidesNoBar
BY InvAlways, FreshStep, PTL

(* The boundary rule says fresh exactly if the newest completed bar is     *)
(* cached, where no bar outlasts Delta: it then refetches nothing that is  *)
(* there either.                                                           *)
THEOREM FreshIsNewest == NoLongBar => (Spec => []FreshMeansNewest)
<1> SUFFICES ASSUME NoLongBar PROVE Spec => []FreshMeansNewest
  OBVIOUS
<1>1. Init => InTime
  <2>1. Bars + 1 \in 1 .. Bars + 1 /\ 1 \in 1 .. Bars + 1 /\ 1 < Bars + 1
    BY BarsType
  <2>2. BarStart[1] < BarStart[Bars + 1] /\ BarStart[1] = 0
    BY <2>1, BarsInOrder, BarsType
  <2> QED BY <2>2 DEF Init, InTime
<1>2. InTime /\ [Next]_vars => InTime'
  BY DEF InTime, Next, vars, RequestStep, Tick, BrokerCloses, Crash, GetCandles, GetCached, LookupMemory,
         LookupCsv, FetchReplacement, FetchNewer, SaveCsv, SaveMeta, Fail
<1>3. Inv /\ InTime => FreshMeansNewest
  BY FreshExactStep
<1> QED BY <1>1, <1>2, <1>3, InvAlways, PTL DEF Spec

-----------------------------------------------------------------------------
(* Counts                                                                  *)

(* Counts compare as numbers do, the one exception included.               *)
LEMMA NotAboveOrder ==
    /\ \A c, d \in Int : c <= d => NotAbove(c, d)
    /\ \A c, d, e \in Int : NotAbove(c, d) /\ NotAbove(d, e) => NotAbove(c, e)
BY CountsType DEF NotAbove

(* The local clock lags by less than what two bars last beyond Delta.      *)
LagBounded == \A b \in 1 .. Bars - 1 : BarStart[b] + Delta + ClockLag <= BarStart[b + 2]

(* Taking one away makes a set smaller by one at most.                     *)
LEMMA TakeOneAway ==
    ASSUME NEW S, IsFiniteSet(S), NEW x
    PROVE  /\ IsFiniteSet(S \ {x}) /\ Cardinality(S \ {x}) \in Nat
           /\ Cardinality(S) \in Nat /\ Cardinality(S \ {x}) >= Cardinality(S) - 1
<1>1. IsFiniteSet(S \ {x}) /\ Cardinality(S) \in Nat
  BY FS_RemoveElement, FS_CardinalityType
<1>2. Cardinality(S \ {x}) \in Nat
  BY <1>1, FS_CardinalityType
<1>3. Cardinality(S \ {x}) = IF x \in S THEN Cardinality(S) - 1 ELSE Cardinality(S)
  BY FS_RemoveElement
<1> QED BY <1>1, <1>2, <1>3

(* At most one closed candle, the newest, is cut by the local clock.       *)
LEMMA OneIsTrimmed ==
    ASSUME LagBounded, TypeOK, \A b \in 1 .. closed : BarStart[b + 1] <= now + ClockLag,
           NEW b \in 1 .. Bars, b < closed
    PROVE  BarStart[b] + Delta <= now
<1>1. /\ b \in 1 .. Bars - 1 /\ b + 2 \in 1 .. Bars + 1 /\ closed + 1 \in 1 .. Bars + 1
      /\ closed \in 1 .. closed /\ closed \in Nat /\ Bars \in Nat /\ now \in Nat
  BY BarsType DEF TypeOK
<1>2. /\ BarStart[b] \in Nat /\ BarStart[b + 2] \in Nat /\ BarStart[closed + 1] \in Nat
      /\ Delta \in Nat /\ ClockLag \in Nat
  BY <1>1, BarsType, PolicyType
<1>3. BarStart[b + 2] <= BarStart[closed + 1]
  <2>1. b + 2 = closed + 1 \/ b + 2 < closed + 1
    BY <1>1
  <2> QED BY <2>1, <1>1, <1>2, BarsInOrder
<1>4. BarStart[closed + 1] <= now + ClockLag
  BY <1>1
<1>5. BarStart[b] + Delta + ClockLag <= BarStart[b + 2]
  BY <1>1 DEF LagBounded
<1> QED BY <1>1, <1>2, <1>3, <1>4, <1>5

(* A replacement for a window that was shorter than n, asked for with      *)
(* count n, is no shorter than that window, or one of a request for the    *)
(* maximum that is shorter by the forming candle.                          *)
LEMMA ReplacementIsNoShorter ==
    ASSUME LagBounded, TypeOK,
           \A b \in 1 .. closed : BarStart[b + 1] <= now + ClockLag,
           NEW n \in Counts, NEW forming \in Forming, NEW kept,
           kept = TrimToClosed(LatestPayload(n, Complete \union forming) \intersect Complete),
           NEW f \in Frames, Past(f), NEW m \in Nat, NotAbove(m, Cardinality(f)), m < n
    PROVE  NotAbove(m, Cardinality(kept))
<1> DEFINE sent == Complete \union forming
           room == IF n < MaxCount THEN n + 1 ELSE n
<1>1. /\ closed \in 0 .. Bars /\ now \in Nat /\ sent \subseteq 1 .. Bars /\ sent \subseteq 1 .. Bars + 1
      /\ \A b \in forming : b = closed + 1
  BY SentAreBars DEF TypeOK
<1>2. n \in 1 .. MaxCount /\ MaxCount \in Nat /\ room \in Nat /\ LatestPayload(n, sent) = Tail(sent, room)
  BY CountsType DEF LatestPayload
<1>3. \A b : b \in kept <=> b \in Tail(sent, room) /\ b \in Complete /\ BarStart[b] + Delta <= now
  BY <1>2 DEF TrimToClosed
<1>4. kept \subseteq 1 .. Bars + 1 /\ f \subseteq Complete
  BY <1>1, <1>3, TradedType, BarsType DEF Complete, Frames
<1>5. Cardinality(kept) \in Nat /\ \A g \in SUBSET kept : Cardinality(g) \in Nat /\ Cardinality(g) <= Cardinality(kept)
  BY <1>4, FrameFinite
<1>6. CASE f \subseteq kept
  <2>1. Cardinality(f) \in Nat /\ Cardinality(f) <= Cardinality(kept)
    BY <1>5, <1>6
  <2> QED BY <2>1, <1>5, NotAboveOrder
<1>7. CASE ~(f \subseteq kept)
  <2> DEFINE skipped == {b \in sent : b \notin Tail(sent, room)}
             y == Newest(skipped)
             rest == {c \in sent : y < c}
  <2>1. skipped # {} /\ skipped \subseteq 1 .. Bars
    <3>1. PICK x \in f : x \notin kept
      BY <1>7
    <3>2. x \in Complete /\ BarStart[x] + Delta <= now
      BY <1>4 DEF Past
    <3> QED BY <3>1, <3>2, <1>1, <1>3
  <2>2. y \in skipped /\ \A b \in skipped : b <= y
    <3> HIDE DEF skipped
    <3> QED BY <2>1, NewestBar
  <2>3. rest \subseteq 1 .. Bars + 1 /\ rest \subseteq Tail(sent, room)
    <3>1. ASSUME NEW c \in rest PROVE c \in Tail(sent, room)
      <4>1. c \in 1 .. Bars /\ y \in 1 .. Bars /\ y < c
        BY <2>1, <2>2, <1>1
      <4>2. c \in skipped => c <= y
        BY <2>2
      <4>3. ~(c <= y)
        <5> HIDE DEF y
        <5> QED BY <4>1
      <4> QED BY <4>2, <4>3
    <3> QED BY <3>1, <1>1
  <2>4. IsFiniteSet(rest) /\ Cardinality(rest) \in Nat
    BY <2>3, FrameFinite
  <2>5. ~(Cardinality(rest) < room)
    BY <2>2 DEF Tail
  <2> DEFINE sure == (rest \ {closed + 1}) \ {closed}
  <2>6. sure \subseteq kept
    <3>1. ASSUME NEW c \in sure PROVE c \in kept
      <4>1. c \in Tail(sent, room) /\ c \in sent /\ c # closed + 1 /\ c # closed /\ c \in 1 .. Bars
        BY <2>3, <1>1
      <4>2. c \in Complete /\ c <= closed
        BY <4>1, <1>1 DEF Complete
      <4>3. c < closed
        BY <4>1, <4>2, <1>1
      <4> QED BY <4>1, <4>2, <4>3, <1>3, OneIsTrimmed
    <3> QED BY <3>1
  <2> HIDE DEF rest, y, skipped
  <2>7. Cardinality(sure) >= Cardinality(rest) - 2 /\ Cardinality(sure) \in Nat
    <3>1. /\ IsFiniteSet(rest \ {closed + 1}) /\ Cardinality(rest \ {closed + 1}) \in Nat
          /\ Cardinality(rest \ {closed + 1}) >= Cardinality(rest) - 1
      BY <2>4, TakeOneAway
    <3>2. Cardinality(sure) \in Nat /\ Cardinality(sure) >= Cardinality(rest \ {closed + 1}) - 1
      BY <3>1, TakeOneAway
    <3> QED BY <3>1, <3>2, <2>4
  <2>8. Cardinality(sure) <= Cardinality(kept)
    BY <2>6, <1>5
  <2>9. Cardinality(kept) >= room - 2
    BY <2>4, <2>5, <2>7, <2>8, <1>2, <1>5
  <2>10. CASE n < MaxCount
    <3>1. m <= Cardinality(kept)
      BY <2>9, <2>10, <1>2, <1>5
    <3> QED BY <3>1, <1>5, NotAboveOrder
  <2>11. CASE n = MaxCount
    <3>1. Cardinality(kept) >= MaxCount - 2 /\ m <= MaxCount - 1
      BY <2>9, <2>11, <1>2, <1>5
    <3> QED BY <3>1, <2>11, <1>2, <1>5 DEF NotAbove
  <2> QED BY <2>10, <2>11, <1>2
<1> QED BY <1>6, <1>7

LEMMA CountsInductive ==
    ASSUME LagBounded
    PROVE  Inv /\ CountsSound /\ [Next]_vars => CountsSound'
<1> SUFFICES ASSUME Inv, CountsSound, [Next]_vars PROVE CountsSound'
  OBVIOUS
<1>1. /\ TypeOK /\ Filled /\ Locking /\ FileSound /\ MemorySound /\ \A w \in Workers : JobSound(w)
      /\ closed \in 0 .. Bars /\ now \in Nat /\ csv \in Frames /\ csv \subseteq 1 .. Bars /\ {} \in Frames
      /\ meta.count \in Nat /\ memory.count \in Nat /\ Cardinality(csv) \in Nat
  BY FramesAreBars, FrameMeasured DEF Inv, CacheInv, TypeOK
<1>2. /\ \A b \in 1 .. closed : BarStart[b + 1] <= now + ClockLag
      /\ NotAbove(meta.count, Cardinality(csv)) /\ NotAbove(memory.count, Cardinality(csv))
      /\ memory # NoEntry => NotAbove(meta.count, memory.count)
  BY DEF CountsSound
<1>3. \A w \in Workers :
         /\ job[w].pc # "idle" => job[w].count \in Counts
         /\ job[w].pc = "replace" => memory = NoEntry \/ memory.count < job[w].count
         /\ job[w].pc = "csv_write" =>
               NotAbove(meta.count, Cardinality(job[w].frame)) /\ NotAbove(memory.count, Cardinality(job[w].frame))
  BY DEF CountsSound
<1>4. ASSUME UNCHANGED <<now, closed, csv, meta, memory>>,
             \A w \in Workers :
                /\ job'[w].pc # "idle" => job'[w].count \in Counts
                /\ job'[w].pc = "replace" => memory = NoEntry \/ memory.count < job'[w].count
                /\ job'[w].pc = "csv_write" =>
                      NotAbove(meta.count, Cardinality(job'[w].frame)) /\ NotAbove(memory.count, Cardinality(job'[w].frame))
      PROVE  CountsSound'
  BY <1>2, <1>4 DEF CountsSound
<1>5. ASSUME NEW w \in Workers, job' = [job EXCEPT ![w] = Idle],
             UNCHANGED <<now, closed, csv, meta, memory>>
      PROVE  CountsSound'
  <2>1. \A v \in Workers : job'[v] = job[v] \/ job'[v].pc = "idle"
    BY <1>1, <1>5 DEF TypeOK, Idle
  <2> QED BY <2>1, <1>3, <1>4, <1>5
<1>6. ASSUME NEW w \in Workers, NEW j, job' = [job EXCEPT ![w] = j],
             UNCHANGED <<now, closed, csv, meta, memory>>,
             j.count \in Counts,
             j.pc = "replace" => memory = NoEntry \/ memory.count < j.count,
             j.pc = "csv_write" => NotAbove(meta.count, Cardinality(j.frame)) /\ NotAbove(memory.count, Cardinality(j.frame))
      PROVE  CountsSound'
  <2>1. \A v \in Workers : job'[v] = job[v] \/ job'[v] = j
    BY <1>1, <1>6 DEF TypeOK
  <2> QED BY <2>1, <1>3, <1>4, <1>6
<1>7. CASE Tick
  <2>1. UNCHANGED <<closed, csv, meta, memory, job>> /\ now' = now + 1
    BY <1>7 DEF Tick
  <2>2. ASSUME NEW b \in 1 .. closed PROVE BarStart[b + 1] <= now + 1 + ClockLag
    <3>1. b + 1 \in 1 .. Bars + 1 /\ BarStart[b + 1] <= now + ClockLag
      BY <1>1, <1>2, BarsType
    <3>2. BarStart[b + 1] \in Nat /\ ClockLag \in Nat
      BY <3>1, BarsType, PolicyType
    <3> QED BY <3>1, <3>2, <1>1
  <2> QED BY <2>1, <2>2, <1>2, <1>3 DEF CountsSound
<1>8. CASE BrokerCloses
  <2>1. UNCHANGED <<now, csv, meta, memory, job>> /\ closed' = closed + 1
        /\ BarStart[closed + 2] <= now + ClockLag
    BY <1>8 DEF BrokerCloses
  <2>2. \A b \in 1 .. closed' : b \in 1 .. closed \/ b + 1 = closed + 2
    BY <2>1, <1>1
  <2> QED BY <2>1, <2>2, <1>2, <1>3 DEF CountsSound
<1>9. CASE Crash
  <2>1. UNCHANGED <<now, closed, csv, meta>> /\ memory' = NoEntry /\ \A v \in Workers : job'[v].pc = "idle"
    BY <1>9 DEF Crash, Idle
  <2>2. memory'.count = 0
    BY <2>1 DEF NoEntry
  <2> QED BY <2>1, <2>2, <1>1, <1>2, NotAboveOrder DEF CountsSound
<1>10. ASSUME NEW w \in Workers, NEW n \in Counts, GetCandles(w, n)
       PROVE  CountsSound'
  <2> DEFINE j == [Idle EXCEPT !.pc = "lookup", !.count = n]
  <2>1. job' = [job EXCEPT ![w] = j] /\ UNCHANGED <<now, closed, csv, meta, memory>>
    BY <1>10 DEF GetCandles
  <2>2. j.pc = "lookup" /\ j.count = n
    BY DEF Idle
  <2> HIDE DEF j
  <2> QED BY <2>1, <2>2, <1>6
<1>11. ASSUME NEW m \in {meta, NoMeta}
       PROVE  /\ NotAbove(CsvEntry(m).count, Cardinality(csv)) /\ CsvEntry(m).count \in Nat
              /\ NotAbove(meta.count, CsvEntry(m).count)
              /\ \A r \in {meta, Bootstrap(m)} : NotAbove(r.count, CsvEntry(m).count)
  <2>1. m = NoMeta \/ m = meta
    OBVIOUS
  <2>2. CASE m = NoMeta
    BY <2>2, <1>1, <1>2, NotAboveOrder DEF CsvEntry, Bootstrap
  <2>3. CASE m # NoMeta
    BY <2>1, <2>3, <1>1, <1>2, NotAboveOrder DEF CsvEntry, Bootstrap
  <2> QED BY <2>2, <2>3
<1>12. ASSUME NEW w \in Workers, NEW n \in Counts, GetCached(w, n)
       PROVE  CountsSound'
  <2>1. UNCHANGED <<now, closed, csv, meta, job>> /\ memory' \in {memory, CsvEntry(meta)}
    BY <1>12 DEF GetCached
  <2>2. \A v \in Workers : job[v].pc = "idle"
    BY <1>1, <1>12 DEF GetCached, Locking
  <2>3. memory' = CsvEntry(meta) => NotAbove(memory'.count, Cardinality(csv)) /\ NotAbove(meta.count, memory'.count)
    BY <1>11
  <2> QED BY <2>1, <2>2, <2>3, <1>1, <1>2 DEF CountsSound
<1>13. ASSUME NEW w \in Workers, NEW n \in Counts, NEW f, NEW c, c = memory'.count,
              Return(w, f, n, memory.frame) \/ (FetchAll(w, n) /\ c < n) \/ FetchSince(w, n, f),
              UNCHANGED <<now, closed, csv>>, job[w].pc \in {"lookup", "csv"},
              NotAbove(meta'.count, c), NotAbove(c, Cardinality(csv)), meta'.count \in Nat, c \in Nat
       PROVE  CountsSound'
  <2>1. \A v \in Workers \ {w} : job[v].pc = "idle"
    BY <1>1, <1>13, OthersIdle
  <2>2. PICK j : job' = [job EXCEPT ![w] = j] /\ j.pc # "csv_write"
                 /\ (j.pc # "idle" => j.count = n) /\ (j.pc = "replace" => c < n)
    <3>1. CASE Return(w, f, n, memory.frame)
      <4>1. job' = [job EXCEPT ![w] = Idle] /\ Idle.pc = "idle"
        BY <3>1 DEF Return, Idle
      <4> QED BY <4>1
    <3>2. CASE FetchAll(w, n) /\ c < n
      <4> DEFINE j == [Idle EXCEPT !.pc = "replace", !.count = n]
      <4>1. job' = [job EXCEPT ![w] = j] /\ j.pc = "replace" /\ j.count = n
        BY <3>2 DEF FetchAll, Idle
      <4> HIDE DEF j
      <4> QED BY <4>1, <3>2
    <3>3. CASE FetchSince(w, n, f)
      <4> DEFINE j == [Idle EXCEPT !.pc = "append", !.count = n, !.existing = f,
                                   !.since = BarStart[Newest(f)] + Delta]
      <4>1. job' = [job EXCEPT ![w] = j]
        BY <3>3 DEF FetchSince
      <4>2. j.pc = "append" /\ j.count = n
        BY DEF Idle
      <4> HIDE DEF j
      <4> QED BY <4>1, <4>2
    <3> QED BY <3>1, <3>2, <3>3, <1>13
  <2>3. job'[w] = j /\ \A v \in Workers \ {w} : job'[v].pc = "idle"
    BY <2>1, <2>2, <1>1 DEF TypeOK
  <2>4. /\ \A b \in 1 .. closed' : BarStart[b + 1] <= now' + ClockLag
        /\ NotAbove(meta'.count, Cardinality(csv')) /\ NotAbove(memory'.count, Cardinality(csv'))
        /\ NotAbove(meta'.count, memory'.count)
    BY <1>1, <1>2, <1>13, NotAboveOrder
  <2>5. \A v \in Workers :
          /\ job'[v].pc # "idle" => job'[v].count \in Counts
          /\ job'[v].pc = "replace" => memory'.count < job'[v].count
          /\ job'[v].pc # "csv_write"
    BY <2>2, <2>3, <1>13
  <2> QED BY <2>4, <2>5 DEF CountsSound
<1>14. ASSUME NEW w \in Workers, LookupMemory(w)
       PROVE  CountsSound'
  <2>1. job[w].pc = "lookup" /\ job[w].count \in Counts /\ UNCHANGED <<now, closed, csv, meta, memory>>
    BY <1>3, <1>14 DEF LookupMemory
  <2>2. CASE memory = NoEntry
    <3> DEFINE j == [job[w] EXCEPT !.pc = "csv"]
    <3>1. job' = [job EXCEPT ![w] = j]
      BY <2>2, <1>14 DEF LookupMemory
    <3>2. j.pc = "csv" /\ j.count = job[w].count
      BY <1>1 DEF TypeOK
    <3> HIDE DEF j
    <3> QED BY <2>1, <3>1, <3>2, <1>6
  <2>3. CASE memory # NoEntry
    <3>1. Resolve(w, job[w].count, memory)
      BY <2>3, <1>14 DEF LookupMemory
    <3>2. \/ Return(w, memory.frame, job[w].count, memory.frame)
          \/ FetchAll(w, job[w].count) /\ memory.count < job[w].count
          \/ FetchSince(w, job[w].count, memory.frame)
      BY <3>1 DEF Resolve
    <3> QED BY <2>1, <2>3, <3>2, <1>1, <1>2, <1>13
  <2> QED BY <2>2, <2>3
<1>15. ASSUME NEW w \in Workers, LookupCsv(w)
       PROVE  CountsSound'
  <2>1. job[w].pc = "csv" /\ job[w].count \in Counts /\ UNCHANGED <<now, closed, csv>> /\ memory = NoEntry
    BY <1>1, <1>3, <1>15 DEF LookupCsv, JobSound
  <2>2. CASE csv = {}
    <3> DEFINE j == [Idle EXCEPT !.pc = "replace", !.count = job[w].count]
    <3>1. job' = [job EXCEPT ![w] = j] /\ UNCHANGED <<meta, memory>>
      BY <2>2, <1>15 DEF LookupCsv, FetchAll
    <3>2. j.pc = "replace" /\ j.count = job[w].count
      BY DEF Idle
    <3> HIDE DEF j
    <3> QED BY <2>1, <3>1, <3>2, <1>6
  <2>3. CASE csv # {}
    <3>1. PICK m \in ReadMeta :
             meta' \in {meta, Bootstrap(m)} /\ memory' = CsvEntry(m) /\ Resolve(w, job[w].count, CsvEntry(m))
      BY <2>3, <1>15 DEF LookupCsv
    <3>2. m \in {meta, NoMeta}
      BY DEF ReadMeta
    <3>3. \/ Return(w, csv, job[w].count, memory.frame)
          \/ FetchAll(w, job[w].count) /\ memory'.count < job[w].count
          \/ FetchSince(w, job[w].count, csv)
      <4>1. CsvEntry(m).frame = csv
        BY DEF CsvEntry
      <4> QED BY <3>1, <4>1 DEF Resolve
    <3>4. NotAbove(meta'.count, memory'.count) /\ NotAbove(memory'.count, Cardinality(csv)) /\ memory'.count \in Nat
      BY <3>1, <3>2, <1>11
    <3>5. meta'.count \in Nat
      BY <3>1, <1>1 DEF Bootstrap
    <3> QED BY <2>1, <3>3, <3>4, <3>5, <1>13
  <2> QED BY <2>2, <2>3
<1>16. ASSUME NEW w \in Workers, FetchReplacement(w)
       PROVE  CountsSound'
  <2>1. job[w].pc = "replace" /\ job[w].count \in Counts /\ UNCHANGED <<now, closed, csv, meta, memory>>
    BY <1>3, <1>16 DEF FetchReplacement
  <2>2. PICK forming \in Forming :
          LET kept == TrimToClosed(LatestPayload(job[w].count, Complete \union forming) \intersect Complete)
          IN  \/ Raise(w)
              \/ job' = [job EXCEPT ![w].pc = "csv_write", ![w].frame = kept]
    BY <1>16 DEF FetchReplacement
  <2> DEFINE kept == TrimToClosed(LatestPayload(job[w].count, Complete \union forming) \intersect Complete)
             j == [job[w] EXCEPT !.pc = "csv_write", !.frame = kept]
  <2>3. kept \in Frames
    <3>1. kept \subseteq Complete
      BY DEF TrimToClosed
    <3> QED BY <3>1, <1>1, FramesAreBars
  <2>4. Cardinality(kept) \in Nat
    BY <2>3, <1>1, FrameMeasured
  <2>5. NotAbove(memory.count, Cardinality(kept)) /\ NotAbove(meta.count, Cardinality(kept))
    <3>1. CASE memory = NoEntry
      <4>1. csv = {}
        BY <2>1, <3>1, <1>1 DEF JobSound
      <4>2. Cardinality(csv) = 0
        BY <4>1, FS_EmptySet
      <4> QED BY <4>2, <2>4, <1>1, <1>2, NotAboveOrder
    <3>2. CASE memory # NoEntry
      <4>1. memory.count < job[w].count
        BY <2>1, <3>2, <1>3
      <4>2. NotAbove(memory.count, Cardinality(kept))
        BY <4>1, <2>1, <1>1, <1>2, ReplacementIsNoShorter DEF FileSound
      <4> QED BY <4>2, <3>2, <2>4, <1>1, <1>2, NotAboveOrder
    <3> QED BY <3>1, <3>2
  <2>6. j.pc = "csv_write" /\ j.frame = kept /\ j.count = job[w].count
    BY <1>1 DEF TypeOK
  <2>7. Raise(w) \/ job' = [job EXCEPT ![w] = j]
    BY <2>2
  <2> HIDE DEF j
  <2>8. CASE Raise(w)
    BY <2>1, <2>8, <1>5 DEF Raise
  <2>9. CASE job' = [job EXCEPT ![w] = j]
    BY <2>1, <2>5, <2>6, <2>9, <1>6
  <2> QED BY <2>7, <2>8, <2>9
<1>17. ASSUME NEW w \in Workers, FetchNewer(w)
       PROVE  CountsSound'
  <2>1. job[w].pc = "append" /\ job[w].count \in Counts /\ UNCHANGED <<now, closed, csv, meta, memory>>
        /\ job[w].existing = csv
    BY <1>1, <1>3, <1>17 DEF FetchNewer, JobSound
  <2>2. PICK forming \in Forming :
          LET kept == TrimToClosed(SincePayload(job[w].since, Complete \union forming) \intersect Complete)
          IN  \/ Return(w, job[w].existing, job[w].count, memory.frame)
              \/ Raise(w)
              \/ job' = [job EXCEPT ![w].pc = "csv_write", ![w].frame = job[w].existing \union kept]
    BY <1>17 DEF FetchNewer
  <2> DEFINE kept == TrimToClosed(SincePayload(job[w].since, Complete \union forming) \intersect Complete)
             j == [job[w] EXCEPT !.pc = "csv_write", !.frame = csv \union kept]
  <2>3. csv \union kept \in Frames
    <3>1. kept \subseteq Complete
      BY DEF TrimToClosed
    <3> QED BY <3>1, <1>1, FramesAreBars
  <2> HIDE DEF kept
  <2>4. Cardinality(csv) <= Cardinality(csv \union kept) /\ Cardinality(csv \union kept) \in Nat
    <3>1. csv \union kept \subseteq 1 .. Bars + 1
      BY <2>3, <1>1, FramesAreBars
    <3> QED BY <3>1, FrameFinite
  <2>5. j.pc = "csv_write" /\ j.frame = csv \union kept /\ j.count = job[w].count
    BY <1>1 DEF TypeOK
  <2>6. Return(w, csv, job[w].count, memory.frame) \/ Raise(w) \/ job' = [job EXCEPT ![w] = j]
    BY <2>1, <2>2 DEF kept
  <2> HIDE DEF j
  <2>7. CASE Return(w, csv, job[w].count, memory.frame) \/ Raise(w)
    BY <2>1, <2>7, <1>5 DEF Return, Raise
  <2>8. CASE job' = [job EXCEPT ![w] = j]
    <3>1. NotAbove(meta.count, Cardinality(csv \union kept)) /\ NotAbove(memory.count, Cardinality(csv \union kept))
      BY <2>4, <1>1, <1>2, NotAboveOrder
    <3> QED BY <2>1, <2>5, <2>8, <3>1, <1>6
  <2> QED BY <2>6, <2>7, <2>8
<1>18. ASSUME NEW w \in Workers, SaveCsv(w)
       PROVE  CountsSound'
  <2>1. /\ job[w].pc = "csv_write" /\ csv' = job[w].frame /\ UNCHANGED <<now, closed, meta, memory>>
        /\ job' = [job EXCEPT ![w].pc = "meta_write"]
    BY <1>18 DEF SaveCsv
  <2>2. \A v \in Workers : /\ job'[v].count = job[v].count
                           /\ job'[v].pc # "idle" => job[v].pc # "idle"
                           /\ job'[v].pc \notin {"replace", "csv_write"}
    <3>1. \A v \in Workers \ {w} : job[v].pc = "idle"
      BY <2>1, <1>1, OthersIdle
    <3> QED BY <2>1, <3>1, <1>1 DEF TypeOK
  <2> QED BY <2>1, <2>2, <1>2, <1>3 DEF CountsSound
<1>19. ASSUME NEW w \in Workers, SaveMeta(w)
       PROVE  CountsSound'
  <2>1. /\ job[w].pc = "meta_write" /\ UNCHANGED <<now, closed, csv>>
        /\ meta' = meta \/ meta'.count = Cardinality(job[w].frame)
        /\ memory'.count = Cardinality(job[w].frame)
        /\ job' = [job EXCEPT ![w] = Idle]
    BY <1>19 DEF SaveMeta, Return
  <2>2. job[w].frame = csv
    BY <2>1, <1>1 DEF JobSound
  <2>3. \A v \in Workers : job'[v].pc = "idle"
    BY <2>1, <1>1, OthersIdle DEF TypeOK, Idle
  <2> QED BY <2>1, <2>2, <2>3, <1>1, <1>2, NotAboveOrder DEF CountsSound
<1>20. ASSUME NEW w \in Workers, Fail(w)
       PROVE  CountsSound'
  BY <1>5, <1>20 DEF Fail, Raise
<1>21. CASE UNCHANGED vars
  BY <1>2, <1>3, <1>21 DEF vars, CountsSound
<1> QED BY <1>7, <1>8, <1>9, <1>10, <1>12, <1>14, <1>15, <1>16, <1>17, <1>18, <1>19, <1>20, <1>21
       DEF Next, RequestStep

(* A report is backed by the file.                                         *)
LEMMA ReportStep == Inv /\ CountsSound => ReportBacked
<1> SUFFICES ASSUME Inv, CountsSound, Freshness # NoMeta
             PROVE  csv # {} /\ NotAbove(Freshness.count, Cardinality(csv)) /\ Freshness.last <= Newest(csv)
  BY DEF ReportBacked
<1>1. csv \subseteq 1 .. Bars /\ memory.frame \subseteq 1 .. Bars /\ meta.last \in 0 .. Bars
  BY FramesAreBars DEF Inv, TypeOK
<1>2. NotAbove(meta.count, Cardinality(csv)) /\ NotAbove(memory.count, Cardinality(csv))
  BY DEF CountsSound
<1>3. CASE memory # NoEntry
  <2>1. memory.frame # {}
    BY <1>3 DEF Inv, Filled
  <2>2. memory.frame = csv \/ (csv # {} /\ Window!ReachesAsFar(csv, memory.frame))
    <3>1. CASE \E w \in Workers : job[w].pc = "meta_write"
      BY <3>1 DEF Inv, CacheInv, JobSound, Filled
    <3>2. CASE \A w \in Workers : job[w].pc # "meta_write"
      BY <3>2, <1>3, MemoryIsFile DEF Inv, CacheInv
    <3> QED BY <3>1, <3>2
  <2>3. Newest(memory.frame) \in memory.frame /\ csv # {}
    BY <2>1, <2>2, <1>1, NewestBar
  <2>4. PICK c \in csv : Newest(memory.frame) <= c
    <3>1. Newest(memory.frame) \in 1 .. Bars
      BY <2>3, <1>1
    <3>2. Newest(memory.frame) <= Newest(memory.frame)
      BY <3>1
    <3> QED BY <2>2, <2>3, <3>2 DEF Window!ReachesAsFar
  <2>5. Newest(memory.frame) <= Newest(csv)
    <3>1. c <= Newest(csv) /\ Newest(csv) \in csv
      BY <2>3, <1>1, NewestBar
    <3>2. c \in 1 .. Bars /\ Newest(csv) \in 1 .. Bars /\ Newest(memory.frame) \in 1 .. Bars
      BY <3>1, <2>3, <1>1
    <3> QED BY <3>1, <3>2, <2>4
  <2>6. Freshness = [count |-> memory.count, last |-> Newest(memory.frame)]
    BY <1>3 DEF Freshness
  <2> QED BY <2>3, <2>5, <2>6, <1>2
<1>4. CASE memory = NoEntry
  <2>1. Freshness = meta /\ meta # NoMeta
    BY <1>4 DEF Freshness
  <2>2. PICK c \in csv : meta.last <= c
    BY <2>1 DEF Inv, CacheInv, FileSound
  <2>3. c <= Newest(csv) /\ Newest(csv) \in csv
    BY <1>1, NewestBar
  <2>4. c \in 1 .. Bars /\ Newest(csv) \in 1 .. Bars
    BY <2>3, <1>1
  <2> QED BY <2>1, <2>2, <2>3, <2>4, <1>1, <1>2
<1> QED BY <1>3, <1>4

(* What get_candle_freshness reports, and the count a restarted process    *)
(* goes by, never promise more than the file holds, whichever of the two   *)
(* writes failed or was not reached, for any counts up to the broker's     *)
(* maximum, with the one candle of NotAbove, if the clock lags by less     *)
(* than a bar.                                                             *)
THEOREM ReportsAreBacked == LagBounded => (Spec => []ReportBacked)
<1> SUFFICES ASSUME LagBounded PROVE Spec => []ReportBacked
  OBVIOUS
<1>1. Init => CountsSound
  <2>1. Cardinality({}) = 0
    BY FS_EmptySet
  <2> QED BY <2>1, NotAboveOrder DEF Init, CountsSound, NoMeta, NoEntry, Idle
<1>2. Inv /\ CountsSound /\ [Next]_vars => CountsSound'
  BY CountsInductive
<1>3. Inv /\ CountsSound => ReportBacked
  BY ReportStep
<1> QED BY <1>1, <1>2, <1>3, InvAlways, PTL DEF Spec

=============================================================================
