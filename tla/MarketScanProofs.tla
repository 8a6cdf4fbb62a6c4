--------------------------- MODULE MarketScanProofs ---------------------------
(***************************************************************************)
(* Theorems about MarketScan, for any instruments, timeframes, requests,   *)
(* retention and faults: a newer version never shows an older candle, an   *)
(* answer is never older than what is published by then, a live spread is  *)
(* never replaced by one made up, the history is a window without a gap,   *)
(* and a scan counts what it published.                                    *)
(***************************************************************************)
EXTENDS MarketScan, FiniteSetTheorems, TLAPS

-----------------------------------------------------------------------------
(* The inductive invariant: one request at a time works under the lock,    *)
(* what it has read of its key is what is cached, and what is published is *)
(* no newer than that.                                                     *)

Names   == {Instruments[i] : i \in 1 .. Len(Instruments)}
Frames  == {Timeframes[i] : i \in 1 .. Len(Timeframes)}
Snaps   == [version : Nat, bar : Nat, spread : {"none", "live", "synthetic"}]
Working == {"price", "read", "publish"}
Single  == {"resolve", "chart"}

NonEmpty(S) == {s \in Seq(S) : s # <<>>}

StoreTyped ==
    /\ cached \in [Keys -> Nat]
    /\ version \in [Keys -> Nat]
    /\ latest \in [Keys -> Snaps]

Statuses == [scanned : SUBSET Names, published : Nat, errors : SUBSET Names, skipped : BOOLEAN]

Jobs == [pc : {"idle", "wait", "answered"} \cup Working,
         kind : {"none", "full", "instrument", "snapshot"} \cup Single,
         todo : Seq(Names), frames : Seq(Frames), force : BOOLEAN, hours : BOOLEAN,
         bar : Nat, since : [Keys -> Nat], key : Keys \cup {<<>>}, seen : Snaps,
         done : Statuses]

JobOK(w) ==
    /\ job[w] \in Jobs
    /\ job[w].pc \in Working \cup {"wait"} =>
         /\ job[w].todo # <<>> /\ job[w].frames # <<>>
         /\ IF job[w].kind \in Single
              THEN /\ Len(job[w].todo) = 1 /\ Len(job[w].frames) = 1
                   /\ job[w].key = Key(w)
              ELSE job[w].key = <<>> /\ job[w].seen = NoSnapshot
    /\ job[w].pc = "wait" => job[w].kind = "resolve"
    /\ job[w].pc \in Working /\ job[w].kind = "chart" => job[w].seen = latest[Key(w)]
    /\ job[w].pc = "publish" => job[w].bar = cached[Key(w)]

Locked ==
    /\ \A w \in Workers : job[w].pc \in Working => w \in holder
    /\ \A v, w \in holder : v = w

ScanInv ==
    /\ StoreTyped /\ Locked
    /\ DOMAIN job = Workers
    /\ \A w \in Workers : JobOK(w)
    /\ \A k \in Keys : latest[k].bar <= cached[k]

(* The instrument and the timeframe a request is working on are a key.     *)
LEMMA KeyTyped ==
    ASSUME NEW w \in Workers, JobOK(w), job[w].pc \in Working \cup {"wait"}
    PROVE  /\ Instrument(w) \in Names /\ Head(job[w].frames) \in Frames /\ Key(w) \in Keys
<1>1. /\ job[w].todo \in Seq(Names) /\ job[w].todo # <<>>
      /\ job[w].frames \in Seq(Frames) /\ job[w].frames # <<>>
  BY DEF JobOK, Jobs
<1>2. Head(job[w].todo) \in Names /\ Head(job[w].frames) \in Frames
  BY <1>1
<1> QED BY <1>2 DEF Instrument, Key, Keys, Names, Frames

BarsBacked == \A k \in Keys : latest[k].bar <= cached[k]

(* A step of one request: it changes the store or the cache only under the *)
(* lock, and whoever works afterwards holds it.                            *)
LEMMA StepKeepsOthers ==
    ASSUME ScanInv, NEW w \in Workers, NEW j, job' = [job EXCEPT ![w] = j],
           StoreTyped', BarsBacked',
           UNCHANGED <<cached, latest>> \/ w \in holder,
           JobOK(w)',
           \/ holder' = holder
           \/ holder' = holder \ {w}
           \/ holder = {} /\ holder' = {w},
           j.pc \in Working => w \in holder'
    PROVE  ScanInv'
<1>1. job'[w] = j /\ DOMAIN job' = Workers /\ \A v \in Workers : v # w => job'[v] = job[v]
  BY DEF ScanInv
<1>2. Locked'
  <2>1. ASSUME NEW v \in Workers, job'[v].pc \in Working PROVE v \in holder'
    <3>1. CASE v = w
      BY <1>1, <2>1, <3>1
    <3>2. CASE v # w
      <4>1. v \in holder
        BY <1>1, <2>1, <3>2 DEF ScanInv, Locked
      <4> QED BY <3>2, <4>1
    <3> QED BY <3>1, <3>2
  <2>2. \A u, v \in holder' : u = v
    BY DEF ScanInv, Locked
  <2> QED BY <2>1, <2>2 DEF Locked
<1>3. ASSUME NEW v \in Workers, v # w PROVE JobOK(v)'
  <2>1. JobOK(v) /\ job'[v] = job[v]
    BY <1>1, <1>3 DEF ScanInv
  <2>2. CASE UNCHANGED <<cached, latest>>
    BY <2>1, <2>2 DEF JobOK, Key, Instrument
  <2>3. CASE w \in holder
    <3>1. job[v].pc \notin Working
      BY <1>3, <2>3 DEF ScanInv, Locked
    <3>2. job[v].pc # "publish"
      BY <3>1 DEF Working
    <3> QED BY <2>1, <3>1, <3>2 DEF JobOK, Key, Instrument
  <2> QED BY <2>2, <2>3
<1> QED BY <1>1, <1>2, <1>3 DEF ScanInv, BarsBacked

-----------------------------------------------------------------------------
(* What ends an instrument or a request.                                   *)

(* What a request starts from.                                             *)
LEMMA NoSnapshotTyped == NoSnapshot \in Snaps /\ NoScan \in Statuses
BY DEF NoSnapshot, Snaps, NoScan, Statuses

(* The idle request.                                                       *)
LEMMA IdleTyped == Idle \in Jobs
<1>1. NoSnapshot \in Snaps /\ NoScan \in Statuses
  BY NoSnapshotTyped
<1>2. [k \in Keys |-> 0] \in [Keys -> Nat]
  OBVIOUS
<1>3. <<>> \in Seq(Names) /\ <<>> \in Seq(Frames) /\ 0 \in Nat /\ FALSE \in BOOLEAN
      /\ <<>> \in Keys \cup {<<>>}
      /\ "idle" \in {"idle", "wait", "answered"} \cup Working
      /\ "none" \in {"none", "full", "instrument", "snapshot"} \cup Single
  OBVIOUS
<1> QED BY <1>1, <1>2, <1>3, Zenon DEF Idle, Jobs

(* Leaving the lock keeps the invariant.                                   *)
LEMMA FinishOK ==
    ASSUME ScanInv, NEW w \in Workers, job[w].pc \in Working,
           NEW status \in Statuses, NEW answer \in Snaps, Finish(w, status, answer),
           StoreTyped', BarsBacked'
    PROVE  ScanInv'
<1> DEFINE j == [Idle EXCEPT !.pc = "answered", !.kind = job[w].kind, !.since = job[w].since,
                             !.done = status, !.key = job[w].key, !.seen = answer]
<1>1. job' = [job EXCEPT ![w] = j] /\ holder' = holder \ {w}
  BY DEF Finish
<1>2. job[w] \in Jobs
  BY DEF ScanInv, JobOK
<1>3. j \in Jobs /\ j.pc = "answered"
  <2>1. Idle \in Jobs
    BY IdleTyped
  <2>2. /\ job[w].kind \in {"none", "full", "instrument", "snapshot"} \cup Single
        /\ job[w].since \in [Keys -> Nat] /\ job[w].key \in Keys \cup {<<>>}
    BY <1>2 DEF Jobs
  <2> QED BY <2>1, <2>2 DEF Jobs
<1>4. JobOK(w)'
  <2>1. job'[w] = j
    BY <1>1 DEF ScanInv
  <2> QED BY <1>3, <2>1 DEF JobOK, Working
<1>5. w \in holder
  BY DEF ScanInv, Locked
<1> HIDE DEF j
<1> QED BY <1>1, <1>3, <1>4, <1>5, StepKeepsOthers DEF Working

(* Numbers above one.                                                      *)
LEMMA AboveOne == ASSUME NEW n \in Nat, n > 1 PROVE n # 1 /\ n # 0 /\ n - 1 # 0
OBVIOUS

(* The empty list.                                                         *)
LEMMA EmptyHasNone == Len(<<>>) = 0
OBVIOUS

(* The lists a request still has to do.                                    *)
LEMMA TailTyped ==
    ASSUME NEW S, NEW s \in Seq(S), Len(s) > 1
    PROVE  Tail(s) \in Seq(S) /\ Tail(s) # <<>> /\ Len(s) # 1
<1>1. Len(s) \in Nat
  OBVIOUS
<1>2. Len(s) # 1 /\ Len(s) # 0 /\ Len(s) - 1 # 0
  BY <1>1, AboveOne
<1>3. s # <<>>
  OBVIOUS
<1>4. Tail(s) \in Seq(S) /\ Len(Tail(s)) = Len(s) - 1
  BY <1>3
<1>5. Tail(s) # <<>>
  <2>1. SUFFICES ASSUME Tail(s) = <<>> PROVE FALSE
    OBVIOUS
  <2>2. Len(Tail(s)) = 0
    BY <2>1, EmptyHasNone
  <2> QED BY <2>2, <1>4, <1>2
<1> QED BY <1>2, <1>4, <1>5

(* What is scanned is there to scan.                                       *)
LEMMA ScanLists ==
    /\ Instruments \in Seq(Names) /\ Instruments # <<>>
    /\ Timeframes \in Seq(Frames) /\ Timeframes # <<>>
<1>1. /\ \A i \in 1 .. Len(Instruments) : Instruments[i] \in Names
      /\ \A i \in 1 .. Len(Timeframes) : Timeframes[i] \in Frames
  BY DEF Names, Frames
<1>2. /\ Instruments \in [1 .. Len(Instruments) -> Names] /\ Len(Instruments) \in Nat
      /\ Timeframes \in [1 .. Len(Timeframes) -> Frames] /\ Len(Timeframes) \in Nat
  BY <1>1, ScanType
<1> QED BY <1>2, ScanType

(* So does going on to the next instrument,                                *)
LEMMA NextInstrumentOK ==
    ASSUME ScanInv, NEW w \in Workers, job[w].pc \in Working,
           NEW done \in Statuses, NextInstrument(w, done), StoreTyped', BarsBacked'
    PROVE  ScanInv'
<1>1. JobOK(w) /\ job[w] \in Jobs /\ w \in holder
  BY DEF ScanInv, JobOK, Locked
<1>2. CASE Len(job[w].todo) > 1
  <2> DEFINE j == [job[w] EXCEPT !.pc = "price", !.todo = Tail(@), !.frames = Timeframes, !.done = done]
  <2>1. job' = [job EXCEPT ![w] = j] /\ UNCHANGED holder
    BY <1>2 DEF NextInstrument
  <2>2. job[w].kind \notin Single /\ job[w].key = <<>> /\ job[w].seen = NoSnapshot
    <3>1. job[w].todo \in Seq(Names)
      BY <1>1 DEF Jobs
    <3>2. Len(job[w].todo) # 1
      BY <1>2, <3>1, TailTyped
    <3> QED BY <1>1, <3>2 DEF JobOK
  <2>3. Tail(job[w].todo) \in Seq(Names) /\ Tail(job[w].todo) # <<>>
    BY <1>1, <1>2, TailTyped DEF Jobs
  <2>4. j \in Jobs
    BY <1>1, <2>3, ScanLists DEF Jobs, Working
  <2>5. /\ j.pc = "price" /\ j.todo # <<>> /\ j.frames # <<>> /\ j.kind \notin Single
        /\ j.key = <<>> /\ j.seen = NoSnapshot
    BY <1>1, <2>2, <2>3, ScanLists DEF Jobs
  <2> HIDE DEF j
  <2>6. JobOK(w)'
    <3>1. job'[w] = j
      BY <2>1 DEF ScanInv
    <3> QED BY <2>4, <2>5, <3>1 DEF JobOK, Working, Single
  <2> QED BY <1>1, <2>1, <2>6, StepKeepsOthers
<1>3. CASE ~(Len(job[w].todo) > 1)
  <2>1. Finish(w, Report(done), job[w].seen)
    BY <1>3 DEF NextInstrument
  <2>2. Report(done) \in Statuses /\ job[w].seen \in Snaps
    BY <1>1 DEF Report, Statuses, Jobs
  <2> QED BY <2>1, <2>2, FinishOK
<1> QED BY <1>2, <1>3

(* or a failure.                                                           *)
LEMMA FailOK ==
    ASSUME ScanInv, NEW w \in Workers, job[w].pc \in Working, Fail(w), UNCHANGED <<cached, store>>
    PROVE  ScanInv'
<1>1. JobOK(w) /\ job[w] \in Jobs
  BY DEF ScanInv, JobOK
<1>2. StoreTyped' /\ BarsBacked'
  BY DEF ScanInv, StoreTyped, BarsBacked, store
<1>3. CASE job[w].kind = "full"
  <2>1. Instrument(w) \in Names
    BY <1>1, KeyTyped
  <2>2. [job[w].done EXCEPT !.errors = @ \union {Instrument(w)}] \in Statuses
    BY <1>1, <2>1 DEF Jobs, Statuses
  <2> QED BY <1>2, <1>3, <2>2, NextInstrumentOK DEF Fail
<1>4. CASE job[w].kind # "full"
  <2>1. (IF job[w].kind = "chart" THEN job[w].seen ELSE NoSnapshot) \in Snaps
    BY <1>1, NoSnapshotTyped DEF Jobs
  <2> QED BY <1>2, <1>4, <2>1, NoSnapshotTyped, FinishOK DEF Fail, Raise
<1> QED BY <1>3, <1>4

-----------------------------------------------------------------------------
(* The requests' steps.                                                    *)

(* Entering the lock.                                                      *)
LEMMA BeginOK ==
    ASSUME ScanInv, NEW w \in Workers, NEW request \in Jobs, Begin(w, request),
           request.todo # <<>>, request.frames # <<>>,
           IF request.kind \in Single
             THEN /\ Len(request.todo) = 1 /\ Len(request.frames) = 1
                  /\ request.key = <<Head(request.todo), Head(request.frames)>>
             ELSE request.key = <<>> /\ request.seen = NoSnapshot,
           request.kind = "chart" => request.seen = latest[request.key]
    PROVE  ScanInv'
<1>1. PICK hours \in BOOLEAN :
         job' = [job EXCEPT ![w] = [request EXCEPT !.pc = "price", !.since = version,
                                                   !.hours = hours, !.force = @ /\ ~hours]]
  BY DEF Begin, Enter
<1> DEFINE j == [request EXCEPT !.pc = "price", !.since = version, !.hours = hours, !.force = @ /\ ~hours]
<1>2. UNCHANGED <<cached, store>> /\ holder = {} /\ holder' = {w}
  BY DEF Begin, Enter
<1>3. version \in [Keys -> Nat]
  BY DEF ScanInv, StoreTyped
<1>4. j \in Jobs
  BY <1>3 DEF Jobs, Working
<1>5. /\ j.pc = "price" /\ j.todo = request.todo /\ j.frames = request.frames /\ j.kind = request.kind
      /\ j.key = request.key /\ j.seen = request.seen
  BY DEF Jobs
<1>6. StoreTyped' /\ BarsBacked' /\ latest' = latest
  BY <1>2 DEF ScanInv, StoreTyped, BarsBacked, store
<1>7. job' = [job EXCEPT ![w] = j] /\ job'[w] = j
  BY <1>1 DEF ScanInv
<1> HIDE DEF j
<1>8. JobOK(w)'
  <2>1. Key(w)' = <<Head(request.todo), Head(request.frames)>>
    BY <1>5, <1>7 DEF Key, Instrument
  <2>2. j.kind = "chart" => j.kind \in Single
    BY DEF Single
  <2> QED BY <1>4, <1>5, <1>6, <1>7, <2>1, <2>2 DEF JobOK, Working
<1> QED BY <1>2, <1>5, <1>6, <1>7, <1>8, StepKeepsOthers DEF store

(* A full scan and the refreshes start with an idle request.               *)
LEMMA ScannersBegin ==
    ASSUME ScanInv, NEW w \in Workers, NEW kind \in {"full", "instrument", "snapshot"},
           NEW todo \in Seq(Names), NEW frames \in Seq(Frames), NEW force \in BOOLEAN,
           todo # <<>>, frames # <<>>,
           Begin(w, [Idle EXCEPT !.kind = kind, !.todo = todo, !.frames = frames, !.force = force])
    PROVE  ScanInv'
<1> DEFINE r == [Idle EXCEPT !.kind = kind, !.todo = todo, !.frames = frames, !.force = force]
<1>1. Idle \in Jobs /\ Idle.key = <<>> /\ Idle.seen = NoSnapshot
  BY IdleTyped DEF Idle
<1>2. r \in Jobs /\ r.todo = todo /\ r.frames = frames /\ r.kind = kind /\ r.key = <<>> /\ r.seen = NoSnapshot
  BY <1>1 DEF Jobs
<1>3. kind \notin Single
  BY DEF Single
<1> HIDE DEF r
<1>4. kind # "chart"
  OBVIOUS
<1>5. Begin(w, r)
  BY DEF r
<1> QED BY <1>2, <1>3, <1>4, <1>5, BeginOK

(* A chart starts from the latest snapshot.                                *)
LEMMA ReadersBegin ==
    ASSUME ScanInv, NEW w \in Workers, NEW i \in Names, NEW t \in Frames, ChartSnapshot(w, i, t)
    PROVE  ScanInv'
<1> DEFINE r == [Idle EXCEPT !.kind = "chart", !.todo = <<i>>, !.frames = <<t>>,
                             !.key = <<i, t>>, !.seen = latest[<<i, t>>]]
<1>1. Idle \in Jobs
  BY IdleTyped
<1>2. <<i, t>> \in Keys /\ latest[<<i, t>>] \in Snaps
  BY DEF Keys, Names, Frames, ScanInv, StoreTyped
<1>3. <<i>> \in Seq(Names) /\ <<t>> \in Seq(Frames) /\ <<i>> # <<>> /\ <<t>> # <<>>
      /\ Len(<<i>>) = 1 /\ Len(<<t>>) = 1 /\ Head(<<i>>) = i /\ Head(<<t>>) = t
  OBVIOUS
<1>4. r.kind = "chart" /\ r.todo = <<i>> /\ r.frames = <<t>> /\ r.key = <<i, t>> /\ r.seen = latest[<<i, t>>]
  BY <1>1 DEF Jobs
<1>5. r \in Jobs
  BY <1>1, <1>2, <1>3 DEF Jobs, Single
<1>6. Begin(w, r)
  BY DEF ChartSnapshot
<1> HIDE DEF r
<1> QED BY <1>3, <1>4, <1>5, <1>6, BeginOK DEF Single

(* A resolve reads the latest snapshot and queues for the lock.            *)
LEMMA AskOK ==
    ASSUME ScanInv, NEW w \in Workers, NEW i \in Names, NEW t \in Frames, AskSnapshot(w, i, t)
    PROVE  ScanInv'
<1> DEFINE r == [Idle EXCEPT !.pc = "wait", !.kind = "resolve", !.todo = <<i>>, !.frames = <<t>>,
                             !.key = <<i, t>>, !.seen = latest[<<i, t>>]]
<1>1. Idle \in Jobs
  BY IdleTyped
<1>2. <<i, t>> \in Keys /\ latest[<<i, t>>] \in Snaps
  BY DEF Keys, Names, Frames, ScanInv, StoreTyped
<1>3. <<i>> \in Seq(Names) /\ <<t>> \in Seq(Frames) /\ <<i>> # <<>> /\ <<t>> # <<>>
      /\ Len(<<i>>) = 1 /\ Len(<<t>>) = 1 /\ Head(<<i>>) = i /\ Head(<<t>>) = t
  OBVIOUS
<1>4. r.pc = "wait" /\ r.kind = "resolve" /\ r.todo = <<i>> /\ r.frames = <<t>> /\ r.key = <<i, t>>
  BY <1>1 DEF Jobs
<1>5. r \in Jobs
  BY <1>1, <1>2, <1>3 DEF Jobs, Single
<1>6. job' = [job EXCEPT ![w] = r] /\ UNCHANGED <<cached, store, holder>>
  BY DEF AskSnapshot
<1> HIDE DEF r
<1>7. job'[w] = r
  BY <1>6 DEF ScanInv
<1>8. StoreTyped' /\ BarsBacked' /\ UNCHANGED <<cached, latest>>
  BY <1>6 DEF ScanInv, StoreTyped, BarsBacked, store
<1>9. JobOK(w)'
  <2>1. Key(w)' = <<i, t>>
    BY <1>3, <1>4, <1>7 DEF Key, Instrument
  <2>2. "wait" \notin Working /\ "resolve" # "chart" /\ "resolve" \in Single /\ "wait" # "publish"
    BY DEF Working, Single
  <2> QED BY <1>3, <1>4, <1>5, <1>7, <2>1, <2>2 DEF JobOK
<1> QED BY <1>4, <1>6, <1>8, <1>9, StepKeepsOthers DEF Working

(* A resolve that gets the lock.                                           *)
LEMMA ResolveOK == ASSUME ScanInv, NEW w \in Workers, ResolveSnapshot(w) PROVE ScanInv'
<1>1. JobOK(w) /\ job[w] \in Jobs /\ job[w].pc = "wait" /\ Begin(w, job[w])
  BY DEF ResolveSnapshot, ScanInv, JobOK
<1>2. job[w].kind = "resolve"
  BY <1>1 DEF JobOK
<1>3. /\ job[w].todo # <<>> /\ job[w].frames # <<>> /\ Len(job[w].todo) = 1 /\ Len(job[w].frames) = 1
      /\ job[w].key = Key(w)
  BY <1>1, <1>2 DEF JobOK, Single
<1> QED BY <1>1, <1>2, <1>3, BeginOK DEF Key, Instrument, Single

(* An answer that is delivered.                                            *)
LEMMA ReplyOK == ASSUME ScanInv, NEW w \in Workers, Reply(w) PROVE ScanInv'
<1>1. job' = [job EXCEPT ![w] = Idle] /\ UNCHANGED <<cached, store, holder>> /\ Idle.pc = "idle"
  BY DEF Reply, Idle
<1>2. StoreTyped' /\ BarsBacked' /\ UNCHANGED <<cached, latest>>
  BY <1>1 DEF ScanInv, StoreTyped, BarsBacked, store
<1>3. job'[w] = Idle
  BY <1>1 DEF ScanInv
<1>4. JobOK(w)'
  BY <1>1, <1>3, IdleTyped DEF JobOK, Working
<1> QED BY <1>1, <1>2, <1>4, StepKeepsOthers DEF Working

(* A restart of the process.                                               *)
LEMMA RestartOK == ASSUME ScanInv, Restart PROVE ScanInv'
<1>1. /\ job' = [w \in Workers |-> Idle] /\ holder' = {} /\ UNCHANGED cached
      /\ version' = [k \in Keys |-> 0] /\ latest' = [k \in Keys |-> NoSnapshot]
  BY DEF Restart
<1>2. Idle.pc = "idle" /\ NoSnapshot.bar = 0
  BY DEF Idle, NoSnapshot
<1>3. \A w \in Workers : job'[w] = Idle
  BY <1>1
<1>4. \A w \in Workers : JobOK(w)'
  BY <1>2, <1>3, IdleTyped DEF JobOK, Working
<1>5. Locked'
  BY <1>1, <1>2, <1>3 DEF Locked, Working
<1>6. StoreTyped'
  BY <1>1, NoSnapshotTyped DEF ScanInv, StoreTyped
<1>7. \A k \in Keys : latest'[k].bar <= cached'[k]
  BY <1>1, <1>2 DEF ScanInv, StoreTyped
<1> QED BY <1>1, <1>4, <1>5, <1>6, <1>7 DEF ScanInv

(* One instrument skipped.                                                 *)
LEMMA SkipOK ==
    ASSUME ScanInv, NEW w \in Workers, job[w].pc \in Working, Skip(w), UNCHANGED <<cached, store>>
    PROVE  ScanInv'
<1>1. job[w] \in Jobs
  BY DEF ScanInv, JobOK
<1>2. StoreTyped' /\ BarsBacked'
  BY DEF ScanInv, StoreTyped, BarsBacked, store
<1>3. [job[w].done EXCEPT !.skipped = TRUE] \in Statuses
  BY <1>1 DEF Jobs, Statuses
<1> QED BY <1>2, <1>3, NextInstrumentOK DEF Skip

(* Reading the price.                                                      *)
LEMMA ReadPriceOK == ASSUME ScanInv, NEW w \in Workers, ReadPrice(w) PROVE ScanInv'
<1>1. job[w].pc = "price" /\ job[w].pc \in Working /\ UNCHANGED <<cached, store>>
  BY DEF ReadPrice, Working
<1>2. JobOK(w) /\ job[w] \in Jobs /\ w \in holder
  BY <1>1 DEF ScanInv, JobOK, Locked
<1>3. CASE job' = [job EXCEPT ![w].pc = "read"] /\ UNCHANGED holder
  <2> DEFINE j == [job[w] EXCEPT !.pc = "read"]
  <2>1. job' = [job EXCEPT ![w] = j]
    BY <1>3
  <2>2. /\ j.pc = "read" /\ j.kind = job[w].kind /\ j.todo = job[w].todo /\ j.frames = job[w].frames
        /\ j.key = job[w].key /\ j.seen = job[w].seen
    BY <1>2 DEF Jobs
  <2>3. j \in Jobs
    BY <1>2 DEF Jobs, Working
  <2> HIDE DEF j
  <2>4. job'[w] = j
    BY <2>1 DEF ScanInv
  <2>5. StoreTyped' /\ BarsBacked' /\ latest' = latest /\ cached' = cached
    BY <1>1 DEF ScanInv, StoreTyped, BarsBacked, store
  <2>6. JobOK(w)'
    <3>1. Key(w)' = Key(w)
      BY <2>2, <2>4 DEF Key, Instrument
    <3> QED BY <1>1, <1>2, <2>2, <2>3, <2>4, <2>5, <3>1 DEF JobOK, Working
  <2> QED BY <1>2, <1>3, <2>1, <2>2, <2>5, <2>6, StepKeepsOthers
<1>4. CASE Fail(w)
  BY <1>1, <1>4, FailOK
<1> QED BY <1>3, <1>4 DEF ReadPrice

(* Reading the candles.                                                    *)
LEMMA ReadCandlesOK == ASSUME ScanInv, NEW w \in Workers, ReadCandles(w) PROVE ScanInv'
<1>1. job[w].pc = "read" /\ job[w].pc \in Working /\ UNCHANGED store
  BY DEF ReadCandles, Working
<1>2. JobOK(w) /\ job[w] \in Jobs /\ w \in holder /\ Key(w) \in Keys
  BY <1>1, KeyTyped DEF ScanInv, JobOK, Locked
<1>3. CASE Skip(w) /\ UNCHANGED cached
  BY <1>1, <1>3, SkipOK
<1>4. ASSUME NEW bar \in (IF CacheOnly(w) THEN {cached[Key(w)]} ELSE cached[Key(w)] .. MaxBar) \ {0},
             cached' = [cached EXCEPT ![Key(w)] = bar],
             job' = [job EXCEPT ![w].pc = "publish", ![w].bar = bar],
             UNCHANGED holder
      PROVE  ScanInv'
  <2> DEFINE j == [job[w] EXCEPT !.pc = "publish", !.bar = bar]
  <2>1. job' = [job EXCEPT ![w] = j]
    BY <1>4
  <2>2. cached \in [Keys -> Nat] /\ MaxBar \in Nat /\ cached[Key(w)] \in Nat
    BY <1>2, BoundsType DEF ScanInv, StoreTyped
  <2>3. bar \in Nat /\ cached[Key(w)] <= bar
    <3>1. CASE CacheOnly(w)
      BY <1>4, <2>2, <3>1
    <3>2. CASE ~CacheOnly(w)
      BY <1>4, <2>2, <3>2
    <3> QED BY <3>1, <3>2
  <2>4. /\ j.pc = "publish" /\ j.kind = job[w].kind /\ j.todo = job[w].todo /\ j.frames = job[w].frames
        /\ j.key = job[w].key /\ j.seen = job[w].seen /\ j.bar = bar
    BY <1>2 DEF Jobs
  <2>5. j \in Jobs
    BY <1>2, <2>3 DEF Jobs, Working
  <2> HIDE DEF j
  <2>6. job'[w] = j
    BY <2>1 DEF ScanInv
  <2>7. StoreTyped' /\ latest' = latest /\ cached'[Key(w)] = bar
    BY <1>1, <1>2, <1>4, <2>2, <2>3 DEF ScanInv, StoreTyped, store
  <2>8. BarsBacked'
    <3>1. ASSUME NEW k \in Keys PROVE latest[k].bar <= cached'[k]
      <4>1. latest[k].bar \in Nat /\ cached[k] \in Nat /\ latest[k].bar <= cached[k]
        BY DEF ScanInv, StoreTyped, Snaps
      <4>2. CASE k = Key(w)
        BY <2>3, <2>7, <4>1, <4>2
      <4>3. CASE k # Key(w)
        BY <1>4, <2>2, <4>1, <4>3
      <4> QED BY <4>2, <4>3
    <3> QED BY <2>7, <3>1 DEF BarsBacked
  <2>9. JobOK(w)'
    <3>1. Key(w)' = Key(w)
      BY <2>4, <2>6 DEF Key, Instrument
    <3> QED BY <1>1, <1>2, <2>4, <2>5, <2>6, <2>7, <3>1 DEF JobOK, Working
  <2> QED BY <1>2, <1>4, <2>1, <2>4, <2>7, <2>8, <2>9, StepKeepsOthers
<1>5. CASE Fail(w) /\ UNCHANGED cached
  BY <1>1, <1>5, FailOK
<1> QED BY <1>3, <1>4, <1>5 DEF ReadCandles

(* What publishing one snapshot leaves.                                    *)
LEMMA Published ==
    ASSUME ScanInv, NEW w \in Workers, job[w].pc = "publish", UNCHANGED cached,
           Publish(Key(w), [NoSnapshot EXCEPT !.bar = job[w].bar, !.spread = Spread(w)])
    PROVE  /\ StoreTyped' /\ BarsBacked'
           /\ \A k \in Keys : k # Key(w) => latest'[k] = latest[k] /\ version'[k] = version[k]
           /\ Key(w) \in Keys /\ latest'[Key(w)].bar = cached[Key(w)] /\ latest'[Key(w)].spread = Spread(w)
<1> DEFINE snap == [NoSnapshot EXCEPT !.bar = job[w].bar, !.spread = Spread(w)]
           v    == version[Key(w)] + 1
           new  == [snap EXCEPT !.version = v]
<1>1. JobOK(w) /\ job[w] \in Jobs /\ Key(w) \in Keys /\ job[w].bar = cached[Key(w)]
  BY KeyTyped DEF ScanInv, JobOK, Working
<1>2. latest[Key(w)] \in Snaps /\ v \in Nat /\ job[w].bar \in Nat
  BY <1>1 DEF ScanInv, StoreTyped, Jobs
<1>3. Spread(w) \in {"none", "live", "synthetic"}
  BY <1>2 DEF Spread, Snaps
<1>4. version' = [version EXCEPT ![Key(w)] = v] /\ latest' = [latest EXCEPT ![Key(w)] = new]
  BY DEF Publish
<1>5. new \in Snaps /\ new.bar = cached[Key(w)] /\ new.spread = Spread(w)
  BY <1>1, <1>2, <1>3, NoSnapshotTyped DEF Snaps
<1> HIDE DEF new, v, snap
<1>6. StoreTyped'
  BY <1>1, <1>2, <1>4, <1>5 DEF ScanInv, StoreTyped
<1>7. latest'[Key(w)] = new /\ \A k \in Keys : k # Key(w) => latest'[k] = latest[k] /\ version'[k] = version[k]
  BY <1>1, <1>4 DEF ScanInv, StoreTyped
<1>8. BarsBacked'
  <2>1. ASSUME NEW k \in Keys PROVE latest'[k].bar <= cached[k]
    <3>1. cached[k] \in Nat /\ latest[k].bar <= cached[k]
      BY DEF ScanInv, StoreTyped
    <3>2. CASE k = Key(w)
      BY <1>5, <1>7, <3>1, <3>2
    <3>3. CASE k # Key(w)
      BY <1>7, <3>1, <3>3
    <3> QED BY <3>2, <3>3
  <2> QED BY <2>1 DEF BarsBacked
<1> QED BY <1>1, <1>5, <1>6, <1>7, <1>8

(* What a scanned instrument adds to the status.                           *)
LEMMA ScannedTyped ==
    ASSUME NEW w \in Workers, job[w] \in Jobs, Instrument(w) \in Names
    PROVE  Scanned(w) \in Statuses /\ Report(Scanned(w)) \in Statuses
<1>1. Len(Timeframes) \in Nat
  BY ScanType
<1>2. job[w].done \in Statuses
  BY DEF Jobs
<1>3. job[w].done.published + (IF job[w].kind \in {"full", "instrument"} THEN Len(Timeframes) ELSE 1) \in Nat
  BY <1>1, <1>2 DEF Statuses
<1>4. Scanned(w) \in Statuses
  BY <1>2, <1>3 DEF Scanned, Statuses
<1> QED BY <1>4 DEF Report, Statuses

(* Publishing a snapshot.                                                  *)
LEMMA PublishOK == ASSUME ScanInv, NEW w \in Workers, PublishSnapshot(w) PROVE ScanInv'
<1>1. job[w].pc = "publish" /\ job[w].pc \in Working /\ UNCHANGED cached
  BY DEF PublishSnapshot, Working
<1>2. JobOK(w) /\ job[w] \in Jobs /\ w \in holder /\ Instrument(w) \in Names
  BY <1>1, KeyTyped DEF ScanInv, JobOK, Locked
<1>3. CASE Fail(w) /\ UNCHANGED store
  BY <1>1, <1>3, FailOK
<1>4. CASE Publish(Key(w), [NoSnapshot EXCEPT !.bar = job[w].bar, !.spread = Spread(w)]) /\ ~(Fail(w) /\ UNCHANGED store)
  <2>1. StoreTyped' /\ BarsBacked'
    BY <1>1, <1>4, Published
  <2>2. CASE Len(job[w].frames) > 1 /\ job' = [job EXCEPT ![w].pc = "read", ![w].frames = Tail(@)] /\ UNCHANGED holder
    <3> DEFINE j == [job[w] EXCEPT !.pc = "read", !.frames = Tail(@)]
    <3>1. job' = [job EXCEPT ![w] = j]
      BY <2>2
    <3>2. job[w].frames \in Seq(Frames)
      BY <1>2 DEF Jobs
    <3>3. Tail(job[w].frames) \in Seq(Frames) /\ Tail(job[w].frames) # <<>> /\ Len(job[w].frames) # 1
      BY <2>2, <3>2, TailTyped
    <3>4. job[w].kind \notin Single /\ job[w].key = <<>> /\ job[w].seen = NoSnapshot /\ job[w].todo # <<>>
      BY <1>1, <1>2, <3>3 DEF JobOK
    <3>5. /\ j.pc = "read" /\ j.kind = job[w].kind /\ j.todo = job[w].todo /\ j.frames # <<>>
          /\ j.key = job[w].key /\ j.seen = job[w].seen
      BY <1>2, <3>3 DEF Jobs
    <3>6. j \in Jobs
      BY <1>2, <3>3 DEF Jobs, Working
    <3> HIDE DEF j
    <3>7. job'[w] = j
      BY <3>1 DEF ScanInv
    <3>8. JobOK(w)'
      BY <3>4, <3>5, <3>6, <3>7 DEF JobOK, Working, Single
    <3> QED BY <1>2, <2>1, <2>2, <3>1, <3>8, StepKeepsOthers
  <2>3. Scanned(w) \in Statuses /\ Report(Scanned(w)) \in Statuses
    BY <1>2, ScannedTyped
  <2>4. CASE NextInstrument(w, Scanned(w))
    BY <1>1, <2>1, <2>3, <2>4, NextInstrumentOK
  <2>5. CASE Finish(w, Report(Scanned(w)), IF job[w].key = <<>> THEN NoSnapshot ELSE latest'[job[w].key])
    <3>1. (IF job[w].key = <<>> THEN NoSnapshot ELSE latest'[job[w].key]) \in Snaps
      BY <1>2, <2>1, NoSnapshotTyped DEF StoreTyped, Jobs
    <3> QED BY <1>1, <2>1, <2>3, <2>5, <3>1, FinishOK
  <2> QED BY <1>4, <2>2, <2>4, <2>5 DEF PublishSnapshot
<1> QED BY <1>3, <1>4 DEF PublishSnapshot

-----------------------------------------------------------------------------
(* The invariant.                                                          *)

(* The invariant holds at first.                                           *)
LEMMA ScanInit == Init => ScanInv
<1>1. SUFFICES ASSUME Init PROVE ScanInv
  OBVIOUS
<1>2. /\ cached \in [Keys -> {0, 1}] /\ version = [k \in Keys |-> 0] /\ latest = [k \in Keys |-> NoSnapshot]
      /\ holder = {} /\ job = [w \in Workers |-> Idle]
  BY <1>1 DEF Init, EmptyStore
<1>3. Idle.pc = "idle" /\ NoSnapshot.bar = 0
  BY DEF Idle, NoSnapshot
<1>4. \A w \in Workers : job[w] = Idle
  BY <1>2
<1>5. \A w \in Workers : JobOK(w)
  BY <1>3, <1>4, IdleTyped DEF JobOK, Working
<1>6. Locked
  BY <1>2, <1>3, <1>4 DEF Locked, Working
<1>7. StoreTyped
  BY <1>2, NoSnapshotTyped DEF StoreTyped
<1>8. \A k \in Keys : latest[k].bar <= cached[k]
  BY <1>2, <1>3
<1> QED BY <1>2, <1>5, <1>6, <1>7, <1>8 DEF ScanInv

(* What a single request names is scanned.                                 *)
LEMMA NamedTyped ==
    /\ Named \subseteq Names
    /\ \A t \in 1 .. Len(Timeframes) : Timeframes[t] \in Frames
    /\ Scanners \subseteq Workers /\ Readers \subseteq Workers
BY NamedAreScanned DEF Names, Frames, Workers

(* Every step keeps the invariant.                                         *)
LEMMA ScanStepOK == ScanInv /\ [Next]_vars => ScanInv'
<1>1. SUFFICES ASSUME ScanInv, [Next]_vars PROVE ScanInv'
  OBVIOUS
<1>2. CASE Restart
  BY <1>1, <1>2, RestartOK
<1>3. ASSUME NEW w \in Scanners, NEW force \in BOOLEAN, ScanAll(w, force) PROVE ScanInv'
  BY <1>1, <1>3, NamedTyped, ScanLists, ScannersBegin DEF ScanAll
<1>4. ASSUME NEW w \in Scanners, NEW force \in BOOLEAN, NEW i \in Named, RefreshInstrument(w, i, force) PROVE ScanInv'
  <2>1. i \in Names /\ <<i>> \in Seq(Names) /\ <<i>> # <<>>
    BY NamedTyped
  <2> QED BY <1>1, <1>4, <2>1, NamedTyped, ScanLists, ScannersBegin DEF RefreshInstrument
<1>5. ASSUME NEW w \in Scanners, NEW force \in BOOLEAN, NEW i \in Named, NEW t \in 1 .. Len(Timeframes),
             RefreshSnapshot(w, i, Timeframes[t], force)
      PROVE  ScanInv'
  <2>1. /\ i \in Names /\ <<i>> \in Seq(Names) /\ <<i>> # <<>>
        /\ <<Timeframes[t]>> \in Seq(Frames) /\ <<Timeframes[t]>> # <<>>
    BY NamedTyped
  <2> QED BY <1>1, <1>5, <2>1, NamedTyped, ScannersBegin DEF RefreshSnapshot
<1>6. ASSUME NEW w \in Readers, NEW i \in Named, NEW t \in 1 .. Len(Timeframes),
             AskSnapshot(w, i, Timeframes[t]) \/ ChartSnapshot(w, i, Timeframes[t])
      PROVE  ScanInv'
  BY <1>1, <1>6, NamedTyped, AskOK, ReadersBegin
<1>7. ASSUME NEW w \in Readers, ResolveSnapshot(w) PROVE ScanInv'
  BY <1>1, <1>7, NamedTyped, ResolveOK
<1>8. ASSUME NEW w \in Workers, ScanStep(w) PROVE ScanInv'
  BY <1>1, <1>8, ReadPriceOK, ReadCandlesOK, PublishOK, ReplyOK DEF ScanStep
<1>9. CASE UNCHANGED vars
  <2>1. UNCHANGED <<cached, version, latest, holder, job>>
    BY <1>9 DEF vars, store
  <2> QED BY <1>1, <2>1 DEF ScanInv, StoreTyped, Locked, JobOK, Key, Instrument
<1> QED BY <1>1, <1>2, <1>3, <1>4, <1>5, <1>6, <1>7, <1>8, <1>9 DEF Next

(* The invariant holds in every state.                                     *)
THEOREM ScansKeepOrder == Spec => []ScanInv
<1>1. Init => ScanInv
  BY ScanInit
<1>2. ScanInv /\ [Next]_vars => ScanInv'
  BY ScanStepOK
<1> QED BY <1>1, <1>2, PTL DEF Spec

-----------------------------------------------------------------------------
(* What is published.                                                      *)

StoreStep ==
    \/ UNCHANGED <<version, latest, history>>
    \/ Restart
    \/ \E w \in Workers :
          /\ job[w].pc = "publish" /\ UNCHANGED cached
          /\ Publish(Key(w), [NoSnapshot EXCEPT !.bar = job[w].bar, !.spread = Spread(w)])

(* Only a scan that publishes and a restart change the store.              *)
LEMMA StoreSteps == [Next]_vars => StoreStep
<1>1. SUFFICES ASSUME [Next]_vars PROVE StoreStep
  OBVIOUS
<1>2. ASSUME NEW w \in Workers, NEW request, Begin(w, request) PROVE StoreStep
  BY <1>2 DEF Begin, Enter, StoreStep, store
<1>3. CASE Restart
  BY <1>3 DEF StoreStep
<1>4. ASSUME NEW w \in Scanners, NEW force \in BOOLEAN,
             \/ ScanAll(w, force)
             \/ \E i \in Named : RefreshInstrument(w, i, force)
             \/ \E i \in Named, t \in 1 .. Len(Timeframes) : RefreshSnapshot(w, i, Timeframes[t], force)
      PROVE  StoreStep
  BY <1>2, <1>4, NamedTyped DEF ScanAll, RefreshInstrument, RefreshSnapshot
<1>5. ASSUME NEW w \in Readers, NEW i \in Named, NEW t \in 1 .. Len(Timeframes),
             \/ AskSnapshot(w, i, Timeframes[t])
             \/ ChartSnapshot(w, i, Timeframes[t])
      PROVE  StoreStep
  BY <1>2, <1>5, NamedTyped DEF AskSnapshot, ChartSnapshot, StoreStep, store
<1>6. ASSUME NEW w \in Readers, ResolveSnapshot(w) PROVE StoreStep
  BY <1>2, <1>6, NamedTyped DEF ResolveSnapshot
<1>7. ASSUME NEW w \in Workers, ScanStep(w) PROVE StoreStep
  BY <1>7 DEF ScanStep, ReadPrice, ReadCandles, PublishSnapshot, Reply, StoreStep, store
<1>8. CASE UNCHANGED vars
  BY <1>8 DEF vars, store, StoreStep
<1> QED BY <1>1, <1>3, <1>4, <1>5, <1>6, <1>7, <1>8 DEF Next

(* A published snapshot shows what is cached, and nothing published before *)
(* is newer than that.                                                     *)
LEMMA BarsStep ==
    ASSUME ScanInv, [Next]_vars, NEW k \in Keys, version'[k] > version[k]
    PROVE  latest'[k].bar >= latest[k].bar
<1>1. version[k] \in Nat /\ latest[k].bar \in Nat /\ cached[k] \in Nat /\ latest[k].bar <= cached[k]
  BY DEF ScanInv, StoreTyped, Snaps
<1>2. CASE UNCHANGED <<version, latest, history>>
  BY <1>1, <1>2
<1>3. CASE Restart
  BY <1>1, <1>3 DEF Restart
<1>4. ASSUME NEW w \in Workers, job[w].pc = "publish", UNCHANGED cached,
             Publish(Key(w), [NoSnapshot EXCEPT !.bar = job[w].bar, !.spread = Spread(w)])
      PROVE  latest'[k].bar >= latest[k].bar
  <2>1. /\ k # Key(w) => latest'[k] = latest[k]
        /\ latest'[Key(w)].bar = cached[Key(w)]
    BY <1>4, Published
  <2>2. CASE k = Key(w)
    BY <1>1, <2>1, <2>2
  <2>3. CASE k # Key(w)
    BY <1>1, <2>1, <2>3
  <2> QED BY <2>2, <2>3
<1> QED BY <1>2, <1>3, <1>4, StoreSteps DEF StoreStep

(* A newer version never shows an older candle.                            *)
THEOREM NewerShowsNoOlder == Spec => BarsNeverGoBack
<1>1. ScanInv /\ [Next]_vars => [\A k \in Keys : version'[k] > version[k] => latest'[k].bar >= latest[k].bar]_vars
  BY BarsStep
<1> QED BY <1>1, ScansKeepOrder, PTL DEF Spec, BarsNeverGoBack

(* The spread of a key whose last one was live.                            *)
LEMMA SpreadStep ==
    ASSUME ScanInv, [Next]_vars, NEW k \in Keys, latest[k].spread = "live", version'[k] > 0
    PROVE  latest'[k].spread = "live"
<1>1. CASE UNCHANGED <<version, latest>>
  BY <1>1
<1>2. CASE Restart
  BY <1>2 DEF Restart
<1>3. ASSUME NEW w \in Workers, job[w].pc = "publish", UNCHANGED cached,
             Publish(Key(w), [NoSnapshot EXCEPT !.bar = job[w].bar, !.spread = Spread(w)])
      PROVE  latest'[k].spread = "live"
  <2>1. /\ k # Key(w) => latest'[k] = latest[k]
        /\ latest'[Key(w)].spread = Spread(w)
    BY <1>3, Published
  <2>2. ASSUME k = Key(w) PROVE Spread(w) = "live"
    <3>1. latest[Key(w)].spread = "live"
      BY <2>2
    <3>2. latest[Key(w)] # NoSnapshot
      BY <3>1 DEF NoSnapshot
    <3> QED BY <3>1, <3>2 DEF Spread
  <2> QED BY <2>1, <2>2
<1> QED BY <1>1, <1>2, <1>3, StoreSteps DEF StoreStep

(* A live spread is never replaced by one made up from a close.            *)
THEOREM LiveSpreadSurvives == Spec => LiveSpreadKept
<1>1. ScanInv /\ [Next]_vars =>
        [\A k \in Keys : latest[k].spread = "live" /\ version'[k] > 0 => latest'[k].spread = "live"]_vars
  BY SpreadStep
<1> QED BY <1>1, ScansKeepOrder, PTL DEF Spec, LiveSpreadKept

-----------------------------------------------------------------------------
(* What a request answers.                                                 *)

AnswerOK(w) ==
    job[w].pc # "answered" /\ job'[w].pc = "answered" /\ job'[w].seen # NoSnapshot
    => job'[w].seen.bar >= latest'[job'[w].key].bar

(* A step that leaves w with j answers w alone.                            *)
LEMMA AnswersOne ==
    ASSUME ScanInv, NEW w \in Workers, NEW j, job' = [job EXCEPT ![w] = j],
           j.pc = "answered" /\ j.seen # NoSnapshot => j.seen.bar >= latest'[j.key].bar
    PROVE  \A v \in Workers : AnswerOK(v)
<1>1. job'[w] = j /\ \A v \in Workers : v # w => job'[v] = job[v]
  BY DEF ScanInv
<1> QED BY <1>1 DEF AnswerOK

(* A request that does not leave the lock gives no answer.                 *)
LEMMA AnswersNone ==
    ASSUME ScanInv, NEW w \in Workers, NEW j, job' = [job EXCEPT ![w] = j], j.pc # "answered"
    PROVE  \A v \in Workers : AnswerOK(v)
BY AnswersOne

(* A request that leaves the lock answers with what it was given.          *)
LEMMA FinishAnswers ==
    ASSUME ScanInv, NEW w \in Workers, NEW status, NEW answer, Finish(w, status, answer),
           answer # NoSnapshot => answer.bar >= latest'[job[w].key].bar
    PROVE  \A v \in Workers : AnswerOK(v)
<1> DEFINE j == [Idle EXCEPT !.pc = "answered", !.kind = job[w].kind, !.since = job[w].since,
                             !.done = status, !.key = job[w].key, !.seen = answer]
<1>1. job' = [job EXCEPT ![w] = j]
  BY DEF Finish
<1>2. j.key = job[w].key /\ j.seen = answer
  BY IdleTyped DEF Jobs
<1> HIDE DEF j
<1> QED BY <1>1, <1>2, AnswersOne

(* An answer that was read earlier is not older than the latest snapshot.  *)
LEMMA NextAnswers ==
    ASSUME ScanInv, NEW w \in Workers, NEW done, NextInstrument(w, done),
           job[w].seen # NoSnapshot => job[w].seen.bar >= latest'[job[w].key].bar
    PROVE  \A v \in Workers : AnswerOK(v)
<1>1. CASE Len(job[w].todo) > 1
  <2> DEFINE j == [job[w] EXCEPT !.pc = "price", !.todo = Tail(@), !.frames = Timeframes, !.done = done]
  <2>1. job' = [job EXCEPT ![w] = j]
    BY <1>1 DEF NextInstrument
  <2>2. job[w] \in Jobs
    BY DEF ScanInv, JobOK
  <2>3. j.pc # "answered"
    BY <2>2 DEF Jobs
  <2> HIDE DEF j
  <2> QED BY <2>1, <2>3, AnswersNone
<1>2. CASE ~(Len(job[w].todo) > 1)
  <2>1. Finish(w, Report(done), job[w].seen)
    BY <1>2 DEF NextInstrument
  <2> QED BY <2>1, FinishAnswers
<1> QED BY <1>1, <1>2

(* What a chart read under the lock is the latest snapshot.                *)
LEMMA ChartSeen ==
    ASSUME ScanInv, NEW w \in Workers, job[w].pc \in Working, job[w].kind = "chart", latest' = latest
    PROVE  job[w].seen.bar >= latest'[job[w].key].bar
<1>1. JobOK(w) /\ Key(w) \in Keys
  BY KeyTyped DEF ScanInv
<1>2. job[w].key = Key(w) /\ job[w].seen = latest[Key(w)]
  BY <1>1 DEF JobOK, Single
<1>3. latest[Key(w)].bar \in Nat
  BY <1>1 DEF ScanInv, StoreTyped, Snaps
<1> QED BY <1>2, <1>3

(* A failed chart answers with the latest snapshot, nothing else answers.  *)
LEMMA FailAnswers ==
    ASSUME ScanInv, NEW w \in Workers, job[w].pc \in Working, Fail(w), latest' = latest
    PROVE  \A v \in Workers : AnswerOK(v)
<1>1. JobOK(w)
  BY DEF ScanInv
<1>2. CASE job[w].kind = "full"
  <2>1. job[w].seen = NoSnapshot
    BY <1>1, <1>2 DEF JobOK, Single
  <2> QED BY <1>2, <2>1, NextAnswers DEF Fail
<1>3. CASE job[w].kind = "chart"
  <2>1. Finish(w, NoScan, job[w].seen)
    BY <1>3 DEF Fail, Raise
  <2> QED BY <1>3, <2>1, ChartSeen, FinishAnswers
<1>4. CASE job[w].kind # "full" /\ job[w].kind # "chart"
  <2>1. Finish(w, NoScan, NoSnapshot)
    BY <1>4 DEF Fail, Raise
  <2> QED BY <2>1, FinishAnswers
<1> QED BY <1>2, <1>3, <1>4

(* Nothing is published of what is not cached.                             *)
LEMMA SkipAnswers ==
    ASSUME ScanInv, NEW w \in Workers, job[w].pc \in Working, Skip(w), latest' = latest, cached[Key(w)] = 0
    PROVE  \A v \in Workers : AnswerOK(v)
<1>1. JobOK(w) /\ job[w] \in Jobs /\ Key(w) \in Keys
  BY KeyTyped DEF ScanInv, JobOK
<1>2. latest[Key(w)].bar \in Nat /\ latest[Key(w)].bar <= 0 /\ job[w].seen.bar \in Nat
  BY <1>1 DEF ScanInv, StoreTyped, Snaps, Jobs
<1>3. CASE job[w].kind \in Single
  <2>1. job[w].key = Key(w)
    BY <1>1, <1>3 DEF JobOK
  <2>2. job[w].seen.bar >= latest'[job[w].key].bar
    BY <1>2, <2>1
  <2> QED BY <2>2, NextAnswers DEF Skip
<1>4. CASE job[w].kind \notin Single
  <2>1. job[w].seen = NoSnapshot
    BY <1>1, <1>4 DEF JobOK
  <2> QED BY <2>1, NextAnswers DEF Skip
<1> QED BY <1>3, <1>4

(* A scan that published its last snapshot answers with it.                *)
LEMMA PublishAnswers ==
    ASSUME ScanInv, NEW w \in Workers, PublishSnapshot(w)
    PROVE  \A v \in Workers : AnswerOK(v)
<1>1. job[w].pc = "publish" /\ job[w].pc \in Working /\ UNCHANGED cached
  BY DEF PublishSnapshot, Working
<1>2. JobOK(w) /\ job[w] \in Jobs
  BY <1>1 DEF ScanInv, JobOK
<1>3. CASE Fail(w) /\ UNCHANGED store
  BY <1>1, <1>3, FailAnswers DEF store
<1>4. CASE job' = [job EXCEPT ![w].pc = "read", ![w].frames = Tail(@)]
  <2> DEFINE j == [job[w] EXCEPT !.pc = "read", !.frames = Tail(@)]
  <2>1. job' = [job EXCEPT ![w] = j]
    BY <1>4
  <2>2. j.pc # "answered"
    BY <1>2 DEF Jobs
  <2> HIDE DEF j
  <2> QED BY <2>1, <2>2, AnswersNone
<1>5. CASE Len(job[w].todo) > 1 /\ NextInstrument(w, Scanned(w))
  <2>1. job[w].todo \in Seq(Names)
    BY <1>2 DEF Jobs
  <2>2. Len(job[w].todo) # 1
    BY <1>5, <2>1, TailTyped
  <2>3. job[w].seen = NoSnapshot
    BY <1>1, <1>2, <2>2 DEF JobOK
  <2> QED BY <1>5, <2>3, NextAnswers
<1>6. CASE /\ Publish(Key(w), [NoSnapshot EXCEPT !.bar = job[w].bar, !.spread = Spread(w)])
           /\ Finish(w, Report(Scanned(w)), IF job[w].key = <<>> THEN NoSnapshot ELSE latest'[job[w].key])
  <2> DEFINE answer == IF job[w].key = <<>> THEN NoSnapshot ELSE latest'[job[w].key]
  <2>1. latest' \in [Keys -> Snaps]
    BY <1>1, <1>6, Published DEF StoreTyped
  <2>2. answer # NoSnapshot => answer.bar >= latest'[job[w].key].bar
    BY <1>2, <2>1 DEF Jobs, Snaps
  <2> HIDE DEF answer
  <2>3. Finish(w, Report(Scanned(w)), answer)
    BY <1>6 DEF answer
  <2> QED BY <2>2, <2>3, FinishAnswers
<1> QED BY <1>3, <1>4, <1>5, <1>6 DEF PublishSnapshot

(* A request that reads answers only if it fails or is skipped.            *)
LEMMA ReadAnswers ==
    ASSUME ScanInv, NEW w \in Workers, ReadPrice(w) \/ ReadCandles(w)
    PROVE  \A v \in Workers : AnswerOK(v)
<1>1. job[w] \in Jobs /\ latest' = latest /\ job[w].pc \in Working
  BY DEF ScanInv, JobOK, ReadPrice, ReadCandles, store, Working
<1>2. CASE Fail(w)
  BY <1>1, <1>2, FailAnswers
<1>3. CASE cached[Key(w)] = 0 /\ Skip(w)
  BY <1>1, <1>3, SkipAnswers
<1>4. CASE job' = [job EXCEPT ![w].pc = "read"]
  <2> DEFINE j == [job[w] EXCEPT !.pc = "read"]
  <2>1. job' = [job EXCEPT ![w] = j] /\ j.pc # "answered"
    BY <1>1, <1>4 DEF Jobs
  <2> HIDE DEF j
  <2> QED BY <2>1, AnswersNone
<1>5. ASSUME NEW bar, job' = [job EXCEPT ![w].pc = "publish", ![w].bar = bar]
      PROVE  \A v \in Workers : AnswerOK(v)
  <2> DEFINE j == [job[w] EXCEPT !.pc = "publish", !.bar = bar]
  <2>1. job' = [job EXCEPT ![w] = j]
    BY <1>5
  <2>2. j.pc # "answered"
    BY <1>1 DEF Jobs
  <2> HIDE DEF j
  <2> QED BY <2>1, <2>2, AnswersNone
<1> QED BY <1>2, <1>3, <1>4, <1>5 DEF ReadPrice, ReadCandles

(* A request that enters the lock or waits for it gives no answer.         *)
LEMMA BeginAnswers ==
    ASSUME ScanInv, NEW w \in Workers, NEW request \in Jobs, Begin(w, request)
    PROVE  \A v \in Workers : AnswerOK(v)
<1>1. PICK hours \in BOOLEAN :
         job' = [job EXCEPT ![w] = [request EXCEPT !.pc = "price", !.since = version,
                                                   !.hours = hours, !.force = @ /\ ~hours]]
  BY DEF Begin, Enter
<1> DEFINE j == [request EXCEPT !.pc = "price", !.since = version, !.hours = hours, !.force = @ /\ ~hours]
<1>2. j.pc # "answered" /\ job' = [job EXCEPT ![w] = j]
  BY <1>1 DEF Jobs
<1> HIDE DEF j
<1> QED BY <1>2, AnswersNone

(* What the requests start with.                                           *)
LEMMA RequestsTyped ==
    ASSUME ScanInv, NEW i \in Names, NEW t \in Frames, NEW force \in BOOLEAN
    PROVE  /\ [Idle EXCEPT !.kind = "full", !.todo = Instruments, !.frames = Timeframes, !.force = force] \in Jobs
           /\ [Idle EXCEPT !.kind = "instrument", !.todo = <<i>>, !.frames = Timeframes, !.force = force] \in Jobs
           /\ [Idle EXCEPT !.kind = "snapshot", !.todo = <<i>>, !.frames = <<t>>, !.force = force] \in Jobs
           /\ [Idle EXCEPT !.kind = "chart", !.todo = <<i>>, !.frames = <<t>>,
                           !.key = <<i, t>>, !.seen = latest[<<i, t>>]] \in Jobs
<1>1. Idle \in Jobs
  BY IdleTyped
<1>2. <<i, t>> \in Keys /\ latest[<<i, t>>] \in Snaps
  BY DEF Keys, Names, Frames, ScanInv, StoreTyped
<1>3. <<i>> \in Seq(Names) /\ <<t>> \in Seq(Frames)
  OBVIOUS
<1> QED BY <1>1, <1>2, <1>3, ScanLists DEF Jobs, Single

(* No step answers with an older candle than is published.                 *)
LEMMA AnswerSteps ==
    ASSUME ScanInv, [Next]_vars
    PROVE  \A v \in Workers : AnswerOK(v)
<1>1. CASE Restart
  <2>1. \A v \in Workers : job'[v].pc = "idle"
    BY <1>1 DEF Restart, Idle
  <2> QED BY <2>1 DEF AnswerOK
<1>2. PICK i0 \in Names, t0 \in Frames : TRUE
  <2>1. Len(Instruments) \in Nat /\ Len(Timeframes) \in Nat
    BY ScanType
  <2>2. 1 \in 1 .. Len(Instruments) /\ 1 \in 1 .. Len(Timeframes)
    BY <2>1, ScanType
  <2>3. Instruments[1] \in Names /\ Timeframes[1] \in Frames
    BY <2>2 DEF Names, Frames
  <2> QED BY <2>3
<1>3. ASSUME NEW w \in Scanners, NEW force \in BOOLEAN, ScanAll(w, force)
      PROVE  \A v \in Workers : AnswerOK(v)
  BY <1>2, <1>3, NamedTyped, RequestsTyped, BeginAnswers DEF ScanAll
<1>4. ASSUME NEW w \in Scanners, NEW force \in BOOLEAN, NEW i \in Named, RefreshInstrument(w, i, force)
      PROVE  \A v \in Workers : AnswerOK(v)
  BY <1>2, <1>4, NamedTyped, RequestsTyped, BeginAnswers DEF RefreshInstrument
<1>5. ASSUME NEW w \in Scanners, NEW force \in BOOLEAN, NEW i \in Named, NEW t \in 1 .. Len(Timeframes),
             RefreshSnapshot(w, i, Timeframes[t], force)
      PROVE  \A v \in Workers : AnswerOK(v)
  BY <1>5, NamedTyped, RequestsTyped, BeginAnswers DEF RefreshSnapshot
<1>6. ASSUME NEW w \in Readers, NEW i \in Named, NEW t \in 1 .. Len(Timeframes),
             ChartSnapshot(w, i, Timeframes[t])
      PROVE  \A v \in Workers : AnswerOK(v)
  BY <1>6, NamedTyped, RequestsTyped, BeginAnswers DEF ChartSnapshot
<1>7. ASSUME NEW w \in Readers, ResolveSnapshot(w)
      PROVE  \A v \in Workers : AnswerOK(v)
  BY <1>7, NamedTyped, BeginAnswers DEF ResolveSnapshot, ScanInv, JobOK
<1>8. ASSUME NEW w \in Readers, NEW i \in Named, NEW t \in 1 .. Len(Timeframes),
             AskSnapshot(w, i, Timeframes[t])
      PROVE  \A v \in Workers : AnswerOK(v)
  <2> DEFINE j == [Idle EXCEPT !.pc = "wait", !.kind = "resolve", !.todo = <<i>>, !.frames = <<Timeframes[t]>>,
                               !.key = <<i, Timeframes[t]>>, !.seen = latest[<<i, Timeframes[t]>>]]
  <2>1. job' = [job EXCEPT ![w] = j] /\ w \in Workers
    BY <1>8, NamedTyped DEF AskSnapshot
  <2>2. j.pc # "answered"
    BY IdleTyped DEF Jobs
  <2> HIDE DEF j
  <2> QED BY <2>1, <2>2, AnswersNone
<1>9. ASSUME NEW w \in Workers, Reply(w)
      PROVE  \A v \in Workers : AnswerOK(v)
  <2>1. job' = [job EXCEPT ![w] = Idle] /\ Idle.pc # "answered"
    BY <1>9 DEF Reply, Idle
  <2> QED BY <2>1, AnswersNone
<1>10. ASSUME NEW w \in Workers, ScanStep(w)
       PROVE  \A v \in Workers : AnswerOK(v)
  BY <1>9, <1>10, ReadAnswers, PublishAnswers DEF ScanStep
<1>11. CASE UNCHANGED vars
  BY <1>11 DEF vars, AnswerOK
<1> QED BY <1>1, <1>3, <1>4, <1>5, <1>6, <1>7, <1>8, <1>10, <1>11 DEF Next

(* An answer is never older than what is published when it is given, though *)
(* a resolve and a chart may fall back on a snapshot read earlier.         *)
THEOREM AnswersNotOlder == Spec => AnswersAreNewest
<1>1. ScanInv /\ [Next]_vars =>
        [\A w \in Workers :
           job[w].pc # "answered" /\ job'[w].pc = "answered" /\ job'[w].seen # NoSnapshot
           => job'[w].seen.bar >= latest'[job'[w].key].bar]_vars
  BY AnswerSteps DEF AnswerOK
<1> QED BY <1>1, ScansKeepOrder, PTL DEF Spec, AnswersAreNewest

-----------------------------------------------------------------------------
(* PinnedWindow: the history of a key is a window of its versions.         *)

Kept(v) == IF v > Retention + 1 THEN Retention + 1 ELSE v
Oldest(v) == v - Kept(v) + 1

(* Each version from the oldest that is kept to the newest, once.          *)
Window(H, low, high) ==
    /\ \A s \in H : s.version \in low .. high
    /\ \A n \in low .. high : \E s \in H : s.version = n
    /\ \A s, t \in H : s.version = t.version => s = t

PinInv ==
    /\ DOMAIN history = Keys
    /\ \A k \in Keys :
         /\ Window(history[k], Oldest(version[k]), version[k])
         /\ version[k] > 0 => latest[k] \in history[k] /\ latest[k].version = version[k]

(* As many are newer than a version as there are numbers above it.         *)
LEMMA NewerCount ==
    ASSUME NEW H, NEW low \in Int, NEW high \in Int, Window(H, low, high),
           NEW n \in Int, low <= n + 1, n <= high
    PROVE  Cardinality({t \in H : t.version > n}) = high - n
<1> DEFINE S == n + 1 .. high
           T == {t \in H : t.version > n}
           f == [m \in S |-> CHOOSE t \in H : t.version = m]
<1>1. \A m \in S : f[m] \in H /\ f[m].version = m
  <2>1. ASSUME NEW m \in S PROVE f[m] \in H /\ f[m].version = m
    <3>1. m \in low .. high
      OBVIOUS
    <3>2. \E t \in H : t.version = m
      BY <3>1 DEF Window
    <3> QED BY <3>2
  <2> QED BY <2>1
<1>2. \A m \in S : f[m] \in T
  BY <1>1
<1>3. f \in [S -> T]
  BY <1>2
<1>4. \A m, p \in S : f[m] = f[p] => m = p
  BY <1>1
<1>5. \A t \in T : \E m \in S : f[m] = t
  <2>1. ASSUME NEW t \in T PROVE t.version \in S /\ f[t.version] = t
    <3>1. t.version \in low .. high /\ t.version > n
      BY DEF Window
    <3>2. t.version \in S
      BY <3>1
    <3> HIDE DEF f, S
    <3> QED BY <3>2, <1>1 DEF Window
  <2> QED BY <2>1
<1> HIDE DEF f
<1>6. ExistsBijection(S, T)
  BY <1>3, <1>4, <1>5 DEF ExistsBijection, Bijection, Injection, Surjection, IsInjective
<1>7. IsFiniteSet(S) /\ Cardinality(S) = high - n
  <2>1. n + 1 \in Int
    OBVIOUS
  <2>2. IsFiniteSet(S) /\ Cardinality(S) = IF n + 1 > high THEN 0 ELSE high - (n + 1) + 1
    BY <2>1, FS_Interval
  <2> QED BY <2>2
<1> QED BY <1>6, <1>7, FS_Bijection

(* One version more, and the oldest beyond the retention goes.             *)
LEMMA TrimKeepsWindow ==
    ASSUME NEW v \in Nat, NEW H, Window(H, Oldest(v), v), NEW s, s.version = v + 1
    PROVE  /\ Window(Trim(H \cup {s}), Oldest(v + 1), v + 1)
           /\ s \in Trim(H \cup {s})
<1> DEFINE G == H \cup {s}
           low == Oldest(v)
<1>1. Retention \in Nat
  BY BoundsType
<1>2. low \in Int /\ low >= 1 /\ low <= v + 1
  BY <1>1 DEF Oldest, Kept
<1>3. Oldest(v + 1) = (IF v >= Retention + 1 THEN v + 1 - Retention ELSE 1)
      /\ low = (IF v > Retention + 1 THEN v - Retention ELSE 1)
  BY <1>1 DEF Oldest, Kept
<1> HIDE DEF low
<1>4. Window(H, low, v)
  BY DEF low
<1>5. Window(G, low, v + 1)
  <2>1. \A t \in H : t.version \in low .. v /\ t.version # v + 1
    BY <1>2, <1>4 DEF Window
  <2>2. \A t \in G : t.version \in low .. v + 1
    BY <1>2, <2>1
  <2>3. \A n \in low .. v + 1 : \E t \in G : t.version = n
    <3>1. ASSUME NEW n \in low .. v + 1 PROVE \E t \in G : t.version = n
      <4>1. CASE n = v + 1
        BY <4>1
      <4>2. CASE n # v + 1
        <5>1. n \in low .. v
          BY <1>2, <4>2
        <5> QED BY <5>1, <1>4 DEF Window
      <4> QED BY <4>1, <4>2
    <3> QED BY <3>1
  <2>4. \A t, u \in G : t.version = u.version => t = u
    BY <2>1, <1>4 DEF Window
  <2> QED BY <2>2, <2>3, <2>4 DEF Window
<1>6. \A t \in G : /\ t.version \in low .. v + 1
                   /\ Cardinality({u \in G : u.version > t.version}) = v + 1 - t.version
  <2>1. ASSUME NEW t \in G PROVE /\ t.version \in low .. v + 1
                                 /\ Cardinality({u \in G : u.version > t.version}) = v + 1 - t.version
    <3>1. t.version \in low .. v + 1
      BY <1>5 DEF Window
    <3>2. v + 1 \in Int /\ t.version \in Int /\ low <= t.version + 1 /\ t.version <= v + 1
      BY <3>1, <1>2
    <3> HIDE DEF G
    <3> QED BY <3>1, <3>2, <1>2, <1>5, NewerCount
  <2> QED BY <2>1
<1>7. Trim(G) = {t \in G : v + 1 - t.version <= Retention}
  BY <1>6 DEF Trim
<1>8. \A t \in Trim(G) : t.version \in Oldest(v + 1) .. v + 1
  <2>1. ASSUME NEW t \in Trim(G) PROVE t.version \in Oldest(v + 1) .. v + 1
    <3>1. t \in G /\ v + 1 - t.version <= Retention
      <4> HIDE DEF G
      <4> QED BY <1>7
    <3>2. t.version \in low .. v + 1
      BY <3>1, <1>5 DEF Window
    <3> HIDE DEF G
    <3> DEFINE n == t.version
    <3>3. n \in Int /\ low <= n /\ n <= v + 1 /\ v + 1 - n <= Retention
      BY <3>1, <3>2, <1>2
    <3> HIDE DEF n
    <3>4. n \in Oldest(v + 1) .. v + 1
      BY <3>3, <1>1, <1>2, <1>3
    <3> QED BY <3>4 DEF n
  <2> QED BY <2>1
<1>9. \A n \in Oldest(v + 1) .. v + 1 : \E t \in Trim(G) : t.version = n
  <2>1. ASSUME NEW n \in Oldest(v + 1) .. v + 1 PROVE \E t \in Trim(G) : t.version = n
    <3>1. n \in low .. v + 1 /\ v + 1 - n <= Retention
      BY <1>1, <1>2, <1>3
    <3>2. PICK t \in G : t.version = n
      BY <3>1, <1>5 DEF Window
    <3> QED BY <3>1, <3>2, <1>7
  <2> QED BY <2>1
<1>10. \A t, u \in Trim(G) : t.version = u.version => t = u
  BY <1>5, <1>7 DEF Window
<1>11. s \in Trim(G)
  <2>1. s \in G
    OBVIOUS
  <2>2. v + 1 - s.version <= Retention
    BY <1>1
  <2> HIDE DEF G
  <2> QED BY <2>1, <2>2, <1>7
<1> QED BY <1>8, <1>9, <1>10, <1>11 DEF Window

LEMMA PinInit == Init => PinInv
<1> SUFFICES ASSUME Init PROVE PinInv
  OBVIOUS
<1>1. version = [k \in Keys |-> 0] /\ history = [k \in Keys |-> {}]
  BY DEF Init, EmptyStore
<1>2. Window({}, Oldest(0), 0)
  BY BoundsType DEF Window, Oldest, Kept
<1> QED BY <1>1, <1>2 DEF PinInv

LEMMA PinStep == ScanInv /\ PinInv /\ [Next]_vars => PinInv'
<1> SUFFICES ASSUME ScanInv, PinInv, [Next]_vars PROVE PinInv'
  OBVIOUS
<1>1. CASE UNCHANGED <<version, latest, history>>
  BY <1>1 DEF PinInv
<1>2. CASE Restart
  <2>1. version' = [k \in Keys |-> 0] /\ history' = [k \in Keys |-> {}]
    BY <1>2 DEF Restart
  <2>2. Window({}, Oldest(0), 0)
    BY BoundsType DEF Window, Oldest, Kept
  <2> QED BY <2>1, <2>2 DEF PinInv
<1>3. ASSUME NEW w \in Workers, job[w].pc = "publish", UNCHANGED cached,
             Publish(Key(w), [NoSnapshot EXCEPT !.bar = job[w].bar, !.spread = Spread(w)])
      PROVE  PinInv'
  <2> DEFINE snap == [NoSnapshot EXCEPT !.bar = job[w].bar, !.spread = Spread(w)]
             key == Key(w)
             v == version[key]
             new == [snap EXCEPT !.version = v + 1]
  <2>1. key \in Keys
    BY <1>3, Published
  <2>2. /\ version' = [version EXCEPT ![key] = v + 1] /\ latest' = [latest EXCEPT ![key] = new]
        /\ history' = [history EXCEPT ![key] = Trim(history[key] \cup {new})]
    BY <1>3 DEF Publish
  <2>3. new.version = v + 1
    BY DEF NoSnapshot
  <2>4. v \in Nat /\ version \in [Keys -> Nat] /\ latest \in [Keys -> Snaps]
    BY <2>1 DEF ScanInv, StoreTyped
  <2> HIDE DEF new, snap, key, v
  <2>5. Window(history[key], Oldest(v), v)
    BY <2>1 DEF PinInv, v
  <2>6. Window(Trim(history[key] \cup {new}), Oldest(v + 1), v + 1) /\ new \in Trim(history[key] \cup {new})
    BY <2>3, <2>4, <2>5, TrimKeepsWindow
  <2>7. /\ \A k \in Keys : k # key => version'[k] = version[k] /\ latest'[k] = latest[k] /\ history'[k] = history[k]
        /\ version'[key] = v + 1 /\ latest'[key] = new /\ history'[key] = Trim(history[key] \cup {new})
        /\ DOMAIN history' = Keys
    BY <2>1, <2>2, <2>4 DEF PinInv
  <2>8. ASSUME NEW k \in Keys
        PROVE  /\ Window(history'[k], Oldest(version'[k]), version'[k])
               /\ version'[k] > 0 => latest'[k] \in history'[k] /\ latest'[k].version = version'[k]
    <3>1. CASE k = key
      BY <3>1, <2>3, <2>6, <2>7
    <3>2. CASE k # key
      BY <3>2, <2>7 DEF PinInv
    <3> QED BY <3>1, <3>2
  <2> QED BY <2>7, <2>8 DEF PinInv
<1> QED BY <1>1, <1>2, <1>3, StoreSteps DEF StoreStep

(* A version that was pinned stays readable until Retention newer ones     *)
(* exist, the newest is the latest snapshot and versions have no gap, for  *)
(* any retention and any scans, failures and restarts (publish_snapshot).  *)
THEOREM PinnedStays == Spec => []PinnedWindow
<1>1. ScanInv /\ PinInv => PinnedWindow
  <2> SUFFICES ASSUME ScanInv, PinInv PROVE PinnedWindow
    OBVIOUS
  <2>1. ASSUME NEW k \in Keys
        PROVE  /\ {s.version : s \in history[k]} = Oldest(version[k]) .. version[k]
               /\ Cardinality(history[k]) = Kept(version[k])
    <3> DEFINE v == version[k]
               H == history[k]
    <3>1. v \in Nat /\ Window(H, Oldest(v), v)
      BY DEF ScanInv, StoreTyped, PinInv
    <3> HIDE DEF v, H
    <3>2. Oldest(v) \in Int /\ v - (Oldest(v) - 1) = Kept(v) /\ Oldest(v) - 1 <= v
      BY <3>1, BoundsType DEF Oldest, Kept
    <3>3. {s.version : s \in H} = Oldest(v) .. v
      BY <3>1 DEF Window
    <3>4. Cardinality({t \in H : t.version > Oldest(v) - 1}) = v - (Oldest(v) - 1)
      <4> DEFINE n == Oldest(v) - 1
      <4>1. n \in Int /\ v \in Int /\ Oldest(v) <= n + 1 /\ n <= v
        BY <3>1, <3>2
      <4> HIDE DEF n
      <4>2. Cardinality({t \in H : t.version > n}) = v - n
        BY <4>1, <3>1, <3>2, NewerCount
      <4> QED BY <4>2 DEF n
    <3>5. {t \in H : t.version > Oldest(v) - 1} = H
      BY <3>1, <3>2 DEF Window
    <3> QED BY <3>2, <3>3, <3>4, <3>5 DEF v, H
  <2> QED BY <2>1 DEF PinnedWindow, PinInv, Oldest, Kept
<1> QED BY <1>1, ScanInit, ScanStepOK, PinInit, PinStep, PTL DEF Spec

-----------------------------------------------------------------------------
(* ScannedMeansAll: what a scan has published so far, it counts.           *)

Whole == {"full", "instrument"}

(* The keys of some instruments.                                           *)
Made(S) == {k \in Keys : k[1] \in S}

Unlike(s) == \A m, n \in 1 .. Len(s) : s[m] = s[n] => m = n

(* A status tells what was published since the request began.              *)
Counted(j, done, ver) ==
    IF j.kind \in Whole
    THEN /\ \A k \in Made(done.scanned) : ver[k] > j.since[k]
         /\ done.published = Cardinality(Made(done.scanned))
    ELSE done.published = Cardinality({k \in Keys : k[1] \in done.scanned /\ ver[k] > j.since[k]})

(* A scan has published every timeframe of the instruments behind it, and  *)
(* of the instrument at hand those it has no frame left for; a request for *)
(* one snapshot has published nothing.                                     *)
Progress(j, ver) ==
    IF j.kind \in Whole
    THEN /\ Unlike(j.todo)
         /\ \A m \in 1 .. Len(j.todo) : j.todo[m] \notin j.done.scanned
         /\ Counted(j, j.done, ver)
         /\ \A k \in Keys : ver[k] >= j.since[k]
         /\ \A t \in Frames : \/ \E n \in 1 .. Len(j.frames) : j.frames[n] = t
                              \/ ver[<<Head(j.todo), t>>] > j.since[<<Head(j.todo), t>>]
    ELSE /\ Len(j.todo) = 1 /\ Len(j.frames) = 1
         /\ j.done.scanned = {} /\ j.done.published = 0
         /\ \A k \in Keys : ver[k] = j.since[k]

CountInv ==
    \A w \in Workers :
        /\ job[w].pc \in Working => Progress(job[w], version)
        /\ job[w].pc = "wait" => job[w].done = NoScan

Reported(w) ==
    job[w].pc # "answered" /\ job'[w].pc = "answered" =>
        LET done == job'[w].done
            made == {k \in Keys : k[1] \in done.scanned /\ version'[k] > job[w].since[k]}
        IN  /\ done.published = Cardinality(made)
            /\ job[w].kind \in {"full", "instrument"} => made = {k \in Keys : k[1] \in done.scanned}

(* Nothing is made of no instrument, and Len(Timeframes) keys of one more. *)
LEMMA MadeMore ==
    /\ Made({}) = {} /\ Cardinality(Made({})) = 0
    /\ \A S \in SUBSET Names, i \in Names :
          i \notin S => /\ Cardinality(Made(S \cup {i})) = Cardinality(Made(S)) + Len(Timeframes)
                        /\ Cardinality(Made(S)) \in Nat
<1>1. Made({}) = {}
  BY DEF Made
<1>2. IsFiniteSet(Names)
  <2> DEFINE f == [n \in 1 .. Len(Instruments) |-> Instruments[n]]
  <2>1. f \in Surjection(1 .. Len(Instruments), Names)
    BY DEF Surjection, Names
  <2>2. IsFiniteSet(1 .. Len(Instruments))
    BY ScanType, FS_Interval
  <2> QED BY <2>1, <2>2, FS_Surjection
<1>3. ASSUME NEW i \in Names
      PROVE  IsFiniteSet(Made({i})) /\ Cardinality(Made({i})) = Len(Timeframes)
  <2> DEFINE D == 1 .. Len(Timeframes)
             f == [n \in D |-> <<i, Timeframes[n]>>]
  <2>1. Made({i}) = {<<i, t>> : t \in Frames}
    BY DEF Made, Keys, Names, Frames
  <2>2. \A n \in D : f[n] \in Made({i})
    BY <2>1 DEF Frames
  <2>3. \A m, n \in D : f[m] = f[n] => m = n
    BY NothingTwice
  <2>4. \A k \in Made({i}) : \E n \in D : f[n] = k
    BY <2>1 DEF Frames
  <2>5. f \in [D -> Made({i})]
    BY <2>2
  <2> HIDE DEF f
  <2>6. ExistsBijection(D, Made({i}))
    BY <2>3, <2>4, <2>5 DEF ExistsBijection, Bijection, Injection, Surjection, IsInjective
  <2>7. IsFiniteSet(D) /\ Cardinality(D) = Len(Timeframes)
    <3>1. Len(Timeframes) \in Nat /\ Len(Timeframes) > 0
      BY ScanType
    <3>2. Cardinality(D) = IF 1 > Len(Timeframes) THEN 0 ELSE Len(Timeframes) - 1 + 1
      BY <3>1, FS_Interval
    <3> QED BY <3>1, <3>2, FS_Interval
  <2> QED BY <2>6, <2>7, FS_Bijection
<1>4. IsFiniteSet(Frames)
  <2> DEFINE f == [n \in 1 .. Len(Timeframes) |-> Timeframes[n]]
  <2>1. f \in Surjection(1 .. Len(Timeframes), Frames)
    BY DEF Surjection, Frames
  <2>2. IsFiniteSet(1 .. Len(Timeframes))
    BY ScanType, FS_Interval
  <2> QED BY <2>1, <2>2, FS_Surjection
<1>5. IsFiniteSet(Keys)
  BY <1>2, <1>4, FS_Product DEF Keys, Names, Frames
<1>6. ASSUME NEW S \in SUBSET Names, NEW i \in Names, i \notin S
      PROVE  /\ Cardinality(Made(S \cup {i})) = Cardinality(Made(S)) + Len(Timeframes)
             /\ Cardinality(Made(S)) \in Nat
  <2>1. IsFiniteSet(Made(S))
    BY <1>5, FS_Subset DEF Made
  <2>2. Made(S \cup {i}) = Made(S) \cup Made({i}) /\ Made(S) \cap Made({i}) = {}
    BY <1>6 DEF Made
  <2>3. Cardinality(Made(S)) \in Nat
    BY <2>1, FS_CardinalityType
  <2>4. Cardinality(Made(S \cup {i})) = Cardinality(Made(S)) + Cardinality(Made({i})) - Cardinality({})
    <3> DEFINE A == Made(S)
               B == Made({i})
    <3>1. IsFiniteSet(A) /\ IsFiniteSet(B) /\ A \cap B = {} /\ Made(S \cup {i}) = A \cup B
      BY <1>3, <2>1, <2>2
    <3> HIDE DEF A, B
    <3>2. Cardinality(A \cup B) = Cardinality(A) + Cardinality(B) - Cardinality(A \cap B)
      BY <3>1, FS_Union
    <3>3. Cardinality(Made(S \cup {i})) = Cardinality(A) + Cardinality(B) - Cardinality({})
      BY <3>1, <3>2
    <3> QED BY <3>3 DEF A, B
  <2>5. Len(Timeframes) \in Nat
    BY ScanType
  <2> QED BY <1>3, <2>3, <2>4, <2>5, FS_EmptySet
<1> QED BY <1>1, <1>6, FS_EmptySet

(* A step that leaves w with j, under the lock if it publishes.            *)
LEMMA CountsOne ==
    ASSUME ScanInv, CountInv, NEW w \in Workers, NEW j, job' = [job EXCEPT ![w] = j],
           version' = version \/ w \in holder,
           j.pc \in Working => Progress(j, version'),
           j.pc = "wait" => j.done = NoScan,
           j.pc = "answered" => Counted(job[w], j.done, version')
    PROVE  CountInv' /\ \A v \in Workers : Reported(v)
<1>1. job'[w] = j /\ \A v \in Workers : v # w => job'[v] = job[v]
  BY DEF ScanInv
<1>2. ASSUME NEW v \in Workers
      PROVE  /\ job'[v].pc \in Working => Progress(job'[v], version')
             /\ job'[v].pc = "wait" => job'[v].done = NoScan
  <2>1. CASE v = w
    BY <1>1, <2>1
  <2>2. CASE v # w /\ version' = version
    BY <1>1, <2>2 DEF CountInv
  <2>3. CASE v # w /\ w \in holder
    <3>1. job[v].pc \notin Working
      BY <2>3 DEF ScanInv, Locked
    <3> QED BY <1>1, <2>3, <3>1 DEF CountInv
  <2> QED BY <2>1, <2>2, <2>3
<1>3. ASSUME NEW v \in Workers PROVE Reported(v)
  <2>1. CASE v = w
    BY <1>1, <2>1 DEF Reported, Counted, Made, Whole
  <2>2. CASE v # w
    BY <1>1, <2>2 DEF Reported
  <2> QED BY <2>1, <2>2
<1> QED BY <1>2, <1>3 DEF CountInv

(* A request that leaves the lock reports what it was given.               *)
LEMMA CountsFinish ==
    ASSUME ScanInv, CountInv, NEW w \in Workers, job[w].pc \in Working, NEW status, NEW answer,
           Finish(w, status, answer), Counted(job[w], status, version')
    PROVE  CountInv' /\ \A v \in Workers : Reported(v)
<1> DEFINE j == [Idle EXCEPT !.pc = "answered", !.kind = job[w].kind, !.since = job[w].since,
                             !.done = status, !.key = job[w].key, !.seen = answer]
<1>1. job' = [job EXCEPT ![w] = j] /\ w \in holder
  BY DEF Finish, ScanInv, Locked
<1>2. j.pc = "answered" /\ j.done = status
  BY IdleTyped DEF Jobs
<1> HIDE DEF j
<1> QED BY <1>1, <1>2, CountsOne DEF Working

(* An instrument less to do, which the status may count.                   *)
LEMMA CountsNext ==
    ASSUME ScanInv, CountInv, NEW w \in Workers, job[w].pc \in Working,
           NEW done \in Statuses, NextInstrument(w, done), Counted(job[w], done, version'),
           \A k \in Keys : version'[k] >= job[w].since[k],
           done.scanned \subseteq job[w].done.scanned \cup {Instrument(w)}
    PROVE  CountInv' /\ \A v \in Workers : Reported(v)
<1>1. JobOK(w) /\ job[w] \in Jobs /\ w \in holder /\ Progress(job[w], version)
  BY DEF ScanInv, JobOK, Locked, CountInv
<1>2. CASE Len(job[w].todo) > 1
  <2> DEFINE j == [job[w] EXCEPT !.pc = "price", !.todo = Tail(@), !.frames = Timeframes, !.done = done]
             s == job[w].todo
  <2>1. job' = [job EXCEPT ![w] = j]
    BY <1>2 DEF NextInstrument
  <2>2. /\ j.pc = "price" /\ j.kind = job[w].kind /\ j.since = job[w].since
        /\ j.todo = Tail(s) /\ j.frames = Timeframes /\ j.done = done
    BY <1>1 DEF Jobs
  <2>3. s \in Seq(Names) /\ s # <<>> /\ Len(s) # 1
    BY <1>1, <1>2, TailTyped DEF Jobs, JobOK
  <2>4. job[w].kind \in Whole
    BY <1>1, <2>3 DEF Progress
  <2>5. /\ Unlike(s) /\ Instrument(w) = Head(s)
        /\ \A m \in 1 .. Len(s) : s[m] \notin job[w].done.scanned
    BY <1>1, <2>4 DEF Progress, Instrument
  <2> HIDE DEF j, s
  <2>6. /\ Len(Tail(s)) = Len(s) - 1 /\ Len(s) \in Nat
        /\ \A m \in 1 .. Len(Tail(s)) : Tail(s)[m] = s[m + 1] /\ m + 1 \in 1 .. Len(s) /\ m + 1 # 1
        /\ Head(s) = s[1] /\ 1 \in 1 .. Len(s)
    BY <2>3
  <2>7. Unlike(Tail(s))
    <3>1. ASSUME NEW m \in 1 .. Len(Tail(s)), NEW n \in 1 .. Len(Tail(s)), Tail(s)[m] = Tail(s)[n] PROVE m = n
      <4>1. m + 1 = n + 1
        BY <2>5, <2>6, <3>1 DEF Unlike
      <4> QED BY <4>1
    <3> QED BY <3>1 DEF Unlike
  <2>8. \A m \in 1 .. Len(Tail(s)) : Tail(s)[m] \notin done.scanned
    <3>1. ASSUME NEW m \in 1 .. Len(Tail(s)) PROVE Tail(s)[m] \notin done.scanned
      <4>1. s[m + 1] # s[1]
        BY <2>5, <2>6 DEF Unlike
      <4> QED BY <2>5, <2>6, <4>1
    <3> QED BY <3>1
  <2>9. \A t \in Frames : \E n \in 1 .. Len(j.frames) : j.frames[n] = t
    BY <2>2 DEF Frames
  <2>10. Counted(j, done, version') /\ \A k \in Keys : version'[k] >= j.since[k]
    BY <2>2 DEF Counted
  <2>11. Progress(j, version')
    BY <2>2, <2>4, <2>7, <2>8, <2>9, <2>10 DEF Progress
  <2> QED BY <1>1, <2>1, <2>2, <2>11, CountsOne
<1>3. CASE ~(Len(job[w].todo) > 1)
  <2>1. Finish(w, Report(done), job[w].seen)
    BY <1>3 DEF NextInstrument
  <2>2. Report(done).scanned = done.scanned /\ Report(done).published = done.published
    BY DEF Report, Statuses
  <2>3. Counted(job[w], Report(done), version')
    BY <2>2 DEF Counted
  <2> QED BY <2>1, <2>3, CountsFinish
<1> QED BY <1>2, <1>3

(* What a request has counted is right as long as nothing is published.    *)
LEMMA CountsKept ==
    ASSUME ScanInv, CountInv, NEW w \in Workers, job[w].pc \in Working
    PROVE  /\ Counted(job[w], job[w].done, version) /\ Counted(job[w], NoScan, version)
           /\ \A k \in Keys : version[k] >= job[w].since[k]
<1>1. Progress(job[w], version)
  BY DEF CountInv
<1>2. NoScan.scanned = {} /\ NoScan.published = 0
  BY DEF NoScan
<1>3. ASSUME NEW done, done.scanned = {}, done.published = 0
      PROVE  Counted(job[w], done, version)
  <2>1. {k \in Keys : k[1] \in done.scanned /\ version[k] > job[w].since[k]} = {}
    BY <1>3
  <2>2. Made(done.scanned) = {}
    BY <1>3 DEF Made
  <2>3. Cardinality({}) = 0
    BY FS_EmptySet
  <2>4. /\ done.published = Cardinality({k \in Keys : k[1] \in done.scanned /\ version[k] > job[w].since[k]})
        /\ done.published = Cardinality(Made(done.scanned))
    BY <1>3, <2>1, <2>2, <2>3
  <2> QED BY <2>2, <2>4 DEF Counted
<1>4. CASE job[w].kind \in Whole
  BY <1>1, <1>2, <1>3, <1>4 DEF Progress
<1>5. CASE job[w].kind \notin Whole
  <2>1. Counted(job[w], job[w].done, version) /\ Counted(job[w], NoScan, version)
    BY <1>1, <1>2, <1>3, <1>5 DEF Progress
  <2>2. \A k \in Keys : version[k] = job[w].since[k] /\ version[k] \in Nat
    BY <1>1, <1>5 DEF Progress, ScanInv, StoreTyped
  <2> QED BY <2>1, <2>2
<1> QED BY <1>4, <1>5

(* A failure counts nothing more,                                          *)
LEMMA CountsFail ==
    ASSUME ScanInv, CountInv, NEW w \in Workers, job[w].pc \in Working, Fail(w), version' = version
    PROVE  CountInv' /\ \A v \in Workers : Reported(v)
<1>1. JobOK(w) /\ job[w] \in Jobs /\ Instrument(w) \in Names
  BY KeyTyped DEF ScanInv, JobOK
<1>2. CASE job[w].kind = "full"
  <2> DEFINE done == [job[w].done EXCEPT !.errors = @ \union {Instrument(w)}]
  <2>1. done \in Statuses /\ done.scanned = job[w].done.scanned /\ done.published = job[w].done.published
    BY <1>1 DEF Jobs, Statuses
  <2>2. NextInstrument(w, done)
    BY <1>2 DEF Fail
  <2> HIDE DEF done
  <2>3. Counted(job[w], done, version') /\ \A k \in Keys : version'[k] >= job[w].since[k]
    BY <2>1, CountsKept DEF Counted
  <2> QED BY <2>1, <2>2, <2>3, CountsNext
<1>3. CASE job[w].kind # "full"
  <2>1. PICK answer : Finish(w, NoScan, answer)
    BY <1>3 DEF Fail, Raise
  <2> QED BY <2>1, CountsKept, CountsFinish
<1> QED BY <1>2, <1>3

(* nor does a skip.                                                        *)
LEMMA CountsSkip ==
    ASSUME ScanInv, CountInv, NEW w \in Workers, job[w].pc \in Working, Skip(w), version' = version
    PROVE  CountInv' /\ \A v \in Workers : Reported(v)
<1> DEFINE done == [job[w].done EXCEPT !.skipped = TRUE]
<1>1. job[w] \in Jobs
  BY DEF ScanInv, JobOK
<1>2. done \in Statuses /\ done.scanned = job[w].done.scanned /\ done.published = job[w].done.published
  BY <1>1 DEF Jobs, Statuses
<1>3. NextInstrument(w, done)
  BY DEF Skip
<1> HIDE DEF done
<1>4. Counted(job[w], done, version') /\ \A k \in Keys : version'[k] >= job[w].since[k]
  BY <1>2, CountsKept DEF Counted
<1> QED BY <1>2, <1>3, <1>4, CountsNext

(* Reading publishes nothing.                                              *)
LEMMA CountsRead ==
    ASSUME ScanInv, CountInv, NEW w \in Workers, ReadPrice(w) \/ ReadCandles(w)
    PROVE  CountInv' /\ \A v \in Workers : Reported(v)
<1>1. job[w] \in Jobs /\ version' = version /\ job[w].pc \in Working /\ Progress(job[w], version)
  BY DEF ScanInv, JobOK, ReadPrice, ReadCandles, store, Working, CountInv
<1>2. CASE Fail(w)
  BY <1>1, <1>2, CountsFail
<1>3. CASE Skip(w)
  BY <1>1, <1>3, CountsSkip
<1>4. CASE job' = [job EXCEPT ![w].pc = "read"]
  <2> DEFINE j == [job[w] EXCEPT !.pc = "read"]
  <2>1. job' = [job EXCEPT ![w] = j]
    BY <1>4
  <2>2. /\ j.pc = "read" /\ j.kind = job[w].kind /\ j.since = job[w].since /\ j.todo = job[w].todo
        /\ j.frames = job[w].frames /\ j.done = job[w].done
    BY <1>1 DEF Jobs
  <2> HIDE DEF j
  <2>3. Progress(j, version')
    BY <1>1, <2>2 DEF Progress, Counted
  <2> QED BY <1>1, <2>1, <2>2, <2>3, CountsOne
<1>5. ASSUME NEW bar, job' = [job EXCEPT ![w].pc = "publish", ![w].bar = bar]
      PROVE  CountInv' /\ \A v \in Workers : Reported(v)
  <2> DEFINE j == [job[w] EXCEPT !.pc = "publish", !.bar = bar]
  <2>1. job' = [job EXCEPT ![w] = j]
    BY <1>5
  <2>2. /\ j.pc = "publish" /\ j.kind = job[w].kind /\ j.since = job[w].since /\ j.todo = job[w].todo
        /\ j.frames = job[w].frames /\ j.done = job[w].done
    BY <1>1 DEF Jobs
  <2> HIDE DEF j
  <2>3. Progress(j, version')
    BY <1>1, <2>2 DEF Progress, Counted
  <2> QED BY <1>1, <2>1, <2>2, <2>3, CountsOne
<1> QED BY <1>2, <1>3, <1>4, <1>5 DEF ReadPrice, ReadCandles

(* A snapshot that is published counts with its instrument.                *)
LEMMA CountsPublish ==
    ASSUME ScanInv, CountInv, NEW w \in Workers, PublishSnapshot(w)
    PROVE  CountInv' /\ \A v \in Workers : Reported(v)
<1>1. job[w].pc = "publish" /\ job[w].pc \in Working /\ UNCHANGED cached
  BY DEF PublishSnapshot, Working
<1>2. /\ JobOK(w) /\ job[w] \in Jobs /\ w \in holder /\ Progress(job[w], version)
      /\ Instrument(w) \in Names /\ Head(job[w].frames) \in Frames /\ Key(w) \in Keys
  BY <1>1, KeyTyped DEF ScanInv, JobOK, Locked, CountInv
<1>3. CASE Fail(w) /\ UNCHANGED store
  BY <1>1, <1>3, CountsFail DEF store
<1>4. CASE Publish(Key(w), [NoSnapshot EXCEPT !.bar = job[w].bar, !.spread = Spread(w)]) /\ ~(Fail(w) /\ UNCHANGED store)
  <2> DEFINE new == version'
             since == job[w].since
             i == Instrument(w)
             s == job[w].frames
             done == job[w].done
  <2>1. /\ version \in [Keys -> Nat] /\ since \in [Keys -> Nat]
        /\ new = [version EXCEPT ![Key(w)] = version[Key(w)] + 1]
    BY <1>2, <1>4 DEF ScanInv, StoreTyped, Jobs, Publish
  <2>2. \A k \in Keys : new[k] = IF k = Key(w) THEN version[k] + 1 ELSE version[k]
    BY <1>2, <2>1
  <2>3. /\ Key(w) = <<i, Head(s)>> /\ i = Head(job[w].todo) /\ i \in Names
        /\ s \in Seq(Frames) /\ s # <<>>
    <3>1. s \in Seq(Frames) /\ s # <<>>
      BY <1>1, <1>2 DEF Jobs, JobOK
    <3> QED BY <1>2, <3>1 DEF Key, Instrument
  <2>4. \A k \in Keys : version[k] \in Nat /\ since[k] \in Nat /\ version[k] >= since[k]
    BY <1>1, <2>1, CountsKept
  <2>5. done \in Statuses /\ Instrument(w) = i /\ job[w].since = since /\ job[w].done = done /\ job[w].frames = s
    BY <1>2 DEF Jobs
  <2>6. job[w].todo[1] = i /\ 1 \in 1 .. Len(job[w].todo)
    <3>1. job[w].todo \in Seq(Names) /\ job[w].todo # <<>>
      BY <1>1, <1>2 DEF Jobs, JobOK
    <3> QED BY <2>3, <3>1
  <2> HIDE DEF new, since, i, s, done
  <2>7. \A k \in Keys : new[k] >= since[k] /\ (version[k] > since[k] => new[k] > since[k])
    BY <2>2, <2>4
  <2>8. s[1] = Head(s) /\ Len(s) \in Nat /\ Len(s) > 0
    BY <2>3
  <2>9. ASSUME job[w].kind \in Whole
        PROVE  \A t \in Frames : (\E n \in 2 .. Len(s) : s[n] = t) \/ new[<<i, t>>] > since[<<i, t>>]
    <3>1. ASSUME NEW t \in Frames, ~ \E n \in 2 .. Len(s) : s[n] = t PROVE new[<<i, t>>] > since[<<i, t>>]
      <4>1. <<i, t>> \in Keys
        BY <2>3 DEF Keys, Names, Frames
      <4>2. CASE t = Head(s)
        BY <2>2, <2>3, <2>4, <4>1, <4>2
      <4>3. CASE t # Head(s)
        <5>1. ~ \E n \in 1 .. Len(s) : s[n] = t
          BY <2>8, <3>1, <4>3
        <5>2. version[<<i, t>>] > since[<<i, t>>]
          BY <1>2, <2>3, <2>5, <2>9, <5>1 DEF Progress
        <5> QED BY <2>7, <4>1, <5>2
      <4> QED BY <4>2, <4>3
    <3> QED BY <3>1
  <2>10. ASSUME job[w].kind \in Whole
         PROVE  /\ \A k \in Made(done.scanned) : new[k] > since[k]
                /\ done.published = Cardinality(Made(done.scanned))
                /\ i \notin done.scanned
    BY <1>2, <2>5, <2>6, <2>7, <2>10 DEF Progress, Counted, Made
  <2>11. CASE Len(s) > 1 /\ job' = [job EXCEPT ![w].pc = "read", ![w].frames = Tail(@)]
    <3> DEFINE j == [job[w] EXCEPT !.pc = "read", !.frames = Tail(@)]
    <3>1. job' = [job EXCEPT ![w] = j]
      BY <2>11
    <3>2. /\ j.pc = "read" /\ j.kind = job[w].kind /\ j.since = since /\ j.todo = job[w].todo
          /\ j.frames = Tail(s) /\ j.done = done
      BY <1>2, <2>5 DEF Jobs
    <3> HIDE DEF j
    <3>3. Len(s) # 1
      BY <2>8, <2>11, AboveOne
    <3>4. job[w].kind \in Whole
      BY <1>2, <2>5, <3>3 DEF Progress
    <3>5. /\ Len(Tail(s)) = Len(s) - 1
          /\ \A n \in 2 .. Len(s) : n - 1 \in 1 .. Len(Tail(s)) /\ Tail(s)[n - 1] = s[n]
      BY <2>3, <2>8
    <3>6. \A t \in Frames : (\E n \in 1 .. Len(Tail(s)) : Tail(s)[n] = t) \/ new[<<i, t>>] > since[<<i, t>>]
      BY <2>9, <3>4, <3>5
    <3>7. Counted(j, j.done, new)
      BY <2>10, <3>2, <3>4 DEF Counted
    <3>8. Progress(j, new)
      BY <1>2, <2>3, <2>5, <2>7, <3>2, <3>4, <3>6, <3>7 DEF Progress
    <3> QED BY <1>2, <3>1, <3>2, <3>8, CountsOne DEF new
  <2>12. CASE Len(s) = 1
    <3>1. Scanned(w) \in Statuses /\ Report(Scanned(w)) \in Statuses
      BY <1>2, ScannedTyped
    <3>2. /\ Scanned(w).scanned = done.scanned \cup {i}
          /\ Scanned(w).published = done.published + (IF job[w].kind \in Whole THEN Len(Timeframes) ELSE 1)
      BY <2>5 DEF Scanned, Statuses, Whole
    <3>3. Report(Scanned(w)).scanned = Scanned(w).scanned /\ Report(Scanned(w)).published = Scanned(w).published
      BY <3>1 DEF Report, Statuses
    <3>4. ASSUME job[w].kind \in Whole PROVE Counted(job[w], Scanned(w), new)
      <4>1. \A t \in Frames : new[<<i, t>>] > since[<<i, t>>]
        BY <2>9, <2>12, <3>4
      <4>2. \A k \in Made(done.scanned \cup {i}) : new[k] > since[k]
        <5>1. ASSUME NEW k \in Keys, k[1] = i PROVE new[k] > since[k]
          <6>1. k = <<i, k[2]>> /\ k[2] \in Frames
            BY <5>1 DEF Keys, Frames
          <6> QED BY <4>1, <6>1
        <5> QED BY <2>10, <3>4, <5>1 DEF Made
      <4>3. done.published + Len(Timeframes) = Cardinality(Made(done.scanned \cup {i}))
        <5>1. done.scanned \in SUBSET Names
          BY <2>5 DEF Statuses
        <5> QED BY <2>3, <2>10, <3>4, <5>1, MadeMore
      <4> QED BY <2>5, <3>2, <3>4, <4>2, <4>3 DEF Counted
    <3>5. ASSUME job[w].kind \notin Whole PROVE Counted(job[w], Scanned(w), new)
      <4>1. done.scanned = {} /\ done.published = 0 /\ \A k \in Keys : version[k] = since[k]
        BY <1>2, <2>5, <3>5 DEF Progress
      <4>2. {k \in Keys : k[1] \in done.scanned \cup {i} /\ new[k] > since[k]} = {Key(w)}
        <5>1. \A k \in Keys : new[k] > since[k] <=> k = Key(w)
          BY <2>2, <2>4, <4>1
        <5> QED BY <1>2, <2>3, <5>1
      <4>3. Cardinality({Key(w)}) = 1
        BY FS_Singleton
      <4>4. Scanned(w).published = 1
        BY <3>2, <3>5, <4>1
      <4>5. {k \in Keys : k[1] \in Scanned(w).scanned /\ new[k] > since[k]} = {Key(w)}
        BY <3>2, <4>2
      <4>6. Scanned(w).published = Cardinality({k \in Keys : k[1] \in Scanned(w).scanned /\ new[k] > job[w].since[k]})
        BY <2>5, <4>3, <4>4, <4>5
      <4> QED BY <3>5, <4>6 DEF Counted
    <3>6. Counted(job[w], Scanned(w), new)
      BY <3>4, <3>5
    <3>7. Counted(job[w], Report(Scanned(w)), new)
      BY <3>3, <3>6 DEF Counted
    <3>8. CASE NextInstrument(w, Scanned(w))
      <4>1. Scanned(w).scanned \subseteq job[w].done.scanned \cup {Instrument(w)}
        BY <2>5, <3>2
      <4>2. Counted(job[w], Scanned(w), version') /\ \A k \in Keys : version'[k] >= job[w].since[k]
        BY <2>5, <2>7, <3>6 DEF new
      <4> QED BY <1>1, <3>1, <3>8, <4>1, <4>2, CountsNext
    <3>9. ASSUME NEW answer, Finish(w, Report(Scanned(w)), answer)
          PROVE  CountInv' /\ \A v \in Workers : Reported(v)
      BY <1>1, <3>7, <3>9, CountsFinish DEF new
    <3> QED BY <1>4, <2>5, <2>12, <3>8, <3>9 DEF PublishSnapshot
  <2> QED BY <1>4, <2>5, <2>11, <2>12 DEF PublishSnapshot
<1> QED BY <1>3, <1>4 DEF PublishSnapshot

(* A request enters the lock with nothing published and all to do.         *)
LEMMA CountsBegin ==
    ASSUME ScanInv, CountInv, NEW w \in Workers, NEW request \in Jobs, Begin(w, request),
           request.done = NoScan,
           IF request.kind \in Whole
             THEN Unlike(request.todo) /\ request.frames = Timeframes
             ELSE Len(request.todo) = 1 /\ Len(request.frames) = 1
    PROVE  CountInv' /\ \A v \in Workers : Reported(v)
<1>1. PICK hours \in BOOLEAN :
         job' = [job EXCEPT ![w] = [request EXCEPT !.pc = "price", !.since = version,
                                                   !.hours = hours, !.force = @ /\ ~hours]]
  BY DEF Begin, Enter
<1> DEFINE j == [request EXCEPT !.pc = "price", !.since = version, !.hours = hours, !.force = @ /\ ~hours]
<1>2. version' = version /\ version \in [Keys -> Nat]
  BY DEF Begin, Enter, store, ScanInv, StoreTyped
<1>3. /\ j.pc = "price" /\ j.todo = request.todo /\ j.frames = request.frames /\ j.kind = request.kind
      /\ j.since = version /\ j.done = NoScan
  BY DEF Jobs
<1>4. job' = [job EXCEPT ![w] = j]
  BY <1>1
<1> HIDE DEF j
<1>5. NoScan.scanned = {} /\ NoScan.published = 0
  BY DEF NoScan
<1>6. Made({}) = {} /\ Cardinality(Made({})) = 0
  BY MadeMore
<1>7. \A k \in Keys : version[k] = j.since[k] /\ version[k] >= j.since[k]
  BY <1>2, <1>3
<1>8. CASE j.kind \in Whole
  <2>1. Counted(j, j.done, version)
    BY <1>3, <1>5, <1>6, <1>8 DEF Counted
  <2>2. \A t \in Frames : \E n \in 1 .. Len(j.frames) : j.frames[n] = t
    BY <1>3, <1>8 DEF Frames
  <2>3. Progress(j, version)
    BY <1>3, <1>5, <1>7, <1>8, <2>1, <2>2 DEF Progress
  <2> QED BY <1>2, <1>3, <1>4, <2>3, CountsOne
<1>9. CASE j.kind \notin Whole
  <2>1. Progress(j, version)
    BY <1>3, <1>5, <1>7, <1>9 DEF Progress
  <2> QED BY <1>2, <1>3, <1>4, <2>1, CountsOne
<1> QED BY <1>8, <1>9

(* Every step keeps the count, and what a request reports is right.        *)
LEMMA CountSteps ==
    ASSUME ScanInv, CountInv, [Next]_vars
    PROVE  CountInv' /\ \A v \in Workers : Reported(v)
<1>1. CASE Restart
  <2>1. job' = [v \in Workers |-> Idle] /\ Idle.pc = "idle"
    BY <1>1 DEF Restart, Idle
  <2>2. \A v \in Workers : job'[v].pc = "idle"
    BY <2>1
  <2> QED BY <2>2 DEF CountInv, Reported, Working
<1>2. PICK i0 \in Names, t0 \in Frames : TRUE
  <2>1. Len(Instruments) \in Nat /\ Len(Timeframes) \in Nat
    BY ScanType
  <2>2. 1 \in 1 .. Len(Instruments) /\ 1 \in 1 .. Len(Timeframes)
    BY <2>1, ScanType
  <2>3. Instruments[1] \in Names /\ Timeframes[1] \in Frames
    BY <2>2 DEF Names, Frames
  <2> QED BY <2>3
<1>3. ASSUME NEW w \in Scanners, NEW force \in BOOLEAN, ScanAll(w, force)
      PROVE  CountInv' /\ \A v \in Workers : Reported(v)
  <2> DEFINE r == [Idle EXCEPT !.kind = "full", !.todo = Instruments, !.frames = Timeframes, !.force = force]
  <2>1. r.kind = "full" /\ r.todo = Instruments /\ r.frames = Timeframes /\ r.done = NoScan
    BY DEF Idle
  <2>2. r \in Jobs /\ w \in Workers
    BY <1>2, NamedTyped, RequestsTyped
  <2>3. Unlike(Instruments)
    BY NothingTwice DEF Unlike
  <2>4. Begin(w, r)
    BY <1>3 DEF ScanAll
  <2> HIDE DEF r
  <2> QED BY <2>1, <2>2, <2>3, <2>4, CountsBegin DEF Whole
<1>4. ASSUME NEW w \in Scanners, NEW force \in BOOLEAN, NEW i \in Named, RefreshInstrument(w, i, force)
      PROVE  CountInv' /\ \A v \in Workers : Reported(v)
  <2> DEFINE r == [Idle EXCEPT !.kind = "instrument", !.todo = <<i>>, !.frames = Timeframes, !.force = force]
  <2>1. r.kind = "instrument" /\ r.todo = <<i>> /\ r.frames = Timeframes /\ r.done = NoScan
    BY DEF Idle
  <2>2. r \in Jobs /\ w \in Workers
    BY <1>2, NamedTyped, RequestsTyped
  <2>3. Unlike(<<i>>)
    BY DEF Unlike
  <2>4. Begin(w, r)
    BY <1>4 DEF RefreshInstrument
  <2> HIDE DEF r
  <2> QED BY <2>1, <2>2, <2>3, <2>4, CountsBegin DEF Whole
<1>5. ASSUME NEW w \in Scanners, NEW force \in BOOLEAN, NEW i \in Named, NEW t \in 1 .. Len(Timeframes),
             RefreshSnapshot(w, i, Timeframes[t], force)
      PROVE  CountInv' /\ \A v \in Workers : Reported(v)
  <2> DEFINE r == [Idle EXCEPT !.kind = "snapshot", !.todo = <<i>>, !.frames = <<Timeframes[t]>>, !.force = force]
  <2>1. r.kind = "snapshot" /\ r.todo = <<i>> /\ r.frames = <<Timeframes[t]>> /\ r.done = NoScan
    BY DEF Idle
  <2>2. r \in Jobs /\ w \in Workers
    BY NamedTyped, RequestsTyped
  <2>3. Len(<<i>>) = 1 /\ Len(<<Timeframes[t]>>) = 1
    OBVIOUS
  <2>4. Begin(w, r)
    BY <1>5 DEF RefreshSnapshot
  <2> HIDE DEF r
  <2> QED BY <2>1, <2>2, <2>3, <2>4, CountsBegin DEF Whole
<1>6. ASSUME NEW w \in Readers, NEW i \in Named, NEW t \in 1 .. Len(Timeframes),
             ChartSnapshot(w, i, Timeframes[t])
      PROVE  CountInv' /\ \A v \in Workers : Reported(v)
  <2> DEFINE key == <<i, Timeframes[t]>>
             r == [Idle EXCEPT !.kind = "chart", !.todo = <<i>>, !.frames = <<Timeframes[t]>>,
                               !.key = key, !.seen = latest[key]]
  <2>1. r.kind = "chart" /\ r.todo = <<i>> /\ r.frames = <<Timeframes[t]>> /\ r.done = NoScan
    BY DEF Idle
  <2>2. r \in Jobs /\ w \in Workers
    BY NamedTyped, RequestsTyped
  <2>3. Len(<<i>>) = 1 /\ Len(<<Timeframes[t]>>) = 1
    OBVIOUS
  <2>4. Begin(w, r)
    BY <1>6 DEF ChartSnapshot
  <2> HIDE DEF r
  <2> QED BY <2>1, <2>2, <2>3, <2>4, CountsBegin DEF Whole
<1>7. ASSUME NEW w \in Readers, ResolveSnapshot(w)
      PROVE  CountInv' /\ \A v \in Workers : Reported(v)
  <2>1. w \in Workers /\ job[w].pc = "wait" /\ Begin(w, job[w])
    BY <1>7, NamedTyped DEF ResolveSnapshot
  <2>2. job[w] \in Jobs /\ JobOK(w) /\ job[w].done = NoScan
    BY <2>1 DEF ScanInv, JobOK, CountInv
  <2>3. job[w].kind = "resolve" /\ Len(job[w].todo) = 1 /\ Len(job[w].frames) = 1
    BY <2>1, <2>2 DEF JobOK, Single
  <2> QED BY <2>1, <2>2, <2>3, CountsBegin DEF Whole
<1>8. ASSUME NEW w \in Readers, NEW i \in Named, NEW t \in 1 .. Len(Timeframes),
             AskSnapshot(w, i, Timeframes[t])
      PROVE  CountInv' /\ \A v \in Workers : Reported(v)
  <2> DEFINE j == [Idle EXCEPT !.pc = "wait", !.kind = "resolve", !.todo = <<i>>, !.frames = <<Timeframes[t]>>,
                               !.key = <<i, Timeframes[t]>>, !.seen = latest[<<i, Timeframes[t]>>]]
  <2>1. job' = [job EXCEPT ![w] = j] /\ w \in Workers /\ version' = version
    BY <1>8, NamedTyped DEF AskSnapshot, store
  <2>2. j.pc = "wait" /\ j.done = NoScan
    BY DEF Idle
  <2> HIDE DEF j
  <2> QED BY <2>1, <2>2, CountsOne DEF Working
<1>9. ASSUME NEW w \in Workers, Reply(w)
      PROVE  CountInv' /\ \A v \in Workers : Reported(v)
  <2>1. job' = [job EXCEPT ![w] = Idle] /\ Idle.pc = "idle" /\ version' = version
    BY <1>9 DEF Reply, Idle, store
  <2> QED BY <2>1, CountsOne DEF Working
<1>10. ASSUME NEW w \in Workers, ScanStep(w)
       PROVE  CountInv' /\ \A v \in Workers : Reported(v)
  BY <1>9, <1>10, CountsRead, CountsPublish DEF ScanStep
<1>11. CASE UNCHANGED vars
  <2>1. job' = job /\ version' = version
    BY <1>11 DEF vars, store
  <2> QED BY <2>1 DEF CountInv, Reported
<1> QED BY <1>1, <1>3, <1>4, <1>5, <1>6, <1>7, <1>8, <1>10, <1>11 DEF Next

(* A scan reports an instrument as scanned only if it published every      *)
(* timeframe of it, and counts exactly the snapshots of the scanned ones,  *)
(* whatever fails, is skipped or restarts on the way (scan_all).           *)
THEOREM ScannedIsPublished == Spec => ScannedMeansAll
<1>1. Init => CountInv
  <2> SUFFICES ASSUME Init PROVE CountInv
    OBVIOUS
  <2>1. Idle.pc = "idle" /\ \A w \in Workers : job[w] = Idle
    BY DEF Init, Idle
  <2> QED BY <2>1 DEF CountInv, Working
<1>2. ScanInv /\ CountInv /\ [Next]_vars => CountInv'
  BY CountSteps
<1>3. ScanInv /\ CountInv /\ [Next]_vars =>
        [\A w \in Workers : job[w].pc # "answered" /\ job'[w].pc = "answered" =>
          LET done == job'[w].done
              made == {k \in Keys : k[1] \in done.scanned /\ version'[k] > job[w].since[k]}
          IN  /\ done.published = Cardinality(made)
              /\ job[w].kind \in {"full", "instrument"} => made = {k \in Keys : k[1] \in done.scanned}]_vars
  BY CountSteps DEF Reported
<1> QED BY <1>1, <1>2, <1>3, ScanInit, ScanStepOK, PTL DEF Spec, ScannedMeansAll
=============================================================================
