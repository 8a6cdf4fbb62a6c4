------------------------- MODULE HistorySyncProofs -------------------------
(***************************************************************************)
(* Theorems about HistorySync, for every broker log, any number of workers *)
(* and every bound: type correctness; EventsHaveRaw and, for the           *)
(* watermark, OnlyStaleCallsMoveBack with every hazard on; and, when syncs *)
(* are serialised, reads are reliable and backfill windows leave no gap,   *)
(* WatermarkComplete and the refinement of LedgerMirror.                   *)
(***************************************************************************)
EXTENDS HistorySync, TLAPS

-----------------------------------------------------------------------------
(* Rows of a set of transactions, with the log as a parameter so that the  *)
(* logs before and after a step can be compared.                           *)
Rows(l, ids) == UNION {{i} \X (1 .. RowCount[l[i]]) : i \in ids}

(* RowsOf is Rows of the current log, for any set of ids.                  *)
LEMMA RowsOfIsRows == \A ids : RowsOf(ids) = Rows(log, ids)
BY DEF RowsOf, Rows

(* Rows only looks at the part of the log its ids name, so the broker      *)
(* appending a transaction changes no set of rows already named.           *)
LEMMA AppendKeepsRows ==
    ASSUME NEW l \in Seq(Transactions), NEW tx \in Transactions,
           NEW ids, ids \subseteq 1 .. Len(l)
    PROVE  Rows(Append(l, tx), ids) = Rows(l, ids)
<1>1. \A i \in ids : Append(l, tx)[i] = l[i]
  OBVIOUS
<1>2. ASSUME NEW row
      PROVE  row \in Rows(Append(l, tx), ids) <=> row \in Rows(l, ids)
  <2>1. row \in Rows(Append(l, tx), ids) <=>
           \E i \in ids : \E k \in 1 .. RowCount[Append(l, tx)[i]] : row = <<i, k>>
    BY DEF Rows
  <2>2. row \in Rows(l, ids) <=> \E i \in ids : \E k \in 1 .. RowCount[l[i]] : row = <<i, k>>
    BY DEF Rows
  <2> QED
    BY <1>1, <2>1, <2>2
<1> QED
  BY <1>2 DEF Rows

(* A transaction the type filter drops has no rows, so a response covers   *)
(* all the rows of its id range.                                           *)
LEMMA MatchingCoversRange ==
    ASSUME TypeOK, NEW lo \in Nat, NEW hi \in Nat, hi <= Len(log)
    PROVE  /\ Matching(lo, hi) \subseteq 1 .. Len(log)
           /\ RowsOf(Matching(lo, hi)) = RowsOf((lo + 1) .. hi)
<1>1. Matching(lo, hi) \subseteq (lo + 1) .. hi
  BY DEF Matching
<1>2. \A i \in (lo + 1) .. hi : log[i] \in Transactions /\ RowCount[log[i]] \in Nat
  BY RowCountType DEF TypeOK
<1>3. ASSUME NEW row, row \in Rows(log, (lo + 1) .. hi)
      PROVE  row \in Rows(log, Matching(lo, hi))
  <2>1. PICK i \in (lo + 1) .. hi : \E k \in 1 .. RowCount[log[i]] : row = <<i, k>>
    BY <1>3 DEF Rows
  <2>2. RowCount[log[i]] > 0
    BY <2>1, <1>2
  <2> QED
    BY <2>1, <2>2 DEF Matching, Rows
<1>4. ASSUME NEW row, row \in Rows(log, Matching(lo, hi))
      PROVE  row \in Rows(log, (lo + 1) .. hi)
  BY <1>1, <1>4 DEF Rows
<1> QED
  BY <1>1, <1>3, <1>4, RowsOfIsRows

(* Rows are rows of transactions of the log.                               *)
LEMMA RowsAreTyped ==
    ASSUME TypeOK, NEW ids, ids \subseteq 1 .. Len(log)
    PROVE  RowsOf(ids) \subseteq (1 .. Len(log)) \X Nat
<1>1. ASSUME NEW row, row \in Rows(log, ids)
      PROVE  row \in (1 .. Len(log)) \X Nat
  <2>1. PICK i \in ids : \E k \in 1 .. RowCount[log[i]] : row = <<i, k>>
    BY <1>1 DEF Rows
  <2>2. RowCount[log[i]] \in Nat
    BY RowCountType DEF TypeOK
  <2> QED
    BY <2>1, <2>2
<1> QED
  BY <1>1, RowsOfIsRows

(* An interrupted write of event rows leaves rows of the response only.    *)
LEMMA RowsBeforeIsPart ==
    \A ids, cut : RowsBefore(ids, cut) \subseteq RowsOf(ids)
BY DEF RowsBefore

(* What a call has fetched are ids the broker has issued.                  *)
LEMMA FetchedInLog ==
    ASSUME TypeOK, NEW r \in Runners
    PROVE  Fetched(r) \subseteq 1 .. Len(log)
<1>1. job[r].from \in Nat /\ job[r].upto \in Nat /\ job[r].upto <= Len(log)
  BY DEF TypeOK, Jobs
<1> QED
  BY <1>1, MatchingCoversRange DEF Fetched

-----------------------------------------------------------------------------
(* Type correctness                                                        *)

(* The empty store with no call running is well typed.                     *)
LEMMA InitType == Init => TypeOK
BY BoundsType DEF Init, TypeOK, Jobs, PCs, Idle, NoWatermark, Runners

(* The two ways a call ends without touching more than the locks.          *)
LEMMA EndCallType ==
    ASSUME TypeOK, NEW r \in Runners, EndCall(r)
    PROVE  /\ job' \in [Runners -> Jobs]
           /\ \A q \in Runners : job'[q] = IF q = r THEN Idle ELSE job[q]
           /\ holders' \subseteq Workers
           /\ owner' \in {"none", "server", "cli"}
           /\ \A q \in Runners : job'[q].from <= Len(log) /\ job'[q].upto <= Len(log)
                                 /\ job'[q].top <= Len(log)
<1>1. Idle \in Jobs /\ Idle.from = 0 /\ Idle.upto = 0 /\ Idle.top = 0
  BY DEF Idle, Jobs, PCs
<1>2. /\ job' \in [Runners -> Jobs]
      /\ \A q \in Runners : job'[q] = IF q = r THEN Idle ELSE job[q]
  BY <1>1 DEF TypeOK, EndCall
<1>3. Len(log) \in Nat
  BY DEF TypeOK
<1>4. \A q \in Runners : job'[q].from <= Len(log) /\ job'[q].upto <= Len(log) /\ job'[q].top <= Len(log)
  BY <1>1, <1>2, <1>3 DEF TypeOK
<1> QED
  BY <1>2, <1>4 DEF TypeOK, EndCall

(* Moving a call to its next step keeps its range.                         *)
LEMMA GotoType ==
    ASSUME TypeOK, NEW r \in Runners, NEW pc \in PCs, Goto(r, pc)
    PROVE  /\ job' \in [Runners -> Jobs]
           /\ \A q \in Runners : /\ job'[q].from = job[q].from /\ job'[q].upto = job[q].upto
                                 /\ job'[q].top = job[q].top
BY DEF TypeOK, Goto, Jobs

(* A job record of the right type, with ids of the log, keeps job typed.   *)
LEMMA SetJobType ==
    ASSUME TypeOK, NEW r \in Runners, NEW j \in Jobs, job' = [job EXCEPT ![r] = j],
           j.from <= Len(log), j.upto <= Len(log), j.top <= Len(log)
    PROVE  /\ job' \in [Runners -> Jobs]
           /\ \A q \in Runners : job'[q].from <= Len(log) /\ job'[q].upto <= Len(log)
                                 /\ job'[q].top <= Len(log)
BY DEF TypeOK

(* Every step of the program keeps the types; one step per action.         *)
LEMMA TypeInductive == TypeOK /\ [Next]_vars => TypeOK'
<1> SUFFICES ASSUME TypeOK, [Next]_vars
             PROVE  TypeOK'
  OBVIOUS
<1>w. Workers \subseteq Runners /\ Cli \in Runners /\ Cli \notin Workers
  BY WorkersType DEF Runners
<1>l. Len(log) \in Nat
  BY DEF TypeOK
<1>1. ASSUME NEW tx \in Transactions, BrokerCommit(tx)
      PROVE  TypeOK'
  <2>1. log' \in Seq(Transactions) /\ Len(log') = Len(log) + 1
    BY <1>1 DEF BrokerCommit, TypeOK
  <2>2. (1 .. Len(log)) \subseteq (1 .. Len(log')) /\ (0 .. Len(log)) \subseteq (0 .. Len(log'))
    BY <2>1, <1>l
  <2>3. \A r \in Runners : job[r].from <= Len(log') /\ job[r].upto <= Len(log') /\ job[r].top <= Len(log')
    BY <2>1, <1>l DEF TypeOK, Jobs
  <2> QED
    BY <1>1, <2>1, <2>2, <2>3 DEF BrokerCommit, TypeOK
<1>2. CASE OpenServer \/ CloseServer
  BY <1>2 DEF OpenServer, CloseServer, TypeOK
<1>3. CASE Crash
  BY <1>3, <1>l DEF Crash, TypeOK, Idle, Jobs, PCs
<1>4. ASSUME NEW w \in Workers, BeginSync(w)
      PROVE  TypeOK'
  <2>1. PICK seen \in {watermark, NoWatermark} :
           job' = [job EXCEPT ![w] = IF seen = NoWatermark
                                       THEN [Idle EXCEPT !.pc = "details"]
                                       ELSE [Idle EXCEPT !.pc = "fetch", !.from = seen]]
    BY <1>4 DEF BeginSync, ReadWatermark
  <2>2. seen # NoWatermark => seen \in 0 .. Len(log)
    BY <2>1 DEF TypeOK
  <2>3. /\ job' \in [Runners -> Jobs]
        /\ \A r \in Runners : job'[r].from <= Len(log) /\ job'[r].upto <= Len(log) /\ job'[r].top <= Len(log)
    <3> DEFINE j == IF seen = NoWatermark THEN [Idle EXCEPT !.pc = "details"]
                    ELSE [Idle EXCEPT !.pc = "fetch", !.from = seen]
    <3>1. j \in Jobs /\ j.from <= Len(log) /\ j.upto <= Len(log) /\ j.top <= Len(log)
      <4>1. "details" \in PCs /\ "fetch" \in PCs /\ Idle.from = 0 /\ Idle.upto = 0 /\ Idle.top = 0
        BY DEF PCs, Idle
      <4>2. CASE seen = NoWatermark
        <5>1. j \in Jobs
          BY <4>1, <4>2 DEF Jobs, Idle
        <5> QED
          BY <5>1, <4>1, <4>2, <1>l DEF Idle
      <4>3. CASE seen # NoWatermark
        <5>1. seen \in Nat /\ seen <= Len(log)
          BY <4>3, <2>2, <1>l
        <5>2. j \in Jobs
          BY <4>1, <4>3, <5>1 DEF Jobs, Idle
        <5> QED
          BY <5>1, <5>2, <4>1, <4>3, <1>l DEF Idle
      <4> QED
        BY <4>2, <4>3
    <3>2. job' = [job EXCEPT ![w] = j]
      BY <2>1
    <3> QED
      BY <3>1, <3>2, <1>w, SetJobType
  <2>4. holders' \subseteq Workers
    BY <1>4 DEF BeginSync, TypeOK
  <2> QED
    BY <1>4, <2>3, <2>4 DEF BeginSync, TypeOK
<1>5. ASSUME NEW w \in Workers, FetchDetails(w) \/ FetchSince(w)
      PROVE  TypeOK'
  <2>1. PICK pc \in PCs : job' = [job EXCEPT ![w] = [job[w] EXCEPT !.pc = pc, !.upto = Len(log)]]
    BY <1>5 DEF FetchDetails, FetchSince, PCs
  <2> DEFINE j == [job[w] EXCEPT !.pc = pc, !.upto = Len(log)]
  <2>2. j \in Jobs /\ j.from <= Len(log) /\ j.upto <= Len(log) /\ j.top <= Len(log)
    <3>1. job[w] \in Jobs /\ job[w].from <= Len(log) /\ job[w].top <= Len(log)
      BY <1>w DEF TypeOK
    <3>2. j \in Jobs
      BY <3>1, <1>l DEF Jobs
    <3>3. j.from <= Len(log) /\ j.upto <= Len(log) /\ j.top <= Len(log)
      BY <3>1, <1>l DEF Jobs
    <3> QED
      BY <3>2, <3>3
  <2>3. /\ job' \in [Runners -> Jobs]
        /\ \A r \in Runners : job'[r].from <= Len(log) /\ job'[r].upto <= Len(log) /\ job'[r].top <= Len(log)
    BY <2>1, <2>2, <1>w, SetJobType
  <2> QED
    BY <1>5, <2>3 DEF FetchDetails, FetchSince, TypeOK
<1>6. ASSUME NEW w \in Workers, InitialiseWatermark(w)
      PROVE  TypeOK'
  <2>1. job[w].upto \in 0 .. Len(log)
    BY <1>w, <1>l DEF TypeOK, Jobs
  <2>2. EndCall(w) /\ watermark' = job[w].upto /\ base' \in {job[w].upto, base}
        /\ UNCHANGED <<log, raw, events, faults, backfills>>
    BY <1>6 DEF InitialiseWatermark
  <2> QED
    BY <2>1, <2>2, <1>w, EndCallType DEF TypeOK
<1>7. ASSUME NEW r \in Runners, PersistRaw(r)
      PROVE  TypeOK'
  BY <1>7, GotoType, FetchedInLog DEF PersistRaw, TypeOK, PCs
<1>8. ASSUME NEW r \in Runners, PersistEvents(r)
      PROVE  TypeOK'
  <2>1. RowsOf(Fetched(r)) \subseteq (1 .. Len(log)) \X Nat
    BY FetchedInLog, RowsAreTyped
  <2> QED
    BY <1>8, <2>1, GotoType DEF PersistEvents, TypeOK, PCs
<1>9. ASSUME NEW r \in Runners, FinishProjection(r)
      PROVE  TypeOK'
  BY <1>9, GotoType DEF FinishProjection, TypeOK, PCs
<1>10. ASSUME NEW w \in Workers, AdvanceSync(w)
       PROVE  TypeOK'
  <2>1. job[w].upto \in 0 .. Len(log)
    BY <1>w, <1>l DEF TypeOK, Jobs
  <2> QED
    BY <1>10, <2>1, <1>w, EndCallType DEF AdvanceSync, TypeOK
<1>11. ASSUME NEW first \in 1 .. MaxLog, NEW last \in 1 .. MaxLog, BeginBackfill(first, last)
       PROVE  TypeOK'
  <2>1. first - 1 \in 0 .. Len(log) /\ last \in Nat
    BY <1>11, <1>l, BoundsType DEF BeginBackfill
  <2>2. /\ job' \in [Runners -> Jobs]
        /\ \A r \in Runners : job'[r].from <= Len(log) /\ job'[r].upto <= Len(log) /\ job'[r].top <= Len(log)
    <3> DEFINE j == [Idle EXCEPT !.pc = "fetch", !.upto = first - 1, !.last = last]
    <3>1. j \in Jobs /\ j.from <= Len(log) /\ j.upto <= Len(log) /\ j.top <= Len(log)
      <4>1. "fetch" \in PCs /\ Idle.from = 0 /\ Idle.top = 0
        BY DEF PCs, Idle
      <4>2. first - 1 \in Nat /\ first - 1 <= Len(log)
        BY <2>1, <1>l
      <4>3. j \in Jobs
        BY <4>1, <4>2, <2>1 DEF Jobs, Idle
      <4> QED
        BY <4>1, <4>2, <4>3, <1>l DEF Idle
    <3>2. job' = [job EXCEPT ![Cli] = j]
      BY <1>11 DEF BeginBackfill
    <3> QED
      BY <3>1, <3>2, <1>w, SetJobType
  <2>3. base' \in 0 .. Len(log) \union {NoWatermark}
    BY <1>11, <2>1 DEF BeginBackfill, TypeOK
  <2> QED
    BY <1>11, <2>2, <2>3 DEF BeginBackfill, TypeOK
<1>12. ASSUME NEW end \in 0 .. MaxLog, FetchChunk(end)
       PROVE  TypeOK'
  <2>1. job[Cli] \in Jobs /\ job[Cli].upto <= Len(log) /\ job[Cli].top <= Len(log)
    BY <1>w DEF TypeOK
  <2>2. end \in 1 .. Len(log)
    BY <1>12, <2>1, <1>l DEF FetchChunk, Jobs
  <2>3. Matching(job[Cli].upto, end) \subseteq 1 .. Len(log)
    <3>1. job[Cli].upto \in Nat /\ end \in Nat /\ end <= Len(log)
      BY <2>1, <2>2, <1>l DEF Jobs
    <3> QED
      BY <3>1, MatchingCoversRange
  <2>4. PICK m \in Matching(job[Cli].upto, end) \union {job[Cli].top} :
           job' = [job EXCEPT ![Cli] =
                     [job[Cli] EXCEPT !.pc = "raw", !.from = job[Cli].upto, !.upto = end, !.top = m,
                                      !.more = end < job[Cli].last /\ end < Len(log)]]
    BY <1>12 DEF FetchChunk
  <2>5. m \in Nat /\ m <= Len(log)
    BY <2>1, <2>3, <2>4, <1>l DEF Jobs
  <2>6. /\ job' \in [Runners -> Jobs]
        /\ \A r \in Runners : job'[r].from <= Len(log) /\ job'[r].upto <= Len(log) /\ job'[r].top <= Len(log)
    <3> DEFINE j == [job[Cli] EXCEPT !.pc = "raw", !.from = job[Cli].upto, !.upto = end, !.top = m,
                                     !.more = end < job[Cli].last /\ end < Len(log)]
    <3>1. j \in Jobs /\ j.from <= Len(log) /\ j.upto <= Len(log) /\ j.top <= Len(log)
      <4>1. "raw" \in PCs /\ job[Cli].upto \in Nat /\ (end < job[Cli].last /\ end < Len(log)) \in BOOLEAN
        BY <2>1 DEF PCs, Jobs
      <4>2. end \in Nat /\ end <= Len(log)
        BY <2>2, <1>l
      <4> QED
        BY <4>1, <4>2, <2>1, <2>5 DEF Jobs
    <3>2. job' = [job EXCEPT ![Cli] = j]
      BY <2>4
    <3> QED
      BY <3>1, <3>2, <1>w, SetJobType
  <2> QED
    BY <1>12, <2>6 DEF FetchChunk, TypeOK
<1>13. CASE AdvanceBackfill
  <2>1. job[Cli].top \in 0 .. Len(log)
    BY <1>w, <1>l DEF TypeOK, Jobs
  <2> QED
    BY <1>13, <2>1, <1>w, EndCallType DEF AdvanceBackfill, TypeOK
<1>14. ASSUME NEW r \in Runners, Fail(r)
       PROVE  TypeOK'
  <2>1. raw' \subseteq 1 .. Len(log)
    BY <1>14, FetchedInLog DEF Fail, TypeOK
  <2>2. events' \subseteq (1 .. Len(log)) \X Nat
    <3>1. RowsOf(Fetched(r)) \subseteq (1 .. Len(log)) \X Nat
      BY FetchedInLog, RowsAreTyped
    <3> QED
      BY <1>14, <3>1, RowsBeforeIsPart DEF Fail, TypeOK
  <2> QED
    BY <1>14, <2>1, <2>2, EndCallType DEF Fail, TypeOK
<1>15. CASE UNCHANGED vars
  BY <1>15 DEF vars, TypeOK
<1> QED
  BY <1>1, <1>2, <1>3, <1>4, <1>5, <1>6, <1>7, <1>8, <1>9, <1>10, <1>11, <1>12, <1>13, <1>14, <1>15, <1>w
  DEF Next, SyncStep, BackfillStep

(* Every variable keeps its type, and every id names a logged transaction. *)
THEOREM TypeCorrect == Spec => []TypeOK
<1>1. Init => TypeOK
  BY InitType
<1>2. TypeOK /\ [Next]_vars => TypeOK'
  BY TypeInductive
<1> QED
  BY <1>1, <1>2, PTL DEF Spec

-----------------------------------------------------------------------------
(* Rows have their payload, with every hazard on                           *)

(* What makes EventsHaveRaw inductive: whoever is about to write rows has  *)
(* written the payloads they come from.                                    *)
PayloadsStored == \A r \in Runners : job[r].pc = "events" => Fetched(r) \subseteq raw

RawFirst == EventsHaveRaw /\ PayloadsStored

(* A call whose range does not change has fetched the same ids.            *)
LEMMA SameRange ==
    ASSUME NEW q \in Runners, log' = log,
           job'[q].from = job[q].from, job'[q].upto = job[q].upto
    PROVE  Fetched(q)' = Fetched(q)
BY DEF Fetched, Matching

(* A transaction committed later changes nothing already fetched: the      *)
(* response is bounded by its last transaction id.                         *)
LEMMA FetchedIsStable ==
    ASSUME TypeOK, NEW tx \in Transactions, BrokerCommit(tx), NEW q \in Runners
    PROVE  Fetched(q)' = Fetched(q)
<1>1. job[q].upto \in Nat /\ job[q].upto <= Len(log) /\ job[q].from \in Nat
  BY DEF TypeOK, Jobs
<1>2. log \in Seq(Transactions) /\ log' = Append(log, tx) /\ job' = job
  BY DEF TypeOK, BrokerCommit
<1>3. \A i \in (job[q].from + 1) .. job[q].upto : log'[i] = log[i]
  BY <1>1, <1>2
<1> QED
  BY <1>2, <1>3 DEF Fetched, Matching

(* A row names the transaction it was projected from.                      *)
LEMMA RowsComeFrom ==
    ASSUME NEW ids, NEW row \in RowsOf(ids)
    PROVE  row[1] \in ids
BY DEF RowsOf

(* A step after which nobody is newly about to write rows.                 *)
LEMMA NoNewWriter ==
    ASSUME RawFirst, log' = log, raw \subseteq raw', events' = events,
           \A q \in Runners : job'[q].pc = "events" => job'[q] = job[q]
    PROVE  RawFirst'
<1>1. EventsHaveRaw'
  BY DEF RawFirst, EventsHaveRaw
<1>2. ASSUME NEW q \in Runners, job'[q].pc = "events"
      PROVE  Fetched(q)' \subseteq raw'
  BY <1>2, SameRange DEF RawFirst, PayloadsStored
<1> QED
  BY <1>1, <1>2 DEF RawFirst, PayloadsStored

(* Every step stores a payload before, and never removes it under, the     *)
(* rows projected from it.                                                 *)
LEMMA RawFirstInductive == TypeOK /\ RawFirst /\ [Next]_vars => RawFirst'
<1> SUFFICES ASSUME TypeOK, RawFirst, [Next]_vars
             PROVE  RawFirst'
  OBVIOUS
<1>w. Workers \subseteq Runners /\ Cli \in Runners
  BY DEF Runners
<1>1. ASSUME NEW tx \in Transactions, BrokerCommit(tx)
      PROVE  RawFirst'
  <2>1. \A q \in Runners : Fetched(q)' = Fetched(q)
    BY <1>1, FetchedIsStable
  <2> QED
    BY <1>1, <2>1 DEF BrokerCommit, RawFirst, EventsHaveRaw, PayloadsStored
<1>2. ASSUME NEW r \in Runners, PersistRaw(r)
      PROVE  RawFirst'
  <2>1. \A q \in Runners : job'[q].from = job[q].from /\ job'[q].upto = job[q].upto
    BY <1>2, GotoType DEF PersistRaw, PCs
  <2>2. \A q \in Runners : Fetched(q)' = Fetched(q)
    BY <1>2, <2>1, SameRange DEF PersistRaw
  <2>3. \A q \in Runners : q # r => job'[q] = job[q]
    BY <1>2 DEF PersistRaw, Goto, TypeOK
  <2>4. PayloadsStored'
    BY <1>2, <2>2, <2>3 DEF PersistRaw, RawFirst, PayloadsStored
  <2> QED
    BY <1>2, <2>4 DEF PersistRaw, RawFirst, EventsHaveRaw
<1>3. ASSUME NEW r \in Runners, PersistEvents(r)
      PROVE  RawFirst'
  <2>1. Fetched(r) \subseteq raw
    BY <1>3 DEF PersistEvents, RawFirst, PayloadsStored
  <2>2. EventsHaveRaw'
    BY <1>3, <2>1, RowsComeFrom DEF PersistEvents, RawFirst, EventsHaveRaw
  <2>3. \A q \in Runners : job'[q].pc = "events" => job'[q] = job[q]
    BY <1>3 DEF PersistEvents, Goto, TypeOK, Jobs
  <2>4. ASSUME NEW q \in Runners, job'[q].pc = "events"
        PROVE  Fetched(q)' \subseteq raw'
    BY <1>3, <2>3, <2>4, SameRange DEF PersistEvents, RawFirst, PayloadsStored
  <2> QED
    BY <2>2, <2>4 DEF RawFirst, PayloadsStored
<1>4. ASSUME NEW r \in Runners, Fail(r)
      PROVE  RawFirst'
  <2>1. /\ log' = log /\ raw \subseteq raw'
        /\ \A q \in Runners : job'[q].pc = "events" => job'[q] = job[q]
    BY <1>4, EndCallType DEF Fail, Idle
  <2>2. CASE job[r].pc # "events"
    BY <1>4, <2>1, <2>2, NoNewWriter DEF Fail
  <2>3. CASE job[r].pc = "events"
    <3>1. Fetched(r) \subseteq raw /\ raw' = raw
      BY <1>4, <2>3 DEF Fail, RawFirst, PayloadsStored
    <3>2. \A row \in events' : row \in events \/ row \in RowsOf(Fetched(r))
      BY <1>4, <2>3, RowsBeforeIsPart DEF Fail
    <3>3. EventsHaveRaw'
      BY <3>1, <3>2, RowsComeFrom DEF RawFirst, EventsHaveRaw
    <3>4. ASSUME NEW q \in Runners, job'[q].pc = "events"
          PROVE  Fetched(q)' \subseteq raw'
      BY <2>1, <3>1, <3>4, SameRange DEF RawFirst, PayloadsStored
    <3> QED
      BY <3>3, <3>4 DEF RawFirst, PayloadsStored
  <2> QED
    BY <2>2, <2>3
<1>5. CASE OpenServer \/ CloseServer \/ Crash
  BY <1>5, NoNewWriter DEF OpenServer, CloseServer, Crash, Idle
<1>6. ASSUME NEW w \in Workers, BeginSync(w)
      PROVE  RawFirst'
  BY <1>6, <1>w, NoNewWriter DEF BeginSync, TypeOK, Idle
<1>7. ASSUME NEW w \in Workers, FetchDetails(w) \/ FetchSince(w)
      PROVE  RawFirst'
  <2>1. \A q \in Runners : job'[q].pc = "events" => job'[q] = job[q]
    BY <1>7, <1>w DEF FetchDetails, FetchSince, TypeOK, Jobs
  <2> QED
    BY <1>7, <2>1, NoNewWriter DEF FetchDetails, FetchSince
<1>8. ASSUME NEW r \in Runners, EndCall(r), UNCHANGED <<log, raw, events>>
      PROVE  RawFirst'
  BY <1>8, EndCallType, NoNewWriter DEF Idle
<1>9. ASSUME NEW r \in Runners, FinishProjection(r)
      PROVE  RawFirst'
  <2>1. \A q \in Runners : job'[q].pc = "events" => job'[q] = job[q]
    BY <1>9 DEF FinishProjection, Goto, TypeOK, Jobs
  <2> QED
    BY <1>9, <2>1, NoNewWriter DEF FinishProjection
<1>10. ASSUME NEW first \in 1 .. MaxLog, NEW last \in 1 .. MaxLog, BeginBackfill(first, last)
       PROVE  RawFirst'
  BY <1>10, <1>w, NoNewWriter DEF BeginBackfill, TypeOK, Idle
<1>11. ASSUME NEW end \in 0 .. MaxLog, FetchChunk(end)
       PROVE  RawFirst'
  <2>1. \A q \in Runners : job'[q].pc = "events" => job'[q] = job[q]
    BY <1>11, <1>w DEF FetchChunk, TypeOK, Jobs
  <2> QED
    BY <1>11, <2>1, NoNewWriter DEF FetchChunk
<1>12. CASE UNCHANGED vars
  BY <1>12, NoNewWriter DEF vars
<1> QED
  BY <1>1, <1>2, <1>3, <1>4, <1>5, <1>6, <1>7, <1>8, <1>9, <1>10, <1>11, <1>12, <1>w
  DEF Next, SyncStep, BackfillStep, InitialiseWatermark, AdvanceSync, AdvanceBackfill

(* Whatever fails or crashes, and in whatever order workers and CLI write, *)
(* a stored row has its raw payload: the upserts of one call are ordered   *)
(* and no table loses a record.                                            *)
THEOREM RowsHavePayloads == Spec => []EventsHaveRaw
<1>1. Init => RawFirst
  BY DEF Init, RawFirst, EventsHaveRaw, PayloadsStored, Idle
<1>2. TypeOK /\ RawFirst /\ [Next]_vars => RawFirst'
  BY RawFirstInductive
<1>3. RawFirst => EventsHaveRaw
  BY DEF RawFirst
<1> QED
  BY <1>1, <1>2, <1>3, TypeCorrect, PTL DEF Spec

-----------------------------------------------------------------------------
(* When the watermark moves back, with every hazard on                     *)

(* The watermark a sync that is about to store one has read at its start:  *)
(* none when it took the last id from the account details.                 *)
Seen(w) == IF job[w].pc = "initialise" THEN NoWatermark ELSE job[w].from

(* The last step of a sync, for which the watermark is no longer the one   *)
(* it read.                                                                *)
StoresStale(w) ==
    /\ job[w].pc \in {"initialise", "advance"} /\ job'[w].pc = "idle"
    /\ Seen(w) # watermark

(* A stored watermark moves back only when a sync ends that read another   *)
(* one than is stored now, or when the backfill's own read of it failed: a *)
(* sync whose reading still holds never gives up what was passed, beside   *)
(* any number of unlocked requests, over any backfill window, and with     *)
(* failures and crashes.                                                   *)
OnlyStaleCallsMoveBack ==
    [][watermark' < watermark =>
          \/ \E w \in Workers : StoresStale(w)
          \/ ReadFaults /\ job[Cli].pc = "advance"]_vars

(* What a sync has fetched starts where its reading of the watermark ends. *)
Ahead == {"raw", "events", "project", "advance"}

RangesOrdered == \A w \in Workers : job[w].pc \in Ahead => job[w].from <= job[w].upto

(* The steps that keep a range, or drop it.                                *)
LEMMA KeepRanges ==
    ASSUME RangesOrdered,
           \A w \in Workers : job'[w].pc \in Ahead =>
              job[w].pc \in Ahead /\ job'[w].from = job[w].from /\ job'[w].upto = job[w].upto
    PROVE  RangesOrdered'
BY DEF RangesOrdered

(* No step puts the end of a fetched range before its start.               *)
LEMMA RangesInductive == TypeOK /\ RangesOrdered /\ [Next]_vars => RangesOrdered'
<1> SUFFICES ASSUME TypeOK, RangesOrdered, [Next]_vars
             PROVE  RangesOrdered'
  OBVIOUS
<1>w. Workers \subseteq Runners /\ Cli \in Runners /\ Cli \notin Workers
  BY WorkersType DEF Runners
<1>1. CASE UNCHANGED job
  BY <1>1, KeepRanges
<1>2. CASE Crash
  BY <1>2, <1>w, KeepRanges DEF Crash, Idle, Ahead
<1>3. ASSUME NEW w \in Workers, BeginSync(w) \/ FetchDetails(w)
      PROVE  RangesOrdered'
  <2>1. job'[w].pc \notin Ahead
    BY <1>3, <1>w DEF BeginSync, FetchDetails, TypeOK, Jobs, Idle, Ahead
  <2>2. \A v \in Workers : v # w => job'[v] = job[v]
    BY <1>3, <1>w DEF BeginSync, FetchDetails, TypeOK
  <2> QED
    BY <2>1, <2>2, KeepRanges
<1>4. ASSUME NEW w \in Workers, FetchSince(w)
      PROVE  RangesOrdered'
  <2>1. job'[w].from = job[w].from /\ job'[w].upto = Len(log) /\ job[w].from <= Len(log)
    BY <1>4, <1>w DEF FetchSince, TypeOK, Jobs
  <2>2. \A v \in Workers : v # w => job'[v] = job[v]
    BY <1>4, <1>w DEF FetchSince, TypeOK
  <2> QED
    BY <2>1, <2>2 DEF RangesOrdered
<1>5. ASSUME NEW r \in Runners, NEW pc \in PCs, Goto(r, pc), job[r].pc \in Ahead
      PROVE  RangesOrdered'
  <2>1. \A q \in Runners : job'[q].from = job[q].from /\ job'[q].upto = job[q].upto
    BY <1>5, GotoType
  <2>2. \A q \in Runners : q # r => job'[q] = job[q]
    BY <1>5 DEF Goto, TypeOK
  <2> QED
    BY <1>5, <1>w, <2>1, <2>2, KeepRanges
<1>6. ASSUME NEW r \in Runners, EndCall(r)
      PROVE  RangesOrdered'
  BY <1>6, <1>w, EndCallType, KeepRanges DEF Idle, Ahead
<1>7. ASSUME NEW j, job' = [job EXCEPT ![Cli] = j]
      PROVE  RangesOrdered'
  BY <1>7, <1>w, KeepRanges DEF TypeOK
<1>8. ASSUME NEW r \in Runners, PersistRaw(r) \/ PersistEvents(r) \/ FinishProjection(r)
      PROVE  RangesOrdered'
  <2>1. job[r].pc \in Ahead /\ \E pc \in PCs : Goto(r, pc)
    BY <1>8 DEF PersistRaw, PersistEvents, FinishProjection, PCs, Ahead
  <2> QED
    BY <2>1, <1>5
<1>9. ASSUME NEW end \in 0 .. MaxLog, FetchChunk(end)
      PROVE  RangesOrdered'
  BY <1>7, <1>9 DEF FetchChunk
<1>10. ASSUME NEW first \in 1 .. MaxLog, NEW last \in 1 .. MaxLog, BeginBackfill(first, last)
       PROVE  RangesOrdered'
  BY <1>7, <1>10 DEF BeginBackfill
<1> QED
  BY <1>1, <1>2, <1>3, <1>4, <1>6, <1>8, <1>9, <1>10, <1>w
  DEF Next, SyncStep, BackfillStep, BrokerCommit, OpenServer, CloseServer, InitialiseWatermark,
      AdvanceSync, AdvanceBackfill, Fail, vars

(* Only the last step of a call writes the watermark, and one that found   *)
(* it unchanged does not lower it.                                         *)
LEMMA MoveBackStep ==
    ASSUME TypeOK, RangesOrdered, Next, watermark' < watermark
    PROVE  (\E w \in Workers : StoresStale(w)) \/ (ReadFaults /\ job[Cli].pc = "advance")
<1>w. Workers \subseteq Runners /\ Cli \in Runners
  BY DEF Runners
<1>n. watermark \in Int /\ watermark >= -1
  BY DEF TypeOK, NoWatermark
<1>1. watermark' # watermark
  BY <1>n
<1>2. CASE \E w \in Workers : InitialiseWatermark(w)
  <2>1. PICK w \in Workers : InitialiseWatermark(w)
    BY <1>2
  <2>2. job[w].pc = "initialise" /\ job'[w].pc = "idle" /\ watermark' = job[w].upto
    BY <2>1, <1>w, EndCallType DEF InitialiseWatermark, Idle
  <2>3. job[w].upto \in Nat
    BY <1>w DEF TypeOK, Jobs
  <2>4. watermark # NoWatermark
    BY <2>2, <2>3, <1>n DEF NoWatermark
  <2> QED
    BY <2>2, <2>4 DEF StoresStale, Seen
<1>3. CASE \E w \in Workers : AdvanceSync(w)
  <2>1. PICK w \in Workers : AdvanceSync(w)
    BY <1>3
  <2>2. job[w].pc = "advance" /\ job'[w].pc = "idle" /\ watermark' = job[w].upto
    BY <2>1, <1>w, EndCallType DEF AdvanceSync, Idle
  <2>3. job[w].upto \in Nat /\ job[w].from \in Nat /\ job[w].from <= job[w].upto
    BY <2>2, <1>w DEF TypeOK, Jobs, RangesOrdered, Ahead
  <2>4. job[w].from # watermark
    BY <2>2, <2>3, <1>n
  <2> QED
    BY <2>2, <2>4 DEF StoresStale, Seen
<1>4. CASE AdvanceBackfill
  <2>1. CASE ReadFaults
    BY <1>4, <2>1 DEF AdvanceBackfill
  <2>2. CASE ~ReadFaults
    <3>1. watermark' = watermark \/ (watermark' = job[Cli].top /\ job[Cli].top > watermark)
      BY <1>4, <2>2 DEF AdvanceBackfill, ReadWatermark
    <3>2. job[Cli].top \in Nat
      BY <1>w DEF TypeOK, Jobs
    <3> QED
      BY <3>1, <3>2, <1>n
  <2> QED
    BY <2>1, <2>2
<1> QED
  BY <1>1, <1>2, <1>3, <1>4
  DEF Next, SyncStep, BackfillStep, BrokerCommit, OpenServer, CloseServer, Crash, BeginSync,
      FetchDetails, FetchSince, PersistRaw, PersistEvents, FinishProjection, BeginBackfill,
      FetchChunk, Fail

(* A watermark is lost to stale readings only, for every log, any number   *)
(* of workers, locked or not, and every bound.                             *)
THEOREM WatermarkMovesBackOnlyStale == Spec => OnlyStaleCallsMoveBack
<1>1. Init => RangesOrdered
  BY DEF Init, RangesOrdered, Idle, Ahead, Runners
<1>2. TypeOK /\ RangesOrdered /\ [Next]_vars => RangesOrdered'
  BY RangesInductive
<1>3. TypeOK /\ RangesOrdered /\ [Next]_vars =>
         [watermark' < watermark =>
             \/ \E w \in Workers : StoresStale(w)
             \/ ReadFaults /\ job[Cli].pc = "advance"]_vars
  BY MoveBackStep
<1> QED
  BY <1>1, <1>2, <1>3, TypeCorrect, PTL DEF Spec, OnlyStaleCallsMoveBack

-----------------------------------------------------------------------------
(* HistorySync keeps its watermark complete and implements LedgerMirror    *)
(* when syncs are serialised by the runtime lock, store reads do not fail  *)
(* and no backfill window starts above the watermark.  Without any one of  *)
(* the three the watermark can promise rows that are not stored.           *)

Serialised == UnlockedReaders = {} /\ ReadFaults = FALSE /\ GapWindows = FALSE

-----------------------------------------------------------------------------
(* The inductive invariant                                                 *)

(* The runtime lock and the lock file admit one call at a time.            *)
Exclusive ==
    /\ \A w \in Workers : job[w].pc # "idle" => holders = {w} /\ owner = "server"
    /\ job[Cli].pc # "idle" => owner = "cli"
    /\ job[Cli].pc \notin {"details", "initialise"}

(* The start of the promise is fixed before anything is promised.          *)
BaseKnown == (watermark # NoWatermark \/ job[Cli].pc # "idle") => base # NoWatermark

StoredAreReal == events \subseteq RowsOf(1 .. Len(log))

(* A sync works on the range that begins at the watermark in the store.    *)
SyncProgress(w) ==
    /\ job[w].pc \in {"details", "initialise"} => watermark = NoWatermark
    /\ job[w].pc \in {"fetch", "raw", "events", "project", "advance"} =>
          watermark # NoWatermark /\ job[w].from = watermark
    /\ job[w].pc \in {"raw", "events", "project", "advance"} => job[w].from <= job[w].upto
    /\ job[w].pc \in {"project", "advance"} => RowsOf((job[w].from + 1) .. job[w].upto) \subseteq events

(* A backfill has stored everything from base up to its current chunk.     *)
BackfillProgress ==
    /\ job[Cli].pc # "idle" => job[Cli].top <= job[Cli].upto
    /\ job[Cli].pc \in {"raw", "events"} => job[Cli].from <= job[Cli].upto /\ CompleteUpTo(job[Cli].from)
    /\ job[Cli].pc \in {"fetch", "project", "advance"} => CompleteUpTo(job[Cli].upto)

Sound ==
    /\ Exclusive
    /\ BaseKnown
    /\ StoredAreReal
    /\ WatermarkComplete
    /\ \A w \in Workers : SyncProgress(w)
    /\ BackfillProgress

-----------------------------------------------------------------------------
(* Rows of adjoining ranges                                                *)

(* More ids give more rows.                                                *)
LEMMA RowsGrow ==
    ASSUME NEW l, NEW a, NEW b, a \subseteq b
    PROVE  Rows(l, a) \subseteq Rows(l, b)
BY DEF Rows

(* Two adjoining ranges make one.                                          *)
LEMMA RowsJoin ==
    ASSUME NEW l, NEW e, NEW lo \in Int, NEW mid \in Int, NEW hi \in Int,
           Rows(l, (lo + 1) .. mid) \subseteq e, Rows(l, (mid + 1) .. hi) \subseteq e
    PROVE  Rows(l, (lo + 1) .. hi) \subseteq e
<1>1. \A i \in (lo + 1) .. hi : i \in (lo + 1) .. mid \/ i \in (mid + 1) .. hi
  OBVIOUS
<1>2. ASSUME NEW row \in Rows(l, (lo + 1) .. hi)
      PROVE  row \in e
  BY <1>1, <1>2 DEF Rows
<1> QED
  BY <1>2

(* An empty range of ids has no rows.                                      *)
LEMMA RowsOfNothing ==
    ASSUME NEW l, NEW n \in Int
    PROVE  Rows(l, (n + 1) .. n) = {}
<1>1. (n + 1) .. n = {}
  OBVIOUS
<1> QED
  BY <1>1 DEF Rows

(* HistorySync and LedgerMirror say complete in the same words.            *)
LEMMA CompleteIsRows == \A n : CompleteUpTo(n) <=> Rows(log, (base + 1) .. n) \subseteq events
BY DEF CompleteUpTo, RowsOf, Rows

-----------------------------------------------------------------------------
(* What a step leaves true when it only adds rows                          *)

(* The progress of a sync survives steps of others that only add rows.     *)
LEMMA KeepSync ==
    ASSUME NEW w \in Workers, SyncProgress(w), log' = log, events \subseteq events',
           watermark' = watermark, job'[w] = job[w] \/ job'[w] = Idle
    PROVE  SyncProgress(w)'
BY DEF SyncProgress, RowsOf, Idle

(* So does the progress of a backfill.                                     *)
LEMMA KeepBackfill ==
    ASSUME BackfillProgress, log' = log, base' = base, events \subseteq events',
           job'[Cli] = job[Cli] \/ job'[Cli] = Idle
    PROVE  BackfillProgress'
BY DEF BackfillProgress, CompleteUpTo, RowsOf, Idle

(* So does the completeness of the watermark.                              *)
LEMMA KeepWatermark ==
    ASSUME WatermarkComplete, log' = log, base' = base, events \subseteq events',
           watermark' = watermark
    PROVE  WatermarkComplete'
BY DEF WatermarkComplete, CompleteUpTo, RowsOf

(* A step that stores nothing stores nothing unreal.                       *)
LEMMA KeepStored ==
    ASSUME StoredAreReal, log' = log, events' = events
    PROVE  StoredAreReal'
BY DEF StoredAreReal, RowsOf

(* Steps that end calls, or change nothing but locks.                      *)
LEMMA KeepSound ==
    ASSUME Sound, Exclusive', log' = log, base' = base, watermark' = watermark,
           events \subseteq events', StoredAreReal',
           \A q \in Runners : job'[q] = job[q] \/ job'[q] = Idle
    PROVE  Sound'
<1>w. Workers \subseteq Runners /\ Cli \in Runners
  BY DEF Runners
<1>1. BaseKnown'
  BY <1>w DEF Sound, BaseKnown, Idle
<1>2. WatermarkComplete'
  BY KeepWatermark DEF Sound
<1>3. \A w \in Workers : SyncProgress(w)'
  BY <1>w, KeepSync DEF Sound
<1>4. BackfillProgress'
  BY <1>w, KeepBackfill DEF Sound
<1> QED
  BY <1>1, <1>2, <1>3, <1>4 DEF Sound

-----------------------------------------------------------------------------
(* Mutual exclusion                                                        *)

(* Both locks free: nobody is at work.                                     *)
LEMMA FreeMeansIdle ==
    ASSUME Exclusive
    PROVE  /\ owner = "none" => \A r \in Runners : job[r].pc = "idle"
           /\ owner = "server" => job[Cli].pc = "idle"
           /\ owner = "cli" => \A w \in Workers : job[w].pc = "idle"
           /\ holders = {} => \A w \in Workers : job[w].pc = "idle"
           /\ \A w, v \in Workers : job[w].pc # "idle" /\ job[v].pc # "idle" => v = w
BY DEF Exclusive, Runners

(* A call that goes on, at a pc its kind of call may have.                 *)
LEMMA GoOnExclusive ==
    ASSUME Exclusive, NEW r \in Runners, job[r].pc # "idle", holders' = holders, owner' = owner,
           \A q \in Runners : q # r => job'[q] = job[q],
           r = Cli => job'[r].pc \notin {"details", "initialise"}
    PROVE  Exclusive'
BY WorkersType DEF Exclusive, Runners

(* A call that ends releases its locks and leaves the others excluded.     *)
LEMMA EndCallExclusive ==
    ASSUME TypeOK, Exclusive, NEW r \in Runners, job[r].pc # "idle", EndCall(r)
    PROVE  Exclusive'
<1>1. \A q \in Runners : job'[q] = IF q = r THEN Idle ELSE job[q]
  BY EndCallType
<1>2. CASE r = Cli
  <2>1. \A w \in Workers : job[w].pc = "idle"
    BY <1>2, FreeMeansIdle DEF Exclusive
  <2> QED
    BY <1>1, <1>2, <2>1, WorkersType DEF Exclusive, Runners, Idle
<1>3. CASE r # Cli
  <2>1. r \in Workers /\ job[Cli].pc = "idle" /\ \A w \in Workers : w # r => job[w].pc = "idle"
    BY <1>3, FreeMeansIdle DEF Exclusive, Runners
  <2> QED
    BY <1>1, <1>3, <2>1, WorkersType DEF Exclusive, Runners, Idle
<1> QED
  BY <1>2, <1>3

-----------------------------------------------------------------------------
(* The steps that do more than end a call                                  *)

(* The broker commits: ids and rows below the new transaction stay as      *)
(* they were.                                                              *)
LEMMA CommitSound ==
    ASSUME TypeOK, Sound, NEW tx \in Transactions, BrokerCommit(tx)
    PROVE  Sound'
<1>l. Len(log) \in Nat /\ log \in Seq(Transactions) /\ log' = Append(log, tx) /\ Len(log') = Len(log) + 1
  BY DEF TypeOK, BrokerCommit
<1>u. UNCHANGED <<raw, events, watermark, base, job, holders, owner, faults, backfills>>
  BY DEF BrokerCommit
<1>r. \A ids : ids \subseteq 1 .. Len(log) => Rows(log', ids) = Rows(log, ids)
  BY <1>l, AppendKeepsRows
<1>c. ASSUME NEW n, base # NoWatermark, n \in Nat, n <= Len(log)
      PROVE  Rows(log', (base + 1) .. n) = Rows(log, (base + 1) .. n)
  <2>1. (base + 1) .. n \subseteq 1 .. Len(log)
    BY <1>c, <1>l DEF TypeOK, NoWatermark
  <2> QED
    BY <2>1, <1>r
<1>1. Exclusive' /\ BaseKnown'
  BY <1>u DEF Sound, Exclusive, BaseKnown
<1>2. StoredAreReal'
  <2>1. Rows(log, 1 .. Len(log)) \subseteq Rows(log', 1 .. Len(log'))
    <3>1. 1 .. Len(log) \subseteq 1 .. Len(log')
      BY <1>l
    <3>2. Rows(log', 1 .. Len(log)) = Rows(log, 1 .. Len(log))
      BY <1>r
    <3> QED
      BY <3>1, <3>2, RowsGrow
  <2> QED
    BY <1>u, <2>1 DEF Sound, StoredAreReal, RowsOf, Rows
<1>3. WatermarkComplete'
  <2>1. watermark # NoWatermark => watermark \in Nat /\ watermark <= Len(log) /\ base # NoWatermark
    BY <1>l DEF TypeOK, Sound, BaseKnown
  <2>2. watermark # NoWatermark =>
           Rows(log', (base + 1) .. watermark) = Rows(log, (base + 1) .. watermark)
    BY <2>1, <1>c
  <2> QED
    BY <1>u, <2>2 DEF Sound, WatermarkComplete, CompleteUpTo, RowsOf, Rows
<1>4. ASSUME NEW w \in Workers
      PROVE  SyncProgress(w)'
  <2>1. job[w].from \in Nat /\ job[w].upto \in Nat /\ job[w].upto <= Len(log)
    BY DEF TypeOK, Jobs, Runners
  <2>2. (job[w].from + 1) .. job[w].upto \subseteq 1 .. Len(log)
    BY <2>1, <1>l
  <2>3. Rows(log', (job[w].from + 1) .. job[w].upto) = Rows(log, (job[w].from + 1) .. job[w].upto)
    BY <2>2, <1>r
  <2> QED
    BY <1>u, <2>3 DEF Sound, SyncProgress, RowsOf, Rows
<1>5. BackfillProgress'
  <2>1. /\ job[Cli].from \in Nat /\ job[Cli].upto \in Nat
        /\ job[Cli].upto <= Len(log) /\ job[Cli].from <= Len(log)
    BY DEF TypeOK, Jobs, Runners
  <2>2. job[Cli].pc # "idle" => base # NoWatermark
    BY DEF Sound, BaseKnown
  <2>3. job[Cli].pc # "idle" =>
           /\ Rows(log', (base + 1) .. job[Cli].from) = Rows(log, (base + 1) .. job[Cli].from)
           /\ Rows(log', (base + 1) .. job[Cli].upto) = Rows(log, (base + 1) .. job[Cli].upto)
    BY <2>1, <2>2, <1>c
  <2> QED
    BY <1>u, <2>3 DEF Sound, BackfillProgress, CompleteUpTo, RowsOf, Rows
<1> QED
  BY <1>1, <1>2, <1>3, <1>4, <1>5 DEF Sound

(* A sync begins under the runtime lock, from the watermark in the store.  *)
LEMMA BeginSyncSound ==
    ASSUME Serialised, TypeOK, Sound, NEW w \in Workers, BeginSync(w)
    PROVE  Sound'
<1>w. Workers \subseteq Runners /\ Cli \in Runners /\ Cli \notin Workers
  BY WorkersType DEF Runners
<1>1. holders = {} /\ holders' = {w} /\ owner = "server" /\ owner' = "server"
  BY DEF BeginSync, Serialised
<1>2. \A r \in Runners : job[r].pc = "idle"
  BY <1>1, FreeMeansIdle DEF Sound, Runners
<1>3. job' = [job EXCEPT ![w] = IF watermark = NoWatermark
                                  THEN [Idle EXCEPT !.pc = "details"]
                                  ELSE [Idle EXCEPT !.pc = "fetch", !.from = watermark]]
  BY DEF BeginSync, ReadWatermark, Serialised
<1>4. \A r \in Runners : r # w => job'[r] = job[r]
  BY <1>3 DEF TypeOK
<1>5. job'[w] = IF watermark = NoWatermark
                  THEN [Idle EXCEPT !.pc = "details"]
                  ELSE [Idle EXCEPT !.pc = "fetch", !.from = watermark]
  BY <1>3, <1>w DEF TypeOK
<1>6. UNCHANGED <<log, events, watermark, base>>
  BY DEF BeginSync
<1>7. Exclusive'
  BY <1>w, <1>1, <1>2, <1>4 DEF Exclusive, Runners
<1>8. SyncProgress(w)'
  <2>1. CASE watermark = NoWatermark
    BY <1>5, <1>6, <2>1 DEF SyncProgress, Idle
  <2>2. CASE watermark # NoWatermark
    BY <1>5, <1>6, <2>2 DEF SyncProgress, Idle
  <2> QED
    BY <2>1, <2>2
<1>9. \A v \in Workers : v # w => SyncProgress(v)'
  BY <1>4, <1>6, <1>w, KeepSync DEF Sound
<1>10. BackfillProgress'
  BY <1>4, <1>6, <1>w, KeepBackfill DEF Sound
<1>11. WatermarkComplete' /\ StoredAreReal' /\ BaseKnown'
  BY <1>4, <1>6, <1>w, KeepWatermark, KeepStored DEF Sound, BaseKnown
<1> QED
  BY <1>7, <1>8, <1>9, <1>10, <1>11 DEF Sound

(* A sync goes on and touches no table.                                    *)
LEMMA SyncGoesOnSound ==
    ASSUME TypeOK, Sound, NEW w \in Workers, job[w].pc # "idle", SyncProgress(w)',
           UNCHANGED <<log, watermark, base, holders, owner>>, events \subseteq events',
           StoredAreReal', \A q \in Runners : q # w => job'[q] = job[q]
    PROVE  Sound'
<1>w. Workers \subseteq Runners /\ Cli \in Runners /\ Cli \notin Workers
  BY WorkersType DEF Runners
<1>1. Exclusive'
  BY <1>w, GoOnExclusive DEF Sound
<1>2. \A v \in Workers : v # w => SyncProgress(v)'
  BY <1>w, KeepSync DEF Sound
<1>3. BackfillProgress'
  BY <1>w, KeepBackfill DEF Sound
<1>4. WatermarkComplete' /\ BaseKnown'
  BY <1>w, KeepWatermark DEF Sound, BaseKnown
<1> QED
  BY <1>1, <1>2, <1>3, <1>4 DEF Sound

(* A backfill goes on.                                                     *)
LEMMA BackfillGoesOnSound ==
    ASSUME TypeOK, Sound, job[Cli].pc # "idle", job'[Cli].pc \notin {"details", "initialise"},
           BackfillProgress', UNCHANGED <<log, watermark, base, holders, owner>>,
           events \subseteq events', StoredAreReal', \A q \in Runners : q # Cli => job'[q] = job[q]
    PROVE  Sound'
<1>w. Workers \subseteq Runners /\ Cli \in Runners /\ Cli \notin Workers
  BY WorkersType DEF Runners
<1>1. Exclusive'
  BY <1>w, GoOnExclusive DEF Sound
<1>2. \A v \in Workers : SyncProgress(v)'
  BY <1>w, KeepSync DEF Sound
<1>3. WatermarkComplete' /\ BaseKnown'
  BY <1>w, KeepWatermark DEF Sound, BaseKnown
<1> QED
  BY <1>1, <1>2, <1>3 DEF Sound

-----------------------------------------------------------------------------
(* The writes                                                              *)

(* The rows of a response are the rows of its id range.                    *)
LEMMA FetchedRows ==
    ASSUME TypeOK, NEW r \in Runners
    PROVE  /\ RowsOf(Fetched(r)) = Rows(log, (job[r].from + 1) .. job[r].upto)
           /\ RowsOf(Fetched(r)) \subseteq RowsOf(1 .. Len(log))
<1>1. job[r].from \in Nat /\ job[r].upto \in Nat /\ job[r].upto <= Len(log) /\ Len(log) \in Nat
  BY DEF TypeOK, Jobs
<1>2. RowsOf(Fetched(r)) = RowsOf((job[r].from + 1) .. job[r].upto)
  BY <1>1, MatchingCoversRange DEF Fetched
<1>3. Fetched(r) \subseteq 1 .. Len(log)
  BY FetchedInLog
<1> QED
  BY <1>2, <1>3, RowsGrow, RowsOfIsRows

(* Storing rows of a response stores rows of real transactions.            *)
LEMMA StoreRowsReal ==
    ASSUME TypeOK, Sound, NEW r \in Runners, log' = log,
           events' \subseteq events \union RowsOf(Fetched(r))
    PROVE  StoredAreReal'
BY FetchedRows DEF Sound, StoredAreReal, RowsOf

(* The payload write changes no row.                                       *)
LEMMA PersistRawSound ==
    ASSUME TypeOK, Sound, NEW r \in Runners, PersistRaw(r)
    PROVE  Sound'
<1>1. /\ UNCHANGED <<log, events, watermark, base, holders, owner>>
      /\ job[r].pc = "raw" /\ job' = [job EXCEPT ![r].pc = "events"]
  BY DEF PersistRaw, Goto
<1>2. /\ \A q \in Runners : q # r => job'[q] = job[q]
      /\ job'[r].pc = "events" /\ job'[r].from = job[r].from
      /\ job'[r].upto = job[r].upto /\ job'[r].top = job[r].top
  BY <1>1 DEF TypeOK, Jobs
<1>3. StoredAreReal'
  BY <1>1, KeepStored DEF Sound
<1>4. CASE r \in Workers
  <2>1. SyncProgress(r)'
    BY <1>1, <1>2, <1>4 DEF Sound, SyncProgress
  <2> QED
    BY <1>1, <1>2, <1>3, <1>4, <2>1, SyncGoesOnSound
<1>5. CASE r = Cli
  <2>1. BackfillProgress'
    BY <1>1, <1>2, <1>5 DEF Sound, BackfillProgress, CompleteUpTo, RowsOf
  <2> QED
    BY <1>1, <1>2, <1>3, <1>5, <2>1, BackfillGoesOnSound
<1> QED
  BY <1>4, <1>5 DEF Runners

(* The event write completes the range of the call.                        *)
LEMMA PersistEventsSound ==
    ASSUME TypeOK, Sound, NEW r \in Runners, PersistEvents(r)
    PROVE  Sound'
<1>1. /\ UNCHANGED <<log, watermark, base, holders, owner>>
      /\ events' = events \union RowsOf(Fetched(r))
      /\ job[r].pc = "events" /\ job' = [job EXCEPT ![r].pc = "project"]
  BY DEF PersistEvents, Goto
<1>2. /\ \A q \in Runners : q # r => job'[q] = job[q]
      /\ job'[r].pc = "project" /\ job'[r].from = job[r].from
      /\ job'[r].upto = job[r].upto /\ job'[r].top = job[r].top
  BY <1>1 DEF TypeOK, Jobs
<1>3. StoredAreReal'
  BY <1>1, StoreRowsReal
<1>4. Rows(log, (job[r].from + 1) .. job[r].upto) \subseteq events'
  BY <1>1, FetchedRows
<1>5. CASE r \in Workers
  <2>1. SyncProgress(r)'
    BY <1>1, <1>2, <1>4, <1>5 DEF Sound, SyncProgress, RowsOf, Rows
  <2> QED
    BY <1>1, <1>2, <1>3, <1>5, <2>1, SyncGoesOnSound
<1>6. CASE r = Cli
  <2>1. job[Cli].top <= job[Cli].upto /\ CompleteUpTo(job[Cli].from)
    BY <1>1, <1>6 DEF Sound, BackfillProgress
  <2>2. base \in Int /\ job[Cli].from \in Int /\ job[Cli].upto \in Int
    BY DEF TypeOK, Jobs, Runners, NoWatermark
  <2>3. Rows(log, (base + 1) .. job[Cli].upto) \subseteq events'
    BY <1>1, <1>4, <1>6, <2>1, <2>2, RowsJoin, CompleteIsRows
  <2>4. BackfillProgress'
    BY <1>1, <1>2, <1>6, <2>1, <2>3 DEF BackfillProgress, CompleteUpTo, RowsOf, Rows
  <2> QED
    BY <1>1, <1>2, <1>3, <1>6, <2>4, BackfillGoesOnSound
<1> QED
  BY <1>5, <1>6 DEF Runners

(* The projection ends; a backfill goes on to its next chunk or to the     *)
(* advance.                                                                *)
LEMMA FinishProjectionSound ==
    ASSUME TypeOK, Sound, NEW r \in Runners, FinishProjection(r)
    PROVE  Sound'
<1>1. /\ UNCHANGED <<log, events, watermark, base, holders, owner>>
      /\ job[r].pc = "project"
      /\ job' = [job EXCEPT ![r].pc = IF job[r].more THEN "fetch" ELSE "advance"]
  BY DEF FinishProjection, Goto
<1>2. /\ \A q \in Runners : q # r => job'[q] = job[q]
      /\ job'[r].pc \in {"fetch", "advance"} /\ job'[r].from = job[r].from
      /\ job'[r].upto = job[r].upto /\ job'[r].top = job[r].top
  BY <1>1 DEF TypeOK, Jobs
<1>3. StoredAreReal'
  BY <1>1, KeepStored DEF Sound
<1>4. CASE r \in Workers
  <2>1. SyncProgress(r)'
    BY <1>1, <1>2, <1>4 DEF Sound, SyncProgress, RowsOf
  <2> QED
    BY <1>1, <1>2, <1>3, <1>4, <2>1, SyncGoesOnSound
<1>5. CASE r = Cli
  <2>1. BackfillProgress'
    BY <1>1, <1>2, <1>5 DEF Sound, BackfillProgress, CompleteUpTo, RowsOf
  <2> QED
    BY <1>1, <1>2, <1>3, <1>5, <2>1, BackfillGoesOnSound
<1> QED
  BY <1>4, <1>5 DEF Runners

(* The two requests of a sync.                                             *)
LEMMA RequestSound ==
    ASSUME TypeOK, Sound, NEW w \in Workers, FetchDetails(w) \/ FetchSince(w)
    PROVE  Sound'
<1>w. w \in Runners /\ Len(log) \in Nat
  BY DEF Runners, TypeOK
<1>1. /\ UNCHANGED <<log, events, watermark, base, holders, owner>>
      /\ \A q \in Runners : q # w => job'[q] = job[q]
  BY DEF FetchDetails, FetchSince, TypeOK
<1>2. StoredAreReal'
  BY <1>1, KeepStored DEF Sound
<1>3. job[w].pc # "idle"
  BY DEF FetchDetails, FetchSince
<1>4. SyncProgress(w)'
  <2>1. CASE FetchDetails(w)
    <3>1. job'[w].pc = "initialise" /\ job[w].pc = "details"
      BY <1>w, <2>1 DEF FetchDetails, TypeOK, Jobs
    <3> QED
      BY <1>1, <3>1 DEF Sound, SyncProgress
  <2>2. CASE FetchSince(w)
    <3>1. /\ job'[w].pc = "raw" /\ job[w].pc = "fetch"
          /\ job'[w].from = job[w].from /\ job'[w].upto = Len(log)
      BY <1>w, <2>2 DEF FetchSince, TypeOK, Jobs
    <3>2. job[w].from <= Len(log)
      BY <1>w DEF TypeOK
    <3> QED
      BY <1>1, <3>1, <3>2 DEF Sound, SyncProgress
  <2> QED
    BY <2>1, <2>2
<1> QED
  BY <1>1, <1>2, <1>3, <1>4, SyncGoesOnSound

-----------------------------------------------------------------------------
(* The watermark moves                                                     *)

(* A call that ends: everybody else was idle, so nothing else is promised. *)
LEMMA LastCallEnds ==
    ASSUME TypeOK, Sound, NEW r \in Runners, job[r].pc # "idle", EndCall(r)
    PROVE  /\ Exclusive'
           /\ \A w \in Workers : SyncProgress(w)'
           /\ BackfillProgress'
<1>1. \A q \in Runners : job'[q] = IF q = r THEN Idle ELSE job[q]
  BY EndCallType
<1>2. \A q \in Runners : q # r => job[q].pc = "idle"
  BY FreeMeansIdle, WorkersType DEF Sound, Exclusive, Runners
<1>3. \A q \in Runners : job'[q].pc = "idle"
  BY <1>1, <1>2 DEF Idle
<1>4. Exclusive'
  BY EndCallExclusive DEF Sound
<1>5. \A w \in Workers : SyncProgress(w)'
  BY <1>3 DEF SyncProgress, Runners
<1>6. BackfillProgress'
  BY <1>3 DEF BackfillProgress, Runners
<1> QED
  BY <1>4, <1>5, <1>6

(* The first sync sets the watermark to the last transaction id, where     *)
(* base is.                                                                *)
LEMMA InitialiseSound ==
    ASSUME TypeOK, Sound, NEW w \in Workers, InitialiseWatermark(w)
    PROVE  /\ Sound'
           /\ watermark = NoWatermark /\ watermark' = base'
           /\ watermark' \in 0 .. Len(log)
<1>1. /\ UNCHANGED <<log, events>> /\ job[w].pc = "initialise" /\ EndCall(w)
      /\ watermark' = job[w].upto /\ w \in Runners
  BY DEF InitialiseWatermark, Runners
<1>2. watermark = NoWatermark
  BY <1>1 DEF Sound, SyncProgress
<1>3. base' = job[w].upto
  BY <1>2 DEF InitialiseWatermark
<1>4. job[w].upto \in 0 .. Len(log)
  BY <1>1 DEF TypeOK, Jobs
<1>5. Exclusive' /\ (\A v \in Workers : SyncProgress(v)') /\ BackfillProgress'
  BY <1>1, LastCallEnds
<1>6. BaseKnown' /\ StoredAreReal'
  BY <1>1, <1>3, <1>4, KeepStored DEF Sound, BaseKnown, NoWatermark
<1>7. WatermarkComplete'
  <2>1. Rows(log, (job[w].upto + 1) .. job[w].upto) \subseteq events
    BY <1>4, RowsOfNothing
  <2> QED
    BY <1>1, <1>3, <2>1 DEF WatermarkComplete, CompleteUpTo, RowsOf, Rows
<1> QED
  BY <1>1, <1>2, <1>3, <1>4, <1>5, <1>6, <1>7 DEF Sound

(* A sync joins its range to the one below its watermark, and advances.    *)
LEMMA AdvanceSyncSound ==
    ASSUME TypeOK, Sound, NEW w \in Workers, AdvanceSync(w)
    PROVE  /\ Sound'
           /\ watermark # NoWatermark /\ watermark <= watermark'
           /\ watermark' \in 0 .. Len(log)
           /\ Rows(log, (base + 1) .. watermark') \subseteq events
<1>1. /\ UNCHANGED <<log, events, base>> /\ job[w].pc = "advance" /\ EndCall(w)
      /\ watermark' = job[w].upto /\ w \in Runners
  BY DEF AdvanceSync, Runners
<1>2. /\ watermark # NoWatermark /\ job[w].from = watermark /\ job[w].from <= job[w].upto
      /\ RowsOf((watermark + 1) .. job[w].upto) \subseteq events
  BY <1>1 DEF Sound, SyncProgress
<1>3. job[w].upto \in 0 .. Len(log) /\ base \in Int /\ watermark \in Int
  BY <1>1 DEF TypeOK, Jobs, NoWatermark
<1>4. Rows(log, (base + 1) .. job[w].upto) \subseteq events
  <2>1. Rows(log, (base + 1) .. watermark) \subseteq events
    BY <1>2, CompleteIsRows DEF Sound, WatermarkComplete
  <2>2. Rows(log, (watermark + 1) .. job[w].upto) \subseteq events
    BY <1>2, RowsOfIsRows
  <2>3. base \in Int /\ watermark \in Int /\ job[w].upto \in Int
    BY <1>3
  <2> QED
    BY <2>1, <2>2, <2>3, RowsJoin
<1>5. Exclusive' /\ (\A v \in Workers : SyncProgress(v)') /\ BackfillProgress'
  BY <1>1, LastCallEnds
<1>6. BaseKnown' /\ StoredAreReal'
  BY <1>1, <1>2, KeepStored DEF Sound, BaseKnown
<1>7. WatermarkComplete'
  BY <1>1, <1>4 DEF WatermarkComplete, CompleteUpTo, RowsOf, Rows
<1> QED
  BY <1>1, <1>2, <1>3, <1>4, <1>5, <1>6, <1>7 DEF Sound

(* A backfill advances the watermark only over what it stored since base.  *)
LEMMA AdvanceBackfillSound ==
    ASSUME Serialised, TypeOK, Sound, AdvanceBackfill
    PROVE  /\ Sound'
           /\ base # NoWatermark
           /\ watermark' # watermark =>
                 /\ watermark <= watermark' /\ watermark' \in 0 .. Len(log)
                 /\ Rows(log, (base + 1) .. watermark') \subseteq events
<1>1. /\ UNCHANGED <<log, events, base>> /\ job[Cli].pc = "advance" /\ EndCall(Cli)
      /\ watermark' = watermark \/ (watermark' = job[Cli].top /\ job[Cli].top > watermark)
      /\ Cli \in Runners
  BY DEF AdvanceBackfill, ReadWatermark, Serialised, Runners
<1>2. job[Cli].top <= job[Cli].upto /\ CompleteUpTo(job[Cli].upto) /\ base # NoWatermark
  BY <1>1 DEF Sound, BackfillProgress, BaseKnown
<1>3. /\ job[Cli].top \in 0 .. Len(log) /\ job[Cli].upto \in Nat
      /\ base \in Int /\ watermark \in Int
  BY <1>1 DEF TypeOK, Jobs, NoWatermark
<1>4. Rows(log, (base + 1) .. job[Cli].top) \subseteq events
  <2>1. (base + 1) .. job[Cli].top \subseteq (base + 1) .. job[Cli].upto
    BY <1>2, <1>3
  <2>2. Rows(log, (base + 1) .. job[Cli].upto) \subseteq events
    BY <1>2, CompleteIsRows
  <2> QED
    BY <2>1, <2>2 DEF Rows
<1>5. Exclusive' /\ (\A v \in Workers : SyncProgress(v)') /\ BackfillProgress'
  BY <1>1, LastCallEnds
<1>6. BaseKnown' /\ StoredAreReal'
  BY <1>1, <1>2, KeepStored DEF Sound, BaseKnown
<1>7. WatermarkComplete'
  BY <1>1, <1>4 DEF Sound, WatermarkComplete, CompleteUpTo, RowsOf, Rows
<1> QED
  BY <1>1, <1>2, <1>3, <1>4, <1>5, <1>6, <1>7 DEF Sound

-----------------------------------------------------------------------------
(* The backfill's window and chunks                                        *)

(* A backfill starts at or below the watermark, or fixes base in an empty  *)
(* store.                                                                  *)
LEMMA BeginBackfillSound ==
    ASSUME Serialised, TypeOK, Sound, NEW first \in 1 .. MaxLog, NEW last \in 1 .. MaxLog,
           BeginBackfill(first, last)
    PROVE  /\ Sound'
           /\ base' # base => watermark = NoWatermark /\ base' \in 0 .. Len(log)
<1>w. Workers \subseteq Runners /\ Cli \in Runners /\ Cli \notin Workers
  BY WorkersType DEF Runners
<1>0. first \in Nat /\ first \in 1 .. Len(log)
  BY BoundsType DEF BeginBackfill
<1>1. /\ UNCHANGED <<log, events, watermark, holders>>
      /\ owner = "none" /\ owner' = "cli"
      /\ watermark = NoWatermark \/ first <= watermark + 1
      /\ base' = IF watermark = NoWatermark THEN first - 1 ELSE base
  BY DEF BeginBackfill, Serialised
<1>2. /\ \A q \in Runners : q # Cli => job'[q] = job[q]
      /\ job'[Cli] = [Idle EXCEPT !.pc = "fetch", !.upto = first - 1, !.last = last]
  BY <1>w DEF BeginBackfill, TypeOK
<1>3. \A q \in Runners : job[q].pc = "idle"
  BY <1>1, FreeMeansIdle DEF Sound
<1>4. job'[Cli].pc = "fetch" /\ job'[Cli].upto = first - 1 /\ job'[Cli].top = 0
  BY <1>2 DEF Idle
<1>5. Exclusive'
  BY <1>w, <1>1, <1>2, <1>3, <1>4 DEF Exclusive
<1>6. \A w \in Workers : SyncProgress(w)'
  BY <1>w, <1>1, <1>2, KeepSync DEF Sound
<1>7. first - 1 # NoWatermark /\ first - 1 \in 0 .. Len(log)
  BY <1>0 DEF NoWatermark
<1>8. BaseKnown' /\ StoredAreReal' /\ WatermarkComplete'
  BY <1>1, <1>7, KeepStored, KeepWatermark DEF Sound, BaseKnown, WatermarkComplete
<1>9. Rows(log, (base' + 1) .. (first - 1)) \subseteq events
  <2>1. CASE watermark = NoWatermark
    BY <1>0, <1>1, <2>1, RowsOfNothing
  <2>2. CASE watermark # NoWatermark
    <3>1. base \in Int /\ watermark \in Int
      BY DEF TypeOK, NoWatermark
    <3>2. (base + 1) .. (first - 1) \subseteq (base + 1) .. watermark
      BY <1>0, <1>1, <2>2, <3>1
    <3>3. Rows(log, (base + 1) .. watermark) \subseteq events
      BY <2>2, CompleteIsRows DEF Sound, WatermarkComplete
    <3>4. Rows(log, (base + 1) .. (first - 1)) \subseteq events
      BY <3>2, <3>3 DEF Rows
    <3> QED
      BY <1>1, <2>2, <3>4
  <2> QED
    BY <2>1, <2>2
<1>10. BackfillProgress'
  BY <1>0, <1>1, <1>4, <1>9 DEF BackfillProgress, CompleteUpTo, RowsOf, Rows
<1> QED
  BY <1>1, <1>5, <1>6, <1>7, <1>8, <1>10 DEF Sound

(* The next chunk begins where the last one ended.                         *)
LEMMA FetchChunkSound ==
    ASSUME TypeOK, Sound, NEW end \in 0 .. MaxLog, FetchChunk(end)
    PROVE  Sound'
<1>w. Workers \subseteq Runners /\ Cli \in Runners /\ Cli \notin Workers
  BY WorkersType DEF Runners
<1>1. /\ UNCHANGED <<log, events, watermark, base, holders, owner>>
      /\ job[Cli].pc = "fetch" /\ end \in (job[Cli].upto + 1) .. Len(log)
  BY DEF FetchChunk
<1>2. PICK m \in Matching(job[Cli].upto, end) \union {job[Cli].top} :
         job' = [job EXCEPT ![Cli] =
                   [job[Cli] EXCEPT !.pc = "raw", !.from = job[Cli].upto, !.upto = end, !.top = m,
                                    !.more = end < job[Cli].last /\ end < Len(log)]]
  BY DEF FetchChunk
<1>3. job[Cli] \in Jobs /\ job[Cli].upto \in Nat /\ job[Cli].top \in Nat
  BY <1>w DEF TypeOK, Jobs
<1>4. /\ \A q \in Runners : q # Cli => job'[q] = job[q]
      /\ job'[Cli].pc = "raw" /\ job'[Cli].from = job[Cli].upto
      /\ job'[Cli].upto = end /\ job'[Cli].top = m
  BY <1>w, <1>2, <1>3 DEF TypeOK, Jobs
<1>5. job[Cli].top <= job[Cli].upto /\ CompleteUpTo(job[Cli].upto)
  BY <1>1 DEF Sound, BackfillProgress
<1>6. m <= end /\ job[Cli].upto <= end
  <2>1. \A i \in Matching(job[Cli].upto, end) : i <= end
    BY <1>1, <1>3 DEF Matching
  <2> QED
    BY <1>1, <1>2, <1>3, <1>5, <2>1
<1>7. BackfillProgress'
  BY <1>1, <1>4, <1>5, <1>6 DEF BackfillProgress, CompleteUpTo, RowsOf
<1>8. StoredAreReal'
  BY <1>1, KeepStored DEF Sound
<1> QED
  BY <1>1, <1>4, <1>7, <1>8, BackfillGoesOnSound

(* A failed call keeps what it has written; its range is asked for again.  *)
LEMMA FailSound ==
    ASSUME TypeOK, Sound, NEW r \in Runners, Fail(r)
    PROVE  /\ Sound'
           /\ events \subseteq events' /\ events' \subseteq RowsOf(1 .. Len(log))
<1>1. /\ UNCHANGED <<log, watermark, base>> /\ EndCall(r) /\ job[r].pc # "idle"
  BY DEF Fail
<1>2. events \subseteq events' /\ events' \subseteq events \union RowsOf(Fetched(r))
  BY RowsBeforeIsPart DEF Fail
<1>3. StoredAreReal'
  BY <1>1, <1>2, StoreRowsReal
<1>4. Exclusive'
  BY <1>1, EndCallExclusive DEF Sound
<1>5. \A q \in Runners : job'[q] = job[q] \/ job'[q] = Idle
  BY <1>1, EndCallType
<1>6. events' \subseteq RowsOf(1 .. Len(log))
  BY <1>1, <1>3 DEF StoredAreReal, RowsOf
<1> QED
  BY <1>1, <1>2, <1>3, <1>4, <1>5, <1>6, KeepSound

(* Opening, closing and crashing change locks and jobs only.               *)
LEMMA ProcessSound ==
    ASSUME TypeOK, Sound, OpenServer \/ CloseServer \/ Crash
    PROVE  Sound'
<1>1. UNCHANGED <<log, events, watermark, base>>
  BY DEF OpenServer, CloseServer, Crash
<1>2. \A q \in Runners : job'[q] = job[q] \/ job'[q] = Idle
  BY DEF OpenServer, CloseServer, Crash
<1>3. \A q \in Runners : job'[q].pc = "idle"
  BY FreeMeansIdle DEF Sound, OpenServer, CloseServer, Crash, BusyRunners, Idle
<1>4. Exclusive'
  BY <1>3 DEF Exclusive, Runners
<1>5. StoredAreReal'
  BY <1>1, KeepStored DEF Sound
<1> QED
  BY <1>1, <1>2, <1>4, <1>5, KeepSound

-----------------------------------------------------------------------------
(* The invariant and the watermark                                         *)

(* Every step keeps the inductive invariant; one step per action.          *)
LEMMA SoundInductive ==
    ASSUME Serialised
    PROVE  TypeOK /\ Sound /\ [Next]_vars => Sound'
<1> SUFFICES ASSUME TypeOK, Sound, [Next]_vars
             PROVE  Sound'
  OBVIOUS
<1>1. CASE UNCHANGED vars
  <2>1. UNCHANGED <<log, raw, events, watermark, base, job, holders, owner>>
    BY <1>1 DEF vars
  <2> QED
    BY <2>1, KeepSound, KeepStored DEF Sound, Exclusive
<1>2. CASE Next
  BY <1>2, CommitSound, ProcessSound, BeginSyncSound, RequestSound, InitialiseSound, PersistRawSound,
     PersistEventsSound, FinishProjectionSound, AdvanceSyncSound, BeginBackfillSound, FetchChunkSound,
     AdvanceBackfillSound, FailSound
  DEF Next, SyncStep, BackfillStep, Runners
<1> QED
  BY <1>1, <1>2

(* The inductive invariant holds in every reachable state.                 *)
LEMMA SoundAlways ==
    ASSUME Serialised
    PROVE  Spec => []Sound
<1>1. Init => Sound
  BY DEF Init, Sound, Exclusive, BaseKnown, StoredAreReal, WatermarkComplete, SyncProgress,
         BackfillProgress, Idle, Runners
<1>2. TypeOK /\ Sound /\ [Next]_vars => Sound'
  BY SoundInductive
<1> QED
  BY <1>1, <1>2, TypeCorrect, PTL DEF Spec

(* The watermark never passes a transaction whose rows are missing.        *)
THEOREM WatermarkIsComplete ==
    ASSUME Serialised
    PROVE  Spec => []WatermarkComplete
<1>1. Sound => WatermarkComplete
  BY DEF Sound
<1> QED
  BY <1>1, SoundAlways, PTL

(* What each step does to the tables, as a step of the mirror.             *)
LEMMA MirrorStep ==
    ASSUME Serialised, TypeOK, TypeOK', Sound, [Next]_vars
    PROVE  [Mirror!Next]_<<log, events, watermark, base>>
<1> DEFINE mirrored == <<log, events, watermark, base>>
<1>1. ASSUME NEW tx \in Transactions, BrokerCommit(tx)
      PROVE  [Mirror!Next]_mirrored
  BY <1>1 DEF BrokerCommit, Mirror!Next, Mirror!Commit
<1>2. CASE OpenServer \/ CloseServer \/ Crash
  BY <1>2 DEF OpenServer, CloseServer, Crash
<1>3. ASSUME NEW w \in Workers, BeginSync(w) \/ FetchDetails(w) \/ FetchSince(w)
      PROVE  [Mirror!Next]_mirrored
  BY <1>3 DEF BeginSync, FetchDetails, FetchSince
<1>4. ASSUME NEW w \in Workers, InitialiseWatermark(w)
      PROVE  [Mirror!Next]_mirrored
  <2>1. /\ UNCHANGED <<log, events>> /\ watermark = -1
        /\ watermark' = base' /\ watermark' \in 0 .. Len(log)
    BY <1>4, InitialiseSound DEF InitialiseWatermark, NoWatermark
  <2>2. Rows(log, (base' + 1) .. watermark') \subseteq events
    BY <2>1, RowsOfNothing
  <2>3. watermark <= watermark' /\ base' \in 0 .. Len(log)
    BY <2>1 DEF TypeOK
  <2>4. Mirror!Advance
    BY <2>1, <2>2, <2>3 DEF Mirror!Advance, Mirror!RowsOf, Rows
  <2> QED
    BY <2>4 DEF Mirror!Next
<1>5. ASSUME NEW w \in Workers, AdvanceSync(w)
      PROVE  [Mirror!Next]_mirrored
  <2>1. /\ UNCHANGED <<log, events, base>> /\ watermark # -1 /\ watermark <= watermark'
        /\ watermark' \in 0 .. Len(log) /\ Rows(log, (base + 1) .. watermark') \subseteq events
    BY <1>5, AdvanceSyncSound DEF AdvanceSync, NoWatermark
  <2>2. Mirror!Advance
    BY <2>1 DEF Mirror!Advance, Mirror!RowsOf, Rows
  <2> QED
    BY <2>2 DEF Mirror!Next
<1>6. CASE AdvanceBackfill
  <2>1. CASE watermark' = watermark
    BY <1>6, <2>1 DEF AdvanceBackfill
  <2>2. CASE watermark' # watermark
    <3>1. /\ UNCHANGED <<log, events, base>> /\ base \in 0 .. Len(log)
          /\ watermark <= watermark' /\ watermark' \in 0 .. Len(log)
          /\ Rows(log, (base + 1) .. watermark') \subseteq events
      BY <1>6, <2>2, AdvanceBackfillSound DEF AdvanceBackfill, TypeOK
    <3>2. Mirror!Advance
      BY <3>1 DEF Mirror!Advance, Mirror!RowsOf, Rows
    <3> QED
      BY <3>2 DEF Mirror!Next
  <2> QED
    BY <2>1, <2>2
<1>7. ASSUME NEW r \in Runners, PersistRaw(r) \/ FinishProjection(r)
      PROVE  [Mirror!Next]_mirrored
  BY <1>7 DEF PersistRaw, FinishProjection
<1>8. ASSUME NEW r \in Runners, PersistEvents(r)
      PROVE  [Mirror!Next]_mirrored
  <2>1. events' \subseteq RowsOf(1 .. Len(log)) /\ events \subseteq events'
    BY <1>8, FetchedRows DEF PersistEvents, Sound, StoredAreReal
  <2>2. Mirror!Store
    BY <1>8, <2>1 DEF PersistEvents, Mirror!Store, Mirror!RowsOf, RowsOf
  <2> QED
    BY <2>2 DEF Mirror!Next
<1>9. ASSUME NEW r \in Runners, Fail(r)
      PROVE  [Mirror!Next]_mirrored
  <2>1. events' \subseteq RowsOf(1 .. Len(log)) /\ events \subseteq events'
    BY <1>9, FailSound
  <2>2. Mirror!Store
    BY <1>9, <2>1 DEF Fail, Mirror!Store, Mirror!RowsOf, RowsOf
  <2> QED
    BY <2>2 DEF Mirror!Next
<1>10. ASSUME NEW first \in 1 .. MaxLog, NEW last \in 1 .. MaxLog, BeginBackfill(first, last)
       PROVE  [Mirror!Next]_mirrored
  <2>1. UNCHANGED <<log, events, watermark>>
    BY <1>10 DEF BeginBackfill
  <2>2. base' = base \/ (watermark = -1 /\ base' \in 0 .. Len(log))
    BY <1>10, BeginBackfillSound DEF NoWatermark
  <2> QED
    BY <2>1, <2>2 DEF Mirror!Next, Mirror!ChooseBase
<1>11. ASSUME NEW end \in 0 .. MaxLog, FetchChunk(end)
       PROVE  [Mirror!Next]_mirrored
  BY <1>11 DEF FetchChunk
<1>12. CASE UNCHANGED vars
  BY <1>12 DEF vars
<1> QED
  BY <1>1, <1>2, <1>3, <1>4, <1>5, <1>6, <1>7, <1>8, <1>9, <1>10, <1>11, <1>12
  DEF Next, SyncStep, BackfillStep, Runners

(* The pipeline implements LedgerMirror: its durable tables only ever take *)
(* the steps of a growing local copy with a mark.                          *)
THEOREM ImplementsMirror ==
    ASSUME Serialised
    PROVE  Spec => MirrorsLedger
<1>1. Init => Mirror!Init
  BY DEF Init, Mirror!Init, NoWatermark
<1>2. TypeOK /\ TypeOK' /\ Sound /\ [Next]_vars => [Mirror!Next]_<<log, events, watermark, base>>
  BY MirrorStep
<1> QED
  BY <1>1, <1>2, TypeCorrect, SoundAlways, PTL DEF Spec, MirrorsLedger, Mirror!Spec

(* Hence the watermark never moves back there: the mirror's mark does not. *)
COROLLARY MarkNeverMovesBack ==
    ASSUME Serialised
    PROVE  Spec => WatermarkMonotone
<1>1. TypeOK /\ [Mirror!Next]_<<log, events, watermark, base>> => [watermark' >= watermark]_watermark
  BY DEF Mirror!Next, Mirror!Commit, Mirror!Store, Mirror!ChooseBase, Mirror!Advance, TypeOK, NoWatermark
<1> QED
  BY <1>1, TypeCorrect, ImplementsMirror, PTL DEF MirrorsLedger, Mirror!Spec, WatermarkMonotone

=============================================================================
