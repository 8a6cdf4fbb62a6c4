------------------------- MODULE TradeJournalProofs -------------------------
(***************************************************************************)
(* Theorems about TradeJournal, for any trades, levels, fills, workers,    *)
(* failures, crashes, backfills and reads that fail.  Calls that overlap   *)
(* are threads of the server, one of them a read that syncs without the    *)
(* runtime lock.  As long as every sync takes that lock, a trade is        *)
(* journaled as closed only when the broker has closed it, a poll leaves   *)
(* the journal equal to the answer it started from, and a sync leaves no   *)
(* close reason its stored events contradict.  Two more theorems need      *)
(* reads that answer: the synced journal agrees with the stored events,    *)
(* and, without backfills, a closed trade stays closed.                    *)
(***************************************************************************)
EXTENDS TradeJournal, FiniteSetTheorems, TLAPS

(* What most of the theorems assume: no sync runs outside the lock.        *)
Serialised == UnlockedReaders = {}

-----------------------------------------------------------------------------
(* Types.                                                                  *)

Rows == [state : {"ABSENT", "OPEN", "CLOSED"}, level : Levels,
         reason : {"NONE", "MANUAL", "MIT"}, pnl : SUBSET Int]

Writes == [trade : Trades, closing : BOOLEAN, rec : Rows]

Works == [pc : {"idle", "fetch", "list", "diff"}, current : SUBSET (Trades \X Levels),
          opens : SUBSET Trades, moves : SUBSET Trades, gone : SUBSET Trades, deferred : BOOLEAN,
          phase : {"none", "project", "repair"}, project : SUBSET Trades, repair : SUBSET Trades,
          write : SUBSET Writes]

(* The pipeline: a call works on ids of the log, and every stored row is a *)
(* leg of it.                                                              *)
PipelineTyped ==
    /\ log \in Seq(Transactions)
    /\ watermark \in Int /\ watermark >= -1
    /\ job \in [Runners -> History!Jobs]
    /\ \A r \in Runners : job[r].pc \in {"raw", "events"} => job[r].upto <= Len(log)
    /\ \A row \in events : row[1] \in 1 .. Len(log) /\ row[2] \in DOMAIN log[row[1]]

JournalTyped ==
    /\ level \in [Trades -> Levels]
    /\ journal \in [Trades -> Rows]
    /\ work \in [Runners -> Works]
    /\ \A r \in Runners : work[r].pc = "diff" =>
          \A t \in work[r].opens \union work[r].moves : \E c \in work[r].current : c[1] = t

-----------------------------------------------------------------------------
(* The locks: an unlocked reader is at work beside one call that holds the *)
(* runtime lock, the backfill beside nobody, and a poll is not part of a   *)
(* sync.                                                                   *)

Active(r) == work[r].pc # "idle" \/ job[r].pc # "idle"

Exclusive ==
    /\ \A w \in Workers :
          Active(w) => owner = "server" /\ (w \notin UnlockedReaders => holders = {w})
    /\ Active(Cli) => owner = "cli"
    /\ work[Cli].pc = "idle"

InPhase(x, pc) ==
    /\ x.pc # "idle" => pc = "idle"
    /\ x.phase # "none" => pc = "project"
    /\ x.write # {} => x.pc = "diff" \/ x.phase # "none"

Phases == \A r \in Runners : InPhase(work[r], job[r].pc)

Locking == Exclusive /\ Phases

-----------------------------------------------------------------------------
(* The evidence for what is journaled.                                     *)

HasLeg(lg, type, t) ==
    \E i \in 1 .. Len(lg) : \E k \in DOMAIN lg[i] : lg[i][k].type = type /\ lg[i][k].trade = t

Opened(lg, t) == HasLeg(lg, "OPEN", t)
Closed(lg, t) == HasLeg(lg, "CLOSE", t)

(* A record of t in this state is backed by the broker's log.              *)
Backed(lg, t, state) == (state # "ABSENT" => Opened(lg, t)) /\ (state = "CLOSED" => Closed(lg, t))

JournalBacked == \A t \in Trades : Backed(log, t, journal[t].state)

(* So is what a call is about to write; and a poll has seen every trade it *)
(* was shown opened, and every trade it misses closed.                     *)
CallBacked(lg, x, open) ==
    /\ \A y \in x.write : Backed(lg, y.trade, y.rec.state)
    /\ \A c \in x.current : Opened(lg, c[1])
    /\ \A t \in x.gone : Opened(lg, t) /\ Closed(lg, t)
    /\ x.pc = "list" => \A t \in open : Closed(lg, t) \/ \E c \in x.current : c[1] = t

Evidence == JournalBacked /\ \A r \in Runners : CallBacked(log, work[r], OpenInJournal)

Typed == PipelineTyped /\ JournalTyped

-----------------------------------------------------------------------------
(* The pipeline keeps its types.                                           *)

(* A payload's rows are its legs.                                          *)
LEMMA RowsAreLegs ==
  ASSUME PipelineTyped, NEW r \in Runners, job[r].pc \in {"raw", "events"}
  PROVE  \A row \in History!RowsOf(History!Fetched(r)) :
            /\ row[1] \in 1 .. Len(log) /\ row[2] \in DOMAIN log[row[1]]
            /\ log[row[1]][row[2]].trade \in Trades
<1>1. job[r].upto <= Len(log) /\ job[r].from \in Nat /\ job[r].upto \in Nat
  BY DEF PipelineTyped, History!Jobs
<1>2. History!Fetched(r) \subseteq 1 .. Len(log)
  BY <1>1 DEF History!Fetched, History!Matching, PipelineTyped
<1>3. \A i \in 1 .. Len(log) : log[i] \in Transactions /\ log[i] \in Seq(Legs)
  BY FillsType DEF PipelineTyped
<1>4. ASSUME NEW row \in History!RowsOf(History!Fetched(r))
      PROVE  /\ row[1] \in 1 .. Len(log) /\ row[2] \in DOMAIN log[row[1]]
             /\ log[row[1]][row[2]].trade \in Trades
  <2>1. PICK i \in History!Fetched(r) :
           row \in {i} \X (1 .. [tx \in Transactions |-> Len(tx)][log[i]])
    BY DEF History!RowsOf
  <2>2. row[1] = i /\ row[2] \in 1 .. Len(log[i])
    BY <2>1, <1>2, <1>3
  <2>3. log[i] \in Seq(Legs)
    BY <1>2, <1>3
  <2>4. log[i][row[2]] \in Legs
    BY <2>2, <2>3
  <2>5. QED
    BY <2>2, <2>3, <2>4, <1>2 DEF Legs
<1>5. QED
  BY <1>4

LEMMA LogGrows ==
  ASSUME PipelineTyped, NEW tx \in Transactions, History!BrokerCommit(tx)
  PROVE  /\ log' \in Seq(Transactions) /\ Len(log') = Len(log) + 1
         /\ \A i \in 1 .. Len(log) : log'[i] = log[i]
BY DEF PipelineTyped, History!BrokerCommit

LEMMA InitTyped == ASSUME LevelsType PROVE Init => Typed
BY DEF LevelsType, Init, History!Init, History!Idle, History!Jobs, History!PCs, History!NoWatermark,
       History!Runners, Runners, Rest, NoTrade, Typed, PipelineTyped, JournalTyped, Rows, Works

(* What a step does to the pipeline when it is not a step of the broker.   *)
SameLog == log' = log

LEMMA JobStaysTyped ==
  ASSUME PipelineTyped, SameLog, NEW r \in Runners, NEW j \in History!Jobs,
         job' = [job EXCEPT ![r] = j], j.pc \in {"raw", "events"} => j.upto <= Len(log),
         watermark' \in Int, watermark' >= -1,
         \A row \in events' : row[1] \in 1 .. Len(log) /\ row[2] \in DOMAIN log[row[1]]
  PROVE  PipelineTyped'
BY DEF PipelineTyped, SameLog

LEMMA GotoTyped ==
  ASSUME PipelineTyped, NEW r \in Runners, NEW pc \in History!PCs, History!Goto(r, pc)
  PROVE  /\ [job[r] EXCEPT !.pc = pc] \in History!Jobs
         /\ job' = [job EXCEPT ![r] = [job[r] EXCEPT !.pc = pc]]
BY DEF PipelineTyped, History!Jobs, History!Goto

LEMMA IdleTyped == History!Idle \in History!Jobs /\ History!Idle.pc = "idle"
BY DEF History!Idle, History!Jobs, History!PCs

LEMMA SameEvents ==
  ASSUME PipelineTyped, events' = events
  PROVE  \A row \in events' : row[1] \in 1 .. Len(log) /\ row[2] \in DOMAIN log[row[1]]
BY DEF PipelineTyped

LEMMA MoreEvents ==
  ASSUME PipelineTyped, NEW r \in Runners, job[r].pc = "events",
         events' \subseteq events \union History!RowsOf(History!Fetched(r))
  PROVE  \A row \in events' : row[1] \in 1 .. Len(log) /\ row[2] \in DOMAIN log[row[1]]
BY RowsAreLegs DEF PipelineTyped

(* Every step of the pipeline keeps its types.                             *)
LEMMA PipelineInductive ==
  ASSUME PipelineTyped, [Next]_vars
  PROVE  PipelineTyped'
<1>1. ASSUME NEW tx \in Transactions, BrokerFill(tx) PROVE PipelineTyped'
  <2>1. log' \in Seq(Transactions) /\ Len(log') = Len(log) + 1
        /\ \A i \in 1 .. Len(log) : log'[i] = log[i]
    BY <1>1, LogGrows DEF BrokerFill
  <2>2. Len(log) \in Nat /\ UNCHANGED <<events, watermark, job>>
    BY <1>1 DEF BrokerFill, History!BrokerCommit, PipelineTyped
  <2>3. \A r \in Runners : job[r] \in History!Jobs
    BY DEF PipelineTyped
  <2>4. \A r \in Runners : job'[r].pc \in {"raw", "events"} => job'[r].upto <= Len(log')
    BY <2>1, <2>2, <2>3 DEF PipelineTyped, History!Jobs
  <2>5. \A row \in events' : row[1] \in 1 .. Len(log') /\ row[2] \in DOMAIN log'[row[1]]
    <3>1. \A row \in events : row[1] \in 1 .. Len(log) /\ row[2] \in DOMAIN log[row[1]]
      BY DEF PipelineTyped
    <3>2. 1 .. Len(log) \subseteq 1 .. Len(log')
      BY <2>1, <2>2
    <3>3. QED
      BY <2>1, <2>2, <3>1, <3>2
  <2>6. QED
    BY <2>1, <2>2, <2>4, <2>5 DEF PipelineTyped
<1>2. ASSUME UNCHANGED pipelineVars PROVE PipelineTyped'
  BY <1>2 DEF pipelineVars, PipelineTyped
<1>3. ASSUME UNCHANGED <<log, events, watermark, job>> PROVE PipelineTyped'
  BY <1>3 DEF PipelineTyped
<1>4. CASE Crash
  <2>1. job' = [r \in Runners |-> History!Idle] /\ UNCHANGED <<log, events, watermark>>
    BY <1>4 DEF Crash, History!Crash, History!Runners, Runners
  <2>2. \A r \in Runners : job'[r] = History!Idle
    BY <2>1
  <2> HIDE DEF History!Idle
  <2>3. QED
    BY <2>1, <2>2, IdleTyped DEF PipelineTyped
<1>5. ASSUME NEW w \in Workers, BeginSync(w) PROVE PipelineTyped'
  <2> w \in Runners
    BY DEF Runners
  <2>1. PICK j \in History!Jobs : job' = [job EXCEPT ![w] = j] /\ j.pc \in {"details", "fetch"}
    <3>1. PICK seen \in History!ReadWatermark :
             job' = [job EXCEPT ![w] = IF seen = History!NoWatermark
                                         THEN [History!Idle EXCEPT !.pc = "details"]
                                         ELSE [History!Idle EXCEPT !.pc = "fetch", !.from = seen]]
      BY <1>5 DEF BeginSync, History!BeginSync
    <3>2. seen = History!NoWatermark \/ seen \in Nat
      BY DEF PipelineTyped, History!ReadWatermark, History!NoWatermark
    <3>3. [History!Idle EXCEPT !.pc = "details"] \in History!Jobs
          /\ (seen \in Nat => [History!Idle EXCEPT !.pc = "fetch", !.from = seen] \in History!Jobs)
      BY DEF History!Idle, History!Jobs, History!PCs
    <3>4. [History!Idle EXCEPT !.pc = "details"].pc = "details"
          /\ [History!Idle EXCEPT !.pc = "fetch", !.from = seen].pc = "fetch"
      BY DEF History!Idle
    <3>5. QED
      BY <3>1, <3>2, <3>3, <3>4
  <2>2. UNCHANGED <<log, events, watermark>>
    BY <1>5 DEF BeginSync, History!BeginSync
  <2>3. QED
    BY <2>1, <2>2, SameEvents, JobStaysTyped DEF SameLog, PipelineTyped
<1>6. ASSUME NEW w \in Workers, PipelineStep(w) PROVE PipelineTyped'
  <2> w \in Runners /\ job[w] \in History!Jobs
    BY DEF Runners, PipelineTyped
  <2> Len(log) \in Nat
    BY DEF PipelineTyped
  <2>1. CASE History!FetchDetails(w)
    <3>1. [job[w] EXCEPT !.pc = "initialise", !.upto = Len(log)] \in History!Jobs
      BY DEF History!Jobs, History!PCs
    <3>2. job' = [job EXCEPT ![w] = [job[w] EXCEPT !.pc = "initialise", !.upto = Len(log)]]
          /\ UNCHANGED <<log, events, watermark>>
      BY <2>1 DEF History!FetchDetails, PipelineTyped
    <3>3. QED
      BY <3>1, <3>2, SameEvents, JobStaysTyped DEF SameLog, PipelineTyped, History!Jobs
  <2>2. CASE History!InitialiseWatermark(w) \/ History!AdvanceSync(w)
    <3>1. job' = [job EXCEPT ![w] = History!Idle] /\ watermark' = job[w].upto
          /\ UNCHANGED <<log, events>>
      BY <2>2 DEF History!InitialiseWatermark, History!AdvanceSync, History!EndCall
    <3>2. watermark' \in Int /\ watermark' >= -1
      BY <3>1 DEF History!Jobs
    <3>3. QED
      BY <3>1, <3>2, IdleTyped, SameEvents, JobStaysTyped DEF SameLog
  <2>3. CASE History!FetchSince(w)
    <3>1. [job[w] EXCEPT !.pc = "raw", !.upto = Len(log)] \in History!Jobs
      BY DEF History!Jobs, History!PCs
    <3>2. job' = [job EXCEPT ![w] = [job[w] EXCEPT !.pc = "raw", !.upto = Len(log)]]
          /\ UNCHANGED <<log, events, watermark>>
      BY <2>3 DEF History!FetchSince, PipelineTyped
    <3>3. [job[w] EXCEPT !.pc = "raw", !.upto = Len(log)].upto = Len(log)
      BY DEF History!Jobs
    <3>4. QED
      BY <3>1, <3>2, <3>3, SameEvents, JobStaysTyped DEF SameLog, PipelineTyped
  <2>4. CASE History!PersistRaw(w)
    <3>1. History!Goto(w, "events") /\ "events" \in History!PCs /\ job[w].pc = "raw"
          /\ UNCHANGED <<log, events, watermark>>
      BY <2>4 DEF History!PersistRaw, History!PCs
    <3>2. [job[w] EXCEPT !.pc = "events"].upto <= Len(log)
      BY <3>1 DEF PipelineTyped, History!Jobs
    <3>3. QED
      BY <3>1, <3>2, GotoTyped, SameEvents, JobStaysTyped DEF SameLog, PipelineTyped
  <2>5. QED
    BY <1>6, <2>1, <2>2, <2>3, <2>4 DEF PipelineStep
<1>7. CASE BackfillPipelineStep
  <2> Cli \in Runners /\ job[Cli] \in History!Jobs /\ log \in Seq(Transactions)
    BY DEF Runners, PipelineTyped
  <2>1. ASSUME NEW end \in 0 .. MaxLog, History!FetchChunk(end) PROVE PipelineTyped'
    <3>1. PICK m \in History!Matching(job[Cli].upto, end) \union {job[Cli].top} :
             job' = [job EXCEPT ![Cli] =
                        [job[Cli] EXCEPT !.pc = "raw", !.from = job[Cli].upto, !.upto = end, !.top = m,
                                         !.more = end < job[Cli].last /\ end < Len(log)]]
      BY <2>1 DEF History!FetchChunk
    <3>2. end \in Nat /\ end <= Len(log) /\ m \in Nat /\ UNCHANGED <<log, events, watermark>>
      BY <2>1 DEF History!FetchChunk, History!Matching, History!Jobs
    <3> DEFINE j == [job[Cli] EXCEPT !.pc = "raw", !.from = job[Cli].upto, !.upto = end, !.top = m,
                                     !.more = end < job[Cli].last /\ end < Len(log)]
    <3>3. j \in History!Jobs /\ j.upto = end
      BY <3>2 DEF History!Jobs, History!PCs
    <3>4. job' = [job EXCEPT ![Cli] = j]
      BY <3>1
    <3> HIDE DEF j
    <3>5. QED
      BY <3>2, <3>3, <3>4, SameEvents, JobStaysTyped DEF SameLog, PipelineTyped
  <2>2. CASE History!PersistRaw(Cli)
    <3>1. History!Goto(Cli, "events") /\ "events" \in History!PCs /\ job[Cli].pc = "raw"
          /\ UNCHANGED <<log, events, watermark>>
      BY <2>2 DEF History!PersistRaw, History!PCs
    <3>2. [job[Cli] EXCEPT !.pc = "events"].upto <= Len(log)
      BY <3>1 DEF PipelineTyped, History!Jobs
    <3>3. QED
      BY <3>1, <3>2, GotoTyped, SameEvents, JobStaysTyped DEF SameLog, PipelineTyped
  <2>3. CASE History!AdvanceBackfill
    <3>1. job' = [job EXCEPT ![Cli] = History!Idle] /\ UNCHANGED <<log, events>>
          /\ watermark' \in {watermark, job[Cli].top}
      BY <2>3 DEF History!AdvanceBackfill, History!EndCall
    <3>2. watermark' \in Int /\ watermark' >= -1
      BY <3>1 DEF History!Jobs, PipelineTyped
    <3>3. QED
      BY <3>1, <3>2, IdleTyped, SameEvents, JobStaysTyped DEF SameLog
  <2>4. QED
    BY <1>7, <2>1, <2>2, <2>3 DEF BackfillPipelineStep
<1>8. ASSUME NEW r \in Runners, PersistEvents(r) PROVE PipelineTyped'
  <2>1. History!Goto(r, "project") /\ "project" \in History!PCs /\ job[r].pc = "events"
        /\ UNCHANGED <<log, watermark>>
        /\ events' = events \union History!RowsOf(History!Fetched(r))
    BY <1>8 DEF PersistEvents, History!PersistEvents, History!PCs
  <2>2. [job[r] EXCEPT !.pc = "project"].pc = "project"
    BY DEF PipelineTyped, History!Jobs
  <2>3. QED
    BY <2>1, <2>2, GotoTyped, MoreEvents, JobStaysTyped DEF SameLog, PipelineTyped
<1>9. ASSUME NEW r \in Runners, FinishProjection(r) PROVE PipelineTyped'
  <2>1. PICK pc \in {"fetch", "advance"} : History!Goto(r, pc)
    BY <1>9 DEF FinishProjection, History!FinishProjection
  <2>2. pc \in History!PCs /\ UNCHANGED <<log, events, watermark>>
    BY <1>9 DEF FinishProjection, History!FinishProjection, History!PCs
  <2>3. [job[r] EXCEPT !.pc = pc].pc = pc
    BY DEF PipelineTyped, History!Jobs
  <2>4. [job[r] EXCEPT !.pc = pc] \in History!Jobs
        /\ job' = [job EXCEPT ![r] = [job[r] EXCEPT !.pc = pc]]
    BY <2>1, <2>2, GotoTyped
  <2>5. watermark' \in Int /\ watermark' >= -1
    BY <2>2 DEF PipelineTyped
  <2>6. QED
    BY <2>2, <2>3, <2>4, <2>5, SameEvents, JobStaysTyped DEF SameLog
<1>10. ASSUME NEW r \in Runners, FailHistory(r) PROVE PipelineTyped'
  <2>0. watermark \in Int /\ watermark >= -1
    BY DEF PipelineTyped
  <2>1. job' = [job EXCEPT ![r] = History!Idle] /\ UNCHANGED <<log, watermark>>
    BY <1>10 DEF FailHistory, History!Fail, History!EndCall
  <2>2. CASE job[r].pc = "events"
    <3>1. PICK cut \in History!RowsOf(History!Fetched(r)) :
             events' = events \union History!RowsBefore(History!Fetched(r), cut)
      BY <1>10, <2>2 DEF FailHistory, History!Fail
    <3>2. events' \subseteq events \union History!RowsOf(History!Fetched(r))
      BY <3>1 DEF History!RowsBefore
    <3>3. QED
      BY <2>1, <2>2, <3>2, IdleTyped, MoreEvents, JobStaysTyped DEF SameLog, PipelineTyped
  <2>3. CASE job[r].pc # "events"
    <3>1. events' = events
      BY <1>10, <2>3 DEF FailHistory, History!Fail
    <3>2. QED
      BY <2>1, <3>1, IdleTyped, SameEvents, JobStaysTyped DEF SameLog, PipelineTyped
  <2>4. QED
    BY <2>2, <2>3
<1>11. ASSUME NEW first \in 1 .. MaxLog, NEW last \in 1 .. MaxLog, BeginBackfill(first, last)
       PROVE PipelineTyped'
  <2> DEFINE j == [History!Idle EXCEPT !.pc = "fetch", !.upto = first - 1, !.last = last]
  <2>0. first - 1 \in Nat /\ last \in Nat
    BY LogBound
  <2>1. j \in History!Jobs /\ j.pc = "fetch"
    BY <2>0 DEF History!Idle, History!Jobs, History!PCs
  <2>2. job' = [job EXCEPT ![Cli] = j] /\ UNCHANGED <<log, events, watermark>>
    BY <1>11 DEF BeginBackfill, History!BeginBackfill
  <2> HIDE DEF j
  <2>3. QED
    BY <2>1, <2>2, SameEvents, JobStaysTyped DEF SameLog, PipelineTyped, Runners
<1>12. CASE OpenServer \/ CloseServer
  BY <1>12, <1>3 DEF OpenServer, CloseServer, History!OpenServer, History!CloseServer
<1>13. ASSUME NEW w \in Workers, BeginPoll(w) \/ EndPoll(w) \/ FailPoll(w) PROVE PipelineTyped'
  BY <1>13, <1>3 DEF BeginPoll, EndPoll, FailPoll
<1>14. ASSUME NEW w \in Workers, NEW t \in Trades,
              DeferClose(w, t) \/ LookUpClosed(w, t, FALSE) \/ LookUpClosed(w, t, TRUE)
       PROVE PipelineTyped'
  BY <1>14, <1>3 DEF DeferClose, LookUpClosed
<1>15. ASSUME NEW t \in Trades, NEW l \in Levels, BrokerMovesLevel(t, l) PROVE PipelineTyped'
  BY <1>15, <1>2 DEF BrokerMovesLevel
<1>16. ASSUME NEW w \in Workers, PollStep(w) PROVE PipelineTyped'
  BY <1>16, <1>2, <1>13, <1>14
     DEF PollStep, FetchOpenTrades, ListOpenTrades, RecordOpened, ReadModified
<1>17. ASSUME NEW r \in Runners, ProjectionStep(r) PROVE PipelineTyped'
  BY <1>17, <1>2, <1>8, <1>9 DEF ProjectionStep, ListRepairs, WriteTrade, ReadProjection, ReadRepair
<1>18. CASE UNCHANGED vars
  BY <1>18, <1>3 DEF vars
<1>19. QED
  BY <1>1, <1>4, <1>5, <1>6, <1>7, <1>10, <1>11, <1>12, <1>13, <1>14, <1>15, <1>16, <1>17, <1>18
     DEF Next, Step, Faulty

-----------------------------------------------------------------------------
(* The journal and the work on it keep their types.                        *)

(* One call's work changes, by the assignments of its step.                *)
LEMMA WorkStaysTyped ==
  ASSUME JournalTyped, level' = level, journal' \in [Trades -> Rows],
         NEW r \in Runners, NEW x \in Works, work' = [work EXCEPT ![r] = x],
         x.pc = "diff" => \A t \in x.opens \union x.moves : \E c \in x.current : c[1] = t
  PROVE  JournalTyped'
BY DEF JournalTyped

LEMMA WorkShrinks ==
  ASSUME JournalTyped, level' = level, journal' \in [Trades -> Rows],
         NEW r \in Runners, NEW x \in Works, work' = [work EXCEPT ![r] = x],
         x.pc = work[r].pc, x.current = work[r].current,
         x.opens \subseteq work[r].opens, x.moves \subseteq work[r].moves
  PROVE  JournalTyped'
<1>1. work[r].pc = "diff" =>
         \A t \in work[r].opens \union work[r].moves : \E c \in work[r].current : c[1] = t
  BY DEF JournalTyped
<1>2. x.opens \union x.moves \subseteq work[r].opens \union work[r].moves
  OBVIOUS
<1>3. x.pc = "diff" => \A t \in x.opens \union x.moves : \E c \in x.current : c[1] = t
  BY <1>1, <1>2
<1>4. QED
  BY <1>3, WorkStaysTyped

LEMMA RestTyped == Rest \in Works /\ Rest.pc = "idle"
BY DEF Rest, Works

LEMMA ShownIsLevel ==
  ASSUME JournalTyped, NEW w \in Workers, work[w].pc = "diff",
         NEW t \in work[w].opens \union work[w].moves
  PROVE  Shown(w, t) \in Levels
<1>1. w \in Runners
  BY DEF Runners
<1>2. \E c \in work[w].current : c[1] = t
  BY <1>1 DEF JournalTyped
<1>3. work[w].current \subseteq Trades \X Levels
  BY <1>1 DEF JournalTyped, Works
<1>4. (CHOOSE c \in work[w].current : c[1] = t) \in work[w].current
  BY <1>2
<1>5. QED
  BY <1>3, <1>4 DEF Shown

LEMMA ProjectionIsWrite ==
  ASSUME LevelsType, Typed, NEW t \in Trades
  PROVE  Projection(t) \in SUBSET Writes
<1>1. journal[t].level \in Levels
  BY DEF Typed, JournalTyped, Rows
<1>2. {row[1] : row \in StoredClosing(t)} \in SUBSET Int
  BY DEF Typed, PipelineTyped, StoredClosing, RowsFor
<1>3. FinalReason(t) \in {"MIT", "MANUAL"}
  BY DEF FinalReason
<1> HIDE DEF StoredClosing, FinalReason, LegOf, RowsFor
<1>4. [state |-> "CLOSED", level |-> journal[t].level, reason |-> FinalReason(t),
       pnl |-> {row[1] : row \in StoredClosing(t)}] \in Rows
  BY <1>1, <1>2, <1>3 DEF Rows
<1>5. [NoTrade EXCEPT !.state = "OPEN", !.level = journal[t].level] \in Rows
  BY <1>1 DEF Rows, NoTrade
<1>6. QED
  BY <1>4, <1>5 DEF Projection, Writes

(* Every step keeps the types of the journal and of the work on it.        *)
LEMMA JournalInductive ==
  ASSUME LevelsType, Typed, [Next]_vars
  PROVE  JournalTyped'
<1> JournalTyped /\ PipelineTyped
  BY DEF Typed
<1> Cli \in Runners /\ Workers \subseteq Runners
  BY DEF Runners
<1> journal \in [Trades -> Rows] /\ \A r \in Runners : work[r] \in Works
  BY DEF JournalTyped
<1>1. ASSUME UNCHANGED <<level, journal, work>> PROVE JournalTyped'
  BY <1>1 DEF JournalTyped
<1>2. ASSUME NEW r \in Runners, work' = [work EXCEPT ![r] = Rest], UNCHANGED <<level, journal>>
      PROVE  JournalTyped'
  BY <1>2, RestTyped, WorkStaysTyped
<1>3. ASSUME NEW t \in Trades, NEW l \in Levels, BrokerMovesLevel(t, l) PROVE JournalTyped'
  BY <1>3 DEF BrokerMovesLevel, JournalTyped
<1>4. CASE Crash
  <2>1. work' = [r \in Runners |-> Rest] /\ UNCHANGED <<level, journal>>
    BY <1>4 DEF Crash
  <2>2. \A r \in Runners : work'[r] = Rest
    BY <2>1
  <2> HIDE DEF Rest
  <2>3. QED
    BY <2>1, <2>2, RestTyped DEF JournalTyped
<1>5. ASSUME NEW w \in Workers, BeginPoll(w) PROVE JournalTyped'
  <2>1. [work[w] EXCEPT !.pc = "fetch"] \in Works /\ [work[w] EXCEPT !.pc = "fetch"].pc = "fetch"
    BY DEF Works
  <2>2. work' = [work EXCEPT ![w] = [work[w] EXCEPT !.pc = "fetch"]] /\ UNCHANGED <<level, journal>>
    BY <1>5 DEF BeginPoll, JournalTyped
  <2>3. QED
    BY <2>1, <2>2, WorkStaysTyped
<1>6. ASSUME NEW w \in Workers, FetchOpenTrades(w) PROVE JournalTyped'
  <2> DEFINE shown == {<<t, level[t]>> : t \in BrokerOpen}
             x     == [work[w] EXCEPT !.pc = "list", !.current = shown]
  <2>1. shown \in SUBSET (Trades \X Levels)
    BY DEF JournalTyped, BrokerOpen
  <2>2. x \in Works /\ x.pc = "list"
    BY <2>1 DEF Works
  <2>3. work' = [work EXCEPT ![w] = x] /\ UNCHANGED <<level, journal>>
    BY <1>6 DEF FetchOpenTrades, JournalTyped
  <2> HIDE DEF x
  <2>4. QED
    BY <2>2, <2>3, WorkStaysTyped
<1>7. ASSUME NEW w \in Workers, ListOpenTrades(w) PROVE JournalTyped'
  <2> DEFINE shown == {c[1] : c \in work[w].current}
             moved == {c[1] : c \in {d \in work[w].current :
                                         d[1] \in OpenInJournal /\ journal[d[1]].level # d[2]}}
             x     == [work[w] EXCEPT !.pc = "diff", !.opens = shown \ OpenInJournal,
                                      !.moves = moved, !.gone = OpenInJournal \ shown]
  <2>1. work[w].current \in SUBSET (Trades \X Levels)
    BY DEF Works
  <2>2. shown \in SUBSET Trades /\ moved \in SUBSET Trades /\ OpenInJournal \in SUBSET Trades
    BY <2>1 DEF OpenInJournal
  <2>3. \A t \in shown \union moved : \E c \in work[w].current : c[1] = t
    OBVIOUS
  <2> HIDE DEF shown, moved
  <2>4. x \in Works /\ x.opens = shown \ OpenInJournal /\ x.moves = moved
        /\ x.current = work[w].current
    BY <2>2 DEF Works
  <2>5. work' = [work EXCEPT ![w] = x] /\ UNCHANGED <<level, journal>>
    BY <1>7 DEF ListOpenTrades, JournalTyped, shown, moved
  <2> HIDE DEF x
  <2>6. QED
    BY <2>3, <2>4, <2>5, WorkStaysTyped
<1>8. ASSUME NEW w \in Workers, NEW t \in Trades, RecordOpened(w, t) PROVE JournalTyped'
  <2> DEFINE x == [work[w] EXCEPT !.opens = @ \ {t}]
  <2>1. Shown(w, t) \in Levels
    BY <1>8, ShownIsLevel DEF RecordOpened
  <2>2. journal' \in [Trades -> Rows]
    BY <1>8, <2>1 DEF RecordOpened, NoTrade, Rows
  <2>3. x \in Works /\ x.opens \subseteq work[w].opens /\ x.moves = work[w].moves
        /\ x.current = work[w].current /\ x.pc = work[w].pc
    BY DEF Works
  <2>4. work' = [work EXCEPT ![w] = x] /\ level' = level
    BY <1>8 DEF RecordOpened, JournalTyped
  <2> HIDE DEF x
  <2>5. QED
    BY <2>2, <2>3, <2>4, WorkShrinks
<1>9. ASSUME NEW w \in Workers, NEW t \in Trades, ReadModified(w, t) PROVE JournalTyped'
  <2> DEFINE rec == [journal[t] EXCEPT !.level = Shown(w, t)]
             ws  == {[trade |-> t, closing |-> FALSE, rec |-> rec]}
             x   == [work[w] EXCEPT !.moves = @ \ {t}, !.write = ws]
  <2>1. Shown(w, t) \in Levels
    BY <1>9, ShownIsLevel DEF ReadModified
  <2>2. rec \in Rows
    BY <2>1 DEF Rows
  <2> HIDE DEF rec
  <2>3. ws \in SUBSET Writes
    BY <2>2 DEF Writes
  <2> HIDE DEF ws
  <2>4. x \in Works /\ x.opens = work[w].opens /\ x.moves \subseteq work[w].moves
        /\ x.current = work[w].current /\ x.pc = work[w].pc
    BY <2>3 DEF Works
  <2>5. work' = [work EXCEPT ![w] = x] /\ UNCHANGED <<level, journal>>
    BY <1>9 DEF ReadModified, JournalTyped, ws, rec
  <2> HIDE DEF x
  <2>6. QED
    BY <2>4, <2>5, WorkShrinks
<1>10. ASSUME NEW w \in Workers, NEW t \in Trades, NEW evidence \in BOOLEAN,
              LookUpClosed(w, t, evidence)
       PROVE  JournalTyped'
  <2> DEFINE mit == \E i \in WithLeg(Closing, t) : \E k \in DOMAIN log[i] :
                       log[i][k].trade = t /\ log[i][k].type \in Closing /\ log[i][k].cause = "MIT"
             rec == [state |-> "CLOSED", level |-> "none", pnl |-> WithLeg(Closing, t),
                     reason |-> IF evidence /\ mit THEN "MIT" ELSE "MANUAL"]
             ws  == {[trade |-> t, closing |-> TRUE, rec |-> rec]}
             x   == [work[w] EXCEPT !.gone = @ \ {t}, !.write = ws]
  <2>1. WithLeg(Closing, t) \in SUBSET Int
    BY DEF WithLeg, PipelineTyped
  <2>2. rec \in Rows
    BY <2>1 DEF Rows, LevelsType
  <2> HIDE DEF rec
  <2>3. ws \in SUBSET Writes
    BY <2>2 DEF Writes
  <2> HIDE DEF ws
  <2>4. x \in Works /\ x.opens = work[w].opens /\ x.moves = work[w].moves
        /\ x.current = work[w].current /\ x.pc = work[w].pc
    BY <2>3 DEF Works
  <2>5. work' = [work EXCEPT ![w] = x] /\ UNCHANGED <<level, journal>>
    BY <1>10 DEF LookUpClosed, JournalTyped, ws, rec
  <2> HIDE DEF x
  <2>6. QED
    BY <2>4, <2>5, WorkShrinks
<1>11. ASSUME NEW w \in Workers, NEW t \in Trades, DeferClose(w, t) PROVE JournalTyped'
  <2> DEFINE x == [work[w] EXCEPT !.gone = @ \ {t}, !.deferred = TRUE]
  <2>1. x \in Works /\ x.opens = work[w].opens /\ x.moves = work[w].moves
        /\ x.current = work[w].current /\ x.pc = work[w].pc
    BY DEF Works
  <2>2. work' = [work EXCEPT ![w] = x] /\ UNCHANGED <<level, journal>>
    BY <1>11 DEF DeferClose, JournalTyped
  <2> HIDE DEF x
  <2>3. QED
    BY <2>1, <2>2, WorkShrinks
<1>12. ASSUME NEW r \in Runners, NEW phase \in {"none", "project", "repair"},
              NEW project \in SUBSET Trades, NEW repair \in SUBSET Trades,
              NEW write \in SUBSET Writes, journal' \in [Trades -> Rows], level' = level,
              work' = [work EXCEPT ![r] = [work[r] EXCEPT !.phase = phase, !.project = project,
                                                          !.repair = repair, !.write = write]]
       PROVE  JournalTyped'
  <2> DEFINE x == [work[r] EXCEPT !.phase = phase, !.project = project,
                                  !.repair = repair, !.write = write]
  <2>1. x \in Works /\ x.opens = work[r].opens /\ x.moves = work[r].moves
        /\ x.current = work[r].current /\ x.pc = work[r].pc
    BY DEF Works
  <2>2. work' = [work EXCEPT ![r] = x]
    BY <1>12
  <2> HIDE DEF x
  <2>3. QED
    BY <1>12, <2>1, <2>2, WorkShrinks
<1>13. ASSUME NEW r \in Runners, ProjectionStep(r) PROVE JournalTyped'
  <2> work \in [Runners -> Works] /\ work[r] \in Works
    BY DEF JournalTyped
  <2>0. /\ work[r].phase \in {"none", "project", "repair"}
        /\ work[r].project \in SUBSET Trades /\ work[r].repair \in SUBSET Trades
        /\ work[r].write \in SUBSET Writes
    BY DEF Works
  <2> DEFINE W(phase, project, repair, write) ==
               [work[r] EXCEPT !.phase = phase, !.project = project,
                               !.repair = repair, !.write = write]
  <2>1. CASE PersistEvents(r)
    <3> DEFINE named == {log[row[1]][row[2]].trade : row \in History!RowsOf(History!Fetched(r))}
    <3>1. named \in SUBSET Trades
      BY <2>1, RowsAreLegs DEF PersistEvents, History!PersistEvents
    <3> HIDE DEF named
    <3>2. work' = [work EXCEPT ![r] = W("project", named, work[r].repair, work[r].write)]
          /\ UNCHANGED <<level, journal>>
      BY <2>1 DEF PersistEvents, named, Works
    <3>3. QED
      BY <3>1, <3>2, <2>0, <1>12
  <2>2. CASE ListRepairs(r)
    <3> DEFINE closed == {t \in Trades : journal[t].state = "CLOSED" /\ journal[t].reason = "MANUAL"}
    <3>1. work' = [work EXCEPT ![r] = W("repair", work[r].project, closed, work[r].write)]
          /\ UNCHANGED <<level, journal>>
      BY <2>2 DEF ListRepairs, Works
    <3>2. closed \in SUBSET Trades
      OBVIOUS
    <3> HIDE DEF closed
    <3>3. QED
      BY <3>1, <3>2, <2>0, <1>12
  <2>3. CASE FinishProjection(r)
    BY <2>3, <1>2 DEF FinishProjection
  <2>4. CASE WriteTrade(r)
    <3>1. PICK y \in work[r].write :
             /\ journal' = [journal EXCEPT ![y.trade] =
                              IF y.closing THEN [y.rec EXCEPT !.level = journal[y.trade].level]
                                           ELSE y.rec]
             /\ work' = [work EXCEPT ![r].write = {}]
             /\ UNCHANGED <<pipelineVars, level>>
      BY <2>4 DEF WriteTrade
    <3>2. y.trade \in Trades /\ y.rec \in Rows
      BY DEF Works, Writes
    <3>3. [y.rec EXCEPT !.level = journal[y.trade].level] \in Rows
      BY <3>2 DEF Rows
    <3>4. journal' \in [Trades -> Rows]
      BY <3>1, <3>2, <3>3
    <3>5. work' = [work EXCEPT ![r] = W(work[r].phase, work[r].project, work[r].repair, {})]
      BY <3>1 DEF Works
    <3>6. level' = level /\ {} \in SUBSET Writes
      BY <3>1
    <3>7. QED
      BY <3>4, <3>5, <3>6, <2>0, <1>12
  <2>5. ASSUME NEW t \in Trades, ReadProjection(r, t) PROVE JournalTyped'
    <3>1. Projection(t) \in SUBSET Writes
      BY ProjectionIsWrite
    <3>2. work' = [work EXCEPT ![r] = W(work[r].phase, work[r].project \ {t}, work[r].repair,
                                        Projection(t))]
          /\ UNCHANGED <<level, journal>>
      BY ZenonT(30), <2>5 DEF ReadProjection, Works
    <3>3. QED
      BY <3>1, <3>2, <2>0, <1>12
  <2>6. ASSUME NEW t \in Trades, ReadRepair(r, t) PROVE JournalTyped'
    <3> DEFINE ws == IF StoredClosing(t) # {} /\ FinalReason(t) = "MIT" THEN Projection(t) ELSE {}
    <3>1. ws \in SUBSET Writes
      BY ProjectionIsWrite
    <3> HIDE DEF ws
    <3>2. work' = [work EXCEPT ![r] = W(work[r].phase, work[r].project, work[r].repair \ {t}, ws)]
          /\ UNCHANGED <<level, journal>>
      BY ZenonT(30), <2>6 DEF ReadRepair, Works, ws
    <3>3. QED
      BY <3>1, <3>2, <2>0, <1>12
  <2>7. QED
    BY <1>13, <2>1, <2>2, <2>3, <2>4, <2>5, <2>6 DEF ProjectionStep
<1>14. ASSUME NEW w \in Workers, PollStep(w) PROVE JournalTyped'
  BY <1>14, <1>2, <1>6, <1>7, <1>8, <1>9, <1>10 DEF PollStep, EndPoll
<1>15. ASSUME NEW tx \in Transactions, BrokerFill(tx) PROVE JournalTyped'
  BY <1>15, <1>1 DEF BrokerFill
<1>16. CASE OpenServer \/ CloseServer
  BY <1>16, <1>1 DEF OpenServer, CloseServer, Aside
<1>17. ASSUME NEW w \in Workers, BeginSync(w) \/ PipelineStep(w) PROVE JournalTyped'
  BY <1>17, <1>1 DEF BeginSync, PipelineStep, Aside
<1>18. ASSUME NEW first \in 1 .. MaxLog, NEW last \in 1 .. MaxLog, BeginBackfill(first, last)
       PROVE  JournalTyped'
  BY <1>18, <1>1 DEF BeginBackfill, Aside
<1>19. CASE BackfillPipelineStep
  BY <1>19, <1>1 DEF BackfillPipelineStep, Aside
<1>20. ASSUME NEW r \in Runners, FailHistory(r) PROVE JournalTyped'
  BY <1>20, <1>2 DEF FailHistory
<1>21. ASSUME NEW w \in Workers, FailPoll(w) PROVE JournalTyped'
  BY <1>21, <1>2 DEF FailPoll
<1>22. CASE UNCHANGED vars
  BY <1>22, <1>1 DEF vars
<1>23. QED
  BY <1>3, <1>4, <1>5, <1>10, <1>11, <1>13, <1>14, <1>15, <1>16, <1>17, <1>18, <1>19, <1>20, <1>21, <1>22
     DEF Next, Step, Faulty

-----------------------------------------------------------------------------
(* The lock.                                                               *)

(* What the other runners are doing is what they were doing.               *)
OthersIdleBy(r) ==
    \A v \in Runners \ {r} : work'[v] = work[v] /\ job'[v] = job[v]

LEMMA InitLocking == Init => Locking
BY DEF Init, History!Init, History!Idle, History!Runners, Runners, Rest, Locking, Exclusive, Phases,
       InPhase, Active

LEMMA OthersWait ==
  ASSUME Serialised, Locking, NEW r \in Runners, Active(r), NEW v \in Runners, Active(v)
  PROVE  v = r
BY DEF Serialised, Locking, Exclusive, Runners

LEMMA BusyPhases ==
  ASSUME Locking, NEW r \in Runners
  PROVE  /\ job[r].pc \notin {"idle", "project"} =>
               work[r].pc = "idle" /\ work[r].phase = "none" /\ work[r].write = {}
         /\ work[r].pc # "idle" => job[r].pc = "idle" /\ work[r].phase = "none"
         /\ job[r].pc # "idle" => work[r].pc = "idle"
         /\ (job[r].pc = "idle" /\ work[r].pc = "idle") => work[r].phase = "none" /\ work[r].write = {}
         /\ work[r].phase # "none" \/ work[r].write # {} => Active(r)
BY DEF Locking, Phases, InPhase, Active

(* A step of a runner that is at work.                                     *)
LEMMA OwnStep ==
  ASSUME Locking, NEW r \in Runners, Active(r), OthersIdleBy(r),
         UNCHANGED <<holders, owner>>, InPhase(work'[r], job'[r].pc), r = Cli => work'[r].pc = "idle"
  PROVE  Locking'
<1>1. \A v \in Runners : Active(v)' => Active(v)
  BY DEF OthersIdleBy, Active
<1>2. Phases'
  BY DEF Locking, Phases, OthersIdleBy
<1>3. work'[Cli].pc = "idle"
  BY DEF Locking, Exclusive, OthersIdleBy, Runners
<1>4. Exclusive'
  BY <1>1, <1>3 DEF Locking, Exclusive, Runners
<1>5. QED
  BY <1>2, <1>4 DEF Locking

(* Its last step, which releases what it holds.                            *)
LEMMA OwnEnd ==
  ASSUME Locking, NEW r \in Runners, Active(r), OthersIdleBy(r),
         work'[r].pc = "idle", work'[r].phase = "none", work'[r].write = {}, job'[r].pc = "idle",
         holders' = holders \ {r}, owner' = IF r = Cli THEN "none" ELSE owner
  PROVE  Locking'
<1>1. \A v \in Runners : Active(v)' => v # r /\ Active(v)
  BY DEF OthersIdleBy, Active
<1>2. Phases'
  BY DEF Locking, Phases, OthersIdleBy, InPhase
<1>3. work'[Cli].pc = "idle"
  BY DEF Locking, Exclusive, OthersIdleBy, Runners
<1>4. r = Cli => \A w \in Workers : ~Active(w)
  BY DEF Locking, Exclusive
<1>5. ASSUME NEW w \in Workers, Active(w)'
      PROVE  owner' = "server" /\ (w \notin UnlockedReaders => holders' = {w})
  <2>1. Active(w) /\ w # r /\ r # Cli
    BY <1>1, <1>4, <1>5 DEF Runners
  <2>2. owner = "server" /\ (w \notin UnlockedReaders => holders = {w})
    BY <2>1 DEF Locking, Exclusive
  <2>3. QED
    BY <2>1, <2>2
<1>6. Active(Cli)' => owner' = "cli"
  BY <1>1 DEF Locking, Exclusive, Runners
<1>7. Exclusive'
  BY <1>3, <1>5, <1>6 DEF Exclusive
<1>8. QED
  BY <1>2, <1>7 DEF Locking

(* Its first step: nobody holds the lock, if it takes it.                  *)
LEMMA OwnBegin ==
  ASSUME Locking, NEW w \in Workers, owner = "server", owner' = "server",
         w \notin UnlockedReaders => holders = {} /\ holders' = {w},
         w \in UnlockedReaders => holders' = holders,
         OthersIdleBy(w), InPhase(work'[w], job'[w].pc)
  PROVE  Locking'
<1>1. ~Active(Cli) /\ work[Cli].pc = "idle" /\ Cli # w
  BY RunnersType DEF Locking, Exclusive
<1>2. Phases'
  BY DEF Locking, Phases, OthersIdleBy
<1>3. ~Active(Cli)' /\ work'[Cli].pc = "idle"
  BY <1>1 DEF OthersIdleBy, Active, Runners
<1>4. ASSUME NEW v \in Workers, Active(v)', v \notin UnlockedReaders
      PROVE  holders' = {v}
  <2>1. CASE v = w
    BY <1>4, <2>1
  <2>2. CASE v # w
    <3>1. Active(v)
      BY <1>4, <2>2 DEF OthersIdleBy, Active, Runners
    <3>2. holders = {v}
      BY <1>4, <3>1 DEF Locking, Exclusive
    <3>3. QED
      BY <3>2
  <2>3. QED
    BY <2>1, <2>2
<1>5. Exclusive'
  BY <1>3, <1>4 DEF Exclusive
<1>6. QED
  BY <1>2, <1>5 DEF Locking

LEMMA NobodyWorks ==
  ASSUME Locking, owner = "none"
  PROVE  \A v \in Runners : ~Active(v)
BY DEF Locking, Exclusive, Runners

LEMMA LockInductive ==
  ASSUME Typed, Locking, [Next]_vars
  PROVE  Locking'
<1> work \in [Runners -> Works] /\ job \in [Runners -> History!Jobs]
  BY DEF Typed, PipelineTyped, JournalTyped
<1> Cli \in Runners /\ Cli \notin Workers /\ Workers \subseteq Runners
  BY RunnersType DEF Runners
<1> \A r \in Runners : InPhase(work[r], job[r].pc)
  BY DEF Locking, Phases
<1>1. ASSUME UNCHANGED <<job, holders, owner, work>> PROVE Locking'
  BY <1>1 DEF Locking, Exclusive, Phases, Active
<1>2. CASE Crash
  <2>1. \A r \in Runners : work'[r] = Rest /\ job'[r] = History!Idle
    BY <1>2 DEF Crash, History!Crash, History!Runners, Runners
  <2>2. \A r \in Runners : ~Active(r)' /\ InPhase(work'[r], job'[r].pc) /\ work'[r].pc = "idle"
    BY <2>1 DEF Rest, History!Idle, Active, InPhase
  <2>3. QED
    BY <2>2 DEF Locking, Exclusive, Phases, Runners
<1>3. CASE OpenServer \/ CloseServer
  <2>1. \A r \in Runners : ~Active(r)
    <3>1. CASE OpenServer
      BY <3>1, NobodyWorks DEF OpenServer, History!OpenServer
    <3>2. CASE CloseServer
      <4>1. \A w \in Workers : work[w].pc = "idle"
        BY <3>2 DEF CloseServer, Rest
      <4>2. owner = "server" /\ \A w \in Workers : job[w].pc = "idle"
        BY <3>2 DEF CloseServer, History!CloseServer, History!BusyRunners, History!Runners, Runners
      <4>3. ~Active(Cli)
        BY <4>2 DEF Locking, Exclusive
      <4>4. QED
        BY <4>1, <4>2, <4>3 DEF Active, Runners
    <3>3. QED
      BY <1>3, <3>1, <3>2
  <2>2. UNCHANGED <<job, work>>
    BY <1>3 DEF OpenServer, CloseServer, History!OpenServer, History!CloseServer, Aside
  <2>3. QED
    BY <2>1, <2>2 DEF Locking, Exclusive, Phases, Active, Runners
<1>4. ASSUME NEW w \in Workers, BeginPoll(w) PROVE Locking'
  <2>1. /\ work'[w] = [work[w] EXCEPT !.pc = "fetch"] /\ OthersIdleBy(w) /\ job'[w].pc = "idle"
        /\ work[w].phase = "none" /\ work[w].write = {}
    BY <1>4, BusyPhases DEF BeginPoll, OthersIdleBy
  <2>2. InPhase(work'[w], job'[w].pc)
    BY <2>1 DEF InPhase, Works
  <2>3. QED
    BY <1>4, <2>1, <2>2, OwnBegin DEF BeginPoll
<1>5. ASSUME NEW w \in Workers, BeginSync(w) PROVE Locking'
  <2>1. /\ OthersIdleBy(w) /\ work'[w] = work[w] /\ work[w].pc = "idle"
        /\ work[w].phase = "none" /\ work[w].write = {}
    <3>1. \E j : job' = [job EXCEPT ![w] = j]
      BY <1>5 DEF BeginSync, History!BeginSync
    <3>2. work' = work /\ work[w].pc = "idle" /\ job[w].pc = "idle"
      BY <1>5 DEF BeginSync, History!BeginSync, Aside
    <3>3. QED
      BY <3>1, <3>2, BusyPhases DEF OthersIdleBy
  <2>2. InPhase(work'[w], job'[w].pc)
    BY <2>1 DEF InPhase
  <2>3. /\ owner = "server" /\ owner' = owner
        /\ w \in UnlockedReaders => holders' = holders
        /\ w \notin UnlockedReaders => holders = {} /\ holders' = {w}
    BY <1>5 DEF BeginSync, History!BeginSync
  <2>4. QED
    BY <2>1, <2>2, <2>3, OwnBegin
<1>6. ASSUME NEW first \in 1 .. MaxLog, NEW last \in 1 .. MaxLog, BeginBackfill(first, last)
      PROVE  Locking'
  <2>1. owner = "none" /\ owner' = "cli" /\ work' = work /\ UNCHANGED holders
        /\ \E j : job' = [job EXCEPT ![Cli] = j]
    BY <1>6 DEF BeginBackfill, History!BeginBackfill, Aside
  <2>2. \A v \in Runners : ~Active(v)
    BY <2>1, NobodyWorks
  <2>3. OthersIdleBy(Cli)
    BY <2>1 DEF OthersIdleBy
  <2>4. /\ work[Cli].pc = "idle" /\ work[Cli].phase = "none" /\ work[Cli].write = {}
    BY <2>2, BusyPhases DEF Active
  <2>5. Phases'
    BY <2>1, <2>3, <2>4 DEF Phases, OthersIdleBy, InPhase
  <2>6. Exclusive'
    BY <2>1, <2>2, <2>3, <2>4 DEF Exclusive, OthersIdleBy, Active
  <2>7. QED
    BY <2>5, <2>6 DEF Locking
<1>7. ASSUME NEW r \in Runners, Active(r), work'[r] = work[r], OthersIdleBy(r),
             UNCHANGED <<holders, owner>>, job[r].pc # "idle", job[r].pc # "project"
      PROVE  Locking'
  <2>1. InPhase(work'[r], job'[r].pc) /\ work'[r].pc = "idle"
    BY <1>7, BusyPhases DEF InPhase
  <2>2. QED
    BY <1>7, <2>1, OwnStep
<1>8. ASSUME NEW r \in Runners, job[r].pc # "idle", job[r].pc # "project", work' = work,
             \E j : job' = [job EXCEPT ![r] = j], UNCHANGED <<holders, owner>>
      PROVE  Locking'
  BY <1>7, <1>8 DEF Active, OthersIdleBy
<1>9. ASSUME NEW r \in Runners, job[r].pc # "idle", job[r].pc # "project", work' = work,
             History!EndCall(r)
      PROVE  Locking'
  <2>1. OthersIdleBy(r) /\ work'[r] = work[r] /\ job'[r].pc = "idle" /\ Active(r)
    BY <1>9 DEF OthersIdleBy, History!EndCall, History!Idle, Active
  <2>2. holders' = holders \ {r} /\ owner' = IF r = Cli THEN "none" ELSE owner
    BY <1>9 DEF History!EndCall
  <2>3. QED
    BY <1>9, <2>1, <2>2, BusyPhases, OwnEnd
<1>10. ASSUME NEW w \in Workers, PipelineStep(w) PROVE Locking'
  <2> work' = work
    BY <1>10 DEF PipelineStep, Aside
  <2>1. CASE History!FetchDetails(w)
    <3>1. job[w].pc = "details" /\ UNCHANGED <<holders, owner>>
          /\ \E j : job' = [job EXCEPT ![w] = j]
      BY <2>1 DEF History!FetchDetails
    <3>2. QED
      BY <3>1, <1>8
  <2>2. CASE History!InitialiseWatermark(w)
    <3>1. job[w].pc = "initialise" /\ History!EndCall(w)
      BY <2>2 DEF History!InitialiseWatermark
    <3>2. QED
      BY <3>1, <1>9
  <2>3. CASE History!FetchSince(w)
    <3>1. job[w].pc = "fetch" /\ UNCHANGED <<holders, owner>>
          /\ \E j : job' = [job EXCEPT ![w] = j]
      BY <2>3 DEF History!FetchSince
    <3>2. QED
      BY <3>1, <1>8
  <2>4. CASE History!PersistRaw(w)
    BY <2>4, <1>8 DEF History!PersistRaw, History!Goto
  <2>5. CASE History!AdvanceSync(w)
    <3>1. job[w].pc = "advance" /\ History!EndCall(w)
      BY <2>5 DEF History!AdvanceSync
    <3>2. QED
      BY <3>1, <1>9
  <2>6. QED
    BY <1>10, <2>1, <2>2, <2>3, <2>4, <2>5 DEF PipelineStep
<1>11. CASE BackfillPipelineStep
  <2> work' = work
    BY <1>11 DEF BackfillPipelineStep, Aside
  <2>1. ASSUME NEW end \in 0 .. MaxLog, History!FetchChunk(end) PROVE Locking'
    <3>1. job[Cli].pc = "fetch" /\ UNCHANGED <<holders, owner>>
          /\ \E j : job' = [job EXCEPT ![Cli] = j]
      BY <2>1 DEF History!FetchChunk
    <3>2. QED
      BY <3>1, <1>8
  <2>2. CASE History!PersistRaw(Cli)
    BY <2>2, <1>8 DEF History!PersistRaw, History!Goto
  <2>3. CASE History!AdvanceBackfill
    BY <2>3, <1>9 DEF History!AdvanceBackfill
  <2>4. QED
    BY <1>11, <2>1, <2>2, <2>3 DEF BackfillPipelineStep
<1>12. ASSUME NEW r \in Runners, FailHistory(r) PROVE Locking'
  <2>1. Active(r) /\ work'[r] = Rest /\ job'[r] = History!Idle /\ OthersIdleBy(r)
    BY <1>12 DEF FailHistory, History!Fail, History!EndCall, Active, OthersIdleBy
  <2>2. holders' = holders \ {r} /\ owner' = IF r = Cli THEN "none" ELSE owner
    BY <1>12 DEF FailHistory, History!Fail, History!EndCall
  <2>3. QED
    BY <2>1, <2>2, OwnEnd DEF Rest, History!Idle
<1>13. ASSUME NEW w \in Workers, EndPoll(w) \/ FailPoll(w) PROVE Locking'
  <2>1. work[w].pc # "idle" /\ work' = [work EXCEPT ![w] = Rest] /\ job' = job
    BY <1>13 DEF EndPoll, FailPoll, PollDone
  <2>2. Active(w) /\ work'[w] = Rest /\ job'[w].pc = "idle" /\ OthersIdleBy(w)
    BY <2>1, BusyPhases DEF Active, OthersIdleBy
  <2>3. holders' = holders \ {w} /\ owner' = owner /\ w # Cli
    BY <1>13 DEF EndPoll, FailPoll
  <2>4. QED
    BY <2>2, <2>3, OwnEnd DEF Rest
(* A step of a poll: the call stays a poll.                                *)
<1>14. ASSUME NEW w \in Workers, work[w].pc # "idle", OthersIdleBy(w),
              work'[w].phase = work[w].phase, work'[w].write # {} => work'[w].pc = "diff",
              UNCHANGED <<job, holders, owner>>
       PROVE  Locking'
  <2>1. Active(w) /\ job'[w].pc = "idle" /\ work'[w].phase = "none"
    BY <1>14, BusyPhases DEF Active
  <2>2. InPhase(work'[w], job'[w].pc)
    BY <1>14, <2>1 DEF InPhase
  <2>3. QED
    BY <1>14, <2>1, <2>2, OwnStep
(* A step of a projection: the call stays in it, or leaves it.             *)
<1>15. ASSUME NEW r \in Runners, Active(r), OthersIdleBy(r), work'[r].pc = "idle",
              work'[r].phase # "none" => job'[r].pc = "project",
              work'[r].write # {} => work'[r].phase # "none", UNCHANGED <<holders, owner>>
       PROVE  Locking'
  <2>1. InPhase(work'[r], job'[r].pc)
    BY <1>15 DEF InPhase
  <2>2. QED
    BY <1>15, <2>1, OwnStep
<1>16. ASSUME NEW w \in Workers, FetchOpenTrades(w) PROVE Locking'
  <2>1. work[w].pc = "fetch" /\ work[w].write = {} /\ UNCHANGED <<job, holders, owner>>
    BY <1>16, BusyPhases DEF FetchOpenTrades, pipelineVars, InPhase
  <2>2. work'[w].phase = work[w].phase /\ work'[w].write = work[w].write /\ OthersIdleBy(w)
    BY <1>16 DEF FetchOpenTrades, Works, OthersIdleBy, pipelineVars
  <2>3. QED
    BY <2>1, <2>2, <1>14
<1>17. ASSUME NEW w \in Workers, ListOpenTrades(w) PROVE Locking'
  <2>1. work[w].pc = "list" /\ UNCHANGED <<job, holders, owner>>
    BY <1>17 DEF ListOpenTrades, pipelineVars
  <2>2. work'[w].phase = work[w].phase /\ work'[w].pc = "diff" /\ OthersIdleBy(w)
    BY ZenonT(30), <1>17 DEF ListOpenTrades, Works, OthersIdleBy, pipelineVars
  <2>3. QED
    BY <2>1, <2>2, <1>14
<1>18. ASSUME NEW w \in Workers, NEW t \in Trades,
              RecordOpened(w, t) \/ ReadModified(w, t) \/ DeferClose(w, t)
       PROVE  Locking'
  <2>1. work[w].pc = "diff" /\ UNCHANGED <<job, holders, owner>>
    BY <1>18 DEF RecordOpened, ReadModified, DeferClose, pipelineVars
  <2>2. work'[w].phase = work[w].phase /\ work'[w].pc = "diff" /\ OthersIdleBy(w)
    BY <1>18 DEF RecordOpened, ReadModified, DeferClose, Works, OthersIdleBy, pipelineVars
  <2>3. QED
    BY <2>1, <2>2, <1>14
<1>19. ASSUME NEW w \in Workers, NEW t \in Trades, NEW evidence \in BOOLEAN,
              LookUpClosed(w, t, evidence)
       PROVE  Locking'
  <2>1. work[w].pc = "diff" /\ UNCHANGED <<job, holders, owner>>
    BY <1>19 DEF LookUpClosed
  <2>2. work'[w].phase = work[w].phase /\ work'[w].pc = "diff" /\ OthersIdleBy(w)
    BY <1>19 DEF LookUpClosed, Works, OthersIdleBy
  <2>3. QED
    BY <2>1, <2>2, <1>14
<1>20. ASSUME NEW w \in Workers, PollStep(w) PROVE Locking'
  BY <1>20, <1>13, <1>16, <1>17, <1>18, <1>19 DEF PollStep
<1>21. ASSUME NEW r \in Runners, WriteTrade(r) PROVE Locking'
  <2>1. /\ work[r].write # {} /\ work' = [work EXCEPT ![r].write = {}]
        /\ UNCHANGED <<job, holders, owner>>
    BY <1>21 DEF WriteTrade, pipelineVars
  <2>2. /\ work'[r].phase = work[r].phase /\ work'[r].pc = work[r].pc /\ work'[r].write = {}
        /\ OthersIdleBy(r)
    BY <2>1 DEF Works, OthersIdleBy
  <2>3. Active(r) /\ InPhase(work'[r], job'[r].pc) /\ (r = Cli => work'[r].pc = "idle")
    BY <2>1, <2>2, BusyPhases DEF InPhase, Locking, Exclusive
  <2>4. QED
    BY <2>1, <2>2, <2>3, OwnStep
<1>22. ASSUME NEW r \in Runners, PersistEvents(r) PROVE Locking'
  <2>1. job[r].pc = "events" /\ job' = [job EXCEPT ![r].pc = "project"] /\ UNCHANGED <<holders, owner>>
    BY <1>22 DEF PersistEvents, History!PersistEvents, History!Goto
  <2>2. job'[r].pc = "project" /\ Active(r) /\ work[r].pc = "idle"
    BY <2>1, BusyPhases DEF History!Jobs, Active
  <2>3. OthersIdleBy(r) /\ work'[r].pc = work[r].pc /\ work'[r].phase = "project"
    BY <1>22, <2>1 DEF PersistEvents, OthersIdleBy, Works
  <2>4. QED
    BY <2>1, <2>2, <2>3, <1>15
<1>23. ASSUME NEW r \in Runners, FinishProjection(r) PROVE Locking'
  <2>1. job[r].pc = "project" /\ (\E pc \in History!PCs : job' = [job EXCEPT ![r].pc = pc])
        /\ UNCHANGED <<holders, owner>> /\ work' = [work EXCEPT ![r] = Rest]
    BY <1>23 DEF FinishProjection, History!FinishProjection, History!Goto, History!PCs
  <2>2. Active(r) /\ work'[r] = Rest /\ OthersIdleBy(r)
    BY <2>1 DEF Active, OthersIdleBy
  <2>3. work'[r].pc = "idle" /\ work'[r].phase = "none" /\ work'[r].write = {}
    BY <2>2 DEF Rest
  <2>4. QED
    BY <2>1, <2>2, <2>3, <1>15
<1>24. ASSUME NEW r \in Runners, work[r].phase # "none", work'[r].phase # "none",
              work'[r].pc = work[r].pc, OthersIdleBy(r), UNCHANGED <<job, holders, owner>>
       PROVE  Locking'
  <2>1. job[r].pc = "project" /\ work[r].pc = "idle" /\ Active(r)
    BY <1>24, BusyPhases DEF InPhase
  <2>2. QED
    BY <1>24, <2>1, <1>15
<1>25. ASSUME NEW r \in Runners, ListRepairs(r) PROVE Locking'
  <2>1. work[r].phase = "project" /\ UNCHANGED <<job, holders, owner>>
    BY <1>25 DEF ListRepairs, pipelineVars
  <2>2. work'[r].phase = "repair" /\ work'[r].pc = work[r].pc /\ OthersIdleBy(r)
    BY <1>25 DEF ListRepairs, Works, OthersIdleBy, pipelineVars
  <2>3. QED
    BY <2>1, <2>2, <1>24
<1>26. ASSUME NEW r \in Runners, NEW t \in Trades, ReadProjection(r, t) \/ ReadRepair(r, t)
       PROVE  Locking'
  <2>1. work[r].phase # "none" /\ UNCHANGED <<job, holders, owner>>
        /\ \E p, s, ws : work' \in {[work EXCEPT ![r].project = p, ![r].write = ws],
                                     [work EXCEPT ![r].repair = s, ![r].write = ws]}
    BY <1>26 DEF ReadProjection, ReadRepair, pipelineVars
  <2>2. work'[r].phase = work[r].phase /\ work'[r].pc = work[r].pc /\ OthersIdleBy(r)
    BY <2>1 DEF Works, OthersIdleBy
  <2>3. QED
    BY <2>1, <2>2, <1>24
<1>27. ASSUME NEW r \in Runners, ProjectionStep(r) PROVE Locking'
  BY <1>27, <1>21, <1>22, <1>23, <1>25, <1>26 DEF ProjectionStep
<1>28. ASSUME NEW tx \in Transactions, BrokerFill(tx) PROVE Locking'
  BY <1>28, <1>1 DEF BrokerFill, History!BrokerCommit
<1>29. ASSUME NEW t \in Trades, NEW l \in Levels, BrokerMovesLevel(t, l) PROVE Locking'
  BY <1>29, <1>1 DEF BrokerMovesLevel, pipelineVars
<1>30. CASE UNCHANGED vars
  BY <1>30, <1>1 DEF vars
<1>31. QED
  BY <1>2, <1>3, <1>4, <1>5, <1>6, <1>10, <1>11, <1>12, <1>13, <1>18, <1>19, <1>20, <1>27, <1>28,
     <1>29, <1>30
     DEF Next, Step, Faulty

-----------------------------------------------------------------------------
(* The evidence.                                                           *)

LEMMA LegsFound ==
  \A type, t : WithLeg({type}, t) # {} <=> HasLeg(log, type, t)
BY DEF WithLeg, HasLeg

LEMMA InitEvidence == Init => Evidence
BY DEF Init, Rest, NoTrade, Evidence, JournalBacked, Backed, CallBacked

(* A fill takes no evidence away.                                          *)
LEMMA LegsStay ==
  ASSUME Serialised, PipelineTyped, NEW tx \in Transactions, BrokerFill(tx)
  PROVE  \A type, t : HasLeg(log, type, t) => HasLeg(log', type, t)
<1>1. Len(log') = Len(log) + 1 /\ Len(log) \in Nat /\ \A i \in 1 .. Len(log) : log'[i] = log[i]
  BY LogGrows DEF BrokerFill, PipelineTyped
<1>2. 1 .. Len(log) \subseteq 1 .. Len(log')
  BY <1>1
<1>3. QED
  BY <1>1, <1>2 DEF HasLeg

LEMMA RestBacked == \A lg, open : CallBacked(lg, Rest, open)
BY DEF CallBacked, Rest

(* A step of one call that does not write the journal.                     *)
LEMMA EvidenceStep ==
  ASSUME Evidence, SameLog, journal' = journal, NEW r \in Runners,
         \A v \in Runners \ {r} : work'[v] = work[v], CallBacked(log, work'[r], OpenInJournal)
  PROVE  Evidence'
<1>1. OpenInJournal' = OpenInJournal
  BY DEF OpenInJournal
<1>2. JournalBacked'
  BY DEF Evidence, JournalBacked, SameLog
<1>3. \A v \in Runners : CallBacked(log, work'[v], OpenInJournal)
  BY DEF Evidence
<1>4. QED
  BY <1>1, <1>2, <1>3 DEF Evidence, SameLog

(* A step that writes a record, while no poll relies on the journal.       *)
LEMMA EvidenceWrite ==
  ASSUME Evidence, SameLog, NEW t \in Trades, \A u \in Trades \ {t} : journal'[u] = journal[u],
         Backed(log, t, journal'[t].state), NEW r \in Runners,
         \A v \in Runners \ {r} : work'[v] = work[v] /\ work[v].pc # "list",
         CallBacked(log, work'[r], {}), work'[r].pc # "list"
  PROVE  Evidence'
<1>1. JournalBacked'
  BY DEF Evidence, JournalBacked, SameLog
<1>2. \A v \in Runners : CallBacked(log, work'[v], OpenInJournal')
  BY DEF Evidence, CallBacked
<1>3. QED
  BY <1>1, <1>2 DEF Evidence, SameLog

(* What a projection writes is backed by the stored events.                *)
LEMMA ProjectionBacked ==
  ASSUME Typed, JournalBacked, NEW t \in Trades
  PROVE  \A y \in Projection(t) : y.trade = t /\ Backed(log, t, y.rec.state)
<1>1. ASSUME NEW type, type \in {LegOf(row).type : row \in RowsFor(t)} PROVE HasLeg(log, type, t)
  BY <1>1 DEF RowsFor, LegOf, HasLeg, Typed, PipelineTyped
<1>2. journal[t].state # "ABSENT" => Opened(log, t)
  BY DEF JournalBacked, Backed
<1> HIDE DEF RowsFor, LegOf, FinalReason, StoredClosing
<1> DEFINE types == {LegOf(row).type : row \in RowsFor(t)}
<1>3. ASSUME NEW y \in Projection(t)
      PROVE  /\ y.trade = t /\ y.rec.state \in {"OPEN", "CLOSED"}
             /\ journal[t].state # "ABSENT" \/ "OPEN" \in types
             /\ y.rec.state = "CLOSED" => "CLOSE" \in types
  <2> DEFINE closed == [state |-> "CLOSED", level |-> journal[t].level, reason |-> FinalReason(t),
                        pnl |-> {row[1] : row \in StoredClosing(t)}]
             open   == [NoTrade EXCEPT !.state = "OPEN", !.level = journal[t].level]
  <2>1. /\ journal[t].state # "ABSENT" \/ "OPEN" \in types
        /\ y = [trade |-> t, closing |-> FALSE, rec |-> IF "CLOSE" \in types THEN closed ELSE open]
    BY <1>3, Zenon DEF Projection
  <2>2. closed.state = "CLOSED" /\ open.state = "OPEN"
    BY DEF NoTrade
  <2> HIDE DEF closed, open
  <2>3. y.trade = t /\ y.rec = IF "CLOSE" \in types THEN closed ELSE open
    BY <2>1
  <2>4. QED
    BY <2>1, <2>2, <2>3
<1>4. QED
  BY <1>1, <1>2, <1>3 DEF Backed, Opened, Closed

LEMMA EvidenceInductive ==
  ASSUME Serialised, Typed, Locking, Evidence, [Next]_vars
  PROVE  Evidence'
<1> work \in [Runners -> Works] /\ journal \in [Trades -> Rows]
  BY DEF Typed, JournalTyped
<1> Cli \in Runners /\ Workers \subseteq Runners
  BY DEF Runners
<1>a. \A r \in Runners : CallBacked(log, work[r], OpenInJournal)
  BY DEF Evidence
<1>b. \A t \in Trades : Backed(log, t, journal[t].state)
  BY DEF Evidence, JournalBacked
<1>1. ASSUME UNCHANGED <<log, journal, work>> PROVE Evidence'
  BY <1>1 DEF Evidence, JournalBacked, OpenInJournal
<1>2. ASSUME NEW tx \in Transactions, BrokerFill(tx) PROVE Evidence'
  <2>1. \A type, t : HasLeg(log, type, t) => HasLeg(log', type, t)
    BY <1>2, LegsStay DEF Typed
  <2>2. journal' = journal /\ work' = work /\ OpenInJournal' = OpenInJournal
    BY <1>2 DEF BrokerFill, OpenInJournal
  <2>3. \A t, state : Backed(log, t, state) => Backed(log', t, state)
    BY <2>1 DEF Backed, Opened, Closed
  <2>4. \A x, open : CallBacked(log, x, open) => CallBacked(log', x, open)
    BY <2>1, <2>3 DEF CallBacked, Opened, Closed
  <2>5. QED
    BY <1>a, <1>b, <2>2, <2>3, <2>4 DEF Evidence, JournalBacked
<1>3. CASE Crash
  <2>1. \A r \in Runners : work'[r] = Rest
    BY <1>3 DEF Crash
  <2>2. log' = log /\ journal' = journal
    BY <1>3 DEF Crash, History!Crash
  <2>3. QED
    BY <1>b, <2>1, <2>2, RestBacked DEF Evidence, JournalBacked
<1>4. ASSUME NEW r \in Runners, work' = [work EXCEPT ![r] = Rest], UNCHANGED <<log, journal>>
      PROVE  Evidence'
  <2>1. work'[r] = Rest /\ \A v \in Runners \ {r} : work'[v] = work[v]
    BY <1>4
  <2>2. QED
    BY <1>4, <2>1, RestBacked, EvidenceStep DEF SameLog
(* A step of a call that leaves what its evidence is about.                *)
<1>5. ASSUME NEW r \in Runners, UNCHANGED <<log, journal>>,
             \A v \in Runners \ {r} : work'[v] = work[v],
             work'[r].write = work[r].write, work'[r].current = work[r].current,
             work'[r].gone \subseteq work[r].gone, work'[r].pc # "list"
      PROVE  Evidence'
  <2>1. CallBacked(log, work'[r], OpenInJournal)
    BY <1>5, <1>a DEF CallBacked
  <2>2. QED
    BY <1>5, <2>1, EvidenceStep DEF SameLog
(* A step of a call that prepares an upsert.                               *)
<1>6. ASSUME NEW r \in Runners, UNCHANGED <<log, journal>>,
             \A v \in Runners \ {r} : work'[v] = work[v],
             \A y \in work'[r].write : Backed(log, y.trade, y.rec.state),
             work'[r].current = work[r].current,
             work'[r].gone \subseteq work[r].gone, work'[r].pc # "list"
      PROVE  Evidence'
  <2>1. CallBacked(log, work'[r], OpenInJournal)
    BY <1>6, <1>a DEF CallBacked
  <2>2. QED
    BY <1>6, <2>1, EvidenceStep DEF SameLog
<1>7. ASSUME NEW w \in Workers, BeginPoll(w) PROVE Evidence'
  BY <1>7, <1>5 DEF BeginPoll, Works
<1>8. ASSUME NEW w \in Workers, FetchOpenTrades(w) PROVE Evidence'
  <2> DEFINE shown == {<<t, level[t]>> : t \in BrokerOpen}
  <2>1. /\ work' = [work EXCEPT ![w].pc = "list", ![w].current = shown]
        /\ UNCHANGED <<log, journal>>
    BY <1>8 DEF FetchOpenTrades, pipelineVars
  <2>2. \A c \in shown : Opened(log, c[1])
    BY LegsFound DEF BrokerOpen, Opened
  <2>3. \A t \in OpenInJournal : Closed(log, t) \/ \E c \in shown : c[1] = t
    <3>1. \A t \in OpenInJournal : t \in Trades /\ Opened(log, t)
      BY <1>b DEF OpenInJournal, Backed
    <3>2. \A t \in OpenInJournal : Closed(log, t) \/ t \in BrokerOpen
      BY <3>1, LegsFound DEF BrokerOpen, Opened, Closed
    <3>3. \A t \in BrokerOpen : <<t, level[t]>> \in shown /\ <<t, level[t]>>[1] = t
      OBVIOUS
    <3> HIDE DEF shown
    <3>4. QED
      BY <3>2, <3>3
  <2> HIDE DEF shown
  <2>4. work'[w].current = shown /\ work'[w].write = work[w].write /\ work'[w].gone = work[w].gone
        /\ \A v \in Runners \ {w} : work'[v] = work[v]
    BY <2>1 DEF Works
  <2>5. CallBacked(log, work'[w], OpenInJournal)
    BY <1>a, <2>2, <2>3, <2>4 DEF CallBacked
  <2>6. QED
    BY <2>1, <2>4, <2>5, EvidenceStep DEF SameLog
<1>9. ASSUME NEW w \in Workers, ListOpenTrades(w) PROVE Evidence'
  <2> DEFINE shown == {c[1] : c \in work[w].current}
  <2>1. /\ work[w].pc = "list" /\ UNCHANGED <<log, journal>>
        /\ \A v \in Runners \ {w} : work'[v] = work[v]
    BY <1>9 DEF ListOpenTrades, pipelineVars
  <2>2. /\ work'[w].pc = "diff" /\ work'[w].gone = OpenInJournal \ shown
        /\ work'[w].write = work[w].write /\ work'[w].current = work[w].current
    BY ZenonT(30), <1>9 DEF ListOpenTrades, Works
  <2>3. \A t \in OpenInJournal \ shown : Closed(log, t)
    BY <1>a, <2>1 DEF CallBacked
  <2>4. \A t \in OpenInJournal : Opened(log, t)
    BY <1>b DEF OpenInJournal, Backed
  <2> HIDE DEF shown
  <2>5. CallBacked(log, work'[w], OpenInJournal)
    BY <1>a, <2>2, <2>3, <2>4 DEF CallBacked
  <2>6. QED
    BY <2>1, <2>5, EvidenceStep DEF SameLog
<1>10. ASSUME NEW w \in Workers, NEW t \in Trades, RecordOpened(w, t) PROVE Evidence'
  <2>1. /\ work[w].pc = "diff" /\ t \in work[w].opens /\ UNCHANGED log
        /\ \A u \in Trades \ {t} : journal'[u] = journal[u]
        /\ \A v \in Runners \ {w} : work'[v] = work[v]
    BY <1>10 DEF RecordOpened, pipelineVars
  <2>2. journal'[t].state = "OPEN"
    BY <1>10 DEF RecordOpened, NoTrade
  <2>3. PICK c \in work[w].current : c[1] = t
    BY <2>1 DEF Typed, JournalTyped
  <2>4. Backed(log, t, journal'[t].state)
    BY <1>a, <2>2, <2>3 DEF Backed, CallBacked
  <2>5. \A v \in Runners \ {w} : work[v].pc # "list"
    BY <2>1, OthersWait DEF Active
  <2>6. /\ work'[w].pc = "diff" /\ work'[w].gone = work[w].gone
        /\ work'[w].write = work[w].write /\ work'[w].current = work[w].current
    BY <1>10, <2>1 DEF RecordOpened, Works
  <2>7. CallBacked(log, work'[w], {})
    BY <1>a, <2>6 DEF CallBacked
  <2>8. QED
    BY <2>1, <2>4, <2>5, <2>6, <2>7, EvidenceWrite DEF SameLog
<1>11. ASSUME NEW w \in Workers, NEW t \in Trades, ReadModified(w, t) PROVE Evidence'
  <2> DEFINE rec == [journal[t] EXCEPT !.level = Shown(w, t)]
  <2>1. rec.state = journal[t].state
    BY DEF Rows
  <2> HIDE DEF rec
  <2>2. /\ work'[w].pc = "diff" /\ work'[w].gone = work[w].gone /\ work'[w].current = work[w].current
        /\ work'[w].write = {[trade |-> t, closing |-> FALSE, rec |-> rec]}
        /\ \A v \in Runners \ {w} : work'[v] = work[v]
    BY <1>11 DEF ReadModified, Works, rec
  <2>3. \A y \in work'[w].write : Backed(log, y.trade, y.rec.state)
    BY <1>b, <2>1, <2>2
  <2>4. QED
    BY <1>11, <2>2, <2>3, <1>6 DEF ReadModified, pipelineVars
<1>12. ASSUME NEW w \in Workers, NEW t \in Trades, NEW evidence \in BOOLEAN,
              LookUpClosed(w, t, evidence)
       PROVE  Evidence'
  <2>1. t \in work[w].gone /\ UNCHANGED <<log, journal>>
        /\ \A v \in Runners \ {w} : work'[v] = work[v]
    BY <1>12 DEF LookUpClosed
  <2>2. /\ work'[w].pc = "diff" /\ work'[w].gone = work[w].gone \ {t}
        /\ work'[w].current = work[w].current
    BY <1>12 DEF LookUpClosed, Works
  <2>3. \A y \in work'[w].write : y.trade = t /\ y.rec.state = "CLOSED"
    BY <1>12 DEF LookUpClosed, Works
  <2>4. \A y \in work'[w].write : Backed(log, y.trade, y.rec.state)
    BY <1>a, <2>1, <2>3 DEF CallBacked, Backed
  <2>5. QED
    BY <2>1, <2>2, <2>4, <1>6
<1>13. ASSUME NEW w \in Workers, NEW t \in Trades, DeferClose(w, t) PROVE Evidence'
  BY <1>13, <1>5 DEF DeferClose, Works
<1>14. ASSUME NEW r \in Runners, WriteTrade(r) PROVE Evidence'
  <2>1. PICK y \in work[r].write :
           /\ journal' = [journal EXCEPT ![y.trade] =
                            IF y.closing THEN [y.rec EXCEPT !.level = journal[y.trade].level]
                                         ELSE y.rec]
           /\ work' = [work EXCEPT ![r].write = {}]
           /\ UNCHANGED <<pipelineVars, level>>
    BY <1>14 DEF WriteTrade
  <2>2. y.trade \in Trades /\ y.rec \in Rows
    BY DEF Works, Writes
  <2>3. [y.rec EXCEPT !.level = journal[y.trade].level].state = y.rec.state
    BY <2>2 DEF Rows
  <2>4. journal'[y.trade].state = y.rec.state /\ \A u \in Trades \ {y.trade} : journal'[u] = journal[u]
    BY <2>1, <2>2, <2>3
  <2>5. Backed(log, y.trade, journal'[y.trade].state)
    BY <1>a, <2>4 DEF CallBacked
  <2>6. Active(r) /\ (work[r].pc # "idle" => work[r].pc = "diff")
    <3>1. work[r].write # {}
      OBVIOUS
    <3>2. QED
      BY <3>1, BusyPhases DEF Locking, Phases, InPhase
  <2>7. \A v \in Runners \ {r} : work'[v] = work[v] /\ work[v].pc # "list"
    BY <2>1, <2>6, OthersWait DEF Active
  <2>8. /\ work'[r].pc = work[r].pc /\ work'[r].gone = work[r].gone
        /\ work'[r].write = {} /\ work'[r].current = work[r].current
    BY <2>1 DEF Works
  <2>9. CallBacked(log, work'[r], {})
    BY <1>a, <2>8 DEF CallBacked
  <2>10. log' = log /\ work'[r].pc # "list"
    BY <2>1, <2>6, <2>8 DEF pipelineVars
  <2>11. QED
    BY <2>2, <2>4, <2>5, <2>7, <2>9, <2>10, EvidenceWrite DEF SameLog
<1>15. ASSUME NEW r \in Runners, job[r].pc # "idle" PROVE work[r].pc # "list"
  BY <1>15, BusyPhases
<1>16. ASSUME NEW r \in Runners, work[r].phase # "none" PROVE work[r].pc # "list"
  BY <1>16, BusyPhases
<1>17. ASSUME NEW r \in Runners, PersistEvents(r) \/ ListRepairs(r) PROVE Evidence'
  <2>1. UNCHANGED <<log, journal>> /\ work[r].pc # "list"
    BY <1>17, <1>15, <1>16 DEF PersistEvents, History!PersistEvents, ListRepairs, pipelineVars
  <2>2. /\ work'[r].pc = work[r].pc /\ work'[r].gone = work[r].gone
        /\ work'[r].write = work[r].write /\ work'[r].current = work[r].current
        /\ \A v \in Runners \ {r} : work'[v] = work[v]
    BY <1>17 DEF PersistEvents, ListRepairs, Works
  <2>3. QED
    BY <2>1, <2>2, <1>5
<1>18. ASSUME NEW r \in Runners, NEW t \in Trades, ReadProjection(r, t) \/ ReadRepair(r, t)
       PROVE  Evidence'
  <2>1. UNCHANGED <<log, journal>> /\ work[r].pc # "list"
    BY <1>18, <1>16 DEF ReadProjection, ReadRepair, pipelineVars
  <2>2. PICK ws \in {Projection(t), {}} :
           work' \in {[work EXCEPT ![r].project = @ \ {t}, ![r].write = ws],
                     [work EXCEPT ![r].repair = @ \ {t}, ![r].write = ws]}
    BY <1>18 DEF ReadProjection, ReadRepair
  <2>3. /\ work'[r].pc = work[r].pc /\ work'[r].gone = work[r].gone
        /\ work'[r].write = ws /\ work'[r].current = work[r].current
        /\ \A v \in Runners \ {r} : work'[v] = work[v]
    BY <2>2 DEF Works
  <2>4. \A y \in ws : Backed(log, y.trade, y.rec.state)
    BY <2>2, ProjectionBacked DEF Evidence
  <2>5. QED
    BY <2>1, <2>3, <2>4, <1>6
<1>19. ASSUME NEW r \in Runners, FinishProjection(r) \/ FailHistory(r) PROVE Evidence'
  BY <1>19, <1>4 DEF FinishProjection, History!FinishProjection, FailHistory, History!Fail
<1>20. ASSUME NEW w \in Workers, EndPoll(w) \/ FailPoll(w) PROVE Evidence'
  BY <1>20, <1>4 DEF EndPoll, FailPoll
<1>21. ASSUME NEW r \in Runners, ProjectionStep(r) PROVE Evidence'
  BY <1>21, <1>14, <1>17, <1>18, <1>19 DEF ProjectionStep
<1>22. ASSUME NEW w \in Workers, PollStep(w) PROVE Evidence'
  BY <1>22, <1>8, <1>9, <1>10, <1>11, <1>12, <1>20 DEF PollStep
<1>23. ASSUME NEW t \in Trades, NEW l \in Levels, BrokerMovesLevel(t, l) PROVE Evidence'
  BY <1>23, <1>1 DEF BrokerMovesLevel, pipelineVars
<1>24. CASE OpenServer \/ CloseServer
  BY <1>24, <1>1 DEF OpenServer, CloseServer, History!OpenServer, History!CloseServer, Aside
<1>25. ASSUME NEW w \in Workers, BeginSync(w) PROVE Evidence'
  BY <1>25, <1>1 DEF BeginSync, History!BeginSync, Aside
<1>26. ASSUME NEW w \in Workers, PipelineStep(w) PROVE Evidence'
  BY <1>26, <1>1 DEF PipelineStep, Aside, History!FetchDetails, History!InitialiseWatermark,
                     History!FetchSince, History!PersistRaw, History!AdvanceSync
<1>27. ASSUME NEW first \in 1 .. MaxLog, NEW last \in 1 .. MaxLog, BeginBackfill(first, last)
       PROVE  Evidence'
  BY <1>27, <1>1 DEF BeginBackfill, History!BeginBackfill, Aside
<1>28. CASE BackfillPipelineStep
  <2>1. log' = log
    BY <1>28 DEF BackfillPipelineStep, History!FetchChunk, History!PersistRaw, History!AdvanceBackfill
  <2>2. QED
    BY <1>28, <2>1, <1>1 DEF BackfillPipelineStep, Aside
<1>29. CASE UNCHANGED vars
  BY <1>29, <1>1 DEF vars
<1>30. QED
  BY <1>2, <1>3, <1>7, <1>12, <1>13, <1>19, <1>20, <1>21, <1>22, <1>23, <1>24, <1>25, <1>26, <1>27,
     <1>28, <1>29
     DEF Next, Step, Faulty

-----------------------------------------------------------------------------
(* What a poll has still to do.                                            *)

ShownIn(x, t) == \E l \in Levels : <<t, l>> \in x.current

(* While a poll works through its lists, every trade it was shown is open  *)
(* in the journal at the level shown or still on a list or about to be     *)
(* written, and every other open trade is on its way to be closed, unless  *)
(* one close was deferred.                                                 *)
OneLevelEach(x) ==
    \A t \in Trades, l, m \in Levels : <<t, l>> \in x.current /\ <<t, m>> \in x.current => l = m

ListsAgree(x, records) ==
    /\ \A t \in x.moves : records[t].state = "OPEN" /\ ShownIn(x, t)
    /\ \A t \in x.opens : ShownIn(x, t)
    /\ \A t \in x.gone : ~ShownIn(x, t)

WritesAgree(x) ==
    /\ \A y, z \in x.write : y = z
    /\ \A y \in x.write :
          /\ ShownIn(x, y.trade) => /\ ~y.closing /\ y.rec.state = "OPEN"
                                    /\ <<y.trade, y.rec.level>> \in x.current
          /\ ~ShownIn(x, y.trade) => y.rec.state = "CLOSED"

Written(x, t) == \E y \in x.write : y.trade = t

ShownTradesKept(x, records) ==
    \A t \in Trades, l \in Levels : <<t, l>> \in x.current =>
        \/ t \in x.opens
        \/ /\ records[t].state = "OPEN"
           /\ records[t].level = l \/ t \in x.moves \/ Written(x, t)

OtherTradesClosed(x, records) ==
    \A t \in Trades : records[t].state = "OPEN" =>
        ShownIn(x, t) \/ x.deferred \/ t \in x.gone \/ Written(x, t)

Diffing(x, records) ==
    x.pc = "diff" => /\ ListsAgree(x, records) /\ WritesAgree(x)
                     /\ ShownTradesKept(x, records) /\ OtherTradesClosed(x, records)

Progress == \A r \in Runners : OneLevelEach(work[r]) /\ Diffing(work[r], journal)

LEMMA RestProgresses == \A records : OneLevelEach(Rest) /\ Diffing(Rest, records)
BY DEF Rest, OneLevelEach, Diffing

LEMMA InitProgress == Init => Progress
BY RestProgresses DEF Init, Progress

(* A step of one call; it writes the journal only if it is at work.        *)
LEMMA ProgressStep ==
  ASSUME Serialised, Locking, Progress, NEW r \in Runners,
         \A v \in Runners \ {r} : work'[v] = work[v], journal' = journal \/ Active(r),
         OneLevelEach(work'[r]), Diffing(work'[r], journal')
  PROVE  Progress'
<1>1. ASSUME NEW v \in Runners, v # r PROVE OneLevelEach(work'[v]) /\ Diffing(work'[v], journal')
  <2>1. work'[v] = work[v] /\ OneLevelEach(work[v]) /\ Diffing(work[v], journal)
    BY <1>1 DEF Progress
  <2>2. CASE journal' = journal
    BY <2>1, <2>2
  <2>3. CASE Active(r)
    <3>1. work[v].pc = "idle"
      BY <1>1, <2>3, OthersWait DEF Active
    <3>2. QED
      BY <2>1, <3>1 DEF Diffing
  <2>4. QED
    BY <2>2, <2>3
<1>2. QED
  BY <1>1 DEF Progress

(* A step after which the call is not in the middle of a poll.             *)
LEMMA ProgressElsewhere ==
  ASSUME Serialised, Locking, Progress, NEW r \in Runners,
         \A v \in Runners \ {r} : work'[v] = work[v], journal' = journal \/ Active(r),
         work'[r].current = work[r].current, work'[r].pc # "diff"
  PROVE  Progress'
<1>1. OneLevelEach(work'[r]) /\ Diffing(work'[r], journal')
  BY DEF Progress, OneLevelEach, Diffing
<1>2. QED
  BY <1>1, ProgressStep

(* The level a poll takes for a trade is the one it was shown.             *)
LEMMA ShownIsTheLevel ==
  ASSUME JournalTyped, NEW w \in Workers, NEW t \in Trades, ShownIn(work[w], t)
  PROVE  Shown(w, t) \in Levels /\ <<t, Shown(w, t)>> \in work[w].current
<1>1. work[w].current \subseteq Trades \X Levels
  BY DEF JournalTyped, Works, Runners
<1>2. PICK l \in Levels : <<t, l>> \in work[w].current
  BY DEF ShownIn
<1>3. \E c \in work[w].current : c[1] = t
  BY <1>2
<1> DEFINE d == CHOOSE c \in work[w].current : c[1] = t
<1>4. d \in work[w].current /\ d[1] = t
  BY <1>3
<1>5. Shown(w, t) = d[2]
  BY DEF Shown
<1> HIDE DEF d
<1>6. d \in Trades \X Levels
  BY <1>1, <1>4
<1>7. d[2] \in Levels /\ d = <<t, d[2]>>
  BY <1>4, <1>6
<1>8. QED
  BY <1>4, <1>5, <1>7

LEMMA ProgressInductive ==
  ASSUME Serialised, Typed, Locking, Progress, [Next]_vars
  PROVE  Progress'
<1> JournalTyped /\ work \in [Runners -> Works] /\ journal \in [Trades -> Rows]
  BY DEF Typed, JournalTyped
<1> Cli \in Runners /\ Workers \subseteq Runners
  BY DEF Runners
<1>a. \A r \in Runners : OneLevelEach(work[r]) /\ Diffing(work[r], journal)
  BY DEF Progress
<1>b. \A r \in Runners : work[r].current \subseteq Trades \X Levels
  BY DEF Works
<1>1. ASSUME UNCHANGED <<journal, work>> PROVE Progress'
  BY <1>1 DEF Progress
<1>2. ASSUME NEW r \in Runners, work' = [work EXCEPT ![r] = Rest], journal' = journal PROVE Progress'
  <2>1. work'[r] = Rest /\ \A v \in Runners \ {r} : work'[v] = work[v]
    BY <1>2
  <2>2. QED
    BY <1>2, <2>1, RestProgresses, ProgressStep
<1>3. CASE Crash
  <2>1. \A r \in Runners : work'[r] = Rest
    BY <1>3 DEF Crash
  <2>2. QED
    BY <2>1, RestProgresses DEF Progress
<1>4. ASSUME NEW w \in Workers, BeginPoll(w) PROVE Progress'
  <2>1. /\ work'[w].current = work[w].current /\ work'[w].pc = "fetch" /\ journal' = journal
        /\ \A v \in Runners \ {w} : work'[v] = work[v]
    BY <1>4 DEF BeginPoll, Works
  <2>2. QED
    BY <2>1, ProgressElsewhere
<1>5. ASSUME NEW w \in Workers, FetchOpenTrades(w) PROVE Progress'
  <2>1. /\ work'[w].current = {<<t, level[t]>> : t \in BrokerOpen} /\ work'[w].pc = "list"
        /\ journal' = journal /\ \A v \in Runners \ {w} : work'[v] = work[v]
    BY <1>5 DEF FetchOpenTrades, Works
  <2>2. OneLevelEach(work'[w]) /\ Diffing(work'[w], journal')
    BY <2>1 DEF OneLevelEach, Diffing
  <2>3. QED
    BY <2>1, <2>2, ProgressStep
<1>6. ASSUME NEW w \in Workers, ListOpenTrades(w) PROVE Progress'
  <2> DEFINE x     == work'[w]
             shown == {c[1] : c \in work[w].current}
             moved == {c[1] : c \in {d \in work[w].current :
                                         d[1] \in OpenInJournal /\ journal[d[1]].level # d[2]}}
  <2>1. work[w].write = {}
    BY <1>6, BusyPhases DEF ListOpenTrades, Locking, Phases, InPhase
  <2>2. /\ x.current = work[w].current /\ x.opens = shown \ OpenInJournal /\ x.moves = moved
        /\ x.gone = OpenInJournal \ shown /\ x.write = {} /\ x.deferred = work[w].deferred
    BY ZenonT(30), <1>6, <2>1 DEF ListOpenTrades, Works
  <2>3. journal' = journal /\ \A v \in Runners \ {w} : work'[v] = work[v]
    BY <1>6 DEF ListOpenTrades
  <2>4. \A t \in Trades : t \in shown <=> ShownIn(x, t)
    <3>1. \A t : t \in shown <=> \E c \in work[w].current : c[1] = t
      OBVIOUS
    <3>2. \A c \in work[w].current : c = <<c[1], c[2]>> /\ c[2] \in Levels
      BY <1>b
    <3> HIDE DEF shown
    <3>3. ASSUME NEW t \in Trades, t \in shown PROVE ShownIn(x, t)
      <4>1. PICK c \in work[w].current : c[1] = t
        BY <3>1, <3>3
      <4>2. <<t, c[2]>> \in work[w].current /\ c[2] \in Levels
        BY <3>2, <4>1
      <4>3. QED
        BY <2>2, <4>2 DEF ShownIn
    <3>4. ASSUME NEW t \in Trades, ShownIn(x, t) PROVE t \in shown
      <4>1. PICK l \in Levels : <<t, l>> \in work[w].current
        BY <2>2, <3>4 DEF ShownIn
      <4>2. <<t, l>>[1] = t
        OBVIOUS
      <4>3. QED
        BY <3>1, <4>1, <4>2
    <3>5. QED
      BY <3>3, <3>4
  <2>5. \A t \in Trades : t \in moved <=>
            t \in OpenInJournal /\ \E l \in Levels : <<t, l>> \in work[w].current /\ journal[t].level # l
    <3>1. \A t : t \in moved <=> \E c \in work[w].current :
                                   c[1] = t /\ t \in OpenInJournal /\ journal[t].level # c[2]
      OBVIOUS
    <3>2. \A c \in work[w].current : c = <<c[1], c[2]>> /\ c[2] \in Levels
      BY <1>b
    <3> HIDE DEF moved
    <3>3. ASSUME NEW t \in Trades, t \in moved
          PROVE  t \in OpenInJournal /\ \E l \in Levels :
                    <<t, l>> \in work[w].current /\ journal[t].level # l
      <4>1. PICK c \in work[w].current :
               c[1] = t /\ t \in OpenInJournal /\ journal[t].level # c[2]
        BY <3>1, <3>3
      <4>2. <<t, c[2]>> \in work[w].current /\ c[2] \in Levels
        BY <3>2, <4>1
      <4>3. QED
        BY <4>1, <4>2
    <3>4. ASSUME NEW t \in Trades, t \in OpenInJournal, NEW l \in Levels,
                 <<t, l>> \in work[w].current, journal[t].level # l
          PROVE  t \in moved
      <4>1. <<t, l>>[1] = t /\ <<t, l>>[2] = l
        OBVIOUS
      <4>2. QED
        BY <3>1, <3>4, <4>1
    <3>5. QED
      BY <3>3, <3>4
  <2>6. moved \subseteq Trades /\ shown \subseteq Trades
    BY <1>b
  <2>7. \A t \in Trades : t \in OpenInJournal <=> journal[t].state = "OPEN"
    BY DEF OpenInJournal
  <2>8. OpenInJournal \subseteq Trades
    BY DEF OpenInJournal
  <2> HIDE DEF shown, moved, x
  <2>9. ListsAgree(x, journal)
    BY <2>2, <2>4, <2>5, <2>6, <2>7, <2>8 DEF ListsAgree, ShownIn
  <2>10. WritesAgree(x)
    BY <2>2 DEF WritesAgree
  <2>11. ShownTradesKept(x, journal)
    <3>1. \A t \in Trades, l \in Levels : <<t, l>> \in x.current => t \in shown
      BY <2>4 DEF ShownIn
    <3>2. QED
      BY <2>2, <2>5, <2>7, <3>1 DEF ShownTradesKept
  <2>12. OtherTradesClosed(x, journal)
    BY <2>2, <2>4, <2>7 DEF OtherTradesClosed
  <2>13. OneLevelEach(x)
    BY <1>a, <2>2 DEF OneLevelEach
  <2>14. Diffing(work'[w], journal') /\ OneLevelEach(work'[w])
    BY <2>3, <2>9, <2>10, <2>11, <2>12, <2>13 DEF Diffing, x
  <2>15. QED
    BY <2>3, <2>14, ProgressStep
<1>7. ASSUME NEW w \in Workers, NEW t \in Trades, RecordOpened(w, t) PROVE Progress'
  <2> DEFINE x == work'[w]
  <2>1. work[w].pc = "diff" /\ t \in work[w].opens
        /\ \A v \in Runners \ {w} : work'[v] = work[v]
    BY <1>7 DEF RecordOpened
  <2>2. /\ ListsAgree(work[w], journal) /\ WritesAgree(work[w]) /\ OneLevelEach(work[w])
        /\ ShownTradesKept(work[w], journal) /\ OtherTradesClosed(work[w], journal)
    BY <1>a, <2>1 DEF Diffing
  <2>3. /\ x.current = work[w].current /\ x.opens = work[w].opens \ {t} /\ x.moves = work[w].moves
        /\ x.gone = work[w].gone /\ x.write = work[w].write /\ x.deferred = work[w].deferred
    BY <1>7 DEF RecordOpened, Works
  <2>4. ShownIn(work[w], t)
    BY <2>1, <2>2 DEF ListsAgree
  <2>5. Shown(w, t) \in Levels /\ <<t, Shown(w, t)>> \in work[w].current
    BY <2>4, ShownIsTheLevel
  <2>6. /\ journal'[t].state = "OPEN" /\ journal'[t].level = Shown(w, t)
        /\ \A u \in Trades \ {t} : journal'[u] = journal[u]
    BY <1>7 DEF RecordOpened, NoTrade
  <2>7. \A u : ShownIn(x, u) <=> ShownIn(work[w], u)
    BY <2>3 DEF ShownIn
  <2>8. \A u : Written(x, u) <=> Written(work[w], u)
    BY <2>3 DEF Written
  <2> HIDE DEF x
  <2>9. ListsAgree(x, journal')
    BY <1>b, <2>2, <2>3, <2>6, <2>7 DEF ListsAgree, Works
  <2>10. WritesAgree(x)
    BY <2>2, <2>3, <2>7 DEF WritesAgree
  <2>11. ShownTradesKept(x, journal')
    BY <2>2, <2>3, <2>5, <2>6, <2>8 DEF ShownTradesKept, OneLevelEach
  <2>12. OtherTradesClosed(x, journal')
    BY <2>2, <2>3, <2>4, <2>6, <2>7, <2>8 DEF OtherTradesClosed
  <2>13. OneLevelEach(x)
    BY <2>2, <2>3 DEF OneLevelEach
  <2>14. Diffing(work'[w], journal') /\ OneLevelEach(work'[w]) /\ Active(w)
    BY <2>1, <2>9, <2>10, <2>11, <2>12, <2>13 DEF Diffing, x, Active
  <2>15. QED
    BY <2>1, <2>14, ProgressStep
<1>8. ASSUME NEW w \in Workers, NEW t \in Trades, ReadModified(w, t) PROVE Progress'
  <2> DEFINE x   == work'[w]
             rec == [journal[t] EXCEPT !.level = Shown(w, t)]
             y   == [trade |-> t, closing |-> FALSE, rec |-> rec]
  <2>1. work[w].pc = "diff" /\ t \in work[w].moves /\ work[w].write = {}
        /\ \A v \in Runners \ {w} : work'[v] = work[v] /\ journal' = journal
    BY <1>8 DEF ReadModified
  <2>2. /\ ListsAgree(work[w], journal) /\ OneLevelEach(work[w])
        /\ ShownTradesKept(work[w], journal) /\ OtherTradesClosed(work[w], journal)
    BY <1>a, <2>1 DEF Diffing
  <2>3. /\ x.current = work[w].current /\ x.opens = work[w].opens /\ x.moves = work[w].moves \ {t}
        /\ x.gone = work[w].gone /\ x.write = {y} /\ x.deferred = work[w].deferred
    BY <1>8 DEF ReadModified, Works
  <2>4. ShownIn(work[w], t) /\ journal[t].state = "OPEN"
    BY <2>1, <2>2 DEF ListsAgree
  <2>5. Shown(w, t) \in Levels /\ <<t, Shown(w, t)>> \in work[w].current
    BY <2>4, ShownIsTheLevel
  <2>6. y.trade = t /\ ~y.closing /\ y.rec.state = "OPEN" /\ y.rec.level = Shown(w, t)
    BY <2>4 DEF Rows
  <2>7. \A u : ShownIn(x, u) <=> ShownIn(work[w], u)
    BY <2>3 DEF ShownIn
  <2> HIDE DEF x, y
  <2>8. \A u : (Written(work[w], u) => FALSE) /\ (Written(x, u) <=> u = t)
    BY <2>1, <2>3, <2>6 DEF Written
  <2>9. ListsAgree(x, journal)
    BY <2>2, <2>3, <2>7 DEF ListsAgree
  <2>10. WritesAgree(x)
    BY <2>3, <2>4, <2>5, <2>6, <2>7 DEF WritesAgree
  <2>11. ShownTradesKept(x, journal)
    BY <2>2, <2>3, <2>8 DEF ShownTradesKept
  <2>12. OtherTradesClosed(x, journal)
    BY <2>2, <2>3, <2>7, <2>8 DEF OtherTradesClosed
  <2>13. OneLevelEach(x)
    BY <2>2, <2>3 DEF OneLevelEach
  <2>14. journal' = journal
    BY <1>8 DEF ReadModified
  <2>15. Diffing(work'[w], journal') /\ OneLevelEach(work'[w])
    BY <2>9, <2>10, <2>11, <2>12, <2>13, <2>14 DEF Diffing, x
  <2>16. QED
    BY <2>1, <2>14, <2>15, ProgressStep
<1>9. ASSUME NEW w \in Workers, NEW t \in Trades, NEW evidence \in BOOLEAN,
             LookUpClosed(w, t, evidence)
      PROVE  Progress'
  <2> DEFINE x == work'[w]
  <2>1. /\ work[w].pc = "diff" /\ t \in work[w].gone /\ work[w].write = {} /\ journal' = journal
        /\ \A v \in Runners \ {w} : work'[v] = work[v]
    BY <1>9 DEF LookUpClosed
  <2>2. /\ ListsAgree(work[w], journal) /\ OneLevelEach(work[w])
        /\ ShownTradesKept(work[w], journal) /\ OtherTradesClosed(work[w], journal)
    BY <1>a, <2>1 DEF Diffing
  <2>3. /\ x.current = work[w].current /\ x.opens = work[w].opens /\ x.moves = work[w].moves
        /\ x.gone = work[w].gone \ {t} /\ x.deferred = work[w].deferred
    BY <1>9 DEF LookUpClosed, Works
  <2>4. PICK y : x.write = {y} /\ y.trade = t /\ y.rec.state = "CLOSED"
    <3>1. \A y \in x.write : y.trade = t /\ y.rec.state = "CLOSED"
      BY <1>9 DEF LookUpClosed, Works
    <3>2. \E y : x.write = {y}
      BY <1>9 DEF LookUpClosed, Works
    <3>3. QED
      BY <3>1, <3>2
  <2>5. \A u : ShownIn(x, u) <=> ShownIn(work[w], u)
    BY <2>3 DEF ShownIn
  <2> HIDE DEF x
  <2>6. ~ShownIn(x, t)
    BY <2>1, <2>2, <2>5 DEF ListsAgree
  <2>7. \A u : (Written(work[w], u) => FALSE) /\ (Written(x, u) <=> u = t)
    BY <2>1, <2>4 DEF Written
  <2>8. ListsAgree(x, journal)
    BY <2>2, <2>3, <2>5 DEF ListsAgree
  <2>9. WritesAgree(x)
    BY <2>4, <2>6 DEF WritesAgree
  <2>10. ShownTradesKept(x, journal)
    BY <2>2, <2>3, <2>7 DEF ShownTradesKept
  <2>11. OtherTradesClosed(x, journal)
    BY <2>2, <2>3, <2>5, <2>7 DEF OtherTradesClosed
  <2>12. OneLevelEach(x)
    BY <2>2, <2>3 DEF OneLevelEach
  <2>13. Diffing(work'[w], journal') /\ OneLevelEach(work'[w])
    BY <2>1, <2>8, <2>9, <2>10, <2>11, <2>12 DEF Diffing, x
  <2>14. QED
    BY <2>1, <2>13, ProgressStep
<1>10. ASSUME NEW w \in Workers, NEW t \in Trades, DeferClose(w, t) PROVE Progress'
  <2> DEFINE x == work'[w]
  <2>1. /\ work[w].pc = "diff" /\ journal' = journal
        /\ \A v \in Runners \ {w} : work'[v] = work[v]
    BY <1>10 DEF DeferClose
  <2>2. /\ ListsAgree(work[w], journal) /\ WritesAgree(work[w]) /\ OneLevelEach(work[w])
        /\ ShownTradesKept(work[w], journal)
    BY <1>a, <2>1 DEF Diffing
  <2>3. /\ x.current = work[w].current /\ x.opens = work[w].opens /\ x.moves = work[w].moves
        /\ x.gone \subseteq work[w].gone /\ x.write = work[w].write /\ x.deferred = TRUE
    BY <1>10 DEF DeferClose, Works
  <2>4. \A u : ShownIn(x, u) <=> ShownIn(work[w], u)
    BY <2>3 DEF ShownIn
  <2>5. \A u : Written(x, u) <=> Written(work[w], u)
    BY <2>3 DEF Written
  <2> HIDE DEF x
  <2>6. ListsAgree(x, journal)
    BY <2>2, <2>3, <2>4 DEF ListsAgree
  <2>7. WritesAgree(x)
    BY <2>2, <2>3, <2>4 DEF WritesAgree
  <2>8. ShownTradesKept(x, journal)
    BY <2>2, <2>3, <2>5 DEF ShownTradesKept
  <2>9. OtherTradesClosed(x, journal)
    BY <2>3 DEF OtherTradesClosed
  <2>10. OneLevelEach(x)
    BY <2>2, <2>3 DEF OneLevelEach
  <2>11. Diffing(work'[w], journal') /\ OneLevelEach(work'[w])
    BY <2>1, <2>6, <2>7, <2>8, <2>9, <2>10 DEF Diffing, x
  <2>12. QED
    BY <2>1, <2>11, ProgressStep
<1>11. ASSUME NEW r \in Runners, WriteTrade(r) PROVE Progress'
  <2> DEFINE x == work'[r]
  <2>1. PICK y \in work[r].write :
           /\ journal' = [journal EXCEPT ![y.trade] =
                            IF y.closing THEN [y.rec EXCEPT !.level = journal[y.trade].level]
                                         ELSE y.rec]
           /\ work' = [work EXCEPT ![r].write = {}]
    BY <1>11 DEF WriteTrade
  <2>2. y.trade \in Trades /\ y.rec \in Rows
    BY DEF Works, Writes
  <2>3. [y.rec EXCEPT !.level = journal[y.trade].level].state = y.rec.state
    BY <2>2 DEF Rows
  <2>4. /\ journal'[y.trade].state = y.rec.state
        /\ ~y.closing => journal'[y.trade].level = y.rec.level
        /\ \A u \in Trades \ {y.trade} : journal'[u] = journal[u]
    BY <2>1, <2>2, <2>3
  <2>5. /\ x.pc = work[r].pc /\ x.current = work[r].current /\ x.opens = work[r].opens
        /\ x.moves = work[r].moves /\ x.gone = work[r].gone /\ x.write = {}
        /\ x.deferred = work[r].deferred /\ \A v \in Runners \ {r} : work'[v] = work[v]
    BY <2>1 DEF Works
  <2>6. Active(r)
    <3>1. work[r].write # {}
      OBVIOUS
    <3>2. QED
      BY <3>1, BusyPhases
  <2> HIDE DEF x
  <2>7. OneLevelEach(x)
    BY <1>a, <2>5 DEF OneLevelEach
  <2>8. ASSUME work[r].pc = "diff" PROVE Diffing(x, journal')
    <3>1. /\ ListsAgree(work[r], journal) /\ WritesAgree(work[r]) /\ OneLevelEach(work[r])
          /\ ShownTradesKept(work[r], journal) /\ OtherTradesClosed(work[r], journal)
      BY <1>a, <2>8 DEF Diffing
    <3>2. \A u : ShownIn(x, u) <=> ShownIn(work[r], u)
      BY <2>5 DEF ShownIn
    <3>3. \A u : Written(work[r], u) <=> u = y.trade
      BY <3>1 DEF Written, WritesAgree
    <3>4. /\ ShownIn(x, y.trade) => /\ journal'[y.trade].state = "OPEN"
                                    /\ <<y.trade, journal'[y.trade].level>> \in work[r].current
                                    /\ journal'[y.trade].level = y.rec.level
          /\ ~ShownIn(x, y.trade) => journal'[y.trade].state = "CLOSED"
      BY <2>4, <3>1, <3>2 DEF WritesAgree
    <3>5. y.rec.level \in Levels
      BY <2>2 DEF Rows
    <3>6. ListsAgree(x, journal')
      BY <2>4, <2>5, <3>1, <3>2, <3>4 DEF ListsAgree, Works
    <3>7. WritesAgree(x)
      BY <2>5 DEF WritesAgree
    <3>8. ShownTradesKept(x, journal')
      <4>1. ASSUME NEW u \in Trades, NEW l \in Levels, <<u, l>> \in x.current, u \notin x.opens
            PROVE  journal'[u].state = "OPEN" /\ (journal'[u].level = l \/ u \in x.moves)
        <5>1. CASE u = y.trade
          BY <2>5, <3>1, <3>4, <3>5, <4>1, <5>1 DEF OneLevelEach, ShownIn
        <5>2. CASE u # y.trade
          BY <2>4, <2>5, <3>1, <3>3, <4>1, <5>2 DEF ShownTradesKept
        <5>3. QED
          BY <5>1, <5>2
      <4>2. QED
        BY <4>1 DEF ShownTradesKept
    <3>9. OtherTradesClosed(x, journal')
      BY <2>4, <2>5, <3>1, <3>2, <3>3, <3>4 DEF OtherTradesClosed
    <3>10. QED
      BY <3>6, <3>7, <3>8, <3>9 DEF Diffing
  <2>9. Diffing(work'[r], journal') /\ OneLevelEach(work'[r])
    BY <2>5, <2>7, <2>8 DEF Diffing, x
  <2>10. QED
    BY <2>5, <2>6, <2>9, ProgressStep
<1>12. ASSUME NEW r \in Runners, job[r].pc # "idle" PROVE work[r].pc # "diff"
  BY <1>12, BusyPhases
<1>13. ASSUME NEW r \in Runners, work[r].phase # "none" PROVE work[r].pc # "diff"
  BY <1>13, BusyPhases
<1>14. ASSUME NEW r \in Runners, NEW t \in Trades, ReadProjection(r, t) \/ ReadRepair(r, t)
       PROVE  Progress'
  <2>1. work[r].pc # "diff" /\ journal' = journal
    BY <1>14, <1>13 DEF ReadProjection, ReadRepair
  <2>2. /\ work'[r].current = work[r].current /\ work'[r].pc = work[r].pc
        /\ \A v \in Runners \ {r} : work'[v] = work[v]
    BY <1>14 DEF ReadProjection, ReadRepair, Works
  <2>3. QED
    BY <2>1, <2>2, ProgressElsewhere
<1>15. ASSUME NEW r \in Runners, FinishProjection(r) \/ FailHistory(r) PROVE Progress'
  BY <1>15, <1>2 DEF FinishProjection, FailHistory
<1>16. ASSUME NEW w \in Workers, EndPoll(w) \/ FailPoll(w) PROVE Progress'
  BY <1>16, <1>2 DEF EndPoll, FailPoll
<1>17. ASSUME NEW r \in Runners, ProjectionStep(r) PROVE Progress'
  <2>1. CASE PersistEvents(r) \/ ListRepairs(r)
    <3>1. work[r].pc # "diff" /\ journal' = journal
      BY <2>1, <1>12, <1>13 DEF PersistEvents, History!PersistEvents, ListRepairs
    <3>2. /\ work'[r].current = work[r].current /\ work'[r].pc = work[r].pc
          /\ \A v \in Runners \ {r} : work'[v] = work[v]
      BY <2>1 DEF PersistEvents, ListRepairs, Works
    <3>3. QED
      BY <3>1, <3>2, ProgressElsewhere
  <2>2. QED
    BY <1>17, <2>1, <1>11, <1>14, <1>15 DEF ProjectionStep
<1>18. ASSUME NEW w \in Workers, PollStep(w) PROVE Progress'
  BY <1>18, <1>5, <1>6, <1>7, <1>8, <1>9, <1>16 DEF PollStep
<1>19. ASSUME NEW tx \in Transactions, BrokerFill(tx) PROVE Progress'
  BY <1>19, <1>1 DEF BrokerFill
<1>20. ASSUME NEW t \in Trades, NEW l \in Levels, BrokerMovesLevel(t, l) PROVE Progress'
  BY <1>20, <1>1 DEF BrokerMovesLevel
<1>21. CASE OpenServer \/ CloseServer
  BY <1>21, <1>1 DEF OpenServer, CloseServer, Aside
<1>22. ASSUME NEW w \in Workers, BeginSync(w) \/ PipelineStep(w) PROVE Progress'
  BY <1>22, <1>1 DEF BeginSync, PipelineStep, Aside
<1>23. ASSUME NEW first \in 1 .. MaxLog, NEW last \in 1 .. MaxLog, BeginBackfill(first, last)
       PROVE  Progress'
  BY <1>23, <1>1 DEF BeginBackfill, Aside
<1>24. CASE BackfillPipelineStep
  BY <1>24, <1>1 DEF BackfillPipelineStep, Aside
<1>25. CASE UNCHANGED vars
  BY <1>25, <1>1 DEF vars
<1>26. QED
  BY <1>3, <1>4, <1>9, <1>10, <1>15, <1>16, <1>17, <1>18, <1>19, <1>20, <1>21, <1>22, <1>23, <1>24, <1>25
     DEF Next, Step, Faulty

-----------------------------------------------------------------------------
(* The results.                                                            *)

JournalInv == Typed /\ Locking /\ Evidence /\ Progress

LEMMA JournalInvariant == ASSUME Serialised PROVE Spec => []JournalInv
<1>1. Init => JournalInv
  BY InitTyped, InitLocking, InitEvidence, InitProgress, LevelsType DEF JournalInv
<1>2. JournalInv /\ [Next]_vars => JournalInv'
  BY PipelineInductive, JournalInductive, LockInductive, EvidenceInductive, ProgressInductive,
     LevelsType
     DEF JournalInv, Typed
<1>3. QED
  BY <1>1, <1>2, PTL DEF Spec

(* A trade the journal shows as closed is closed at the broker, although   *)
(* a poll compares an answer it got earlier with a journal it reads later  *)
(* (JournalService.sync_open_trades), and a projection may run on stored   *)
(* events that stop anywhere: no trade is booked as closed too early.      *)
THEOREM ClosedMeansClosed ==
  ASSUME Serialised PROVE Spec => []ClosedOnlyIfClosedAtBroker
<1>1. JournalInv => ClosedOnlyIfClosedAtBroker
  BY LegsFound DEF JournalInv, Evidence, JournalBacked, Backed, Closed, ClosedOnlyIfClosedAtBroker
<1>2. QED
  BY <1>1, JournalInvariant, PTL

(* Of two calls under way at the same time, both run in the server process *)
(* and at least one is a read that syncs without the runtime lock: polls   *)
(* and locked syncs exclude each other (run_blocking with write=True) and  *)
(* a backfill excludes the server (the lock file), whatever unlocked reads *)
(* run beside them, and whatever fails or crashes.                         *)
OnlyUnlockedOverlap ==
  \A r, v \in Runners : Active(r) /\ Active(v) /\ r # v =>
     {r, v} \subseteq Workers /\ {r, v} \cap UnlockedReaders # {}

(* So it is for any runners, fills, reads, windows and bounds.             *)
THEOREM JournalWritersExclude == Spec => []OnlyUnlockedOverlap
<1>1. Init => Typed /\ Locking
  BY InitTyped, InitLocking, LevelsType
<1>2. Typed /\ Locking /\ [Next]_vars => Typed' /\ Locking'
  BY PipelineInductive, JournalInductive, LockInductive, LevelsType DEF Typed
<1>3. Locking => OnlyUnlockedOverlap
  <2> SUFFICES ASSUME Locking, NEW r \in Runners, NEW v \in Runners, Active(r), Active(v), r # v
               PROVE  {r, v} \subseteq Workers /\ {r, v} \cap UnlockedReaders # {}
    BY DEF OnlyUnlockedOverlap
  <2>1. r \in Workers /\ v \in Workers
    BY DEF Locking, Exclusive, Runners
  <2>2. r \in UnlockedReaders \/ v \in UnlockedReaders
    BY <2>1 DEF Locking, Exclusive
  <2>3. QED
    BY <2>1, <2>2
<1>4. QED
  BY <1>1, <1>2, <1>3, PTL DEF Spec

(* A poll that runs to its end without deferring a close leaves the        *)
(* journal's open trades equal to the answer it started from, levels       *)
(* included, although it writes them one upsert at a time.                 *)
THEOREM PollsReconcile ==
  ASSUME Serialised PROVE Spec => PollReconciles
<1>1. ASSUME JournalInv, NEW w \in Workers, PollDone(w), ~work[w].deferred
      PROVE  {<<t, journal[t].level>> : t \in OpenInJournal} = work[w].current
  <2> DEFINE x == work[w]
  <2>1. /\ x.opens = {} /\ x.moves = {} /\ x.gone = {} /\ x.write = {} /\ ~x.deferred
        /\ w \in Runners
    BY <1>1 DEF PollDone, Runners
  <2>2. /\ OneLevelEach(x) /\ ShownTradesKept(x, journal) /\ OtherTradesClosed(x, journal)
    BY <1>1, <2>1 DEF JournalInv, Progress, Diffing, PollDone
  <2>3. x.current \subseteq Trades \X Levels /\ journal \in [Trades -> Rows]
    BY <1>1, <2>1 DEF JournalInv, Typed, JournalTyped, Works
  <2> HIDE DEF x
  <2>4. \A u : ~Written(x, u)
    BY <2>1 DEF Written
  <2>5. \A t \in Trades, l \in Levels : <<t, l>> \in x.current =>
            journal[t].state = "OPEN" /\ journal[t].level = l
    BY <2>1, <2>2, <2>4 DEF ShownTradesKept
  <2>6. \A t \in Trades : journal[t].state = "OPEN" => ShownIn(x, t)
    BY <2>1, <2>2, <2>4 DEF OtherTradesClosed
  <2>7. ASSUME NEW t \in OpenInJournal PROVE <<t, journal[t].level>> \in x.current
    <3>1. t \in Trades /\ journal[t].state = "OPEN"
      BY DEF OpenInJournal
    <3>2. PICK l \in Levels : <<t, l>> \in x.current
      BY <2>6, <3>1 DEF ShownIn
    <3>3. QED
      BY <2>5, <3>1, <3>2
  <2>8. ASSUME NEW c \in x.current PROVE \E t \in OpenInJournal : c = <<t, journal[t].level>>
    <3>1. PICK t \in Trades, l \in Levels : c = <<t, l>>
      BY <2>3
    <3>2. t \in OpenInJournal /\ journal[t].level = l
      BY <2>5, <3>1 DEF OpenInJournal
    <3>3. QED
      BY <3>1, <3>2
  <2>9. QED
    BY <2>7, <2>8 DEF x
<1>2. JournalInv => \A w \in Workers :
         (PollDone(w) /\ ~work[w].deferred /\ work'[w].pc = "idle" /\ faults' = faults)
         => {<<t, journal[t].level>> : t \in OpenInJournal} = work[w].current
  BY <1>1
<1>3. QED
  BY <1>2, JournalInvariant, PTL DEF PollReconciles
-----------------------------------------------------------------------------
(* The stored legs of a trade.                                             *)

(* A set of whole numbers with an upper bound has a greatest member.       *)
LEMMA BoundedHasGreatest ==
    ASSUME NEW hi \in Int, NEW S, S \subseteq Int, S # {}, \A x \in S : x <= hi
    PROVE  \E x \in S : \A y \in S : y <= x
<1> DEFINE Up(x) == x .. hi
           Ups == {Up(x) : x \in S}
           R == StrictSubsetOrdering(Int)
           F == FiniteSubsetsOf(Int)
<1>1. IsWellFoundedOn(R, F)
  BY FS_StrictSubsetOrderingWellFounded
<1>2. Ups \subseteq F /\ Ups # {}
  <2>1. \A x \in S : x \in Int /\ IsFiniteSet(Up(x))
    BY FS_Interval
  <2>2. \A x \in S : Up(x) \in F
    BY <2>1 DEF FiniteSubsetsOf
  <2> QED BY <2>2
<1>3. PICK m \in Ups : \A u \in Ups : <<u, m>> \notin R
  <2> HIDE DEF R, F, Ups
  <2> QED BY <1>1, <1>2, WFMin
<1>4. PICK x \in S : m = Up(x)
  OBVIOUS
<1>5. ASSUME NEW y \in S PROVE y <= x
  <2>1. SUFFICES ASSUME y > x PROVE FALSE
    OBVIOUS
  <2>2. x \in Up(x) /\ x \notin Up(y) /\ Up(y) \subseteq Up(x)
    BY <2>1
  <2>3. <<Up(y), Up(x)>> \in R
    BY <2>2, <1>2 DEF StrictSubsetOrdering
  <2> QED BY <2>3, <1>3, <1>4
<1> QED BY <1>5

(* The row infer_close_reason reads is a stored one.                       *)
Final(t) ==
    CHOOSE row \in StoredClosing(t) : \A other \in StoredClosing(t) : other[1] <= row[1]

LEMMA FinalIsStored ==
  ASSUME PipelineTyped, NEW t, StoredClosing(t) # {}
  PROVE  Final(t) \in StoredClosing(t)
<1> DEFINE ids == {row[1] : row \in StoredClosing(t)}
<1>1. StoredClosing(t) \subseteq events
  BY DEF StoredClosing, RowsFor
<1>2. \A row \in StoredClosing(t) : row[1] \in 1 .. Len(log)
  BY <1>1 DEF PipelineTyped
<1>3. Len(log) \in Int /\ ids \subseteq Int /\ ids # {} /\ \A i \in ids : i <= Len(log)
  BY <1>2 DEF PipelineTyped
<1>4. \E i \in ids : \A k \in ids : k <= i
  <2> HIDE DEF ids
  <2> QED BY <1>3, BoundedHasGreatest
<1>5. \E row \in StoredClosing(t) : \A other \in StoredClosing(t) : other[1] <= row[1]
  BY <1>4
<1>6. QED
  BY <1>5 DEF Final

LEMMA ReasonOfFinal ==
  \A t : FinalReason(t) = IF LegOf(Final(t)).cause = "MIT" THEN "MIT" ELSE "MANUAL"
BY DEF FinalReason, Final

(* What the stored events tell does not change with the broker's log, only *)
(* with the events.                                                        *)
LEMMA StoredLegsKept ==
  ASSUME Serialised, PipelineTyped, NEW tx \in Transactions, BrokerFill(tx)
  PROVE  /\ \A row \in events : LegOf(row)' = LegOf(row)
         /\ \A t : RowsFor(t)' = RowsFor(t) /\ StoredClosing(t)' = StoredClosing(t)
         /\ \A t : StoredClosing(t) # {} => FinalReason(t)' = FinalReason(t)
<1>1. events' = events /\ \A i \in 1 .. Len(log) : log'[i] = log[i]
  BY LogGrows DEF BrokerFill, History!BrokerCommit
<1>2. \A row \in events : LegOf(row)' = LegOf(row)
  BY <1>1 DEF LegOf, PipelineTyped
<1>3. ASSUME NEW t PROVE RowsFor(t)' = RowsFor(t)
  BY <1>1, <1>2 DEF RowsFor
<1>4. ASSUME NEW t PROVE StoredClosing(t)' = StoredClosing(t)
  <2>1. RowsFor(t)' = RowsFor(t) /\ RowsFor(t) \subseteq events
    BY <1>3 DEF RowsFor
  <2>2. QED
    BY <2>1, <1>2 DEF StoredClosing
<1>5. ASSUME NEW t, StoredClosing(t) # {} PROVE FinalReason(t)' = FinalReason(t)
  <2>1. Final(t)' = Final(t)
    BY <1>4 DEF Final
  <2>2. Final(t) \in events
    BY <1>5, FinalIsStored DEF StoredClosing, RowsFor
  <2>3. LegOf(Final(t))' = LegOf(Final(t))
    BY <2>1, <2>2, <1>1 DEF LegOf, PipelineTyped
  <2>4. FinalReason(t)' = IF LegOf(Final(t))'.cause = "MIT" THEN "MIT" ELSE "MANUAL"
    BY DEF FinalReason, Final
  <2>5. QED
    BY <2>3, <2>4, ReasonOfFinal
<1>6. QED
  BY <1>2, <1>3, <1>4, <1>5

-----------------------------------------------------------------------------
(* Repairs: the manual closes whose stored events say market-if-touched.   *)

ManualClose(rec) == rec.state = "CLOSED" /\ rec.reason = "MANUAL"

Due == {t \in Trades : ManualClose(journal[t]) /\ StoredClosing(t) # {} /\ FinalReason(t) = "MIT"}

(* While a repair runs, every due one is on its list or about to be        *)
(* written, and no write books a manual close; a sync that has only its    *)
(* watermark left to write has nothing due.                                *)
CallRepairs(x, pc, due) ==
    /\ x.phase = "repair" =>
          /\ \A y \in x.write : ~y.closing /\ ~ManualClose(y.rec)
          /\ \A y, z \in x.write : y.trade = z.trade
          /\ \A t \in due : t \in x.repair \/ \E y \in x.write : y.trade = t
    /\ pc = "advance" => due = {}

Repairing == \A r \in Runners : CallRepairs(work[r], job[r].pc, Due)

LEMMA FewerDue ==
  \A x, pc, due, fewer : CallRepairs(x, pc, due) /\ fewer \subseteq due => CallRepairs(x, pc, fewer)
BY DEF CallRepairs

LEMMA RestRepairs == \A x, pc, due : x.phase # "repair" /\ pc # "advance" => CallRepairs(x, pc, due)
BY DEF CallRepairs

LEMMA InitRepairing == Init => Repairing
BY DEF Init, Rest, History!Init, History!Idle, History!Runners, Runners, Repairing, CallRepairs

(* A step of one call; it makes repairs due only if it is at work.         *)
LEMMA RepairStep ==
  ASSUME Serialised, Locking, Repairing, NEW r \in Runners, OthersIdleBy(r),
         Active(r) \/ Due' \subseteq Due, CallRepairs(work'[r], job'[r].pc, Due')
  PROVE  Repairing'
<1>1. ASSUME NEW v \in Runners, v # r PROVE CallRepairs(work'[v], job'[v].pc, Due')
  <2>1. work'[v] = work[v] /\ job'[v] = job[v] /\ CallRepairs(work[v], job[v].pc, Due)
    BY <1>1 DEF OthersIdleBy, Repairing
  <2>2. CASE Due' \subseteq Due
    BY <2>1, <2>2, FewerDue
  <2>3. CASE Active(r)
    <3>1. ~Active(v)
      BY <1>1, <2>3, OthersWait
    <3>2. work[v].phase # "repair" /\ job[v].pc # "advance"
      BY <3>1, BusyPhases DEF Active
    <3>3. QED
      BY <2>1, <3>2, RestRepairs
  <2>4. QED
    BY <2>2, <2>3
<1>2. QED
  BY <1>1 DEF Repairing

(* A projection never books a manual close against its own events.         *)
LEMMA RepairsWrite ==
  ASSUME JournalTyped, NEW t \in Trades, FinalReason(t) = "MIT"
  PROVE  /\ \A y \in Projection(t) : y.trade = t /\ ~y.closing /\ ~ManualClose(y.rec)
         /\ journal[t].state # "ABSENT" /\ StoredClosing(t) # {} => \E y \in Projection(t) : y.trade = t
<1> DEFINE types == {LegOf(row).type : row \in RowsFor(t)}
           closed == [state |-> "CLOSED", level |-> journal[t].level, reason |-> FinalReason(t),
                      pnl |-> {row[1] : row \in StoredClosing(t)}]
           open   == [NoTrade EXCEPT !.state = "OPEN", !.level = journal[t].level]
           rec    == IF "CLOSE" \in types THEN closed ELSE open
           none   == RowsFor(t) = {} \/ (journal[t].state = "ABSENT" /\ "OPEN" \notin types)
<1>1. Projection(t) = IF none THEN {} ELSE {[trade |-> t, closing |-> FALSE, rec |-> rec]}
  BY Zenon DEF Projection
<1>2. ~ManualClose(closed) /\ ~ManualClose(open)
  BY DEF ManualClose, NoTrade
<1>3. ~ManualClose(rec)
  BY <1>2
<1>4. journal[t].state # "ABSENT" /\ StoredClosing(t) # {} => ~none
  BY DEF StoredClosing
<1> HIDE DEF rec, none
<1> DEFINE y == [trade |-> t, closing |-> FALSE, rec |-> rec]
<1>5. y.trade = t /\ y.closing = FALSE /\ y.rec = rec
  OBVIOUS
<1>6. Projection(t) \subseteq {y} /\ (~none => y \in Projection(t))
  BY <1>1
<1> HIDE DEF y
<1>7. QED
  BY <1>3, <1>4, <1>5, <1>6

LEMMA RepairInductive ==
  ASSUME Serialised, Typed, Locking, Repairing, [Next]_vars
  PROVE  Repairing'
<1> PipelineTyped /\ JournalTyped /\ work \in [Runners -> Works] /\ journal \in [Trades -> Rows]
    /\ job \in [Runners -> History!Jobs]
  BY DEF Typed, PipelineTyped, JournalTyped
<1> Cli \in Runners /\ Workers \subseteq Runners
  BY DEF Runners
<1>a. \A r \in Runners : CallRepairs(work[r], job[r].pc, Due)
  BY DEF Repairing
<1>1. ASSUME UNCHANGED <<log, events, journal>> PROVE Due' = Due
  BY <1>1 DEF Due, StoredClosing, RowsFor, LegOf, FinalReason
<1>2. ASSUME UNCHANGED <<log, events, journal, work, job>> PROVE Repairing'
  BY <1>1, <1>2, <1>a DEF Repairing
<1>3. ASSUME NEW tx \in Transactions, BrokerFill(tx) PROVE Repairing'
  <2>1. UNCHANGED <<journal, work, job>>
    BY <1>3 DEF BrokerFill, History!BrokerCommit
  <2>2. Due' = Due
    BY <1>3, <2>1, StoredLegsKept DEF Due
  <2>3. QED
    BY <1>a, <2>1, <2>2 DEF Repairing
<1>4. CASE Crash
  <2>1. \A r \in Runners : work'[r] = Rest /\ job'[r] = History!Idle
    BY <1>4 DEF Crash, History!Crash, History!Runners, Runners
  <2>2. Rest.phase # "repair" /\ History!Idle.pc # "advance"
    BY DEF Rest, History!Idle
  <2> HIDE DEF History!Idle
  <2>3. QED
    BY <2>1, <2>2, RestRepairs DEF Repairing
(* A step after which the call is neither repairing nor advancing.         *)
<1>5. ASSUME NEW r \in Runners, OthersIdleBy(r), Active(r) \/ UNCHANGED <<log, events, journal>>,
             work'[r].phase # "repair", job'[r].pc # "advance"
      PROVE  Repairing'
  <2>1. CallRepairs(work'[r], job'[r].pc, Due')
    BY <1>5, RestRepairs
  <2>2. QED
    BY <1>1, <1>5, <2>1, RepairStep
(* A step of a poll.                                                       *)
<1>6. ASSUME NEW w \in Workers, job' = job, \A v \in Runners \ {w} : work'[v] = work[v],
             work[w].pc # "idle", work'[w].phase \in {work[w].phase, "none"}
      PROVE  Repairing'
  <2>1. Active(w) /\ OthersIdleBy(w) /\ work'[w].phase # "repair" /\ job'[w].pc # "advance"
    BY <1>6, BusyPhases DEF Active, OthersIdleBy
  <2>2. QED
    BY <2>1, <1>5
<1>7. ASSUME NEW w \in Workers, BeginPoll(w) PROVE Repairing'
  <2>1. work[w].phase = "none" /\ job[w].pc = "idle"
    BY <1>7, BusyPhases DEF BeginPoll
  <2>2. UNCHANGED <<log, events, journal, job>> /\ work'[w].phase = work[w].phase
        /\ \A v \in Runners \ {w} : work'[v] = work[v]
    BY <1>7 DEF BeginPoll, Works
  <2>3. QED
    BY <2>1, <2>2, <1>5 DEF OthersIdleBy
<1>8. ASSUME NEW w \in Workers, FetchOpenTrades(w) \/ ListOpenTrades(w) PROVE Repairing'
  <2>1. work[w].pc # "idle" /\ job' = job
    BY <1>8 DEF FetchOpenTrades, ListOpenTrades, pipelineVars
  <2>2. work'[w].phase = work[w].phase /\ \A v \in Runners \ {w} : work'[v] = work[v]
    <3>1. ASSUME NEW current, work' = [work EXCEPT ![w].pc = "list", ![w].current = current]
          PROVE  work'[w].phase = work[w].phase /\ \A v \in Runners \ {w} : work'[v] = work[v]
      BY <3>1 DEF Works
    <3>2. ASSUME NEW opens, NEW moves, NEW gone,
                 work' = [work EXCEPT ![w].pc = "diff", ![w].opens = opens, ![w].moves = moves,
                                      ![w].gone = gone]
          PROVE  work'[w].phase = work[w].phase /\ \A v \in Runners \ {w} : work'[v] = work[v]
      BY <3>2 DEF Works
    <3>3. CASE FetchOpenTrades(w)
      BY <3>1, <3>3 DEF FetchOpenTrades
    <3>4. CASE ListOpenTrades(w)
      BY <3>2, <3>4 DEF ListOpenTrades
    <3>5. QED
      BY <1>8, <3>3, <3>4
  <2>3. QED
    BY <2>1, <2>2, <1>6
<1>9. ASSUME NEW w \in Workers, EndPoll(w) \/ FailPoll(w) PROVE Repairing'
  <2>1. work[w].pc # "idle" /\ job' = job /\ work' = [work EXCEPT ![w] = Rest]
    BY <1>9 DEF EndPoll, FailPoll, PollDone
  <2>2. work'[w].phase = "none" /\ \A v \in Runners \ {w} : work'[v] = work[v]
    BY <2>1 DEF Rest
  <2>3. QED
    BY <2>1, <2>2, <1>6
<1>10. ASSUME NEW w \in Workers, NEW t \in Trades, NEW evidence \in BOOLEAN,
              RecordOpened(w, t) \/ ReadModified(w, t) \/ LookUpClosed(w, t, evidence) \/ DeferClose(w, t)
       PROVE  Repairing'
  <2>1. work[w].pc # "idle" /\ job' = job
    BY <1>10 DEF RecordOpened, ReadModified, LookUpClosed, DeferClose, pipelineVars
  <2>2. work'[w].phase = work[w].phase /\ \A v \in Runners \ {w} : work'[v] = work[v]
    <3>1. CASE RecordOpened(w, t)
      BY <3>1 DEF RecordOpened, Works
    <3>2. CASE ReadModified(w, t)
      BY <3>2 DEF ReadModified, Works
    <3>3. CASE LookUpClosed(w, t, evidence)
      BY <3>3 DEF LookUpClosed, Works
    <3>4. CASE DeferClose(w, t)
      BY <3>4 DEF DeferClose, Works
    <3>5. QED
      BY <1>10, <3>1, <3>2, <3>3, <3>4
  <2>3. QED
    BY <2>1, <2>2, <1>6
<1>11. ASSUME NEW r \in Runners, WriteTrade(r) PROVE Repairing'
  <2>1. PICK y \in work[r].write :
           /\ journal' = [journal EXCEPT ![y.trade] =
                            IF y.closing THEN [y.rec EXCEPT !.level = journal[y.trade].level]
                                         ELSE y.rec]
           /\ work' = [work EXCEPT ![r].write = {}]
           /\ UNCHANGED <<pipelineVars, level>>
    BY <1>11 DEF WriteTrade
  <2>2. y.trade \in Trades /\ UNCHANGED <<log, events, job>>
    BY <2>1 DEF Works, Writes, pipelineVars
  <2>3. work'[r].phase = work[r].phase /\ work'[r].repair = work[r].repair /\ work'[r].write = {}
        /\ OthersIdleBy(r)
    BY <2>1, <2>2 DEF Works, OthersIdleBy
  <2>4. work[r].write # {}
    BY <2>1
  <2>5. Active(r) /\ job'[r].pc # "advance"
    BY <2>2, <2>4, BusyPhases
  <2>6. CASE work[r].phase # "repair"
    BY <2>3, <2>5, <2>6, <1>5
  <2>7. CASE work[r].phase = "repair"
    <3>1. ~y.closing /\ ~ManualClose(y.rec)
      BY <1>a, <2>7 DEF CallRepairs
    <3>2. journal'[y.trade] = y.rec /\ \A t \in Trades \ {y.trade} : journal'[t] = journal[t]
      BY <2>1, <2>2, <3>1
    <3>3. Due' \subseteq Due \ {y.trade}
      BY <2>2, <3>1, <3>2 DEF Due, StoredClosing, RowsFor, LegOf, FinalReason
    <3>4. \A t \in Due : t \in work[r].repair \/ t = y.trade
      BY <1>a, <2>7 DEF CallRepairs
    <3>5. CallRepairs(work'[r], job'[r].pc, Due')
      BY <2>3, <2>5, <3>3, <3>4 DEF CallRepairs
    <3>6. QED
      BY <2>3, <2>5, <3>5, RepairStep
  <2>8. QED
    BY <2>6, <2>7
<1>12. ASSUME NEW r \in Runners, ListRepairs(r) PROVE Repairing'
  <2> DEFINE closed == {t \in Trades : journal[t].state = "CLOSED" /\ journal[t].reason = "MANUAL"}
  <2>1. work[r].phase = "project" /\ work[r].write = {} /\ UNCHANGED <<log, events, journal, job>>
    BY <1>12 DEF ListRepairs, pipelineVars
  <2>2. work'[r].repair = closed /\ work'[r].write = {} /\ OthersIdleBy(r)
    BY <1>12, <2>1 DEF ListRepairs, Works, OthersIdleBy
  <2>3. Active(r) /\ job[r].pc # "advance"
    BY <2>1, BusyPhases
  <2>4. Due \subseteq closed
    BY DEF Due, ManualClose
  <2> HIDE DEF closed
  <2>5. Due' = Due
    BY <1>1, <2>1
  <2>6. CallRepairs(work'[r], job'[r].pc, Due')
    BY <2>1, <2>2, <2>3, <2>4, <2>5 DEF CallRepairs
  <2>7. QED
    BY <2>2, <2>3, <2>6, RepairStep
<1>13. ASSUME NEW r \in Runners, NEW t \in Trades, ReadProjection(r, t) PROVE Repairing'
  <2>1. work[r].phase = "project" /\ UNCHANGED <<log, events, journal, job>>
    BY <1>13 DEF ReadProjection, pipelineVars
  <2>2. work'[r].phase = work[r].phase /\ OthersIdleBy(r)
    BY <1>13, <2>1 DEF ReadProjection, Works, OthersIdleBy
  <2>3. Active(r) /\ job[r].pc # "advance"
    BY <2>1, BusyPhases
  <2>4. QED
    BY <2>1, <2>2, <2>3, <1>5
<1>14. ASSUME NEW r \in Runners, NEW t \in Trades, ReadRepair(r, t) PROVE Repairing'
  <2> DEFINE told == StoredClosing(t) # {} /\ FinalReason(t) = "MIT"
             ws   == IF told THEN Projection(t) ELSE {}
  <2>1. work[r].phase = "repair" /\ work[r].write = {} /\ UNCHANGED <<log, events, journal, job>>
    BY <1>14 DEF ReadRepair, pipelineVars
  <2>2. /\ work'[r].phase = "repair" /\ work'[r].repair = work[r].repair \ {t} /\ work'[r].write = ws
        /\ OthersIdleBy(r)
    BY <1>14, <2>1 DEF ReadRepair, Works, OthersIdleBy
  <2>3. Active(r) /\ job[r].pc # "advance"
    BY <2>1, BusyPhases
  <2>4. Due' = Due
    BY <1>1, <2>1
  <2>5. t \in Due => told /\ journal[t].state # "ABSENT"
    BY DEF Due, ManualClose
  <2>6. told => /\ \A y \in Projection(t) : y.trade = t /\ ~y.closing /\ ~ManualClose(y.rec)
                /\ journal[t].state # "ABSENT" => \E y \in Projection(t) : y.trade = t
    BY RepairsWrite
  <2>7. \A y \in ws : y.trade = t /\ ~y.closing /\ ~ManualClose(y.rec)
    BY <2>6
  <2>8. t \in Due => \E y \in ws : y.trade = t
    BY <2>5, <2>6
  <2>9. \A u \in Due : u \in work[r].repair
    BY <1>a, <2>1 DEF CallRepairs
  <2> HIDE DEF ws, told
  <2>10. CallRepairs(work'[r], job'[r].pc, Due')
    BY <2>1, <2>2, <2>3, <2>4, <2>7, <2>8, <2>9 DEF CallRepairs
  <2>11. QED
    BY <2>2, <2>3, <2>10, RepairStep
<1>15. ASSUME NEW r \in Runners, FinishProjection(r) PROVE Repairing'
  <2>1. work[r].phase = "repair" /\ work[r].repair = {} /\ work[r].write = {}
        /\ UNCHANGED <<log, events, journal>>
    BY <1>15 DEF FinishProjection, History!FinishProjection
  <2>2. work'[r] = Rest /\ OthersIdleBy(r)
    BY <1>15 DEF FinishProjection, History!FinishProjection, History!Goto, OthersIdleBy
  <2>3. Active(r) /\ Due' = Due /\ Due = {}
    BY <1>1, <1>a, <2>1, BusyPhases DEF CallRepairs
  <2>4. CallRepairs(work'[r], job'[r].pc, Due')
    BY <2>2, <2>3 DEF CallRepairs, Rest
  <2>5. QED
    BY <2>2, <2>3, <2>4, RepairStep
<1>16. ASSUME NEW r \in Runners, PersistEvents(r) PROVE Repairing'
  <2>1. job[r].pc = "events" /\ History!Goto(r, "project")
    BY <1>16 DEF PersistEvents, History!PersistEvents
  <2>2. work'[r].phase = "project" /\ job'[r].pc = "project" /\ OthersIdleBy(r)
    BY <1>16, <2>1 DEF PersistEvents, History!Goto, OthersIdleBy, Works, History!Jobs
  <2>3. Active(r)
    BY <2>1 DEF Active
  <2>4. QED
    BY <2>2, <2>3, <1>5
<1>17. ASSUME NEW r \in Runners, FailHistory(r) PROVE Repairing'
  <2>1. job[r].pc # "idle" /\ work' = [work EXCEPT ![r] = Rest]
        /\ job' = [job EXCEPT ![r] = History!Idle]
    BY <1>17 DEF FailHistory, History!Fail, History!EndCall
  <2>2. Rest.phase = "none" /\ History!Idle.pc = "idle"
    BY DEF Rest, History!Idle
  <2> HIDE DEF History!Idle
  <2>3. work'[r] = Rest /\ job'[r] = History!Idle /\ OthersIdleBy(r) /\ Active(r)
    BY <2>1 DEF OthersIdleBy, Active
  <2>4. QED
    BY <2>2, <2>3, <1>5
(* A step of the pipeline aside from the trades and the events.            *)
<1>18. ASSUME NEW r \in Runners, work' = work, UNCHANGED <<log, events, journal>>,
              \A v \in Runners \ {r} : job'[v] = job[v], job[r].pc # "project", job'[r].pc # "advance"
       PROVE  Repairing'
  <2>1. work'[r].phase # "repair" /\ OthersIdleBy(r)
    BY <1>18, BusyPhases DEF OthersIdleBy
  <2>2. QED
    BY <1>18, <2>1, <1>5
<1>19. ASSUME NEW w \in Workers, BeginSync(w) PROVE Repairing'
  <2>1. PICK j : job' = [job EXCEPT ![w] = j] /\ j.pc # "advance"
    <3>1. PICK seen \in History!ReadWatermark :
             job' = [job EXCEPT ![w] = IF seen = History!NoWatermark
                                         THEN [History!Idle EXCEPT !.pc = "details"]
                                         ELSE [History!Idle EXCEPT !.pc = "fetch", !.from = seen]]
      BY <1>19 DEF BeginSync, History!BeginSync
    <3>2. [History!Idle EXCEPT !.pc = "details"].pc = "details"
          /\ [History!Idle EXCEPT !.pc = "fetch", !.from = seen].pc = "fetch"
      BY DEF History!Idle
    <3>3. QED
      BY <3>1, <3>2
  <2>2. work' = work /\ UNCHANGED <<log, events, journal>> /\ job[w].pc = "idle"
    BY <1>19 DEF BeginSync, History!BeginSync, Aside
  <2>3. QED
    BY <2>1, <2>2, <1>18
<1>20. ASSUME NEW w \in Workers, PipelineStep(w) PROVE Repairing'
  <2>1. work' = work /\ UNCHANGED <<log, events, journal>> /\ job[w].pc # "project"
    BY <1>20 DEF PipelineStep, Aside, History!FetchDetails, History!InitialiseWatermark,
                 History!FetchSince, History!PersistRaw, History!AdvanceSync
  <2>2. job'[w].pc # "advance" /\ \A v \in Runners \ {w} : job'[v] = job[v]
    BY <1>20 DEF PipelineStep, History!FetchDetails, History!InitialiseWatermark, History!FetchSince,
                 History!PersistRaw, History!AdvanceSync, History!Goto, History!EndCall, History!Idle,
                 History!Jobs
  <2>3. QED
    BY <2>1, <2>2, <1>18
<1>21. CASE BackfillPipelineStep
  <2>1. work' = work /\ UNCHANGED <<log, events, journal>> /\ job[Cli].pc # "project"
    BY <1>21 DEF BackfillPipelineStep, Aside, History!FetchChunk, History!PersistRaw,
                 History!AdvanceBackfill
  <2>2. job'[Cli].pc # "advance" /\ \A v \in Runners \ {Cli} : job'[v] = job[v]
    <3>1. ASSUME NEW from, NEW end, NEW m, NEW more,
                 job' = [job EXCEPT ![Cli] = [job[Cli] EXCEPT !.pc = "raw", !.from = from, !.upto = end,
                                                              !.top = m, !.more = more]]
          PROVE  job'[Cli].pc # "advance" /\ \A v \in Runners \ {Cli} : job'[v] = job[v]
      BY <3>1 DEF History!Jobs
    <3>2. ASSUME NEW end, History!FetchChunk(end)
          PROVE  job'[Cli].pc # "advance" /\ \A v \in Runners \ {Cli} : job'[v] = job[v]
      BY <3>1, <3>2 DEF History!FetchChunk
    <3>3. CASE History!PersistRaw(Cli) \/ History!AdvanceBackfill
      BY <3>3 DEF History!PersistRaw, History!AdvanceBackfill, History!Goto, History!EndCall,
                  History!Idle, History!Jobs
    <3>4. QED
      BY <1>21, <3>2, <3>3 DEF BackfillPipelineStep
  <2>3. QED
    BY <2>1, <2>2, <1>18
<1>22. ASSUME NEW first \in 1 .. MaxLog, NEW last \in 1 .. MaxLog, BeginBackfill(first, last)
       PROVE  Repairing'
  <2>1. work' = work /\ UNCHANGED <<log, events, journal>> /\ owner = "none"
    BY <1>22 DEF BeginBackfill, History!BeginBackfill, Aside
  <2>2. job[Cli].pc = "idle"
    BY <2>1, NobodyWorks DEF Active
  <2>3. job'[Cli].pc # "advance" /\ \A v \in Runners \ {Cli} : job'[v] = job[v]
    BY <1>22 DEF BeginBackfill, History!BeginBackfill, History!Idle
  <2>4. QED
    BY <2>1, <2>2, <2>3, <1>18
<1>23. CASE OpenServer \/ CloseServer
  BY <1>23, <1>2 DEF OpenServer, CloseServer, History!OpenServer, History!CloseServer, Aside
<1>24. ASSUME NEW t \in Trades, NEW l \in Levels, BrokerMovesLevel(t, l) PROVE Repairing'
  BY <1>24, <1>2 DEF BrokerMovesLevel, pipelineVars
<1>25. CASE UNCHANGED vars
  BY <1>25, <1>2 DEF vars
<1>26. ASSUME NEW r \in Runners, ProjectionStep(r) PROVE Repairing'
  BY <1>26, <1>11, <1>12, <1>13, <1>14, <1>15, <1>16 DEF ProjectionStep
<1>27. ASSUME NEW w \in Workers, PollStep(w) PROVE Repairing'
  BY <1>27, <1>8, <1>9, <1>10 DEF PollStep
<1>28. ASSUME NEW r \in Runners, Step(r) PROVE Repairing'
  BY <1>28, <1>20, <1>21, <1>26, <1>27 DEF Step
<1>29. ASSUME NEW r \in Runners, Faulty(r) PROVE Repairing'
  BY <1>29, <1>9, <1>10, <1>17 DEF Faulty
<1>30. QED
  BY <1>3, <1>4, <1>7, <1>19, <1>22, <1>23, <1>24, <1>25, <1>28, <1>29 DEF Next

LEMMA RepairInvariant == ASSUME Serialised PROVE Spec => [](JournalInv /\ Repairing)
<1>1. JournalInv /\ Repairing /\ [Next]_vars => Repairing'
  BY RepairInductive DEF JournalInv
<1>2. QED
  BY <1>1, InitRepairing, JournalInvariant, PTL DEF Spec

(* A sync that ends has left no trade booked as closed by hand whose       *)
(* stored events say market-if-touched, whichever call stored them and     *)
(* however far it got (_repair_manual_mit_closes_from_history).            *)
THEOREM SyncsRepair ==
  ASSUME Serialised PROVE Spec => SyncRepairsReasons
<1>1. ASSUME Repairing, NEW w \in Workers, job[w].pc = "advance", NEW t \in Trades,
             journal[t].state = "CLOSED", journal[t].reason = "MANUAL", StoredClosing(t) # {}
      PROVE  FinalReason(t) = "MANUAL"
  <2>1. Due = {}
    BY <1>1 DEF Repairing, CallRepairs, Runners
  <2>2. FinalReason(t) # "MIT"
    BY <1>1, <2>1 DEF Due, ManualClose
  <2>3. QED
    BY <2>2, ReasonOfFinal
<1>2. Repairing => \A w \in Workers :
         (job[w].pc = "advance" /\ job'[w].pc = "idle" /\ faults' = faults)
         => \A t \in Trades :
               (journal[t].state = "CLOSED" /\ journal[t].reason = "MANUAL" /\ StoredClosing(t) # {})
               => FinalReason(t) = "MANUAL"
  BY <1>1
<1>3. QED
  BY <1>2, RepairInvariant, PTL DEF SyncRepairsReasons

-----------------------------------------------------------------------------
(* Without backfills, what is stored is whole: the rows above base and up  *)
(* to the watermark, and after its inserts the rows a sync has fetched.    *)

StoredTo(n) == \A i \in (base + 1) .. n : \A k \in DOMAIN log[i] : <<i, k>> \in events

Whole ==
    /\ watermark = History!NoWatermark => events = {}
    /\ watermark # History!NoWatermark =>
          /\ base \in 0 .. watermark /\ watermark <= Len(log)
          /\ StoredTo(watermark)
          /\ \A row \in events : row[1] > base

(* A sync works from the watermark it read, which stays, to the end of the *)
(* log it was shown, and no row above that end is stored meanwhile.        *)
SyncGoes(j) ==
    /\ j.pc \in {"details", "initialise"} => watermark = History!NoWatermark /\ j.upto <= Len(log)
    /\ j.pc \in {"fetch", "raw", "events", "project", "advance"} =>
          watermark # History!NoWatermark /\ j.from = watermark /\ ~j.more
    /\ j.pc \in {"raw", "events", "project", "advance"} =>
          /\ watermark <= j.upto /\ j.upto <= Len(log)
          /\ \A row \in events : row[1] <= j.upto
    /\ j.pc \in {"project", "advance"} => StoredTo(j.upto)

Flow == Whole /\ job[Cli].pc = "idle" /\ \A w \in Workers : SyncGoes(job[w])

Flowing == backfills \in Nat /\ (backfills = 0 => Flow)

(* The rows of an answer: every leg of the ids above from and up to upto.  *)
LEMMA FetchedRows ==
  ASSUME Serialised, PipelineTyped, NEW r \in Runners, job[r].pc \in {"raw", "events"}
  PROVE  /\ \A row \in History!RowsOf(History!Fetched(r)) :
               /\ row[1] \in (job[r].from + 1) .. job[r].upto
               /\ row[2] \in DOMAIN log[row[1]]
         /\ \A i \in (job[r].from + 1) .. job[r].upto : \A k \in DOMAIN log[i] :
               <<i, k>> \in History!RowsOf(History!Fetched(r))
<1> DEFINE count == [tx \in Transactions |-> Len(tx)]
<1>1. job[r].upto <= Len(log) /\ job[r].from \in Nat /\ job[r].upto \in Nat /\ Len(log) \in Nat
  BY DEF PipelineTyped, History!Jobs
<1>2. \A i \in 1 .. Len(log) : log[i] \in Transactions /\ log[i] \in Seq(Legs)
  BY FillsType DEF PipelineTyped
<1>3. \A i \in 1 .. Len(log) : count[log[i]] = Len(log[i]) /\ DOMAIN log[i] = 1 .. count[log[i]]
  BY <1>2
<1>4. History!Fetched(r) = {i \in (job[r].from + 1) .. job[r].upto : count[log[i]] > 0}
  BY DEF History!Fetched, History!Matching
<1>5. History!RowsOf(History!Fetched(r)) = UNION {{i} \X (1 .. count[log[i]]) : i \in History!Fetched(r)}
  BY DEF History!RowsOf
<1>6. ASSUME NEW row \in History!RowsOf(History!Fetched(r))
      PROVE  row[1] \in (job[r].from + 1) .. job[r].upto /\ row[2] \in DOMAIN log[row[1]]
  <2>1. PICK i \in History!Fetched(r) : row \in {i} \X (1 .. count[log[i]])
    BY <1>5
  <2>2. i \in (job[r].from + 1) .. job[r].upto /\ i \in 1 .. Len(log) /\ row[1] = i
        /\ row[2] \in 1 .. count[log[i]]
    BY <1>1, <1>4, <2>1
  <2>3. QED
    BY <2>2, <1>3
<1>7. ASSUME NEW i \in (job[r].from + 1) .. job[r].upto, NEW k \in DOMAIN log[i]
      PROVE  <<i, k>> \in History!RowsOf(History!Fetched(r))
  <2>1. i \in 1 .. Len(log) /\ k \in 1 .. count[log[i]] /\ count[log[i]] \in Nat
    BY <1>1, <1>2, <1>3
  <2>2. i \in History!Fetched(r)
    BY <1>4, <2>1
  <2>3. <<i, k>> \in {i} \X (1 .. count[log[i]])
    BY <2>1
  <2>4. QED
    BY <1>5, <2>2, <2>3
<1>8. QED
  BY <1>6, <1>7

LEMMA InitFlowing == Init => Flowing
BY DEF Init, History!Init, History!Idle, History!Runners, History!NoWatermark, Runners, Flowing, Flow,
       Whole, SyncGoes

LEMMA WholeStays ==
  ASSUME Whole, UNCHANGED <<log, events, watermark, base>>
  PROVE  Whole'
BY DEF Whole, StoredTo

LEMMA FlowStays ==
  ASSUME Flowing, UNCHANGED <<log, events, watermark, base, job, backfills>>
  PROVE  Flowing'
BY DEF Flowing, Flow, Whole, SyncGoes, StoredTo

LEMMA IdleGoes == \A j : j.pc = "idle" => SyncGoes(j)
BY DEF SyncGoes

(* A step of the one call under way.                                       *)
LEMMA FlowOfOne ==
  ASSUME Serialised, Locking, NEW w \in Workers, \A v \in Runners \ {w} : ~Active(v) /\ job'[v] = job[v],
         UNCHANGED backfills, backfills \in Nat, Whole', SyncGoes(job[w])'
  PROVE  Flowing'
<1>1. Cli \in Runners \ {w} /\ Workers \subseteq Runners
  BY RunnersType DEF Runners
<1>2. \A v \in Runners \ {w} : job'[v].pc = "idle"
  BY DEF Active
<1>3. ASSUME NEW v \in Workers PROVE SyncGoes(job[v])'
  <2>1. CASE v = w
    BY <2>1
  <2>2. CASE v # w
    <3>1. (job[v].pc = "idle")'
      BY <1>1, <1>2, <2>2
    <3>2. QED
      BY <3>1 DEF SyncGoes
  <2>3. QED
    BY <2>1, <2>2
<1>4. QED
  BY <1>1, <1>2, <1>3 DEF Flowing, Flow

LEMMA BackfillsGrow ==
  ASSUME [Next]_vars
  PROVE  UNCHANGED backfills
         \/ \E first, last \in 1 .. MaxLog : BeginBackfill(first, last) /\ backfills' = backfills + 1
<1>1. ASSUME NEW r \in Runners, Step(r) \/ Faulty(r) PROVE UNCHANGED backfills
  <2>1. CASE ProjectionStep(r)
    BY <2>1 DEF ProjectionStep, PersistEvents, History!PersistEvents, ListRepairs, FinishProjection,
                History!FinishProjection, WriteTrade, ReadProjection, ReadRepair, pipelineVars
  <2>2. CASE PollStep(r)
    BY <2>2 DEF PollStep, FetchOpenTrades, ListOpenTrades, EndPoll, RecordOpened, ReadModified,
                LookUpClosed, pipelineVars
  <2>3. CASE PipelineStep(r)
    BY <2>3 DEF PipelineStep, History!FetchDetails, History!InitialiseWatermark, History!FetchSince,
                History!PersistRaw, History!AdvanceSync
  <2>4. CASE BackfillPipelineStep
    BY <2>4 DEF BackfillPipelineStep, History!FetchChunk, History!PersistRaw, History!AdvanceBackfill
  <2>5. CASE Faulty(r)
    BY <2>5 DEF Faulty, FailHistory, History!Fail, FailPoll, DeferClose, LookUpClosed
  <2>6. QED
    BY <1>1, <2>1, <2>2, <2>3, <2>4, <2>5 DEF Step
<1>2. ASSUME NEW first \in 1 .. MaxLog, NEW last \in 1 .. MaxLog, BeginBackfill(first, last)
      PROVE  backfills' = backfills + 1
  BY <1>2 DEF BeginBackfill, History!BeginBackfill
<1>3. ASSUME NEW w \in Workers, BeginPoll(w) \/ BeginSync(w) PROVE UNCHANGED backfills
  BY <1>3 DEF BeginPoll, BeginSync, History!BeginSync
<1>4. ASSUME OpenServer \/ CloseServer \/ Crash PROVE UNCHANGED backfills
  BY <1>4 DEF OpenServer, CloseServer, Crash, History!OpenServer, History!CloseServer, History!Crash
<1>5. ASSUME NEW tx \in Transactions, BrokerFill(tx) PROVE UNCHANGED backfills
  BY <1>5 DEF BrokerFill, History!BrokerCommit
<1>6. ASSUME NEW t \in Trades, NEW l \in Levels, BrokerMovesLevel(t, l) PROVE UNCHANGED backfills
  BY <1>6 DEF BrokerMovesLevel, pipelineVars
<1>7. CASE UNCHANGED vars
  BY <1>7 DEF vars
<1>8. QED
  BY <1>1, <1>2, <1>3, <1>4, <1>5, <1>6, <1>7 DEF Next

LEMMA FlowInductive ==
  ASSUME Serialised, ~ReadFaults, Typed, Locking, Flowing, [Next]_vars
  PROVE  Flowing'
<1> PipelineTyped /\ job \in [Runners -> History!Jobs] /\ log \in Seq(Transactions) /\ Len(log) \in Nat
    /\ watermark \in Int
  BY DEF Typed, PipelineTyped
<1> Cli \in Runners /\ Workers \subseteq Runners /\ Cli \notin Workers
  BY RunnersType DEF Runners
<1>a. backfills \in Nat
  BY DEF Flowing
<1>b. SUFFICES ASSUME backfills = 0, backfills' = 0 PROVE Flowing'
  BY <1>a, BackfillsGrow DEF Flowing
<1>c. UNCHANGED backfills
  BY <1>b
<1>d. Whole /\ job[Cli].pc = "idle" /\ \A w \in Workers : SyncGoes(job[w])
  BY <1>b DEF Flowing, Flow
<1>e. ASSUME NEW w \in Workers, Active(w) PROVE \A v \in Runners \ {w} : ~Active(v)
  BY <1>e, OthersWait
<1>1. ASSUME NEW tx \in Transactions, BrokerFill(tx) PROVE Flowing'
  <2>1. /\ log' \in Seq(Transactions) /\ Len(log') = Len(log) + 1
        /\ \A i \in 1 .. Len(log) : log'[i] = log[i]
        /\ UNCHANGED <<events, watermark, base, job>>
    BY <1>1, LogGrows DEF BrokerFill, History!BrokerCommit
  <2>2. ASSUME NEW n \in Int, n <= Len(log), StoredTo(n), base \in Nat,
               NEW i \in (base + 1) .. n, NEW k \in DOMAIN log'[i]
        PROVE  <<i, k>> \in events'
    <3>1. i \in 1 .. Len(log) /\ i \in (base + 1) .. n
      BY <2>2
    <3>2. log'[i] = log[i]
      BY <2>1, <3>1
    <3>3. QED
      BY <2>1, <2>2, <3>1, <3>2 DEF StoredTo
  <2>3. Whole'
    <3>1. CASE watermark = History!NoWatermark
      BY <1>d, <2>1, <3>1 DEF Whole
    <3>2. CASE watermark # History!NoWatermark
      <4>1. base \in 0 .. watermark /\ watermark <= Len(log) /\ StoredTo(watermark)
            /\ \A row \in events : row[1] > base
        BY <1>d, <3>2 DEF Whole
      <4>2. StoredTo(watermark)'
        <5>1. base \in Nat /\ watermark \in Int
          BY <4>1
        <5>2. \A i \in (base + 1) .. watermark : \A k \in DOMAIN log'[i] : <<i, k>> \in events'
          BY <2>2, <4>1, <5>1
        <5>3. QED
          BY <2>1, <5>2 DEF StoredTo
      <4>3. QED
        BY <2>1, <3>2, <4>1, <4>2 DEF Whole
    <3>3. QED
      BY <3>1, <3>2
  <2>4. watermark # History!NoWatermark => base \in Nat
    BY <1>d DEF Whole, History!NoWatermark
  <2>5. ASSUME NEW w \in Workers PROVE SyncGoes(job[w])'
    <3>1. SyncGoes(job[w]) /\ job[w] \in History!Jobs
      BY <1>d
    <3>2. job[w].pc \in {"project", "advance"} => StoredTo(job[w].upto)'
      <4>1. SUFFICES ASSUME job[w].pc \in {"project", "advance"} PROVE StoredTo(job[w].upto)'
        OBVIOUS
      <4>2. StoredTo(job[w].upto) /\ base \in Nat /\ job[w].upto \in Int /\ job[w].upto <= Len(log)
        BY <2>4, <3>1, <4>1 DEF SyncGoes, History!Jobs
      <4>3. \A i \in (base + 1) .. job[w].upto : \A k \in DOMAIN log'[i] : <<i, k>> \in events'
        BY <2>2, <4>2
      <4>4. QED
        BY <2>1, <4>3 DEF StoredTo
    <3>3. QED
      BY <2>1, <3>1, <3>2 DEF SyncGoes, History!Jobs
  <2>6. QED
    BY <1>c, <1>d, <2>1, <2>3, <2>5 DEF Flowing, Flow
<1>2. CASE Crash
  <2>1. job' = [r \in Runners |-> History!Idle] /\ UNCHANGED <<log, events, watermark, base>>
    BY <1>2 DEF Crash, History!Crash, History!Runners, Runners
  <2>2. \A r \in Runners : job'[r].pc = "idle"
    BY <2>1 DEF History!Idle
  <2>3. \A w \in Workers : SyncGoes(job[w])'
    BY <2>2 DEF SyncGoes
  <2>4. QED
    BY <1>a, <1>c, <1>d, <2>1, <2>2, <2>3, WholeStays DEF Flowing, Flow
<1>3. ASSUME NEW w \in Workers, BeginSync(w) PROVE Flowing'
  <2>1. UNCHANGED <<log, events, watermark, base>> /\ holders = {} /\ owner = "server"
    BY <1>3 DEF BeginSync, History!BeginSync, Serialised
  <2>2. \A v \in Runners : ~Active(v)
    BY <2>1 DEF Locking, Exclusive, Runners, Serialised
  <2>3. History!ReadWatermark = {watermark}
    BY DEF History!ReadWatermark
  <2>4. job' = [job EXCEPT ![w] = IF watermark = History!NoWatermark
                                    THEN [History!Idle EXCEPT !.pc = "details"]
                                    ELSE [History!Idle EXCEPT !.pc = "fetch", !.from = watermark]]
    BY <1>3, <2>3 DEF BeginSync, History!BeginSync
  <2>5. \A v \in Runners \ {w} : job'[v] = job[v]
    BY <2>4
  <2>6. CASE watermark = History!NoWatermark
    <3>1. job'[w].pc = "details" /\ job'[w].upto = 0
      BY <2>4, <2>6 DEF History!Idle
    <3>2. SyncGoes(job[w])'
      BY <2>1, <2>6, <3>1 DEF SyncGoes
    <3>3. QED
      BY <1>a, <1>c, <1>d, <2>1, <2>2, <2>5, <3>2, WholeStays, FlowOfOne
  <2>7. CASE watermark # History!NoWatermark
    <3>1. job'[w].pc = "fetch" /\ job'[w].from = watermark /\ job'[w].more = FALSE
      BY <2>4, <2>7 DEF History!Idle
    <3>2. SyncGoes(job[w])'
      BY <2>1, <2>7, <3>1 DEF SyncGoes
    <3>3. QED
      BY <1>a, <1>c, <1>d, <2>1, <2>2, <2>5, <3>2, WholeStays, FlowOfOne
  <2>8. QED
    BY <2>6, <2>7
(* A step that only moves the call of one worker.                          *)
<1>4. ASSUME NEW w \in Workers, job[w].pc # "idle", UNCHANGED <<log, events, watermark, base>>,
             NEW j, job' = [job EXCEPT ![w] = j], SyncGoes(j)
      PROVE  Flowing'
  <2>1. \A v \in Runners \ {w} : ~Active(v) /\ job'[v] = job[v]
    BY <1>4, <1>e DEF Active
  <2>2. job'[w] = j
    BY <1>4
  <2>3. SyncGoes(job[w])'
    BY <1>4, <2>2 DEF SyncGoes, StoredTo
  <2>4. QED
    BY <1>a, <1>c, <1>d, <1>4, <2>1, <2>3, WholeStays, FlowOfOne
<1>5. ASSUME NEW w \in Workers, History!FetchDetails(w) PROVE Flowing'
  <2> DEFINE j == [job[w] EXCEPT !.pc = "initialise", !.upto = Len(log)]
  <2>1. job[w].pc = "details" /\ UNCHANGED <<log, events, watermark, base>> /\ job' = [job EXCEPT ![w] = j]
    BY <1>5 DEF History!FetchDetails
  <2>2. j.pc = "initialise" /\ j.upto = Len(log)
    BY DEF History!Jobs
  <2> HIDE DEF j
  <2>3. SyncGoes(j)
    BY <1>d, <2>1, <2>2 DEF SyncGoes
  <2>4. QED
    BY <1>4, <2>1, <2>3
<1>6. ASSUME NEW w \in Workers, History!FetchSince(w) PROVE Flowing'
  <2> DEFINE j == [job[w] EXCEPT !.pc = "raw", !.upto = Len(log)]
  <2>1. job[w].pc = "fetch" /\ UNCHANGED <<log, events, watermark, base>> /\ job' = [job EXCEPT ![w] = j]
    BY <1>6 DEF History!FetchSince
  <2>2. j.pc = "raw" /\ j.upto = Len(log) /\ j.from = job[w].from /\ j.more = job[w].more
    BY DEF History!Jobs
  <2>3. watermark # History!NoWatermark /\ job[w].from = watermark /\ ~job[w].more
    BY <1>d, <2>1 DEF SyncGoes
  <2>4. watermark <= Len(log) /\ \A row \in events : row[1] <= Len(log)
    BY <1>d, <2>3 DEF Whole, PipelineTyped
  <2> HIDE DEF j
  <2>5. SyncGoes(j)
    BY <2>2, <2>3, <2>4 DEF SyncGoes
  <2>6. QED
    BY <1>4, <2>1, <2>5
<1>7. ASSUME NEW w \in Workers, NEW pc, job[w].pc # "idle", UNCHANGED <<log, events, watermark, base>>,
             History!Goto(w, pc), SyncGoes([job[w] EXCEPT !.pc = pc])
      PROVE  Flowing'
  <2>1. job' = [job EXCEPT ![w] = [job[w] EXCEPT !.pc = pc]]
    BY <1>7 DEF History!Goto
  <2>2. QED
    BY <1>4, <1>7, <2>1
<1>8. ASSUME NEW w \in Workers, History!PersistRaw(w) PROVE Flowing'
  <2> DEFINE j == [job[w] EXCEPT !.pc = "events"]
  <2>1. job[w].pc = "raw" /\ UNCHANGED <<log, events, watermark, base>> /\ History!Goto(w, "events")
    BY <1>8 DEF History!PersistRaw
  <2>2. j.pc = "events" /\ j.from = job[w].from /\ j.upto = job[w].upto /\ j.more = job[w].more
    BY DEF History!Jobs
  <2> HIDE DEF j
  <2>3. SyncGoes(j)
    BY <1>d, <2>1, <2>2 DEF SyncGoes
  <2>4. QED
    BY <1>7, <2>1, <2>3 DEF j
<1>9. ASSUME NEW w \in Workers, FinishProjection(w) PROVE Flowing'
  <2> DEFINE j == [job[w] EXCEPT !.pc = "advance"]
  <2>1. job[w].pc = "project" /\ UNCHANGED <<log, events, watermark, base>>
        /\ History!Goto(w, IF job[w].more THEN "fetch" ELSE "advance")
    BY <1>9 DEF FinishProjection, History!FinishProjection
  <2>2. j.pc = "advance" /\ j.from = job[w].from /\ j.upto = job[w].upto /\ j.more = job[w].more
    BY DEF History!Jobs
  <2>3. ~job[w].more
    BY <1>d, <2>1 DEF SyncGoes
  <2> HIDE DEF j
  <2>4. SyncGoes(j)
    BY <1>d, <2>1, <2>2 DEF SyncGoes
  <2>5. QED
    BY <1>7, <2>1, <2>3, <2>4 DEF j
(* The last step of a call.                                                *)
<1>10. ASSUME NEW w \in Workers, job[w].pc # "idle", job' = [job EXCEPT ![w] = History!Idle], Whole'
       PROVE  Flowing'
  <2>1. \A v \in Runners \ {w} : ~Active(v) /\ job'[v] = job[v]
    BY <1>10, <1>e DEF Active
  <2>2. job'[w].pc = "idle"
    BY <1>10 DEF History!Idle
  <2>3. SyncGoes(job[w])'
    BY <2>2 DEF SyncGoes
  <2>4. QED
    BY <1>a, <1>c, <1>10, <2>1, <2>3, FlowOfOne
<1>11. ASSUME NEW w \in Workers, History!InitialiseWatermark(w) PROVE Flowing'
  <2>1. /\ job[w].pc = "initialise" /\ watermark' = job[w].upto /\ UNCHANGED <<log, events>>
        /\ base' = IF watermark = History!NoWatermark THEN job[w].upto ELSE base
        /\ job' = [job EXCEPT ![w] = History!Idle]
    BY <1>11 DEF History!InitialiseWatermark, History!EndCall
  <2>2. watermark = History!NoWatermark /\ job[w].upto <= Len(log) /\ job[w].upto \in Nat
    BY <1>d, <2>1 DEF SyncGoes, History!Jobs
  <2>3. events' = {} /\ base' = watermark' /\ watermark' \in Nat /\ watermark' <= Len(log')
    BY <1>d, <2>1, <2>2 DEF Whole
  <2>4. base' \in 0 .. watermark'
    BY <2>3
  <2>5. StoredTo(watermark)'
    <3>1. \A n \in Nat : \A i \in (n + 1) .. n : FALSE
      OBVIOUS
    <3>2. \A i \in (base' + 1) .. watermark' : FALSE
      BY <2>3, <3>1
    <3>3. QED
      BY <3>2 DEF StoredTo
  <2>6. Whole'
    BY <2>3, <2>4, <2>5 DEF Whole
  <2>7. QED
    BY <1>10, <2>1, <2>6
<1>12. ASSUME NEW w \in Workers, History!AdvanceSync(w) PROVE Flowing'
  <2>1. /\ job[w].pc = "advance" /\ watermark' = job[w].upto /\ UNCHANGED <<log, events, base>>
        /\ job' = [job EXCEPT ![w] = History!Idle]
    BY <1>12 DEF History!AdvanceSync, History!EndCall
  <2>2. /\ watermark # History!NoWatermark /\ watermark <= job[w].upto /\ job[w].upto <= Len(log)
        /\ StoredTo(job[w].upto) /\ job[w].upto \in Nat
    BY <1>d, <2>1 DEF SyncGoes, History!Jobs
  <2>3. base \in 0 .. watermark /\ \A row \in events : row[1] > base
    BY <1>d, <2>2 DEF Whole
  <2>4. StoredTo(watermark)'
    BY <2>1, <2>2 DEF StoredTo
  <2>5. watermark' # History!NoWatermark /\ base' \in 0 .. watermark' /\ watermark' <= Len(log')
        /\ \A row \in events' : row[1] > base'
    BY <2>1, <2>2, <2>3 DEF History!NoWatermark
  <2>6. Whole'
    BY <2>4, <2>5 DEF Whole, History!NoWatermark
  <2>7. QED
    BY <1>10, <2>1, <2>6
(* Rows join the table: those of the answer, or some of them.              *)
<1>13. ASSUME NEW w \in Workers, job[w].pc = "events", UNCHANGED <<log, watermark, base>>,
              events \subseteq events', events' \subseteq events \union History!RowsOf(History!Fetched(w))
       PROVE  Whole' /\ \A row \in events' : row[1] <= job[w].upto
  <2>1. /\ watermark # History!NoWatermark /\ job[w].from = watermark /\ watermark <= job[w].upto
        /\ \A row \in events : row[1] <= job[w].upto
        /\ job[w].upto \in Nat
    BY <1>d, <1>13 DEF SyncGoes, History!Jobs
  <2>2. base \in 0 .. watermark /\ watermark <= Len(log) /\ StoredTo(watermark)
        /\ \A row \in events : row[1] > base
    BY <1>d, <2>1 DEF Whole
  <2>3. \A row \in History!RowsOf(History!Fetched(w)) : row[1] \in (watermark + 1) .. job[w].upto
    BY <1>13, <2>1, FetchedRows
  <2>4. \A row \in events' : row[1] > base /\ row[1] <= job[w].upto
    BY <1>13, <2>1, <2>2, <2>3
  <2>5. StoredTo(watermark)'
    BY <1>13, <2>2 DEF StoredTo
  <2>6. QED
    BY <1>13, <2>1, <2>2, <2>4, <2>5 DEF Whole
<1>14. ASSUME NEW w \in Workers, PersistEvents(w) PROVE Flowing'
  <2>1. /\ job[w].pc = "events" /\ UNCHANGED <<log, watermark, base>> /\ History!Goto(w, "project")
        /\ events' = events \union History!RowsOf(History!Fetched(w))
    BY <1>14 DEF PersistEvents, History!PersistEvents
  <2>2. Whole' /\ \A row \in events' : row[1] <= job[w].upto
    BY <1>13, <2>1
  <2>3. /\ watermark # History!NoWatermark /\ job[w].from = watermark /\ ~job[w].more
        /\ watermark <= job[w].upto /\ job[w].upto <= Len(log) /\ job[w].upto \in Nat
        /\ base \in 0 .. watermark /\ StoredTo(watermark)
    BY <1>d, <2>1 DEF SyncGoes, Whole, History!Jobs
  <2>4. \A i \in (watermark + 1) .. job[w].upto : \A k \in DOMAIN log[i] : <<i, k>> \in events'
    BY <2>1, <2>3, FetchedRows
  <2>5. \A i \in (base + 1) .. job[w].upto : \A k \in DOMAIN log[i] : <<i, k>> \in events'
    <3>1. ASSUME NEW i \in (base + 1) .. job[w].upto, NEW k \in DOMAIN log[i] PROVE <<i, k>> \in events'
      <4>1. i \in (base + 1) .. watermark \/ i \in (watermark + 1) .. job[w].upto
        BY <2>3
      <4>2. QED
        BY <2>1, <2>3, <2>4, <4>1 DEF StoredTo
    <3>2. QED
      BY <3>1
  <2>6. /\ job'[w].pc = "project" /\ job'[w].upto = job[w].upto /\ job'[w].from = job[w].from
        /\ job'[w].more = job[w].more /\ \A v \in Runners \ {w} : job'[v] = job[v]
    BY <2>1 DEF History!Goto, History!Jobs
  <2>7. SyncGoes(job[w])'
    BY <2>1, <2>2, <2>3, <2>5, <2>6 DEF SyncGoes, StoredTo
  <2>8. QED
    BY <1>a, <1>c, <1>e, <2>1, <2>2, <2>6, <2>7, FlowOfOne DEF Active
<1>15. ASSUME NEW r \in Runners, FailHistory(r) PROVE Flowing'
  <2>1. /\ job[r].pc # "idle" /\ job' = [job EXCEPT ![r] = History!Idle]
        /\ UNCHANGED <<log, watermark, base>>
    BY <1>15 DEF FailHistory, History!Fail, History!EndCall
  <2>2. r \in Workers
    BY <1>d, <2>1 DEF Runners
  <2>3. CASE job[r].pc = "events"
    <3>1. PICK cut \in History!RowsOf(History!Fetched(r)) :
             events' = events \union History!RowsBefore(History!Fetched(r), cut)
      BY <1>15, <2>3 DEF FailHistory, History!Fail
    <3>2. events \subseteq events' /\ events' \subseteq events \union History!RowsOf(History!Fetched(r))
      BY <3>1 DEF History!RowsBefore
    <3>3. QED
      BY <1>10, <1>13, <2>1, <2>2, <2>3, <3>2
  <2>4. CASE job[r].pc # "events"
    <3>1. UNCHANGED events
      BY <1>15, <2>4 DEF FailHistory, History!Fail
    <3>2. QED
      BY <1>10, <1>d, <2>1, <2>2, <3>1, WholeStays
  <2>5. QED
    BY <2>3, <2>4
<1>16. CASE BackfillPipelineStep
  BY <1>16, <1>d DEF BackfillPipelineStep, History!FetchChunk, History!PersistRaw, History!AdvanceBackfill
<1>17. ASSUME NEW first \in 1 .. MaxLog, NEW last \in 1 .. MaxLog, BeginBackfill(first, last)
       PROVE  Flowing'
  BY <1>17, <1>b DEF BeginBackfill, History!BeginBackfill
<1>18. ASSUME UNCHANGED <<log, events, watermark, base, job>> PROVE Flowing'
  BY <1>c, <1>18, FlowStays
<1>19. ASSUME NEW w \in Workers, BeginPoll(w) PROVE Flowing'
  BY <1>19, <1>18 DEF BeginPoll
<1>20. ASSUME NEW t \in Trades, NEW l \in Levels, BrokerMovesLevel(t, l) PROVE Flowing'
  BY <1>20, <1>18 DEF BrokerMovesLevel, pipelineVars
<1>21. CASE OpenServer \/ CloseServer
  BY <1>21, <1>18 DEF OpenServer, CloseServer, History!OpenServer, History!CloseServer
<1>22. ASSUME NEW r \in Runners, ProjectionStep(r) PROVE Flowing'
  <2>1. CASE PersistEvents(r)
    <3>1. r \in Workers
      BY <1>d, <2>1 DEF Runners, PersistEvents, History!PersistEvents
    <3>2. QED
      BY <1>14, <2>1, <3>1
  <2>2. CASE FinishProjection(r)
    <3>1. r \in Workers
      BY <1>d, <2>2 DEF Runners, FinishProjection, History!FinishProjection
    <3>2. QED
      BY <1>9, <2>2, <3>1
  <2>3. CASE ListRepairs(r) \/ WriteTrade(r)
    BY <1>18, <2>3 DEF ListRepairs, WriteTrade, pipelineVars
  <2>4. ASSUME NEW t \in Trades, ReadProjection(r, t) \/ ReadRepair(r, t) PROVE Flowing'
    BY <1>18, <2>4 DEF ReadProjection, ReadRepair, pipelineVars
  <2>5. QED
    BY <1>22, <2>1, <2>2, <2>3, <2>4 DEF ProjectionStep
<1>23. ASSUME NEW w \in Workers, PollStep(w) \/ FailPoll(w) PROVE Flowing'
  BY <1>18, <1>23 DEF PollStep, FetchOpenTrades, ListOpenTrades, EndPoll, RecordOpened, ReadModified,
                      LookUpClosed, FailPoll, pipelineVars
<1>24. ASSUME NEW w \in Workers, NEW t \in Trades, DeferClose(w, t) \/ LookUpClosed(w, t, FALSE)
       PROVE  Flowing'
  BY <1>18, <1>24 DEF DeferClose, LookUpClosed
<1>25. ASSUME NEW w \in Workers, PipelineStep(w) PROVE Flowing'
  BY <1>25, <1>5, <1>6, <1>8, <1>11, <1>12 DEF PipelineStep
<1>26. ASSUME NEW r \in Runners, Step(r) PROVE Flowing'
  BY <1>26, <1>16, <1>22, <1>23, <1>25 DEF Step
<1>27. ASSUME NEW r \in Runners, Faulty(r) PROVE Flowing'
  BY <1>27, <1>15, <1>23, <1>24 DEF Faulty
<1>28. CASE UNCHANGED vars
  BY <1>28, <1>18 DEF vars
<1>29. QED
  BY <1>1, <1>2, <1>3, <1>17, <1>19, <1>20, <1>21, <1>26, <1>27, <1>28 DEF Next

-----------------------------------------------------------------------------
(* What the journal and the stored events say of a trade agree.            *)

(* In the broker's log, trades open before they close and have no leg in   *)
(* a later transaction than the one that closes them.                      *)
ClosesLast(lg) ==
    \A t \in Trades :
        /\ Closed(lg, t) => Opened(lg, t)
        /\ \A i, j \in 1 .. Len(lg) : \A k \in DOMAIN lg[i], m \in DOMAIN lg[j] :
              (lg[i][k].type = "CLOSE" /\ lg[i][k].trade = t /\ lg[j][m].trade = t) => j <= i

(* What the stored events say: the trades they know, those they show       *)
(* closed, those closed at or below the watermark, and what a close sums   *)
(* up to.                                                                  *)
Known  == {t \in Trades : RowsFor(t) # {}}
Stored == {t \in Trades : \E row \in RowsFor(t) : LegOf(row).type = "CLOSE"}
Old    == {t \in Trades : \E row \in RowsFor(t) : LegOf(row).type = "CLOSE" /\ row[1] <= watermark}
Told   == [t \in Trades |-> [pnl    |-> {row[1] : row \in StoredClosing(t)},
                             reason |-> FinalReason(t)]]

Fits(rec, story) == rec.state = "CLOSED" /\ rec.pnl = story.pnl /\ rec.reason = story.reason

Settled(t, records, told) == records[t].state = "ABSENT" \/ Fits(records[t], told[t])

(* A poll handles no trade that the synced events show closed; it was      *)
(* shown none that the journal has closed, and closes none that it was     *)
(* shown.                                                                  *)
PollAgrees(x, old, records) ==
    /\ x.pc \in {"list", "diff"} => \A c \in x.current : c[1] \notin old /\ records[c[1]].state # "CLOSED"
    /\ x.pc = "diff" => /\ \A t \in x.gone : t \notin old /\ \A c \in x.current : c[1] # t
                        /\ \A y \in x.write : y.trade \notin old
                        /\ \A y \in x.write : y.rec.state = "CLOSED" => \A c \in x.current : c[1] # y.trade
                        /\ \A y \in x.write : y.rec.state # "CLOSED" => \E c \in x.current : c[1] = y.trade

(* A projection knows the close of every closed trade of which it knows    *)
(* anything, and what it writes is what the events say; when it has been   *)
(* through its list, every trade they show closed is settled.              *)
ProjectionAgrees(x, pc, known, stored, told, records) ==
    /\ x.phase # "none" =>
          /\ \A t \in known : records[t].state = "CLOSED" => t \in stored
          /\ \A y \in x.write : ~y.closing
          /\ \A y \in x.write : y.trade \in stored => Fits(y.rec, told[y.trade])
          /\ \A y \in x.write : y.trade \notin stored => y.trade \in known /\ y.rec.state = "OPEN"
          /\ \A y, z \in x.write : y.trade = z.trade
    /\ x.phase = "project" =>
          \A t \in stored : t \in x.project \/ Settled(t, records, told) \/ \E y \in x.write : y.trade = t
    /\ x.phase = "repair" \/ pc = "advance" => \A t \in stored : Settled(t, records, told)

(* The answer a sync works on shows the close of every closed trade.       *)
SyncAgrees(j, lg, records) ==
    j.pc \in {"raw", "events"} =>
        \A t \in Trades : records[t].state = "CLOSED" =>
            \E i \in 1 .. j.upto : \E k \in DOMAIN lg[i] : lg[i][k].type = "CLOSE" /\ lg[i][k].trade = t

CallAgrees(r) ==
    /\ PollAgrees(work[r], Old, journal)
    /\ ProjectionAgrees(work[r], job[r].pc, Known, Stored, Told, journal)
    /\ SyncAgrees(job[r], log, journal)

Coherent ==
    /\ \A t \in Old : Settled(t, journal, Told)
    /\ \A r \in Runners : CallAgrees(r)

Agreeing == ClosesLast(log) /\ (backfills = 0 => Coherent)

(* Only a fill changes the broker's log.                                   *)
LEMMA LogSteps ==
  ASSUME [Next]_vars
  PROVE  SameLog \/ \E tx \in Transactions : BrokerFill(tx)
<1>1. ASSUME NEW r \in Runners, Step(r) \/ Faulty(r) PROVE SameLog
  <2>1. CASE ProjectionStep(r)
    BY <2>1 DEF ProjectionStep, PersistEvents, History!PersistEvents, ListRepairs, FinishProjection,
                History!FinishProjection, WriteTrade, ReadProjection, ReadRepair, pipelineVars, SameLog
  <2>2. CASE PollStep(r)
    BY <2>2 DEF PollStep, FetchOpenTrades, ListOpenTrades, EndPoll, RecordOpened, ReadModified,
                LookUpClosed, pipelineVars, SameLog
  <2>3. CASE PipelineStep(r)
    BY <2>3 DEF PipelineStep, History!FetchDetails, History!InitialiseWatermark, History!FetchSince,
                History!PersistRaw, History!AdvanceSync, SameLog
  <2>4. CASE BackfillPipelineStep
    BY <2>4 DEF BackfillPipelineStep, History!FetchChunk, History!PersistRaw, History!AdvanceBackfill,
                SameLog
  <2>5. CASE Faulty(r)
    BY <2>5 DEF Faulty, FailHistory, History!Fail, FailPoll, DeferClose, LookUpClosed, SameLog
  <2>6. QED
    BY <1>1, <2>1, <2>2, <2>3, <2>4, <2>5 DEF Step
<1>2. ASSUME NEW first \in 1 .. MaxLog, NEW last \in 1 .. MaxLog, BeginBackfill(first, last)
      PROVE  SameLog
  BY <1>2 DEF BeginBackfill, History!BeginBackfill, SameLog
<1>3. ASSUME NEW w \in Workers, BeginPoll(w) \/ BeginSync(w) PROVE SameLog
  BY <1>3 DEF BeginPoll, BeginSync, History!BeginSync, SameLog
<1>4. ASSUME OpenServer \/ CloseServer \/ Crash PROVE SameLog
  BY <1>4 DEF OpenServer, CloseServer, Crash, History!OpenServer, History!CloseServer, History!Crash,
              SameLog
<1>5. ASSUME NEW t \in Trades, NEW l \in Levels, BrokerMovesLevel(t, l) PROVE SameLog
  BY <1>5 DEF BrokerMovesLevel, pipelineVars, SameLog
<1>6. CASE UNCHANGED vars
  BY <1>6 DEF vars, SameLog
<1>7. QED
  BY <1>1, <1>2, <1>3, <1>4, <1>5, <1>6 DEF Next

LEMMA ClosesStayLast ==
  ASSUME Serialised, PipelineTyped, ClosesLast(log), [Next]_vars
  PROVE  ClosesLast(log')
<1>1. SUFFICES ASSUME NEW tx \in Transactions, BrokerFill(tx) PROVE ClosesLast(log')
  BY LogSteps DEF SameLog
<1> DEFINE n == Len(log)
<1>2. n \in Nat /\ Len(log') = n + 1 /\ log'[n + 1] = tx /\ \A i \in 1 .. n : log'[i] = log[i]
  BY <1>1 DEF BrokerFill, History!BrokerCommit, PipelineTyped
<1>3. \A m \in DOMAIN tx : Legal(tx[m])
  BY <1>1 DEF BrokerFill
(* A fill has no leg of a trade that was closed before it, ...             *)
<1>4. ASSUME NEW t \in Trades, Closed(log, t), NEW m \in DOMAIN tx PROVE tx[m].trade # t
  <2>1. Opened(log, t) /\ WithLeg({"CLOSE"}, t) # {} /\ WithLeg({"OPEN"}, t) # {}
    BY <1>4, LegsFound DEF ClosesLast, Opened, Closed
  <2>2. t \notin BrokerOpen
    BY <2>1 DEF BrokerOpen
  <2>3. QED
    BY <1>3, <2>1, <2>2 DEF Legal
(* ... and closes only trades that were open before it.                    *)
<1>5. ASSUME NEW t \in Trades, NEW m \in DOMAIN tx, tx[m].type = "CLOSE", tx[m].trade = t
      PROVE  Opened(log, t)
  <2>1. t \in BrokerOpen
    BY <1>3, <1>5 DEF Legal
  <2>2. QED
    BY <2>1, LegsFound DEF BrokerOpen, Opened
<1>6. \A type, t : HasLeg(log, type, t) => HasLeg(log', type, t)
  BY <1>1, LegsStay
<1>7. ASSUME NEW t \in Trades, Closed(log', t) PROVE Opened(log', t)
  <2>1. PICK i \in 1 .. Len(log') : \E k \in DOMAIN log'[i] : log'[i][k].type = "CLOSE" /\ log'[i][k].trade = t
    BY <1>7 DEF Closed, HasLeg
  <2>2. CASE i \in 1 .. n
    <3>1. Closed(log, t)
      BY <1>2, <2>1, <2>2 DEF Closed, HasLeg
    <3>2. QED
      BY <3>1, <1>6 DEF ClosesLast, Opened
  <2>3. CASE i = n + 1
    BY <1>2, <1>5, <1>6, <2>1, <2>3 DEF Opened
  <2>4. QED
    BY <1>2, <2>1, <2>2, <2>3
<1>8. ASSUME NEW t \in Trades, NEW i \in 1 .. Len(log'), NEW j \in 1 .. Len(log'),
             NEW k \in DOMAIN log'[i], NEW m \in DOMAIN log'[j],
             log'[i][k].type = "CLOSE", log'[i][k].trade = t, log'[j][m].trade = t
      PROVE  j <= i
  <2>1. CASE i = n + 1
    BY <1>2, <2>1
  <2>2. CASE i \in 1 .. n /\ j \in 1 .. n
    <3>1. log'[i] = log[i] /\ log'[j] = log[j] /\ i \in 1 .. Len(log) /\ j \in 1 .. Len(log)
      BY <1>2, <2>2
    <3>2. QED
      BY <1>8, <3>1 DEF ClosesLast
  <2>3. CASE i \in 1 .. n /\ j = n + 1
    <3>1. Closed(log, t)
      BY <1>2, <1>8, <2>3 DEF Closed, HasLeg
    <3>2. QED
      BY <1>2, <1>4, <1>8, <2>3, <3>1
  <2>4. QED
    BY <1>2, <2>1, <2>2, <2>3
<1>9. QED
  BY <1>7, <1>8 DEF ClosesLast

LEMMA SameStory ==
  ASSUME UNCHANGED <<log, events, watermark>>
  PROVE  UNCHANGED <<Known, Stored, Old, Told>>
<1>1. \A t : RowsFor(t)' = RowsFor(t) /\ StoredClosing(t)' = StoredClosing(t)
             /\ FinalReason(t)' = FinalReason(t)
  BY DEF RowsFor, StoredClosing, FinalReason, LegOf
<1>2. Known' = Known /\ Told' = Told
  BY <1>1 DEF Known, Told
<1>3. Stored' = Stored /\ Old' = Old
  BY <1>1 DEF Stored, Old, LegOf
<1>4. QED
  BY <1>2, <1>3

LEMMA OldIsStored == Old \subseteq Stored /\ Stored \subseteq Known /\ Known \subseteq Trades
                     /\ \A t \in Stored : StoredClosing(t) # {}
BY DEF Old, Stored, Known, StoredClosing, Closing

LEMMA FillKeepsStory ==
  ASSUME Serialised, PipelineTyped, NEW tx \in Transactions, BrokerFill(tx)
  PROVE  UNCHANGED <<Known, Stored, Old>> /\ \A t \in Stored : Told'[t] = Told[t]
<1>1. /\ \A row \in events : LegOf(row)' = LegOf(row)
      /\ \A t : RowsFor(t)' = RowsFor(t) /\ StoredClosing(t)' = StoredClosing(t)
      /\ \A t : StoredClosing(t) # {} => FinalReason(t)' = FinalReason(t)
  BY StoredLegsKept
<1>2. watermark' = watermark /\ \A t : RowsFor(t) \subseteq events
  BY DEF BrokerFill, History!BrokerCommit, RowsFor
<1>3. Known' = Known
  BY <1>1 DEF Known
<1>4. Stored' = Stored /\ Old' = Old
  BY <1>1, <1>2 DEF Stored, Old
<1>5. \A t \in Stored : Told'[t] = Told[t]
  BY <1>1, OldIsStored DEF Told
<1>6. QED
  BY <1>3, <1>4, <1>5

LEMMA SameToldAgrees ==
  \A x, pc, known, stored, told, other, records :
      /\ ProjectionAgrees(x, pc, known, stored, told, records)
      /\ \A t \in stored : other[t] = told[t]
      => ProjectionAgrees(x, pc, known, stored, other, records)
BY DEF ProjectionAgrees, Settled

LEMMA RestAgrees ==
  \A x, old, pc, known, stored, told, records :
      x.pc = "idle" /\ x.phase = "none" /\ pc # "advance" =>
          PollAgrees(x, old, records) /\ ProjectionAgrees(x, pc, known, stored, told, records)
BY DEF PollAgrees, ProjectionAgrees

LEMMA InitAgreeing == Init => Agreeing
<1>1. SUFFICES ASSUME Init PROVE Agreeing
  OBVIOUS
<1>2. log = <<>> /\ events = {} /\ \A r \in Runners : job[r].pc = "idle" /\ work[r] = Rest
  BY <1>1 DEF Init, History!Init, History!Idle, History!Runners, Runners
<1>3. ClosesLast(log)
  BY <1>2 DEF ClosesLast, Closed, HasLeg
<1>4. Old = {}
  BY <1>2 DEF Old, RowsFor
<1>5. Rest.pc = "idle" /\ Rest.phase = "none"
  BY DEF Rest
<1>6. \A r \in Runners : CallAgrees(r)
  BY <1>2, <1>5, RestAgrees DEF CallAgrees, SyncAgrees
<1>7. QED
  BY <1>3, <1>4, <1>6 DEF Agreeing, Coherent

(* A step of the one call at work, or of one that begins.                  *)
LEMMA CoherentStep ==
  ASSUME Locking, NEW r \in Runners, OthersIdleBy(r), \A v \in Runners \ {r} : ~Active(v),
         \A t \in Old' : Settled(t, journal', Told'),
         PollAgrees(work'[r], Old', journal'),
         ProjectionAgrees(work'[r], job'[r].pc, Known', Stored', Told', journal'),
         SyncAgrees(job'[r], log', journal')
  PROVE  Coherent'
<1>1. ASSUME NEW v \in Runners, v # r PROVE CallAgrees(v)'
  <2>1. work'[v] = work[v] /\ job'[v] = job[v] /\ work[v].pc = "idle" /\ job[v].pc = "idle"
    BY <1>1 DEF OthersIdleBy, Active
  <2>2. work[v].phase = "none"
    BY <2>1, BusyPhases
  <2>3. PollAgrees(work'[v], Old', journal')
        /\ ProjectionAgrees(work'[v], job'[v].pc, Known', Stored', Told', journal')
    BY <2>1, <2>2, RestAgrees
  <2>4. SyncAgrees(job'[v], log', journal')
    BY <2>1 DEF SyncAgrees
  <2>5. QED
    BY <2>3, <2>4 DEF CallAgrees
<1>2. CallAgrees(r)'
  BY DEF CallAgrees
<1>3. QED
  BY <1>1, <1>2 DEF Coherent

(* What a projection writes is what the events say.                        *)
LEMMA ProjectionSays ==
  ASSUME NEW t \in Trades
  PROVE  /\ \A y \in Projection(t) : y.trade = t /\ ~y.closing /\ t \in Known
         /\ t \in Stored => \A y \in Projection(t) : Fits(y.rec, Told[t])
         /\ t \notin Stored => \A y \in Projection(t) : y.rec.state = "OPEN"
         /\ t \in Stored => journal[t].state = "ABSENT" \/ \E y \in Projection(t) : y.trade = t
<1> DEFINE types == {LegOf(row).type : row \in RowsFor(t)}
           closed == [state |-> "CLOSED", level |-> journal[t].level, reason |-> FinalReason(t),
                      pnl |-> {row[1] : row \in StoredClosing(t)}]
           open   == [NoTrade EXCEPT !.state = "OPEN", !.level = journal[t].level]
           rec    == IF "CLOSE" \in types THEN closed ELSE open
           none   == RowsFor(t) = {} \/ (journal[t].state = "ABSENT" /\ "OPEN" \notin types)
           y      == [trade |-> t, closing |-> FALSE, rec |-> rec]
<1>1. Projection(t) = IF none THEN {} ELSE {y}
  BY Zenon DEF Projection
<1>2. t \in Stored <=> "CLOSE" \in types
  BY DEF Stored
<1>3. Fits(closed, Told[t]) /\ open.state = "OPEN"
  BY DEF Fits, Told, NoTrade
<1>4. ~none => t \in Known
  BY DEF Known
<1>5. "CLOSE" \in types => RowsFor(t) # {}
  OBVIOUS
<1>6. t \in Stored /\ none => journal[t].state = "ABSENT"
  BY <1>2, <1>5
<1>7. t \in Stored => Fits(rec, Told[t])
  BY <1>2, <1>3
<1>8. t \notin Stored => rec.state = "OPEN"
  BY <1>2, <1>3
<1> HIDE DEF rec, none
<1>9. y.trade = t /\ y.closing = FALSE /\ y.rec = rec
  OBVIOUS
<1> HIDE DEF y
<1>10. QED
  BY <1>1, <1>4, <1>6, <1>7, <1>8, <1>9

-----------------------------------------------------------------------------
(* No step makes a settled trade disagree with what is stored.             *)

LEMMA SameRows ==
  ASSUME UNCHANGED <<log, events>>
  PROVE  UNCHANGED <<Known, Stored, Told>>
<1>1. \A t : RowsFor(t)' = RowsFor(t) /\ StoredClosing(t)' = StoredClosing(t)
             /\ FinalReason(t)' = FinalReason(t)
  BY DEF RowsFor, StoredClosing, FinalReason, LegOf
<1>2. Known' = Known /\ Told' = Told
  BY <1>1 DEF Known, Told
<1>3. Stored' = Stored
  BY <1>1 DEF Stored, LegOf
<1>4. QED
  BY <1>2, <1>3

(* Rows stored above the watermark change nothing about the closes at or   *)
(* below it: their trades have no later leg.                               *)
LEMMA RowsAbove ==
  ASSUME PipelineTyped, ClosesLast(log), UNCHANGED <<log, watermark>>, events \subseteq events',
         \A row \in events' \ events :
            row[1] > watermark /\ row[1] \in 1 .. Len(log) /\ row[2] \in DOMAIN log[row[1]]
  PROVE  Old' = Old /\ \A t \in Old : Told'[t] = Told[t]
<1>1. \A row : LegOf(row)' = LegOf(row)
  BY DEF LegOf
<1>2. \A t : RowsFor(t)' = {row \in events' : LegOf(row).trade = t}
  BY <1>1 DEF RowsFor
<1>3. \A row \in events : row[1] \in 1 .. Len(log) /\ row[2] \in DOMAIN log[row[1]]
  BY DEF PipelineTyped
<1>4. watermark \in Int
  BY DEF PipelineTyped
<1>5. \A t, row : (row \in RowsFor(t)' /\ row[1] <= watermark) <=> (row \in RowsFor(t) /\ row[1] <= watermark)
  <2>1. \A row \in events' \ events : ~(row[1] <= watermark)
    BY <1>4
  <2>2. QED
    BY <1>2, <2>1 DEF RowsFor
<1>6. Old' = Old
  BY <1>1, <1>5 DEF Old
<1>7. ASSUME NEW t \in Old PROVE Told'[t] = Told[t]
  <2>1. PICK c \in RowsFor(t) : LegOf(c).type = "CLOSE" /\ c[1] <= watermark
    BY DEF Old
  <2>2. t \in Trades /\ c \in events /\ LegOf(c).trade = t
    BY <2>1 DEF Old, RowsFor
  <2>3. ASSUME NEW row \in events' \ events, LegOf(row).trade = t PROVE FALSE
    <3>1. row[1] <= c[1]
      BY <1>3, <2>1, <2>2, <2>3 DEF ClosesLast, LegOf
    <3>2. row[1] > watermark /\ row[1] \in Int /\ c[1] \in Int
      BY <1>3, <2>2
    <3>3. QED
      BY <1>4, <2>1, <3>1, <3>2
  <2>4. RowsFor(t)' = RowsFor(t)
    BY <1>2, <2>3 DEF RowsFor
  <2>5. StoredClosing(t)' = StoredClosing(t)
    BY <1>1, <2>4 DEF StoredClosing
  <2>6. FinalReason(t)' = FinalReason(t)
    BY <1>1, <2>5 DEF FinalReason
  <2>7. QED
    BY <2>2, <2>5, <2>6 DEF Told
<1>8. QED
  BY <1>6, <1>7

LEMMA CoherentInductive ==
  ASSUME Serialised, ~ReadFaults, Typed, Locking, Evidence, Flowing, Flowing', Agreeing, [Next]_vars
  PROVE  Agreeing'
<1> PipelineTyped /\ JournalTyped /\ job \in [Runners -> History!Jobs] /\ work \in [Runners -> Works]
    /\ journal \in [Trades -> Rows] /\ watermark \in Int /\ Len(log) \in Nat
  BY DEF Typed, PipelineTyped, JournalTyped
<1> Cli \in Runners /\ Workers \subseteq Runners /\ Cli \notin Workers
  BY RunnersType DEF Runners
<1>l. ClosesLast(log) /\ ClosesLast(log)'
  BY ClosesStayLast DEF Agreeing
<1>b. SUFFICES ASSUME backfills = 0, backfills' = 0 PROVE Coherent'
  BY <1>l, BackfillsGrow DEF Agreeing, Flowing
<1>d. Whole /\ job[Cli].pc = "idle" /\ \A w \in Workers : SyncGoes(job[w])
  BY <1>b DEF Flowing, Flow
<1>o. \A t \in Old : Settled(t, journal, Told)
  BY <1>b DEF Agreeing, Coherent
<1>p. \A r \in Runners : PollAgrees(work[r], Old, journal)
  BY <1>b DEF Agreeing, Coherent, CallAgrees
<1>q. \A r \in Runners : ProjectionAgrees(work[r], job[r].pc, Known, Stored, Told, journal)
  BY <1>b DEF Agreeing, Coherent, CallAgrees
<1>s. \A r \in Runners : SyncAgrees(job[r], log, journal)
  BY <1>b DEF Agreeing, Coherent, CallAgrees
<1>e. ASSUME NEW r \in Runners, Active(r) PROVE \A v \in Runners \ {r} : ~Active(v)
  BY <1>e, OthersWait
<1>f. ASSUME holders = {}, owner = "server" PROVE \A v \in Runners : ~Active(v)
  BY <1>f DEF Locking, Exclusive, Runners, Serialised
<1>1. ASSUME UNCHANGED <<log, events, watermark, journal, work, job>> PROVE Coherent'
  BY <1>1, <1>o, <1>p, <1>q, <1>s, SameStory DEF Coherent, CallAgrees
<1>2. ASSUME NEW tx \in Transactions, BrokerFill(tx) PROVE Coherent'
  <2>1. /\ UNCHANGED <<journal, work, job>> /\ Len(log') = Len(log) + 1
        /\ \A i \in 1 .. Len(log) : log'[i] = log[i]
    BY <1>2, LogGrows DEF BrokerFill, History!BrokerCommit
  <2>2. UNCHANGED <<Known, Stored, Old>> /\ \A t \in Stored : Told'[t] = Told[t]
    BY <1>2, FillKeepsStory
  <2>3. \A t \in Old' : Settled(t, journal', Told')
    BY <1>o, <2>1, <2>2, OldIsStored DEF Settled
  <2>4. ASSUME NEW r \in Runners PROVE CallAgrees(r)'
    <3>1. PollAgrees(work'[r], Old', journal')
      BY <1>p, <2>1, <2>2
    <3>2. ProjectionAgrees(work'[r], job'[r].pc, Known', Stored', Told', journal')
      BY <1>q, <2>1, <2>2, SameToldAgrees
    <3>3. job[r].pc \in {"raw", "events"} => job[r].upto <= Len(log) /\ job[r].upto \in Nat
      BY DEF PipelineTyped, History!Jobs
    <3>4. SyncAgrees(job'[r], log', journal')
      <4>1. SyncAgrees(job[r], log, journal)
        BY <1>s
      <4>2. job[r].pc \in {"raw", "events"} => \A i \in 1 .. job[r].upto : log'[i] = log[i]
        BY <2>1, <3>3
      <4>3. QED
        BY <2>1, <4>1, <4>2 DEF SyncAgrees
    <3>5. QED
      BY <3>1, <3>2, <3>4 DEF CallAgrees
  <2>5. QED
    BY <2>3, <2>4 DEF Coherent
<1>3. CASE Crash
  <2>1. /\ \A r \in Runners : work'[r] = Rest /\ job'[r].pc = "idle"
        /\ UNCHANGED <<log, events, watermark, journal>>
    BY <1>3 DEF Crash, History!Crash, History!Runners, Runners, History!Idle
  <2>2. Rest.pc = "idle" /\ Rest.phase = "none"
    BY DEF Rest
  <2>3. \A r \in Runners : CallAgrees(r)'
    BY <2>1, <2>2, RestAgrees DEF CallAgrees, SyncAgrees
  <2>4. QED
    BY <1>o, <2>1, <2>3, SameStory DEF Coherent
(* A step of one call that leaves the tables alone.                        *)
<1>4. ASSUME NEW r \in Runners, OthersIdleBy(r), \A v \in Runners \ {r} : ~Active(v),
             UNCHANGED <<log, events, watermark, journal>>,
             PollAgrees(work'[r], Old, journal),
             ProjectionAgrees(work'[r], job'[r].pc, Known, Stored, Told, journal),
             SyncAgrees(job'[r], log, journal)
      PROVE  Coherent'
  BY <1>4, <1>o, SameStory, CoherentStep
(* A step of a poll that leaves the tables alone.                          *)
<1>5. ASSUME NEW w \in Workers, work[w].pc # "idle", \A v \in Runners \ {w} : work'[v] = work[v],
             UNCHANGED <<log, events, watermark, journal, job>>, work'[w].phase \in {work[w].phase, "none"},
             PollAgrees(work'[w], Old, journal)
      PROVE  Coherent'
  <2>1. Active(w) /\ work'[w].phase = "none" /\ job'[w].pc = "idle" /\ OthersIdleBy(w)
    BY <1>5, BusyPhases DEF Active, OthersIdleBy
  <2>2. ProjectionAgrees(work'[w], job'[w].pc, Known, Stored, Told, journal)
        /\ SyncAgrees(job'[w], log, journal)
    BY <2>1 DEF ProjectionAgrees, SyncAgrees
  <2>3. QED
    BY <1>4, <1>5, <1>e, <2>1, <2>2
<1>6. ASSUME NEW w \in Workers, BeginPoll(w) PROVE Coherent'
  <2>1. /\ \A v \in Runners : ~Active(v)
        /\ UNCHANGED <<log, events, watermark, journal, job>>
        /\ work' = [work EXCEPT ![w].pc = "fetch"]
    BY <1>6, <1>f DEF BeginPoll
  <2>2. work'[w].pc = "fetch" /\ work'[w].phase = work[w].phase /\ OthersIdleBy(w)
    BY <2>1 DEF Works, OthersIdleBy
  <2>3. work[w].phase = "none" /\ job[w].pc = "idle"
    BY <2>1, BusyPhases DEF Active
  <2>4. /\ PollAgrees(work'[w], Old, journal) /\ SyncAgrees(job'[w], log, journal)
        /\ ProjectionAgrees(work'[w], job'[w].pc, Known, Stored, Told, journal)
    BY <2>1, <2>2, <2>3 DEF PollAgrees, ProjectionAgrees, SyncAgrees
  <2>5. QED
    BY <1>4, <2>1, <2>2, <2>4
<1>7. ASSUME NEW w \in Workers, FetchOpenTrades(w) PROVE Coherent'
  <2> DEFINE shown == {<<t, level[t]>> : t \in BrokerOpen}
  <2>1. /\ work[w].pc = "fetch" /\ work' = [work EXCEPT ![w].pc = "list", ![w].current = shown]
        /\ UNCHANGED <<log, events, watermark, journal, job>>
    BY <1>7 DEF FetchOpenTrades, pipelineVars
  <2>2. ASSUME NEW t \in BrokerOpen PROVE t \notin Old /\ journal[t].state # "CLOSED"
    <3>1. t \in Trades /\ ~Closed(log, t)
      BY LegsFound DEF BrokerOpen, Closed
    <3>2. journal[t].state # "CLOSED"
      BY <3>1 DEF Evidence, JournalBacked, Backed
    <3>3. t \notin Old
      BY <3>1 DEF Old, RowsFor, LegOf, Closed, HasLeg, PipelineTyped
    <3>4. QED
      BY <3>2, <3>3
  <2>3. \A c \in shown : c[1] \notin Old /\ journal[c[1]].state # "CLOSED"
    BY <2>2
  <2> HIDE DEF shown
  <2>4. /\ work'[w].pc = "list" /\ work'[w].current = shown /\ work'[w].phase = work[w].phase
        /\ \A v \in Runners \ {w} : work'[v] = work[v]
    BY <2>1 DEF Works
  <2>5. PollAgrees(work'[w], Old, journal)
    BY <2>3, <2>4 DEF PollAgrees
  <2>6. QED
    BY <1>5, <2>1, <2>4, <2>5
<1>8. ASSUME NEW w \in Workers, ListOpenTrades(w) PROVE Coherent'
  <2> DEFINE shown == {c[1] : c \in work[w].current}
             moves == {c[1] : c \in {d \in work[w].current :
                                        d[1] \in OpenInJournal /\ journal[d[1]].level # d[2]}}
  <2>1. /\ work[w].pc = "list" /\ UNCHANGED <<log, events, watermark, journal, job>>
        /\ work' = [work EXCEPT ![w].pc = "diff", ![w].opens = shown \ OpenInJournal,
                                ![w].moves = moves, ![w].gone = OpenInJournal \ shown]
    BY <1>8 DEF ListOpenTrades, pipelineVars
  <2>2. \A t \in OpenInJournal \ shown : t \notin Old /\ \A c \in work[w].current : c[1] # t
    BY <1>o DEF OpenInJournal, Settled, Fits
  <2> HIDE DEF shown, moves
  <2>3. /\ work'[w].pc = "diff" /\ work'[w].gone = OpenInJournal \ shown
        /\ work'[w].current = work[w].current /\ work'[w].write = work[w].write
        /\ work'[w].phase = work[w].phase /\ \A v \in Runners \ {w} : work'[v] = work[v]
    BY <2>1 DEF Works
  <2>4. work[w].write = {}
    BY <2>1, BusyPhases DEF Locking, Phases, InPhase
  <2>5. \A c \in work[w].current : c[1] \notin Old /\ journal[c[1]].state # "CLOSED"
    BY <1>p, <2>1 DEF PollAgrees
  <2>6. PollAgrees(work'[w], Old, journal)
    BY <2>2, <2>3, <2>4, <2>5 DEF PollAgrees
  <2>7. QED
    BY <1>5, <2>1, <2>3, <2>6
(* What holds of a poll that works through its lists.                      *)
<1>9. ASSUME NEW w \in Workers, work[w].pc = "diff"
      PROVE  /\ \A c \in work[w].current : c[1] \notin Old /\ journal[c[1]].state # "CLOSED"
             /\ \A t \in work[w].gone : t \notin Old /\ \A c \in work[w].current : c[1] # t
             /\ \A y \in work[w].write : y.trade \notin Old
             /\ \A y \in work[w].write : y.rec.state = "CLOSED" => \A c \in work[w].current : c[1] # y.trade
             /\ \A y \in work[w].write : y.rec.state # "CLOSED" => \E c \in work[w].current : c[1] = y.trade
             /\ \A t \in work[w].opens \union work[w].moves : \E c \in work[w].current : c[1] = t
  <2>1. PollAgrees(work[w], Old, journal)
    BY <1>p
  <2>2. \A t \in work[w].opens \union work[w].moves : \E c \in work[w].current : c[1] = t
    BY <1>9 DEF JournalTyped
  <2>3. QED
    BY <1>9, <2>1, <2>2 DEF PollAgrees
(* An upsert of a poll.                                                    *)
<1>10. ASSUME NEW w \in Workers, work[w].pc = "diff", UNCHANGED <<log, events, watermark, job>>,
              NEW t \in Trades \ Old, \A u \in Trades \ {t} : journal'[u] = journal[u],
              journal'[t].state = "CLOSED" => \A c \in work[w].current : c[1] # t,
              \A v \in Runners \ {w} : work'[v] = work[v], work'[w].pc = "diff",
              work'[w].gone = work[w].gone, work'[w].current = work[w].current,
              work'[w].write \subseteq work[w].write, work'[w].phase = work[w].phase
       PROVE  Coherent'
  <2>1. Active(w) /\ work'[w].phase = "none" /\ job'[w].pc = "idle" /\ OthersIdleBy(w)
    BY <1>10, BusyPhases DEF Active, OthersIdleBy
  <2>2. UNCHANGED <<Known, Stored, Old, Told>>
    BY <1>10, SameStory
  <2>3. \A u \in Old : Settled(u, journal', Told)
    BY <1>10, <1>o, OldIsStored DEF Settled
  <2>4. \A c \in work[w].current : c[1] \in Trades
    BY DEF Works
  <2>5. \A c \in work[w].current : journal'[c[1]].state # "CLOSED"
    BY <1>9, <1>10, <2>4
  <2>6. PollAgrees(work'[w], Old', journal')
    BY <1>9, <1>10, <2>2, <2>5 DEF PollAgrees
  <2>7. ProjectionAgrees(work'[w], job'[w].pc, Known', Stored', Told', journal')
        /\ SyncAgrees(job'[w], log', journal')
    BY <2>1 DEF ProjectionAgrees, SyncAgrees
  <2>8. QED
    BY <1>e, <2>1, <2>2, <2>3, <2>6, <2>7, CoherentStep
<1>11. ASSUME NEW w \in Workers, NEW t \in Trades, RecordOpened(w, t) PROVE Coherent'
  <2>1. /\ work[w].pc = "diff" /\ t \in work[w].opens /\ UNCHANGED <<log, events, watermark, job>>
        /\ \A u \in Trades \ {t} : journal'[u] = journal[u]
        /\ \A v \in Runners \ {w} : work'[v] = work[v]
    BY <1>11 DEF RecordOpened, pipelineVars
  <2>2. journal'[t].state = "OPEN"
    BY <1>11 DEF RecordOpened, NoTrade
  <2>3. /\ work'[w].pc = "diff" /\ work'[w].gone = work[w].gone /\ work'[w].write = work[w].write
        /\ work'[w].current = work[w].current /\ work'[w].phase = work[w].phase
    BY <1>11, <2>1 DEF RecordOpened, Works
  <2>4. t \notin Old
    BY <1>9, <2>1
  <2>5. QED
    BY <1>10, <2>1, <2>2, <2>3, <2>4
<1>12. ASSUME NEW w \in Workers, NEW t \in Trades, ReadModified(w, t) PROVE Coherent'
  <2> DEFINE rec == [journal[t] EXCEPT !.level = Shown(w, t)]
             ws  == {[trade |-> t, closing |-> FALSE, rec |-> rec]}
  <2>1. rec.state = journal[t].state
    BY DEF Rows
  <2> HIDE DEF rec
  <2>2. /\ work[w].pc = "diff" /\ t \in work[w].moves /\ UNCHANGED <<log, events, watermark, journal, job>>
        /\ work' = [work EXCEPT ![w].moves = @ \ {t}, ![w].write = ws]
    BY <1>12 DEF ReadModified, pipelineVars, rec
  <2>3. \A y \in ws : y.trade = t /\ y.rec.state = journal[t].state
    BY <2>1
  <2> HIDE DEF ws
  <2>4. /\ work'[w].pc = "diff" /\ work'[w].gone = work[w].gone /\ work'[w].write = ws
        /\ work'[w].current = work[w].current /\ work'[w].phase = work[w].phase
        /\ \A v \in Runners \ {w} : work'[v] = work[v]
    BY <2>2 DEF Works
  <2>5. \E c \in work[w].current : c[1] = t
    BY <1>9, <2>2
  <2>6. t \notin Old /\ journal[t].state # "CLOSED"
    BY <1>9, <2>2, <2>5
  <2>7. \A y \in ws : y.trade \notin Old /\ y.rec.state # "CLOSED" /\ \E c \in work[w].current : c[1] = y.trade
    BY <2>3, <2>5, <2>6
  <2>8. PollAgrees(work'[w], Old, journal)
    <3>1. /\ \A c \in work[w].current : c[1] \notin Old /\ journal[c[1]].state # "CLOSED"
          /\ \A u \in work[w].gone : u \notin Old /\ \A c \in work[w].current : c[1] # u
      BY <1>9, <2>2 DEF PollAgrees
    <3>2. QED
      BY <2>4, <2>7, <3>1 DEF PollAgrees
  <2>9. QED
    BY <1>5, <2>2, <2>4, <2>8
<1>13. ASSUME NEW w \in Workers, NEW t \in Trades, NEW evidence \in BOOLEAN, LookUpClosed(w, t, evidence)
       PROVE  Coherent'
  <2>1. /\ work[w].pc = "diff" /\ t \in work[w].gone /\ UNCHANGED <<log, events, watermark, journal, job>>
        /\ \A v \in Runners \ {w} : work'[v] = work[v]
    BY <1>13 DEF LookUpClosed
  <2>2. /\ work'[w].pc = "diff" /\ work'[w].gone \subseteq work[w].gone
        /\ work'[w].current = work[w].current /\ work'[w].phase = work[w].phase
    BY <1>13 DEF LookUpClosed, Works
  <2>3. \A y \in work'[w].write : y.trade = t /\ y.rec.state = "CLOSED"
    BY <1>13 DEF LookUpClosed, Works
  <2>4. t \notin Old /\ \A c \in work[w].current : c[1] # t
    BY <1>9, <2>1
  <2>5. PollAgrees(work'[w], Old, journal)
    BY <1>9, <2>1, <2>2, <2>3, <2>4 DEF PollAgrees
  <2>6. QED
    BY <1>5, <2>1, <2>2, <2>5
<1>14. ASSUME NEW w \in Workers, NEW t \in Trades, DeferClose(w, t) PROVE Coherent'
  <2>1. /\ work[w].pc = "diff" /\ UNCHANGED <<log, events, watermark, journal, job>>
        /\ \A v \in Runners \ {w} : work'[v] = work[v]
    BY <1>14 DEF DeferClose
  <2>2. /\ work'[w].pc = "diff" /\ work'[w].gone \subseteq work[w].gone /\ work'[w].write = work[w].write
        /\ work'[w].current = work[w].current /\ work'[w].phase = work[w].phase
    BY <1>14 DEF DeferClose, Works
  <2>3. PollAgrees(work'[w], Old, journal)
    BY <1>9, <2>1, <2>2 DEF PollAgrees
  <2>4. QED
    BY <1>5, <2>1, <2>2, <2>3
<1>15. ASSUME NEW w \in Workers, EndPoll(w) \/ FailPoll(w) PROVE Coherent'
  <2>1. /\ work[w].pc # "idle" /\ work' = [work EXCEPT ![w] = Rest]
        /\ UNCHANGED <<log, events, watermark, journal, job>>
    BY <1>15 DEF EndPoll, FailPoll, PollDone
  <2>2. work'[w].pc = "idle" /\ work'[w].phase = "none" /\ \A v \in Runners \ {w} : work'[v] = work[v]
    BY <2>1 DEF Rest
  <2>3. PollAgrees(work'[w], Old, journal)
    BY <2>2 DEF PollAgrees
  <2>4. QED
    BY <1>5, <2>1, <2>2, <2>3
(* A step of a projection that leaves the tables alone.                    *)
<1>16. ASSUME NEW r \in Runners, work[r].phase # "none", \A v \in Runners \ {r} : work'[v] = work[v],
              UNCHANGED <<log, events, watermark, journal, job>>, work'[r].pc = work[r].pc,
              ProjectionAgrees(work'[r], job[r].pc, Known, Stored, Told, journal)
       PROVE  Coherent'
  <2>1. Active(r) /\ work'[r].pc = "idle" /\ job'[r].pc = "project" /\ OthersIdleBy(r)
    BY <1>16, BusyPhases DEF Locking, Phases, InPhase, Active, OthersIdleBy
  <2>2. PollAgrees(work'[r], Old, journal) /\ SyncAgrees(job'[r], log, journal)
    BY <2>1 DEF PollAgrees, SyncAgrees
  <2>3. QED
    BY <1>4, <1>16, <1>e, <2>1, <2>2
(* What holds of a projection.                                             *)
<1>17. ASSUME NEW r \in Runners, work[r].phase # "none"
       PROVE  /\ work[r].phase \in {"project", "repair"}
              /\ job[r].pc = "project"
              /\ \A t \in Known : journal[t].state = "CLOSED" => t \in Stored
              /\ \A y \in work[r].write : ~y.closing
              /\ \A y \in work[r].write : y.trade \in Stored => Fits(y.rec, Told[y.trade])
              /\ \A y \in work[r].write : y.trade \notin Stored => y.trade \in Known /\ y.rec.state = "OPEN"
              /\ \A y, z \in work[r].write : y.trade = z.trade
              /\ work[r].phase = "project" =>
                    \A t \in Stored : t \in work[r].project \/ Settled(t, journal, Told)
                                      \/ \E y \in work[r].write : y.trade = t
              /\ work[r].phase = "repair" => \A t \in Stored : Settled(t, journal, Told)
  <2>1. ProjectionAgrees(work[r], job[r].pc, Known, Stored, Told, journal)
    BY <1>q
  <2>2. job[r].pc = "project" /\ work[r].phase \in {"project", "repair"}
    BY <1>17 DEF Locking, Phases, InPhase, Works
  <2>3. QED
    BY <1>17, <2>1, <2>2 DEF ProjectionAgrees
<1>18. ASSUME NEW r \in Runners, ListRepairs(r) PROVE Coherent'
  <2> DEFINE closed == {t \in Trades : journal[t].state = "CLOSED" /\ journal[t].reason = "MANUAL"}
  <2>1. /\ work[r].phase = "project" /\ work[r].project = {} /\ work[r].write = {}
        /\ UNCHANGED <<log, events, watermark, journal, job>>
        /\ work' = [work EXCEPT ![r].phase = "repair", ![r].repair = closed]
    BY <1>18 DEF ListRepairs, pipelineVars
  <2> HIDE DEF closed
  <2>2. /\ work'[r].phase = "repair" /\ work'[r].write = {} /\ work'[r].pc = work[r].pc
        /\ \A v \in Runners \ {r} : work'[v] = work[v]
    BY <2>1 DEF Works
  <2>3. \A t \in Stored : Settled(t, journal, Told)
    BY <1>17, <2>1
  <2>4. \A t \in Known : journal[t].state = "CLOSED" => t \in Stored
    BY <1>17, <2>1
  <2>5. ProjectionAgrees(work'[r], job[r].pc, Known, Stored, Told, journal)
    BY <2>2, <2>3, <2>4 DEF ProjectionAgrees
  <2>6. QED
    BY <1>16, <2>1, <2>2, <2>5
<1>19. ASSUME NEW r \in Runners, NEW t \in Trades, ReadProjection(r, t) PROVE Coherent'
  <2>1. /\ work[r].phase = "project" /\ work[r].write = {}
        /\ UNCHANGED <<log, events, watermark, journal, job>>
    BY <1>19 DEF ReadProjection, pipelineVars
  <2>2. /\ work'[r].phase = "project" /\ work'[r].write = Projection(t) /\ work'[r].pc = work[r].pc
        /\ work'[r].project = work[r].project \ {t}
        /\ \A v \in Runners \ {r} : work'[v] = work[v]
    BY <1>19, <2>1 DEF ReadProjection, Works
  <2>3. /\ \A y \in Projection(t) : y.trade = t /\ ~y.closing /\ t \in Known
        /\ t \in Stored => \A y \in Projection(t) : Fits(y.rec, Told[t])
        /\ t \notin Stored => \A y \in Projection(t) : y.rec.state = "OPEN"
        /\ t \in Stored => journal[t].state = "ABSENT" \/ \E y \in Projection(t) : y.trade = t
    BY ProjectionSays
  <2>4. \A u \in Stored : u \in work'[r].project \/ Settled(u, journal, Told)
                          \/ \E y \in work'[r].write : y.trade = u
    <3>1. \A u \in Stored : u \in work[r].project \/ Settled(u, journal, Told)
      BY <1>17, <2>1
    <3>2. t \in Stored => Settled(t, journal, Told) \/ \E y \in work'[r].write : y.trade = t
      BY <2>2, <2>3 DEF Settled
    <3>3. QED
      BY <2>2, <3>1, <3>2
  <2>5. \A u \in Known : journal[u].state = "CLOSED" => u \in Stored
    BY <1>17, <2>1
  <2>6. job[r].pc # "advance"
    BY <1>17, <2>1
  <2>7. ProjectionAgrees(work'[r], job[r].pc, Known, Stored, Told, journal)
    BY <2>2, <2>3, <2>4, <2>5, <2>6 DEF ProjectionAgrees
  <2>8. QED
    BY <1>16, <2>1, <2>2, <2>7
<1>20. ASSUME NEW r \in Runners, NEW t \in Trades, ReadRepair(r, t) PROVE Coherent'
  <2> DEFINE ws == IF StoredClosing(t) # {} /\ FinalReason(t) = "MIT" THEN Projection(t) ELSE {}
  <2>1. /\ work[r].phase = "repair" /\ work[r].write = {}
        /\ UNCHANGED <<log, events, watermark, journal, job>>
    BY <1>20 DEF ReadRepair, pipelineVars
  <2>2. /\ work'[r].phase = "repair" /\ work'[r].write = ws /\ work'[r].pc = work[r].pc
        /\ \A v \in Runners \ {r} : work'[v] = work[v]
    BY <1>20, <2>1 DEF ReadRepair, Works
  <2>3. /\ \A y \in Projection(t) : y.trade = t /\ ~y.closing /\ t \in Known
        /\ t \in Stored => \A y \in Projection(t) : Fits(y.rec, Told[t])
        /\ t \notin Stored => \A y \in Projection(t) : y.rec.state = "OPEN"
    BY ProjectionSays
  <2>4. ws \subseteq Projection(t)
    OBVIOUS
  <2> HIDE DEF ws
  <2>5. \A u \in Stored : Settled(u, journal, Told)
    BY <1>17, <2>1
  <2>6. \A u \in Known : journal[u].state = "CLOSED" => u \in Stored
    BY <1>17, <2>1
  <2>7. ProjectionAgrees(work'[r], job[r].pc, Known, Stored, Told, journal)
    BY <2>2, <2>3, <2>4, <2>5, <2>6 DEF ProjectionAgrees
  <2>8. QED
    BY <1>16, <2>1, <2>2, <2>7
<1>21. ASSUME NEW r \in Runners, WriteTrade(r) PROVE Coherent'
  <2>1. PICK y \in work[r].write :
           /\ journal' = [journal EXCEPT ![y.trade] =
                            IF y.closing THEN [y.rec EXCEPT !.level = journal[y.trade].level]
                                         ELSE y.rec]
           /\ work' = [work EXCEPT ![r].write = {}]
           /\ UNCHANGED <<pipelineVars, level>>
    BY <1>21 DEF WriteTrade
  <2>2. y.trade \in Trades /\ y.rec \in Rows /\ UNCHANGED <<log, events, watermark, job>>
    BY <2>1 DEF Works, Writes, pipelineVars
  <2>3. [y.rec EXCEPT !.level = journal[y.trade].level].state = y.rec.state
    BY <2>2 DEF Rows
  <2>4. journal'[y.trade].state = y.rec.state /\ \A u \in Trades \ {y.trade} : journal'[u] = journal[u]
    BY <2>1, <2>2, <2>3
  <2>5. /\ work'[r].pc = work[r].pc /\ work'[r].gone = work[r].gone /\ work'[r].current = work[r].current
        /\ work'[r].write = {} /\ work'[r].phase = work[r].phase /\ work'[r].project = work[r].project
        /\ \A v \in Runners \ {r} : work'[v] = work[v]
    BY <2>1 DEF Works
  <2>6. work[r].write # {}
    BY <2>1
  <2>7. CASE work[r].phase = "none"
    <3>1. work[r].pc = "diff" /\ r \in Workers
      BY <2>6, <2>7 DEF Locking, Exclusive, Phases, InPhase, Runners
    <3>2. y.trade \notin Old /\ (y.rec.state = "CLOSED" => \A c \in work[r].current : c[1] # y.trade)
      BY <1>9, <2>1, <3>1
    <3>3. QED
      BY <1>10, <2>2, <2>4, <2>5, <3>1, <3>2
  <2>8. CASE work[r].phase # "none"
    <3>1. /\ ~y.closing /\ (y.trade \in Stored => Fits(y.rec, Told[y.trade]))
          /\ (y.trade \notin Stored => y.rec.state = "OPEN")
          /\ \A z \in work[r].write : z.trade = y.trade
      BY <1>17, <2>1, <2>8
    <3>2. journal'[y.trade] = y.rec
      BY <2>1, <2>2, <3>1
    <3>3. y.trade \in Stored => Settled(y.trade, journal', Told)
      BY <3>1, <3>2 DEF Settled
    <3>4. ASSUME NEW u \in Trades, u \in Stored, Settled(u, journal, Told) PROVE Settled(u, journal', Told)
      BY <2>4, <3>3, <3>4 DEF Settled
    <3>5. UNCHANGED <<Known, Stored, Old, Told>>
      BY <2>2, SameStory
    <3>6. \A u \in Old : Settled(u, journal', Told)
      BY <1>o, <3>4, OldIsStored
    <3>7. Active(r) /\ work'[r].pc = "idle" /\ job'[r].pc = "project" /\ OthersIdleBy(r)
      BY <2>2, <2>5, <2>8, BusyPhases DEF Locking, Phases, InPhase, Active, OthersIdleBy
    <3>8. PollAgrees(work'[r], Old, journal') /\ SyncAgrees(job'[r], log, journal')
      BY <3>7 DEF PollAgrees, SyncAgrees
    <3>9. \A u \in Known : journal'[u].state = "CLOSED" => u \in Stored
      <4>1. \A u \in Known : journal[u].state = "CLOSED" => u \in Stored
        BY <1>17, <2>8
      <4>2. QED
        BY <2>4, <3>1, <4>1, OldIsStored
    <3>10. work[r].phase = "project" =>
              \A u \in Stored : u \in work[r].project \/ Settled(u, journal', Told)
      <4>1. work[r].phase = "project" =>
               \A u \in Stored : u \in work[r].project \/ Settled(u, journal, Told) \/ u = y.trade
        BY <1>17, <2>8, <3>1
      <4>2. QED
        BY <3>3, <3>4, <4>1, OldIsStored
    <3>11. work[r].phase = "repair" => \A u \in Stored : Settled(u, journal', Told)
      BY <1>17, <2>8, <3>4, OldIsStored
    <3>12. ProjectionAgrees(work'[r], job'[r].pc, Known, Stored, Told, journal')
      BY <2>5, <3>7, <3>9, <3>10, <3>11 DEF ProjectionAgrees
    <3>13. QED
      BY <1>e, <2>2, <3>5, <3>6, <3>7, <3>8, <3>12, CoherentStep
  <2>9. QED
    BY <2>7, <2>8
(* A call that ends, or that has no answer at hand.                        *)
<1>22. ASSUME NEW r \in Runners, OthersIdleBy(r), \A v \in Runners \ {r} : ~Active(v),
              UNCHANGED <<log, journal>>, \A t \in Old' : Settled(t, journal, Told'),
              work'[r].pc = "idle", work'[r].phase = "none",
              job'[r].pc \notin {"raw", "events", "advance"}
       PROVE  Coherent'
  <2>1. /\ PollAgrees(work'[r], Old', journal') /\ SyncAgrees(job'[r], log', journal')
        /\ ProjectionAgrees(work'[r], job'[r].pc, Known', Stored', Told', journal')
    BY <1>22, RestAgrees DEF SyncAgrees
  <2>2. QED
    BY <1>22, <2>1, CoherentStep
<1>23. ASSUME NEW r \in Runners, FinishProjection(r) PROVE Coherent'
  <2>1. /\ work[r].phase = "repair" /\ work' = [work EXCEPT ![r] = Rest]
        /\ UNCHANGED <<log, events, watermark, journal>>
        /\ History!Goto(r, IF job[r].more THEN "fetch" ELSE "advance")
    BY <1>23 DEF FinishProjection, History!FinishProjection
  <2>2. work'[r].pc = "idle" /\ work'[r].phase = "none" /\ OthersIdleBy(r)
    BY <2>1 DEF Rest, OthersIdleBy, History!Goto
  <2>3. job'[r].pc \in {"fetch", "advance"} /\ Active(r)
    BY SMTT(20), <1>17, <2>1 DEF History!Goto, History!Jobs, Active
  <2>4. \A t \in Stored : Settled(t, journal, Told)
    BY <1>17, <2>1
  <2>5. /\ PollAgrees(work'[r], Old, journal) /\ SyncAgrees(job'[r], log, journal)
        /\ ProjectionAgrees(work'[r], job'[r].pc, Known, Stored, Told, journal)
    BY <2>2, <2>3, <2>4 DEF PollAgrees, ProjectionAgrees, SyncAgrees
  <2>6. QED
    BY <1>4, <1>e, <2>1, <2>2, <2>3, <2>5
(* Rows of the answer join the table.                                      *)
<1>24. ASSUME NEW w \in Workers, job[w].pc = "events", UNCHANGED <<log, watermark, journal>>,
              events \subseteq events', events' \subseteq events \union History!RowsOf(History!Fetched(w))
       PROVE  Old' = Old /\ \A t \in Old' : Settled(t, journal, Told')
  <2>1. job[w].from = watermark /\ job[w].upto <= Len(log) /\ job[w].upto \in Nat /\ watermark \in Nat
    BY <1>d, <1>24 DEF SyncGoes, PipelineTyped, History!Jobs
  <2>2. \A row \in History!RowsOf(History!Fetched(w)) :
           row[1] \in (watermark + 1) .. job[w].upto /\ row[2] \in DOMAIN log[row[1]]
    BY <1>24, <2>1, FetchedRows
  <2>3. \A row \in events' \ events :
           row[1] > watermark /\ row[1] \in 1 .. Len(log) /\ row[2] \in DOMAIN log[row[1]]
    BY <1>24, <2>1, <2>2
  <2>4. Old' = Old /\ \A t \in Old : Told'[t] = Told[t]
    BY <1>24, <1>l, <2>3, RowsAbove
  <2>5. QED
    BY <1>o, <2>4 DEF Settled
<1>25. ASSUME NEW w \in Workers, PersistEvents(w) PROVE Coherent'
  <2> DEFINE rows == History!RowsOf(History!Fetched(w))
             named == {log[row[1]][row[2]].trade : row \in rows}
  <2>1. /\ job[w].pc = "events" /\ UNCHANGED <<log, watermark, base, journal>> /\ History!Goto(w, "project")
        /\ events' = events \union rows
        /\ work' = [work EXCEPT ![w].phase = "project", ![w].project = named]
    BY <1>25 DEF PersistEvents, History!PersistEvents
  <2>2. Old' = Old /\ \A t \in Old' : Settled(t, journal, Told')
    BY <1>24, <2>1
  <2>3. job[w].from = watermark /\ job[w].upto \in Nat /\ watermark \in Nat
    BY <1>d, <2>1 DEF SyncGoes, PipelineTyped, History!Jobs
  <2>4. /\ job'[w].pc = "project" /\ job'[w].upto = job[w].upto
        /\ \A v \in Runners \ {w} : job'[v] = job[v]
    BY <2>1 DEF History!Goto, History!Jobs
  <2>5. \A i \in (watermark + 1) .. job[w].upto : \A k \in DOMAIN log[i] : <<i, k>> \in rows
    BY <2>1, <2>3, FetchedRows
  <2> HIDE DEF rows, named
  <2>6. /\ work'[w].phase = "project" /\ work'[w].project = named /\ work'[w].pc = work[w].pc
        /\ work'[w].write = work[w].write /\ \A v \in Runners \ {w} : work'[v] = work[v]
    BY <2>1 DEF Works
  <2>7. Active(w) /\ work[w].pc = "idle" /\ work[w].write = {} /\ OthersIdleBy(w)
    BY <2>1, <2>4, <2>6, BusyPhases DEF Active, OthersIdleBy
  <2>8. /\ base \in Int /\ \A row \in events' : row[1] > base /\ row[1] <= job[w].upto
        /\ \A i \in (base + 1) .. job[w].upto : \A k \in DOMAIN log[i] : <<i, k>> \in events'
    <3>1. Whole' /\ SyncGoes(job[w])'
      BY <1>b DEF Flowing, Flow
    <3>2. watermark' # History!NoWatermark /\ base \in Int
      BY <1>d, <2>1 DEF SyncGoes, Whole
    <3>3. \A row \in events' : row[1] > base'
      BY <3>1, <3>2 DEF Whole, History!NoWatermark
    <3>4. (\A row \in events' : row[1] <= job'[w].upto) /\ StoredTo(job[w].upto)'
      BY <2>4, <3>1 DEF SyncGoes
    <3>5. QED
      BY <2>1, <2>4, <3>2, <3>3, <3>4 DEF StoredTo
  <2>9. \A row : LegOf(row)' = LegOf(row) /\ LegOf(row) = log[row[1]][row[2]]
    BY <2>1 DEF LegOf
  <2>10. \A row \in events' : row[1] \in 1 .. Len(log) /\ row[2] \in DOMAIN log[row[1]]
    BY <2>1, RowsAreLegs DEF PipelineTyped, rows
  <2>11. ASSUME NEW t \in Known', journal[t].state = "CLOSED" PROVE t \in Stored'
    <3>1. PICK row \in events' : LegOf(row).trade = t /\ t \in Trades
      BY <2>9 DEF Known, RowsFor
    <3>2. SyncAgrees(job[w], log, journal)
      BY <1>s
    <3>10. PICK i \in 1 .. job[w].upto :
              \E k \in DOMAIN log[i] : log[i][k].type = "CLOSE" /\ log[i][k].trade = t
      BY <2>1, <2>11, <3>1, <3>2 DEF SyncAgrees
    <3>3. PICK k \in DOMAIN log[i] : log[i][k].type = "CLOSE" /\ log[i][k].trade = t
      BY <3>10
    <3>4. job[w].upto <= Len(log)
      BY <2>1 DEF PipelineTyped
    <3>5. i \in 1 .. Len(log)
      BY <2>3, <3>3, <3>4
    <3>6. row[1] <= i
      BY <1>l, <2>9, <2>10, <3>1, <3>3, <3>5 DEF ClosesLast
    <3>7. i \in (base + 1) .. job[w].upto
      BY <2>3, <2>8, <2>10, <3>1, <3>3, <3>6
    <3>8. <<i, k>> \in events' /\ LegOf(<<i, k>>) = log[i][k]
      BY <2>8, <2>9, <3>3, <3>7
    <3>9. QED
      BY <2>9, <3>1, <3>3, <3>8 DEF Stored, RowsFor
  <2>12. ASSUME NEW t \in Stored' PROVE t \in named \/ Settled(t, journal, Told')
    <3>1. PICK row \in events' : LegOf(row).type = "CLOSE" /\ LegOf(row).trade = t /\ t \in Trades
      BY <2>9 DEF Stored, RowsFor
    <3>2. CASE row[1] <= watermark
      <4>1. t \in Old'
        BY <2>1, <2>9, <3>1, <3>2 DEF Old, RowsFor
      <4>2. QED
        BY <2>2, <4>1
    <3>3. CASE row[1] > watermark
      <4>1. row[1] \in (watermark + 1) .. job[w].upto
        BY <2>3, <2>8, <2>10, <3>1, <3>3
      <4>2. <<row[1], row[2]>> \in rows
        BY <2>5, <2>10, <3>1, <4>1
      <4>3. QED
        BY <2>9, <3>1, <4>2 DEF named
    <3>4. QED
      BY <2>3, <2>10, <3>1, <3>2, <3>3
  <2>13. /\ PollAgrees(work'[w], Old', journal') /\ SyncAgrees(job'[w], log', journal')
         /\ ProjectionAgrees(work'[w], job'[w].pc, Known', Stored', Told', journal')
    BY <2>1, <2>4, <2>6, <2>7, <2>11, <2>12 DEF PollAgrees, SyncAgrees, ProjectionAgrees
  <2>14. QED
    BY <1>e, <2>1, <2>2, <2>7, <2>13, CoherentStep
<1>26. ASSUME NEW r \in Runners, FailHistory(r) PROVE Coherent'
  <2>1. /\ job[r].pc # "idle" /\ job' = [job EXCEPT ![r] = History!Idle] /\ work' = [work EXCEPT ![r] = Rest]
        /\ UNCHANGED <<log, watermark, base, journal>>
    BY <1>26 DEF FailHistory, History!Fail, History!EndCall
  <2>2. History!Idle.pc = "idle" /\ Rest.pc = "idle" /\ Rest.phase = "none"
    BY DEF History!Idle, Rest
  <2> HIDE DEF History!Idle
  <2>3. /\ work'[r].pc = "idle" /\ work'[r].phase = "none" /\ job'[r].pc = "idle" /\ Active(r)
        /\ OthersIdleBy(r) /\ r \in Workers
    BY <1>d, <2>1, <2>2 DEF Active, OthersIdleBy, Runners
  <2>4. CASE job[r].pc = "events"
    <3>1. PICK cut \in History!RowsOf(History!Fetched(r)) :
             events' = events \union History!RowsBefore(History!Fetched(r), cut)
      BY <1>26, <2>4 DEF FailHistory, History!Fail
    <3>2. events \subseteq events' /\ events' \subseteq events \union History!RowsOf(History!Fetched(r))
      BY <3>1 DEF History!RowsBefore
    <3>3. \A t \in Old' : Settled(t, journal, Told')
      BY <1>24, <2>1, <2>3, <2>4, <3>2
    <3>4. QED
      BY <1>22, <1>e, <2>1, <2>3, <3>3
  <2>5. CASE job[r].pc # "events"
    <3>1. UNCHANGED events
      BY <1>26, <2>5 DEF FailHistory, History!Fail
    <3>2. \A t \in Old' : Settled(t, journal, Told')
      BY <1>o, <2>1, <3>1, SameStory
    <3>3. QED
      BY <1>22, <1>e, <2>1, <2>3, <3>2
  <2>6. QED
    BY <2>4, <2>5
(* A step of the pipeline before its rows are stored.                      *)
<1>27. ASSUME NEW w \in Workers, job[w].pc # "project", \A v \in Runners \ {w} : ~Active(v) /\ job'[v] = job[v],
              work' = work, UNCHANGED <<log, events, watermark, journal>>, work[w].pc = "idle",
              job'[w].pc # "advance", SyncAgrees(job'[w], log, journal)
       PROVE  Coherent'
  <2>1. work'[w].pc = "idle" /\ work'[w].phase = "none" /\ OthersIdleBy(w)
    BY <1>27, BusyPhases DEF OthersIdleBy
  <2>2. PollAgrees(work'[w], Old, journal)
        /\ ProjectionAgrees(work'[w], job'[w].pc, Known, Stored, Told, journal)
    BY <1>27, <2>1, RestAgrees
  <2>3. QED
    BY <1>4, <1>27, <2>1, <2>2
<1>28. ASSUME NEW w \in Workers, BeginSync(w) PROVE Coherent'
  <2>1. /\ UNCHANGED <<log, events, watermark, journal, work>> /\ holders = {} /\ owner = "server"
        /\ work[w].pc = "idle" /\ job[w].pc = "idle"
    BY <1>28 DEF BeginSync, History!BeginSync, Serialised, Aside
  <2>2. PICK seen \in History!ReadWatermark :
           job' = [job EXCEPT ![w] = IF seen = History!NoWatermark
                                       THEN [History!Idle EXCEPT !.pc = "details"]
                                       ELSE [History!Idle EXCEPT !.pc = "fetch", !.from = seen]]
    BY <1>28 DEF BeginSync, History!BeginSync
  <2>3. [History!Idle EXCEPT !.pc = "details"].pc = "details"
        /\ [History!Idle EXCEPT !.pc = "fetch", !.from = seen].pc = "fetch"
    BY DEF History!Idle
  <2>4. job'[w].pc \in {"details", "fetch"} /\ \A v \in Runners \ {w} : job'[v] = job[v]
    BY <2>2, <2>3
  <2>5. SyncAgrees(job'[w], log, journal)
    BY <2>4 DEF SyncAgrees
  <2>6. QED
    BY <1>27, <1>f, <2>1, <2>4, <2>5
<1>29. ASSUME NEW w \in Workers, History!FetchDetails(w), Aside PROVE Coherent'
  <2>1. /\ UNCHANGED <<log, events, watermark, journal, work>> /\ job[w].pc = "details"
        /\ job'[w].pc = "initialise" /\ \A v \in Runners \ {w} : job'[v] = job[v]
    BY <1>29 DEF History!FetchDetails, Aside, History!Jobs
  <2>2. Active(w) /\ work[w].pc = "idle" /\ SyncAgrees(job'[w], log, journal)
    BY <2>1, BusyPhases DEF Active, SyncAgrees
  <2>3. QED
    BY <1>27, <1>e, <2>1, <2>2
<1>30. ASSUME NEW w \in Workers, History!FetchSince(w), Aside PROVE Coherent'
  <2>1. /\ UNCHANGED <<log, events, watermark, journal, work>> /\ job[w].pc = "fetch"
        /\ job'[w].pc = "raw" /\ job'[w].upto = Len(log) /\ \A v \in Runners \ {w} : job'[v] = job[v]
    BY <1>30 DEF History!FetchSince, Aside, History!Jobs
  <2>2. \A t \in Trades : journal[t].state = "CLOSED" => Closed(log, t)
    BY DEF Evidence, JournalBacked, Backed
  <2>3. SyncAgrees(job'[w], log, journal)
    BY <2>1, <2>2 DEF SyncAgrees, Closed, HasLeg
  <2>4. Active(w) /\ work[w].pc = "idle"
    BY <2>1, BusyPhases DEF Active
  <2>5. QED
    BY <1>27, <1>e, <2>1, <2>3, <2>4
<1>31. ASSUME NEW w \in Workers, History!PersistRaw(w), Aside PROVE Coherent'
  <2>1. /\ UNCHANGED <<log, events, watermark, journal, work>> /\ job[w].pc = "raw"
        /\ job'[w].pc = "events" /\ job'[w].upto = job[w].upto /\ \A v \in Runners \ {w} : job'[v] = job[v]
    BY <1>31 DEF History!PersistRaw, History!Goto, Aside, History!Jobs
  <2>2. SyncAgrees(job'[w], log, journal)
    BY <1>s, <2>1 DEF SyncAgrees
  <2>3. Active(w) /\ work[w].pc = "idle"
    BY <2>1, BusyPhases DEF Active
  <2>4. QED
    BY <1>27, <1>e, <2>1, <2>2, <2>3
(* The watermark moves: over no rows, or over the rows of closed trades    *)
(* that the projection has settled.                                        *)
<1>32. ASSUME NEW w \in Workers, job[w].pc \notin {"idle", "project"}, work' = work,
              UNCHANGED <<log, events, journal>>, job' = [job EXCEPT ![w] = History!Idle],
              \A t \in Old' : Settled(t, journal, Told)
       PROVE  Coherent'
  <2>1. work'[w].pc = "idle" /\ work'[w].phase = "none" /\ job'[w].pc = "idle" /\ OthersIdleBy(w) /\ Active(w)
    BY <1>32, BusyPhases DEF History!Idle, OthersIdleBy, Active
  <2>2. Told' = Told
    BY <1>32, SameRows
  <2>3. QED
    BY <1>22, <1>32, <1>e, <2>1, <2>2
<1>33. ASSUME NEW w \in Workers, History!InitialiseWatermark(w), Aside PROVE Coherent'
  <2>1. /\ job[w].pc = "initialise" /\ UNCHANGED <<log, events, journal, work>>
        /\ job' = [job EXCEPT ![w] = History!Idle]
    BY <1>33 DEF History!InitialiseWatermark, History!EndCall, Aside
  <2>2. events' = {}
    BY <1>d, <2>1 DEF SyncGoes, Whole
  <2>3. Old' = {}
    BY <2>2 DEF Old, RowsFor
  <2>4. QED
    BY <1>32, <2>1, <2>3
<1>34. ASSUME NEW w \in Workers, History!AdvanceSync(w), Aside PROVE Coherent'
  <2>1. /\ job[w].pc = "advance" /\ UNCHANGED <<log, events, journal, work>>
        /\ job' = [job EXCEPT ![w] = History!Idle]
    BY <1>34 DEF History!AdvanceSync, History!EndCall, Aside
  <2>2. \A t \in Stored : Settled(t, journal, Told)
    BY <1>q, <2>1 DEF ProjectionAgrees
  <2>3. Old' \subseteq Stored' /\ Stored' = Stored
    BY <2>1, SameRows DEF Old, Stored
  <2>4. QED
    BY <1>32, <2>1, <2>2, <2>3
<1>35. CASE BackfillPipelineStep
  BY <1>35, <1>d DEF BackfillPipelineStep, History!FetchChunk, History!PersistRaw, History!AdvanceBackfill
<1>36. ASSUME NEW first \in 1 .. MaxLog, NEW last \in 1 .. MaxLog, BeginBackfill(first, last)
       PROVE  Coherent'
  BY <1>36, <1>b DEF BeginBackfill, History!BeginBackfill
<1>37. ASSUME NEW t \in Trades, NEW l \in Levels, BrokerMovesLevel(t, l) PROVE Coherent'
  BY <1>37, <1>1 DEF BrokerMovesLevel, pipelineVars
<1>38. CASE OpenServer \/ CloseServer
  BY <1>38, <1>1 DEF OpenServer, CloseServer, History!OpenServer, History!CloseServer, Aside
<1>39. CASE UNCHANGED vars
  BY <1>39, <1>1 DEF vars
<1>40. ASSUME NEW r \in Runners, ProjectionStep(r) PROVE Coherent'
  <2>1. CASE PersistEvents(r)
    <3>1. r \in Workers
      BY <1>d, <2>1 DEF Runners, PersistEvents, History!PersistEvents
    <3>2. QED
      BY <1>25, <2>1, <3>1
  <2>2. QED
    BY <1>40, <1>18, <1>19, <1>20, <1>21, <1>23, <2>1 DEF ProjectionStep
<1>41. ASSUME NEW w \in Workers, PollStep(w) PROVE Coherent'
  BY <1>41, <1>7, <1>8, <1>11, <1>12, <1>13, <1>15 DEF PollStep
<1>42. ASSUME NEW w \in Workers, PipelineStep(w) PROVE Coherent'
  BY <1>42, <1>29, <1>30, <1>31, <1>33, <1>34 DEF PipelineStep
<1>43. ASSUME NEW r \in Runners, Step(r) PROVE Coherent'
  BY <1>43, <1>35, <1>40, <1>41, <1>42 DEF Step
<1>44. ASSUME NEW r \in Runners, Faulty(r) PROVE Coherent'
  BY <1>44, <1>13, <1>14, <1>15, <1>26 DEF Faulty
<1>45. QED
  BY <1>2, <1>3, <1>6, <1>28, <1>36, <1>37, <1>38, <1>39, <1>43, <1>44 DEF Next

-----------------------------------------------------------------------------
(* Closed trades stay closed, and the synced journal agrees.               *)

LEMMA AgreeInvariant ==
  ASSUME Serialised, ~ReadFaults PROVE Spec => [](JournalInv /\ Flowing /\ Agreeing)
<1>1. Init => Flowing /\ Agreeing
  BY InitFlowing, InitAgreeing
<1>2. JournalInv /\ Flowing /\ Agreeing /\ [Next]_vars => Flowing' /\ Agreeing'
  BY FlowInductive, CoherentInductive DEF JournalInv
<1>3. QED
  BY <1>1, <1>2, JournalInvariant, PTL DEF Spec

(* Only two steps write the journal.                                       *)
LEMMA JournalSteps ==
  ASSUME [Next]_vars
  PROVE  \/ UNCHANGED journal
         \/ \E r \in Runners : WriteTrade(r)
         \/ \E w \in Workers, t \in Trades : RecordOpened(w, t)
<1> Workers \subseteq Runners
  BY DEF Runners
<1>1. ASSUME NEW r \in Runners, ProjectionStep(r), ~WriteTrade(r) PROVE UNCHANGED journal
  BY <1>1 DEF ProjectionStep, PersistEvents, ListRepairs, FinishProjection, ReadProjection, ReadRepair
<1>2. ASSUME NEW w \in Workers, PollStep(w), \A t \in Trades : ~RecordOpened(w, t)
      PROVE  UNCHANGED journal
  BY <1>2 DEF PollStep, FetchOpenTrades, ListOpenTrades, EndPoll, ReadModified, LookUpClosed
<1>3. ASSUME NEW r \in Runners, PipelineStep(r) \/ BackfillPipelineStep PROVE UNCHANGED journal
  BY <1>3 DEF PipelineStep, BackfillPipelineStep, Aside
<1>4. ASSUME NEW r \in Runners, Faulty(r) PROVE UNCHANGED journal
  BY <1>4 DEF Faulty, FailHistory, FailPoll, DeferClose, LookUpClosed
<1>5. ASSUME NEW first \in 1 .. MaxLog, NEW last \in 1 .. MaxLog, BeginBackfill(first, last)
      PROVE  UNCHANGED journal
  BY <1>5 DEF BeginBackfill, Aside
<1>6. ASSUME NEW w \in Workers, BeginPoll(w) \/ BeginSync(w) PROVE UNCHANGED journal
  BY <1>6 DEF BeginPoll, BeginSync, Aside
<1>7. ASSUME OpenServer \/ CloseServer \/ Crash PROVE UNCHANGED journal
  BY <1>7 DEF OpenServer, CloseServer, Crash, Aside
<1>8. ASSUME NEW tx \in Transactions, BrokerFill(tx) PROVE UNCHANGED journal
  BY <1>8 DEF BrokerFill
<1>9. ASSUME NEW t \in Trades, NEW l \in Levels, BrokerMovesLevel(t, l) PROVE UNCHANGED journal
  BY <1>9 DEF BrokerMovesLevel
<1>10. CASE UNCHANGED vars
  BY <1>10 DEF vars
<1>11. QED
  BY <1>1, <1>2, <1>3, <1>4, <1>5, <1>6, <1>7, <1>8, <1>9, <1>10 DEF Next, Step

LEMMA NothingReopens ==
  ASSUME JournalInv, Agreeing, backfills = 0, [Next]_vars,
         NEW t \in Trades, journal[t].state = "CLOSED"
  PROVE  journal'[t].state = "CLOSED"
<1> JournalTyped /\ Locking /\ work \in [Runners -> Works] /\ journal \in [Trades -> Rows]
  BY DEF JournalInv, Typed, JournalTyped
<1>p. \A r \in Runners : PollAgrees(work[r], Old, journal)
                         /\ ProjectionAgrees(work[r], job[r].pc, Known, Stored, Told, journal)
  BY DEF Agreeing, Coherent, CallAgrees
<1>1. CASE UNCHANGED journal
  BY <1>1
<1>2. ASSUME NEW w \in Workers, NEW u \in Trades, RecordOpened(w, u) PROVE journal'[t].state = "CLOSED"
  <2>1. /\ work[w].pc = "diff" /\ u \in work[w].opens /\ w \in Runners
        /\ \A v \in Trades \ {u} : journal'[v] = journal[v]
    BY <1>2 DEF RecordOpened, Runners
  <2>2. PICK c \in work[w].current : c[1] = u
    BY <2>1 DEF JournalTyped
  <2>3. journal[u].state # "CLOSED"
    BY <1>p, <2>1, <2>2 DEF PollAgrees
  <2>4. QED
    BY <2>1, <2>3
<1>3. ASSUME NEW r \in Runners, WriteTrade(r) PROVE journal'[t].state = "CLOSED"
  <2>1. PICK y \in work[r].write :
           journal' = [journal EXCEPT ![y.trade] =
                          IF y.closing THEN [y.rec EXCEPT !.level = journal[y.trade].level]
                                       ELSE y.rec]
    BY <1>3 DEF WriteTrade
  <2>2. y.trade \in Trades /\ y.rec \in Rows
    BY DEF Works, Writes
  <2>3. [y.rec EXCEPT !.level = journal[y.trade].level].state = y.rec.state
    BY <2>2 DEF Rows
  <2>4. journal'[y.trade].state = y.rec.state /\ \A u \in Trades \ {y.trade} : journal'[u] = journal[u]
    BY <2>1, <2>2, <2>3
  <2>5. work[r].write # {}
    BY <2>1
  <2>6. ASSUME y.rec.state # "CLOSED" PROVE journal[y.trade].state # "CLOSED"
    <3>1. CASE work[r].phase = "none"
      <4>1. work[r].pc = "diff"
        BY <2>5, <3>1 DEF Locking, Phases, InPhase
      <4>2. PICK c \in work[r].current : c[1] = y.trade
        BY <1>p, <2>6, <4>1 DEF PollAgrees
      <4>3. QED
        BY <1>p, <4>1, <4>2 DEF PollAgrees
    <3>2. CASE work[r].phase # "none"
      <4>1. y.trade \in Stored => Fits(y.rec, Told[y.trade])
        BY <1>p, <3>2 DEF ProjectionAgrees
      <4>2. y.trade \notin Stored
        BY <2>6, <4>1 DEF Fits
      <4>3. y.trade \in Known
        BY <1>p, <3>2, <4>2 DEF ProjectionAgrees
      <4>4. QED
        BY <1>p, <3>2, <4>2, <4>3 DEF ProjectionAgrees
    <3>3. QED
      BY <3>1, <3>2
  <2>7. QED
    BY <2>4, <2>6
<1>4. QED
  BY <1>1, <1>2, <1>3, JournalSteps

NoBackfill == backfills = 0

(* Without backfills and with reads that answer, a trade the journal shows *)
(* closed is never shown open again: not by a poll that was shown it open  *)
(* (its answer would be older than the close), and not by a projection     *)
(* from events that lack its CLOSE (JournalService.handle_trade_opened,    *)
(* _project_trade_record).  With a backfill it may be.                     *)
THEOREM ClosedStaysClosed ==
  ASSUME Serialised, ~ReadFaults, MaxBackfills = 0 PROVE Spec => NeverReopened
<1>1. Init => NoBackfill
  BY DEF Init, History!Init, NoBackfill
<1>2. NoBackfill /\ [Next]_vars => NoBackfill'
  BY BackfillsGrow DEF BeginBackfill, History!BeginBackfill, NoBackfill
<1>3. Spec => []NoBackfill
  BY <1>1, <1>2, PTL DEF Spec
<1>4. JournalInv /\ Agreeing /\ NoBackfill /\ [Next]_vars =>
         [\A t \in Trades : journal[t].state = "CLOSED" => journal'[t].state = "CLOSED"]_journal
  BY NothingReopens DEF NoBackfill
<1>5. QED
  BY <1>3, <1>4, AgreeInvariant, PTL DEF Spec, NeverReopened

(* Without backfills and with reads that answer, the journal of a synced   *)
(* and quiet system agrees with the stored events about every trade they   *)
(* show closed, whoever wrote its record first and with whatever evidence, *)
(* however many syncs and polls failed or died before.                     *)
THEOREM JournalAgrees ==
  ASSUME Serialised, ~ReadFaults PROVE Spec => []SyncedJournalAgrees
<1>1. ASSUME JournalInv, Agreeing, watermark = Len(log), backfills = 0, NEW t \in Trades,
             \E row \in RowsFor(t) : LegOf(row).type = "CLOSE", journal[t].state # "ABSENT"
      PROVE  /\ journal[t].state = "CLOSED"
             /\ journal[t].pnl = {row[1] : row \in StoredClosing(t)}
             /\ journal[t].reason = FinalReason(t)
  <2>1. PICK row \in RowsFor(t) : LegOf(row).type = "CLOSE"
    BY <1>1
  <2>2. row[1] <= watermark
    BY <1>1, <2>1 DEF RowsFor, JournalInv, Typed, PipelineTyped
  <2>3. t \in Old
    BY <2>1, <2>2 DEF Old
  <2>4. Fits(journal[t], Told[t])
    BY <1>1, <2>3 DEF Agreeing, Coherent, Settled
  <2>5. Told[t].pnl = {x[1] : x \in StoredClosing(t)} /\ Told[t].reason = FinalReason(t)
    BY DEF Told
  <2>6. QED
    BY <2>4, <2>5 DEF Fits
<1>2. JournalInv /\ Agreeing => SyncedJournalAgrees
  BY <1>1 DEF SyncedJournalAgrees
<1>3. QED
  BY <1>2, AgreeInvariant, PTL
=============================================================================
