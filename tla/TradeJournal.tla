---------------------------- MODULE TradeJournal ----------------------------
(***************************************************************************)
(* The trades table and its two writers: the open-trade poller             *)
(* (background/poller_task.py with journal/journal_service.py), which      *)
(* diffs the broker's open trades against the journal, and the projection  *)
(* of trade-history events (trade_history_service.py), which runs inside   *)
(* every sync and every backfill chunk of HistorySync.  The poller always  *)
(* runs under the runtime lock; projection runs under it only when its     *)
(* sync does.                                                              *)
(*                                                                         *)
(* Data: a trade keeps its state, one protective level (stop loss and take *)
(* profit), a close reason and, for the realized P/L, the set of broker    *)
(* transactions it sums.                                                   *)
(***************************************************************************)
EXTENDS Integers, Sequences, FiniteSets

CONSTANTS
    Trades,           \* trade ids
    Levels,           \* protective levels, among them "none"
    Transactions,     \* fills the broker may append: sequences of legs
    Workers, UnlockedReaders, Cli, ReadFaults, GapWindows,
    MaxLog, MaxFaults, MaxBackfills

ASSUME LevelsType == "none" \in Levels
ASSUME LogBound   == MaxLog \in Nat
ASSUME RunnersType == UnlockedReaders \subseteq Workers /\ Cli \notin Workers

(* A fill is a sequence of legs, as normalize_order_fill makes of it.      *)
Legs == [type : STRING, trade : Trades, cause : STRING]

ASSUME FillsType == Transactions \subseteq Seq(Legs)

VARIABLES
    log, raw, events, watermark, base, job, holders, owner, faults, backfills,
    level,    \* external: the protective level the broker shows for each trade
    journal,  \* the trades table
    work      \* poller and projection state of each runner

pipelineVars == <<log, raw, events, watermark, base, job, holders, owner, faults, backfills>>
vars == <<log, raw, events, watermark, base, job, holders, owner, faults, backfills,
          level, journal, work>>

History == INSTANCE HistorySync WITH RowCount <- [tx \in Transactions |-> Len(tx)]

Runners == Workers \union {Cli}

(* The legs normalize_order_fill makes of a fill; a flip closes one trade  *)
(* and opens another.                                                      *)
Leg(type, t, cause) == [type |-> type, trade |-> t, cause |-> cause]
OpenFill(t)     == <<Leg("OPEN", t, "MARKET")>>
CloseFill(t, c) == <<Leg("CLOSE", t, c)>>
ReduceFill(t)   == <<Leg("PARTIAL_CLOSE", t, "MARKET")>>
FlipFill(t, u)  == <<Leg("OPEN", u, "MARKET"), Leg("CLOSE", t, "MARKET")>>

NoTrade == [state |-> "ABSENT", level |-> "none", reason |-> "NONE", pnl |-> {}]

(* pc, current, opens, moves, gone and deferred belong to a poll; phase,   *)
(* project and repair to a projection; write is the upsert to come.        *)
Rest == [pc |-> "idle", current |-> {}, opens |-> {}, moves |-> {}, gone |-> {},
         deferred |-> FALSE, phase |-> "none", project |-> {}, repair |-> {}, write |-> {}]

Init ==
    /\ History!Init
    /\ level = [t \in Trades |-> "none"]
    /\ journal = [t \in Trades |-> NoTrade]
    /\ work = [r \in Runners |-> Rest]

-----------------------------------------------------------------------------
(* The broker (external)                                                   *)

(* The ids of the transactions with a leg of one of these types for t.     *)
WithLeg(types, t) ==
    {i \in 1 .. Len(log) : \E k \in DOMAIN log[i] : log[i][k].type \in types /\ log[i][k].trade = t}

Closing == {"CLOSE", "PARTIAL_CLOSE"}

BrokerOpen == {t \in Trades : WithLeg({"OPEN"}, t) # {} /\ WithLeg({"CLOSE"}, t) = {}}

(* A trade opens once, is reduced at most once here, and closes once.      *)
Legal(leg) ==
    \/ leg.type = "OPEN" /\ WithLeg({"OPEN"}, leg.trade) = {}
    \/ leg.type = "PARTIAL_CLOSE" /\ leg.trade \in BrokerOpen /\ WithLeg({"PARTIAL_CLOSE"}, leg.trade) = {}
    \/ leg.type = "CLOSE" /\ leg.trade \in BrokerOpen

BrokerFill(tx) ==
    /\ \A k \in DOMAIN tx : Legal(tx[k])
    /\ History!BrokerCommit(tx)
    /\ UNCHANGED <<level, journal, work>>

BrokerMovesLevel(t, l) ==
    /\ t \in BrokerOpen /\ l # level[t]
    /\ level' = [level EXCEPT ![t] = l]
    /\ UNCHANGED <<pipelineVars, journal, work>>

-----------------------------------------------------------------------------
(* The poller: one run of _poll_once_sync under the runtime lock           *)

OpenInJournal == {t \in Trades : journal[t].state = "OPEN"}

(* Seeded fault: sync_open_trades without write=True.                      *)
BeginPollWithoutLock(w) ==
    /\ owner = "server" /\ w \notin UnlockedReaders
    /\ job[w].pc = "idle" /\ work[w].pc = "idle"
    /\ work' = [work EXCEPT ![w].pc = "fetch"]
    /\ UNCHANGED <<pipelineVars, level, journal>>

BeginPoll(w) ==
    /\ owner = "server" /\ w \notin UnlockedReaders
    /\ job[w].pc = "idle" /\ work[w].pc = "idle"
    /\ holders = {} /\ holders' = {w}
    /\ work' = [work EXCEPT ![w].pc = "fetch"]
    /\ UNCHANGED <<log, raw, events, watermark, base, job, owner, faults, backfills, level, journal>>

(* get_open_trades_sync                                                    *)
FetchOpenTrades(w) ==
    /\ work[w].pc = "fetch"
    /\ work' = [work EXCEPT ![w].pc = "list",
                            ![w].current = {<<t, level[t]>> : t \in BrokerOpen}]
    /\ UNCHANGED <<pipelineVars, level, journal>>

(* Seeded fault: changed levels are not noticed.                           *)
ListOpenTradesNoMoves(w) ==
    LET shown == {c[1] : c \in work[w].current}
    IN  /\ work[w].pc = "list"
        /\ work' = [work EXCEPT ![w].pc = "diff",
                                ![w].opens = shown \ OpenInJournal,
                                ![w].gone = OpenInJournal \ shown]
        /\ UNCHANGED <<pipelineVars, level, journal>>

(* Seeded fault: closes are left to the history.                           *)
ListOpenTradesNoGone(w) ==
    LET shown == {c[1] : c \in work[w].current}
    IN  /\ work[w].pc = "list"
        /\ work' = [work EXCEPT ![w].pc = "diff",
                                ![w].opens = shown \ OpenInJournal,
                                ![w].moves = {c[1] : c \in {d \in work[w].current :
                                                 d[1] \in OpenInJournal /\ journal[d[1]].level # d[2]}}]
        /\ UNCHANGED <<pipelineVars, level, journal>>

(* trade_repository.list_open, and the two loops it feeds.                 *)
ListOpenTrades(w) ==
    LET shown == {c[1] : c \in work[w].current}
    IN  /\ work[w].pc = "list"
        /\ work' = [work EXCEPT ![w].pc = "diff",
                                ![w].opens = shown \ OpenInJournal,
                                ![w].moves = {c[1] : c \in {d \in work[w].current :
                                                 d[1] \in OpenInJournal /\ journal[d[1]].level # d[2]}},
                                ![w].gone = OpenInJournal \ shown]
        /\ UNCHANGED <<pipelineVars, level, journal>>

Shown(w, t) == (CHOOSE c \in work[w].current : c[1] = t)[2]

(* handle_trade_opened replaces the whole record.                          *)
RecordOpened(w, t) ==
    /\ work[w].pc = "diff" /\ t \in work[w].opens
    /\ journal' = [journal EXCEPT ![t] = [NoTrade EXCEPT !.state = "OPEN", !.level = Shown(w, t)]]
    /\ work' = [work EXCEPT ![w].opens = @ \ {t}]
    /\ UNCHANGED <<pipelineVars, level>>

(* handle_trade_modified reads the record, then upserts it.                *)
ReadModified(w, t) ==
    /\ work[w].pc = "diff" /\ t \in work[w].moves /\ work[w].write = {}
    /\ work' = [work EXCEPT ![w].moves = @ \ {t},
                            ![w].write = {[trade |-> t, closing |-> FALSE,
                                           rec |-> [journal[t] EXCEPT !.level = Shown(w, t)]]}]
    /\ UNCHANGED <<pipelineVars, level, journal>>

(* A trade the broker no longer shows: get_trade_detail_sync gives the     *)
(* realized P/L, get_trade_transactions_sync the evidence for the reason.  *)
(* Without the evidence the reason is MANUAL.                              *)
LookUpClosed(w, t, evidence) ==
    LET ids == WithLeg(Closing, t)
        mit == \E i \in ids : \E k \in DOMAIN log[i] :
                  log[i][k].trade = t /\ log[i][k].type \in Closing /\ log[i][k].cause = "MIT"
    IN  /\ work[w].pc = "diff" /\ work[w].opens = {} /\ work[w].moves = {} /\ work[w].write = {}
        /\ t \in work[w].gone
        /\ evidence \/ faults < MaxFaults
        /\ faults' = IF evidence THEN faults ELSE faults + 1
        /\ work' = [work EXCEPT ![w].gone = @ \ {t},
                                ![w].write = {[trade |-> t, closing |-> TRUE,
                                   rec |-> [state |-> "CLOSED", level |-> "none", pnl |-> ids,
                                            reason |-> IF evidence /\ mit THEN "MIT" ELSE "MANUAL"]]}]
        /\ UNCHANGED <<log, raw, events, watermark, base, job, holders, owner, backfills, level, journal>>

(* The detail is unavailable: the close waits for the next poll.           *)
DeferClose(w, t) ==
    /\ work[w].pc = "diff" /\ work[w].opens = {} /\ work[w].moves = {} /\ work[w].write = {}
    /\ t \in work[w].gone
    /\ faults < MaxFaults /\ faults' = faults + 1
    /\ work' = [work EXCEPT ![w].gone = @ \ {t}, ![w].deferred = TRUE]
    /\ UNCHANGED <<log, raw, events, watermark, base, job, holders, owner, backfills, level, journal>>

(* The upsert of the record prepared; close_trade keeps the fields it does *)
(* not set from the record it reads now.                                   *)
WriteTrade(r) ==
    \E x \in work[r].write :
        /\ journal' = [journal EXCEPT ![x.trade] =
                         IF x.closing THEN [x.rec EXCEPT !.level = journal[x.trade].level] ELSE x.rec]
        /\ work' = [work EXCEPT ![r].write = {}]
        /\ UNCHANGED <<pipelineVars, level>>

PollDone(w) ==
    /\ work[w].pc = "diff" /\ work[w].write = {}
    /\ work[w].opens = {} /\ work[w].moves = {} /\ work[w].gone = {}

EndPoll(w) ==
    /\ PollDone(w)
    /\ work' = [work EXCEPT ![w] = Rest]
    /\ holders' = holders \ {w}
    /\ UNCHANGED <<log, raw, events, watermark, base, job, owner, faults, backfills, level, journal>>

(* The request for the open trades or a durable write raises.              *)
FailPoll(w) ==
    /\ work[w].pc # "idle"
    /\ faults < MaxFaults /\ faults' = faults + 1
    /\ work' = [work EXCEPT ![w] = Rest]
    /\ holders' = holders \ {w}
    /\ UNCHANGED <<log, raw, events, watermark, base, job, owner, backfills, level, journal>>

-----------------------------------------------------------------------------
(* Projection of stored events, inside a sync or a backfill chunk          *)

LegOf(row) == log[row[1]][row[2]]

RowsFor(t) == {row \in events : LegOf(row).trade = t}

StoredClosing(t) == {row \in RowsFor(t) : LegOf(row).type \in Closing}

(* The reason infer_close_reason finds in the last closing event.          *)
FinalReason(t) ==
    LET final == CHOOSE row \in StoredClosing(t) : \A other \in StoredClosing(t) : other[1] <= row[1]
    IN  IF LegOf(final).cause = "MIT" THEN "MIT" ELSE "MANUAL"

(* Seeded fault: the first closing event decides whether the trade closed. *)
ProjectionFirstClosing(t) ==
    LET types == {LegOf(row).type : row \in RowsFor(t)}
    IN  IF RowsFor(t) = {} \/ (journal[t].state = "ABSENT" /\ "OPEN" \notin types)
          THEN {}
          ELSE {[trade |-> t, closing |-> FALSE,
                 rec |-> IF "CLOSE" \in types /\ "PARTIAL_CLOSE" \notin types
                           THEN [state |-> "CLOSED", level |-> journal[t].level,
                                 reason |-> FinalReason(t), pnl |-> {row[1] : row \in StoredClosing(t)}]
                           ELSE [NoTrade EXCEPT !.state = "OPEN", !.level = journal[t].level]]}

(* Seeded fault: the P/L of the CLOSE event alone.                         *)
ProjectionLastOnly(t) ==
    LET rows  == RowsFor(t)
        types == {LegOf(row).type : row \in rows}
    IN  IF rows = {} \/ (journal[t].state = "ABSENT" /\ "OPEN" \notin types)
          THEN {}
          ELSE {[trade |-> t, closing |-> FALSE,
                 rec |-> IF "CLOSE" \in types
                           THEN [state |-> "CLOSED", level |-> journal[t].level,
                                 reason |-> FinalReason(t),
                                 pnl |-> {row[1] : row \in {x \in rows : LegOf(x).type = "CLOSE"}}]
                           ELSE [NoTrade EXCEPT !.state = "OPEN", !.level = journal[t].level]]}

(* _project_trade_record: no record when nothing tells the trade's units   *)
(* and price, an open one unless a CLOSE event is stored, whatever the     *)
(* journal says, else one closed with what the closing events sum to.      *)
Projection(t) ==
    LET types == {LegOf(row).type : row \in RowsFor(t)}
    IN  IF RowsFor(t) = {} \/ (journal[t].state = "ABSENT" /\ "OPEN" \notin types)
          THEN {}
          ELSE {[trade |-> t, closing |-> FALSE,
                 rec |-> IF "CLOSE" \in types
                           THEN [state |-> "CLOSED", level |-> journal[t].level,
                                 reason |-> FinalReason(t), pnl |-> {row[1] : row \in StoredClosing(t)}]
                           ELSE [NoTrade EXCEPT !.state = "OPEN", !.level = journal[t].level]]}

PersistEvents(r) ==
    /\ History!PersistEvents(r)
    /\ work' = [work EXCEPT ![r].phase = "project",
                            ![r].project = {log[row[1]][row[2]].trade :
                                               row \in History!RowsOf(History!Fetched(r))}]
    /\ UNCHANGED <<level, journal>>

ReadProjection(r, t) ==
    /\ work[r].phase = "project" /\ t \in work[r].project /\ work[r].write = {}
    /\ work' = [work EXCEPT ![r].project = @ \ {t}, ![r].write = Projection(t)]
    /\ UNCHANGED <<pipelineVars, level, journal>>

(* Seeded fault: the repair looks at the open trades.                      *)
ListRepairsOfOpen(r) ==
    /\ work[r].phase = "project" /\ work[r].project = {} /\ work[r].write = {}
    /\ work' = [work EXCEPT ![r].phase = "repair",
                            ![r].repair = {t \in Trades : /\ journal[t].state = "OPEN"
                                                          /\ journal[t].reason = "MANUAL"}]
    /\ UNCHANGED <<pipelineVars, level, journal>>

(* _repair_manual_mit_closes_from_history: list the closed trades, ...     *)
ListRepairs(r) ==
    /\ work[r].phase = "project" /\ work[r].project = {} /\ work[r].write = {}
    /\ work' = [work EXCEPT ![r].phase = "repair",
                            ![r].repair = {t \in Trades : /\ journal[t].state = "CLOSED"
                                                          /\ journal[t].reason = "MANUAL"}]
    /\ UNCHANGED <<pipelineVars, level, journal>>

(* ... and project those whose last closing event was market-if-touched.   *)
ReadRepair(r, t) ==
    /\ work[r].phase = "repair" /\ t \in work[r].repair /\ work[r].write = {}
    /\ work' = [work EXCEPT ![r].repair = @ \ {t},
                            ![r].write = IF StoredClosing(t) # {} /\ FinalReason(t) = "MIT"
                                           THEN Projection(t) ELSE {}]
    /\ UNCHANGED <<pipelineVars, level, journal>>

FinishProjection(r) ==
    /\ work[r].phase = "repair" /\ work[r].repair = {} /\ work[r].write = {}
    /\ History!FinishProjection(r)
    /\ work' = [work EXCEPT ![r] = Rest]
    /\ UNCHANGED <<level, journal>>

-----------------------------------------------------------------------------
(* Pipeline steps that do not touch the trades table                       *)

Aside == UNCHANGED <<level, journal, work>>

BeginSync(w) == work[w].pc = "idle" /\ History!BeginSync(w) /\ Aside

PipelineStep(w) ==
    /\ \/ History!FetchDetails(w) \/ History!InitialiseWatermark(w) \/ History!FetchSince(w)
       \/ History!PersistRaw(w) \/ History!AdvanceSync(w)
    /\ Aside

BackfillPipelineStep ==
    /\ \/ \E end \in 0 .. MaxLog : History!FetchChunk(end)
       \/ History!PersistRaw(Cli) \/ History!AdvanceBackfill
    /\ Aside

FailHistory(r) ==
    /\ History!Fail(r)
    /\ work' = [work EXCEPT ![r] = Rest]
    /\ UNCHANGED <<level, journal>>

OpenServer == History!OpenServer /\ Aside

CloseServer ==
    /\ \A w \in Workers : work[w] = Rest
    /\ History!CloseServer
    /\ Aside

BeginBackfill(first, last) == History!BeginBackfill(first, last) /\ Aside

Crash ==
    /\ History!Crash
    /\ work' = [r \in Runners |-> Rest]
    /\ UNCHANGED <<level, journal>>

ProjectionStep(r) ==
    \/ PersistEvents(r) \/ ListRepairs(r) \/ FinishProjection(r) \/ WriteTrade(r)
    \/ \E t \in Trades : ReadProjection(r, t) \/ ReadRepair(r, t)

PollStep(w) ==
    \/ FetchOpenTrades(w) \/ ListOpenTrades(w) \/ EndPoll(w)
    \/ \E t \in Trades :
          RecordOpened(w, t) \/ ReadModified(w, t) \/ LookUpClosed(w, t, TRUE)

(* What a started call does next, the failures apart.                      *)
Step(r) ==
    \/ ProjectionStep(r)
    \/ r \in Workers /\ (PollStep(r) \/ PipelineStep(r))
    \/ r = Cli /\ BackfillPipelineStep

Faulty(r) ==
    \/ FailHistory(r)
    \/ r \in Workers /\ FailPoll(r)
    \/ r \in Workers /\ \E t \in Trades : DeferClose(r, t) \/ LookUpClosed(r, t, FALSE)

Next ==
    \/ \E tx \in Transactions : BrokerFill(tx)
    \/ \E t \in Trades, l \in Levels : BrokerMovesLevel(t, l)
    \/ OpenServer \/ CloseServer \/ Crash
    \/ \E w \in Workers : BeginPoll(w) \/ BeginSync(w)
    \/ \E first, last \in 1 .. MaxLog : BeginBackfill(first, last)
    \/ \E r \in Runners : Step(r) \/ Faulty(r)

Spec == Init /\ [][Next]_vars

(* Started calls run to their end (threads are scheduled); requests keep   *)
(* asking for both syncs, as every journal read does (sync_account_state), *)
(* and the server is started again after a crash.                          *)
Fairness ==
    /\ \A r \in Runners : WF_vars(Step(r))
    /\ WF_vars(OpenServer)
    /\ \A w \in Workers : SF_vars(BeginPoll(w)) /\ SF_vars(BeginSync(w))

FairSpec == Spec /\ Fairness

-----------------------------------------------------------------------------
(* Properties                                                              *)

Records == [state : {"ABSENT", "OPEN", "CLOSED"}, level : Levels,
            reason : {"NONE", "MANUAL", "MIT"}, pnl : SUBSET (1 .. MaxLog)]

TypeOK ==
    /\ level \in [Trades -> Levels]
    /\ journal \in [Trades -> Records]
    /\ \A r \in Runners :
          /\ work[r].pc \in {"idle", "fetch", "list", "diff"}
          /\ work[r].phase \in {"none", "project", "repair"}
          /\ UNION {work[r].opens, work[r].moves, work[r].gone, work[r].project, work[r].repair}
                \subseteq Trades
          /\ Cardinality(work[r].write) <= 1
          /\ \A x \in work[r].write : x.trade \in Trades /\ x.rec \in Records

(* A trade the journal shows closed is closed at the broker: the poller    *)
(* takes a trade missing from an answer it got earlier for a closed one.   *)
ClosedOnlyIfClosedAtBroker ==
    \A t \in Trades : journal[t].state = "CLOSED" => WithLeg({"CLOSE"}, t) # {}

(* A closed journal record stays closed: neither the poller's overwrite of *)
(* a record it believes new nor a projection from incomplete events        *)
(* reopens it.                                                             *)
NeverReopened ==
    [][\A t \in Trades : journal[t].state = "CLOSED" => journal'[t].state = "CLOSED"]_journal

(* A poll that ends without a deferred close leaves as open in the journal *)
(* exactly the trades it was shown, with the levels it was shown.          *)
PollReconciles ==
    [][\A w \in Workers :
          (PollDone(w) /\ ~work[w].deferred /\ work'[w].pc = "idle" /\ faults' = faults)
          => {<<t, journal[t].level>> : t \in OpenInJournal} = work[w].current]_vars

Quiet == \A r \in Runners : job[r].pc = "idle" /\ work[r] = Rest

(* When the watermark has reached the end of the log and nobody is at      *)
(* work, every journaled trade with a stored CLOSE is closed with the P/L  *)
(* of its stored closing events and the reason of the last one, although   *)
(* the poller may have written it first, with less evidence.               *)
SyncedJournalAgrees ==
    (Quiet /\ watermark = Len(log) /\ backfills = 0) =>
        \A t \in Trades :
            ((\E row \in RowsFor(t) : LegOf(row).type = "CLOSE") /\ journal[t].state # "ABSENT") =>
                /\ journal[t].state = "CLOSED"
                /\ journal[t].pnl = {row[1] : row \in StoredClosing(t)}
                /\ journal[t].reason = FinalReason(t)

(* A sync that ends has repaired every manual close whose stored events    *)
(* say market-if-touched, also those a failed backfill stored and never    *)
(* projected and whose ids the watermark has passed.                       *)
SyncRepairsReasons ==
    [][\A w \in Workers :
          (job[w].pc = "advance" /\ job'[w].pc = "idle" /\ faults' = faults)
          => \A t \in Trades :
                (journal[t].state = "CLOSED" /\ journal[t].reason = "MANUAL" /\ StoredClosing(t) # {})
                => FinalReason(t) = "MANUAL"]_vars

(* Once the broker is quiet and the faults are over, the journal comes to  *)
(* show exactly the broker's open trades as open, and stays so.            *)
JournalCatchesUp == <>[](OpenInJournal = BrokerOpen /\ watermark = Len(log))

=============================================================================
