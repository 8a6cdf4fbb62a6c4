---------------------------- MODULE HistorySync ----------------------------
(***************************************************************************)
(* The transaction pipeline of journal/trade_history_service.py over       *)
(* data/persistence/trade_store.py: what incremental_sync (run by MCP      *)
(* requests, under the runtime lock or not) and backfill_history (run by   *)
(* the maintenance CLI) do to the three durable tables raw_transactions,   *)
(* trade_history_events and trade_history_sync, when network calls and     *)
(* durable writes fail and the process crashes between two writes.         *)
(*                                                                         *)
(* The broker's transaction log is external: an append-only sequence whose *)
(* index is the transaction id.  Payloads are abstract; RowCount says how  *)
(* many journal rows normalize_transaction makes of one, 0 for a payload   *)
(* that TRADE_HISTORY_TYPE_FILTER keeps out of every response.             *)
(***************************************************************************)
EXTENDS Integers, Sequences, FiniteSets

CONSTANTS
    Transactions,     \* payloads the broker may append
    RowCount,         \* [Transactions -> Nat]: rows of one payload
    Workers,          \* concurrent MCP requests of the server process
    UnlockedReaders,  \* those that sync through _try_sync_for_read, without the runtime lock
    Cli,              \* the backfill-trades process
    ReadFaults,       \* may a read of the sync state fail and return its default?
    GapWindows,       \* may a backfill window start above the watermark?
    MaxLog,           \* bound: transactions the broker appends
    MaxFaults,        \* bound: failed calls and crashes
    MaxBackfills      \* bound: CLI runs

ASSUME RowCountType == RowCount \in [Transactions -> Nat]
ASSUME WorkersType  == /\ UnlockedReaders \subseteq Workers
                       /\ Cli \notin Workers
ASSUME SwitchesType == ReadFaults \in BOOLEAN /\ GapWindows \in BOOLEAN
ASSUME BoundsType   == MaxLog \in Nat /\ MaxFaults \in Nat /\ MaxBackfills \in Nat

VARIABLES
    log,        \* the broker's transactions, in id order
    raw,        \* ids in the raw_transactions table
    events,     \* rows <<id, k>> in the trade_history_events table
    watermark,  \* last_transaction_id of the sync state, or NoWatermark
    base,       \* auxiliary: completeness is promised for the ids above it
    job,        \* what each runner is doing
    holders,    \* who holds AgentRuntime._state_lock (at most one)
    owner,      \* which process holds the <bot.json>.lock file
    faults,     \* failures so far
    backfills   \* CLI runs so far

durableVars == <<raw, events, watermark, base>>
vars == <<log, raw, events, watermark, base, job, holders, owner, faults, backfills>>

NoWatermark == -1
Runners == Workers \union {Cli}

(* The local state of one call.  For a sync, (from, upto] is the id range  *)
(* of the since-id response; for a backfill it is the current chunk, last  *)
(* ends the window, top is the largest id seen and more says that chunks   *)
(* remain.                                                                 *)
Idle == [pc |-> "idle", from |-> 0, upto |-> 0, last |-> 0, top |-> 0, more |-> FALSE]

Init ==
    /\ log = <<>>
    /\ raw = {} /\ events = {}
    /\ watermark = NoWatermark /\ base = NoWatermark
    /\ job = [r \in Runners |-> Idle]
    /\ holders = {}
    /\ owner = "none"
    /\ faults = 0 /\ backfills = 0

-----------------------------------------------------------------------------
(* Helpers                                                                 *)

(* Seeded fault: the since-id answer is taken to start one id too late.    *)
MatchingOffByOne(lo, hi) == {i \in (lo + 2) .. hi : RowCount[log[i]] > 0}

(* The transactions a request for the ids in lo+1 .. hi returns.           *)
Matching(lo, hi) == {i \in (lo + 1) .. hi : RowCount[log[i]] > 0}

Fetched(r) == Matching(job[r].from, job[r].upto)

(* The rows normalize_transactions makes of a set of transactions; a row   *)
(* is named by event_id, so storing it twice changes nothing.              *)
RowsOf(ids) == UNION {{i} \X (1 .. RowCount[log[i]]) : i \in ids}

(* The rows written before the loop of upsert_trade_history_events stops   *)
(* at row cut: each insert is a durable write of its own.                  *)
RowsBefore(ids, cut) == {r \in RowsOf(ids) : r[1] < cut[1] \/ (r[1] = cut[1] /\ r[2] < cut[2])}

(* What a read of the sync state may answer: _read_operation turns a read  *)
(* that raises into None, the answer of an empty table.                    *)
ReadWatermark == {watermark} \union (IF ReadFaults THEN {NoWatermark} ELSE {})

BusyRunners == {r \in Runners : job[r].pc # "idle"}

Goto(r, pc) == job' = [job EXCEPT ![r].pc = pc]

(* Seeded fault: a call that ends without releasing the runtime lock.      *)
EndCallKeepsLock(r) ==
    /\ job' = [job EXCEPT ![r] = Idle]
    /\ owner' = IF r = Cli THEN "none" ELSE owner
    /\ UNCHANGED holders

(* Returning or raising: a worker leaves the with-block of run_blocking,   *)
(* the CLI closes its store in main's finally.                             *)
EndCall(r) ==
    /\ job' = [job EXCEPT ![r] = Idle]
    /\ holders' = holders \ {r}
    /\ owner' = IF r = Cli THEN "none" ELSE owner

-----------------------------------------------------------------------------
(* The environment                                                         *)

BrokerCommit(tx) ==
    /\ Len(log) < MaxLog
    /\ log' = Append(log, tx)
    /\ UNCHANGED <<raw, events, watermark, base, job, holders, owner, faults, backfills>>

(* TradeStore opens the database only if it gets the lock file.            *)
OpenServer ==
    /\ owner = "none"
    /\ owner' = "server"
    /\ UNCHANGED <<log, raw, events, watermark, base, job, holders, faults, backfills>>

CloseServer ==
    /\ owner = "server"
    /\ BusyRunners = {}
    /\ owner' = "none"
    /\ UNCHANGED <<log, raw, events, watermark, base, job, holders, faults, backfills>>

(* The process dies: its memory and both locks go, the tables stay.        *)
Crash ==
    /\ owner # "none"
    /\ faults < MaxFaults
    /\ faults' = faults + 1
    /\ job' = [r \in Runners |-> Idle]
    /\ holders' = {}
    /\ owner' = "none"
    /\ UNCHANGED <<log, raw, events, watermark, base, backfills>>

-----------------------------------------------------------------------------
(* incremental_sync                                                        *)

(* Seeded fault: sync_trade_history without write=True.                    *)
BeginSyncWithoutLock(w) ==
    /\ owner = "server"
    /\ job[w].pc = "idle"
    /\ job' = [job EXCEPT ![w] = IF watermark = NoWatermark
                                   THEN [Idle EXCEPT !.pc = "details"]
                                   ELSE [Idle EXCEPT !.pc = "fetch", !.from = watermark]]
    /\ UNCHANGED <<log, raw, events, watermark, base, holders, owner, faults, backfills>>

(* Take the runtime lock if the caller does, and read the sync state.      *)
BeginSync(w) ==
    /\ owner = "server"
    /\ job[w].pc = "idle"
    /\ IF w \in UnlockedReaders
          THEN UNCHANGED holders
          ELSE holders = {} /\ holders' = {w}
    /\ \E seen \in ReadWatermark :
          job' = [job EXCEPT ![w] = IF seen = NoWatermark
                                      THEN [Idle EXCEPT !.pc = "details"]
                                      ELSE [Idle EXCEPT !.pc = "fetch", !.from = seen]]
    /\ UNCHANGED <<log, raw, events, watermark, base, owner, faults, backfills>>

(* No sync state: take lastTransactionID from the account details ...      *)
FetchDetails(w) ==
    /\ job[w].pc = "details"
    /\ job' = [job EXCEPT ![w].pc = "initialise", ![w].upto = Len(log)]
    /\ UNCHANGED <<log, raw, events, watermark, base, holders, owner, faults, backfills>>

(* ... and make it the watermark, without any event.                       *)
InitialiseWatermark(w) ==
    /\ job[w].pc = "initialise"
    /\ watermark' = job[w].upto
    /\ base' = IF watermark = NoWatermark THEN job[w].upto ELSE base
    /\ EndCall(w)
    /\ UNCHANGED <<log, raw, events, faults, backfills>>

(* Seeded fault: the next id is kept instead of the last one.              *)
FetchSinceOnePast(w) ==
    /\ w # Cli
    /\ job[w].pc = "fetch"
    /\ job' = [job EXCEPT ![w].pc = "raw", ![w].upto = Len(log) + 1]
    /\ UNCHANGED <<log, raw, events, watermark, base, holders, owner, faults, backfills>>

(* One since-id response: the matching transactions and lastTransactionID. *)
FetchSince(w) ==
    /\ w # Cli
    /\ job[w].pc = "fetch"
    /\ job' = [job EXCEPT ![w].pc = "raw", ![w].upto = Len(log)]
    /\ UNCHANGED <<log, raw, events, watermark, base, holders, owner, faults, backfills>>

(* Seeded fault: payloads below the watermark are taken to be stored.      *)
PersistRawNewOnly(r) ==
    /\ job[r].pc = "raw"
    /\ raw' = raw \union {i \in Fetched(r) : i > watermark}
    /\ Goto(r, "events")
    /\ UNCHANGED <<log, events, watermark, base, holders, owner, faults, backfills>>

(* Seeded fault: the rows replace the table instead of joining it.         *)
PersistEventsOverwrites(r) ==
    /\ job[r].pc = "events"
    /\ events' = RowsOf(Fetched(r))
    /\ Goto(r, "project")
    /\ UNCHANGED <<log, raw, watermark, base, holders, owner, faults, backfills>>

(* The steps that a sync and a chunk of a backfill share.                  *)
PersistRaw(r) ==
    /\ job[r].pc = "raw"
    /\ raw' = raw \union Fetched(r)
    /\ Goto(r, "events")
    /\ UNCHANGED <<log, events, watermark, base, holders, owner, faults, backfills>>

PersistEvents(r) ==
    /\ job[r].pc = "events"
    /\ events' = events \union RowsOf(Fetched(r))
    /\ Goto(r, "project")
    /\ UNCHANGED <<log, raw, watermark, base, holders, owner, faults, backfills>>

(* Projection and repair write only the trades table (TradeJournal).       *)
FinishProjection(r) ==
    /\ job[r].pc = "project"
    /\ Goto(r, IF job[r].more THEN "fetch" ELSE "advance")
    /\ UNCHANGED <<log, raw, events, watermark, base, holders, owner, faults, backfills>>

(* The watermark is overwritten, whatever it has become meanwhile.         *)
AdvanceSync(w) ==
    /\ w # Cli
    /\ job[w].pc = "advance"
    /\ watermark' = job[w].upto
    /\ EndCall(w)
    /\ UNCHANGED <<log, raw, events, base, faults, backfills>>

-----------------------------------------------------------------------------
(* backfill_history, a process of its own                                  *)

(* The window holds the ids first .. last; dates may end in the future.    *)
BeginBackfill(first, last) ==
    /\ owner = "none"
    /\ backfills < MaxBackfills
    /\ first \in 1 .. Len(log) /\ last \in first .. MaxLog
    /\ GapWindows \/ watermark = NoWatermark \/ first <= watermark + 1
    /\ owner' = "cli"
    /\ backfills' = backfills + 1
    /\ job' = [job EXCEPT ![Cli] = [Idle EXCEPT !.pc = "fetch", !.upto = first - 1, !.last = last]]
    /\ base' = IF watermark = NoWatermark THEN first - 1 ELSE base
    /\ UNCHANGED <<log, raw, events, watermark, holders, faults>>

(* The next chunk: the ids up to its end, which is the window's last chunk *)
(* when it reaches the window's end or the present.  Chunks without ids    *)
(* change nothing and are left out.                                        *)
FetchChunk(end) ==
    LET j   == job[Cli]
        ids == Matching(j.upto, end)
    IN  /\ j.pc = "fetch"
        /\ end \in (j.upto + 1) .. Len(log) /\ end <= j.last
        /\ \E m \in ids \union {j.top} :
              /\ \A i \in ids \union {j.top} : i <= m
              /\ job' = [job EXCEPT ![Cli] =
                            [j EXCEPT !.pc = "raw", !.from = j.upto, !.upto = end, !.top = m,
                                      !.more = end < j.last /\ end < Len(log)]]
        /\ UNCHANGED <<log, raw, events, watermark, base, holders, owner, faults, backfills>>

(* Seeded fault: a backfill always sets the watermark to what it saw.      *)
AdvanceBackfillBlindly ==
    /\ job[Cli].pc = "advance"
    /\ watermark' = IF job[Cli].top > 0 THEN job[Cli].top ELSE watermark
    /\ EndCall(Cli)
    /\ UNCHANGED <<log, raw, events, base, faults, backfills>>

(* _advance_sync_state_watermark, skipped when the window was empty.       *)
AdvanceBackfill ==
    /\ job[Cli].pc = "advance"
    /\ \E seen \in ReadWatermark :
          watermark' = IF job[Cli].top > 0 /\ job[Cli].top > seen THEN job[Cli].top ELSE watermark
    /\ EndCall(Cli)
    /\ UNCHANGED <<log, raw, events, base, faults, backfills>>

-----------------------------------------------------------------------------
(* A network call or a durable write raises and the call ends.  The two    *)
(* upsert loops may have written a prefix of their records.                *)
Fail(r) ==
    /\ job[r].pc # "idle"
    /\ faults < MaxFaults
    /\ faults' = faults + 1
    /\ IF job[r].pc = "raw"
          THEN \E cut \in Fetched(r) : raw' = raw \union {i \in Fetched(r) : i < cut}
          ELSE UNCHANGED raw
    /\ IF job[r].pc = "events"
          THEN \E cut \in RowsOf(Fetched(r)) : events' = events \union RowsBefore(Fetched(r), cut)
          ELSE UNCHANGED events
    /\ EndCall(r)
    /\ UNCHANGED <<log, watermark, base, backfills>>

SyncStep(w) ==
    \/ FetchDetails(w) \/ InitialiseWatermark(w) \/ FetchSince(w)
    \/ PersistRaw(w) \/ PersistEvents(w) \/ FinishProjection(w) \/ AdvanceSync(w)

BackfillStep ==
    \/ \E end \in 0 .. MaxLog : FetchChunk(end)
    \/ PersistRaw(Cli) \/ PersistEvents(Cli) \/ FinishProjection(Cli) \/ AdvanceBackfill

Next ==
    \/ \E tx \in Transactions : BrokerCommit(tx)
    \/ OpenServer \/ CloseServer \/ Crash
    \/ \E w \in Workers : BeginSync(w) \/ SyncStep(w)
    \/ \E first, last \in 1 .. MaxLog : BeginBackfill(first, last)
    \/ BackfillStep
    \/ \E r \in Runners : Fail(r)

Spec == Init /\ [][Next]_vars

(* A started call keeps running: every thread of asyncio.to_thread and the *)
(* CLI process are scheduled by the operating system.                      *)
Fairness ==
    /\ \A w \in Workers : WF_vars(SyncStep(w))
    /\ WF_vars(BackfillStep)

FairSpec == Spec /\ Fairness

-----------------------------------------------------------------------------
(* Properties                                                              *)

PCs == {"idle", "details", "initialise", "fetch", "raw", "events", "project", "advance"}

Jobs == [pc : PCs, from : Nat, upto : Nat, last : Nat, top : Nat, more : BOOLEAN]

(* Types; ids refer to the log.                                            *)
TypeOK ==
    /\ log \in Seq(Transactions)
    /\ raw \subseteq 1 .. Len(log)
    /\ events \subseteq (1 .. Len(log)) \X Nat
    /\ watermark \in 0 .. Len(log) \union {NoWatermark}
    /\ base \in 0 .. Len(log) \union {NoWatermark}
    /\ job \in [Runners -> Jobs]
    /\ \A r \in Runners : job[r].from <= Len(log) /\ job[r].upto <= Len(log) /\ job[r].top <= Len(log)
    /\ holders \subseteq Workers
    /\ owner \in {"none", "server", "cli"}
    /\ faults \in Nat /\ backfills \in Nat

(* Every row that is stored was made from a transaction whose raw payload  *)
(* is stored too, whatever fails or crashes between the two upserts: the   *)
(* rows can always be normalized again from raw_transactions.              *)
EventsHaveRaw == \A row \in events : row[1] \in raw

(* The watermark never passes a transaction whose rows are missing: no     *)
(* later sync asks for it again, since each one starts at the watermark.   *)
CompleteUpTo(n) == RowsOf((base + 1) .. n) \subseteq events

WatermarkComplete == watermark # NoWatermark => CompleteUpTo(watermark)

(* The calls that have written something and not yet their last table.     *)
Mutating == {r \in Runners : job[r].pc \in {"events", "project", "advance"} /\ Fetched(r) # {}}

(* "Local writes are guarded at the runtime level so concurrent MCP calls  *)
(* do not interleave TinyDB/cache/artifact mutations" (README.md:135): no  *)
(* call writes between the first and the last write of another.            *)
NoInterleavedMutations == Cardinality(Mutating) <= 1

(* A watermark that was stored never moves back: no sync re-reads what a   *)
(* finished one has passed.                                                *)
WatermarkMonotone == [][watermark' >= watermark]_watermark

(* The pipeline implements the mirror it promises: its tables are a local  *)
(* copy of the broker's log with a mark below which nothing is missing.    *)
Mirror == INSTANCE LedgerMirror WITH stored <- events, mark <- watermark

MirrorsLedger == Mirror!Spec

(* A runner is inside a call while it has something left to do or still    *)
(* holds a lock: the runtime lock, or for the CLI the store's lock file.   *)
InCall(r) == job[r].pc # "idle" \/ r \in holders \/ (r = Cli /\ owner = "cli")

(* Every call ends, by returning or by raising at any of its steps, and    *)
(* leaves neither the runtime lock nor the lock file behind: the next      *)
(* caller of run_blocking and the next opener of the store get in.         *)
CallsEnd == \A r \in Runners : InCall(r) ~> ~InCall(r)

=============================================================================
