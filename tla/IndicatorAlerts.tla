---------------------------- MODULE IndicatorAlerts ----------------------------
(***************************************************************************)
(* Indicator alerts of the bot in .worktrees/scan-force for one instrument *)
(* and timeframe: the evaluation that every scan makes of the candle that  *)
(* closed last (alerts/indicator_alert_engine.py, called by                *)
(* orchestration/scan_orchestrator.py), the stored alerts and the cursor   *)
(* of the last evaluated candle (data/persistence/trade_store.py).         *)
(*                                                                         *)
(* The scheduled scan and a chat command's refresh share no lock, so two   *)
(* evaluations interleave between any two store operations.  Which alerts  *)
(* a candle triggers is a fact of the candle; the indicators are left out. *)
(***************************************************************************)
EXTENDS Integers, Sequences, FiniteSets, FiniteSetsExt

CONSTANTS
    Indicators,    \* alert ids
    Repeating,     \* those with repeat set and no cool-off
    Scanners,      \* threads that scan
    MaxCandle,     \* bound on the candles that close
    MaxFailures,   \* bound on failed reads, writes, deliveries and metrics
    MaxListFailures \* bound on failed reads of the alerts of an evaluation

ASSUME IndicatorsAssumption ==
    /\ Indicators \subseteq Nat /\ Repeating \subseteq Indicators
    /\ MaxCandle \in Nat /\ MaxFailures \in Nat /\ MaxListFailures \in Nat

VARIABLES
    candle,        \* the newest closed candle
    hits,          \* candle -> alerts whose condition it meets
    cursor,        \* last_evaluated_candle, 0 when there is none
    indicator,     \* alert id -> [status, born]; born (history) is the first candle
                   \* it waits for, beyond every candle once it is cleared
    scanning,      \* scanner -> [pc, candle, todo, failed]
    noted,         \* alert id -> candles it was told of (history)
    failures, listFailures

indicatorVars == <<candle, hits, cursor, indicator, scanning, noted, failures, listFailures>>

NotScanning == [pc |-> "idle", candle |-> 0, todo |-> {}, failed |-> FALSE]

IInit ==
    /\ candle = 0 /\ hits = <<>> /\ cursor = 0
    /\ indicator = [a \in Indicators |-> [status |-> "NONE", born |-> 0]]
    /\ scanning = [s \in Scanners |-> NotScanning]
    /\ noted = [a \in Indicators |-> {}]
    /\ failures = 0 /\ listFailures = 0

CandleCloses ==
    /\ candle < MaxCandle
    /\ candle' = candle + 1
    /\ \E h \in SUBSET Indicators : hits' = Append(hits, h)
    /\ UNCHANGED <<cursor, indicator, scanning, noted, failures, listFailures>>

IndicatorAlertCommand(a) ==
    /\ indicator[a].status = "NONE"
    /\ indicator' = [indicator EXCEPT ![a] = [status |-> "PENDING", born |-> candle + 1]]
    /\ UNCHANGED <<candle, hits, cursor, scanning, noted, failures, listFailures>>

ClearIndicatorCommand(a) ==
    /\ indicator[a].status \in {"PENDING", "FIRED"}
    /\ indicator' = [indicator EXCEPT ![a] = [status |-> "CANCELLED", born |-> MaxCandle + 1]]
    /\ UNCHANGED <<candle, hits, cursor, scanning, noted, failures, listFailures>>

-----------------------------------------------------------------------------
(* evaluate_for_snapshot *)

evalFrame == <<candle, hits, listFailures>>
FailsOnce == failures < MaxFailures /\ failures' = failures + 1
At(s, pc) == scanning[s].pc = pc
Go(s, pc) == scanning' = [scanning EXCEPT ![s].pc = pc]
Stop(s)   == scanning' = [scanning EXCEPT ![s] = NotScanning]

\* An open market and a fresh frame: its last candle is the one closed last.
Scan(s) ==
    /\ At(s, "idle") /\ candle > 0
    /\ scanning' = [scanning EXCEPT ![s] = [NotScanning EXCEPT !.pc = "cursor", !.candle = candle]]
    /\ UNCHANGED <<evalFrame, cursor, indicator, noted, failures>>

\* A candle the cursor names was evaluated before.
ReadCursor(s) ==
    /\ At(s, "cursor")
    /\ IF cursor = scanning[s].candle THEN Stop(s) ELSE Go(s, "list")
    /\ UNCHANGED <<evalFrame, cursor, indicator, noted, failures>>

\* A cursor that cannot be read is None.
ReadCursorFails(s) ==
    /\ At(s, "cursor") /\ FailsOnce
    /\ Go(s, "list")
    /\ UNCHANGED <<evalFrame, cursor, indicator, noted>>

Eligible(a) == \/ indicator[a].status = "PENDING"
               \/ indicator[a].status = "FIRED" /\ a \in Repeating

\* The eligible alerts whose condition the candle meets; a list that cannot
\* be read is empty.
List(s) ==
    /\ At(s, "list")
    /\ \E unread \in 0 .. 1 :
         /\ listFailures + unread <= MaxListFailures
         /\ listFailures' = listFailures + unread
         /\ scanning' = [scanning EXCEPT ![s].pc = "loop", ![s].todo =
              IF unread = 1 THEN {} ELSE {a \in hits[scanning[s].candle] : Eligible(a)}]
    /\ UNCHANGED <<candle, hits, cursor, indicator, noted, failures>>

\* A metric that is missing raises out of the evaluation.
MetricMissing(s) ==
    /\ At(s, "loop") /\ FailsOnce
    /\ Stop(s)
    /\ UNCHANGED <<evalFrame, cursor, indicator, noted>>

Current(s) == Min(scanning[s].todo)
Taking(s) == At(s, "loop") /\ scanning[s].todo # {}
Passed(s, failed) ==
    scanning' = [scanning EXCEPT ![s].pc = "loop", ![s].todo = @ \ {Current(s)},
                                 ![s].failed = @ \/ failed]

Deliver(s) ==
    /\ Taking(s)
    /\ noted' = [noted EXCEPT ![Current(s)] = @ \cup {scanning[s].candle}]
    /\ Go(s, "mark")
    /\ UNCHANGED <<evalFrame, cursor, indicator, failures>>

\* (mutant) A failed delivery is forgotten.
DeliverForgets(s) ==
    /\ Taking(s) /\ FailsOnce
    /\ Passed(s, FALSE)
    /\ UNCHANGED <<evalFrame, cursor, indicator, noted>>

\* A failed delivery keeps the cursor where it is.
DeliverFails(s) ==
    /\ Taking(s) /\ FailsOnce
    /\ Passed(s, TRUE)
    /\ UNCHANGED <<evalFrame, cursor, indicator, noted>>

\* mark_indicator_alert_fired: whatever it reads, it writes FIRED.
MarkFired(s) ==
    /\ At(s, "mark")
    /\ indicator' = [indicator EXCEPT ![Current(s)].status = "FIRED"]
    /\ Passed(s, FALSE)
    /\ UNCHANGED <<evalFrame, cursor, noted, failures>>

\* The read fails and the loop goes on, or the write fails and raises.
MarkFiredFails(s) ==
    /\ At(s, "mark") /\ FailsOnce
    /\ Passed(s, FALSE) \/ Stop(s)
    /\ UNCHANGED <<evalFrame, cursor, indicator, noted>>

\* The cursor advances unless a delivery failed.
Advance(s) ==
    /\ At(s, "loop") /\ scanning[s].todo = {}
    /\ cursor' = IF scanning[s].failed THEN cursor ELSE scanning[s].candle
    /\ Stop(s)
    /\ UNCHANGED <<evalFrame, indicator, noted, failures>>

\* The process stops anywhere and starts again (the write of the cursor that
\* fails is the same: nothing is kept of the evaluation).
IRestart ==
    /\ FailsOnce
    /\ scanning' = [s \in Scanners |-> NotScanning]
    /\ UNCHANGED <<evalFrame, cursor, indicator, noted>>

EvaluateForSnapshot(s) ==
    \/ Scan(s) \/ ReadCursor(s) \/ ReadCursorFails(s) \/ List(s) \/ MetricMissing(s)
    \/ Deliver(s) \/ DeliverFails(s) \/ MarkFired(s) \/ MarkFiredFails(s) \/ Advance(s)

INext ==
    \/ CandleCloses
    \/ \E a \in Indicators : IndicatorAlertCommand(a) \/ ClearIndicatorCommand(a)
    \/ \E s \in Scanners : EvaluateForSnapshot(s)
    \/ IRestart

ISpec == IInit /\ [][INext]_indicatorVars

-----------------------------------------------------------------------------
(* Properties. *)

\* The cursor never hides a hit: an alert that was there before the candle the
\* cursor names closed, whose condition that candle met and that still waits
\* for its message, has had it, whichever of two evaluations moved the cursor.
CursorHidesNothing ==
    cursor > 0 => \A a \in hits[cursor] :
        Eligible(a) /\ indicator[a].born <= cursor => cursor \in noted[a]
=============================================================================
