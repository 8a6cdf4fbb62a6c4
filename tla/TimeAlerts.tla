------------------------------ MODULE TimeAlerts ------------------------------
(***************************************************************************)
(* Reminders of the bot in .worktrees/scan-force: the scheduled job        *)
(* (orchestration/scheduler.py) that delivers what is due and computes the *)
(* next occurrence (alerts/time_alert_engine.py), the table it advances    *)
(* (data/persistence/trade_store.py), and the chat commands that create    *)
(* and clear reminders and switch session alerts off (bot/bot.py,          *)
(* bot/runtime_config.py).  A unit of time is the second by which the      *)
(* engine looks ahead; days are Day units long.                            *)
(***************************************************************************)
EXTENDS Integers, FiniteSets, FiniteSetsExt

CONSTANTS
    ReminderSpec,  \* alert id -> [schedule, slot]: "once", "daily" or "session"
    Blocked,       \* alerts whose chat never accepts a message
    Day,           \* length of the day that schedules repeat over
    MaxTime,       \* bound on the clock
    MaxFaults,     \* bound on other failures of deliveries and store calls
    MaxRestarts    \* bound on restarts of the bot

Reminders == DOMAIN ReminderSpec

ASSUME RemindersAssumption ==
    /\ Reminders \subseteq Nat
    /\ Day \in Nat \ {0}
    /\ \A a \in Reminders : ReminderSpec[a].slot \in 0 .. Day - 1
    /\ MaxTime \in Nat /\ MaxFaults \in Nat /\ MaxRestarts \in Nat

VARIABLES
    now,
    reminder,        \* alert id -> [status, next], the stored record
    sessionAlerts,   \* the session_alerts override
    job,             \* the running job: [pc, at, todo]
    told,            \* alert id -> occurrence -> deliveries (history)
    timeFaults, timeRestarts

timeVars == <<now, reminder, sessionAlerts, job, told, timeFaults, timeRestarts>>

IdleJob == [pc |-> "idle", at |-> 0, todo |-> {}]

TInit ==
    /\ now = 0
    /\ reminder = [a \in Reminders |-> [status |-> "NONE", next |-> 0]]
    /\ sessionAlerts = TRUE
    /\ job = IdleJob
    /\ told = [a \in Reminders |-> [o \in 0 .. MaxTime + Day |-> 0]]
    /\ timeFaults = 0 /\ timeRestarts = 0

-----------------------------------------------------------------------------
(* next_fixed_time_fire_at, next_session_fire_at, next_time_alert_fire_at *)

\* The slot of the day of t, or of the next day when that is not after t.
Occurrence(a, t) == Min({u \in t + 1 .. t + Day : u % Day = ReminderSpec[a].slot})

\* (mutant) The occurrence told of counts as the next one.
NextFireFrom(a, t) ==
    IF ReminderSpec[a].schedule = "once" THEN 0
    ELSE Min({u \in t .. t + Day : u % Day = ReminderSpec[a].slot})

\* A daily or session reminder fires again after the coming second; 0 is None.
NextFire(a, t) ==
    IF ReminderSpec[a].schedule = "once" THEN 0 ELSE Occurrence(a, t + 1)

-----------------------------------------------------------------------------
Tick ==
    /\ now < MaxTime
    /\ now' = now + 1
    /\ UNCHANGED <<reminder, sessionAlerts, job, told, timeFaults, timeRestarts>>

Write(a, status, next) ==
    reminder' = [reminder EXCEPT ![a] = [status |-> status, next |-> next]]

TimeAlertCommand(a) ==
    /\ reminder[a].status = "NONE"
    /\ Write(a, "ACTIVE", Occurrence(a, now))
    /\ UNCHANGED <<now, sessionAlerts, job, told, timeFaults, timeRestarts>>

ClearTimeAlertCommand(a) ==
    /\ reminder[a].status # "NONE"
    /\ Write(a, "CANCELLED", 0)
    /\ UNCHANGED <<now, sessionAlerts, job, told, timeFaults, timeRestarts>>

ConfigCommand ==
    /\ sessionAlerts' = ~sessionAlerts
    /\ UNCHANGED <<now, reminder, job, told, timeFaults, timeRestarts>>

-----------------------------------------------------------------------------
(* _ManagedJob.trigger and evaluate_due_alerts.  The scheduler starts one   *)
(* instance at a time; a raised error ends the run, not the job.            *)

jobFrame == <<now, sessionAlerts, timeRestarts>>
Fails    == timeFaults < MaxFaults /\ timeFaults' = timeFaults + 1

\* The reminders the run will go through, as listed when it starts (a failed
\* read lists none and the run does nothing).
Trigger ==
    /\ job.pc = "idle"
    /\ job' = [pc |-> "loop", at |-> now,
               todo |-> {[id |-> a, due |-> reminder[a].next] :
                           a \in {b \in Reminders : /\ reminder[b].status = "ACTIVE"
                                                    /\ reminder[b].next <= now}}]
    /\ UNCHANGED <<jobFrame, reminder, told, timeFaults>>

Finish ==
    /\ job.pc = "loop" /\ job.todo = {}
    /\ job' = IdleJob
    /\ UNCHANGED <<jobFrame, reminder, told, timeFaults>>

Head1   == CHOOSE r \in job.todo : \A s \in job.todo : r.id <= s.id
Skip    == job' = [job EXCEPT !.pc = "loop", !.todo = @ \ {Head1}]
GiveUp  == job' = IdleJob
Turn(r) == job.pc = "loop" /\ job.todo # {} /\ r = Head1
Muted(a) == ReminderSpec[a].schedule = "session" /\ ~sessionAlerts

PassMuted(r) ==
    /\ Turn(r) /\ Muted(r.id)
    /\ Skip
    /\ UNCHANGED <<jobFrame, reminder, told, timeFaults>>

Tell(r, k) == told' = [told EXCEPT ![r.id][r.due] = @ + k]

DeliverDue(r) ==
    /\ Turn(r) /\ ~Muted(r.id) /\ r.id \notin Blocked
    /\ Tell(r, 1)
    /\ job' = [job EXCEPT !.pc = "mark"]
    /\ UNCHANGED <<jobFrame, reminder, timeFaults>>

\* (mutant) The first failed delivery ends the run.
FailureEndsRun(r) ==
    /\ Turn(r) /\ ~Muted(r.id)
    /\ \/ r.id \in Blocked /\ UNCHANGED <<told, timeFaults>>
       \/ r.id \notin Blocked /\ Fails /\ \E k \in 0 .. 1 : Tell(r, k)
    /\ GiveUp
    /\ UNCHANGED <<jobFrame, reminder>>

\* A failed delivery leaves the reminder due and goes on with the next; the
\* message may have gone out.
DeliveryFails(r) ==
    /\ Turn(r) /\ ~Muted(r.id)
    /\ \/ r.id \in Blocked /\ UNCHANGED <<told, timeFaults>>
       \/ r.id \notin Blocked /\ Fails /\ \E k \in 0 .. 1 : Tell(r, k)
    /\ Skip
    /\ UNCHANGED <<jobFrame, reminder>>

\* mark_time_alert_triggered: whatever it reads, it writes the next time, and
\* ACTIVE or, when there is none, COMPLETED.
MarkTriggered ==
    LET a == Head1.id
        next == NextFire(a, job.at)
    IN  /\ job.pc = "mark"
        /\ Write(a, IF next = 0 THEN "COMPLETED" ELSE "ACTIVE", next)
        /\ Skip
        /\ UNCHANGED <<jobFrame, told, timeFaults>>

\* The read fails and the loop goes on, or the write fails and the run ends.
MarkFails ==
    /\ job.pc = "mark" /\ Fails
    /\ Skip \/ GiveUp
    /\ UNCHANGED <<jobFrame, reminder, told>>

TRestart ==
    /\ timeRestarts < MaxRestarts
    /\ timeRestarts' = timeRestarts + 1
    /\ GiveUp
    /\ UNCHANGED <<now, reminder, sessionAlerts, told, timeFaults>>

EvaluateDueAlerts ==
    \/ Trigger \/ Finish
    \/ \E r \in job.todo : PassMuted(r) \/ DeliverDue(r) \/ DeliveryFails(r)
    \/ MarkTriggered \/ MarkFails

TNext ==
    \/ Tick
    \/ \E a \in Reminders : TimeAlertCommand(a) \/ ClearTimeAlertCommand(a)
    \/ ConfigCommand
    \/ EvaluateDueAlerts
    \/ TRestart

\* The scheduler runs the job every minute and the job gets on.
TFairness == WF_timeVars(EvaluateDueAlerts)

TSpec == TInit /\ [][TNext]_timeVars /\ TFairness

-----------------------------------------------------------------------------
(* Properties. *)

\* An occurrence of a reminder is told once, and again only for a failure or a
\* restart between the message and the next time (evaluate_due_alerts).
RemindsOnce ==
    \A a \in Reminders : \A o \in DOMAIN told[a] :
        told[a][o] <= 1 + timeFaults + timeRestarts

\* A due reminder is told or cleared or muted, whatever becomes of the others:
\* one chat that never accepts a message does not hold the rest up.
DueIsTold ==
    LET due(a) == /\ reminder[a].status = "ACTIVE" /\ reminder[a].next <= now
                  /\ ~Muted(a)
    IN  \A a \in Reminders \ Blocked : due(a) ~> ~due(a)
=============================================================================
