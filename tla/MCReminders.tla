----------------------------- MODULE MCReminders -----------------------------
(* Time alerts and indicator alerts for TLC, each in behaviours of its own: *)
(* they share no state.                                                      *)
EXTENDS TimeAlerts, IndicatorAlerts, TLC

VARIABLE focus   \* the kind of alert a behaviour is about

vars == <<focus, timeVars, indicatorVars>>

\* A daily reminder of a chat that never accepts a message, one that is told
\* once at the same time, and a session reminder later in the day.
MCReminderSpec == 1 :> [schedule |-> "daily", slot |-> 1]
               @@ 2 :> [schedule |-> "once", slot |-> 1]
               @@ 3 :> [schedule |-> "session", slot |-> 2]

Init == focus \in {"time", "indicator"} /\ TInit /\ IInit

Next ==
    /\ UNCHANGED focus
    /\ \/ focus = "time" /\ TNext /\ UNCHANGED indicatorVars
       \/ focus = "indicator" /\ INext /\ UNCHANGED timeVars

Spec == Init /\ [][Next]_vars /\ WF_vars(focus = "time" /\ EvaluateDueAlerts /\ UNCHANGED <<focus, indicatorVars>>)
=============================================================================
