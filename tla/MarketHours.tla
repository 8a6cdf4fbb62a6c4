------------------------------ MODULE MarketHours ------------------------------
(***************************************************************************)
(* Market hours (data/market_hours.py) and the chain of one-shot jobs that *)
(* warms the candle cache whenever a market opens                          *)
(* (_schedule_market_open_warm and _run_market_open_warm of                *)
(* .worktrees/scan-force/orchestration/scheduler.py, with warm_all of      *)
(* cache_warmer.py there).                                                 *)
(***************************************************************************)
EXTENDS Integers, Sequences, FiniteSets, FiniteSetsExt

CONSTANTS
    Schedules,     \* the schedules to consider: category -> sequence of
                   \* [open, close] sessions in order
    LookAhead,     \* how far ahead a schedule is read
    Grace,         \* misfire_grace_time
    MaxWarm,       \* bound on the length of a warm
    MaxHour        \* bound on the clock

VARIABLES
    hour,
    sessions,      \* category -> its sessions
    runAt,         \* time of the scheduled warm, Never when there is none
    warming,       \* since when a warm runs, Never when none does
    started,       \* when the bot started
    warmed         \* openings a warm has served: <<category, open>> (history)

hoursVars == <<hour, sessions, runAt, warming, started, warmed>>

Categories == {"fx", "metals"}
Never == -1

ASSUME Bounds == LookAhead \in Nat /\ Grace \in Nat /\ MaxWarm \in Nat

\* What the chain needs of the exchanges' calendars: a session outlasts the
\* grace of a warm; the next one opens more than a unit after it closes, and
\* within the look-ahead; and openings of the two categories are at the same
\* time or further apart than a late warm may last.
Timetable(s) ==
    /\ \A c \in Categories : s[c] \in Seq([open : Nat, close : Nat])
    /\ \A c \in Categories : \A i \in DOMAIN s[c] :
          /\ s[c][i].open + Grace < s[c][i].close
          /\ \A j \in DOMAIN s[c] : i < j => s[c][i].close + 1 < s[c][j].open
          /\ s[c][i].open <= LookAhead + (IF i = 1 THEN 0 ELSE s[c][i - 1].close)
    /\ \A c, d \in Categories : \A i \in DOMAIN s[c], j \in DOMAIN s[d] :
          s[c][i].open < s[d][j].open => s[c][i].open + Grace + MaxWarm < s[d][j].open

ASSUME Timetables == \A s \in Schedules : Timetable(s)

-----------------------------------------------------------------------------
(* Market hours. *)

\* The sessions that have not closed and open within the look-ahead.
Coming(c, t) == {i \in DOMAIN sessions[c] : /\ sessions[c][i].close > t
                                            /\ sessions[c][i].open <= t + LookAhead}

Earliest(S) == IF S = {} THEN Never ELSE Min(S)

FindNextOpenAfter(c, t) == Earliest({sessions[c][i].open : i \in {j \in Coming(c, t) : sessions[c][j].open > t}})

\* _compute_category_status: open in a session that spans t.
CategoryStatus(c, t) ==
    LET active == {i \in Coming(c, t) : sessions[c][i].open <= t}
    IN  IF active # {}
          THEN [open |-> TRUE, nextOpen |-> Never, nextClose |-> sessions[c][Min(active)].close]
          ELSE [open |-> FALSE, nextOpen |-> FindNextOpenAfter(c, t), nextClose |-> Never]

IsOpen(t) == \E c \in Categories : CategoryStatus(c, t).open

\* (mutant) A category that is closed is forgotten while the other is open.
NextMarketOpenAtOpen(t) ==
    LET candidate(c) == LET s == CategoryStatus(c, t)
                        IN  IF s.open THEN CategoryStatus(c, s.nextClose + 1).nextOpen
                            ELSE IF IsOpen(t) THEN Never ELSE s.nextOpen
    IN  Earliest({candidate(c) : c \in Categories} \ {Never})

\* The next opening of a category, looked for after its close while it is open.
NextMarketOpenAt(t) ==
    LET candidate(c) == LET s == CategoryStatus(c, t)
                        IN  IF s.open THEN CategoryStatus(c, s.nextClose + 1).nextOpen
                            ELSE s.nextOpen
    IN  Earliest({candidate(c) : c \in Categories} \ {Never})

-----------------------------------------------------------------------------
(* The chain of warms. *)

HInit ==
    /\ hour = 0
    /\ sessions \in Schedules
    /\ runAt = NextMarketOpenAt(0) /\ warming = Never
    /\ started = 0 /\ warmed = {}

\* The scheduler starts a job in time and a warm ends in time.
HourPasses ==
    /\ hour < MaxHour
    /\ runAt # Never => hour < runAt + Grace
    /\ warming # Never => hour < warming + MaxWarm
    /\ hour' = hour + 1
    /\ UNCHANGED <<sessions, runAt, warming, started, warmed>>

\* The sessions under way.
Spanning(c, t) == {i \in DOMAIN sessions[c] : sessions[c][i].open <= t /\ t < sessions[c][i].close}

\* warm_all serves the categories that are open when it starts.
RunWarm ==
    /\ runAt # Never /\ hour >= runAt
    /\ runAt' = Never /\ warming' = hour
    /\ warmed' = warmed \cup UNION {{<<c, x.open>> : x \in {sessions[c][i] : i \in Spanning(c, hour)}} :
                                     c \in Categories}
    /\ UNCHANGED <<hour, sessions, started>>

\* An opening that is due already is moved to the next second.
Schedule(t) == IF t # Never /\ t <= hour THEN hour + 1 ELSE t

\* Whether it succeeds or raises, a warm schedules the next.
WarmEnds ==
    /\ warming # Never
    /\ warming' = Never
    /\ runAt' = Schedule(NextMarketOpenAt(hour))
    /\ UNCHANGED <<hour, sessions, started, warmed>>

\* The bot stops and starts again: the jobs are in memory.
HRestart ==
    /\ started' = hour
    /\ warming' = Never
    /\ runAt' = Schedule(NextMarketOpenAt(hour))
    /\ UNCHANGED <<hour, sessions, warmed>>

HNext == HourPasses \/ RunWarm \/ WarmEnds \/ HRestart

HSpec == HInit /\ [][HNext]_hoursVars

-----------------------------------------------------------------------------
(* Properties. *)

\* The chain does not break: every opening of a market since the bot started
\* was followed by a warm that found that market open, once the grace is over
\* (_run_market_open_warm, next_market_open_at).
OpeningsWarmed ==
    \A c \in Categories : \A i \in DOMAIN sessions[c] :
        LET o == sessions[c][i].open
        IN  o > started /\ o + Grace < hour => <<c, o>> \in warmed
=============================================================================
