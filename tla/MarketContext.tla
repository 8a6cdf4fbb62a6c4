---------------------------- MODULE MarketContext ----------------------------
(***************************************************************************)
(* The economic calendar and the macro indicators: data/forex_calendar,    *)
(* data/macro, and the reads and refreshes of orchestration and agent.     *)
(*                                                                         *)
(* Both keep the last answer of a web service in memory.  Refreshes run    *)
(* under the runtime lock; calendar filters and the macro view do not, and *)
(* every one of them may fetch.  Events are the revision of the feed they  *)
(* were read from, or none of it when the answer was empty; macro values   *)
(* are the time they were read.                                            *)
(***************************************************************************)
EXTENDS Integers, Sequences

CONSTANTS
    RefreshAfter,  \* calendar_refresh_hours and macro_refresh_hours
    Locked,        \* requests that hold the runtime lock, one at a time
    Unlocked,      \* requests that do not
    MaxTime,       \* bound: the clock
    MaxRevision,   \* bound: revisions of the feed
    MaxRequests,   \* bound: requests
    MaxFaults      \* bound: failed fetches

(* A refresh interval of hours, and fetches of seconds: an answer that is  *)
(* still in flight is never due for replacement by age.                    *)
ASSUME RefreshOutlastsFetches == RefreshAfter \in Nat /\ RefreshAfter >= 3
ASSUME BoundsType  == {MaxTime, MaxRevision, MaxRequests, MaxFaults} \subseteq Nat

VARIABLES
    now,       \* the clock, in hours
    feed,      \* the hours at which the revisions of the calendar feed came out
    calendar,  \* ForexCalendarClient: events, refresh time, version
    macro,     \* MacroContextService: time of the last good values, 0 if none
    lastStatus, \* MacroContextService: the status it answered last
    view,      \* ScanOrchestrator.macro_status
    task,      \* what each request is doing
    asked,     \* requests so far
    faults     \* failed fetches so far

contextVars == <<now, feed, calendar, macro, lastStatus, view, task, asked, faults>>

Workers == Locked \union Unlocked

(* A macro status: the time of its values (0 if it has none), and whether  *)
(* it carries an error.                                                    *)
NoStatus == [at |-> 0, error |-> FALSE]

(* A request: the calls it still makes, the fetch at hand with its answer, *)
(* the macro status it holds, and since which good values it runs.         *)
Idle ==
    [pc |-> "idle", calls |-> <<>>, at |-> 0, revision |-> 0, blank |-> FALSE,
     status |-> NoStatus, since |-> 0]

CtxInit ==
    /\ now = 1 /\ feed = <<1>>
    /\ calendar = [events |-> 0, blank |-> TRUE, at |-> 0, version |-> 0]
    /\ macro = 0
    /\ lastStatus = NoStatus /\ view = NoStatus
    /\ task = [w \in Workers |-> Idle]
    /\ asked = 0 /\ faults = 0

-----------------------------------------------------------------------------
(* The world outside                                                       *)

Fetching(w) == task[w].pc \in {"fetch", "download", "apply"}

(* A fetch times out after seconds: it may see the clock turn once.        *)
Tick ==
    /\ now < MaxTime /\ \A w \in Workers : Fetching(w) => task[w].at = now
    /\ now' = now + 1
    /\ UNCHANGED <<feed, calendar, macro, lastStatus, view, task, asked, faults>>

Publish ==
    /\ Len(feed) < MaxRevision
    /\ feed' = Append(feed, now)
    /\ UNCHANGED <<now, calendar, macro, lastStatus, view, task, asked, faults>>

-----------------------------------------------------------------------------
(* What the requests call, in order                                        *)

ForceCalendar == <<"force", "refreshed_at", "version">>
ScanContext   == <<"events", "refreshed_at", "version", "macro", "events">>
FilterEvents  == <<"events">>
ForceMacro    == <<"force_macro">>
MacroView     == <<"view">>

Begin(w, calls) ==
    /\ task[w].pc = "idle" /\ asked < MaxRequests
    /\ w \in Locked => \A l \in Locked : task[l].pc = "idle"
    /\ asked' = asked + 1
    /\ task' = [task EXCEPT ![w] = [Idle EXCEPT !.pc = "call", !.calls = calls, !.since = macro]]
    /\ UNCHANGED <<now, feed, calendar, macro, lastStatus, view, faults>>

Call(w) == Head(task[w].calls)

(* The call at hand returned: the next one, or the request is done.        *)
Return(w) ==
    task' = [task EXCEPT ![w] = IF Len(@.calls) = 1 THEN Idle
                                ELSE [task[w] EXCEPT !.pc = "call", !.calls = Tail(@)]]

-----------------------------------------------------------------------------
(* data/forex_calendar.py                                                  *)

CalendarCalls == {"force", "events", "refreshed_at", "version"}

(* Seeded fault: a calendar is due one hour late.                          *)
DueLate == calendar.at = 0 \/ now > calendar.at + RefreshAfter

(* _refresh_due_locked                                                     *)
Due == calendar.at = 0 \/ now >= calendar.at + RefreshAfter

(* get_events under its lock: cached events, or an attempt at now.         *)
GetEvents(w) ==
    /\ task[w].pc = "call" /\ Call(w) \in CalendarCalls
    /\ IF Call(w) = "force" \/ Due
       THEN task' = [task EXCEPT ![w].pc = "fetch", ![w].at = now]
       ELSE Return(w)
    /\ UNCHANGED <<now, feed, calendar, macro, lastStatus, view, asked, faults>>

(* _fetch_rows, _parse_rows: the feed answers, perhaps with no event that  *)
(* can be read, or the events at hand are served.                          *)
FetchRows(w) ==
    /\ task[w].pc = "fetch"
    /\ \/ /\ \E blank \in BOOLEAN :
                task' = [task EXCEPT ![w].pc = "apply", ![w].revision = Len(feed), ![w].blank = blank]
          /\ UNCHANGED faults
       \/ /\ faults < MaxFaults /\ faults' = faults + 1
          /\ Return(w)
    /\ UNCHANGED <<now, feed, calendar, macro, lastStatus, view, asked>>

Answered(w) ==
    [events |-> task[w].revision, blank |-> task[w].blank, at |-> task[w].at,
     version |-> calendar.version + 1]

(* Seeded fault: an answer is stored without looking again.                *)
ApplyAnyAnswer(w) ==
    /\ task[w].pc = "apply"
    /\ calendar' = Answered(w)
    /\ Return(w)
    /\ UNCHANGED <<now, feed, macro, lastStatus, view, asked, faults>>

(* _refresh looks again under the lock: an unforced answer is dropped when *)
(* another one with events came first.                                     *)
ApplyAnswer(w) ==
    /\ task[w].pc = "apply"
    /\ calendar' = IF Call(w) # "force" /\ ~Due /\ ~calendar.blank THEN calendar ELSE Answered(w)
    /\ Return(w)
    /\ UNCHANGED <<now, feed, macro, lastStatus, view, asked, faults>>

-----------------------------------------------------------------------------
(* data/macro.py; ScanOrchestrator.refresh_macro; agent/runtime_views.py   *)

(* Seeded fault: a failure forgets the good values.                        *)
FailureForgets == [at |-> 0, error |-> TRUE]

(* _status_from_failure: the last good values with the error.              *)
FailureStatus == [at |-> macro, error |-> TRUE]

Filled(status) == status.at # 0 \/ status.error

(* current_macro_status: the status at hand if it says anything, or an     *)
(* unforced refresh.                                                       *)
ReadView(w) ==
    /\ task[w].pc = "call" /\ Call(w) = "view"
    /\ task' = [task EXCEPT ![w] = IF Filled(view) THEN [task[w] EXCEPT !.pc = "viewed", !.status = view]
                                   ELSE [task[w] EXCEPT !.calls = <<"macro">>]]
    /\ UNCHANGED <<now, feed, calendar, macro, lastStatus, view, asked, faults>>

GoodStatus(at) == [at |-> at, error |-> FALSE]

(* get_status: unforced, nothing is fetched before the first success (the  *)
(* last status is answered, a failure maybe), nor while the good values    *)
(* are young.                                                              *)
GetStatus(w) ==
    /\ task[w].pc = "call" /\ Call(w) \in {"macro", "force_macro"}
    /\ LET known == IF macro = 0 THEN lastStatus ELSE GoodStatus(macro)
       IN  IF Call(w) = "force_macro" \/ (macro # 0 /\ now - macro >= RefreshAfter)
           THEN /\ task' = [task EXCEPT ![w].pc = "download", ![w].at = now]
                /\ UNCHANGED lastStatus
           ELSE /\ task' = [task EXCEPT ![w].pc = "assign", ![w].status = known]
                /\ lastStatus' = known
    /\ UNCHANGED <<now, feed, calendar, macro, view, asked, faults>>

Download(w) ==
    /\ task[w].pc = "download"
    /\ \/ /\ macro' = task[w].at /\ lastStatus' = GoodStatus(task[w].at)
          /\ UNCHANGED faults
       \/ /\ faults < MaxFaults /\ faults' = faults + 1
          /\ lastStatus' = FailureStatus
          /\ UNCHANGED macro
    /\ task' = [task EXCEPT ![w].pc = "assign", ![w].status = lastStatus']
    /\ UNCHANGED <<now, feed, calendar, view, asked>>

(* refresh_macro leaves the status it got, whatever came in between.       *)
AssignView(w) ==
    /\ task[w].pc = "assign"
    /\ view' = task[w].status
    /\ task' = [task EXCEPT ![w].pc = "viewed"]
    /\ UNCHANGED <<now, feed, calendar, macro, lastStatus, asked, faults>>

AnswerView(w) ==
    /\ task[w].pc = "viewed"
    /\ Return(w)
    /\ UNCHANGED <<now, feed, calendar, macro, lastStatus, view, asked, faults>>

-----------------------------------------------------------------------------
Step(w) ==
    \/ GetEvents(w) \/ FetchRows(w) \/ ApplyAnswer(w)
    \/ ReadView(w) \/ GetStatus(w) \/ Download(w) \/ AssignView(w) \/ AnswerView(w)

CtxNext ==
    \/ Tick \/ Publish
    \/ \E w \in Locked, calls \in {ForceCalendar, ScanContext, ForceMacro} : Begin(w, calls)
    \/ \E w \in Unlocked, calls \in {FilterEvents, MacroView} : Begin(w, calls)
    \/ \E w \in Workers : Step(w)

CtxSpec == CtxInit /\ [][CtxNext]_contextVars

-----------------------------------------------------------------------------
(* Properties                                                              *)

(* An unforced refresh never replaces events by those of an earlier        *)
(* revision, however late its answer is: of two readers that both found    *)
(* the calendar due, the slower one must not win.  Only an empty calendar  *)
(* gives way to whatever comes.                                            *)
LateAnswerDropped ==
    [][\A w \in Workers :
          task[w].pc = "apply" /\ task'[w].pc # "apply" /\ Call(w) # "force"
          => calendar.blank \/ calendar'.events >= calendar.events]_contextVars

(* A call returns from memory or with an answer, not after a failed fetch. *)
Returns(w) == task[w].pc \in {"call", "apply"} /\ task'[w].calls # task[w].calls

(* A calendar call that did not fail leaves its caller a revision of the   *)
(* feed that is the current one or was replaced less than RefreshAfter     *)
(* hours ago, whether it fetched, found the calendar young, or gave up its *)
(* answer for another's.                                                   *)
ServedRecently ==
    [][\A w \in Workers :
          Returns(w) /\ Call(w) \in CalendarCalls
          => /\ calendar'.events \in 1 .. Len(feed)
             /\ \/ calendar'.events = Len(feed)
                \/ feed[calendar'.events + 1] > now - RefreshAfter]_contextVars

(* Macro values in view give way to none only by a request that began      *)
(* before there were any, and to values older by more than a fetch takes   *)
(* only by one that began before those in view were stored: macro_status   *)
(* is assigned without looking, but no failure and no refresh that began   *)
(* later takes values away.                                                *)
ViewKeepsValues ==
    [][\A w \in Workers :
          task[w].pc = "assign" /\ task'[w].pc = "viewed"
          => /\ view.at # 0 /\ view'.at = 0 => task[w].since = 0
             /\ view'.at + 1 < view.at => task[w].since < view.at]_contextVars
=============================================================================
