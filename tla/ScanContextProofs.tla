------------------------ MODULE ScanContextProofs ------------------------
(***************************************************************************)
(* Theorems about what a scan rests on.  About MarketContext, for any      *)
(* number of locked and unlocked requests, any feed, clock and failures:   *)
(* what a late answer may do to the calendar, how old the events are that  *)
(* a caller is left with, and who may take macro values out of view.       *)
(* About BundleScan, for any timeframes, threads and retention: what a     *)
(* thread pinned stays what it read, since versions are never reused, so   *)
(* that a pinned version is the very snapshot it published, or gone.       *)
(***************************************************************************)
EXTENDS MarketContext, BundleScan, TLAPS

-----------------------------------------------------------------------------
(* Types, and the clock of a fetch: it sees the clock turn at most once.   *)

Statuses == [at : Nat, error : BOOLEAN]

PCs == {"idle", "call", "fetch", "apply", "download", "assign", "viewed"}

Calls == {"force", "refreshed_at", "version", "events", "macro", "force_macro", "view"}

Tasks ==
    [pc : PCs, calls : Seq(Calls), at : Nat, revision : Nat, blank : BOOLEAN,
     status : Statuses, since : Nat]

Calendars == [events : Nat, blank : BOOLEAN, at : Nat, version : Nat]

Typed ==
    /\ now \in Nat /\ now >= 1 /\ feed \in Seq(Nat) /\ Len(feed) >= 1
    /\ calendar \in Calendars
    /\ macro \in Nat
    /\ lastStatus \in Statuses /\ view \in Statuses
    /\ task \in [Workers -> Tasks]

InTime(x) ==
    /\ x.pc # "idle" => Len(x.calls) >= 1
    /\ x.pc \in {"fetch", "download", "apply"} => x.at >= 1 /\ x.at <= now /\ now <= x.at + 1

Clocked == \A w \in Workers : InTime(task[w])

-----------------------------------------------------------------------------
(* The calendar: its events are a revision of the feed that was current    *)
(* when they were asked for or came out later, and so are those on their   *)
(* way; an answer of an older revision than the calendar's was asked for   *)
(* no more than an hour after it.                                          *)

CurrentAt(revision, at) ==
    /\ revision \in 1 .. Len(feed)
    /\ revision = Len(feed) \/ feed[revision + 1] >= at

CalendarReal ==
    /\ calendar.events <= Len(feed) /\ calendar.at <= now
    /\ calendar.events = 0 <=> calendar.at = 0
    /\ calendar.events = 0 => calendar.blank
    /\ calendar.events # 0 => CurrentAt(calendar.events, calendar.at)

NotOlder(x) ==
    x.pc = "apply" => /\ CurrentAt(x.revision, x.at)
                      /\ calendar.events > x.revision => calendar.at + 1 >= x.at

CalendarOK == CalendarReal /\ \A w \in Workers : NotOlder(task[w])

-----------------------------------------------------------------------------
(* The macro view: a request that began with values known has some to      *)
(* assign, and none that are older by more than a fetch takes.             *)

Informed(x) ==
    /\ x.since <= now /\ x.since <= macro + 1
    /\ x.since # 0 => macro # 0
    /\ x.pc = "assign" => x.since <= x.status.at + 1 /\ (x.since # 0 => x.status.at # 0)

MacroOK == macro <= now /\ \A w \in Workers : Informed(task[w])

ContextInv == Typed /\ Clocked /\ CalendarOK /\ MacroOK

-----------------------------------------------------------------------------
LEMMA IdleTask == Idle \in Tasks /\ Idle.pc = "idle" /\ Idle.since = 0 /\ Idle.calls = <<>>
<1>1. <<>> \in Seq(Calls)
  OBVIOUS
<1>2. QED
  BY <1>1 DEF Idle, NoStatus, Tasks, Statuses, PCs

LEMMA ContextInitInv == CtxInit => ContextInv
<1> SUFFICES ASSUME CtxInit PROVE ContextInv
  OBVIOUS
<1>1. \A w \in Workers : task[w] = Idle
  BY DEF CtxInit
<1>2. Typed
  BY IdleTask DEF CtxInit, Typed, NoStatus, Statuses, Calendars
<1>3. Clocked
  BY <1>1, IdleTask DEF Clocked, InTime
<1>4. CalendarOK
  BY <1>1, <1>2, IdleTask DEF CtxInit, CalendarOK, CalendarReal, NotOlder, Typed
<1>5. MacroOK
  BY <1>1, IdleTask DEF CtxInit, MacroOK, Informed
<1>6. QED
  BY <1>2, <1>3, <1>4, <1>5 DEF ContextInv

LEMMA TailCalls ==
  ASSUME NEW c \in Seq(Calls), Len(c) >= 1, Len(c) # 1
  PROVE  /\ Tail(c) \in Seq(Calls) /\ Len(Tail(c)) >= 1
         /\ \A i \in 1 .. Len(Tail(c)) : \E k \in 1 .. Len(c) : Tail(c)[i] = c[k]
<1>1. Len(c) \in Nat /\ Len(c) >= 2
  OBVIOUS
<1>2. Len(Tail(c)) = Len(c) - 1 /\ Tail(c) \in Seq(Calls)
  BY <1>1
<1>3. \A i \in 1 .. Len(Tail(c)) : i + 1 \in 1 .. Len(c) /\ Tail(c)[i] = c[i + 1]
  BY <1>1, <1>2
<1>4. Len(Tail(c)) >= 1
  BY <1>1, <1>2
<1>5. QED
  BY <1>2, <1>3, <1>4

(* What a call that returns leaves of its request.                         *)
LEMMA Returned ==
  ASSUME Typed, Clocked, NEW w \in Workers, task[w].pc # "idle", Return(w)
  PROVE  /\ task' = [task EXCEPT ![w] = task'[w]] /\ task'[w] \in Tasks
         /\ task'[w].pc \in {"idle", "call"} /\ (task'[w].pc # "idle" => Len(task'[w].calls) >= 1)
         /\ task'[w].since \in {0, task[w].since}
         /\ \A i \in 1 .. Len(task'[w].calls) :
               \E k \in 1 .. Len(task[w].calls) : task'[w].calls[i] = task[w].calls[k]
<1>1. task \in [Workers -> Tasks] /\ task[w] \in Tasks /\ Len(task[w].calls) >= 1
      /\ task[w].calls \in Seq(Calls)
  BY DEF Typed, Clocked, InTime, Tasks
<1>2. CASE Len(task[w].calls) = 1
  <2>1. task' = [task EXCEPT ![w] = Idle]
    BY <1>1, <1>2 DEF Return
  <2>2. task'[w] = Idle
    BY <1>1, <2>1
  <2>3. \A i \in 1 .. Len(<<>>) : FALSE
    OBVIOUS
  <2>4. QED
    BY <2>1, <2>2, <2>3, IdleTask
<1>3. CASE Len(task[w].calls) # 1
  <2>1. \E y : task' = [task EXCEPT ![w] = y]
    BY DEF Return
  <2>2. Tail(task[w].calls) \in Seq(Calls)
    BY <1>1, <1>3, TailCalls
  <2>3. task'[w] = [task[w] EXCEPT !.pc = "call", !.calls = Tail(@)]
    BY <1>1, <1>3 DEF Return
  <2>4. /\ task'[w].calls = Tail(task[w].calls) /\ task'[w].pc = "call" /\ task'[w] \in Tasks
        /\ task'[w].since = task[w].since /\ task' = [task EXCEPT ![w] = task'[w]]
    BY <1>1, <2>1, <2>2, <2>3 DEF Tasks, PCs
  <2>5. Len(Tail(task[w].calls)) >= 1 /\ \A i \in 1 .. Len(Tail(task[w].calls)) :
           \E k \in 1 .. Len(task[w].calls) : Tail(task[w].calls)[i] = task[w].calls[k]
    BY <1>1, <1>3, TailCalls
  <2>6. QED
    BY <2>4, <2>5
<1>4. QED
  BY <1>2, <1>3

-----------------------------------------------------------------------------
(* Types and clocks.                                                       *)

LEMMA TaskStaysTyped ==
  ASSUME Typed, Clocked, UNCHANGED now, NEW w \in Workers, NEW y \in Tasks,
         task' = [task EXCEPT ![w] = y], InTime(y),
         feed' = feed, calendar' \in Calendars, macro' \in Nat,
         lastStatus' \in Statuses, view' \in Statuses
  PROVE  Typed' /\ Clocked'
<1>1. Typed'
  BY DEF Typed
<1>2. \A v \in Workers : InTime(task'[v])
  BY DEF Typed, Clocked
<1>3. \A v \in Workers : InTime(task[v])'
  BY <1>2 DEF InTime
<1>4. QED
  BY <1>1, <1>3 DEF Clocked

LEMMA TypedInductive ==
  ASSUME RefreshOutlastsFetches, Typed, Clocked, [CtxNext]_contextVars
  PROVE  Typed' /\ Clocked'
<1> USE DEF Workers
<1>0. /\ task \in [Workers -> Tasks] /\ \A w \in Workers : task[w] \in Tasks /\ InTime(task[w])
      /\ calendar \in Calendars /\ macro \in Nat /\ lastStatus \in Statuses /\ view \in Statuses
      /\ now \in Nat /\ now >= 1 /\ feed \in Seq(Nat) /\ Len(feed) >= 1
  BY DEF Typed, Clocked
<1>1. CASE Tick
  <2>1. now' = now + 1 /\ UNCHANGED <<feed, calendar, macro, lastStatus, view, task>>
        /\ \A w \in Workers : Fetching(w) => task[w].at = now
    BY <1>1 DEF Tick
  <2>2. Typed'
    BY <1>0, <2>1 DEF Typed
  <2>3. \A w \in Workers : InTime(task[w])'
    BY <1>0, <2>1 DEF InTime, Fetching
  <2>4. QED
    BY <2>2, <2>3 DEF Clocked
<1>2. CASE Publish
  <2>1. feed' = Append(feed, now) /\ UNCHANGED <<now, calendar, macro, lastStatus, view, task>>
    BY <1>2 DEF Publish
  <2>2. feed' \in Seq(Nat) /\ Len(feed') >= 1
    BY <1>0, <2>1
  <2>3. QED
    BY <2>1, <2>2 DEF Typed, Clocked, InTime
<1>3. ASSUME NEW w \in Workers,
             NEW calls \in {ForceCalendar, ScanContext, ForceMacro, FilterEvents, MacroView},
             Begin(w, calls)
      PROVE  Typed' /\ Clocked'
  <2> DEFINE y == [Idle EXCEPT !.pc = "call", !.calls = calls, !.since = macro]
  <2>1. calls \in Seq(Calls) /\ Len(calls) >= 1
    <3>1. ForceCalendar \in Seq(Calls) /\ Len(ForceCalendar) >= 1
      BY DEF ForceCalendar, Calls
    <3>2. ScanContext \in Seq(Calls) /\ Len(ScanContext) >= 1
      BY DEF ScanContext, Calls
    <3>3. ForceMacro \in Seq(Calls) /\ Len(ForceMacro) >= 1
      BY DEF ForceMacro, Calls
    <3>4. FilterEvents \in Seq(Calls) /\ Len(FilterEvents) >= 1
      BY DEF FilterEvents, Calls
    <3>5. MacroView \in Seq(Calls) /\ Len(MacroView) >= 1
      BY DEF MacroView, Calls
    <3>6. QED
      BY <3>1, <3>2, <3>3, <3>4, <3>5
  <2>2. macro \in Nat
    BY <1>0
  <2> HIDE DEF Workers
  <2>3. y \in Tasks /\ y.pc = "call" /\ y.calls = calls
    BY <2>1, <2>2 DEF Idle, NoStatus, Tasks, Statuses, PCs
  <2>4. task' = [task EXCEPT ![w] = y] /\ UNCHANGED <<now, feed, calendar, macro, lastStatus, view>>
    BY <1>3 DEF Begin
  <2> HIDE DEF y
  <2>5. InTime(y)
    BY <2>1, <2>3 DEF InTime
  <2>6. QED
    BY <1>0, <2>3, <2>4, <2>5, TaskStaysTyped
<1> HIDE DEF Workers
<1>4. ASSUME NEW w \in Workers, task[w].pc # "idle", Return(w), UNCHANGED <<now, feed>>,
             calendar' \in Calendars, macro' \in Nat, lastStatus' \in Statuses, view' \in Statuses
      PROVE  Typed' /\ Clocked'
  <2>1. InTime(task'[w])
    BY <1>4, Returned DEF InTime
  <2>2. QED
    BY <1>4, <2>1, Returned, TaskStaysTyped
(* Any other step changes a few fields of one request: those of a fetch of *)
(* the calendar, or those of a macro refresh.                              *)
<1>5. ASSUME NEW w \in Workers, NEW pc \in PCs, NEW at \in Nat, NEW revision \in Nat, NEW blank \in BOOLEAN,
             task' = [task EXCEPT ![w] = [task[w] EXCEPT !.pc = pc, !.at = at, !.revision = revision,
                                                        !.blank = blank]],
             at >= 1 /\ at <= now /\ now <= at + 1, task[w].pc # "idle",
             UNCHANGED <<now, feed, calendar, macro, lastStatus, view>>
      PROVE  Typed' /\ Clocked'
  <2> DEFINE y == [task[w] EXCEPT !.pc = pc, !.at = at, !.revision = revision, !.blank = blank]
  <2>1. y \in Tasks /\ y.pc = pc /\ y.at = at /\ y.calls = task[w].calls
    BY <1>0 DEF Tasks
  <2> HIDE DEF y
  <2>2. task' = [task EXCEPT ![w] = y]
    BY <1>5 DEF y
  <2>3. InTime(y)
    BY <1>0, <1>5, <2>1 DEF InTime
  <2>4. QED
    BY <1>0, <1>5, <2>1, <2>2, <2>3, TaskStaysTyped
<1>6. ASSUME NEW w \in Workers, NEW pc \in PCs, NEW at \in Nat, NEW status \in Statuses,
             NEW calls \in Seq(Calls), Len(calls) >= 1,
             task' = [task EXCEPT ![w] = [task[w] EXCEPT !.pc = pc, !.at = at, !.status = status,
                                                        !.calls = calls]],
             pc \in {"call", "viewed", "assign"} \/ (pc = "download" /\ at = now),
             UNCHANGED <<now, feed, calendar>>, macro' \in Nat, lastStatus' \in Statuses, view' \in Statuses
      PROVE  Typed' /\ Clocked'
  <2> DEFINE y == [task[w] EXCEPT !.pc = pc, !.at = at, !.status = status, !.calls = calls]
  <2>1. y \in Tasks /\ y.pc = pc /\ y.at = at /\ y.calls = calls
    BY <1>0 DEF Tasks
  <2> HIDE DEF y
  <2>2. task' = [task EXCEPT ![w] = y]
    BY <1>6 DEF y
  <2>3. InTime(y)
    BY <1>0, <1>6, <2>1 DEF InTime
  <2>4. QED
    BY <1>0, <1>6, <2>1, <2>2, <2>3, TaskStaysTyped
<1>7. ASSUME NEW w \in Workers, GetEvents(w) PROVE Typed' /\ Clocked'
  <2>1. CASE Call(w) = "force" \/ Due
    <3>1. /\ task' = [task EXCEPT ![w] = [task[w] EXCEPT !.pc = "fetch", !.at = now,
                          !.revision = task[w].revision, !.blank = task[w].blank]]
          /\ task[w].pc # "idle" /\ UNCHANGED <<now, feed, calendar, macro, lastStatus, view>>
      BY <1>0, <1>7, <2>1 DEF GetEvents, Tasks
    <3>2. task[w].revision \in Nat /\ task[w].blank \in BOOLEAN
      BY <1>0 DEF Tasks
    <3>3. "fetch" \in PCs /\ now >= 1 /\ now <= now /\ now <= now + 1
      BY <1>0 DEF PCs
    <3>4. QED
      BY <1>0, <1>5, <3>1, <3>2, <3>3
  <2>2. CASE ~(Call(w) = "force" \/ Due)
    BY <1>0, <1>4, <1>7, <2>2 DEF GetEvents
  <2>3. QED
    BY <2>1, <2>2
<1>8. ASSUME NEW w \in Workers, FetchRows(w) PROVE Typed' /\ Clocked'
  <2>1. ASSUME NEW blank \in BOOLEAN,
               task' = [task EXCEPT ![w].pc = "apply", ![w].revision = Len(feed), ![w].blank = blank]
        PROVE  Typed' /\ Clocked'
    <3>0. PICK revision \in Nat : revision = Len(feed)
      BY <1>0
    <3> DEFINE y == [task[w] EXCEPT !.pc = "apply", !.revision = revision, !.blank = blank]
    <3>1. task' = [task EXCEPT ![w] = y] /\ task[w].pc = "fetch"
          /\ UNCHANGED <<now, feed, calendar, macro, lastStatus, view>>
      BY <1>0, <1>8, <2>1, <3>0 DEF FetchRows, Tasks
    <3>2. y \in Tasks /\ y.pc = "apply" /\ y.at = task[w].at /\ y.calls = task[w].calls
      BY <1>0, <2>1, <3>0 DEF Tasks, PCs
    <3> HIDE DEF y
    <3>3. InTime(y)
      BY <1>0, <3>1, <3>2 DEF InTime
    <3>4. QED
      BY <1>0, <3>1, <3>2, <3>3, TaskStaysTyped
  <2>2. CASE Return(w)
    BY <1>0, <1>4, <1>8, <2>2 DEF FetchRows
  <2>3. QED
    BY <1>8, <2>1, <2>2 DEF FetchRows
<1>9. ASSUME NEW w \in Workers, ApplyAnswer(w) PROVE Typed' /\ Clocked'
  <2>1. task[w].revision \in Nat /\ task[w].at \in Nat /\ task[w].blank \in BOOLEAN
    BY <1>0 DEF Tasks
  <2>2. calendar' \in Calendars
    BY <1>0, <1>9, <2>1 DEF ApplyAnswer, Answered, Calendars
  <2>3. task[w].pc # "idle" /\ Return(w) /\ UNCHANGED <<now, feed, macro, lastStatus, view>>
    BY <1>9 DEF ApplyAnswer
  <2>4. QED
    BY <1>0, <1>4, <2>2, <2>3
<1>10. ASSUME NEW w \in Workers, task[w].pc # "idle"
       PROVE  task[w].at \in Nat /\ task[w].status \in Statuses
              /\ task[w].calls \in Seq(Calls) /\ Len(task[w].calls) >= 1
  BY <1>0, <1>10 DEF Tasks, InTime
<1>11. ASSUME NEW w \in Workers, ReadView(w) PROVE Typed' /\ Clocked'
  <2>1. task[w].pc # "idle" /\ UNCHANGED <<now, feed, calendar, macro, lastStatus, view>>
    BY <1>11 DEF ReadView
  <2>2. /\ "viewed" \in PCs /\ "call" \in PCs
        /\ macro' \in Nat /\ lastStatus' \in Statuses /\ view' \in Statuses
    BY <1>0, <2>1 DEF PCs
  <2>3. CASE Filled(view)
    <3>1. task' = [task EXCEPT ![w] = [task[w] EXCEPT !.pc = "viewed", !.at = task[w].at,
                      !.status = view, !.calls = task[w].calls]]
      BY <1>0, <1>11, <2>3 DEF ReadView, Tasks
    <3>2. QED
      BY <1>0, <1>6, <1>10, <2>1, <2>2, <3>1
  <2>4. CASE ~Filled(view)
    <3> DEFINE q == <<"macro">>
    <3>1. task' = [task EXCEPT ![w] = [task[w] EXCEPT !.pc = "call", !.at = task[w].at,
                      !.status = task[w].status, !.calls = q]]
      BY <1>0, <1>11, <2>4 DEF ReadView, Tasks
    <3>2. q \in Seq(Calls) /\ Len(q) >= 1
      BY DEF Calls
    <3> HIDE DEF q
    <3>3. QED
      BY <1>6, <1>10, <2>1, <2>2, <3>1, <3>2
  <2>5. QED
    BY <2>3, <2>4
<1>12. ASSUME NEW w \in Workers, GetStatus(w) PROVE Typed' /\ Clocked'
  <2>0. task[w].pc # "idle" /\ UNCHANGED <<now, feed, calendar, macro, view>>
    BY <1>12 DEF GetStatus
  <2> DEFINE known == IF macro = 0 THEN lastStatus ELSE GoodStatus(macro)
             fetch == Call(w) = "force_macro" \/ (macro # 0 /\ now - macro >= RefreshAfter)
  <2>1. /\ known \in Statuses /\ "download" \in PCs /\ "assign" \in PCs
        /\ macro' \in Nat /\ view' \in Statuses
    BY <1>0, <2>0 DEF GoodStatus, Statuses, PCs
  <2>2. /\ fetch => /\ task' = [task EXCEPT ![w].pc = "download", ![w].at = now]
                    /\ lastStatus' = lastStatus
        /\ ~fetch => /\ task' = [task EXCEPT ![w].pc = "assign", ![w].status = known]
                     /\ lastStatus' = known
    BY <1>12 DEF GetStatus
  <2> HIDE DEF fetch, known
  <2>3. lastStatus' \in Statuses
    BY <1>0, <2>1, <2>2
  <2>4. CASE fetch
    <3>1. task' = [task EXCEPT ![w] = [task[w] EXCEPT !.pc = "download", !.at = now,
                      !.status = task[w].status, !.calls = task[w].calls]]
      BY <1>0, <2>2, <2>4 DEF Tasks
    <3>2. QED
      BY <1>0, <1>6, <1>10, <2>0, <2>1, <2>3, <3>1
  <2>5. CASE ~fetch
    <3>1. task' = [task EXCEPT ![w] = [task[w] EXCEPT !.pc = "assign", !.at = task[w].at,
                      !.status = known, !.calls = task[w].calls]]
      BY <1>0, <2>2, <2>5 DEF Tasks
    <3>2. QED
      BY <1>6, <1>10, <2>0, <2>1, <2>3, <3>1
  <2>6. QED
    BY <2>4, <2>5
<1>13. ASSUME NEW w \in Workers, Download(w) PROVE Typed' /\ Clocked'
  <2>0. task[w].pc # "idle" /\ UNCHANGED <<now, feed, calendar, view>>
        /\ task' = [task EXCEPT ![w].pc = "assign", ![w].status = lastStatus']
    BY <1>13 DEF Download
  <2>1. macro' \in Nat /\ lastStatus' \in Statuses
    <3>1. GoodStatus(task[w].at) \in Statuses /\ FailureStatus \in Statuses /\ task[w].at \in Nat
      BY <1>0, <1>10, <2>0 DEF GoodStatus, FailureStatus, Statuses
    <3>2. QED
      BY <1>0, <1>13, <3>1 DEF Download
  <2>2. PICK status \in Statuses : status = lastStatus'
    BY <2>1
  <2> DEFINE y == [task[w] EXCEPT !.pc = "assign", !.status = status]
  <2>3. task' = [task EXCEPT ![w] = y]
    BY <1>0, <2>0, <2>2 DEF Tasks
  <2>4. y \in Tasks /\ y.pc = "assign" /\ y.calls = task[w].calls
    BY <1>0, <2>2 DEF Tasks, PCs
  <2> HIDE DEF y
  <2>5. InTime(y)
    BY <1>10, <2>0, <2>4 DEF InTime
  <2>6. QED
    BY <1>0, <2>0, <2>1, <2>3, <2>4, <2>5, TaskStaysTyped
<1>14. ASSUME NEW w \in Workers, AssignView(w) PROVE Typed' /\ Clocked'
  <2>0. task[w].pc # "idle" /\ UNCHANGED <<now, feed, calendar, macro, lastStatus>> /\ view' = task[w].status
    BY <1>14 DEF AssignView
  <2>1. task' = [task EXCEPT ![w] = [task[w] EXCEPT !.pc = "viewed", !.at = task[w].at,
                    !.status = task[w].status, !.calls = task[w].calls]]
        /\ "viewed" \in PCs
    BY <1>0, <1>14 DEF AssignView, Tasks, PCs
  <2>2. macro' \in Nat /\ lastStatus' \in Statuses /\ view' \in Statuses
    BY <1>0, <1>10, <2>0
  <2>3. QED
    BY <1>6, <1>10, <2>0, <2>1, <2>2
<1>15. ASSUME NEW w \in Workers, AnswerView(w) PROVE Typed' /\ Clocked'
  BY <1>0, <1>4, <1>15 DEF AnswerView
<1>16. CASE UNCHANGED contextVars
  BY <1>16 DEF contextVars, Typed, Clocked, InTime
<1>17. Locked \subseteq Workers /\ Unlocked \subseteq Workers
  BY DEF Workers
<1>18. QED
  BY <1>1, <1>2, <1>3, <1>7, <1>8, <1>9, <1>11, <1>12, <1>13, <1>14, <1>15, <1>16, <1>17
     DEF CtxNext, Step

(* A step is one request's; the others keep their state.                   *)
LEMMA OthersKept ==
  ASSUME Typed, NEW w \in Workers, Step(w) \/ \E calls : Begin(w, calls)
  PROVE  \A v \in Workers \ {w} : task'[v] = task[v]
<1>1. \E y : task' = [task EXCEPT ![w] = y]
  <2>1. CASE \E calls : Begin(w, calls)
    BY <2>1 DEF Begin
  <2>2. CASE GetEvents(w)
    BY <2>2 DEF GetEvents, Return
  <2>3. CASE FetchRows(w)
    BY <2>3 DEF FetchRows, Return
  <2>4. CASE ApplyAnswer(w) \/ AnswerView(w)
    BY <2>4 DEF ApplyAnswer, AnswerView, Return
  <2>5. CASE ReadView(w) \/ GetStatus(w)
    BY <2>5 DEF ReadView, GetStatus
  <2>6. CASE Download(w)
    BY <2>6 DEF Download
  <2>7. CASE AssignView(w)
    BY <2>7 DEF AssignView
  <2>8. QED
    BY <2>1, <2>2, <2>3, <2>4, <2>5, <2>6, <2>7 DEF Step
<1>2. QED
  BY <1>1 DEF Typed

-----------------------------------------------------------------------------
(* The calendar.                                                           *)

LEMMA CalendarInductive ==
  ASSUME RefreshOutlastsFetches, Typed, Clocked, CalendarOK, [CtxNext]_contextVars
  PROVE  CalendarOK'
<1>0. /\ task \in [Workers -> Tasks] /\ \A w \in Workers : task[w] \in Tasks /\ InTime(task[w])
      /\ calendar \in Calendars
      /\ now \in Nat /\ now >= 1 /\ feed \in Seq(Nat) /\ Len(feed) >= 1
      /\ CalendarReal /\ \A w \in Workers : NotOlder(task[w])
  BY DEF Typed, Clocked, CalendarOK
<1>1. ASSUME UNCHANGED <<feed, calendar, task>>, now' \in Nat, now' >= now PROVE CalendarOK'
  BY <1>0, <1>1 DEF CalendarOK, CalendarReal, NotOlder, CurrentAt, Calendars
<1>2. ASSUME NEW w \in Workers, Step(w) \/ \E calls : Begin(w, calls),
             UNCHANGED <<now, feed, calendar>>, NotOlder(task'[w])
      PROVE  CalendarOK'
  <2>1. \A v \in Workers : NotOlder(task'[v])
    BY <1>0, <1>2, OthersKept
  <2>2. QED
    BY <1>0, <1>2, <2>1 DEF CalendarOK, CalendarReal, NotOlder, CurrentAt
<1>3. CASE Publish
  <2>1. feed' = Append(feed, now) /\ UNCHANGED <<now, calendar, task>>
    BY <1>3 DEF Publish
  <2>2. /\ Len(feed) \in Nat /\ Len(feed') = Len(feed) + 1 /\ feed'[Len(feed) + 1] = now
        /\ \A i \in 1 .. Len(feed) : feed'[i] = feed[i]
    BY <1>0, <2>1
  <2>3. ASSUME NEW revision, NEW at \in Nat, at <= now, CurrentAt(revision, at)
        PROVE  /\ revision \in 1 .. Len(feed')
               /\ revision = Len(feed') \/ feed'[revision + 1] >= at
    <3>1. revision \in 1 .. Len(feed')
      BY <2>2, <2>3 DEF CurrentAt
    <3>2. CASE revision = Len(feed)
      <4>1. feed'[revision + 1] = now
        BY <2>2, <3>2
      <4>2. QED
        BY <2>3, <3>1, <4>1 DEF CurrentAt
    <3>3. CASE revision # Len(feed)
      <4>1. revision + 1 \in 1 .. Len(feed) /\ feed[revision + 1] >= at
        BY <2>2, <2>3, <3>3 DEF CurrentAt
      <4>2. feed'[revision + 1] >= at
        BY <2>2, <4>1
      <4>3. QED
        BY <3>1, <4>2 DEF CurrentAt
    <3>4. QED
      BY <3>2, <3>3
  <2>4. CalendarReal'
    <3>1. calendar.events \in Nat /\ calendar.at \in Nat
      BY <1>0 DEF Calendars
    <3>2. calendar.events # 0 => CurrentAt(calendar.events, calendar.at)'
      BY <1>0, <2>1, <2>3, <3>1 DEF CalendarReal, CurrentAt
    <3>3. QED
      BY <1>0, <2>1, <2>2, <3>1, <3>2 DEF CalendarReal
  <2>5. ASSUME NEW w \in Workers PROVE NotOlder(task[w])'
    <3>1. task[w].pc = "apply" => task[w].at \in Nat /\ task[w].at <= now
      BY <1>0 DEF Tasks, InTime
    <3>2. task[w].pc = "apply" => CurrentAt(task[w].revision, task[w].at)'
      BY <1>0, <2>1, <2>3, <3>1 DEF NotOlder, CurrentAt
    <3>3. QED
      BY <1>0, <2>1, <3>2 DEF NotOlder
  <2>6. QED
    BY <2>4, <2>5 DEF CalendarOK
<1>4. ASSUME NEW w \in Workers, NEW calls, Begin(w, calls) PROVE CalendarOK'
  <2>1. task'[w].pc = "call" /\ UNCHANGED <<now, feed, calendar>>
    BY <1>0, <1>4 DEF Begin, Idle
  <2>2. QED
    BY <1>2, <1>4, <2>1 DEF NotOlder
<1>5. ASSUME NEW w \in Workers, Step(w), UNCHANGED <<now, feed, calendar>>, task'[w].pc # "apply"
      PROVE  CalendarOK'
  BY <1>2, <1>5 DEF NotOlder
<1>6. ASSUME NEW w \in Workers, Step(w), UNCHANGED <<now, feed, calendar>>, Return(w), task[w].pc # "idle"
      PROVE  CalendarOK'
  BY <1>5, <1>6, Returned
<1>7. ASSUME NEW w \in Workers, GetEvents(w) PROVE CalendarOK'
  <2>1. CASE task' = [task EXCEPT ![w].pc = "fetch", ![w].at = now]
    <3>1. task'[w].pc = "fetch"
      BY <1>0, <2>1 DEF Tasks
    <3>2. QED
      BY <1>5, <1>7, <3>1 DEF GetEvents, Step
  <2>2. CASE Return(w)
    BY <1>6, <1>7, <2>2 DEF GetEvents, Step
  <2>3. QED
    BY <1>7, <2>1, <2>2 DEF GetEvents
<1>8. ASSUME NEW w \in Workers, FetchRows(w) PROVE CalendarOK'
  <2>1. ASSUME NEW blank \in BOOLEAN,
               task' = [task EXCEPT ![w].pc = "apply", ![w].revision = Len(feed), ![w].blank = blank]
        PROVE  CalendarOK'
    <3>1. task'[w].revision = Len(feed)
      BY <1>0, <2>1 DEF Tasks
    <3>2. calendar.events <= Len(feed) /\ Len(feed) \in Nat /\ calendar.events \in Nat
      BY <1>0 DEF CalendarReal, Calendars
    <3>3. NotOlder(task'[w])
      BY <1>0, <3>1, <3>2 DEF NotOlder, CurrentAt
    <3>4. QED
      BY <1>2, <1>8, <3>3 DEF FetchRows, Step
  <2>2. CASE Return(w)
    BY <1>6, <1>8, <2>2 DEF FetchRows, Step
  <2>3. QED
    BY <1>8, <2>1, <2>2 DEF FetchRows
<1>9. ASSUME NEW w \in Workers, ApplyAnswer(w) PROVE CalendarOK'
  <2>1. CASE calendar' = calendar
    BY <1>6, <1>9, <2>1 DEF ApplyAnswer, Step
  <2>2. CASE calendar' = Answered(w)
    <3>1. /\ calendar'.events = task[w].revision /\ calendar'.at = task[w].at
          /\ task[w].pc = "apply" /\ UNCHANGED <<now, feed>> /\ task[w].pc # "idle" /\ Return(w)
      BY <1>9, <2>2 DEF ApplyAnswer, Answered
    <3>2. /\ CurrentAt(task[w].revision, task[w].at) /\ task[w].revision \in Nat
          /\ task[w].revision >= 1 /\ task[w].revision <= Len(feed)
          /\ task[w].at \in Nat /\ task[w].at >= 1 /\ task[w].at <= now /\ now <= task[w].at + 1
      BY <1>0, <3>1 DEF NotOlder, CurrentAt, InTime, Tasks
    <3>3. CalendarReal'
      BY <1>0, <3>1, <3>2 DEF CalendarReal, CurrentAt
    <3>4. ASSUME NEW v \in Workers, task'[v].pc = "apply"
          PROVE  CurrentAt(task[v].revision, task[v].at)' /\ calendar'.at + 1 >= task'[v].at
      <4>1. v # w
        BY <3>1, <3>4, Returned
      <4>2. task'[v] = task[v]
        BY <1>9, <4>1, OthersKept DEF Step
      <4>3. task[v].at <= now /\ task[v].at \in Nat /\ CurrentAt(task[v].revision, task[v].at)
        BY <1>0, <3>4, <4>2 DEF InTime, NotOlder, Tasks
      <4>4. CurrentAt(task[v].revision, task[v].at)'
        BY <3>1, <4>2, <4>3 DEF CurrentAt
      <4>5. QED
        BY <1>0, <3>1, <3>2, <4>2, <4>3, <4>4
    <3>5. QED
      BY <3>1, <3>3, <3>4 DEF CalendarOK, NotOlder
  <2>3. QED
    BY <1>9, <2>1, <2>2 DEF ApplyAnswer
<1>10. ASSUME NEW w \in Workers, ReadView(w) PROVE CalendarOK'
  <2>1. task'[w].pc # "apply"
    BY <1>0, <1>10 DEF ReadView, Tasks
  <2>2. QED
    BY <1>5, <1>10, <2>1 DEF ReadView, Step
<1>11. ASSUME NEW w \in Workers, GetStatus(w) PROVE CalendarOK'
  <2>1. task'[w].pc # "apply"
    BY <1>0, <1>11 DEF GetStatus, Tasks
  <2>2. QED
    BY <1>5, <1>11, <2>1 DEF GetStatus, Step
<1>12. ASSUME NEW w \in Workers, Download(w) PROVE CalendarOK'
  <2>1. task'[w].pc # "apply"
    BY <1>0, <1>12 DEF Download, Tasks
  <2>2. QED
    BY <1>5, <1>12, <2>1 DEF Download, Step
<1>13. ASSUME NEW w \in Workers, AssignView(w) PROVE CalendarOK'
  <2>1. task'[w].pc # "apply"
    BY <1>0, <1>13 DEF AssignView, Tasks
  <2>2. QED
    BY <1>5, <1>13, <2>1 DEF AssignView, Step
<1>14. ASSUME NEW w \in Workers, AnswerView(w) PROVE CalendarOK'
  BY <1>6, <1>14 DEF AnswerView, Step
<1>15. CASE Tick \/ UNCHANGED contextVars
  <2>1. UNCHANGED <<feed, calendar, task>> /\ (now' = now + 1 \/ now' = now)
    BY <1>15 DEF Tick, contextVars
  <2>2. QED
    BY <1>0, <1>1, <2>1
<1>16. Locked \subseteq Workers /\ Unlocked \subseteq Workers
  BY DEF Workers
<1>17. QED
  BY <1>3, <1>4, <1>7, <1>8, <1>9, <1>10, <1>11, <1>12, <1>13, <1>14, <1>15, <1>16 DEF CtxNext, Step

-----------------------------------------------------------------------------
(* The macro values.                                                       *)

(* A step of a request that leaves the good values as they are.            *)
LEMMA MacroFrame ==
  ASSUME Typed, MacroOK, NEW w \in Workers, Step(w), UNCHANGED <<now, macro>>, Informed(task'[w])
  PROVE  MacroOK'
<1>1. \A v \in Workers : Informed(task'[v])
  BY OthersKept DEF MacroOK
<1>2. QED
  BY <1>1 DEF MacroOK, Informed

LEMMA MacroInductive ==
  ASSUME Typed, Clocked, MacroOK, [CtxNext]_contextVars
  PROVE  MacroOK'
<1>0. /\ task \in [Workers -> Tasks] /\ \A w \in Workers : task[w] \in Tasks /\ InTime(task[w])
      /\ macro \in Nat /\ now \in Nat /\ macro <= now /\ lastStatus \in Statuses
      /\ \A w \in Workers : Informed(task[w])
  BY DEF Typed, Clocked, MacroOK
<1>1. CASE Tick \/ Publish \/ UNCHANGED contextVars
  <2>1. UNCHANGED <<macro, task>> /\ (now' = now \/ now' = now + 1)
    BY <1>1 DEF Tick, Publish, contextVars
  <2>2. ASSUME NEW w \in Workers PROVE Informed(task[w])'
    <3>1. task[w].since \in Nat
      BY <1>0 DEF Tasks
    <3>2. QED
      BY <1>0, <2>1, <3>1 DEF Informed
  <2>3. QED
    BY <1>0, <2>1, <2>2 DEF MacroOK
<1>2. ASSUME NEW w \in Workers, NEW calls, Begin(w, calls) PROVE MacroOK'
  <2> DEFINE y == [Idle EXCEPT !.pc = "call", !.calls = calls, !.since = macro]
  <2>1. task' = [task EXCEPT ![w] = y] /\ UNCHANGED <<now, macro>>
    BY <1>2 DEF Begin
  <2>2. y.pc = "call" /\ y.since = macro
    BY DEF Idle
  <2> HIDE DEF y
  <2>3. task'[w] = y /\ \A v \in Workers \ {w} : task'[v] = task[v]
    BY <1>0, <2>1
  <2>4. Informed(y)
    BY <1>0, <2>2 DEF Informed
  <2>5. \A v \in Workers : Informed(task'[v])
    BY <1>0, <2>3, <2>4
  <2>6. QED
    BY <1>0, <2>1, <2>5 DEF MacroOK, Informed
(* A step that keeps the good values and leaves nothing to assign.         *)
<1>3. ASSUME NEW w \in Workers, Step(w), UNCHANGED <<now, macro>>,
             task'[w].pc # "assign", task'[w].since \in {0, task[w].since}
      PROVE  MacroOK'
  <2>1. Informed(task'[w])
    BY <1>0, <1>3 DEF Informed
  <2>2. QED
    BY <1>3, <2>1, MacroFrame
<1>4. ASSUME NEW w \in Workers, Step(w), UNCHANGED <<now, macro>>, Return(w), task[w].pc # "idle"
      PROVE  MacroOK'
  BY <1>3, <1>4, Returned
<1>5. ASSUME NEW w \in Workers, GetEvents(w) PROVE MacroOK'
  <2>1. CASE task' = [task EXCEPT ![w].pc = "fetch", ![w].at = now]
    <3>1. task'[w].pc = "fetch" /\ task'[w].since = task[w].since
      BY <1>0, <2>1 DEF Tasks
    <3>2. QED
      BY <1>3, <1>5, <3>1 DEF GetEvents, Step
  <2>2. CASE Return(w)
    BY <1>4, <1>5, <2>2 DEF GetEvents, Step
  <2>3. QED
    BY <1>5, <2>1, <2>2 DEF GetEvents
<1>6. ASSUME NEW w \in Workers, FetchRows(w) PROVE MacroOK'
  <2>1. ASSUME NEW blank \in BOOLEAN,
               task' = [task EXCEPT ![w].pc = "apply", ![w].revision = Len(feed), ![w].blank = blank]
        PROVE  MacroOK'
    <3>1. task'[w].pc = "apply" /\ task'[w].since = task[w].since
      BY <1>0, <2>1 DEF Tasks
    <3>2. QED
      BY <1>3, <1>6, <3>1 DEF FetchRows, Step
  <2>2. CASE Return(w)
    BY <1>4, <1>6, <2>2 DEF FetchRows, Step
  <2>3. QED
    BY <1>6, <2>1, <2>2 DEF FetchRows
<1>7. ASSUME NEW w \in Workers, ApplyAnswer(w) \/ AnswerView(w) PROVE MacroOK'
  BY <1>4, <1>7 DEF ApplyAnswer, AnswerView, Step
<1>8. ASSUME NEW w \in Workers, ReadView(w) \/ AssignView(w) PROVE MacroOK'
  <2>1. task'[w].pc # "assign" /\ task'[w].since = task[w].since
    BY <1>0, <1>8 DEF ReadView, AssignView, Tasks
  <2>2. QED
    BY <1>3, <1>8, <2>1 DEF ReadView, AssignView, Step
<1>9. ASSUME NEW w \in Workers, GetStatus(w) PROVE MacroOK'
  <2> DEFINE known == IF macro = 0 THEN lastStatus ELSE GoodStatus(macro)
             fetch == Call(w) = "force_macro" \/ (macro # 0 /\ now - macro >= RefreshAfter)
  <2>1. Step(w) /\ UNCHANGED <<now, macro>>
    BY <1>9 DEF GetStatus, Step
  <2>2. CASE fetch
    <3>1. task' = [task EXCEPT ![w].pc = "download", ![w].at = now]
      BY <1>9, <2>2 DEF GetStatus
    <3>2. task'[w].pc = "download" /\ task'[w].since = task[w].since
      BY <1>0, <3>1 DEF Tasks
    <3>3. QED
      BY <1>3, <2>1, <3>2
  <2>3. CASE ~fetch
    <3>1. task' = [task EXCEPT ![w].pc = "assign", ![w].status = known]
      BY <1>9, <2>3 DEF GetStatus
    <3>2. task'[w].status = known /\ task'[w].since = task[w].since /\ task[w].since \in Nat
      BY <1>0, <3>1 DEF Tasks
    <3>3. CASE macro = 0
      <4>1. task[w].since = 0 /\ known = lastStatus /\ lastStatus.at \in Nat
        BY <1>0, <3>3 DEF Informed, Statuses
      <4>2. Informed(task'[w])
        BY <1>0, <3>2, <4>1 DEF Informed
      <4>3. QED
        BY <2>1, <4>2, MacroFrame
    <3>4. CASE macro # 0
      <4>1. known.at = macro
        BY <3>4 DEF GoodStatus
      <4>2. Informed(task'[w])
        BY <1>0, <3>2, <3>4, <4>1 DEF Informed
      <4>3. QED
        BY <2>1, <4>2, MacroFrame
    <3>5. QED
      BY <3>3, <3>4
  <2>4. QED
    BY <2>2, <2>3
<1>10. ASSUME NEW w \in Workers, Download(w) PROVE MacroOK'
  <2>0. /\ Step(w) /\ now' = now /\ task[w].at \in Nat
        /\ task[w].at >= 1 /\ task[w].at <= now /\ now <= task[w].at + 1
    BY <1>0, <1>10 DEF Download, Step, InTime, Tasks
  <2>1. task'[w].status = lastStatus' /\ task'[w].since = task[w].since
    BY <1>0, <1>10 DEF Download, Tasks
  <2>2. CASE macro' = task[w].at /\ lastStatus' = GoodStatus(task[w].at)
    <3>1. task'[w].status.at = macro' /\ macro' # 0 /\ macro' \in Nat
      BY <2>0, <2>1, <2>2 DEF GoodStatus
    <3>2. ASSUME NEW v \in Workers PROVE Informed(task[v])'
      <4>1. task'[v].since = task[v].since /\ task[v].since \in Nat /\ task[v].since <= now
        BY <1>0, <2>0, <2>1, OthersKept DEF Tasks, Informed
      <4>2. task'[v].since <= macro' + 1
        BY <1>0, <2>0, <2>2, <4>1
      <4>3. CASE v = w
        BY <2>0, <3>1, <4>1, <4>2, <4>3 DEF Informed
      <4>4. CASE v # w
        <5>1. task'[v] = task[v]
          BY <2>0, <4>4, OthersKept
        <5>2. QED
          BY <1>0, <2>0, <3>1, <4>1, <4>2, <5>1 DEF Informed
      <4>5. QED
        BY <4>3, <4>4
    <3>3. QED
      BY <2>0, <2>2, <3>2 DEF MacroOK
  <2>3. CASE macro' = macro /\ lastStatus' = FailureStatus
    <3>1. task'[w].status.at = macro
      BY <2>1, <2>3 DEF FailureStatus
    <3>2. Informed(task'[w])
      BY <1>0, <2>1, <3>1 DEF Informed
    <3>3. QED
      BY <2>0, <2>3, <3>2, MacroFrame
  <2>4. QED
    BY <1>10, <2>2, <2>3 DEF Download
<1>11. Locked \subseteq Workers /\ Unlocked \subseteq Workers
  BY DEF Workers
<1>12. QED
  BY <1>1, <1>2, <1>5, <1>6, <1>7, <1>8, <1>9, <1>10, <1>11 DEF CtxNext, Step

-----------------------------------------------------------------------------
(* The invariant, and the properties it gives.                             *)

THEOREM ContextInvariant == CtxSpec => []ContextInv
<1>1. CtxInit => ContextInv
  BY ContextInitInv
<1>2. ContextInv /\ [CtxNext]_contextVars => ContextInv'
  BY RefreshOutlastsFetches, TypedInductive, CalendarInductive, MacroInductive DEF ContextInv
<1>3. QED
  BY <1>1, <1>2, PTL DEF CtxSpec

(* The step of a worker's request, if it changes that request.             *)
LEMMA OwnStep ==
  ASSUME Typed, CtxNext, NEW w \in Workers, task[w].pc # "idle", task'[w] # task[w]
  PROVE  Step(w)
<1>1. ~Tick /\ ~Publish
  BY DEF Tick, Publish
<1>2. ASSUME NEW v \in Workers, NEW calls, Begin(v, calls) PROVE FALSE
  <2>1. v = w
    BY <1>2, OthersKept
  <2>2. QED
    BY <1>2, <2>1 DEF Begin
<1>3. PICK v \in Workers : Step(v)
  BY <1>1, <1>2 DEF CtxNext, Workers
<1>4. v = w
  BY <1>3, OthersKept
<1>5. QED
  BY <1>3, <1>4

(* Macro values in view give way to none only by a request that began      *)
(* before there were any, and to values older by more than a fetch takes   *)
(* only by one that began before those in view were stored.                *)
THEOREM ViewKeepsMacro == CtxSpec => ViewKeepsValues
<1> DEFINE Keeps == \A w \in Workers :
              task[w].pc = "assign" /\ task'[w].pc = "viewed"
              => /\ view.at # 0 /\ view'.at = 0 => task[w].since = 0
                 /\ view'.at + 1 < view.at => task[w].since < view.at
<1>1. ContextInv /\ [CtxNext]_contextVars => [Keeps]_contextVars
  <2>1. SUFFICES ASSUME ContextInv, CtxNext, NEW w \in Workers, task[w].pc = "assign", task'[w].pc = "viewed"
                 PROVE  /\ view.at # 0 /\ view'.at = 0 => task[w].since = 0
                        /\ view'.at + 1 < view.at => task[w].since < view.at
    OBVIOUS
  <2>2. Typed /\ task[w] \in Tasks /\ Informed(task[w]) /\ view.at \in Nat
    BY <2>1 DEF ContextInv, Typed, MacroOK, Statuses
  <2>3. Step(w)
    BY <2>1, <2>2, OwnStep
  <2>4. AssignView(w)
    BY <2>1, <2>3 DEF Step, GetEvents, FetchRows, ApplyAnswer, ReadView, GetStatus, Download, AnswerView
  <2>5. view' = task[w].status /\ task[w].status.at \in Nat /\ task[w].since \in Nat
    BY <2>2, <2>4 DEF AssignView, Tasks, Statuses
  <2>6. QED
    BY <2>1, <2>2, <2>5 DEF Informed
<1>2. QED
  BY <1>1, ContextInvariant, PTL DEF CtxSpec, ViewKeepsValues

(* Of two requests that both found the calendar due, the slower one never  *)
(* puts an older revision in place of a later one that has events.         *)
THEOREM LateAnswersDrop == CtxSpec => LateAnswerDropped
<1> DEFINE Kept == \A w \in Workers :
              task[w].pc = "apply" /\ task'[w].pc # "apply" /\ Call(w) # "force"
              => calendar.blank \/ calendar'.events >= calendar.events
<1>1. ContextInv /\ [CtxNext]_contextVars => [Kept]_contextVars
  <2>1. SUFFICES ASSUME ContextInv, CtxNext, NEW w \in Workers, task[w].pc = "apply", task'[w].pc # "apply",
                        Call(w) # "force", ~calendar.blank
                 PROVE  calendar'.events >= calendar.events
    OBVIOUS
  <2>2. /\ InTime(task[w]) /\ NotOlder(task[w]) /\ CalendarReal /\ calendar \in Calendars
        /\ now \in Nat /\ RefreshAfter \in Nat /\ RefreshAfter >= 3 /\ Typed /\ task[w] \in Tasks
    BY <2>1, RefreshOutlastsFetches DEF ContextInv, Typed, Clocked, CalendarOK
  <2>3. ApplyAnswer(w)
    <3>1. Step(w)
      BY <2>1, <2>2, OwnStep
    <3>2. QED
      BY <2>1, <3>1 DEF Step, GetEvents, FetchRows, ReadView, GetStatus, Download, AssignView, AnswerView
  <2>4. calendar.events \in Nat /\ calendar.at \in Nat /\ calendar.at # 0
    BY <2>1, <2>2 DEF Calendars, CalendarReal
  <2>5. CASE ~Due
    BY <2>1, <2>3, <2>4, <2>5 DEF ApplyAnswer
  <2>6. CASE Due
    <3>1. calendar'.events = task[w].revision /\ task[w].revision \in Nat
      BY <2>2, <2>3, <2>6 DEF ApplyAnswer, Answered, Tasks
    <3>2. /\ calendar.events > task[w].revision => calendar.at + 1 >= task[w].at
          /\ now <= task[w].at + 1 /\ task[w].at \in Nat
      BY <2>1, <2>2 DEF NotOlder, InTime, Tasks
    <3>3. now >= calendar.at + RefreshAfter
      BY <2>4, <2>6 DEF Due
    <3>4. QED
      BY <2>2, <2>4, <3>1, <3>2, <3>3
  <2>7. QED
    BY <2>5, <2>6
<1>2. QED
  BY <1>1, ContextInvariant, PTL DEF CtxSpec, LateAnswerDropped

(* What was current at a time less than RefreshAfter hours ago is current  *)
(* or was replaced since.                                                  *)
LEMMA CurrentRecently ==
  ASSUME Typed, RefreshOutlastsFetches, NEW revision, NEW at \in Nat, CurrentAt(revision, at), at + RefreshAfter > now
  PROVE  /\ revision \in 1 .. Len(feed)
         /\ revision = Len(feed) \/ feed[revision + 1] > now - RefreshAfter
<1>1. now \in Nat /\ RefreshAfter \in Nat /\ feed \in Seq(Nat)
  BY RefreshOutlastsFetches DEF Typed
<1>2. revision # Len(feed) => feed[revision + 1] \in Nat /\ feed[revision + 1] >= at
  BY <1>1 DEF CurrentAt
<1>3. QED
  BY <1>1, <1>2 DEF CurrentAt

(* A calendar call that did not fail leaves its caller a revision that is  *)
(* current or was replaced less than RefreshAfter hours ago.               *)
THEOREM CalendarServedRecently == CtxSpec => ServedRecently
<1> DEFINE Recent == \A w \in Workers :
              Returns(w) /\ Call(w) \in CalendarCalls
              => /\ calendar'.events \in 1 .. Len(feed)
                 /\ \/ calendar'.events = Len(feed)
                    \/ feed[calendar'.events + 1] > now - RefreshAfter
<1>1. ContextInv /\ [CtxNext]_contextVars => [Recent]_contextVars
  <2>1. SUFFICES ASSUME ContextInv, CtxNext, NEW w \in Workers, Returns(w), Call(w) \in CalendarCalls
                 PROVE  /\ calendar'.events \in 1 .. Len(feed)
                        /\ \/ calendar'.events = Len(feed)
                           \/ feed[calendar'.events + 1] > now - RefreshAfter
    OBVIOUS
  <2>2. /\ InTime(task[w]) /\ NotOlder(task[w]) /\ CalendarReal /\ calendar \in Calendars
        /\ now \in Nat /\ RefreshAfter \in Nat /\ RefreshAfter >= 3 /\ Typed /\ task[w] \in Tasks
        /\ task[w].pc \in {"call", "apply"} /\ task'[w].calls # task[w].calls
    BY <2>1, RefreshOutlastsFetches DEF ContextInv, Typed, Clocked, CalendarOK, Returns
  <2>3. Step(w)
    BY <2>1, <2>2, OwnStep
  <2>4. CASE task[w].pc = "call"
    <3>1. GetEvents(w)
      BY <2>1, <2>3, <2>4
         DEF Step, FetchRows, ApplyAnswer, ReadView, GetStatus, Download, AssignView, AnswerView, CalendarCalls
    <3>2. ~Due /\ calendar' = calendar
      <4>1. task' = [task EXCEPT ![w].pc = "fetch", ![w].at = now] => task'[w].calls = task[w].calls
        BY <2>2 DEF Tasks, Typed
      <4>2. QED
        BY <2>2, <3>1, <4>1 DEF GetEvents
    <3>3. /\ CurrentAt(calendar.events, calendar.at) /\ calendar.at \in Nat
          /\ calendar.at + RefreshAfter > now
      BY <2>2, <3>2 DEF Due, CalendarReal, Calendars
    <3>4. QED
      BY <2>2, <3>2, <3>3, CurrentRecently, RefreshOutlastsFetches
  <2>5. CASE task[w].pc = "apply"
    <3>1. ApplyAnswer(w)
      BY <2>3, <2>5 DEF Step, GetEvents, FetchRows, ReadView, GetStatus, Download, AssignView, AnswerView
    <3>2. CASE ~Due /\ calendar' = calendar
      <4>1. /\ CurrentAt(calendar.events, calendar.at) /\ calendar.at \in Nat
            /\ calendar.at + RefreshAfter > now
        BY <2>2, <3>2 DEF Due, CalendarReal, Calendars
      <4>2. QED
        BY <2>2, <3>2, <4>1, CurrentRecently, RefreshOutlastsFetches
    <3>3. CASE calendar' = Answered(w)
      <4>1. /\ calendar'.events = task[w].revision /\ task[w].at \in Nat
            /\ CurrentAt(task[w].revision, task[w].at) /\ now <= task[w].at + 1
        BY <2>2, <2>5, <3>3 DEF Answered, NotOlder, InTime, Tasks
      <4>2. task[w].at + RefreshAfter > now
        BY <2>2, <4>1
      <4>3. QED
        BY <2>2, <4>1, <4>2, CurrentRecently, RefreshOutlastsFetches
    <3>4. QED
      BY <3>1, <3>2, <3>3 DEF ApplyAnswer
  <2>6. QED
    BY <2>2, <2>4, <2>5
<1>2. QED
  BY <1>1, ContextInvariant, PTL DEF CtxSpec, ServedRecently

-----------------------------------------------------------------------------
(* Bundles                                                                 *)

Snapshots == [version : Nat, bar : Nat, lag : Int]
Jobs ==
    [pc : {"idle", "price", "read", "fetch", "persist", "check", "publish", "bundle"},
     todo : Seq(Frames), whole : BOOLEAN, cacheOnly : BOOLEAN,
     bar : Nat, lag : Int, pins : [Frames -> Nat], bars : [Frames -> Nat]]
Bundles == [version : Nat, members : [Frames -> Nat], lags : [Frames -> Int], bias : [BiasFrames -> Nat]]

BundleTyped ==
    /\ newest \in [Frames -> Nat] /\ entry \in [Frames -> Nat]
    /\ versions \in [Frames -> Nat] /\ published \in [Frames -> SUBSET Snapshots]
    /\ bundle \in Bundles /\ scan \in [ScanThreads -> Jobs]

\* The history of a timeframe holds each of its newest versions once.
HistoryOK(f) ==
    /\ \A s \in published[f] : s.version \in 1 .. versions[f]
    /\ \A s, t \in published[f] : s.version = t.version => s = t
    /\ \A v \in 1 .. versions[f] : versions[f] - v <= KeptVersions => Pinned(f, v) # {}

\* What a thread pinned shows the candles it read.
PinsOK(w, f) ==
    /\ scan[w].pins[f] <= versions[f]
    /\ \A s \in Pinned(f, scan[w].pins[f]) : s.bar = scan[w].bars[f]

\* A scan between its start and its bundle is at some timeframe.
AtFrame(w) == scan[w].pc \notin {"idle", "bundle"} => scan[w].todo # <<>>

\* What the bundle pins is what it was assembled from.
BundleOK(f) ==
    bundle # NoBundle =>
        /\ bundle.members[f] \in 1 .. versions[f]
        /\ \A s \in Pinned(f, bundle.members[f]) :
               s.lag = bundle.lags[f] /\ (f \in BiasFrames => s.bar = bundle.bias[f])

BundleInv ==
    /\ BundleTyped
    /\ \A f \in Frames : HistoryOK(f) /\ BundleOK(f)
    /\ \A w \in ScanThreads : AtFrame(w) /\ \A f \in Frames : PinsOK(w, f)

(* The invariant implies the property.                                     *)
LEMMA InvHangsTogether == BundleInv => BundleHangsTogether
<1> SUFFICES ASSUME BundleInv, bundle # NoBundle, NEW f \in Frames,
                    versions[f] - bundle.members[f] <= KeptVersions
             PROVE  \E s \in Pinned(f, bundle.members[f]) :
                       s.lag = bundle.lags[f] /\ (f \in BiasFrames => s.bar = bundle.bias[f])
  BY DEF BundleHangsTogether
<1>1. HistoryOK(f) /\ BundleOK(f)
  BY DEF BundleInv
<1>2. Pinned(f, bundle.members[f]) # {}
  BY <1>1 DEF HistoryOK, BundleOK
<1> QED BY <1>1, <1>2 DEF BundleOK

(* The idle thread and the empty store are typed.                          *)
LEMMA Initial == NotScanning \in Jobs /\ NoPins \in [Frames -> Nat] /\ NoBundle \in Bundles
<1>1. NoPins \in [Frames -> Nat]
  BY DEF NoPins
<1>2. <<>> \in Seq(Frames)
  OBVIOUS
<1> QED BY <1>1, <1>2 DEF NotScanning, Jobs, NoBundle, Bundles, NoPins

(* The invariant holds initially.                                          *)
LEMMA BundleInitInv == BInit => BundleInv
<1> SUFFICES ASSUME BInit PROVE BundleInv
  OBVIOUS
<1>1. BundleTyped
  <2>1. entry \in [Frames -> Nat] /\ newest \in [Frames -> Nat] /\ published \in [Frames -> SUBSET Snapshots]
    BY DEF BInit
  <2>2. versions \in [Frames -> Nat] /\ bundle \in Bundles /\ scan \in [ScanThreads -> Jobs]
    BY Initial DEF BInit
  <2> QED BY <2>1, <2>2 DEF BundleTyped
<1>2. \A f \in Frames : HistoryOK(f) /\ BundleOK(f)
  BY DEF BInit, HistoryOK, BundleOK, NoPins
<1>3. \A w \in ScanThreads : scan[w] = NotScanning
  BY DEF BInit
<1>4. \A w \in ScanThreads : AtFrame(w) /\ \A f \in Frames : PinsOK(w, f)
  BY <1>3 DEF BInit, AtFrame, PinsOK, Pinned, NotScanning, NoPins
<1> QED BY <1>1, <1>2, <1>4 DEF BundleInv

-----------------------------------------------------------------------------
(* Steps that touch neither the store nor what a thread pinned.            *)

\* The step of w leaves the store and the pins, and w is at a timeframe.
QuietStep(w) ==
    /\ newest' \in [Frames -> Nat] /\ entry' \in [Frames -> Nat]
    /\ UNCHANGED storeVars
    /\ \E j \in Jobs :
          /\ scan' = [scan EXCEPT ![w] = j]
          /\ \/ j.pins = scan[w].pins /\ j.bars = scan[w].bars
             \/ j.pins = NoPins
          /\ j.pc \notin {"idle", "bundle"} => j.todo # <<>>

(* Such a step keeps the invariant.                                        *)
LEMMA QuietKeeps ==
    ASSUME BundleInv, NEW w \in ScanThreads, QuietStep(w)
    PROVE  BundleInv'
<1>1. PICK j \in Jobs :
          /\ scan' = [scan EXCEPT ![w] = j]
          /\ \/ j.pins = scan[w].pins /\ j.bars = scan[w].bars
             \/ j.pins = NoPins
          /\ j.pc \notin {"idle", "bundle"} => j.todo # <<>>
  BY DEF QuietStep
<1>2. UNCHANGED storeVars
  BY DEF QuietStep
<1>3. scan \in [ScanThreads -> Jobs]
  BY DEF BundleInv, BundleTyped
<1>4. scan'[w] = j /\ \A u \in ScanThreads : u # w => scan'[u] = scan[u]
  BY <1>1, <1>3
<1>5. BundleTyped'
  BY <1>1, <1>2, <1>3 DEF BundleInv, BundleTyped, QuietStep, storeVars
<1>6. \A f \in Frames : HistoryOK(f)' /\ BundleOK(f)'
  BY <1>2 DEF BundleInv, HistoryOK, BundleOK, Pinned, storeVars
<1>7. ASSUME NEW u \in ScanThreads PROVE AtFrame(u)' /\ \A f \in Frames : PinsOK(u, f)'
  <2>1. AtFrame(u) /\ \A f \in Frames : PinsOK(u, f)
    BY DEF BundleInv
  <2>2. AtFrame(u)'
    BY <2>1, <1>1, <1>4 DEF AtFrame
  <2>3. ASSUME NEW f \in Frames PROVE PinsOK(u, f)'
    <3>1. CASE u # w \/ (j.pins = scan[w].pins /\ j.bars = scan[w].bars)
      BY <3>1, <2>1, <1>4, <1>2 DEF PinsOK, Pinned, storeVars
    <3>2. CASE u = w /\ j.pins = NoPins
      <4>1. scan'[u].pins[f] = 0
        BY <3>2, <1>4 DEF NoPins
      <4>2. versions[f] \in Nat /\ \A s \in published[f] : s.version # 0
        BY DEF BundleInv, BundleTyped, HistoryOK
      <4> QED BY <4>1, <4>2, <1>2 DEF PinsOK, Pinned, storeVars
    <3> QED BY <3>1, <3>2, <1>1
  <2> QED BY <2>2, <2>3
<1> QED BY <1>5, <1>6, <1>7 DEF BundleInv

(* A working thread is typed and at a timeframe.                           *)
LEMMA Working ==
    ASSUME BundleInv, NEW w \in ScanThreads
    PROVE  /\ scan[w] \in Jobs
           /\ scan[w].pc \notin {"idle", "bundle"} => scan[w].todo # <<>> /\ NextFrame(w) \in Frames
<1>1. scan[w] \in Jobs /\ AtFrame(w)
  BY DEF BundleInv, BundleTyped
<1>2. ASSUME NEW q \in Seq(Frames), q # <<>> PROVE Head(q) \in Frames
  BY <1>2
<1> QED BY <1>1, <1>2 DEF AtFrame, NextFrame, Jobs

(* Moving on within a timeframe is a quiet step.                           *)
LEMMA GoesQuiet ==
    ASSUME BundleInv, NEW w \in ScanThreads, scan[w].pc \notin {"idle", "bundle"},
           NEW pc \in {"price", "read", "fetch", "persist", "check", "publish"},
           NEW bar \in Nat, NEW lag \in Int,
           scan' = [scan EXCEPT ![w] = [scan[w] EXCEPT !.pc = pc, !.bar = bar, !.lag = lag]],
           UNCHANGED storeVars, newest' \in [Frames -> Nat], entry' \in [Frames -> Nat]
    PROVE  BundleInv'
<1> DEFINE j == [scan[w] EXCEPT !.pc = pc, !.bar = bar, !.lag = lag]
<1>1. scan[w] \in Jobs /\ scan[w].todo # <<>>
  BY Working
<1>2. j \in Jobs /\ j.pins = scan[w].pins /\ j.bars = scan[w].bars /\ j.todo = scan[w].todo
  BY <1>1 DEF Jobs
<1>3. scan' = [scan EXCEPT ![w] = j]
  OBVIOUS
<1> HIDE DEF j
<1>4. QuietStep(w)
  BY <1>1, <1>2, <1>3 DEF QuietStep
<1> QED BY <1>4, QuietKeeps

(* So is ending a scan, whatever ends it.                                  *)
LEMMA StopsQuiet ==
    ASSUME BundleInv, NEW w \in ScanThreads, Stops(w), UNCHANGED <<newest, entry, storeVars>>
    PROVE  BundleInv'
<1>1. newest \in [Frames -> Nat] /\ entry \in [Frames -> Nat]
  BY DEF BundleInv, BundleTyped
<1>2. NotScanning.pins = NoPins /\ NotScanning.pc = "idle" /\ NotScanning \in Jobs
  BY Initial DEF NotScanning
<1>3. QuietStep(w)
  BY <1>1, <1>2 DEF QuietStep, Stops
<1> QED BY <1>3, QuietKeeps

(* A scan or a chart refresh starts with nothing pinned.                   *)
LEMMA StartKeeps ==
    ASSUME BundleInv, NEW w \in ScanThreads, NEW todo \in Seq(Frames), todo # <<>>,
           NEW whole \in BOOLEAN, NEW cacheOnly \in BOOLEAN, StartScan(w, todo, whole, cacheOnly)
    PROVE  BundleInv'
<1> DEFINE j == [NotScanning EXCEPT !.pc = "price", !.todo = todo, !.whole = whole, !.cacheOnly = cacheOnly]
<1>1. j \in Jobs /\ j.todo = todo
  BY Initial DEF Jobs, NotScanning
<1>2. j.pins = NoPins
  BY DEF NotScanning
<1>3. scan' = [scan EXCEPT ![w] = j] /\ UNCHANGED <<newest, entry, storeVars>>
  BY DEF StartScan
<1>4. newest \in [Frames -> Nat] /\ entry \in [Frames -> Nat]
  BY DEF BundleInv, BundleTyped
<1> HIDE DEF j
<1>5. QuietStep(w)
  BY <1>1, <1>2, <1>3, <1>4 DEF QuietStep, storeVars
<1> QED BY <1>5, QuietKeeps

-----------------------------------------------------------------------------
(* The two steps that publish.                                             *)

(* A published snapshot adds a version and disturbs no pinned one.         *)
LEMMA HistoryKeeps ==
    ASSUME BundleInv, NEW f \in Frames, NEW snap \in Snapshots,
           snap.version = versions[f] + 1,
           versions' = [versions EXCEPT ![f] = @ + 1],
           published' = [published EXCEPT ![f] = KeepNewest(@ \union {snap}, snap.version)]
    PROVE  /\ \A g \in Frames : HistoryOK(g)' /\ versions'[g] \in Nat /\ versions[g] <= versions'[g]
           /\ \A g \in Frames : \A v \in Nat :
                 v <= versions[g] => \A s \in published'[g] : s.version = v => s \in published[g]
           /\ \A s \in published'[f] : s.version = snap.version => s = snap
           /\ published' \in [Frames -> SUBSET Snapshots]
<1>1. /\ versions \in [Frames -> Nat] /\ published \in [Frames -> SUBSET Snapshots]
      /\ \A g \in Frames : HistoryOK(g)
  BY DEF BundleInv, BundleTyped
<1>2. versions'[f] = versions[f] + 1 /\ published'[f] = KeepNewest(published[f] \union {snap}, snap.version)
  BY <1>1
<1>3. published'[f] \subseteq published[f] \union {snap}
  BY <1>2 DEF KeepNewest
<1>4. \A g \in Frames : g # f => versions'[g] = versions[g] /\ published'[g] = published[g]
  BY <1>1
<1>10. /\ versions[f] \in Nat /\ snap.version = versions[f] + 1
      /\ \A s \in published[f] : s.version \in 1 .. versions[f]
      /\ \A t, u \in published[f] : t.version = u.version => t = u
  BY <1>1 DEF HistoryOK
<1>11. \A s \in published'[f] : s \in published[f] \/ s = snap
  BY <1>3
<1>5. HistoryOK(f)'
  <2>1. \A s \in published'[f] : s.version \in 1 .. versions'[f]
    <3> TAKE s \in published'[f]
    <3>1. CASE s \in published[f]
      BY <3>1, <1>10, <1>2
    <3>2. CASE s = snap
      BY <3>2, <1>10, <1>2
    <3> QED BY <3>1, <3>2, <1>11
  <2>2. \A s, t \in published'[f] : s.version = t.version => s = t
    <3> SUFFICES ASSUME NEW s \in published'[f], NEW t \in published'[f], s.version = t.version PROVE s = t
      OBVIOUS
    <3>1. CASE s \in published[f] /\ t \in published[f]
      BY <3>1, <1>10
    <3>2. ASSUME NEW r \in published[f] PROVE r.version # snap.version
      BY <1>10
    <3> QED BY <3>1, <3>2, <1>11
  <2>3. ASSUME NEW v \in 1 .. versions'[f], versions'[f] - v <= KeptVersions
        PROVE  Pinned(f, v)' # {}
    <3>1. CASE v = snap.version
      <4>1. snap \in published'[f]
        BY <1>2, FramesType DEF KeepNewest, Snapshots
      <4> QED BY <4>1, <3>1 DEF Pinned
    <3>2. CASE v # snap.version
      <4>1. v \in 1 .. versions[f] /\ versions[f] - v <= KeptVersions
        BY <1>1, <1>2, <2>3, <3>2, FramesType
      <4>2. PICK s \in published[f] : s.version = v
        BY <4>1, <1>1 DEF HistoryOK, Pinned
      <4>3. s \in published'[f]
        BY <4>2, <1>2, <2>3 DEF KeepNewest
      <4> QED BY <4>2, <4>3 DEF Pinned
    <3> QED BY <3>1, <3>2
  <2> QED BY <2>1, <2>2, <2>3 DEF HistoryOK
<1>6. \A g \in Frames : g # f => HistoryOK(g)'
  BY <1>1, <1>4 DEF HistoryOK, Pinned
<1>7. \A g \in Frames : \A v \in Nat :
         v <= versions[g] => \A s \in published'[g] : s.version = v => s \in published[g]
  <2> SUFFICES ASSUME NEW g \in Frames, NEW v \in Nat, v <= versions[g],
                      NEW s \in published'[g], s.version = v
               PROVE  s \in published[g]
    OBVIOUS
  <2>1. CASE g = f
    <3>1. s # snap
      BY <2>1, <1>10
    <3> QED BY <3>1, <2>1, <1>11
  <2>2. CASE g # f
    BY <2>2, <1>4
  <2> QED BY <2>1, <2>2
<1>8. \A s \in published'[f] : s.version = snap.version => s = snap
  BY <1>10, <1>11
<1>9. published' \in [Frames -> SUBSET Snapshots]
  BY <1>1, <1>2, <1>3
<1>12. ASSUME NEW g \in Frames PROVE HistoryOK(g)' /\ versions'[g] \in Nat /\ versions[g] <= versions'[g]
  <2>1. versions[g] \in Nat
    BY <1>1
  <2> QED BY <2>1, <1>2, <1>4, <1>5, <1>6
<1> QED BY <1>7, <1>8, <1>9, <1>12

(* Publishing a snapshot keeps the invariant.                              *)
LEMMA PublishKeeps ==
    ASSUME BundleInv, NEW w \in ScanThreads, SnapshotPublished(w)
    PROVE  BundleInv'
<1>0. NextFrame(w) \in Frames /\ versions[NextFrame(w)] + 1 \in Nat
  <2>1. NextFrame(w) \in Frames
    BY Working DEF SnapshotPublished
  <2>2. versions \in [Frames -> Nat]
    BY DEF BundleInv, BundleTyped
  <2> QED BY <2>1, <2>2
<1>a. PICK f \in Frames : f = NextFrame(w)
  BY <1>0
<1>b. PICK v \in Nat : v = versions[f] + 1
  BY <1>0, <1>a
<1>c. PICK rest : rest = Tail(scan[w].todo)
  OBVIOUS
<1>d. PICK snap : snap = [version |-> v, bar |-> scan[w].bar, lag |-> scan[w].lag]
  OBVIOUS
<1> DEFINE j == [scan[w] EXCEPT !.todo = rest, !.pins[f] = v, !.bars[f] = scan[w].bar,
                                !.pc = IF rest = <<>> THEN "bundle" ELSE "read"]
<1>1. scan[w] \in Jobs /\ scan[w].pc = "publish" /\ scan[w].todo # <<>>
  BY Working DEF SnapshotPublished
<1>2. UNCHANGED <<newest, entry, bundle>>
  BY DEF SnapshotPublished
<1>3. CASE Fails(w) /\ UNCHANGED <<versions, published>>
  <2>1. Stops(w) /\ UNCHANGED <<newest, entry, storeVars>>
    BY <1>3, <1>2 DEF Fails, storeVars
  <2> QED BY <2>1, StopsQuiet
<1>4. ASSUME versions' = [versions EXCEPT ![f] = v],
             published' = [published EXCEPT ![f] = KeepNewest(@ \union {snap}, v)],
             \/ Stops(w)
             \/ scan' = [scan EXCEPT ![w] = j]
      PROVE  BundleInv'
  <2>1. v \in Nat /\ snap \in Snapshots /\ snap.version = versions[f] + 1 /\ snap.bar = scan[w].bar
    BY <1>1, <1>b, <1>d DEF BundleInv, BundleTyped, Jobs, Snapshots
  <2>2. /\ \A g \in Frames : HistoryOK(g)' /\ versions'[g] \in Nat /\ versions[g] <= versions'[g]
        /\ \A g \in Frames : \A u \in Nat :
              u <= versions[g] => \A s \in published'[g] : s.version = u => s \in published[g]
        /\ \A s \in published'[f] : s.version = v => s = snap
        /\ published' \in [Frames -> SUBSET Snapshots]
    <3>1. versions' = [versions EXCEPT ![f] = @ + 1]
      BY <1>4, <1>b
    <3>2. published' = [published EXCEPT ![f] = KeepNewest(@ \union {snap}, snap.version)]
      BY <1>4, <1>d
    <3>3. snap.version = v
      BY <1>d
    <3> QED BY <3>1, <3>2, <3>3, <2>1, HistoryKeeps
  <2>3. versions' \in [Frames -> Nat] /\ versions'[f] = v
    BY <1>1, <1>4, <2>1 DEF BundleInv, BundleTyped
  <2>4. \A g \in Frames : BundleOK(g)'
    <3> SUFFICES ASSUME NEW g \in Frames, bundle # NoBundle PROVE BundleOK(g)'
      BY <1>2 DEF BundleOK
    <3>1. bundle.members[g] \in 1 .. versions[g] /\ versions[g] \in Nat /\ BundleOK(g)
      BY DEF BundleInv, BundleTyped, BundleOK
    <3>2. bundle.members[g] \in 1 .. versions'[g]
      BY <3>1, <2>2
    <3>3. \A s \in published'[g] : s.version = bundle.members[g] => s \in published[g]
      BY <3>1, <2>2
    <3> QED BY <3>1, <3>2, <3>3, <1>2 DEF BundleOK, Pinned
  <2>5. \A u \in ScanThreads : scan[u] \in Jobs /\ AtFrame(u) /\ \A g \in Frames : PinsOK(u, g)
    BY DEF BundleInv, BundleTyped
  <2>6. \A u \in ScanThreads, g \in Frames :
           /\ scan[u].pins[g] <= versions'[g]
           /\ \A s \in published'[g] : s.version = scan[u].pins[g] => s.bar = scan[u].bars[g]
    <3> SUFFICES ASSUME NEW u \in ScanThreads, NEW g \in Frames
                 PROVE  /\ scan[u].pins[g] <= versions'[g]
                        /\ \A s \in published'[g] : s.version = scan[u].pins[g] => s.bar = scan[u].bars[g]
      OBVIOUS
    <3>1. scan[u].pins[g] \in Nat /\ versions[g] \in Nat /\ PinsOK(u, g)
      BY <2>5 DEF Jobs, BundleInv, BundleTyped
    <3>2. scan[u].pins[g] <= versions'[g]
      BY <3>1, <2>2 DEF PinsOK
    <3>3. \A s \in published'[g] : s.version = scan[u].pins[g] => s \in published[g]
      BY <3>1, <2>2 DEF PinsOK
    <3> QED BY <3>1, <3>2, <3>3 DEF PinsOK, Pinned
  <2>7. CASE Stops(w)
    <3>1. scan' \in [ScanThreads -> Jobs] /\ \A u \in ScanThreads : scan'[u] = scan[u] \/ scan'[u] = NotScanning
      BY <2>7, Initial DEF Stops, BundleInv, BundleTyped
    <3>2. \A u \in ScanThreads : AtFrame(u)'
      BY <3>1, <2>5 DEF AtFrame, NotScanning
    <3>3. ASSUME NEW u \in ScanThreads, NEW g \in Frames PROVE PinsOK(u, g)'
      <4>1. CASE scan'[u] = scan[u]
        BY <4>1, <2>6 DEF PinsOK, Pinned
      <4>2. CASE scan'[u] = NotScanning
        <5>1. scan'[u].pins[g] = 0
          BY <4>2 DEF NotScanning, NoPins
        <5>2. versions'[g] \in Nat /\ \A s \in published'[g] : s.version # 0
          BY <2>2 DEF HistoryOK
        <5> QED BY <5>1, <5>2 DEF PinsOK, Pinned
      <4> QED BY <3>1, <4>1, <4>2
    <3>4. BundleTyped'
      BY <3>1, <2>2, <2>3, <1>2 DEF BundleInv, BundleTyped
    <3> QED BY <3>2, <3>3, <3>4, <2>2, <2>4 DEF BundleInv
  <2>8. CASE scan' = [scan EXCEPT ![w] = j]
    <3>1. rest \in Seq(Frames)
      BY <1>1, <1>c DEF Jobs
    <3>2. /\ j \in Jobs /\ (j.pc = "read" => j.todo # <<>>) /\ j.pc \in {"read", "bundle"}
          /\ j.pins = [scan[w].pins EXCEPT ![f] = v]
          /\ j.bars = [scan[w].bars EXCEPT ![f] = scan[w].bar]
      BY <1>1, <2>1, <3>1 DEF Jobs
    <3> HIDE DEF j
    <3>3. scan' \in [ScanThreads -> Jobs] /\ scan'[w] = j /\ \A u \in ScanThreads : u # w => scan'[u] = scan[u]
      BY <2>8, <3>2 DEF BundleInv, BundleTyped
    <3>4. \A u \in ScanThreads : AtFrame(u)'
      BY <3>2, <3>3, <2>5 DEF AtFrame
    <3>5. ASSUME NEW u \in ScanThreads, NEW g \in Frames PROVE PinsOK(u, g)'
      <4>1. CASE u # w
        BY <4>1, <3>3, <2>6 DEF PinsOK, Pinned
      <4>2. CASE u = w /\ g # f
        <5>1. scan'[u].pins[g] = scan[u].pins[g] /\ scan'[u].bars[g] = scan[u].bars[g]
          BY <4>2, <3>2, <3>3, <1>1 DEF Jobs
        <5> QED BY <5>1, <2>6 DEF PinsOK, Pinned
      <4>3. CASE u = w /\ g = f
        <5>1. scan'[u].pins[g] = v /\ scan'[u].bars[g] = snap.bar
          BY <4>3, <3>2, <3>3, <1>1, <2>1 DEF Jobs
        <5> QED BY <5>1, <2>2, <4>3, <2>3, <2>1 DEF PinsOK, Pinned
      <4> QED BY <4>1, <4>2, <4>3
    <3>6. BundleTyped'
      BY <3>3, <2>2, <2>3, <1>2 DEF BundleInv, BundleTyped
    <3> QED BY <3>4, <3>5, <3>6, <2>2, <2>4 DEF BundleInv
  <2> QED BY <1>4, <2>7, <2>8
<1> QED BY <1>3, <1>4, <1>a, <1>b, <1>c, <1>d DEF SnapshotPublished

(* A bundle is assembled from what its thread pinned.                      *)
LEMMA AssembleKeeps ==
    ASSUME BundleInv, NEW w \in ScanThreads,
           AssembleFromVersions(scan[w].pins, scan[w].bars), Stops(w),
           UNCHANGED <<newest, entry, versions, published>>
    PROVE  BundleInv'
<1>1. scan[w] \in Jobs /\ \A f \in Frames : HistoryOK(f) /\ PinsOK(w, f)
  BY DEF BundleInv, BundleTyped
<1>2. bundle' = BundleOf(scan[w].pins, scan[w].bars) /\ \A f \in Frames : Pinned(f, scan[w].pins[f]) # {}
  BY DEF AssembleFromVersions
<1>3. \A f \in Frames : \A s \in Pinned(f, scan[w].pins[f]) :
         /\ s = CHOOSE t \in Pinned(f, scan[w].pins[f]) : TRUE
         /\ s.lag \in Int /\ s.bar = scan[w].bars[f] /\ s.version = scan[w].pins[f]
         /\ s.version \in 1 .. versions[f]
  <2> SUFFICES ASSUME NEW f \in Frames, NEW s \in Pinned(f, scan[w].pins[f])
               PROVE  /\ s = CHOOSE t \in Pinned(f, scan[w].pins[f]) : TRUE
                      /\ s.lag \in Int /\ s.bar = scan[w].bars[f] /\ s.version = scan[w].pins[f]
                      /\ s.version \in 1 .. versions[f]
    OBVIOUS
  <2>1. s \in published[f] /\ s.version = scan[w].pins[f]
    BY DEF Pinned
  <2>2. \A t \in Pinned(f, scan[w].pins[f]) : t = s
    BY <1>1, <2>1 DEF Pinned, HistoryOK
  <2>3. s.lag \in Int
    BY <2>1 DEF BundleInv, BundleTyped, Snapshots
  <2> QED BY <1>1, <2>1, <2>2, <2>3 DEF HistoryOK, PinsOK
<1>4. /\ bundle'.members = scan[w].pins
      /\ bundle'.lags = [f \in Frames |-> (CHOOSE s \in Pinned(f, scan[w].pins[f]) : TRUE).lag]
      /\ bundle'.bias = [f \in BiasFrames |-> scan[w].bars[f]]
  BY <1>2 DEF BundleOf
<1>5. bundle' \in Bundles
  <2>1. bundle.version + 1 \in Nat
    BY DEF BundleInv, BundleTyped, Bundles
  <2>2. \A f \in Frames : (CHOOSE s \in Pinned(f, scan[w].pins[f]) : TRUE).lag \in Int
    BY <1>2, <1>3
  <2>3. [f \in BiasFrames |-> scan[w].bars[f]] \in [BiasFrames -> Nat]
    BY <1>1, FramesType DEF Jobs
  <2>4. scan[w].pins \in [Frames -> Nat]
    BY <1>1 DEF Jobs
  <2> QED BY <2>1, <2>2, <2>3, <2>4, <1>2 DEF BundleOf, Bundles
<1>6. \A f \in Frames : BundleOK(f)'
  <2> SUFFICES ASSUME NEW f \in Frames
               PROVE  /\ bundle'.members[f] \in 1 .. versions[f]
                      /\ \A s \in published[f] : s.version = bundle'.members[f] =>
                            s.lag = bundle'.lags[f] /\ (f \in BiasFrames => s.bar = bundle'.bias[f])
    BY DEF BundleOK, Pinned
  <2>1. PICK s \in Pinned(f, scan[w].pins[f]) : TRUE
    BY <1>2
  <2>2. bundle'.members[f] \in 1 .. versions[f]
    BY <2>1, <1>3, <1>4
  <2>3. ASSUME NEW t \in published[f], t.version = bundle'.members[f]
        PROVE  t.lag = bundle'.lags[f] /\ (f \in BiasFrames => t.bar = bundle'.bias[f])
    <3>1. t \in Pinned(f, scan[w].pins[f])
      BY <2>3, <1>4 DEF Pinned
    <3> QED BY <3>1, <1>3, <1>4
  <2> QED BY <2>2, <2>3
<1>7. scan' \in [ScanThreads -> Jobs] /\ \A u \in ScanThreads : scan'[u] = scan[u] \/ scan'[u] = NotScanning
  BY Initial DEF Stops, BundleInv, BundleTyped
<1>8. BundleTyped'
  BY <1>5, <1>7 DEF BundleInv, BundleTyped
<1>9. ASSUME NEW u \in ScanThreads PROVE AtFrame(u)' /\ \A f \in Frames : PinsOK(u, f)'
  <2>1. CASE scan'[u] = scan[u]
    BY <2>1 DEF BundleInv, AtFrame, PinsOK, Pinned
  <2>2. CASE scan'[u] = NotScanning
    <3>1. AtFrame(u)'
      BY <2>2 DEF AtFrame, NotScanning
    <3>2. \A f \in Frames : versions[f] \in Nat /\ \A s \in published[f] : s.version # 0
      BY <1>1 DEF BundleInv, BundleTyped, HistoryOK
    <3>3. \A f \in Frames : scan'[u].pins[f] = 0
      BY <2>2 DEF NotScanning, NoPins
    <3> QED BY <3>1, <3>2, <3>3 DEF PinsOK, Pinned
  <2> QED BY <1>7, <2>1, <2>2
<1> QED BY <1>1, <1>6, <1>8, <1>9 DEF BundleInv, HistoryOK, Pinned

(* Every step keeps the invariant.                                         *)
LEMMA StepKeeps == BundleInv /\ [BNext]_bundleVars => BundleInv'
<1> SUFFICES ASSUME BundleInv, [BNext]_bundleVars PROVE BundleInv'
  OBVIOUS
<1>1. newest \in [Frames -> Nat] /\ entry \in [Frames -> Nat]
  BY DEF BundleInv, BundleTyped
<1>2. ASSUME NEW f \in Frames, CandleCloses(f) PROVE BundleInv'
  <2>1. newest' \in [Frames -> Nat]
    BY <1>1, <1>2 DEF CandleCloses
  <2>2. UNCHANGED <<entry, versions, published, bundle, scan>>
    BY <1>2 DEF CandleCloses, storeVars
  <2> QED BY <2>1, <2>2 DEF BundleInv, BundleTyped, HistoryOK, BundleOK, PinsOK, Pinned, AtFrame
<1>3. ASSUME NEW w \in ScanThreads, ScanInstrument(w) PROVE BundleInv'
  BY <1>3, StartKeeps, FramesType DEF ScanInstrument
<1>4. ASSUME NEW w \in ScanThreads, NEW f \in Frames, RefreshChart(w, f) PROVE BundleInv'
  <2>1. <<f>> \in Seq(Frames) /\ <<f>> # <<>>
    OBVIOUS
  <2> QED BY <1>4, <2>1, StartKeeps DEF RefreshChart
<1>5. ASSUME NEW w \in ScanThreads, scan[w].pc \notin {"idle", "bundle"}, UNCHANGED storeVars,
             newest' \in [Frames -> Nat], entry' \in [Frames -> Nat],
             NEW pc \in {"price", "read", "fetch", "persist", "check", "publish"}, Goes(w, pc)
      PROVE  BundleInv'
  <2>1. scan[w] \in Jobs
    BY Working
  <2>2. [scan[w] EXCEPT !.pc = pc] = [scan[w] EXCEPT !.pc = pc, !.bar = scan[w].bar, !.lag = scan[w].lag]
    BY <2>1 DEF Jobs
  <2>3. scan' = [scan EXCEPT ![w] = [scan[w] EXCEPT !.pc = pc, !.bar = scan[w].bar, !.lag = scan[w].lag]]
    BY <1>5, <2>2 DEF Goes
  <2>4. scan[w].bar \in Nat /\ scan[w].lag \in Int
    BY <2>1 DEF Jobs
  <2>5. PICK b \in Nat, k \in Int : b = scan[w].bar /\ k = scan[w].lag
    BY <2>4
  <2> QED BY <1>5, <2>3, <2>5, GoesQuiet
<1>6. ASSUME NEW w \in ScanThreads, Stops(w), UNCHANGED <<newest, entry, storeVars>> PROVE BundleInv'
  BY <1>6, StopsQuiet
<1>7. ASSUME NEW w \in ScanThreads, PriceRead(w) PROVE BundleInv'
  BY <1>1, <1>5, <1>6, <1>7 DEF PriceRead, Fails
<1>8. ASSUME NEW w \in ScanThreads, CandlesRead(w) PROVE BundleInv'
  <2>1. CASE Goes(w, "fetch")
    BY <1>1, <1>5, <1>8, <2>1 DEF CandlesRead
  <2>2. CASE Stops(w)
    BY <1>6, <1>8, <2>2 DEF CandlesRead
  <2>3. ASSUME scan' = [scan EXCEPT ![w].pc = "check", ![w].bar = entry[NextFrame(w)]] PROVE BundleInv'
    <3>1. scan[w] \in Jobs /\ NextFrame(w) \in Frames /\ scan[w].pc = "read"
      BY <1>8, Working DEF CandlesRead
    <3>2. PICK b \in Nat, k \in Int : b = entry[NextFrame(w)] /\ k = scan[w].lag
      BY <3>1, <1>1 DEF Jobs
    <3>3. scan' = [scan EXCEPT ![w] = [scan[w] EXCEPT !.pc = "check", !.bar = b, !.lag = k]]
      BY <2>3, <3>1, <3>2 DEF Jobs
    <3>4. UNCHANGED <<newest, entry, storeVars>>
      BY <1>8 DEF CandlesRead
    <3> QED BY <3>1, <3>3, <3>4, <1>1, GoesQuiet
  <2> QED BY <1>8, <2>1, <2>2, <2>3 DEF CandlesRead
<1>9. ASSUME NEW w \in ScanThreads, CandlesFetched(w) PROVE BundleInv'
  <2>1. CASE Stops(w)
    BY <1>6, <1>9, <2>1 DEF CandlesFetched
  <2>2. ASSUME scan' = [scan EXCEPT ![w].pc = "persist", ![w].bar = newest[NextFrame(w)]] PROVE BundleInv'
    <3>1. scan[w] \in Jobs /\ NextFrame(w) \in Frames /\ scan[w].pc = "fetch"
      BY <1>9, Working DEF CandlesFetched
    <3>2. PICK b \in Nat, k \in Int : b = newest[NextFrame(w)] /\ k = scan[w].lag
      BY <3>1, <1>1 DEF Jobs
    <3>3. scan' = [scan EXCEPT ![w] = [scan[w] EXCEPT !.pc = "persist", !.bar = b, !.lag = k]]
      BY <2>2, <3>1, <3>2 DEF Jobs
    <3>4. UNCHANGED <<newest, entry, storeVars>>
      BY <1>9 DEF CandlesFetched
    <3> QED BY <3>1, <3>3, <3>4, <1>1, GoesQuiet
  <2> QED BY <1>9, <2>1, <2>2 DEF CandlesFetched, Fails
<1>10. ASSUME NEW w \in ScanThreads, EntryPersisted(w) PROVE BundleInv'
  <2>1. scan[w] \in Jobs /\ scan[w].pc = "persist"
    BY <1>10, Working DEF EntryPersisted
  <2>2. entry' \in [Frames -> Nat] /\ newest' \in [Frames -> Nat] /\ UNCHANGED storeVars
    BY <1>1, <1>10, <2>1 DEF EntryPersisted, Jobs
  <2>3. Goes(w, "check")
    BY <1>10 DEF EntryPersisted
  <2> QED BY <1>5, <2>1, <2>2, <2>3
<1>11. ASSUME NEW w \in ScanThreads, FreshnessRead(w) PROVE BundleInv'
  <2>1. CASE Stops(w)
    BY <1>6, <1>11, <2>1 DEF FreshnessRead
  <2>2. ASSUME scan' = [scan EXCEPT ![w].pc = "publish", ![w].lag = newest[NextFrame(w)] - entry[NextFrame(w)]]
        PROVE  BundleInv'
    <3>1. scan[w] \in Jobs /\ NextFrame(w) \in Frames /\ scan[w].pc = "check"
      BY <1>11, Working DEF FreshnessRead
    <3>2. PICK b \in Nat, k \in Int : b = scan[w].bar /\ k = newest[NextFrame(w)] - entry[NextFrame(w)]
      <4>1. newest[NextFrame(w)] - entry[NextFrame(w)] \in Int /\ scan[w].bar \in Nat
        BY <3>1, <1>1 DEF Jobs
      <4> QED BY <4>1
    <3>3. scan' = [scan EXCEPT ![w] = [scan[w] EXCEPT !.pc = "publish", !.bar = b, !.lag = k]]
      BY <2>2, <3>1, <3>2 DEF Jobs
    <3>4. UNCHANGED <<newest, entry, storeVars>>
      BY <1>11 DEF FreshnessRead
    <3> QED BY <3>1, <3>3, <3>4, <1>1, GoesQuiet
  <2> QED BY <1>11, <2>1, <2>2 DEF FreshnessRead
<1>12. ASSUME NEW w \in ScanThreads, SnapshotPublished(w) PROVE BundleInv'
  BY <1>12, PublishKeeps
<1>13. ASSUME NEW w \in ScanThreads, BundlePublished(w) PROVE BundleInv'
  BY <1>6, <1>13, AssembleKeeps DEF BundlePublished, Fails, storeVars
<1>14. CASE UNCHANGED bundleVars
  BY <1>14 DEF bundleVars, BundleInv, BundleTyped, HistoryOK, BundleOK, PinsOK, Pinned, AtFrame
<1> QED
  BY <1>2, <1>3, <1>4, <1>7, <1>8, <1>9, <1>10, <1>11, <1>12, <1>13, <1>14 DEF BNext

(* A bundle is of one scan: what it pins is what its bias was computed     *)
(* from and what lent it its freshness (assemble_bundle_from_versions),    *)
(* for any timeframes, threads, retention and failures.                    *)
THEOREM BundlesHangTogether == BSpec => []BundleHangsTogether
<1>1. BInit => BundleInv
  BY BundleInitInv
<1>2. BundleInv /\ [BNext]_bundleVars => BundleInv'
  BY StepKeeps
<1>3. BundleInv => BundleHangsTogether
  BY InvHangsTogether
<1> QED BY <1>1, <1>2, <1>3, PTL DEF BSpec

=============================================================================
