--------------------------- MODULE ReminderProofs ---------------------------
(***************************************************************************)
(* Theorems about TimeAlerts and IndicatorAlerts, for any reminders,       *)
(* alerts, threads, failures and restarts: an occurrence is told once more *)
(* only for a failure or a restart, and the cursor of the last evaluated   *)
(* candle hides no alert that still waits for its message.                 *)
(***************************************************************************)
EXTENDS TimeAlerts, IndicatorAlerts, FiniteSetTheorems, TLAPS

-----------------------------------------------------------------------------
(* Occurrences                                                             *)

(* Quotient and remainder by a positive number.                            *)
LEMMA Division ==
    ASSUME NEW x \in Int, NEW d \in Nat \ {0}
    PROVE  /\ x \div d \in Int /\ x % d \in 0 .. d - 1
           /\ x = d * (x \div d) + (x % d)
OBVIOUS

(* A day later the remainder is the same.                                  *)
LEMMA DayLater ==
    ASSUME NEW x \in Nat, NEW d \in Nat \ {0}
    PROVE  (x + d) % d = x % d
<1> DEFINE q == x \div d
           r == x % d
           p == (x + d) \div d
           s == (x + d) % d
<1>1. q \in Int /\ r \in 0 .. d - 1 /\ x = d * q + r
  BY Division
<1>2. p \in Int /\ s \in 0 .. d - 1 /\ x + d = d * p + s
  <2>1. x + d \in Int
    OBVIOUS
  <2> QED BY <2>1, Division
<1> HIDE DEF q, r, p, s
<1> DEFINE k == p - q - 1
<1>3. k \in Int /\ d * k = r - s
  <2>1. d * k = d * p - d * q - d
    BY <1>1, <1>2
  <2>2. d * p \in Int /\ d * q \in Int
    BY <1>1, <1>2
  <2> QED BY <2>1, <2>2, <1>1, <1>2
<1>4. r - s < d /\ s - r < d
  BY <1>1, <1>2
<1>5. k = 0
  <2>1. k >= 1 => d * k >= d
    BY <1>3
  <2>2. k <= -1 => d * k <= 0 - d
    BY <1>3
  <2> HIDE DEF k
  <2> QED BY <2>1, <2>2, <1>1, <1>2, <1>3, <1>4
<1> HIDE DEF k
<1>6. d * k = 0
  BY <1>5
<1> QED BY <1>1, <1>2, <1>3, <1>6 DEF r, s

(* A set of numbers has a least member.                                    *)
LEMMA LeastExists ==
    ASSUME NEW S, S \subseteq Nat, S # {}
    PROVE  \E x \in S : \A y \in S : x <= y
<1> DEFINE Below(x) == 0 .. x
           Belows == {Below(x) : x \in S}
           R == StrictSubsetOrdering(Int)
           F == FiniteSubsetsOf(Int)
<1>1. IsWellFoundedOn(R, F)
  BY FS_StrictSubsetOrderingWellFounded
<1>2. Belows \subseteq F /\ Belows # {}
  <2>1. \A x \in S : x \in Int /\ IsFiniteSet(Below(x))
    BY FS_Interval
  <2>2. \A x \in S : Below(x) \in F
    BY <2>1 DEF FiniteSubsetsOf
  <2> QED BY <2>2
<1>3. PICK m \in Belows : \A u \in Belows : <<u, m>> \notin R
  <2> HIDE DEF R, F, Belows
  <2> QED BY <1>1, <1>2, WFMin
<1>4. PICK x \in S : m = Below(x)
  OBVIOUS
<1>5. ASSUME NEW y \in S PROVE x <= y
  <2>1. SUFFICES ASSUME y < x PROVE FALSE
    OBVIOUS
  <2>2. x \in Below(x) /\ x \notin Below(y) /\ Below(y) \subseteq Below(x)
    BY <2>1
  <2>3. <<Below(y), Below(x)>> \in R
    BY <2>2, <1>2 DEF StrictSubsetOrdering
  <2> QED BY <2>3, <1>3, <1>4
<1> QED BY <1>5

(* So it is what Min gives.                                                *)
LEMMA MinIsLeast ==
    ASSUME NEW S, S \subseteq Nat, S # {}
    PROVE  Min(S) \in S /\ \A y \in S : Min(S) <= y
<1>1. \E x \in S : \A y \in S : x <= y
  BY LeastExists
<1> QED BY <1>1 DEF Min

(* Every day has the slot: the next occurrence is after t, by no more than *)
(* a day.                                                                  *)
LEMMA OccurrenceIsLater ==
    ASSUME NEW a \in Reminders, NEW t \in Nat
    PROVE  Occurrence(a, t) \in t + 1 .. t + Day
<1> DEFINE slot == ReminderSpec[a].slot
           hits_ == {u \in t + 1 .. t + Day : u % Day = slot}
           left == {t + Day - u : u \in {v \in 0 .. t + Day : v % Day = slot}}
<1>1. Day \in Nat \ {0} /\ slot \in 0 .. Day - 1
  BY RemindersAssumption
<1> HIDE DEF slot
<1>2. slot % Day = slot
  <2>1. /\ slot \div Day \in Int /\ slot % Day \in 0 .. Day - 1
        /\ slot = Day * (slot \div Day) + (slot % Day)
    <3>1. slot \in Int
      BY <1>1
    <3> QED BY <3>1, <1>1, Division
  <2> DEFINE k == slot \div Day
             s == slot % Day
  <2>2. k >= 1 => Day * k >= Day
    BY <2>1, <1>1
  <2>3. k <= -1 => Day * k <= 0 - Day
    BY <2>1, <1>1
  <2>4. k \in Int /\ s \in 0 .. Day - 1 /\ slot = Day * k + s
    BY <2>1
  <2> HIDE DEF k, s
  <2>5. k = 0
    BY <2>2, <2>3, <2>4, <1>1
  <2>6. Day * k = 0
    BY <2>5, <1>1
  <2> QED BY <2>4, <2>6, <1>1 DEF s
<1>3. left \subseteq Nat /\ left # {}
  <2>1. slot \in 0 .. t + Day
    BY <1>1
  <2>2. t + Day - slot \in left
    BY <2>1, <1>2
  <2> QED BY <2>2, <1>1
<1>4. PICK x \in left : \A y \in left : x <= y
  <2> HIDE DEF left
  <2> QED BY <1>3, LeastExists
<1>5. PICK u \in 0 .. t + Day : u % Day = slot /\ x = t + Day - u
  OBVIOUS
<1>6. u > t
  <2>1. SUFFICES ASSUME u <= t PROVE FALSE
    BY <1>1
  <2>2. u + Day \in 0 .. t + Day /\ (u + Day) % Day = slot
    <3>1. u \in Nat /\ Day \in Nat \ {0}
      BY <1>1
    <3>2. (u + Day) % Day = u % Day
      BY <3>1, DayLater
    <3>3. u + Day \in 0 .. t + Day
      BY <2>1, <3>1
    <3> QED BY <3>2, <3>3, <1>5
  <2>3. t + Day - (u + Day) \in left
    BY <2>2
  <2>4. x <= t + Day - (u + Day)
    BY <2>3, <1>4
  <2> QED BY <2>4, <1>1, <1>5
<1>7. u \in hits_ /\ hits_ \subseteq Nat
  BY <1>1, <1>5, <1>6
<1>8. Min(hits_) \in hits_
  <2> HIDE DEF hits_
  <2> QED BY <1>7, MinIsLeast
<1> QED BY <1>8 DEF Occurrence, slot

-----------------------------------------------------------------------------
(* Reminders: the invariant                                                *)

ReminderPcs == {"idle", "loop", "mark"}
Listed == [id : Reminders, due : Nat]
Told == [Reminders -> [0 .. MaxTime + Day -> Nat]]

RemindersTyped ==
    /\ now \in Nat /\ sessionAlerts \in BOOLEAN
    /\ reminder \in [Reminders -> [status : {"NONE", "ACTIVE", "CANCELLED", "COMPLETED"}, next : Nat]]
    /\ job \in [pc : ReminderPcs, at : Nat, todo : SUBSET Listed]
    /\ told \in Told
    /\ timeFaults \in Nat /\ timeRestarts \in Nat

(* A run goes through each reminder once, and only through what was due    *)
(* when it began.                                                          *)
RunShape ==
    /\ job.at <= now
    /\ job.pc = "idle" => job.todo = {}
    /\ job.pc = "mark" => job.todo # {}
    /\ \A r \in job.todo : r.due <= job.at
    /\ \A r, s \in job.todo : r.id = s.id => r = s

Horizon == IF job.pc = "idle" THEN now ELSE job.at
Excuses == timeFaults + timeRestarts
Marking(a, o) == job.pc = "mark" /\ Head1.id = a /\ Head1.due = o

(* What may still be told has been told no more often than failures and    *)
(* restarts excuse; only the message that has just gone out counts beyond. *)
Accounted ==
    /\ \A a \in Reminders, o \in 0 .. MaxTime + Day : told[a][o] > 0 => o <= Horizon
    /\ \A a \in Reminders, o \in 0 .. MaxTime + Day : told[a][o] <= 1 + Excuses
    /\ \A r \in job.todo : r.due <= MaxTime + Day /\ ~Marking(r.id, r.due) => told[r.id][r.due] <= Excuses
    /\ \A a \in Reminders :
         reminder[a].status = "ACTIVE" /\ reminder[a].next <= MaxTime + Day
           /\ ~Marking(a, reminder[a].next) => told[a][reminder[a].next] <= Excuses

RemindInv == RemindersTyped /\ RunShape /\ Accounted

(* An idle or emptied run has no head; another has one of its own.         *)
LEMMA HeadIsListed ==
    ASSUME RemindersTyped, job.todo # {}
    PROVE  /\ Head1 \in job.todo /\ Head1.id \in Reminders /\ Head1.due \in Nat
<1> DEFINE ids == {r.id : r \in job.todo}
<1>1. job.todo \subseteq Listed
  BY DEF RemindersTyped
<1>2. ids \subseteq Nat /\ ids # {}
  BY <1>1, RemindersAssumption DEF Listed
<1>3. PICK x \in ids : \A y \in ids : x <= y
  <2> HIDE DEF ids
  <2> QED BY <1>2, LeastExists
<1>4. \E r \in job.todo : \A s \in job.todo : r.id <= s.id
  BY <1>3
<1>5. Head1 \in job.todo
  BY <1>4 DEF Head1
<1> QED BY <1>5, <1>1 DEF Listed

LEMMA RemindInit == TInit => RemindInv
<1> SUFFICES ASSUME TInit PROVE RemindInv
  OBVIOUS
<1>1. RemindersTyped
  BY DEF TInit, RemindersTyped, IdleJob, ReminderPcs, Listed, Told
<1>2. RunShape
  BY DEF TInit, RunShape, IdleJob
<1>3. Accounted
  BY RemindersAssumption DEF TInit, Accounted, IdleJob, Marking, Excuses
<1> QED BY <1>1, <1>2, <1>3 DEF RemindInv

(* The steps of the clock and of the commands leave the run alone.         *)
LEMMA CommandStep ==
    ASSUME RemindInv,
           \/ Tick
           \/ \E a \in Reminders : TimeAlertCommand(a) \/ ClearTimeAlertCommand(a)
           \/ ConfigCommand
    PROVE  RemindInv'
<1>1. job' = job /\ told' = told /\ timeFaults' = timeFaults /\ timeRestarts' = timeRestarts
  BY DEF Tick, TimeAlertCommand, ClearTimeAlertCommand, ConfigCommand
<1>2. now \in Nat /\ now' \in Nat /\ now <= now'
  BY DEF Tick, TimeAlertCommand, ClearTimeAlertCommand, ConfigCommand, RemindInv, RemindersTyped
<1>3. job.at \in Nat /\ job.at <= now /\ Horizon <= now /\ Horizon <= Horizon' /\ Horizon \in Nat /\ Horizon' \in Nat
  BY <1>1, <1>2 DEF RemindInv, RemindersTyped, RunShape, Horizon
<1>4. RunShape'
  BY <1>1, <1>2, <1>3 DEF RemindInv, RunShape
<1>5. /\ \A a, o : Marking(a, o)' <=> Marking(a, o)
      /\ Excuses' = Excuses
  BY <1>1 DEF Marking, Head1, Excuses
<1>6. \A a \in Reminders, o \in 0 .. MaxTime + Day : told[a][o] \in Nat
  BY DEF RemindInv, RemindersTyped, Told
<1>7. /\ \A a \in Reminders, o \in 0 .. MaxTime + Day : told'[a][o] > 0 => o <= Horizon'
      /\ \A a \in Reminders, o \in 0 .. MaxTime + Day : told'[a][o] <= 1 + Excuses'
      /\ \A r \in job'.todo : r.due <= MaxTime + Day /\ ~Marking(r.id, r.due)' => told'[r.id][r.due] <= Excuses'
  <2>1. \A a \in Reminders, o \in 0 .. MaxTime + Day : told[a][o] > 0 => o <= Horizon
    BY DEF RemindInv, Accounted
  <2>2. MaxTime + Day \in Nat
    BY RemindersAssumption
  <2>3. \A a \in Reminders, o \in 0 .. MaxTime + Day : told'[a][o] > 0 => o <= Horizon'
    BY <2>1, <2>2, <1>1, <1>3
  <2> QED BY <2>3, <1>1, <1>5 DEF RemindInv, Accounted
<1>8. CASE reminder' = reminder
  <2>1. RemindersTyped'
    BY <1>8, <1>1, <1>2 DEF Tick, TimeAlertCommand, ClearTimeAlertCommand, ConfigCommand, RemindInv, RemindersTyped
  <2>2. Accounted'
    BY <1>8, <1>1, <1>5, <1>7 DEF RemindInv, Accounted
  <2> QED BY <2>1, <2>2, <1>4 DEF RemindInv
<1>9. CASE \E a \in Reminders : TimeAlertCommand(a) \/ ClearTimeAlertCommand(a)
  <2>1. PICK b \in Reminders : TimeAlertCommand(b) \/ ClearTimeAlertCommand(b)
    BY <1>9
  <2>2. Occurrence(b, now) \in Nat /\ Occurrence(b, now) > now
    <3>1. Occurrence(b, now) \in now + 1 .. now + Day
      BY <1>2, OccurrenceIsLater
    <3> QED BY <3>1, <1>2, RemindersAssumption
  <2>3. RemindersTyped'
    BY <2>1, <2>2, <1>1, <1>2
    DEF TimeAlertCommand, ClearTimeAlertCommand, Write, RemindInv, RemindersTyped
  <2>4. ASSUME NEW a \in Reminders, reminder'[a].status = "ACTIVE", reminder'[a].next <= MaxTime + Day,
               ~Marking(a, reminder'[a].next)
        PROVE  told[a][reminder'[a].next] <= Excuses
    <3>0. reminder \in [Reminders -> [status : {"NONE", "ACTIVE", "CANCELLED", "COMPLETED"}, next : Nat]]
      BY DEF RemindInv, RemindersTyped
    <3>1. CASE a # b
      <4>1. reminder'[a] = reminder[a]
        BY <3>0, <3>1, <2>1 DEF TimeAlertCommand, ClearTimeAlertCommand, Write
      <4> QED BY <4>1, <2>4 DEF RemindInv, Accounted
    <3>2. CASE a = b
      <4>1. reminder'[a].next = Occurrence(b, now)
        BY <3>0, <3>2, <2>1, <2>4 DEF TimeAlertCommand, ClearTimeAlertCommand, Write
      <4>2. reminder'[a].next \in 0 .. MaxTime + Day /\ ~(reminder'[a].next <= Horizon)
        BY <4>1, <2>2, <2>4, <1>2, <1>3, RemindersAssumption
      <4>3. ~(told[a][reminder'[a].next] > 0)
        BY <4>2 DEF RemindInv, Accounted
      <4>4. told[a][reminder'[a].next] = 0
        BY <4>2, <4>3, <1>6
      <4> QED BY <4>4 DEF RemindInv, RemindersTyped, Excuses
    <3> QED BY <3>1, <3>2
  <2>5. Accounted'
    BY <2>4, <1>1, <1>5, <1>7 DEF Accounted
  <2> QED BY <2>3, <2>5, <1>4 DEF RemindInv
<1> QED BY <1>8, <1>9 DEF Tick, ConfigCommand

(* What the steps of a run read off the invariant.                         *)
LEMMA RunFacts ==
    ASSUME RemindInv
    PROVE  /\ now \in Nat /\ job.at \in Nat /\ job.at <= now /\ Horizon \in Nat
           /\ Excuses \in Nat /\ MaxTime + Day \in Nat
           /\ job.todo \subseteq Listed
           /\ \A a \in Reminders, o \in 0 .. MaxTime + Day : told[a][o] \in Nat
           /\ job = [pc |-> job.pc, at |-> job.at, todo |-> job.todo]
BY RemindersAssumption DEF RemindInv, RemindersTyped, RunShape, Horizon, Excuses, Told

(* A run that drops its head or ends keeps its shape.                      *)
LEMMA RunGoesOn ==
    ASSUME RemindInv, now' = now, Skip \/ GiveUp, job.todo # {} \/ GiveUp
    PROVE  /\ job' \in [pc : ReminderPcs, at : Nat, todo : SUBSET Listed]
           /\ RunShape'
           /\ \A a, o : ~Marking(a, o)'
           /\ job.pc # "idle" => Horizon <= Horizon'
           /\ job'.todo \subseteq job.todo
           /\ Skip => Head1 \notin job'.todo
<1> USE RunFacts
<1>1. CASE GiveUp
  <2>1. job'.pc = "idle" /\ job'.at = 0 /\ job'.todo = {}
    BY <1>1 DEF GiveUp, IdleJob
  <2>2. job' \in [pc : ReminderPcs, at : Nat, todo : SUBSET Listed]
    BY <1>1 DEF GiveUp, IdleJob, ReminderPcs
  <2>3. Horizon <= Horizon'
    BY <2>1 DEF Horizon
  <2>4. RunShape'
    BY <2>1 DEF RunShape
  <2> QED BY <2>1, <2>2, <2>3, <2>4 DEF Marking
<1>2. CASE Skip
  <2>1. job'.pc = "loop" /\ job'.at = job.at /\ job'.todo = job.todo \ {Head1}
    BY <1>2 DEF Skip, RemindInv, RemindersTyped
  <2>2. job' \in [pc : ReminderPcs, at : Nat, todo : SUBSET Listed]
    BY <1>2 DEF Skip, ReminderPcs, RemindInv, RemindersTyped
  <2>3. RunShape'
    BY <2>1 DEF RunShape, RemindInv
  <2>4. job.pc # "idle" => Horizon <= Horizon'
    BY <2>1 DEF Horizon
  <2> QED BY <2>1, <2>2, <2>3, <2>4 DEF Marking
<1> QED BY <1>1, <1>2

(* One message more at one place.                                          *)
LEMMA ToldOnce ==
    ASSUME RemindInv, NEW r \in job.todo, NEW k \in 0 .. 1, Tell(r, k)
    PROVE  /\ told' \in Told
           /\ \A a \in Reminders, o \in 0 .. MaxTime + Day :
                told'[a][o] = IF a = r.id /\ o = r.due THEN told[a][o] + k ELSE told[a][o]
<1>1. told \in Told /\ r.id \in Reminders /\ r.due \in Nat
  BY RunFacts DEF RemindInv, RemindersTyped, Listed
<1>2. told' = [told EXCEPT ![r.id] = [told[r.id] EXCEPT ![r.due] = told[r.id][r.due] + k]]
  BY DEF Tell
<1>3. told[r.id] \in [0 .. MaxTime + Day -> Nat]
  BY <1>1 DEF Told
<1> DEFINE f == [told[r.id] EXCEPT ![r.due] = told[r.id][r.due] + k]
<1>4. /\ f \in [0 .. MaxTime + Day -> Nat]
      /\ \A o \in 0 .. MaxTime + Day : f[o] = IF o = r.due THEN told[r.id][o] + k ELSE told[r.id][o]
  <2> DEFINE g == told[r.id]
             D == 0 .. MaxTime + Day
  <2>1. g \in [D -> Nat] /\ f = [g EXCEPT ![r.due] = g[r.due] + k]
    BY <1>3
  <2>2. \A o \in D : g[o] + k \in Nat
    <3>1. \A o \in D : g[o] \in Nat
      BY <2>1
    <3>2. k \in Nat
      OBVIOUS
    <3> HIDE DEF g, D
    <3> QED BY <3>1, <3>2
  <2> HIDE DEF g, D, f
  <2>3. f \in [D -> Nat] /\ \A o \in D : f[o] = IF o = r.due THEN g[o] + k ELSE g[o]
    BY <2>1, <2>2
  <2> QED BY <2>3 DEF g, D
<1>5. told' = [told EXCEPT ![r.id] = f]
  BY <1>2
<1> HIDE DEF f
<1>6. told' \in Told
  BY <1>1, <1>4, <1>5 DEF Told
<1>7. \A a \in Reminders : told'[a] = IF a = r.id THEN f ELSE told[a]
  BY <1>1, <1>5 DEF Told
<1> QED BY <1>4, <1>6, <1>7

LEMMA TriggerStep ==
    ASSUME RemindInv, Trigger
    PROVE  RemindInv'
<1> DEFINE due == {b \in Reminders : reminder[b].status = "ACTIVE" /\ reminder[b].next <= now}
           list == {[id |-> a, due |-> reminder[a].next] : a \in due}
<1>1. job.pc = "idle" /\ job' = [pc |-> "loop", at |-> now, todo |-> list]
  BY DEF Trigger
<1>2. /\ now' = now /\ sessionAlerts' = sessionAlerts /\ timeRestarts' = timeRestarts
      /\ reminder' = reminder /\ told' = told /\ timeFaults' = timeFaults
  BY DEF Trigger, jobFrame
<1>3. reminder \in [Reminders -> [status : {"NONE", "ACTIVE", "CANCELLED", "COMPLETED"}, next : Nat]]
  BY DEF RemindInv, RemindersTyped
<1>4. \A r \in list : /\ r \in Listed /\ r.due <= now /\ r.id \in due
                      /\ r = [id |-> r.id, due |-> reminder[r.id].next]
  BY <1>3 DEF Listed
<1> HIDE DEF list
<1>5. job'.pc = "loop" /\ job'.at = now /\ job'.todo = list
  BY <1>1
<1>6. RunShape'
  <2>1. \A r, s \in list : r.id = s.id => r = s
    BY <1>4
  <2>2. now <= now
    BY RunFacts
  <2> QED BY <1>2, <1>4, <1>5, <2>1, <2>2 DEF RunShape
<1>7. RemindersTyped'
  <2>1. job' \in [pc : ReminderPcs, at : Nat, todo : SUBSET Listed]
    BY <1>1, <1>4, RunFacts DEF ReminderPcs
  <2> QED BY <2>1, <1>2 DEF RemindInv, RemindersTyped
<1>8. \A a, o : ~Marking(a, o) /\ ~Marking(a, o)'
  BY <1>1, <1>5 DEF Marking
<1>9. Horizon' = Horizon /\ Excuses' = Excuses
  BY <1>1, <1>2, <1>5 DEF Horizon, Excuses
<1>10. \A r \in list : r.due <= MaxTime + Day => told[r.id][r.due] <= Excuses
  BY <1>4, <1>8 DEF RemindInv, Accounted
<1>11. Accounted'
  BY <1>2, <1>5, <1>8, <1>9, <1>10 DEF RemindInv, Accounted
<1> QED BY <1>6, <1>7, <1>11 DEF RemindInv

(* A step that keeps the table and the messages and is excused, or drops   *)
(* no message that has just gone out.                                      *)
LEMMA SettledStep ==
    ASSUME RemindInv, now' = now, sessionAlerts' = sessionAlerts, reminder' = reminder, told' = told,
           Skip \/ GiveUp, job.todo # {} \/ GiveUp,
           timeFaults' \in Nat, timeRestarts' \in Nat,
           \/ Excuses' = Excuses /\ job.pc = "loop"
           \/ Excuses' = Excuses + 1
    PROVE  RemindInv'
<1> USE RunFacts
<1>1. /\ job' \in [pc : ReminderPcs, at : Nat, todo : SUBSET Listed]
      /\ RunShape'
      /\ \A a, o : ~Marking(a, o)'
      /\ job.pc # "idle" => Horizon <= Horizon'
      /\ job'.todo \subseteq job.todo
  BY RunGoesOn
<1>2. RemindersTyped'
  BY <1>1 DEF RemindInv, RemindersTyped
<1>3. Horizon <= Horizon' /\ Horizon' \in Nat
  <2>1. CASE job.pc = "idle"
    <3>1. job.todo = {}
      BY <2>1 DEF RemindInv, RunShape
    <3>2. job'.pc = "idle"
      BY <3>1 DEF GiveUp, IdleJob
    <3> QED BY <3>2, <2>1 DEF Horizon
  <2>2. CASE job.pc # "idle"
    <3>1. Horizon' \in Nat
      BY <1>1 DEF Horizon
    <3> QED BY <1>1, <2>2, <3>1
  <2> QED BY <2>1, <2>2
<1>4. \A a \in Reminders, o \in 0 .. MaxTime + Day : told[a][o] > 0 => o <= Horizon'
  <2>1. \A a \in Reminders, o \in 0 .. MaxTime + Day : told[a][o] > 0 => o <= Horizon
    BY DEF RemindInv, Accounted
  <2> QED BY <2>1, <1>3
<1>5. \A a \in Reminders, o \in 0 .. MaxTime + Day : told[a][o] <= 1 + Excuses'
  <2>1. \A a \in Reminders, o \in 0 .. MaxTime + Day : told[a][o] <= 1 + Excuses
    BY DEF RemindInv, Accounted
  <2> QED BY <2>1
<1>6. ASSUME NEW a \in Reminders, NEW o \in Nat, o <= MaxTime + Day,
             \/ \E r \in job.todo : r.id = a /\ r.due = o
             \/ reminder[a].status = "ACTIVE" /\ reminder[a].next = o
      PROVE  told[a][o] <= Excuses'
  <2>0. o \in 0 .. MaxTime + Day
    BY <1>6
  <2>1. CASE Excuses' = Excuses + 1
    <3>1. told[a][o] <= 1 + Excuses
      BY <2>0 DEF RemindInv, Accounted
    <3> QED BY <3>1, <2>1
  <2>2. CASE Excuses' = Excuses /\ job.pc = "loop"
    <3>1. ~Marking(a, o)
      BY <2>2 DEF Marking
    <3> QED BY <1>6, <2>2, <3>1 DEF RemindInv, Accounted
  <2> QED BY <2>1, <2>2
<1>7. Accounted'
  <2>1. \A r \in job'.todo : r.due <= MaxTime + Day => told[r.id][r.due] <= Excuses'
    BY <1>1, <1>6 DEF Listed
  <2>2. \A a \in Reminders : reminder[a].status = "ACTIVE" /\ reminder[a].next <= MaxTime + Day
                               => told[a][reminder[a].next] <= Excuses'
    <3>1. \A a \in Reminders : reminder[a].next \in Nat
      BY DEF RemindInv, RemindersTyped
    <3> QED BY <1>6, <3>1
  <2> QED BY <1>4, <1>5, <2>1, <2>2 DEF Accounted
<1> QED BY <1>1, <1>2, <1>7 DEF RemindInv

LEMMA DeliverStep ==
    ASSUME RemindInv, NEW r \in job.todo, DeliverDue(r)
    PROVE  RemindInv'
<1> USE RunFacts
<1>1. /\ job.pc = "loop" /\ r = Head1 /\ job.todo # {}
      /\ Tell(r, 1) /\ job' = [job EXCEPT !.pc = "mark"]
      /\ now' = now /\ sessionAlerts' = sessionAlerts /\ timeRestarts' = timeRestarts
      /\ reminder' = reminder /\ timeFaults' = timeFaults
  BY DEF DeliverDue, Turn, jobFrame
<1>2. job'.pc = "mark" /\ job'.at = job.at /\ job'.todo = job.todo
  BY <1>1 DEF RemindInv, RemindersTyped
<1>3. /\ told' \in Told
      /\ \A a \in Reminders, o \in 0 .. MaxTime + Day :
           told'[a][o] = IF a = r.id /\ o = r.due THEN told[a][o] + 1 ELSE told[a][o]
  BY <1>1, ToldOnce
<1>4. /\ \A a, o : Marking(a, o)' <=> a = r.id /\ o = r.due
      /\ \A a, o : ~Marking(a, o)
      /\ Excuses' = Excuses /\ Horizon' = Horizon /\ Horizon = job.at
  BY <1>1, <1>2 DEF Marking, Head1, Excuses, Horizon
<1>5. r.id \in Reminders /\ r.due \in Nat /\ r.due <= job.at
  BY DEF Listed, RemindInv, RunShape
<1>6. RemindersTyped'
  <2>1. job' \in [pc : ReminderPcs, at : Nat, todo : SUBSET Listed]
    BY <1>1 DEF RemindInv, RemindersTyped, ReminderPcs
  <2> QED BY <1>1, <1>3, <2>1 DEF RemindInv, RemindersTyped
<1>7. RunShape'
  BY <1>1, <1>2 DEF RemindInv, RunShape
<1>8. r.due <= MaxTime + Day => told[r.id][r.due] <= Excuses
  BY <1>4 DEF RemindInv, Accounted
<1>9. \A a \in Reminders, o \in 0 .. MaxTime + Day : told'[a][o] > 0 => o <= Horizon'
  <2>1. \A a \in Reminders, o \in 0 .. MaxTime + Day : told[a][o] > 0 => o <= Horizon
    BY DEF RemindInv, Accounted
  <2> QED BY <2>1, <1>3, <1>4, <1>5
<1>10. \A a \in Reminders, o \in 0 .. MaxTime + Day : told'[a][o] <= 1 + Excuses'
  <2>1. \A a \in Reminders, o \in 0 .. MaxTime + Day : told[a][o] <= 1 + Excuses
    BY DEF RemindInv, Accounted
  <2> QED BY <2>1, <1>3, <1>4, <1>8
<1>11. ASSUME NEW s \in job.todo, s.due <= MaxTime + Day, ~(s.id = r.id /\ s.due = r.due)
       PROVE  told'[s.id][s.due] <= Excuses
  <2>1. s.id \in Reminders /\ s.due \in 0 .. MaxTime + Day
    BY <1>11 DEF Listed
  <2>2. told[s.id][s.due] <= Excuses
    BY <1>4, <1>11 DEF RemindInv, Accounted
  <2> QED BY <2>1, <2>2, <1>3, <1>11
<1>12. ASSUME NEW a \in Reminders, reminder[a].status = "ACTIVE", reminder[a].next <= MaxTime + Day,
              ~(a = r.id /\ reminder[a].next = r.due)
       PROVE  told'[a][reminder[a].next] <= Excuses
  <2>1. reminder[a].next \in 0 .. MaxTime + Day
    BY <1>12 DEF RemindInv, RemindersTyped
  <2>2. told[a][reminder[a].next] <= Excuses
    BY <1>4, <1>12 DEF RemindInv, Accounted
  <2> QED BY <2>1, <2>2, <1>3, <1>12
<1>13. Accounted'
  BY <1>1, <1>2, <1>4, <1>9, <1>10, <1>11, <1>12 DEF Accounted
<1> QED BY <1>6, <1>7, <1>13 DEF RemindInv

(* A delivery that failed may have gone out, and counts as a failure.      *)
LEMMA FailedDeliveryStep ==
    ASSUME RemindInv, NEW r \in job.todo, DeliveryFails(r)
    PROVE  RemindInv'
<1> USE RunFacts
<1>1. /\ job.pc = "loop" /\ r = Head1 /\ job.todo # {} /\ Skip
      /\ now' = now /\ sessionAlerts' = sessionAlerts /\ timeRestarts' = timeRestarts
      /\ reminder' = reminder
  BY DEF DeliveryFails, Turn, jobFrame
<1>2. CASE told' = told /\ timeFaults' = timeFaults
  <2>1. Excuses' = Excuses
    BY <1>1, <1>2 DEF Excuses
  <2>2. timeFaults' \in Nat /\ timeRestarts' \in Nat
    BY <1>1, <1>2 DEF RemindInv, RemindersTyped
  <2> QED BY <1>1, <1>2, <2>1, <2>2, SettledStep
<1>3. CASE Fails /\ \E k \in 0 .. 1 : Tell(r, k)
  <2>1. PICK k \in 0 .. 1 : Tell(r, k)
    BY <1>3
  <2>2. /\ told' \in Told
        /\ \A a \in Reminders, o \in 0 .. MaxTime + Day :
             told'[a][o] = IF a = r.id /\ o = r.due THEN told[a][o] + k ELSE told[a][o]
    BY <2>1, ToldOnce
  <2>3. /\ job' \in [pc : ReminderPcs, at : Nat, todo : SUBSET Listed]
        /\ RunShape'
        /\ \A a, o : ~Marking(a, o)'
        /\ Horizon <= Horizon'
        /\ job'.todo \subseteq job.todo
    BY <1>1, RunGoesOn
  <2>4. timeFaults' \in Nat /\ timeRestarts' \in Nat /\ Excuses' = Excuses + 1
    BY <1>1, <1>3 DEF Fails, Excuses, RemindInv, RemindersTyped
  <2>5. RemindersTyped'
    BY <1>1, <2>2, <2>3, <2>4 DEF RemindInv, RemindersTyped
  <2>6. r.id \in Reminders /\ r.due \in Nat /\ r.due <= job.at
    BY DEF Listed, RemindInv, RunShape
  <2>7. Horizon = job.at /\ Horizon' \in Nat
    BY <1>1, <2>3 DEF Horizon
  <2>8. \A a, o : ~Marking(a, o)
    BY <1>1 DEF Marking
  <2>9. \A a \in Reminders, o \in 0 .. MaxTime + Day : told'[a][o] > 0 => o <= Horizon'
    <3>1. \A a \in Reminders, o \in 0 .. MaxTime + Day : told[a][o] > 0 => o <= Horizon
      BY DEF RemindInv, Accounted
    <3>2. ASSUME NEW a \in Reminders, NEW o \in 0 .. MaxTime + Day, told'[a][o] > 0
          PROVE  o <= Horizon'
      <4>1. CASE a = r.id /\ o = r.due
        BY <4>1, <2>3, <2>6, <2>7
      <4>2. CASE ~(a = r.id /\ o = r.due)
        <5>1. told[a][o] > 0
          BY <4>2, <3>2, <2>2
        <5> QED BY <5>1, <3>1, <2>3, <2>7
      <4> QED BY <4>1, <4>2
    <3> QED BY <3>2
  <2>10. r.due <= MaxTime + Day => told[r.id][r.due] <= Excuses
    BY <2>8 DEF RemindInv, Accounted
  <2>11. \A a \in Reminders, o \in 0 .. MaxTime + Day : told'[a][o] <= Excuses'
    <3>1. \A a \in Reminders, o \in 0 .. MaxTime + Day : told[a][o] <= 1 + Excuses
      BY DEF RemindInv, Accounted
    <3>2. ASSUME NEW a \in Reminders, NEW o \in 0 .. MaxTime + Day
          PROVE  told'[a][o] <= Excuses'
      <4>1. CASE a = r.id /\ o = r.due
        <5>1. told[a][o] <= Excuses /\ told[a][o] \in Nat
          BY <4>1, <2>10
        <5>2. told'[a][o] = told[a][o] + k
          BY <4>1, <2>2
        <5> QED BY <5>1, <5>2, <2>4
      <4>2. CASE ~(a = r.id /\ o = r.due)
        <5>1. told'[a][o] = told[a][o]
          BY <4>2, <2>2
        <5> QED BY <5>1, <3>1, <2>4
      <4> QED BY <4>1, <4>2
    <3> QED BY <3>2
  <2>12. Accounted'
    <3>1. \A a \in Reminders, o \in 0 .. MaxTime + Day : told'[a][o] <= 1 + Excuses'
      <4>1. \A a \in Reminders, o \in 0 .. MaxTime + Day : told'[a][o] \in Nat
        BY <2>2 DEF Told
      <4> QED BY <4>1, <2>4, <2>11
    <3>2. \A s \in job'.todo : s.due <= MaxTime + Day => told'[s.id][s.due] <= Excuses'
      BY <2>3, <2>11 DEF Listed
    <3>3. \A a \in Reminders : reminder[a].next \in Nat
      BY DEF RemindInv, RemindersTyped
    <3>4. \A a \in Reminders : reminder[a].next <= MaxTime + Day => told'[a][reminder[a].next] <= Excuses'
      BY <2>11, <3>3
    <3> QED BY <1>1, <2>9, <3>1, <3>2, <3>4 DEF Accounted
  <2> QED BY <2>3, <2>5, <2>12 DEF RemindInv
<1> QED BY <1>2, <1>3 DEF DeliveryFails

(* The next time is one that was not told of yet.                          *)
LEMMA MarkStep ==
    ASSUME RemindInv, MarkTriggered
    PROVE  RemindInv'
<1> USE RunFacts
<1> DEFINE a == Head1.id
           next == NextFire(a, job.at)
           status == IF next = 0 THEN "COMPLETED" ELSE "ACTIVE"
<1>1. /\ job.pc = "mark" /\ Write(a, status, next) /\ Skip
      /\ now' = now /\ sessionAlerts' = sessionAlerts /\ timeRestarts' = timeRestarts
      /\ told' = told /\ timeFaults' = timeFaults
  BY DEF MarkTriggered, jobFrame
<1>2. job.todo # {} /\ Head1 \in job.todo /\ a \in Reminders
  <2>1. job.todo # {}
    BY <1>1 DEF RemindInv, RunShape
  <2> QED BY <2>1, HeadIsListed DEF RemindInv
<1>3. next \in Nat /\ (next # 0 => next > job.at)
  <2>1. Occurrence(a, job.at + 1) \in job.at + 1 + 1 .. job.at + 1 + Day
    BY <1>2, OccurrenceIsLater
  <2>2. Occurrence(a, job.at + 1) \in Nat /\ Occurrence(a, job.at + 1) > job.at
    BY <2>1, RemindersAssumption
  <2> QED BY <2>2 DEF NextFire
<1>4. reminder' = [reminder EXCEPT ![a] = [status |-> status, next |-> next]]
  BY <1>1 DEF Write
<1>5. status \in {"ACTIVE", "COMPLETED"} /\ (status = "ACTIVE" => next # 0)
  OBVIOUS
<1> HIDE DEF next, status
<1>6. /\ job' \in [pc : ReminderPcs, at : Nat, todo : SUBSET Listed]
      /\ RunShape'
      /\ \A b, o : ~Marking(b, o)'
      /\ Horizon <= Horizon'
      /\ job'.todo \subseteq job.todo
      /\ Head1 \notin job'.todo
  BY <1>1, <1>2, RunGoesOn
<1>7. reminder \in [Reminders -> [status : {"NONE", "ACTIVE", "CANCELLED", "COMPLETED"}, next : Nat]]
  BY DEF RemindInv, RemindersTyped
<1>8. RemindersTyped'
  <2>1. reminder' \in [Reminders -> [status : {"NONE", "ACTIVE", "CANCELLED", "COMPLETED"}, next : Nat]]
    <3>1. [status |-> status, next |-> next] \in [status : {"NONE", "ACTIVE", "CANCELLED", "COMPLETED"}, next : Nat]
      BY <1>3, <1>5
    <3> HIDE DEF a
    <3> QED BY <3>1, <1>2, <1>4, <1>7
  <2> QED BY <2>1, <1>1, <1>6 DEF RemindInv, RemindersTyped
<1>9. Horizon = job.at /\ Horizon' \in Nat /\ Excuses' = Excuses
  BY <1>1, <1>6 DEF Horizon, Excuses
<1>10. \A b \in Reminders, o \in 0 .. MaxTime + Day : told[b][o] > 0 => o <= Horizon'
  <2>1. \A b \in Reminders, o \in 0 .. MaxTime + Day : told[b][o] > 0 => o <= Horizon
    BY DEF RemindInv, Accounted
  <2> QED BY <2>1, <1>6, <1>9
<1>11. ASSUME NEW s \in job'.todo, s.due <= MaxTime + Day
       PROVE  told[s.id][s.due] <= Excuses
  <2>1. s \in job.todo /\ s # Head1
    BY <1>6
  <2>2. s.id # a
    BY <2>1, <1>2 DEF RemindInv, RunShape
  <2>3. ~Marking(s.id, s.due)
    BY <2>2 DEF Marking
  <2> QED BY <2>1, <2>3, <1>11 DEF RemindInv, Accounted
<1>12. ASSUME NEW b \in Reminders, reminder'[b].status = "ACTIVE", reminder'[b].next <= MaxTime + Day
       PROVE  told[b][reminder'[b].next] <= Excuses
  <2>1. CASE b = a
    <3>1. reminder'[b] = [status |-> status, next |-> next]
      BY <2>1, <1>4, <1>7
    <3>2. next # 0 /\ reminder'[b].next = next
      BY <3>1, <1>5, <1>12
    <3>3. next \in 0 .. MaxTime + Day /\ ~(next <= Horizon)
      BY <3>2, <1>3, <1>9, <1>12
    <3>4. ~(told[b][next] > 0)
      BY <3>3 DEF RemindInv, Accounted
    <3>5. told[b][next] = 0
      BY <3>3, <3>4
    <3> QED BY <3>2, <3>5
  <2>2. CASE b # a
    <3>1. reminder'[b] = reminder[b]
      BY <2>2, <1>4, <1>7
    <3>2. ~Marking(b, reminder[b].next)
      BY <2>2 DEF Marking
    <3> QED BY <3>1, <3>2, <1>12 DEF RemindInv, Accounted
  <2> QED BY <2>1, <2>2
<1>13. Accounted'
  <2>1. \A b \in Reminders, o \in 0 .. MaxTime + Day : told[b][o] <= 1 + Excuses
    BY DEF RemindInv, Accounted
  <2> QED BY <2>1, <1>1, <1>9, <1>10, <1>11, <1>12 DEF Accounted
<1> QED BY <1>6, <1>8, <1>13 DEF RemindInv

LEMMA RemindStep == RemindInv /\ [TNext]_timeVars => RemindInv'
<1> SUFFICES ASSUME RemindInv, [TNext]_timeVars PROVE RemindInv'
  OBVIOUS
<1>1. ASSUME \/ Tick
             \/ \E a \in Reminders : TimeAlertCommand(a) \/ ClearTimeAlertCommand(a)
             \/ ConfigCommand
      PROVE  RemindInv'
  BY <1>1, CommandStep
<1>2. CASE Trigger
  BY <1>2, TriggerStep
<1>3. CASE Finish
  <2>1. Excuses' = Excuses /\ timeFaults' \in Nat /\ timeRestarts' \in Nat
    BY <1>3 DEF Finish, jobFrame, Excuses, RemindInv, RemindersTyped
  <2> QED BY <1>3, <2>1, SettledStep DEF Finish, jobFrame, GiveUp
<1>4. ASSUME NEW r \in job.todo, PassMuted(r)
      PROVE  RemindInv'
  <2>1. Excuses' = Excuses /\ timeFaults' \in Nat /\ timeRestarts' \in Nat
    BY <1>4 DEF PassMuted, jobFrame, Excuses, RemindInv, RemindersTyped
  <2> QED BY <1>4, <2>1, SettledStep DEF PassMuted, jobFrame, Turn
<1>5. ASSUME NEW r \in job.todo, DeliverDue(r)
      PROVE  RemindInv'
  BY <1>5, DeliverStep
<1>6. ASSUME NEW r \in job.todo, DeliveryFails(r)
      PROVE  RemindInv'
  BY <1>6, FailedDeliveryStep
<1>7. CASE MarkTriggered
  BY <1>7, MarkStep
<1>8. CASE MarkFails
  <2>1. Excuses' = Excuses + 1 /\ timeFaults' \in Nat /\ timeRestarts' \in Nat
    BY <1>8 DEF MarkFails, Fails, jobFrame, Excuses, RemindInv, RemindersTyped
  <2>2. job.todo # {}
    BY <1>8 DEF MarkFails, RemindInv, RunShape
  <2> QED BY <1>8, <2>1, <2>2, SettledStep DEF MarkFails, jobFrame
<1>9. CASE TRestart
  <2>1. Excuses' = Excuses + 1 /\ timeFaults' \in Nat /\ timeRestarts' \in Nat
    BY <1>9 DEF TRestart, Excuses, RemindInv, RemindersTyped
  <2> QED BY <1>9, <2>1, SettledStep DEF TRestart
<1>10. CASE UNCHANGED timeVars
  BY <1>10 DEF timeVars, RemindInv, RemindersTyped, RunShape, Accounted, Horizon, Excuses, Marking, Head1
<1> QED BY <1>1, <1>2, <1>3, <1>4, <1>5, <1>6, <1>7, <1>8, <1>9, <1>10 DEF TNext, EvaluateDueAlerts

(* An occurrence of a reminder is told once, and again only for a failure  *)
(* or a restart of the bot, whatever its schedule and however the commands *)
(* and the job interleave (evaluate_due_alerts, mark_time_alert_triggered).*)
THEOREM RemindersOnce == TSpec => []RemindsOnce
<1>1. RemindInv => RemindsOnce
  <2> SUFFICES ASSUME RemindInv PROVE RemindsOnce
    OBVIOUS
  <2>1. told \in Told
    BY DEF RemindInv, RemindersTyped
  <2>2. \A a \in Reminders : DOMAIN told[a] = 0 .. MaxTime + Day
    BY <2>1 DEF Told
  <2>3. \A a \in Reminders, o \in 0 .. MaxTime + Day : told[a][o] <= 1 + timeFaults + timeRestarts
    <3>1. \A a \in Reminders, o \in 0 .. MaxTime + Day : told[a][o] <= 1 + Excuses
      BY DEF RemindInv, Accounted
    <3>2. 1 + Excuses = 1 + timeFaults + timeRestarts
      BY DEF Excuses, RemindInv, RemindersTyped
    <3> QED BY <3>1, <3>2
  <2> QED BY <2>2, <2>3 DEF RemindsOnce
<1> QED BY RemindInit, RemindStep, <1>1, PTL DEF TSpec

-----------------------------------------------------------------------------
(* Indicator alerts: the invariant                                         *)

ScanPcs == {"idle", "cursor", "list", "loop", "mark"}

IndicatorsTyped ==
    /\ candle \in 0 .. MaxCandle /\ cursor \in 0 .. candle
    /\ hits \in Seq(SUBSET Indicators) /\ Len(hits) = candle
    /\ indicator \in [Indicators -> [status : {"NONE", "PENDING", "FIRED", "CANCELLED"}, born : Nat]]
    /\ scanning \in [Scanners -> [pc : ScanPcs, candle : Nat, todo : SUBSET Indicators, failed : BOOLEAN]]
    /\ noted \in [Indicators -> SUBSET Nat]
    /\ failures \in Nat /\ listFailures \in Nat

(* A cleared alert waits for no candle, and a listed one is in the table.  *)
ScanShape(s) ==
    /\ scanning[s].pc # "idle" => scanning[s].candle \in 1 .. candle
    /\ scanning[s].pc = "mark" => scanning[s].todo # {}
    /\ \A a \in scanning[s].todo : indicator[a].status # "NONE"

Waits(a, c) == Eligible(a) /\ indicator[a].born <= c

(* An evaluation that has not failed has told, or will, each alert its     *)
(* candle hit that was waiting for it and still waits.                     *)
HitsInHand(s) ==
    scanning[s].pc \in {"loop", "mark"} /\ ~scanning[s].failed =>
        \A a \in hits[scanning[s].candle] :
            Waits(a, scanning[s].candle) => a \in scanning[s].todo \/ scanning[s].candle \in noted[a]

CursorInv ==
    /\ IndicatorsTyped /\ CursorHidesNothing
    /\ \A a \in Indicators : indicator[a].status = "CANCELLED" => indicator[a].born = MaxCandle + 1
    /\ \A s \in Scanners :
         /\ ScanShape(s) /\ HitsInHand(s)
         /\ scanning[s].pc = "mark" => scanning[s].candle \in noted[Current(s)]

LEMMA CursorInit == IInit => CursorInv
<1> SUFFICES ASSUME IInit PROVE CursorInv
  OBVIOUS
<1>1. IndicatorsTyped
  BY IndicatorsAssumption DEF IInit, IndicatorsTyped, NotScanning, ScanPcs
<1>2. /\ cursor = 0
      /\ \A a \in Indicators : indicator[a].status # "CANCELLED"
      /\ \A s \in Scanners : scanning[s].pc = "idle" /\ scanning[s].todo = {}
  BY DEF IInit, NotScanning
<1> QED BY <1>1, <1>2 DEF CursorInv, CursorHidesNothing, ScanShape, HitsInHand

(* What the steps of an evaluation read off the invariant.                 *)
Scanning == [pc : ScanPcs, candle : Nat, todo : SUBSET Indicators, failed : BOOLEAN]

LEMMA ScanFacts ==
    ASSUME CursorInv, NEW s \in Scanners
    PROVE  /\ scanning \in [Scanners -> Scanning]
           /\ scanning[s] \in Scanning
           /\ scanning[s].todo # {} => Current(s) \in scanning[s].todo /\ Current(s) \in Indicators
<1>1. scanning \in [Scanners -> Scanning]
  BY DEF CursorInv, IndicatorsTyped, Scanning
<1>2. scanning[s].todo \subseteq Indicators
  BY <1>1 DEF Scanning
<1>3. scanning[s].todo \subseteq Nat
  BY <1>2, IndicatorsAssumption
<1>4. scanning[s].todo # {} => Current(s) \in scanning[s].todo
  BY <1>3, MinIsLeast DEF Current
<1> QED BY <1>1, <1>2, <1>4

(* A step that no evaluation makes: it adds no waiting alert, keeps the    *)
(* evaluations and only appends candles.                                   *)
LEMMA OutsideStep ==
    ASSUME CursorInv,
           \/ CandleCloses
           \/ \E a \in Indicators : IndicatorAlertCommand(a) \/ ClearIndicatorCommand(a)
    PROVE  CursorInv'
<1>1. scanning' = scanning /\ noted' = noted /\ cursor' = cursor
  BY DEF CandleCloses, IndicatorAlertCommand, ClearIndicatorCommand
<1>2. /\ candle \in 0 .. MaxCandle /\ cursor \in 0 .. candle /\ Len(hits) = candle
      /\ hits \in Seq(SUBSET Indicators)
      /\ indicator \in [Indicators -> [status : {"NONE", "PENDING", "FIRED", "CANCELLED"}, born : Nat]]
      /\ scanning \in [Scanners -> Scanning]
  BY DEF CursorInv, IndicatorsTyped, Scanning
<1>3. \A s \in Scanners : scanning[s].todo \subseteq Indicators
  BY <1>2 DEF Scanning
<1>4. CASE CandleCloses
  <2>1. PICK h \in SUBSET Indicators : hits' = Append(hits, h)
    BY <1>4 DEF CandleCloses
  <2>2. candle' = candle + 1 /\ candle < MaxCandle /\ indicator' = indicator
        /\ failures' = failures /\ listFailures' = listFailures
    BY <1>4 DEF CandleCloses
  <2>3. hits' \in Seq(SUBSET Indicators) /\ Len(hits') = candle' /\ \A c \in 1 .. candle : hits'[c] = hits[c]
    BY <1>2, <2>1, <2>2
  <2>4. IndicatorsTyped'
    BY <1>1, <1>2, <2>2, <2>3, IndicatorsAssumption DEF CursorInv, IndicatorsTyped
  <2>5. \A a, c : Waits(a, c)' <=> Waits(a, c)
    BY <2>2 DEF Waits, Eligible
  <2>6. CursorHidesNothing'
    BY <1>1, <1>2, <2>2, <2>3 DEF CursorInv, CursorHidesNothing, Eligible
  <2>7. ASSUME NEW s \in Scanners
        PROVE  /\ ScanShape(s)' /\ HitsInHand(s)'
               /\ scanning'[s].pc = "mark" => scanning'[s].candle \in noted'[Current(s)']
    <3>1. ScanShape(s) /\ HitsInHand(s)
      BY DEF CursorInv
    <3>2. ScanShape(s)'
      BY <3>1, <1>1, <1>2, <2>2 DEF ScanShape
    <3>3. HitsInHand(s)'
      BY <3>1, <1>1, <1>2, <2>2, <2>3, <2>5 DEF ScanShape, HitsInHand
    <3>4. Current(s)' = Current(s)
      BY <1>1 DEF Current
    <3> QED BY <3>2, <3>3, <3>4, <1>1 DEF CursorInv
  <2> QED BY <2>2, <2>4, <2>6, <2>7 DEF CursorInv
<1>5. ASSUME NEW a \in Indicators, IndicatorAlertCommand(a) \/ ClearIndicatorCommand(a)
      PROVE  CursorInv'
  <2>1. candle' = candle /\ hits' = hits /\ failures' = failures /\ listFailures' = listFailures
    BY <1>5 DEF IndicatorAlertCommand, ClearIndicatorCommand
  <2>2. PICK r \in [status : {"NONE", "PENDING", "FIRED", "CANCELLED"}, born : Nat] :
          /\ indicator' = [indicator EXCEPT ![a] = r]
          /\ r.status # "NONE" /\ r.born > candle
          /\ r.status = "CANCELLED" => r.born = MaxCandle + 1
    <3>1. CASE IndicatorAlertCommand(a)
      <4> DEFINE r == [status |-> "PENDING", born |-> candle + 1]
      <4>1. r.status = "PENDING" /\ r.born = candle + 1 /\ r.born > candle
            /\ r \in [status : {"NONE", "PENDING", "FIRED", "CANCELLED"}, born : Nat]
        BY <1>2
      <4>2. indicator' = [indicator EXCEPT ![a] = r]
        BY <3>1 DEF IndicatorAlertCommand
      <4> QED BY <4>1, <4>2
    <3>2. CASE ClearIndicatorCommand(a)
      <4> DEFINE r == [status |-> "CANCELLED", born |-> MaxCandle + 1]
      <4>1. r.status = "CANCELLED" /\ r.born = MaxCandle + 1 /\ r.born > candle
            /\ r \in [status : {"NONE", "PENDING", "FIRED", "CANCELLED"}, born : Nat]
        BY <1>2, IndicatorsAssumption
      <4>2. indicator' = [indicator EXCEPT ![a] = r]
        BY <3>2 DEF ClearIndicatorCommand
      <4> QED BY <4>1, <4>2
    <3> QED BY <1>5, <3>1, <3>2
  <2>3. /\ \A b \in Indicators : b # a => indicator'[b] = indicator[b]
        /\ indicator'[a] = r
    BY <1>2, <2>2
  <2>4. IndicatorsTyped'
    BY <1>1, <1>2, <2>1, <2>2 DEF CursorInv, IndicatorsTyped
  <2>5. \A b \in Indicators, c \in 0 .. candle : Waits(b, c)' => Waits(b, c)
    BY <1>2, <2>2, <2>3 DEF Waits, Eligible
  <2>6. CursorHidesNothing'
    <3>1. cursor > 0 => hits[cursor] \subseteq Indicators
      BY <1>2
    <3> QED BY <1>1, <1>2, <2>1, <2>5, <3>1 DEF CursorInv, CursorHidesNothing, Waits
  <2>7. ASSUME NEW s \in Scanners
        PROVE  /\ ScanShape(s)' /\ HitsInHand(s)'
               /\ scanning'[s].pc = "mark" => scanning'[s].candle \in noted'[Current(s)']
    <3>1. ScanShape(s) /\ HitsInHand(s)
      BY DEF CursorInv
    <3>2. ScanShape(s)'
      BY <3>1, <1>1, <1>3, <2>1, <2>2, <2>3 DEF ScanShape
    <3>3. HitsInHand(s)'
      <4>1. scanning[s].pc # "idle" => scanning[s].candle \in 1 .. candle /\ hits[scanning[s].candle] \subseteq Indicators
        BY <3>1, <1>2 DEF ScanShape
      <4> QED BY <3>1, <1>1, <1>2, <2>1, <2>5, <4>1 DEF HitsInHand
    <3>4. Current(s)' = Current(s)
      BY <1>1 DEF Current
    <3> QED BY <3>2, <3>3, <3>4, <1>1 DEF CursorInv
  <2>8. \A b \in Indicators : indicator'[b].status = "CANCELLED" => indicator'[b].born = MaxCandle + 1
    BY <2>2, <2>3 DEF CursorInv
  <2> QED BY <2>4, <2>6, <2>7, <2>8 DEF CursorInv
<1> QED BY <1>4, <1>5

(* A step of one evaluation that keeps the candles and the alerts' status, *)
(* or fires what it has told; the others are untouched.                    *)
EvaluationMoves(s, r) ==
    /\ candle' = candle /\ hits' = hits
    /\ r \in Scanning /\ scanning' = [scanning EXCEPT ![s] = r]
    /\ failures' \in Nat /\ listFailures' \in Nat
    /\ cursor' \in 0 .. candle
    /\ noted' \in [Indicators -> SUBSET Nat]
    /\ \A a \in Indicators : noted[a] \subseteq noted'[a]
    /\ indicator' = indicator
        \/ \E a \in scanning[s].todo : indicator' = [indicator EXCEPT ![a].status = "FIRED"]

LEMMA OthersKeepHits ==
    ASSUME CursorInv, NEW s \in Scanners, NEW r, EvaluationMoves(s, r),
           cursor' # cursor => CursorHidesNothing',
           r.pc # "idle" => r.candle \in 1 .. candle,
           r.pc = "mark" => r.todo # {} /\ r.candle \in noted'[Min(r.todo)],
           r.todo # {} => r.todo \subseteq scanning[s].todo \/ \A a \in r.todo : Eligible(a),
           r.pc \in {"loop", "mark"} /\ ~r.failed =>
             \A a \in hits[r.candle] : Waits(a, r.candle) => a \in r.todo \/ r.candle \in noted'[a]
    PROVE  CursorInv'
<1>1. /\ candle \in 0 .. MaxCandle /\ cursor \in 0 .. candle /\ Len(hits) = candle
      /\ hits \in Seq(SUBSET Indicators)
      /\ indicator \in [Indicators -> [status : {"NONE", "PENDING", "FIRED", "CANCELLED"}, born : Nat]]
      /\ scanning \in [Scanners -> Scanning]
  BY DEF CursorInv, IndicatorsTyped, Scanning
<1>2. /\ candle' = candle /\ hits' = hits /\ r \in Scanning
      /\ \A t \in Scanners : scanning'[t] = IF t = s THEN r ELSE scanning[t]
      /\ scanning' \in [Scanners -> Scanning]
      /\ failures' \in Nat /\ listFailures' \in Nat /\ cursor' \in 0 .. candle
      /\ noted' \in [Indicators -> SUBSET Nat]
      /\ \A a \in Indicators : noted[a] \subseteq noted'[a]
  BY <1>1 DEF EvaluationMoves
<1>3. /\ indicator' \in [Indicators -> [status : {"NONE", "PENDING", "FIRED", "CANCELLED"}, born : Nat]]
      /\ \A a \in Indicators : /\ indicator'[a].born = indicator[a].born
                               /\ indicator[a].status # "NONE" => indicator'[a].status # "NONE"
                               /\ indicator'[a].status = "CANCELLED" => indicator[a].status = "CANCELLED"
                               /\ \/ indicator'[a] = indicator[a]
                                  \/ indicator[a].status # "NONE" /\ indicator'[a].status = "FIRED"
  <2>1. CASE indicator' = indicator
    BY <2>1, <1>1
  <2>2. ASSUME NEW a \in scanning[s].todo, indicator' = [indicator EXCEPT ![a].status = "FIRED"]
        PROVE  <1>3!1 /\ <1>3!2
    <3>1. a \in Indicators /\ indicator[a].status # "NONE"
      BY <1>1 DEF Scanning, CursorInv, ScanShape
    <3> QED BY <1>1, <2>2, <3>1
  <2> QED BY <2>1, <2>2 DEF EvaluationMoves
<1>4. IndicatorsTyped'
  BY <1>1, <1>2, <1>3 DEF IndicatorsTyped, Scanning
<1>5. \A a \in Indicators : indicator'[a].status = "CANCELLED" => indicator'[a].born = MaxCandle + 1
  BY <1>3 DEF CursorInv
<1>6. \A a \in Indicators, c \in 0 .. candle : Waits(a, c)' => Waits(a, c)
  <2>1. ASSUME NEW a \in Indicators, NEW c \in 0 .. candle, Waits(a, c)'
        PROVE  Waits(a, c)
    <3>1. Eligible(a)' /\ indicator'[a].born <= c
      BY <2>1 DEF Waits
    <3>2. indicator[a].born <= c /\ indicator[a].born \in Nat
      BY <3>1, <1>1, <1>3
    <3>3. indicator[a].status # "CANCELLED"
      <4>1. indicator[a].status = "CANCELLED" => indicator[a].born = MaxCandle + 1
        BY DEF CursorInv
      <4> QED BY <4>1, <3>2, <1>1, IndicatorsAssumption
    <3>4. indicator[a].status \in {"NONE", "PENDING", "FIRED", "CANCELLED"}
      BY <1>1
    <3>5. Eligible(a)
      BY <3>1, <3>3, <3>4, <1>3 DEF Eligible
    <3> QED BY <3>2, <3>5 DEF Waits
  <2> QED BY <2>1
<1>7. CursorHidesNothing'
  <2>1. CASE cursor' # cursor
    BY <2>1
  <2>2. CASE cursor' = cursor
    <3>1. cursor > 0 => hits[cursor] \subseteq Indicators
      BY <1>1
    <3>2. cursor > 0 => \A a \in hits[cursor] : Waits(a, cursor) => cursor \in noted[a]
      BY DEF CursorInv, CursorHidesNothing, Waits
    <3>3. ASSUME cursor > 0, NEW a \in hits[cursor], Waits(a, cursor)'
          PROVE  cursor \in noted'[a]
      <4>1. a \in Indicators /\ cursor \in 0 .. candle
        BY <3>1, <3>3, <1>1
      <4>2. Waits(a, cursor)
        BY <4>1, <3>3, <2>2, <1>6
      <4> QED BY <4>1, <4>2, <3>2, <3>3, <1>2
    <3>4. cursor' > 0 => \A a \in hits'[cursor'] : Waits(a, cursor)' => cursor' \in noted'[a]
      BY <3>3, <2>2, <1>2
    <3> QED BY <3>4 DEF CursorHidesNothing, Waits
  <2> QED BY <2>1, <2>2
<1>8. ASSUME NEW t \in Scanners
      PROVE  /\ ScanShape(t)' /\ HitsInHand(t)'
             /\ scanning'[t].pc = "mark" => scanning'[t].candle \in noted'[Current(t)']
  <2>0. /\ \A u \in Scanners : scanning[u].todo \subseteq Indicators
        /\ ScanShape(t) /\ HitsInHand(t) /\ ScanShape(s)
        /\ scanning[t].pc = "mark" => scanning[t].candle \in noted[Current(t)]
    BY <1>1 DEF CursorInv, Scanning
  <2>1. CASE t # s
    <3>1. scanning'[t] = scanning[t]
      BY <2>1, <1>2
    <3>2. ScanShape(t)'
      BY <3>1, <2>0, <1>2, <1>3 DEF ScanShape
    <3>3. HitsInHand(t)'
      <4>1. scanning[t].pc # "idle" => scanning[t].candle \in 0 .. candle /\ hits[scanning[t].candle] \subseteq Indicators
        BY <1>1, <2>0 DEF ScanShape
      <4> QED BY <3>1, <4>1, <2>0, <1>2, <1>6 DEF HitsInHand
    <3>4. Current(t)' = Current(t)
      BY <3>1 DEF Current
    <3>5. scanning[t].pc = "mark" => Current(t) \in Indicators
      BY <2>0, ScanFacts DEF ScanShape
    <3> QED BY <3>1, <3>2, <3>3, <3>4, <3>5, <2>0, <1>2
  <2>2. CASE t = s
    <3>1. scanning'[t] = r
      BY <2>2, <1>2
    <3>2. ScanShape(t)'
      <4>1. r.todo \subseteq Indicators
        BY <1>2 DEF Scanning
      <4>2. \A a \in r.todo : indicator[a].status # "NONE"
        BY <2>0 DEF ScanShape, Eligible
      <4> QED BY <3>1, <4>1, <4>2, <1>2, <1>3 DEF ScanShape
    <3>3. HitsInHand(t)'
      <4>1. r.pc # "idle" => r.candle \in 0 .. candle /\ hits[r.candle] \subseteq Indicators
        BY <1>1
      <4> QED BY <3>1, <4>1, <1>2, <1>6 DEF HitsInHand
    <3>4. Current(t)' = Min(r.todo)
      BY <3>1 DEF Current
    <3> QED BY <3>1, <3>2, <3>3, <3>4
  <2> QED BY <2>1, <2>2
<1> QED BY <1>4, <1>5, <1>7, <1>8 DEF CursorInv

(* A record that a step leaves a scanner with, field by field.             *)
LEMMA RecordStep ==
    ASSUME NEW s \in Scanners, scanning \in [Scanners -> Scanning], NEW r,
           \/ r = NotScanning
           \/ r = [scanning[s] EXCEPT !.pc = "list"]
           \/ r = [scanning[s] EXCEPT !.pc = "mark"]
           \/ \E f \in BOOLEAN, T \in SUBSET scanning[s].todo :
                r = [scanning[s] EXCEPT !.pc = "loop", !.todo = T, !.failed = f]
           \/ \E T \in SUBSET Indicators : r = [scanning[s] EXCEPT !.pc = "loop", !.todo = T]
    PROVE  r \in Scanning
<1> DEFINE q == scanning[s]
<1>1. q \in Scanning
  OBVIOUS
<1>2. NotScanning \in Scanning
  BY DEF Scanning, ScanPcs, NotScanning
<1> HIDE DEF q
<1>3. [q EXCEPT !.pc = "list"] \in Scanning /\ [q EXCEPT !.pc = "mark"] \in Scanning
  BY <1>1 DEF Scanning, ScanPcs
<1>4. ASSUME NEW f \in BOOLEAN, NEW T \in SUBSET q.todo
      PROVE  [q EXCEPT !.pc = "loop", !.todo = T, !.failed = f] \in Scanning
  <2>1. T \in SUBSET Indicators
    BY <1>1 DEF Scanning
  <2> QED BY <1>1, <2>1 DEF Scanning, ScanPcs
<1>5. ASSUME NEW T \in SUBSET Indicators
      PROVE  [q EXCEPT !.pc = "loop", !.todo = T] \in Scanning
  BY <1>1 DEF Scanning, ScanPcs
<1>6. \/ r = NotScanning
      \/ r = [q EXCEPT !.pc = "list"]
      \/ r = [q EXCEPT !.pc = "mark"]
      \/ \E f \in BOOLEAN, T \in SUBSET q.todo :
           r = [q EXCEPT !.pc = "loop", !.todo = T, !.failed = f]
      \/ \E T \in SUBSET Indicators : r = [q EXCEPT !.pc = "loop", !.todo = T]
  BY Zenon DEF q
<1>7. CASE \E f \in BOOLEAN, T \in SUBSET q.todo : r = [q EXCEPT !.pc = "loop", !.todo = T, !.failed = f]
  <2>1. PICK f \in BOOLEAN, T \in SUBSET q.todo : r = [q EXCEPT !.pc = "loop", !.todo = T, !.failed = f]
    BY <1>7
  <2>2. [q EXCEPT !.pc = "loop", !.todo = T, !.failed = f] \in Scanning
    BY <1>4
  <2> QED BY <2>1, <2>2, Zenon
<1>8. CASE \E T \in SUBSET Indicators : r = [q EXCEPT !.pc = "loop", !.todo = T]
  <2>1. PICK T \in SUBSET Indicators : r = [q EXCEPT !.pc = "loop", !.todo = T]
    BY <1>8
  <2>2. [q EXCEPT !.pc = "loop", !.todo = T] \in Scanning
    BY <1>5
  <2> QED BY <2>1, <2>2, Zenon
<1> QED BY <1>2, <1>3, <1>6, <1>7, <1>8

(* Dropping the head of an evaluation, told or failed.                     *)
LEMMA PassedStep ==
    ASSUME CursorInv, NEW s \in Scanners, scanning[s].todo # {}, scanning[s].pc \in {"loop", "mark"},
           NEW f \in BOOLEAN, Passed(s, f),
           candle' = candle, hits' = hits, cursor' = cursor, noted' = noted,
           failures' \in Nat, listFailures' \in Nat,
           indicator' = indicator \/ indicator' = [indicator EXCEPT ![Current(s)].status = "FIRED"],
           f \/ scanning[s].pc = "mark"
    PROVE  CursorInv'
<1> DEFINE T == scanning[s].todo \ {Current(s)}
           r == [scanning[s] EXCEPT !.pc = "loop", !.todo = T, !.failed = scanning[s].failed \/ f]
<1>1. /\ scanning \in [Scanners -> Scanning] /\ scanning[s] \in Scanning
      /\ Current(s) \in scanning[s].todo /\ Current(s) \in Indicators
  BY ScanFacts
<1>2. scanning' = [scanning EXCEPT ![s] = r]
  BY <1>1 DEF Passed, Scanning
<1>3. r.pc = "loop" /\ r.candle = scanning[s].candle /\ r.todo = T /\ r.failed = (scanning[s].failed \/ f)
  BY <1>1 DEF Scanning
<1>4. r \in Scanning
  <2>1. (scanning[s].failed \/ f) \in BOOLEAN
    OBVIOUS
  <2> QED BY <2>1, <1>1, RecordStep
<1> HIDE DEF r
<1>5. T \subseteq scanning[s].todo
  OBVIOUS
<1>6. EvaluationMoves(s, r)
  BY <1>1, <1>2, <1>4 DEF EvaluationMoves, CursorInv, IndicatorsTyped
<1>7. ScanShape(s) /\ HitsInHand(s) /\ (scanning[s].pc = "mark" => scanning[s].candle \in noted[Current(s)])
  BY DEF CursorInv
<1>8. ~r.failed => \A a \in hits[r.candle] : Waits(a, r.candle) => a \in r.todo \/ r.candle \in noted'[a]
  BY <1>3, <1>7 DEF HitsInHand
<1>9. r.candle \in 1 .. candle
  BY <1>3, <1>7 DEF ScanShape
<1> QED BY <1>3, <1>5, <1>6, <1>8, <1>9, OthersKeepHits

(* One step of an evaluation.                                              *)
LEMMA EvaluationStep ==
    ASSUME CursorInv, listFailures' = 0, NEW s \in Scanners, EvaluateForSnapshot(s)
    PROVE  CursorInv'
<1>1. /\ scanning \in [Scanners -> Scanning] /\ scanning[s] \in Scanning
      /\ scanning[s].todo # {} => Current(s) \in scanning[s].todo /\ Current(s) \in Indicators
  BY ScanFacts
<1>2. /\ candle \in 0 .. MaxCandle /\ cursor \in 0 .. candle /\ noted \in [Indicators -> SUBSET Nat]
      /\ failures \in Nat /\ listFailures \in Nat /\ Len(hits) = candle /\ hits \in Seq(SUBSET Indicators)
  BY DEF CursorInv, IndicatorsTyped
<1>3. ScanShape(s) /\ HitsInHand(s) /\ (scanning[s].pc = "mark" => scanning[s].candle \in noted[Current(s)])
  BY DEF CursorInv
<1>4. FailsOnce => failures' \in Nat
  BY <1>2 DEF FailsOnce
<1>5. ASSUME Stop(s), candle' = candle, hits' = hits, noted' = noted, indicator' = indicator,
             failures' \in Nat, listFailures' \in Nat, cursor' \in 0 .. candle,
             cursor' # cursor => CursorHidesNothing'
      PROVE  CursorInv'
  <2>1. /\ NotScanning.pc = "idle" /\ NotScanning.todo = {} /\ NotScanning \in Scanning
        /\ scanning' = [scanning EXCEPT ![s] = NotScanning]
    BY <1>5 DEF NotScanning, Stop, Scanning, ScanPcs
  <2>2. EvaluationMoves(s, NotScanning)
    BY <1>2, <1>5, <2>1 DEF EvaluationMoves
  <2> QED BY <1>5, <2>1, <2>2, OthersKeepHits
<1>6. ASSUME Go(s, "list"), At(s, "cursor"), candle' = candle, hits' = hits, noted' = noted, indicator' = indicator,
             failures' \in Nat, listFailures' \in Nat, cursor' = cursor
      PROVE  CursorInv'
  <2> DEFINE r == [scanning[s] EXCEPT !.pc = "list"]
  <2>1. r.pc = "list" /\ r.todo = scanning[s].todo /\ r.candle = scanning[s].candle
    BY <1>1 DEF Scanning
  <2>2. r \in Scanning /\ scanning' = [scanning EXCEPT ![s] = r]
    BY <1>1, <1>6, RecordStep DEF Go
  <2> HIDE DEF r
  <2>3. EvaluationMoves(s, r)
    BY <1>2, <1>6, <2>2 DEF EvaluationMoves
  <2>4. r.candle \in 1 .. candle
    BY <1>3, <1>6, <2>1 DEF ScanShape, At
  <2> QED BY <1>6, <2>1, <2>3, <2>4, OthersKeepHits
<1>7. CASE Scan(s)
  <2> DEFINE r == [NotScanning EXCEPT !.pc = "cursor", !.candle = candle]
  <2>1. r.pc = "cursor" /\ r.todo = {} /\ r.candle = candle /\ r \in Scanning
    <3> DEFINE q == NotScanning
    <3>1. q \in Scanning /\ q.todo = {}
      BY DEF NotScanning, Scanning, ScanPcs
    <3>2. candle \in Nat
      BY <1>2, IndicatorsAssumption
    <3>3. r = [q EXCEPT !.pc = "cursor", !.candle = candle]
      OBVIOUS
    <3> HIDE DEF q, r
    <3> QED BY <3>1, <3>2, <3>3 DEF Scanning, ScanPcs
  <2>2. /\ scanning' = [scanning EXCEPT ![s] = r] /\ candle > 0
        /\ candle' = candle /\ hits' = hits /\ noted' = noted /\ indicator' = indicator
        /\ failures' = failures /\ listFailures' = listFailures /\ cursor' = cursor
    BY <1>7 DEF Scan, evalFrame
  <2> HIDE DEF r
  <2>3. EvaluationMoves(s, r)
    BY <1>2, <2>1, <2>2 DEF EvaluationMoves
  <2>4. r.candle \in 1 .. candle
    BY <1>2, <2>1, <2>2
  <2> QED BY <2>1, <2>2, <2>3, <2>4, OthersKeepHits
<1>8. CASE ReadCursor(s) \/ ReadCursorFails(s)
  <2>1. /\ candle' = candle /\ hits' = hits /\ noted' = noted /\ indicator' = indicator
        /\ failures' \in Nat /\ listFailures' \in Nat /\ cursor' = cursor
        /\ At(s, "cursor") /\ (Stop(s) \/ Go(s, "list"))
    BY <1>2, <1>4, <1>8 DEF ReadCursor, ReadCursorFails, evalFrame
  <2> QED BY <1>2, <1>5, <1>6, <2>1
<1>9. CASE List(s)
  <2> DEFINE T == {a \in hits[scanning[s].candle] : Eligible(a)}
             r == [scanning[s] EXCEPT !.pc = "loop", !.todo = T]
  <2>1. PICK unread \in 0 .. 1 :
          /\ listFailures' = listFailures + unread
          /\ scanning' = [scanning EXCEPT ![s].pc = "loop", ![s].todo = IF unread = 1 THEN {} ELSE T]
    BY <1>9 DEF List
  <2>2. unread = 0 /\ listFailures' = listFailures
    BY <2>1, <1>2
  <2>3. /\ candle' = candle /\ hits' = hits /\ noted' = noted /\ indicator' = indicator
        /\ failures' = failures /\ cursor' = cursor /\ scanning[s].pc = "list"
    BY <1>9 DEF List, At
  <2>4. r.pc = "loop" /\ r.todo = T /\ r.candle = scanning[s].candle /\ r.failed = scanning[s].failed
    BY <1>1 DEF Scanning
  <2>5. r.candle \in 1 .. candle
    BY <1>3, <2>3, <2>4 DEF ScanShape
  <2>6. T \subseteq Indicators
    <3>1. hits[r.candle] \subseteq Indicators
      BY <2>5, <1>2
    <3> QED BY <3>1, <2>4
  <2>7. r \in Scanning
    BY <1>1, <2>6, RecordStep
  <2>8. scanning' = [scanning EXCEPT ![s] = r]
    <3>1. scanning' = [scanning EXCEPT ![s].pc = "loop", ![s].todo = T]
      BY <2>1, <2>2
    <3> HIDE DEF T
    <3> QED BY <1>1, <3>1 DEF Scanning
  <2> HIDE DEF r
  <2>9. EvaluationMoves(s, r)
    BY <1>2, <2>2, <2>3, <2>7, <2>8 DEF EvaluationMoves
  <2>10. \A a \in hits[r.candle] : Waits(a, r.candle) => a \in r.todo
    BY <2>4 DEF Waits
  <2>11. \A a \in r.todo : Eligible(a)
    BY <2>4
  <2> QED BY <2>3, <2>4, <2>5, <2>9, <2>10, <2>11, OthersKeepHits
<1>10. CASE MetricMissing(s)
  <2>1. /\ candle' = candle /\ hits' = hits /\ noted' = noted /\ indicator' = indicator
        /\ failures' \in Nat /\ listFailures' \in Nat /\ cursor' = cursor /\ Stop(s)
    BY <1>2, <1>4, <1>10 DEF MetricMissing, evalFrame
  <2> QED BY <1>2, <1>5, <2>1
<1>11. CASE Deliver(s)
  <2> DEFINE r == [scanning[s] EXCEPT !.pc = "mark"]
  <2>1. /\ scanning[s].pc = "loop" /\ scanning[s].todo # {}
        /\ noted' = [noted EXCEPT ![Current(s)] = @ \cup {scanning[s].candle}]
        /\ candle' = candle /\ hits' = hits /\ indicator' = indicator
        /\ failures' = failures /\ listFailures' = listFailures /\ cursor' = cursor
    BY <1>11 DEF Deliver, Taking, At, evalFrame
  <2>2. r.pc = "mark" /\ r.todo = scanning[s].todo /\ r.candle = scanning[s].candle /\ r.failed = scanning[s].failed
    BY <1>1 DEF Scanning
  <2>3. r \in Scanning /\ scanning' = [scanning EXCEPT ![s] = r]
    BY <1>1, <1>11, RecordStep DEF Deliver, Go
  <2> HIDE DEF r
  <2>4. /\ noted' \in [Indicators -> SUBSET Nat]
        /\ \A a \in Indicators : noted[a] \subseteq noted'[a]
        /\ scanning[s].candle \in noted'[Current(s)]
    <3>1. scanning[s].candle \in Nat /\ Current(s) \in Indicators
      BY <1>1, <2>1 DEF Scanning
    <3> HIDE DEF Current
    <3> QED BY <3>1, <2>1, <1>2
  <2>5. EvaluationMoves(s, r)
    BY <1>2, <2>1, <2>3, <2>4 DEF EvaluationMoves
  <2>6. r.candle \in 1 .. candle
    BY <1>3, <2>1, <2>2 DEF ScanShape
  <2>7. r.candle \in noted'[Min(r.todo)]
    BY <2>2, <2>4 DEF Current
  <2>8. ~r.failed => \A a \in hits[r.candle] : Waits(a, r.candle) => a \in r.todo \/ r.candle \in noted'[a]
    <3>1. hits[r.candle] \subseteq Indicators
      BY <2>6, <1>2
    <3> QED BY <3>1, <1>3, <2>1, <2>2, <2>4 DEF HitsInHand
  <2> QED BY <2>1, <2>2, <2>5, <2>6, <2>7, <2>8, OthersKeepHits
<1>12. CASE DeliverFails(s)
  <2>1. /\ candle' = candle /\ hits' = hits /\ noted' = noted /\ indicator' = indicator
        /\ failures' \in Nat /\ listFailures' \in Nat /\ cursor' = cursor /\ Passed(s, TRUE)
        /\ scanning[s].pc = "loop" /\ scanning[s].todo # {}
    BY <1>2, <1>4, <1>12 DEF DeliverFails, Taking, At, evalFrame
  <2> QED BY <2>1, PassedStep
<1>13. CASE MarkFired(s)
  <2>1. /\ candle' = candle /\ hits' = hits /\ noted' = noted
        /\ failures' \in Nat /\ listFailures' \in Nat /\ cursor' = cursor /\ Passed(s, FALSE)
        /\ scanning[s].pc = "mark" /\ indicator' = [indicator EXCEPT ![Current(s)].status = "FIRED"]
    BY <1>2, <1>13 DEF MarkFired, At, evalFrame
  <2>2. scanning[s].todo # {}
    BY <2>1, <1>3 DEF ScanShape
  <2> QED BY <2>1, <2>2, PassedStep
<1>14. CASE MarkFiredFails(s)
  <2>1. /\ candle' = candle /\ hits' = hits /\ noted' = noted /\ indicator' = indicator
        /\ failures' \in Nat /\ listFailures' \in Nat /\ cursor' = cursor
        /\ scanning[s].pc = "mark" /\ (Passed(s, FALSE) \/ Stop(s))
    BY <1>2, <1>4, <1>14 DEF MarkFiredFails, At, evalFrame
  <2>2. scanning[s].pc = "mark" /\ scanning[s].todo # {}
    BY <1>3, <1>14 DEF ScanShape, MarkFiredFails, At
  <2>3. CASE Passed(s, FALSE)
    BY <2>1, <2>2, <2>3, PassedStep
  <2>4. CASE Stop(s)
    BY <2>1, <2>4, <1>2, <1>5
  <2> QED BY <2>1, <2>3, <2>4
<1>15. CASE Advance(s)
  <2>1. /\ candle' = candle /\ hits' = hits /\ noted' = noted /\ indicator' = indicator
        /\ failures' = failures /\ listFailures' = listFailures /\ Stop(s)
        /\ scanning[s].pc = "loop" /\ scanning[s].todo = {}
        /\ cursor' = IF scanning[s].failed THEN cursor ELSE scanning[s].candle
    BY <1>15 DEF Advance, At, evalFrame
  <2>2. scanning[s].candle \in 1 .. candle
    BY <1>3, <2>1 DEF ScanShape
  <2>3. cursor' \in 0 .. candle
    BY <2>1, <2>2, <1>2
  <2>4. cursor' # cursor => CursorHidesNothing'
    <3>1. SUFFICES ASSUME cursor' # cursor PROVE CursorHidesNothing'
      OBVIOUS
    <3>2. ~scanning[s].failed /\ cursor' = scanning[s].candle
      BY <2>1, <3>1
    <3>3. \A a \in hits[scanning[s].candle] : Waits(a, scanning[s].candle) => scanning[s].candle \in noted[a]
      BY <1>3, <2>1, <3>2 DEF HitsInHand
    <3>4. \A a : Eligible(a)' <=> Eligible(a)
      BY <2>1 DEF Eligible
    <3> QED BY <2>1, <3>2, <3>3, <3>4 DEF CursorHidesNothing, Waits
  <2> QED BY <2>1, <2>3, <2>4, <1>2, <1>5
<1> QED BY <1>7, <1>8, <1>9, <1>10, <1>11, <1>12, <1>13, <1>14, <1>15 DEF EvaluateForSnapshot

(* A restart keeps what is stored and what was told.                       *)
LEMMA RestartStep ==
    ASSUME CursorInv, IRestart
    PROVE  CursorInv'
<1>1. /\ candle' = candle /\ hits' = hits /\ noted' = noted /\ indicator' = indicator
      /\ listFailures' = listFailures /\ cursor' = cursor
      /\ scanning' = [s \in Scanners |-> NotScanning] /\ failures' = failures + 1
  BY DEF IRestart, evalFrame, FailsOnce
<1>2. NotScanning.pc = "idle" /\ NotScanning.todo = {} /\ NotScanning \in Scanning
  BY DEF NotScanning, Scanning, ScanPcs
<1>3. \A s \in Scanners : scanning'[s] = NotScanning
  BY <1>1
<1>4. IndicatorsTyped'
  BY <1>1, <1>2, <1>3 DEF CursorInv, IndicatorsTyped, Scanning
<1>5. CursorHidesNothing'
  BY <1>1 DEF CursorInv, CursorHidesNothing, Eligible
<1> QED BY <1>1, <1>2, <1>3, <1>4, <1>5 DEF CursorInv, ScanShape, HitsInHand

(* Failed reads of the alerts are only counted up.                         *)
CountedInv ==
    /\ listFailures \in Nat
    /\ listFailures = 0 => CursorInv

LEMMA CountedStep == CountedInv /\ [INext]_indicatorVars => CountedInv'
<1> SUFFICES ASSUME CountedInv, [INext]_indicatorVars PROVE CountedInv'
  OBVIOUS
<1>1. listFailures \in Nat /\ (listFailures = 0 => CursorInv)
  BY DEF CountedInv
<1>2. listFailures' = listFailures \/ \E s \in Scanners : List(s)
  <2>1. ASSUME NEW s \in Scanners, EvaluateForSnapshot(s), ~List(s)
        PROVE  listFailures' = listFailures
    BY <2>1 DEF EvaluateForSnapshot, evalFrame, Scan, ReadCursor, ReadCursorFails, MetricMissing,
                Deliver, DeliverFails, MarkFired, MarkFiredFails, Advance
  <2> QED BY <2>1 DEF INext, indicatorVars, CandleCloses, IndicatorAlertCommand, ClearIndicatorCommand,
                      IRestart, evalFrame
<1>3. listFailures' \in Nat /\ (listFailures' = 0 => listFailures = 0)
  <2>1. ASSUME NEW s \in Scanners, List(s)
        PROVE  \E unread \in 0 .. 1 : listFailures' = listFailures + unread
    BY <2>1 DEF List
  <2> QED BY <2>1, <1>1, <1>2
<1>4. ASSUME listFailures' = 0 PROVE CursorInv'
  <2>1. CursorInv
    BY <1>1, <1>3, <1>4
  <2>2. CASE UNCHANGED indicatorVars
    BY <2>1, <2>2 DEF indicatorVars, CursorInv, IndicatorsTyped, CursorHidesNothing, ScanShape, HitsInHand,
                      Waits, Eligible, Current
  <2>3. CASE INext
    BY <2>1, <2>3, <1>4, OutsideStep, EvaluationStep, RestartStep DEF INext
  <2> QED BY <2>2, <2>3
<1> QED BY <1>3, <1>4 DEF CountedInv

(* The cursor of the last evaluated candle hides no alert: each alert that *)
(* was there before that candle closed, that it hit and that still waits,  *)
(* has had its message, however two evaluations, the commands, failed      *)
(* deliveries and restarts interleave (evaluate_for_snapshot).  A read of  *)
(* the alerts that fails lists none and the cursor moves on: this holds    *)
(* until that happens once.                                                *)
THEOREM CursorIsSafe == ISpec => [](listFailures = 0 => CursorHidesNothing)
<1>1. IInit => CountedInv
  <2>1. IInit => listFailures = 0
    BY DEF IInit
  <2> QED BY <2>1, CursorInit DEF CountedInv
<1>2. CountedInv => (listFailures = 0 => CursorHidesNothing)
  BY DEF CountedInv, CursorInv
<1> QED BY <1>1, <1>2, CountedStep, PTL DEF ISpec
=============================================================================
