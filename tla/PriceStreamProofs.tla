-------------------------- MODULE PriceStreamProofs --------------------------
(***************************************************************************)
(* Theorems about PriceStream, for any instruments, alerts, prices, ticks, *)
(* faults and restarts: the coalescing queue loses nothing, an alert is    *)
(* delivered only after the safe side was seen, and once per failure or    *)
(* restart at most.                                                        *)
(***************************************************************************)
EXTENDS PriceStream, FiniteSetTheorems, TLAPS

-----------------------------------------------------------------------------
(* The least of a set of alert ids, which the engine evaluates next.       *)

(* A set of natural numbers has a least member.                            *)
LEMMA LeastExists ==
    ASSUME NEW S, S \subseteq Nat, S # {}
    PROVE  \E x \in S : \A y \in S : x <= y
<1> DEFINE Below(x) == 0 .. x
           Belows == {Below(x) : x \in S}
           R == StrictSubsetOrdering(Int)
           F == FiniteSubsetsOf(Int)
<1>1. IsWellFoundedOn(R, F)
  BY FS_StrictSubsetOrderingWellFounded
<1>2. Belows \subseteq F /\ Belows # {}
  <2>1. \A x \in S : x \in Int /\ IsFiniteSet(Below(x))
    BY FS_Interval
  <2>2. \A x \in S : Below(x) \in F
    BY <2>1 DEF FiniteSubsetsOf
  <2> QED BY <2>2
<1>3. PICK m \in Belows : \A u \in Belows : <<u, m>> \notin R
  <2> HIDE DEF R, F, Belows
  <2> QED BY <1>1, <1>2, WFMin
<1>4. PICK x \in S : m = Below(x)
  OBVIOUS
<1>5. ASSUME NEW y \in S PROVE x <= y
  <2>1. SUFFICES ASSUME y < x PROVE FALSE
    OBVIOUS
  <2>2. x \in Below(x) /\ x \notin Below(y) /\ Below(y) \subseteq Below(x)
    BY <2>1
  <2>3. <<Below(y), Below(x)>> \in R
    BY <2>2, <1>2 DEF StrictSubsetOrdering
  <2> QED BY <2>3, <1>3, <1>4
<1> QED BY <1>5

-----------------------------------------------------------------------------
(* Types.                                                                  *)

Tick == [instrument : Instruments, bid : Int]

Tasks == [pc : {"get", "got", "taken", "scan", "arm", "fire"},
          instrument : Instruments \cup {"none"}, tick : Tick \cup {NoTick}]

StreamTyped ==
    /\ queue \in Seq(Instruments) /\ queued \subseteq Instruments
    /\ latest \in [Instruments -> Tick \cup {NoTick}]
    /\ task \in Tasks
    /\ task.pc = "got" => task.instrument \in Instruments

AlertsTyped ==
    /\ alert \in [Alerts -> [status : {"NONE", "PENDING", "FIRED", "CANCELLED"}, armed : BOOLEAN]]
    /\ sent \in [Alerts -> Nat]
    /\ faults \in Nat /\ restarts \in Nat
    /\ scan \in [todo : SUBSET Alerts, armed : SUBSET Alerts]
    /\ task.pc \in {"arm", "fire"} => scan.todo # {}
    /\ task.pc \in {"get", "got", "taken"} => scan.todo = {}

(* The alert the engine evaluates is one of those it has still to do.      *)
LEMMA CurrentToDo == AlertsTyped /\ scan.todo # {} => Current \in scan.todo /\ Current \in Alerts
<1> SUFFICES ASSUME AlertsTyped, scan.todo # {} PROVE Current \in scan.todo /\ Current \in Alerts
  OBVIOUS
<1>1. scan.todo \subseteq Nat /\ scan.todo \subseteq Alerts
  BY NamesAndIds DEF AlertsTyped
<1>2. \E x \in scan.todo : \A y \in scan.todo : x <= y
  BY <1>1, LeastExists
<1> QED BY <1>1, <1>2 DEF Current, Min

-----------------------------------------------------------------------------
(* The steps, grouped by what they touch.                                  *)

(* A step of the engine, of the chat, or none leaves the queue alone: the  *)
(* consumer is evaluating, or becomes idle after it.                       *)
QuietQueue ==
    /\ UNCHANGED <<queue, queued, latest>>
    /\ task.pc # "got" => task'.pc # "got"
    /\ task.pc = "got" => task' = task
    /\ task' \in Tasks

(* Steps that do not deliver or take a tick keep the queue.                *)
LEMMA OthersKeepQueue ==
    ASSUME StreamTyped,
           \/ Connect \/ Disconnect \/ Evaluate
           \/ \E a \in Alerts : PriceAlertCommand(a) \/ ClearPriceAlertCommand(a)
           \/ UNCHANGED vars
    PROVE  QuietQueue
<1>1. CASE Connect \/ Disconnect \/ UNCHANGED vars
  BY <1>1 DEF Connect, Disconnect, vars, queueVars, QuietQueue, StreamTyped
<1>2. CASE \E a \in Alerts : PriceAlertCommand(a) \/ ClearPriceAlertCommand(a)
  BY <1>2 DEF PriceAlertCommand, ClearPriceAlertCommand, chatFrame, queueVars, QuietQueue, StreamTyped
<1>3. CASE Evaluate
  <2>1. UNCHANGED engineFrame /\ task.pc # "got"
    BY <1>3 DEF Evaluate, ListPending, ListPendingFails, EvaluateDone, Pass, ReadToArm, Deliver, DeliverFails,
                MarkReadFails, MarkArmed, MarkFired, MarkWriteFails, At, ToArm, ToFire, Evaluating
  <2>2. \E pc \in {"get", "scan", "arm", "fire"} :
           task' = [task EXCEPT !.pc = pc] \/ task' = Idle \/ task' = task
    BY <1>3 DEF Evaluate, ListPending, ListPendingFails, EvaluateDone, Pass, ReadToArm, Deliver, DeliverFails,
                MarkReadFails, MarkArmed, MarkFired, MarkWriteFails, Go, Leave, NextAlert
  <2>3. task \in Tasks
    BY DEF StreamTyped
  <2>4. task' \in Tasks /\ task'.pc # "got"
    BY <2>1, <2>2, <2>3 DEF Tasks, Idle, NoTick
  <2> QED BY <2>1, <2>4 DEF engineFrame, QuietQueue
<1> QED BY <1>1, <1>2, <1>3

-----------------------------------------------------------------------------
(* QueueAgrees: no instrument is in the queue twice.                       *)

Held == IF task.pc = "got" THEN {task.instrument} ELSE {}

NoRepeat ==
    /\ \A j, k \in 1 .. Len(queue) : queue[j] = queue[k] => j = k
    /\ Held \cap ToSet(queue) = {}

Counted ==
    /\ queued = ToSet(queue) \cup Held
    /\ Cardinality(queued) = Len(queue) + Cardinality(Held)
    /\ \A i \in Instruments : i \in queued <=> latest[i] # NoTick

QueueInv == StreamTyped /\ NoRepeat /\ Counted

(* The queue has room for every instrument that is not in it.              *)
LEMMA RoomLeft == QueueInv => (queued # Instruments => Len(queue) < QueueMax)
<1> SUFFICES ASSUME QueueInv, queued # Instruments PROVE Len(queue) < QueueMax
  OBVIOUS
<1>1. queued \subseteq Instruments /\ IsFiniteSet(Instruments) /\ IsFiniteSet(queued)
  BY NamesAndIds, FS_Subset DEF QueueInv, StreamTyped
<1>2. Cardinality(queued) < Cardinality(Instruments) /\ Cardinality(Instruments) \in Nat
  BY <1>1, FS_Subset, FS_CardinalityType
<1>3. Cardinality(Held) \in Nat /\ Cardinality(queued) \in Nat
  <2>1. IsFiniteSet(Held)
    BY FS_EmptySet, FS_Singleton DEF Held
  <2> QED BY <1>1, <2>1, FS_CardinalityType
<1>4. Len(queue) \in Nat
  BY DEF QueueInv, StreamTyped
<1> QED BY <1>2, <1>3, <1>4, QueueHoldsEveryInstrument DEF QueueInv, Counted

(* The invariant is strong enough.                                         *)
LEMMA QueueInvImplies == QueueInv => QueueAgrees
<1> SUFFICES ASSUME QueueInv PROVE QueueAgrees
  OBVIOUS
<1>1. queued = {i \in Instruments : latest[i] # NoTick}
  BY DEF QueueInv, StreamTyped, Counted
<1> QED BY <1>1, RoomLeft DEF QueueAgrees, QueueInv, Counted, Held

(* What appending to a queue and taking its head do to the set of its      *)
(* members.                                                                *)
LEMMA ToSetAppend ==
    ASSUME NEW q \in Seq(Instruments), NEW i \in Instruments
    PROVE  ToSet(Append(q, i)) = ToSet(q) \cup {i}
<1> DEFINE r == Append(q, i)
<1>1. /\ DOMAIN q = 1 .. Len(q) /\ DOMAIN r = 1 .. Len(q) + 1 /\ Len(q) \in Nat
      /\ r[Len(q) + 1] = i /\ \A j \in 1 .. Len(q) : r[j] = q[j]
  OBVIOUS
<1> HIDE DEF r
<1>2. \A x : x \in ToSet(r) <=> \E j \in 1 .. Len(q) + 1 : x = r[j]
  BY <1>1 DEF ToSet
<1>3. \A x : x \in ToSet(q) <=> \E j \in 1 .. Len(q) : x = q[j]
  BY <1>1 DEF ToSet
<1>4. \A x : x \in ToSet(r) <=> x \in ToSet(q) \/ x = i
  <2>1. \A j \in 1 .. Len(q) + 1 : j \in 1 .. Len(q) \/ j = Len(q) + 1
    BY <1>1
  <2>2. 1 .. Len(q) \subseteq 1 .. Len(q) + 1 /\ Len(q) + 1 \in 1 .. Len(q) + 1
    BY <1>1
  <2> QED BY <1>1, <1>2, <1>3, <2>1, <2>2
<1> QED BY <1>4 DEF r

(* A queue without duplicates loses its head, and only that.               *)
LEMMA ToSetTail ==
    ASSUME NEW q \in Seq(Instruments), q # <<>>,
           \A j, k \in 1 .. Len(q) : q[j] = q[k] => j = k
    PROVE  /\ ToSet(q) = ToSet(Tail(q)) \cup {Head(q)}
           /\ Head(q) \notin ToSet(Tail(q))
           /\ \A j, k \in 1 .. Len(Tail(q)) : Tail(q)[j] = Tail(q)[k] => j = k
<1>1. Len(q) \in Nat \ {0} /\ Len(Tail(q)) = Len(q) - 1 /\ Head(q) = q[1]
      /\ \A j \in 1 .. Len(q) - 1 : Tail(q)[j] = q[j + 1]
  OBVIOUS
<1>2. ASSUME NEW x \in ToSet(q) PROVE x = q[1] \/ x \in ToSet(Tail(q))
  <2>1. PICK j \in 1 .. Len(q) : x = q[j]
    BY DEF ToSet
  <2>2. CASE j # 1
    <3>1. j - 1 \in 1 .. Len(q) - 1 /\ Tail(q)[j - 1] = q[j]
      BY <1>1, <2>2
    <3>2. j - 1 \in DOMAIN Tail(q)
      BY <1>1, <3>1
    <3> QED BY <2>1, <3>1, <3>2 DEF ToSet
  <2> QED BY <2>1, <2>2
<1>3. ASSUME NEW x \in ToSet(Tail(q)) PROVE x \in ToSet(q) /\ x # q[1]
  <2>1. PICK j \in 1 .. Len(q) - 1 : x = q[j + 1]
    BY <1>1, <1>3 DEF ToSet
  <2> QED BY <1>1, <2>1 DEF ToSet
<1>4. q[1] \in ToSet(q)
  BY <1>1 DEF ToSet
<1>5. ASSUME NEW j \in 1 .. Len(Tail(q)), NEW k \in 1 .. Len(Tail(q)), Tail(q)[j] = Tail(q)[k]
      PROVE  j = k
  <2>1. j + 1 \in 1 .. Len(q) /\ k + 1 \in 1 .. Len(q) /\ q[j + 1] = q[k + 1]
    BY <1>1, <1>5
  <2> QED BY <1>1, <2>1
<1> QED BY <1>1, <1>2, <1>3, <1>4, <1>5

(* Every step keeps the queue and the latest ticks in agreement.           *)
LEMMA QueueStep == QueueInv /\ [Next]_vars => QueueInv'
<1> SUFFICES ASSUME QueueInv, [Next]_vars PROVE QueueInv'
  OBVIOUS
<1> USE DEF QueueInv
<1>1. IsFiniteSet(queued) /\ Len(queue) \in Nat /\ Cardinality(queued) \in Nat
  BY NamesAndIds, FS_Subset, FS_CardinalityType DEF StreamTyped
<1>2. ASSUME QuietQueue PROVE QueueInv'
  <2>1. UNCHANGED <<queue, queued, latest, Held>>
    BY <1>2 DEF QuietQueue, Held
  <2>2. StreamTyped'
    BY <1>2 DEF QuietQueue, StreamTyped
  <2> QED BY <2>1, <2>2 DEF NoRepeat, Counted
<1>3. ASSUME NEW i \in Instruments, NEW p \in 0 .. MaxPrice, Receive(i, p) PROVE QueueInv'
  <2> DEFINE tick == [instrument |-> i, bid |-> p]
  <2>1. UNCHANGED task /\ EnqueueLatest(i, tick)
    BY <1>3 DEF Receive
  <2>2. tick \in Tick /\ tick # NoTick
    BY NamesAndIds DEF Tick, NoTick
  <2> HIDE DEF tick
  <2>3. UNCHANGED Held
    BY <2>1 DEF Held
  <2>4. CASE i \in queued
    <3>1. latest' = [latest EXCEPT ![i] = tick] /\ UNCHANGED <<queue, queued>>
      BY <2>1, <2>4 DEF EnqueueLatest
    <3>2. StreamTyped'
      BY <2>1, <2>2, <3>1 DEF StreamTyped
    <3>3. Counted' /\ NoRepeat'
      BY <2>2, <2>3, <2>4, <3>1 DEF Counted, NoRepeat, StreamTyped
    <3> QED BY <3>2, <3>3
  <2>5. CASE i \notin queued
    <3>1. Len(queue) < QueueMax
      BY <2>5, RoomLeft
    <3>2. /\ latest' = [latest EXCEPT ![i] = tick]
          /\ queue' = Append(queue, i) /\ queued' = queued \cup {i}
      BY <2>1, <2>5, <3>1 DEF EnqueueLatest
    <3>3. StreamTyped'
      BY <2>1, <2>2, <3>2 DEF StreamTyped
    <3>4. ToSet(queue') = ToSet(queue) \cup {i} /\ Len(queue') = Len(queue) + 1
      BY <3>2, ToSetAppend DEF StreamTyped
    <3>5. Cardinality(queued') = Cardinality(queued) + 1
      BY <1>1, <2>5, <3>2, FS_AddElement
    <3>6. Cardinality(Held) \in Nat
      BY FS_EmptySet, FS_Singleton, FS_CardinalityType DEF Held
    <3>7. Counted'
      <4>1. queued' = ToSet(queue') \cup Held'
        BY <2>3, <3>2, <3>4 DEF Counted
      <4>2. Cardinality(queued') = Len(queue') + Cardinality(Held')
        BY <1>1, <2>3, <3>4, <3>5, <3>6 DEF Counted
      <4>3. \A k \in Instruments : k \in queued' <=> latest'[k] # NoTick
        BY <2>2, <3>2 DEF Counted, StreamTyped
      <4> QED BY <4>1, <4>2, <4>3 DEF Counted
    <3>8. i \notin ToSet(queue) /\ i \notin Held
      BY <2>5 DEF Counted
    <3>9. \A j, k \in 1 .. Len(queue') : queue'[j] = queue'[k] => j = k
      <4>1. \A j \in 1 .. Len(queue) : queue'[j] = queue[j] /\ queue[j] # i
        BY <3>2, <3>8 DEF StreamTyped, ToSet
      <4>2. queue'[Len(queue) + 1] = i
        BY <3>2 DEF StreamTyped
      <4> QED BY <1>1, <3>4, <4>1, <4>2 DEF NoRepeat
    <3> QED BY <2>3, <3>3, <3>4, <3>7, <3>8, <3>9 DEF NoRepeat
  <2> QED BY <2>4, <2>5
<1>4. CASE Get
  <2>1. /\ task.pc = "get" /\ queue # <<>> /\ queue' = Tail(queue)
        /\ task' = [pc |-> "got", instrument |-> Head(queue), tick |-> NoTick]
        /\ UNCHANGED <<queued, latest>>
    BY <1>4 DEF Get, Idle
  <2>2. Head(queue) \in Instruments /\ queue' \in Seq(Instruments) /\ Len(queue') = Len(queue) - 1
    BY <2>1 DEF StreamTyped
  <2>3. StreamTyped'
    <3>1. task' \in Tasks
      BY <2>1, <2>2 DEF Tasks
    <3> QED BY <2>1, <2>2, <3>1 DEF StreamTyped
  <2>4. Held = {} /\ Held' = {Head(queue)}
    BY <2>1 DEF Held
  <2>5. /\ ToSet(queue) = ToSet(queue') \cup {Head(queue)}
        /\ Head(queue) \notin ToSet(queue')
        /\ \A j, k \in 1 .. Len(queue') : queue'[j] = queue'[k] => j = k
    <3>1. queue \in Seq(Instruments) /\ \A j, k \in 1 .. Len(queue) : queue[j] = queue[k] => j = k
      BY DEF StreamTyped, NoRepeat
    <3>2. /\ ToSet(queue) = ToSet(Tail(queue)) \cup {Head(queue)}
          /\ Head(queue) \notin ToSet(Tail(queue))
          /\ \A j, k \in 1 .. Len(Tail(queue)) : Tail(queue)[j] = Tail(queue)[k] => j = k
      BY <2>1, <3>1, ToSetTail
    <3> QED BY <2>1, <3>2
  <2>6. Cardinality(Held) = 0 /\ Cardinality(Held') = 1
    BY <2>4, FS_EmptySet, FS_Singleton
  <2>7. Counted'
    BY <1>1, <2>1, <2>2, <2>4, <2>5, <2>6 DEF Counted
  <2> QED BY <2>3, <2>4, <2>5, <2>7 DEF NoRepeat
<1>5. CASE Take
  <2> DEFINE i == task.instrument
  <2>1. /\ task.pc = "got" /\ i \in Instruments
        /\ queued' = queued \ {i} /\ latest' = [latest EXCEPT ![i] = NoTick] /\ queue' = queue
        /\ task' = IF latest[i] = NoTick THEN Idle ELSE [pc |-> "taken", instrument |-> i, tick |-> latest[i]]
    BY <1>5 DEF Take, StreamTyped
  <2>2. Held = {i} /\ Held' = {} /\ task' \in Tasks
    <3>1. latest[i] \in Tick \cup {NoTick}
      BY <2>1 DEF StreamTyped
    <3> QED BY <2>1, <3>1 DEF Held, Idle, Tasks
  <2>3. StreamTyped'
    <3>1. task'.pc # "got"
      BY <2>1 DEF Idle
    <3> QED BY <2>1, <2>2, <3>1 DEF StreamTyped
  <2>4. i \in queued /\ queued' = ToSet(queue)
    BY <2>1, <2>2 DEF Counted, NoRepeat
  <2>5. Cardinality(queued') = Cardinality(queued) - 1
    BY <1>1, <2>1, <2>4, FS_RemoveElement
  <2>6. Cardinality(Held) = 1 /\ Cardinality(Held') = 0
    BY <2>2, FS_EmptySet, FS_Singleton
  <2>7. Counted'
    <3>1. Cardinality(queued') = Len(queue') + Cardinality(Held')
      BY <1>1, <2>1, <2>5, <2>6 DEF Counted
    <3>2. \A k \in Instruments : k \in queued' <=> latest'[k] # NoTick
      BY <2>1 DEF Counted, StreamTyped
    <3> QED BY <2>1, <2>2, <2>4, <3>1, <3>2 DEF Counted
  <2> QED BY <2>1, <2>2, <2>3, <2>7 DEF NoRepeat
<1>6. CASE Restart
  <2>1. queue' = <<>> /\ queued' = {} /\ latest' = [k \in Instruments |-> NoTick] /\ task' = Idle
    BY <1>6 DEF Restart, Volatile
  <2>2. Held' = {} /\ ToSet(queue') = {} /\ Len(queue') = 0 /\ task' \in Tasks /\ task'.pc # "got"
    BY <2>1 DEF Held, Idle, ToSet, Tasks
  <2>3. StreamTyped'
    BY <2>1, <2>2 DEF StreamTyped
  <2>4. Cardinality(queued') = 0 /\ Cardinality(Held') = 0
    BY <2>1, <2>2, FS_EmptySet
  <2> QED BY <2>1, <2>2, <2>3, <2>4 DEF Counted, NoRepeat
<1> QED BY <1>2, <1>3, <1>4, <1>5, <1>6, OthersKeepQueue DEF Next

(* Nothing is queued at first.                                             *)
LEMMA QueueInit == Init => QueueInv
<1> SUFFICES ASSUME Init PROVE QueueInv
  OBVIOUS
<1>1. queue = <<>> /\ queued = {} /\ latest = [k \in Instruments |-> NoTick] /\ task = Idle
  BY DEF Init, Volatile
<1>2. Held = {} /\ ToSet(queue) = {} /\ Len(queue) = 0 /\ task \in Tasks /\ task.pc # "got"
  BY <1>1 DEF Held, Idle, ToSet, Tasks
<1>3. Cardinality(queued) = 0 /\ Cardinality(Held) = 0
  BY <1>1, <1>2, FS_EmptySet
<1> QED BY <1>1, <1>2, <1>3 DEF QueueInv, StreamTyped, Counted, NoRepeat

(* An instrument waits in the queue at most once and with its tick, and    *)
(* the queue never overflows (_enqueue_latest, _run_consumer), for any     *)
(* number of instruments and any order of ticks, reconnects and restarts.  *)
THEOREM QueueNeverDisagrees == Spec => []QueueAgrees
BY QueueInit, QueueStep, QueueInvImplies, PTL DEF Spec

-----------------------------------------------------------------------------
(* The alerts.  The engine is the only one that arms and fires; what the   *)
(* chat writes in between has its flag down.                               *)

(* What an alert may already have cost: one message per failure or restart *)
(* until the engine is done with it, and one more from then on.            *)
Spent == faults + restarts

OnceInv ==
    /\ \A a \in Alerts : sent[a] <= 1 + Spent
    /\ \A a \in Alerts : a \in scan.todo /\ ~(task.pc = "fire" /\ a = Current) => sent[a] <= Spent
    /\ \A a \in Alerts : alert[a].status \in {"NONE", "PENDING"}
                            /\ ~(task.pc = "fire" /\ a = Current) => sent[a] <= Spent

SafeInv ==
    /\ \A a \in Alerts : alert[a].armed \/ a \in scan.armed \/ sent[a] > 0 => a \in safe
    /\ task.pc = "arm" => Current \in safe

AlertInv == AlertsTyped /\ OnceInv /\ SafeInv

(* A step that leaves the alerts and the evaluation of them alone.         *)
LEMMA AlertsUntouched ==
    ASSUME AlertInv, UNCHANGED <<alert, sent, safe, faults, restarts, scan>>, StreamTyped',
           (task.pc \in {"get", "got", "taken"} /\ task'.pc \in {"get", "got", "taken"}) \/ task' = task
    PROVE  AlertInv'
<1> USE DEF AlertInv
<1>1. UNCHANGED <<Current, Spent>>
  BY DEF Current, Spent
<1>2. AlertsTyped'
  BY DEF AlertsTyped
<1>3. (task'.pc = "fire") = (task.pc = "fire") /\ (task'.pc = "arm") = (task.pc = "arm")
  OBVIOUS
<1> QED BY <1>1, <1>2, <1>3 DEF OnceInv, SafeInv

(* A count only grows.                                                     *)
LEMMA SumGrows ==
    ASSUME NEW f \in Nat, NEW g \in Nat, NEW r \in Nat, g >= f
    PROVE  g + r >= f + r /\ g + r \in Nat
OBVIOUS

Records == [status : {"NONE", "PENDING", "FIRED", "CANCELLED"}, armed : BOOLEAN]

(* The engine is done with alert c in this tick: it has sent n messages of *)
(* it and left record r, and goes on with the others or gives up the tick. *)
LEMMA Evaluated ==
    ASSUME AlertInv, scan.todo # {}, NEW c \in Alerts, c = Current,
           NEW n \in Nat, sent' = [sent EXCEPT ![c] = n],
           NEW r \in Records, alert' = [alert EXCEPT ![c] = r],
           faults' \in Nat, faults' >= faults, restarts' = restarts, safe \subseteq safe',
           n <= 1 + Spent', r.status \in {"NONE", "PENDING"} => n <= Spent', r.armed \/ n > 0 => c \in safe',
           \/ task'.pc = "scan" /\ scan' = [scan EXCEPT !.todo = @ \ {c}]
           \/ task'.pc = "get" /\ scan' = NoScan
    PROVE  AlertInv'
<1> USE DEF AlertInv
<1>1. /\ alert \in [Alerts -> Records] /\ sent \in [Alerts -> Nat] /\ faults \in Nat /\ restarts \in Nat
      /\ scan \in [todo : SUBSET Alerts, armed : SUBSET Alerts]
  BY DEF AlertsTyped, Records
<1>2. scan' \in [todo : SUBSET Alerts, armed : SUBSET Alerts]
      /\ scan'.todo \subseteq scan.todo \ {c} /\ scan'.armed \subseteq scan.armed
  BY <1>1 DEF NoScan
<1>3. AlertsTyped'
  <2>1. alert' \in [Alerts -> Records] /\ sent' \in [Alerts -> Nat]
    BY <1>1
  <2>2. task'.pc = "get" => scan'.todo = {}
    BY DEF NoScan
  <2> QED BY <1>1, <1>2, <2>1, <2>2 DEF AlertsTyped, Records
<1>4. Spent \in Nat /\ Spent' \in Nat /\ Spent' >= Spent
  BY <1>1 DEF Spent
<1>5. \A a \in Alerts : a # c => sent'[a] = sent[a] /\ alert'[a] = alert[a]
  BY <1>1
<1>6. sent'[c] = n /\ alert'[c] = r /\ task'.pc \notin {"fire", "arm"}
  BY <1>1
<1>7. \A a \in Alerts : sent[a] \in Nat
  BY <1>1
<1>8. OnceInv'
  <2>1. ASSUME NEW a \in Alerts, a # c
        PROVE  /\ sent'[a] <= 1 + Spent'
               /\ a \in scan'.todo => sent'[a] <= Spent'
               /\ alert'[a].status \in {"NONE", "PENDING"} => sent'[a] <= Spent'
    BY <1>2, <1>4, <1>5, <1>7, <2>1 DEF OnceInv
  <2>2. c \notin scan'.todo
    BY <1>2
  <2> QED BY <1>6, <2>1, <2>2 DEF OnceInv
<1>9. SafeInv'
  BY <1>2, <1>5, <1>6 DEF SafeInv
<1> QED BY <1>3, <1>8, <1>9

(* The engine stops with nothing written.                                  *)
LEMMA GivenUp ==
    ASSUME AlertInv, UNCHANGED <<alert, sent, safe, restarts>>, task.pc \in {"taken", "scan"}, 
           task'.pc = "get", scan' = NoScan, faults' \in Nat, faults' >= faults
    PROVE  AlertInv'
<1> USE DEF AlertInv
<1>1. AlertsTyped'
  BY DEF AlertsTyped, NoScan
<1>2. faults \in Nat /\ restarts \in Nat /\ \A a \in Alerts : sent[a] \in Nat
  BY DEF AlertsTyped
<1>3. Spent \in Nat /\ Spent' \in Nat /\ Spent' >= Spent
  <2>1. Spent' = faults' + restarts /\ Spent = faults + restarts /\ faults' \in Nat /\ faults' >= faults
    BY DEF Spent
  <2> HIDE DEF AlertInv
  <2>2. faults' + restarts >= faults + restarts /\ faults' + restarts \in Nat
    BY <1>2, <2>1, SumGrows
  <2>3. faults + restarts \in Nat
    BY <1>2
  <2> QED BY <2>1, <2>2, <2>3, Zenon
<1>4. OnceInv'
  <2>1. \A a \in Alerts : sent[a] <= 1 + Spent'
    BY <1>2, <1>3 DEF OnceInv
  <2>2. \A a \in Alerts : alert[a].status \in {"NONE", "PENDING"} => sent[a] <= Spent'
    BY <1>2, <1>3 DEF OnceInv
  <2> QED BY <2>1, <2>2 DEF OnceInv, NoScan
<1>5. SafeInv'
  BY DEF SafeInv, NoScan
<1> QED BY <1>1, <1>4, <1>5

(* Evaluating one tick keeps what is known of every alert.                 *)
LEMMA EvaluateStep ==
    ASSUME AlertInv, StreamTyped, StreamTyped', Evaluate
    PROVE  AlertInv'
<1> USE DEF AlertInv
<1>1. /\ alert \in [Alerts -> Records] /\ sent \in [Alerts -> Nat] /\ faults \in Nat /\ restarts \in Nat
      /\ scan \in [todo : SUBSET Alerts, armed : SUBSET Alerts] /\ task \in Tasks
      /\ task.pc \in {"arm", "fire"} => scan.todo # {}
      /\ Spent \in Nat
  BY DEF AlertsTyped, Records, Spent, StreamTyped
<1>2. scan.todo # {} => Current \in scan.todo /\ Current \in Alerts
  BY CurrentToDo
<1>3. restarts' = restarts
  BY DEF Evaluate, ListPending, ListPendingFails, EvaluateDone, Pass, ReadToArm, Deliver, DeliverFails,
         MarkReadFails, MarkArmed, MarkFired, MarkWriteFails, engineFrame
<1>4. \A pc : [task EXCEPT !.pc = pc].pc = pc
  BY <1>1 DEF Tasks
<1>5. ASSUME NEW c \in Alerts, c \in scan.todo, ~(task.pc = "fire" /\ c = Current)
      PROVE  sent[c] \in Nat /\ sent[c] <= Spent
  BY <1>1, <1>5 DEF OnceInv
(* Marks and passes that write nothing.                                    *)
<1>6. ASSUME scan.todo # {}, UNCHANGED <<alert, sent>>, safe \subseteq safe',
             \/ faults' = faults /\ task.pc \in {"scan", "arm"}
             \/ faults' = faults + 1,
             \/ task'.pc = "scan" /\ scan' = [scan EXCEPT !.todo = @ \ {Current}]
             \/ task'.pc = "get" /\ scan' = NoScan
      PROVE  AlertInv'
  <2> DEFINE c == Current
  <2>0. c \in Alerts
    BY <1>2, <1>6
  <2>1. sent' = [sent EXCEPT ![c] = sent[c]] /\ alert' = [alert EXCEPT ![c] = alert[c]]
        /\ sent[c] \in Nat /\ alert[c] \in Records
    BY <1>1, <1>6, <2>0
  <2>2. Spent' = Spent \/ Spent' = Spent + 1
    BY <1>1, <1>3, <1>6 DEF Spent
  <2>3. sent[c] <= Spent'
    <3>1. CASE faults' = faults /\ task.pc \in {"scan", "arm"}
      BY <1>1, <1>2, <1>3, <1>5, <1>6, <3>1 DEF Spent
    <3>2. CASE faults' = faults + 1
      <4>1. sent[c] <= 1 + Spent /\ Spent' = Spent + 1
        BY <1>1, <1>3, <2>0, <3>2 DEF OnceInv, Spent
      <4> QED BY <1>1, <2>1, <4>1
    <3> QED BY <1>6, <3>1, <3>2
  <2>4. alert[c].armed \/ sent[c] > 0 => c \in safe'
    BY <1>6, <2>0 DEF SafeInv
  <2>5. sent[c] <= 1 + Spent' /\ faults' >= faults /\ faults' \in Nat
    BY <1>1, <1>6, <2>1, <2>2, <2>3
  <2> HIDE DEF AlertInv
  <2> QED BY <1>3, <1>6, <2>0, <2>1, <2>3, <2>4, <2>5, Evaluated
<1>7. CASE ListPending
  <2>1. /\ task.pc = "taken" /\ task'.pc = "scan" /\ UNCHANGED <<alert, sent, safe, faults>>
        /\ scan'.todo = {a \in Alerts : alert[a].status = "PENDING" /\ AlertSpec[a].instrument = task.instrument}
        /\ scan'.armed = {a \in Alerts : alert[a].armed}
        /\ scan' \in [todo : SUBSET Alerts, armed : SUBSET Alerts]
    BY <1>4, <1>7 DEF ListPending, At, Go
  <2>2. Spent' = Spent
    BY <1>3, <2>1 DEF Spent
  <2>3. AlertsTyped'
    BY <1>1, <1>3, <2>1 DEF AlertsTyped, Records
  <2>4. OnceInv' /\ SafeInv'
    BY <2>1, <2>2 DEF OnceInv, SafeInv
  <2> QED BY <2>3, <2>4
<1>8. CASE ListPendingFails \/ EvaluateDone
  <2>1. UNCHANGED <<alert, sent, safe>> /\ task.pc \in {"taken", "scan"} /\ task' = Idle /\ scan' = NoScan
        /\ (faults' = faults \/ faults' = faults + 1)
    BY <1>8 DEF ListPendingFails, EvaluateDone, At, Leave, Fault
  <2>2. task'.pc = "get" /\ faults' \in Nat /\ faults' >= faults
    BY <1>1, <2>1 DEF Idle
  <2> HIDE DEF AlertInv
  <2> QED BY <1>3, <2>1, <2>2, GivenUp
<1>9. ASSUME NEW a \in Alerts, Pass(a) \/ MarkReadFails(a) PROVE AlertInv'
  <2>1. /\ a = Current /\ scan.todo # {} /\ UNCHANGED <<alert, sent, safe>>
        /\ task'.pc = "scan" /\ scan' = [scan EXCEPT !.todo = @ \ {Current}]
        /\ (faults' = faults /\ task.pc \in {"scan", "arm"}) \/ faults' = faults + 1
    BY <1>1, <1>4, <1>9 DEF Pass, MarkReadFails, ToArm, Evaluating, At, NextAlert, Go, Fault
  <2>2. safe \subseteq safe'
    BY <2>1
  <2> HIDE DEF AlertInv
  <2> QED BY <1>6, <2>1, <2>2
<1>10. ASSUME NEW a \in Alerts, ReadToArm(a) PROVE AlertInv'
  <2>1. /\ a = Current /\ scan.todo # {} /\ UNCHANGED <<alert, sent, faults>> /\ safe' = safe \cup {a}
        /\ task.pc = "scan"
        /\ \/ task'.pc = "scan" /\ scan' = [scan EXCEPT !.todo = @ \ {Current}]
           \/ task'.pc = "arm" /\ UNCHANGED scan
    BY <1>4, <1>10 DEF ReadToArm, ToArm, Evaluating, At, NextAlert, Go
  <2>2. CASE task'.pc = "scan" /\ scan' = [scan EXCEPT !.todo = @ \ {Current}]
    <3>1. safe \subseteq safe'
      BY <2>1
    <3> HIDE DEF AlertInv
    <3> QED BY <1>6, <2>1, <2>2, <3>1
  <2>3. CASE task'.pc = "arm" /\ UNCHANGED scan
    <3>1. UNCHANGED <<Current, Spent>>
      BY <1>3, <2>1, <2>3 DEF Current, Spent
    <3>2. AlertsTyped'
      BY <1>1, <1>3, <2>1, <2>3 DEF AlertsTyped, Records
    <3>3. OnceInv' /\ SafeInv'
      BY <2>1, <2>3, <3>1 DEF OnceInv, SafeInv
    <3> QED BY <3>2, <3>3
  <2> QED BY <2>1, <2>2, <2>3
<1>11. ASSUME NEW a \in Alerts, Deliver(a) PROVE AlertInv'
  <2>1. /\ a = Current /\ scan.todo # {} /\ UNCHANGED <<alert, scan, safe, faults>> /\ task.pc = "scan"
        /\ a \in scan.armed /\ sent' = [sent EXCEPT ![a] = @ + 1] /\ task'.pc = "fire"
    BY <1>4, <1>11 DEF Deliver, ToFire, IsArmed, Evaluating, At, Go
  <2>2. UNCHANGED <<Current, Spent>>
    BY <1>3, <2>1 DEF Current, Spent
  <2>3. AlertsTyped'
    BY <1>1, <1>3, <2>1 DEF AlertsTyped, Records
  <2>4. sent[a] <= Spent /\ a \in safe
    BY <1>2, <1>5, <2>1 DEF SafeInv
  <2>5. sent'[a] = sent[a] + 1 /\ \A b \in Alerts : b # a => sent'[b] = sent[b]
    BY <1>1, <2>1
  <2>6. OnceInv'
    BY <1>1, <2>1, <2>2, <2>4, <2>5 DEF OnceInv
  <2>7. SafeInv'
    BY <2>1, <2>4, <2>5 DEF SafeInv
  <2> QED BY <2>3, <2>6, <2>7
<1>12. ASSUME NEW a \in Alerts, DeliverFails(a) PROVE AlertInv'
  <2>1. PICK out \in 0 .. 1 : sent' = [sent EXCEPT ![a] = @ + out]
    BY <1>12 DEF DeliverFails
  <2>2. /\ a = Current /\ scan.todo # {} /\ UNCHANGED <<alert, safe>> /\ task.pc = "scan"
        /\ a \in scan.armed /\ task'.pc = "scan" /\ scan' = [scan EXCEPT !.todo = @ \ {Current}]
        /\ faults' = faults + 1
    BY <1>4, <1>12 DEF DeliverFails, ToFire, IsArmed, Evaluating, At, NextAlert, Go, Fault
  <2>3. sent[a] \in Nat /\ sent[a] <= Spent /\ a \in safe /\ alert[a] \in Records
    BY <1>1, <1>2, <1>5, <2>2 DEF SafeInv
  <2>4. Spent' = Spent + 1
    BY <1>1, <1>3, <2>2 DEF Spent
  <2> DEFINE n == sent[a] + out
  <2>5. n \in Nat /\ n <= Spent' /\ n <= 1 + Spent' /\ faults' \in Nat /\ faults' >= faults
    BY <1>1, <2>2, <2>3, <2>4
  <2>6. sent' = [sent EXCEPT ![a] = n] /\ alert' = [alert EXCEPT ![a] = alert[a]]
    BY <1>1, <2>1, <2>2
  <2>7. scan' = [scan EXCEPT !.todo = @ \ {a}]
    BY <2>2
  <2> HIDE DEF AlertInv, n
  <2> QED BY <1>3, <2>2, <2>7, <2>3, <2>5, <2>6, Evaluated
<1>13. CASE MarkArmed
  <2> DEFINE r == [status |-> "PENDING", armed |-> TRUE]
  <2>1. /\ task.pc = "arm" /\ scan.todo # {} /\ UNCHANGED <<sent, safe, faults>>
        /\ alert' = [alert EXCEPT ![Current] = r]
        /\ task'.pc = "scan" /\ scan' = [scan EXCEPT !.todo = @ \ {Current}]
    BY <1>1, <1>4, <1>13 DEF MarkArmed, At, Upsert, NextAlert, Go
  <2>2. Current \in Alerts /\ sent[Current] \in Nat /\ sent[Current] <= Spent /\ Spent' = Spent
        /\ sent' = [sent EXCEPT ![Current] = sent[Current]]
    BY <1>1, <1>2, <1>3, <1>5, <2>1 DEF Spent
  <2>3. Current \in safe /\ r \in Records /\ sent[Current] <= 1 + Spent'
    BY <1>1, <2>1, <2>2 DEF SafeInv, Records
  <2>4. faults' \in Nat /\ faults' >= faults /\ safe \subseteq safe'
    BY <1>1, <2>1
  <2> HIDE DEF AlertInv, r
  <2> QED BY <1>3, <2>1, <2>2, <2>3, <2>4, Evaluated
<1>14. CASE MarkFired
  <2> DEFINE r == [status |-> "FIRED", armed |-> FALSE]
  <2>1. /\ task.pc = "fire" /\ scan.todo # {} /\ UNCHANGED <<sent, safe, faults>>
        /\ alert' = [alert EXCEPT ![Current] = r]
        /\ task'.pc = "scan" /\ scan' = [scan EXCEPT !.todo = @ \ {Current}]
    BY <1>1, <1>4, <1>14 DEF MarkFired, At, Upsert, NextAlert, Go
  <2>2. Current \in Alerts /\ sent[Current] \in Nat /\ sent[Current] <= 1 + Spent /\ Spent' = Spent
        /\ sent' = [sent EXCEPT ![Current] = sent[Current]]
    BY <1>1, <1>2, <1>3, <2>1 DEF Spent, OnceInv
  <2>3. r \in Records /\ ~r.armed /\ r.status \notin {"NONE", "PENDING"} /\ (sent[Current] > 0 => Current \in safe)
    BY <2>2 DEF SafeInv, Records
  <2>4. faults' \in Nat /\ faults' >= faults /\ safe \subseteq safe'
    BY <1>1, <2>1
  <2> HIDE DEF AlertInv, r
  <2> QED BY <1>3, <2>1, <2>2, <2>3, <2>4, Evaluated
<1>15. CASE MarkWriteFails
  <2>1. /\ scan.todo # {} /\ UNCHANGED <<alert, sent, safe>> /\ task' = Idle /\ scan' = NoScan
        /\ faults' = faults + 1
    BY <1>1, <1>15 DEF MarkWriteFails, At, Leave, Fault
  <2>2. task'.pc = "get" /\ Current \in Alerts
    BY <1>2, <2>1 DEF Idle
  <2> QED BY <1>6, <2>1, <2>2
<1> QED
  BY <1>7, <1>8, <1>9, <1>10, <1>11, <1>12, <1>13, <1>14, <1>15 DEF Evaluate

(* Every step keeps what is known of every alert.                          *)
LEMMA AlertStep == QueueInv /\ QueueInv' /\ AlertInv /\ [Next]_vars => AlertInv'
<1> SUFFICES ASSUME QueueInv, QueueInv', AlertInv, [Next]_vars PROVE AlertInv'
  OBVIOUS
<1>1. StreamTyped /\ StreamTyped'
  BY DEF QueueInv
<1>2. CASE \/ Connect \/ Disconnect \/ UNCHANGED vars \/ Get \/ Take
           \/ \E i \in Instruments, p \in 0 .. MaxPrice : Receive(i, p)
  <2>1. UNCHANGED <<alert, sent, safe, faults, restarts, scan>>
    BY <1>2 DEF Connect, Disconnect, Get, Take, Receive, vars, alertVars
  <2>2. \/ task' = task
        \/ task.pc \in {"get", "got", "taken"} /\ task'.pc \in {"get", "got", "taken"}
    <3>1. CASE Connect \/ Disconnect \/ UNCHANGED vars \/ \E i \in Instruments, p \in 0 .. MaxPrice : Receive(i, p)
      BY <3>1 DEF Connect, Disconnect, Receive, vars, queueVars
    <3>2. CASE Get
      BY <3>2 DEF Get, Idle
    <3>3. CASE Take
      BY <3>3 DEF Take, Idle
    <3> QED BY <1>2, <3>1, <3>2, <3>3
  <2> QED BY <1>1, <2>1, <2>2, AlertsUntouched
<1>3. CASE Evaluate
  BY <1>1, <1>3, EvaluateStep
<1>4. ASSUME NEW a \in Alerts, PriceAlertCommand(a) \/ ClearPriceAlertCommand(a) PROVE AlertInv'
  <2>1. /\ UNCHANGED <<task, scan, sent, safe, faults, restarts>>
        /\ \/ alert[a].status = "NONE" /\ alert' = [alert EXCEPT ![a] = [status |-> "PENDING", armed |-> FALSE]]
           \/ alert' = [alert EXCEPT ![a] = [status |-> "CANCELLED", armed |-> FALSE]]
    BY <1>4 DEF PriceAlertCommand, ClearPriceAlertCommand, CancelPriceAlert, Upsert, chatFrame, queueVars, Nowhere
  <2>2. UNCHANGED <<Current, Spent>>
    BY <2>1 DEF Current, Spent
  <2>3. alert \in [Alerts -> Records]
    BY DEF AlertInv, AlertsTyped, Records
  <2>4. AlertsTyped'
    <3>1. \A s \in {"PENDING", "CANCELLED"} : [status |-> s, armed |-> FALSE] \in Records
      BY DEF Records
    <3>2. alert' \in [Alerts -> Records]
      <4>1. CASE alert' = [alert EXCEPT ![a] = [status |-> "PENDING", armed |-> FALSE]]
        BY <2>3, <3>1, <4>1
      <4>2. CASE alert' = [alert EXCEPT ![a] = [status |-> "CANCELLED", armed |-> FALSE]]
        BY <2>3, <3>1, <4>2
      <4> QED BY <2>1, <4>1, <4>2
    <3> QED BY <2>1, <3>2 DEF AlertInv, AlertsTyped, Records
  <2>5. /\ \A b \in Alerts : b # a => alert'[b] = alert[b]
        /\ ~alert'[a].armed
        /\ alert'[a].status \in {"NONE", "PENDING"} => alert[a].status = "NONE"
    BY <2>1, <2>3
  <2>6. OnceInv' /\ SafeInv'
    BY <2>1, <2>2, <2>5 DEF AlertInv, OnceInv, SafeInv
  <2> QED BY <2>4, <2>6 DEF AlertInv
<1>5. CASE Restart
  <2>1. /\ UNCHANGED <<alert, sent, safe, faults>> /\ restarts' = restarts + 1
        /\ task'.pc = "get" /\ scan'.todo = {} /\ scan'.armed = {}
        /\ scan' \in [todo : SUBSET Alerts, armed : SUBSET Alerts]
    BY <1>5 DEF Restart, Volatile, Idle, NoScan
  <2>2. /\ Spent' = Spent + 1 /\ Spent \in Nat /\ restarts' \in Nat
        /\ \A a \in Alerts : sent[a] \in Nat
    BY <2>1 DEF AlertInv, AlertsTyped, Spent
  <2>3. AlertsTyped'
    BY <2>1, <2>2 DEF AlertInv, AlertsTyped
  <2>4. OnceInv'
    BY <2>1, <2>2 DEF AlertInv, OnceInv
  <2>5. SafeInv'
    BY <2>1 DEF AlertInv, SafeInv
  <2> QED BY <2>3, <2>4, <2>5 DEF AlertInv
<1> QED BY <1>2, <1>3, <1>4, <1>5 DEF Next

(* QueueInv and AlertInv together are inductive.                           *)
LEMMA AlertsSafe == Spec => []AlertInv
<1>1. Init => QueueInv
  BY QueueInit
<1>2. Init => AlertInv
  BY DEF Init, Volatile, AlertInv, AlertsTyped, OnceInv, SafeInv, Nowhere, NoScan, Idle, Spent
<1> QED BY <1>1, <1>2, QueueStep, AlertStep, PTL DEF Spec

(* No alert is delivered before a tick has shown the price on the side     *)
(* that does not trigger it (evaluate_tick), however the chat, failures    *)
(* and restarts come between the steps of arming and firing.               *)
THEOREM SafeSideFirst == Spec => []FiresOnlyAfterSafe
<1>1. AlertInv => FiresOnlyAfterSafe
  BY DEF AlertInv, SafeInv, FiresOnlyAfterSafe
<1> QED BY <1>1, AlertsSafe, PTL

(* An alert is delivered at most once more for every failure and restart,  *)
(* also when the chat clears it between the engine's read and its write.   *)
THEOREM DeliveredOnce == Spec => []FiresOnce
<1>1. AlertInv => FiresOnce
  <2> SUFFICES ASSUME AlertInv, NEW a \in Alerts PROVE sent[a] <= 1 + faults + restarts
    BY DEF FiresOnce
  <2>1. sent[a] <= 1 + (faults + restarts) /\ sent[a] \in Nat /\ faults \in Nat /\ restarts \in Nat
    BY DEF AlertInv, OnceInv, Spent, AlertsTyped
  <2> QED BY <2>1
<1> QED BY <1>1, AlertsSafe, PTL

-----------------------------------------------------------------------------
(* NoMissedCrossing: the last tick of an instrument is waiting, in hand or *)
(* leaves no armed alert crossed.                                          *)

Busy == {"scan", "arm", "fire"}

(* What waits is the last tick, and so is what the engine evaluates unless *)
(* a later one waits; the alerts it goes through are of that instrument.   *)
Fresh ==
    /\ quote \in [Instruments -> Tick \cup {NoTick}]
    /\ \A i \in queued : latest[i] = quote[i]
    /\ task.pc \in Busy \cup {"taken"} =>
         /\ task.instrument \in Instruments
         /\ task.tick = quote[task.instrument] \/ task.instrument \in queued
    /\ task.pc \in Busy => \A a \in scan.todo : AlertSpec[a].instrument = task.instrument
    /\ task.pc = "arm" => ~Crossed(Current, task.tick)

InHand(a) ==
    /\ task.instrument = AlertSpec[a].instrument
    /\ task.pc = "taken" \/ (task.pc \in Busy /\ a \in scan.todo /\ a \in scan.armed)

Minded(a) ==
    LET i == AlertSpec[a].instrument IN
    i \in Instruments /\ alert[a] = Armed /\ quote[i] # NoTick
        => ~Crossed(a, quote[i]) \/ i \in queued \/ InHand(a)

MissInv ==
    /\ Fresh
    /\ faults = 0 => \A a \in Alerts : Minded(a)

(* What crosses an alert is a matter of the tick alone.                    *)
LEMMA CrossedSame ==
    ASSUME quote' = quote
    PROVE  \A a, i : Crossed(a, quote[i])' <=> Crossed(a, quote[i])
BY DEF Crossed

(* A step that leaves the alerts and the engine alone.                     *)
LEMMA StreamMinded ==
    ASSUME QueueInv, QueueInv', AlertInv, MissInv,
           \/ Connect \/ Disconnect \/ UNCHANGED vars \/ Get \/ Take
           \/ \E i \in Instruments, p \in 0 .. MaxPrice : Receive(i, p)
    PROVE  MissInv'
<1> USE DEF MissInv
<1>1. alert' = alert /\ faults' = faults /\ scan' = scan
  BY DEF Connect, Disconnect, Get, Take, Receive, vars, alertVars
<1>2. Current' = Current
  BY <1>1 DEF Current
<1>3. CASE Connect \/ Disconnect \/ UNCHANGED vars
  <2>1. quote' = quote /\ queued' = queued /\ latest' = latest /\ task' = task
    BY <1>3 DEF Connect, Disconnect, vars, streamVars, queueVars
  <2>2. Fresh'
    BY <1>1, <1>2, <2>1 DEF Fresh, Crossed
  <2>3. \A a \in Alerts : Minded(a) => Minded(a)'
    BY <1>1, <2>1, CrossedSame DEF Minded, InHand
  <2> QED BY <1>1, <2>2, <2>3
<1>4. ASSUME NEW i \in Instruments, NEW p \in 0 .. MaxPrice, Receive(i, p)
      PROVE  MissInv'
  <2> DEFINE tick == [instrument |-> i, bid |-> p]
  <2>1. task' = task /\ EnqueueLatest(i, tick) /\ quote' = [quote EXCEPT ![i] = tick]
    BY <1>4 DEF Receive
  <2>2. tick \in Tick
    BY DEF Tick
  <2> HIDE DEF tick
  <2>3. i \in queued' /\ queued \subseteq queued' /\ latest' = [latest EXCEPT ![i] = tick]
        /\ queued' \subseteq queued \cup {i}
    <3>1. CASE i \in queued
      BY <2>1, <3>1 DEF EnqueueLatest
    <3>2. CASE i \notin queued
      <4>1. Len(queue) < QueueMax
        BY <3>2, RoomLeft
      <4> QED BY <2>1, <3>2, <4>1 DEF EnqueueLatest
    <3> QED BY <3>1, <3>2
  <2>4. queued \subseteq Instruments /\ latest \in [Instruments -> Tick \cup {NoTick}]
    BY DEF QueueInv, StreamTyped
  <2>5. /\ quote' \in [Instruments -> Tick \cup {NoTick}]
        /\ \A k \in Instruments : k # i => quote'[k] = quote[k]
        /\ \A k \in queued' : latest'[k] = quote'[k]
    BY <2>1, <2>2, <2>3, <2>4 DEF Fresh
  <2>6. Fresh'
    <3>1. task.pc = "arm" => ~Crossed(Current, task.tick)
      BY DEF Fresh
    <3>2. (task.pc = "arm" => ~Crossed(Current, task.tick))'
      BY <1>2, <2>1, <3>1 DEF Crossed
    <3>3. task.pc \in Busy \cup {"taken"} => task.tick = quote'[task.instrument] \/ task.instrument \in queued'
      BY <2>3, <2>5 DEF Fresh
    <3> QED BY <1>1, <2>1, <2>5, <3>2, <3>3 DEF Fresh
  <2>7. ASSUME NEW a \in Alerts, Minded(a)
        PROVE  Minded(a)'
    <3> DEFINE k == AlertSpec[a].instrument
    <3>1. InHand(a)' <=> InHand(a)
      BY <1>1, <2>1 DEF InHand
    <3>2. CASE k = i
      BY <3>2, <2>3 DEF Minded
    <3>3. CASE k # i
      <4>1. k \in Instruments => quote'[k] = quote[k]
        BY <2>5, <3>3
      <4>2. k \in Instruments => (Crossed(a, quote[k])' <=> Crossed(a, quote[k]))
        BY <4>1 DEF Crossed
      <4> QED BY <1>1, <2>3, <2>7, <3>1, <4>1, <4>2 DEF Minded
    <3> QED BY <3>2, <3>3
  <2> QED BY <1>1, <2>6, <2>7
<1>5. CASE Get
  <2>1. /\ task.pc = "get" /\ task' = [pc |-> "got", instrument |-> Head(queue), tick |-> NoTick]
        /\ quote' = quote /\ queued' = queued /\ latest' = latest
    BY <1>5 DEF Get, Idle, streamVars
  <2>2. Fresh'
    BY <1>1, <2>1 DEF Fresh, Busy
  <2>3. \A a \in Alerts : ~InHand(a)
    BY <2>1 DEF InHand, Busy
  <2>4. \A a \in Alerts : Minded(a) => Minded(a)'
    BY <1>1, <2>1, <2>3, CrossedSame DEF Minded
  <2> QED BY <1>1, <2>2, <2>4
<1>6. CASE Take
  <2> DEFINE i == task.instrument
  <2>1. /\ task.pc = "got" /\ i \in Instruments /\ queued' = queued \ {i}
        /\ latest' = [latest EXCEPT ![i] = NoTick] /\ quote' = quote
        /\ task' = IF latest[i] = NoTick THEN Idle ELSE [pc |-> "taken", instrument |-> i, tick |-> latest[i]]
    BY <1>6 DEF Take, streamVars, QueueInv, StreamTyped
  <2>2. i \in queued /\ latest[i] # NoTick /\ latest[i] = quote[i]
    BY <2>1 DEF QueueInv, Counted, Held, Fresh
  <2>3. task'.pc = "taken" /\ task'.instrument = i /\ task'.tick = quote[i]
    BY <2>1, <2>2
  <2>4. Fresh'
    <3>1. queued \subseteq Instruments /\ latest \in [Instruments -> Tick \cup {NoTick}]
      BY DEF QueueInv, StreamTyped
    <3>2. \A k \in queued' : latest'[k] = quote[k]
      BY <2>1, <3>1 DEF Fresh
    <3> QED BY <2>1, <2>3, <3>2 DEF Fresh, Busy
  <2>5. ASSUME NEW a \in Alerts, Minded(a)
        PROVE  Minded(a)'
    <3>1. ~InHand(a)
      BY <2>1 DEF InHand, Busy
    <3>2. AlertSpec[a].instrument = i => InHand(a)'
      BY <2>3 DEF InHand
    <3> QED BY <1>1, <2>1, <2>5, <3>1, <3>2, CrossedSame DEF Minded
  <2> QED BY <1>1, <2>4, <2>5
<1> QED BY <1>3, <1>4, <1>5, <1>6

(* A step of the engine that leaves the stream alone: it goes on with the  *)
(* same tick and fewer alerts, or gives it up.  Each alert that was in     *)
(* hand stays so, is no longer armed, or is not crossed by that tick.      *)
LEMMA EngineMinded ==
    ASSUME QueueInv, QueueInv', AlertInv, MissInv, UNCHANGED engineFrame, task.pc \in Busy,
           faults' \in Nat, faults' >= faults,
           \/ task'.pc \notin Busy \cup {"taken"}
           \/ /\ task'.pc \in Busy /\ task'.instrument = task.instrument /\ task'.tick = task.tick
              /\ scan'.todo \subseteq scan.todo /\ scan'.armed = scan.armed
              /\ task'.pc = "arm" => ~Crossed(Current', task.tick),
           faults' = 0 => \A a \in Alerts : alert'[a] = Armed /\ AlertSpec[a].instrument = task.instrument =>
               \/ alert[a] = Armed /\ InHand(a)'
               \/ alert[a] = Armed /\ ~InHand(a)
               \/ ~Crossed(a, task.tick),
           \A a \in Alerts : alert'[a] = Armed /\ AlertSpec[a].instrument # task.instrument => alert[a] = Armed
    PROVE  MissInv'
<1> USE DEF MissInv
<1>1. quote' = quote /\ queued' = queued /\ latest' = latest
  BY DEF engineFrame, streamVars
<1>2. /\ task.instrument \in Instruments
      /\ task.tick = quote[task.instrument] \/ task.instrument \in queued
      /\ \A a \in scan.todo : AlertSpec[a].instrument = task.instrument
  BY DEF Fresh
<1>3. Fresh'
  <2>1. \A i \in queued' : latest'[i] = quote'[i]
    BY <1>1 DEF Fresh
  <2>2. (task.pc = "arm" => ~Crossed(Current, task.tick))'
    BY DEF Crossed, Busy
  <2>3. task'.pc \in Busy \cup {"taken"} =>
          /\ task'.instrument \in Instruments
          /\ task'.tick = quote'[task'.instrument] \/ task'.instrument \in queued'
    BY <1>1, <1>2 DEF Busy
  <2>4. task'.pc \in Busy => \A a \in scan'.todo : AlertSpec[a].instrument = task'.instrument
    BY <1>2
  <2>5. (quote \in [Instruments -> Tick \cup {NoTick}])'
    <3>1. quote \in [Instruments -> Tick \cup {NoTick}]
      BY DEF Fresh
    <3> QED BY <3>1, <1>1 DEF Tick
  <2> QED BY <2>1, <2>2, <2>3, <2>4, <2>5 DEF Fresh
<1>4. ASSUME faults' = 0, NEW a \in Alerts PROVE Minded(a)'
  <2> DEFINE i == AlertSpec[a].instrument
  <2>1. SUFFICES ASSUME i \in Instruments, alert'[a] = Armed, quote[i] # NoTick, Crossed(a, quote[i]), i \notin queued
                 PROVE  InHand(a)'
    <3>1. Crossed(a, quote[i])' <=> Crossed(a, quote[i])
      BY <1>1, CrossedSame
    <3>2. Armed' = Armed /\ NoTick' = NoTick
      BY DEF Armed, NoTick
    <3> HIDE DEF i
    <3> QED BY <1>1, <3>1, <3>2 DEF Minded, i
  <2>2. faults = 0
    BY <1>4 DEF AlertInv, AlertsTyped
  <2>3. alert[a] = Armed => InHand(a)
    BY <2>1, <2>2 DEF Minded
  <2>4. CASE i # task.instrument
    BY <2>1, <2>3, <2>4 DEF InHand
  <2>5. CASE i = task.instrument
    <3>1. task.tick = quote[i]
      BY <1>2, <2>1, <2>5
    <3> QED BY <1>4, <2>1, <2>3, <2>5, <3>1
  <2> QED BY <2>4, <2>5
<1> QED BY <1>3, <1>4

(* Every step of the engine.                                               *)
LEMMA EvaluateMinded ==
    ASSUME QueueInv, QueueInv', AlertInv, AlertInv', MissInv, Evaluate
    PROVE  MissInv'
<1>1. /\ task \in Tasks /\ faults \in Nat /\ faults' \in Nat
      /\ scan \in [todo : SUBSET Alerts, armed : SUBSET Alerts]
      /\ alert \in [Alerts -> [status : {"NONE", "PENDING", "FIRED", "CANCELLED"}, armed : BOOLEAN]]
  BY DEF QueueInv, StreamTyped, AlertInv, AlertsTyped
<1>2. UNCHANGED engineFrame
  BY DEF Evaluate, ListPending, ListPendingFails, EvaluateDone, Pass, ReadToArm, Deliver, DeliverFails,
         MarkReadFails, MarkArmed, MarkFired, MarkWriteFails
<1>3. Fault => faults' = faults + 1 /\ faults' # 0 /\ faults' >= faults
  BY <1>1 DEF Fault
<1>4. Leave => task'.pc \notin Busy \cup {"taken"}
  BY DEF Leave, Idle, Busy
<1>5. ASSUME NEW pc \in Busy, Go(pc)
      PROVE  task'.pc = pc /\ task'.instrument = task.instrument /\ task'.tick = task.tick
  BY <1>1, <1>5 DEF Go, Tasks
<1>6. NextAlert => /\ task'.pc = "scan" /\ task'.instrument = task.instrument /\ task'.tick = task.tick
                   /\ scan'.todo = scan.todo \ {Current} /\ scan'.armed = scan.armed
  BY <1>1, <1>5 DEF NextAlert, Busy
<1>7. scan.todo # {} => Current \in scan.todo /\ Current \in Alerts
  BY CurrentToDo DEF AlertInv
<1>8. CASE ListPending
  <2>1. /\ task.pc = "taken" /\ alert' = alert /\ faults' = faults
        /\ scan' = [todo  |-> {a \in Alerts : alert[a].status = "PENDING"
                                              /\ AlertSpec[a].instrument = task.instrument},
                    armed |-> {a \in Alerts : alert[a].armed}]
        /\ task'.pc = "scan" /\ task'.instrument = task.instrument /\ task'.tick = task.tick
    BY <1>5, <1>8 DEF ListPending, At, Busy
  <2>2. quote' = quote /\ queued' = queued /\ latest' = latest
    BY <1>2 DEF engineFrame, streamVars
  <2>3. Fresh'
    BY <2>1, <2>2 DEF MissInv, Fresh, Busy
  <2>4. ASSUME NEW a \in Alerts, Minded(a) PROVE Minded(a)'
    <3>1. alert[a] = Armed /\ InHand(a) => InHand(a)'
      BY <2>1 DEF InHand, Armed, Busy
    <3> QED BY <2>1, <2>2, <2>4, <3>1, CrossedSame DEF Minded, Armed
  <2> QED BY <2>1, <2>3, <2>4 DEF MissInv
<1>9. CASE ListPendingFails
  <2>1. /\ task.pc = "taken" /\ faults' # 0 /\ alert' = alert /\ task'.pc \notin Busy \cup {"taken"}
        /\ quote' = quote /\ queued' = queued /\ latest' = latest
    BY <1>2, <1>3, <1>4, <1>9 DEF ListPendingFails, At, engineFrame, streamVars
  <2> QED BY <2>1 DEF MissInv, Fresh, Busy
<1>10. CASE EvaluateDone
  <2>1. /\ task.pc = "scan" /\ scan.todo = {} /\ faults' = faults /\ alert' = alert
        /\ task'.pc \notin Busy \cup {"taken"}
    BY <1>4, <1>10 DEF EvaluateDone, At
  <2>2. \A a \in Alerts : ~InHand(a)
    BY <2>1 DEF InHand
  <2> QED BY <1>1, <1>2, <2>1, <2>2, EngineMinded DEF Busy
<1>11. ASSUME NEW a \in Alerts, Pass(a) PROVE MissInv'
  <2>1. /\ task.pc = "scan" /\ scan.todo # {} /\ a = Current /\ NextAlert
        /\ faults' = faults /\ alert' = alert
        /\ a \in scan.armed => ~Crossed(a, task.tick)
    BY <1>11 DEF Pass, Evaluating, ToArm, ToFire, IsArmed, At
  <2>2. \A b \in Alerts : b # a /\ InHand(b) => InHand(b)'
    BY <1>6, <2>1 DEF InHand, Busy
  <2>3. InHand(a) => ~Crossed(a, task.tick)
    BY <2>1 DEF InHand
  <2> QED BY <1>1, <1>2, <1>6, <2>1, <2>2, <2>3, EngineMinded DEF Busy
<1>12. ASSUME NEW a \in Alerts, ReadToArm(a) PROVE MissInv'
  <2>1. /\ task.pc = "scan" /\ scan.todo # {} /\ a = Current /\ a \notin scan.armed
        /\ ~Crossed(a, task.tick) /\ faults' = faults /\ alert' = alert
        /\ (Go("arm") /\ scan' = scan) \/ NextAlert
    BY <1>12 DEF ReadToArm, Evaluating, ToArm, IsArmed, At
  <2>2. CASE NextAlert
    <3>1. \A b \in Alerts : b # a /\ InHand(b) => InHand(b)'
      BY <1>6, <2>1, <2>2 DEF InHand, Busy
    <3>2. task'.pc = "scan"
      BY <1>6, <2>2
    <3> QED BY <1>1, <1>2, <1>6, <2>1, <2>2, <3>1, <3>2, EngineMinded DEF Busy
  <2>3. CASE Go("arm") /\ scan' = scan
    <3>1. task'.pc = "arm" /\ task'.instrument = task.instrument /\ task'.tick = task.tick
      BY <1>5, <2>3 DEF Busy
    <3>2. Current' = Current
      BY <2>3 DEF Current
    <3>3. \A b \in Alerts : InHand(b) => InHand(b)'
      BY <2>1, <2>3, <3>1 DEF InHand, Busy
    <3> QED BY <1>1, <1>2, <2>1, <2>3, <3>1, <3>2, <3>3, EngineMinded DEF Busy
  <2> QED BY <2>1, <2>2, <2>3
<1>13. ASSUME NEW a \in Alerts, Deliver(a) PROVE MissInv'
  <2>1. /\ task.pc = "scan" /\ faults' = faults /\ alert' = alert /\ Go("fire") /\ scan' = scan
    BY <1>13 DEF Deliver, Evaluating, ToFire, At
  <2>2. task'.pc = "fire" /\ task'.instrument = task.instrument /\ task'.tick = task.tick
    BY <1>5, <2>1 DEF Busy
  <2>3. \A b \in Alerts : InHand(b) => InHand(b)'
    BY <2>1, <2>2 DEF InHand, Busy
  <2> QED BY <1>1, <1>2, <2>1, <2>2, <2>3, EngineMinded DEF Busy
<1>14. ASSUME NEW a \in Alerts, DeliverFails(a) \/ MarkReadFails(a) PROVE MissInv'
  <2>1. task.pc \in {"scan", "fire"} /\ faults' # 0 /\ faults' >= faults /\ alert' = alert /\ NextAlert
    BY <1>3, <1>14 DEF DeliverFails, MarkReadFails, ToArm, ToFire, Evaluating, At
  <2> QED BY <1>1, <1>2, <1>6, <2>1, EngineMinded DEF Busy
<1>15. CASE MarkArmed
  <2>1. /\ task.pc = "arm" /\ faults' = faults /\ NextAlert
        /\ alert' = [alert EXCEPT ![Current] = [status |-> "PENDING", armed |-> TRUE]]
    BY <1>15 DEF MarkArmed, At, Upsert
  <2>2. ~Crossed(Current, task.tick) /\ scan.todo # {}
    BY <2>1 DEF MissInv, Fresh, AlertInv, AlertsTyped
  <2>3. \A b \in Alerts : b # Current => alert'[b] = alert[b]
    BY <1>1, <2>1
  <2>4. \A b \in Alerts : b # Current /\ InHand(b) => InHand(b)'
    BY <1>6, <2>1 DEF InHand, Busy
  <2>5. AlertSpec[Current].instrument = task.instrument
    BY <1>7, <2>1, <2>2 DEF MissInv, Fresh, Busy
  <2>6. \A b \in Alerts : alert'[b] = Armed /\ AlertSpec[b].instrument # task.instrument => alert[b] = Armed
    BY <2>3, <2>5
  <2>7. \A b \in Alerts : alert'[b] = Armed =>
               \/ alert[b] = Armed /\ InHand(b)'
               \/ alert[b] = Armed /\ ~InHand(b)
               \/ ~Crossed(b, task.tick)
    BY <2>2, <2>3, <2>4
  <2> QED BY <1>1, <1>2, <1>6, <2>1, <2>6, <2>7, EngineMinded DEF Busy
<1>16. CASE MarkFired
  <2>1. /\ task.pc = "fire" /\ faults' = faults /\ NextAlert
        /\ alert' = [alert EXCEPT ![Current] = [status |-> "FIRED", armed |-> FALSE]]
    BY <1>16 DEF MarkFired, At, Upsert
  <2>2. scan.todo # {}
    BY <2>1 DEF AlertInv, AlertsTyped
  <2>3. /\ \A b \in Alerts : b # Current => alert'[b] = alert[b]
        /\ alert'[Current].armed = FALSE
    BY <1>1, <1>7, <2>1, <2>2
  <2>4. \A b \in Alerts : alert'[b] = Armed => b # Current
    BY <2>3 DEF Armed
  <2>5. \A b \in Alerts : b # Current /\ InHand(b) => InHand(b)'
    BY <1>6, <2>1 DEF InHand, Busy
  <2>6. \A b \in Alerts : alert'[b] = Armed => alert[b] = Armed /\ (InHand(b) => InHand(b)')
    BY <2>3, <2>4, <2>5
  <2> QED BY <1>1, <1>2, <1>6, <2>1, <2>6, EngineMinded DEF Busy
<1>17. CASE MarkWriteFails
  <2>1. task.pc \in {"arm", "fire"} /\ faults' # 0 /\ faults' >= faults /\ alert' = alert
        /\ task'.pc \notin Busy \cup {"taken"}
    BY <1>3, <1>4, <1>17 DEF MarkWriteFails, At
  <2> QED BY <1>1, <1>2, <2>1, EngineMinded DEF Busy
<1> QED BY <1>8, <1>9, <1>10, <1>11, <1>12, <1>13, <1>14, <1>15, <1>16, <1>17 DEF Evaluate

LEMMA MissStep ==
    QueueInv /\ QueueInv' /\ AlertInv /\ AlertInv' /\ MissInv /\ [Next]_vars => MissInv'
<1> SUFFICES ASSUME QueueInv, QueueInv', AlertInv, AlertInv', MissInv, [Next]_vars PROVE MissInv'
  OBVIOUS
<1>1. CASE \/ Connect \/ Disconnect \/ UNCHANGED vars \/ Get \/ Take
           \/ \E i \in Instruments, p \in 0 .. MaxPrice : Receive(i, p)
  BY <1>1, StreamMinded
<1>2. CASE Evaluate
  BY <1>2, EvaluateMinded
<1>3. ASSUME NEW a \in Alerts, PriceAlertCommand(a) \/ ClearPriceAlertCommand(a) PROVE MissInv'
  <2>1. /\ quote' = quote /\ queued' = queued /\ latest' = latest /\ task' = task /\ scan' = scan /\ faults' = faults
        /\ \E st \in {"PENDING", "CANCELLED"} : alert' = [alert EXCEPT ![a] = [status |-> st, armed |-> FALSE]]
    BY <1>3 DEF PriceAlertCommand, ClearPriceAlertCommand, CancelPriceAlert, Upsert, chatFrame, streamVars, queueVars
  <2>2. \A b \in Alerts : alert'[b] = Armed => alert[b] = Armed
    BY <2>1 DEF AlertInv, AlertsTyped, Armed
  <2>3. Current' = Current
    BY <2>1 DEF Current
  <2>4. Fresh'
    BY <2>1, <2>3 DEF MissInv, Fresh, Crossed
  <2>5. ASSUME NEW b \in Alerts, Minded(b) PROVE Minded(b)'
    <3>1. InHand(b)' <=> InHand(b)
      BY <2>1 DEF InHand
    <3> QED BY <2>1, <2>2, <2>5, <3>1, CrossedSame DEF Minded, Armed
  <2> QED BY <2>1, <2>4, <2>5 DEF MissInv
<1>4. CASE Restart
  <2>1. quote' = [i \in Instruments |-> NoTick] /\ queued' = {} /\ task'.pc = "get"
    BY <1>4 DEF Restart, Volatile, Idle
  <2>2. Fresh'
    BY <2>1 DEF Fresh, Busy
  <2>3. \A a \in Alerts : Minded(a)'
    BY <2>1 DEF Minded
  <2> QED BY <2>2, <2>3 DEF MissInv
<1> QED BY <1>1, <1>2, <1>3, <1>4 DEF Next

(* No crossing is missed: while nothing has failed, once the consumer has  *)
(* nothing left to do the last tick of an instrument leaves no armed alert *)
(* crossed, however ticks are coalesced (_enqueue_latest) and the alerts   *)
(* created, cleared and re-armed meanwhile (evaluate_tick, the chat).      *)
THEOREM NoCrossingIsMissed == Spec => []NoMissedCrossing
<1>1. Init => QueueInv /\ AlertInv
  <2>1. Init => AlertInv
    BY DEF Init, Volatile, AlertInv, AlertsTyped, OnceInv, SafeInv, Nowhere, NoScan, Idle, Spent
  <2> QED BY <2>1, QueueInit
<1>2. Init => MissInv
  <2>1. Init => Fresh
    BY DEF Init, Volatile, Fresh, Idle, Busy
  <2>2. Init => \A a \in Alerts : Minded(a)
    BY DEF Init, Volatile, Minded
  <2> QED BY <2>1, <2>2 DEF MissInv
<1>3. QueueInv /\ MissInv => NoMissedCrossing
  <2> SUFFICES ASSUME QueueInv, MissInv, task.pc = "get", queue = <<>>, faults = 0,
                      NEW a \in Alerts, AlertSpec[a].instrument \in Instruments, alert[a] = Armed,
                      quote[AlertSpec[a].instrument] # NoTick
               PROVE  ~Crossed(a, quote[AlertSpec[a].instrument])
    BY DEF NoMissedCrossing
  <2>1. queued = {}
    BY DEF QueueInv, Counted, Held, ToSet
  <2>2. ~InHand(a)
    BY DEF InHand, Busy
  <2> QED BY <2>1, <2>2 DEF MissInv, Minded
<1> QED BY <1>1, <1>2, <1>3, QueueStep, AlertStep, MissStep, PTL DEF Spec
=============================================================================
