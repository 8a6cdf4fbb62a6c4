----------------------------- MODULE PriceStream -----------------------------
(***************************************************************************)
(* The live-price runtime of the bot in .worktrees/scan-force: the stream  *)
(* that feeds a coalescing queue (background/stream_task.py), the price    *)
(* alert engine that consumes it in a worker thread, the alert table it    *)
(* reads and writes (data/persistence/trade_store.py) and the chat         *)
(* commands that create and clear alerts meanwhile (bot/bot.py).           *)
(*                                                                         *)
(* Every operation of the store holds its lock, so it is one step; a       *)
(* read-modify-write of an alert is two, and the chat and the engine       *)
(* interleave between them.  Prices are pips above a base.  Back-off       *)
(* delays and health reports are left out, and so is the second queue: the *)
(* same code feeding ExcursionTracker, which is a module of its own.       *)
(***************************************************************************)
EXTENDS Integers, Sequences, FiniteSets, SequencesExt, FiniteSetsExt

CONSTANTS
    Instruments,   \* settings.stream_instruments
    AlertSpec,     \* alert id -> [instrument, above, target]
    QueueMax,      \* queue_maxsize as the constructor resolves it
    MaxPrice,      \* bound: the bid is 0 .. MaxPrice
    Spread,        \* ask - bid
    MaxTicks,      \* bound on the ticks of a behaviour
    MaxFaults,     \* bound on failed reads, writes and deliveries
    MaxRestarts    \* bound on restarts of the bot

Alerts == DOMAIN AlertSpec
NoTick == [instrument |-> "none", bid |-> 0]

\* PriceStreamTask raises the size it is given to the number of instruments.
ASSUME QueueHoldsEveryInstrument ==
    QueueMax \in Nat /\ QueueMax >= Cardinality(Instruments)

ASSUME NamesAndIds ==
    /\ IsFiniteSet(Instruments) /\ "none" \notin Instruments
    /\ Alerts \subseteq Nat

VARIABLES
    up,        \* the stream is open
    ticks,     \* ticks received so far
    quote,     \* instrument -> latest tick received (_latest_ticks)
    queue,     \* the asyncio.Queue of instruments
    queued,    \* queued_instruments
    latest,    \* instrument -> latest_by_instrument
    task,      \* the consumer: [pc, instrument, tick]
    scan,      \* its loop over the alerts: [todo, armed]
    alert,     \* alert id -> [status, armed], the stored record
    sent,      \* alert -> notifications delivered (history)
    safe,      \* alerts seen on the side that does not trigger (history)
    faults, restarts

streamVars == <<up, ticks, quote>>
queueVars  == <<queue, queued, latest, task>>
alertVars  == <<alert, scan, sent, safe>>
vars == <<streamVars, queueVars, alertVars, faults, restarts>>

Idle    == [pc |-> "get", instrument |-> "none", tick |-> NoTick]
NoScan  == [todo |-> {}, armed |-> {}]
Nowhere == [status |-> "NONE", armed |-> FALSE]
Armed   == [status |-> "PENDING", armed |-> TRUE]

\* What a (re)started process knows before the first tick.
Volatile(u, qt, q, qd, l, t, s) ==
    /\ u = FALSE
    /\ qt = [i \in Instruments |-> NoTick]
    /\ q = <<>>
    /\ qd = {}
    /\ l = [i \in Instruments |-> NoTick]
    /\ t = Idle
    /\ s = NoScan

Init ==
    /\ Volatile(up, quote, queue, queued, latest, task, scan)
    /\ ticks = 0
    /\ alert = [a \in Alerts |-> Nowhere]
    /\ sent = [a \in Alerts |-> 0]
    /\ safe = {}
    /\ faults = 0 /\ restarts = 0

\* upsert_price_alert: one record, written under the lock.
Upsert(a, status, armed) ==
    alert' = [alert EXCEPT ![a] = [status |-> status, armed |-> armed]]

Fault == faults < MaxFaults /\ faults' = faults + 1

-----------------------------------------------------------------------------
(* The producer: _run_stream and OandaStreamClient.stream_prices. *)

Connect ==
    /\ ~up
    /\ up' = TRUE
    /\ UNCHANGED <<ticks, quote, queueVars, alertVars, faults, restarts>>

\* The stream ends, or a payload or the connection raises: sleep and reconnect.
Disconnect ==
    /\ up
    /\ up' = FALSE
    /\ UNCHANGED <<ticks, quote, queueVars, alertVars, faults, restarts>>

\* (mutant) An instrument is queued once per tick.
EnqueueAlways(i, tick) ==
    /\ latest' = [latest EXCEPT ![i] = tick]
    /\ queue'  = IF Len(queue) < QueueMax THEN Append(queue, i) ELSE queue
    /\ queued' = queued \union {i}

\* (mutant) A tick that finds its instrument queued is dropped.
EnqueueOldest(i, tick) ==
    IF i \in queued
      THEN UNCHANGED <<queue, queued, latest>>
      ELSE /\ latest' = [latest EXCEPT ![i] = tick]
           /\ queue'  = Append(queue, i)
           /\ queued' = queued \union {i}

\* A queued instrument only has its tick replaced; one that finds the queue
\* full loses it.
EnqueueLatest(i, tick) ==
    LET room == Len(queue) < QueueMax IN
    IF i \in queued
      THEN latest' = [latest EXCEPT ![i] = tick] /\ UNCHANGED <<queue, queued>>
      ELSE /\ latest' = [latest EXCEPT ![i] = IF room THEN tick ELSE NoTick]
           /\ queue'  = IF room THEN Append(queue, i) ELSE queue
           /\ queued' = IF room THEN queued \union {i} ELSE queued

Receive(i, p) ==
    /\ up /\ ticks < MaxTicks
    /\ ticks' = ticks + 1
    /\ LET tick == [instrument |-> i, bid |-> p]
       IN  quote' = [quote EXCEPT ![i] = tick] /\ EnqueueLatest(i, tick)
    /\ UNCHANGED <<up, task, alertVars, faults, restarts>>

-----------------------------------------------------------------------------
(* The consumer: _run_consumer. *)

\* queue.get() hands over the head; the loop resumes later.
Get ==
    /\ task.pc = "get" /\ queue # <<>>
    /\ task' = [Idle EXCEPT !.pc = "got", !.instrument = Head(queue)]
    /\ queue' = Tail(queue)
    /\ UNCHANGED <<streamVars, queued, latest, alertVars, faults, restarts>>

\* (mutant) The instrument stays in queued_instruments.
TakeOnly ==
    LET i == task.instrument IN
    /\ task.pc = "got"
    /\ latest' = [latest EXCEPT ![i] = NoTick]
    /\ task' = IF latest[i] = NoTick THEN Idle
               ELSE [pc |-> "taken", instrument |-> i, tick |-> latest[i]]
    /\ UNCHANGED <<streamVars, queue, queued, alertVars, faults, restarts>>

\* The instrument leaves queued_instruments before its tick is handled.
Take ==
    LET i == task.instrument IN
    /\ task.pc = "got"
    /\ queued' = queued \ {i}
    /\ latest' = [latest EXCEPT ![i] = NoTick]
    /\ task' = IF latest[i] = NoTick THEN Idle
               ELSE [pc |-> "taken", instrument |-> i, tick |-> latest[i]]
    /\ UNCHANGED <<streamVars, queue, alertVars, faults, restarts>>

-----------------------------------------------------------------------------
(* PriceAlertEngine.evaluate_tick, run in a worker thread. *)

engineFrame == <<streamVars, queue, queued, latest, restarts>>

Crossed(a, tick) ==
    IF AlertSpec[a].above THEN tick.bid + Spread >= AlertSpec[a].target
                          ELSE tick.bid <= AlertSpec[a].target

At(pc)    == task.pc = pc
Go(pc)    == task' = [task EXCEPT !.pc = pc]
Leave     == task' = Idle /\ scan' = NoScan
Current   == Min(scan.todo)
NextAlert == Go("scan") /\ scan' = [scan EXCEPT !.todo = @ \ {Current}]

\* list_pending_price_alerts: the records as they are now, by id.
ListPending ==
    /\ At("taken")
    /\ scan' = [todo  |-> {a \in Alerts : alert[a].status = "PENDING"
                                          /\ AlertSpec[a].instrument = task.instrument},
                armed |-> {a \in Alerts : alert[a].armed}]
    /\ Go("scan")
    /\ UNCHANGED <<engineFrame, alert, sent, safe, faults>>

\* A failed read is an empty list.
ListPendingFails ==
    /\ At("taken") /\ Fault /\ Leave
    /\ UNCHANGED <<engineFrame, alert, sent, safe>>

EvaluateDone ==
    /\ At("scan") /\ scan.todo = {} /\ Leave
    /\ UNCHANGED <<engineFrame, alert, sent, safe, faults>>

Evaluating(a) == At("scan") /\ scan.todo # {} /\ a = Current
IsArmed(a)    == a \in scan.armed
ToArm(a)      == Evaluating(a) /\ ~IsArmed(a) /\ ~Crossed(a, task.tick)
ToFireAny(a)  == Evaluating(a) /\ Crossed(a, task.tick) \* (mutant)
ToFire(a)     == Evaluating(a) /\ IsArmed(a) /\ Crossed(a, task.tick)

\* Armed and not crossed, or crossed and not armed: nothing to do.
Pass(a) ==
    /\ Evaluating(a) /\ ~ToArm(a) /\ ~ToFire(a)
    /\ NextAlert
    /\ UNCHANGED <<engineFrame, alert, sent, safe, faults>>

\* mark_price_alert_armed reads the alert and returns unless it is pending
\* and not armed ...
ReadToArm(a) ==
    /\ ToArm(a)
    /\ safe' = safe \union {a}
    /\ IF alert[a].status = "PENDING" /\ ~alert[a].armed
         THEN Go("arm") /\ UNCHANGED scan
         ELSE NextAlert
    /\ UNCHANGED <<engineFrame, alert, sent, faults>>

\* ... and writes back what it read with armed set.
MarkArmed ==
    /\ At("arm")
    /\ Upsert(Current, "PENDING", TRUE)
    /\ NextAlert
    /\ UNCHANGED <<engineFrame, sent, safe, faults>>

Deliver(a) ==
    /\ ToFire(a)
    /\ sent' = [sent EXCEPT ![a] = @ + 1]
    /\ Go("fire")
    /\ UNCHANGED <<engineFrame, alert, scan, safe, faults>>

\* The message may or may not have gone out; the alert stays armed.
DeliverFails(a) ==
    /\ ToFire(a) /\ Fault
    /\ \E out \in 0 .. 1 : sent' = [sent EXCEPT ![a] = @ + out]
    /\ NextAlert
    /\ UNCHANGED <<engineFrame, alert, safe>>

\* (mutant) Only the time of firing is written.
MarkStamped ==
    /\ At("fire")
    /\ UNCHANGED alert
    /\ NextAlert
    /\ UNCHANGED <<engineFrame, sent, safe, faults>>

\* mark_price_alert_fired: whatever it reads, it writes FIRED and not armed.
MarkFired ==
    /\ At("fire")
    /\ Upsert(Current, "FIRED", FALSE)
    /\ NextAlert
    /\ UNCHANGED <<engineFrame, sent, safe, faults>>

\* A failed read of the alert to mark is None: the loop goes on without marking.
MarkReadFails(a) ==
    /\ ToArm(a) \/ (At("fire") /\ a = Current)
    /\ Fault /\ NextAlert
    /\ UNCHANGED <<engineFrame, alert, sent, safe>>

\* A write that fails raises through evaluate_tick: the tick is given up.
MarkWriteFails ==
    /\ At("arm") \/ At("fire")
    /\ Fault /\ Leave
    /\ UNCHANGED <<engineFrame, alert, sent, safe>>

-----------------------------------------------------------------------------
(* The chat, one command at a time: /pricealert and /clearpricealert. *)

chatFrame == <<streamVars, queueVars, scan, sent, safe, faults, restarts>>

PriceAlertCommand(a) ==
    /\ alert[a] = Nowhere
    /\ Upsert(a, "PENDING", FALSE)
    /\ UNCHANGED chatFrame

\* cancel_price_alert_for_chat writes the alert it finds back cancelled, a
\* fired one too; nothing it writes depends on the status or flag it read.
CancelPriceAlert(a) == alert[a] # Nowhere /\ Upsert(a, "CANCELLED", FALSE)

ClearPriceAlertCommand(a) ==
    /\ CancelPriceAlert(a)
    /\ UNCHANGED chatFrame

\* The process stops anywhere and starts again; the database survives.
Restart ==
    /\ restarts < MaxRestarts
    /\ restarts' = restarts + 1
    /\ Volatile(up', quote', queue', queued', latest', task', scan')
    /\ UNCHANGED <<ticks, alert, sent, safe, faults>>

-----------------------------------------------------------------------------
Evaluate ==
    \/ ListPending \/ ListPendingFails \/ EvaluateDone
    \/ \E a \in Alerts : \/ Pass(a) \/ ReadToArm(a) \/ Deliver(a)
                         \/ DeliverFails(a) \/ MarkReadFails(a)
    \/ MarkArmed \/ MarkFired \/ MarkWriteFails

Next ==
    \/ Connect \/ Disconnect
    \/ \E i \in Instruments, p \in 0 .. MaxPrice : Receive(i, p)
    \/ Get \/ Take \/ Evaluate
    \/ \E a \in Alerts : PriceAlertCommand(a) \/ ClearPriceAlertCommand(a)
    \/ Restart

\* The event loop runs the consumer and the worker thread finishes.
Spec == Init /\ [][Next]_vars /\ WF_vars(Get) /\ WF_vars(Take) /\ WF_vars(Evaluate)

-----------------------------------------------------------------------------
(* Properties. *)

\* An instrument waits in the queue at most once and always with a tick to
\* handle, no tick waits for an instrument that nobody will take from the
\* queue, and the queue has room for every instrument that is not in it, so
\* that no tick is lost to a full one (_enqueue_latest against _run_consumer).
QueueAgrees ==
    LET held == IF task.pc = "got" THEN {task.instrument} ELSE {} IN
    /\ queued = ToSet(queue) \union held
    /\ Cardinality(queued) = Len(queue) + Cardinality(held)
    /\ queued = {i \in Instruments : latest[i] # NoTick}
    /\ queued # Instruments => Len(queue) < QueueMax

\* When the consumer has nothing left to do and nothing has failed, the latest
\* quote of an instrument leaves no armed alert crossed: coalescing may drop a
\* tick, never the last one (evaluate_tick behind _enqueue_latest).
NoMissedCrossing ==
    (task.pc = "get" /\ queue = <<>> /\ faults = 0)
        => \A a \in Alerts :
             LET i == AlertSpec[a].instrument IN
             i \in Instruments /\ alert[a] = Armed /\ quote[i] # NoTick => ~Crossed(a, quote[i])

\* An alert is delivered once, and again only for a failure or a restart
\* between the message and the FIRED record (evaluate_tick).
FiresOnce == \A a \in Alerts : sent[a] <= 1 + faults + restarts

\* No alert is delivered before a tick has shown the price on the side that
\* does not trigger it, restarts included: "Each alert arms only after price
\* is first seen on the non-trigger side" (README).
FiresOnlyAfterSafe == \A a \in Alerts : sent[a] > 0 => a \in safe

\* A waiting tick is taken by the consumer, however many ticks follow it.
EveryTickTaken ==
    \A i \in Instruments : latest[i] # NoTick ~> latest[i] = NoTick

\* A cleared alert stays cleared: "Price alert {id} cleared." (bot.py).
ClearedStays ==
    [][\A a \in Alerts : alert[a].status = "CANCELLED" => alert'[a].status = "CANCELLED"]_vars
=============================================================================
