------------------------------ MODULE Triggers ------------------------------
(***************************************************************************)
(* What starts by itself: the triggers of harness/triggers.py (interval,   *)
(* signed webhook, bus event), the event bus of utils/events.py that feeds *)
(* them, and the budget alerts that watch_budgets() puts on it.            *)
(*                                                                         *)
(* on_bus_event() is a synchronous sink, so an event starts its runs in    *)
(* the step that emits it.  A run is a task that ends in two steps: the    *)
(* runner emits run.finished, and later the task is done.  The budget is   *)
(* that of one subject.  A restart forgets everything but the runs, which  *)
(* HarnessRuntime.start() takes up outside their triggers.                 *)
(***************************************************************************)
EXTENDS Integers, Sequences, FiniteSets, Selections

CONSTANTS
    TriggerNames,
    Kind,           \* of each trigger: "interval", "webhook" or "event"
    Listens,        \* of each trigger: the event it matches
    MaxPerHour,     \* max_per_hour
    Interval,       \* interval_s, in ticks
    Hour,           \* 3600 seconds, in ticks
    FreshFor,       \* 300 seconds, in ticks
    Sinks, Wants,   \* the outward sinks, and the events each lets through
    WarnAt, Cap,    \* warn_cost_usd and max_cost_usd
    Window,         \* window_seconds, in ticks
    Costs,          \* what a request may cost
    MaxSpend,       \* bound: spend in a window
    MaxBoots,       \* bound: restarts
    MaxTrNow        \* bound: ticks

ASSUME TriggersAssumption ==
    /\ MaxPerHour \in Nat /\ Interval \in Nat \ {0} /\ Hour \in Nat \ {0}
    /\ Kind \in [TriggerNames -> {"interval", "webhook", "event"}]
    /\ Costs \subseteq Nat /\ WarnAt \in Nat /\ Cap \in Nat /\ Window \in Nat \ {0}
    /\ MaxBoots \in Nat

VARIABLES
    trNow,
    trig,      \* per trigger: fired and next_at
    tasks,     \* per trigger: how many of its tasks are running, how many of
               \* them have announced their end and are not done
    boots,     \* history: how often the process was started again
    started,   \* history: when each trigger started runs, in each life of the
               \* process
    spend,     \* _Usage of the subject: its window, cost and alerted
    noted,     \* seen[subject] of watch_budgets()
    sent,      \* history: per sink and kind, alerts about the present usage
    look       \* history: whether check() has looked at the present usage, and
               \* the kinds it took then for announced already

trVars == <<trNow, trig, tasks, boots, started, spend, noted, sent, look>>

AlertKinds == {"warning", "exceeded"}

EventOf(kind) == IF kind = "warning" THEN "budget.warning" ELSE "budget.exceeded"

\* Trigger, as TriggerManager.every, webhook and on_event make it.
NewTrigger(t, now) ==
    [fired |-> << >>, nextAt |-> IF Kind[t] = "interval" THEN now + Interval ELSE 0]

NoTasks == [running |-> 0, ended |-> 0]

NewUsage(now) == [win |-> now \div Window, cost |-> 0, alerted |-> {}]

NothingSent == [s \in Sinks |-> [k \in AlertKinds |-> 0]]

NoLook == [done |-> FALSE, carried |-> {}]

TriggersInit ==
    /\ trNow = 0
    /\ trig = [t \in TriggerNames |-> NewTrigger(t, 0)]
    /\ tasks = [t \in TriggerNames |-> NoTasks]
    /\ boots = 0
    /\ started = [t \in TriggerNames |-> [b \in 0..MaxBoots |-> << >>]]
    /\ spend = NewUsage(0)
    /\ noted = [last |-> 0, fired |-> {}]
    /\ sent = NothingSent
    /\ look = NoLook

-----------------------------------------------------------------------------
\* TriggerManager._fire, its first lines: the starts within the last hour.
LastHour(fired) == Picked(fired, {i \in DOMAIN fired : trNow - fired[i] < Hour})

\* The conditions under which _fire() starts a run of t.
MayFire(t) ==
    /\ tasks[t] = NoTasks
    /\ Len(LastHour(trig[t].fired)) < MaxPerHour

\* _fire() for every trigger of S: it starts a run, or only tidies `fired`.
\* `left` are the tasks that the step leaves besides.
Fire(S, left) ==
    LET go == {t \in S : MayFire(t)}
        Now(f, t) == IF t \in go THEN Append(f, trNow) ELSE f
    IN  /\ trig' = [t \in TriggerNames |-> IF t \notin S THEN trig[t] ELSE
              [fired  |-> Now(LastHour(trig[t].fired), t),
               nextAt |-> IF Kind[t] = "interval" THEN trNow + Interval ELSE 0]]
        /\ started' = [t \in TriggerNames |->
              [started[t] EXCEPT ![boots] = Now(started[t][boots], t)]]
        /\ tasks' = [t \in TriggerNames |->
              IF t \in go THEN [left[t] EXCEPT !.running = @ + 1] ELSE left[t]]

\* on_bus_event: the triggers that an event of one of these types fires.
Listening(events) == {t \in TriggerNames : Kind[t] = "event" /\ Listens[t] \in events}

-----------------------------------------------------------------------------
\* TriggerManager.tick: all that is due is fired, and no firing is made up for.
TickTriggers ==
    LET due == {t \in TriggerNames : Kind[t] = "interval" /\ trNow >= trig[t].nextAt}
    IN  /\ due # {}
        /\ Fire(due, tasks)
        /\ UNCHANGED <<trNow, boots, spend, noted, sent, look>>

\* fire_trigger and fire_webhook: a request signed in the last five minutes
\* fires, a second delivery of it too; an older one is refused.
FireWebhook(t, signed) ==
    /\ Kind[t] = "webhook"
    /\ trNow - signed <= FreshFor
    /\ Fire({t}, tasks)
    /\ UNCHANGED <<trNow, boots, spend, noted, sent, look>>

\* _breaker_event, and run.finished of a run that no trigger started.
Announce(event) ==
    /\ Listening({event}) # {}
    /\ Fire(Listening({event}), tasks)
    /\ UNCHANGED <<trNow, boots, spend, noted, sent, look>>

\* HarnessRunner._end in the trigger's own task: run.finished goes out before
\* the task is done, so that a trigger listening for it finds itself running.
RunFinishes(t) ==
    /\ tasks[t].running > 0
    /\ Fire(Listening({"run.finished"}),
            [tasks EXCEPT ![t] = [running |-> @.running - 1, ended |-> @.ended + 1]])
    /\ UNCHANGED <<trNow, boots, spend, noted, sent, look>>

\* TriggerManager._go returns, whatever became of the run: the task is done.
\* A run that waits for an approval returns without run.finished.
GoReturns(t) ==
    /\ tasks[t] # NoTasks
    /\ \/ /\ tasks[t].ended > 0
          /\ tasks' = [tasks EXCEPT ![t].ended = @ - 1]
       \/ /\ tasks[t].running > 0
          /\ tasks' = [tasks EXCEPT ![t].running = @ - 1]
    /\ UNCHANGED <<trNow, trig, boots, started, spend, noted, sent, look>>

-----------------------------------------------------------------------------
\* BudgetManager._current: the usage of the present window.
UsageNow == IF spend.win = trNow \div Window THEN spend ELSE NewUsage(trNow)

\* Mutant: spend that did not go up is taken for a new window.
AlreadyFiredLess(cost) == IF cost <= noted.last THEN {} ELSE noted.fired

\* check() of watch_budgets(): what has been announced, unless spend went down.
AlreadyFired(cost) == IF cost < noted.last THEN {} ELSE noted.fired

\* The alerts that check() finds due at this spend.
DueAlerts(cost) ==
    ((IF cost >= WarnAt THEN {"warning"} ELSE {})
        \union (IF cost >= Cap THEN {"exceeded"} ELSE {})) \ AlreadyFired(cost)

\* EventBus.emit to the outward sinks: each lets its own events through.
SentWith(kinds, before) ==
    [s \in Sinks |-> [k \in AlertKinds |->
        before[s][k] + (IF k \in kinds /\ EventOf(k) \in Wants[s] THEN 1 ELSE 0)]]

SentNow == IF spend.win = trNow \div Window THEN sent ELSE NothingSent

LookNow == IF spend.win = trNow \div Window THEN look ELSE NoLook

\* History: the first look at a usage carries over what was announced about an
\* earlier one, unless spend is seen to have gone down.
LookedAt(cost) ==
    IF LookNow.done THEN LookNow
    ELSE [done |-> TRUE, carried |-> IF cost >= noted.last THEN noted.fired ELSE {}]

\* record() or add_usage(), as watch_budgets() wraps them: the cost is added,
\* on_alert is told, and the alerts go to the bus, triggers included.
RecordSpend(cost) ==
    LET u     == UsageNow
        total == u.cost + cost
        kinds == DueAlerts(total)
    IN  /\ total <= MaxSpend
        /\ spend' = [u EXCEPT !.cost = total,
                              !.alerted = @ \union (IF total >= WarnAt THEN {"warning"} ELSE {})]
        /\ noted' = [last |-> total, fired |-> AlreadyFired(total) \union kinds]
        /\ sent' = SentWith(kinds, SentNow)
        /\ look' = LookedAt(total)
        /\ Fire(Listening({EventOf(k) : k \in kinds}), tasks)
        /\ UNCHANGED <<trNow, boots>>

\* BudgetManager._check() refuses: on_alert is told once in a window.
RefuseSpend ==
    /\ UsageNow.cost >= Cap
    /\ spend' = [UsageNow EXCEPT !.alerted = @ \union {"exceeded"}]
    /\ sent' = SentNow
    /\ look' = LookNow
    /\ UNCHANGED <<trNow, trig, tasks, boots, started, noted>>

\* set_limits and remove_limits, or the subject dropped from a full table: its
\* usage starts anew, of which check() knows nothing.
ResetSpend ==
    /\ spend' = NewUsage(trNow)
    /\ sent' = NothingSent
    /\ look' = NoLook
    /\ UNCHANGED <<trNow, trig, tasks, boots, started, noted>>

-----------------------------------------------------------------------------
TrTick ==
    /\ trNow < MaxTrNow
    /\ trNow' = trNow + 1
    /\ UNCHANGED <<trig, tasks, boots, started, spend, noted, sent, look>>

\* The process is started again: build_triggers and watch_budgets start anew.
RestartTriggers ==
    /\ boots < MaxBoots
    /\ boots' = boots + 1
    /\ trig' = [t \in TriggerNames |-> NewTrigger(t, trNow)]
    /\ tasks' = [t \in TriggerNames |-> NoTasks]
    /\ spend' = NewUsage(trNow)
    /\ noted' = [last |-> 0, fired |-> {}]
    /\ sent' = NothingSent
    /\ look' = NoLook
    /\ UNCHANGED <<trNow, started>>

TriggersNext ==
    \/ TickTriggers \/ TrTick \/ RefuseSpend \/ ResetSpend \/ RestartTriggers
    \/ \E t \in TriggerNames : RunFinishes(t) \/ GoReturns(t)
    \/ \E t \in TriggerNames : \E signed \in 0..trNow : FireWebhook(t, signed)
    \/ \E event \in {"run.finished", "provider.outage"} : Announce(event)
    \/ \E cost \in Costs : RecordSpend(cost)

TriggersSpec == TriggersInit /\ [][TriggersNext]_trVars

-----------------------------------------------------------------------------
\* "Unattended runs spend money": in no hour does a process start more than
\* max_per_hour runs of a trigger, and the trigger never has two tasks at a time,
\* whatever storm of ticks, webhooks and events, its own run.finished among them,
\* meets _fire().  A restart forgets the starts, so that an hour with n restarts
\* in it may see n + 1 times as many: the bound is stated of each life.
TriggersHeld ==
    \A t \in TriggerNames :
        /\ tasks[t].running + tasks[t].ended <= 1
        /\ \A b \in 0..MaxBoots : \A i, j \in DOMAIN started[t][b] :
               (i <= j /\ started[t][b][j] - started[t][b][i] < Hour) => j - i < MaxPerHour

Threshold(kind) == IF kind = "warning" THEN WarnAt ELSE Cap

\* watch_budgets() tells a sink of a warning, or of a cap exceeded, once about a
\* window of usage in which it was reached and not a second time, however the
\* windows and the requests fall; with one exception.  check() recognises a new
\* window only by the spend having gone down: a window whose first look finds it
\* no lower than the last look before is told of nothing that was told before.
AlertsExact ==
    \A s \in Sinks : \A k \in AlertKinds :
        sent[s][k] = IF /\ EventOf(k) \in Wants[s]
                        /\ look.done /\ spend.cost >= Threshold(k)
                        /\ k \notin look.carried
                     THEN 1 ELSE 0

\* What happens with nobody watching is held in bounds: a trigger starts no
\* second task and, in a life of the process, no more than its share of an hour;
\* and a sink is alerted once about a window, or not at all where the window was
\* taken for the one before it.
TriggersSound == TriggersHeld /\ AlertsExact
=============================================================================
