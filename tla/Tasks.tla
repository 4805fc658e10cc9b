------------------------------- MODULE Tasks -------------------------------
(***************************************************************************)
(* Agent tasks: coreai/orchestrator.py (the task store), task_runner.py    *)
(* (a worker and a priority queue per agent), agents/agent_manager.py and  *)
(* autonomous_agent.py (the agents that execute), coreai/kernel.py and the *)
(* handlers of api/routes.py that drive them.                              *)
(*                                                                         *)
(*   store     the orchestrator: the status of each task ("gone" once the  *)
(*             store has pruned it), TaskStore._finished, oldest first,    *)
(*             and the keys of active_tasks                                *)
(*   known     the keys of Orchestrator.agents                             *)
(*   queue     the queue objects made for each agent; qreg is the one in   *)
(*             TaskRunner._queues, 0 when there is none                    *)
(*   worker    the _work() coroutines; wreg is TaskRunner._workers         *)
(*   current   TaskRunner._current: the task whose run can be cancelled    *)
(*   run       the _run() coroutine of each task                           *)
(*   agent     AgentRecord.status, whether the agent's _paused event is    *)
(*             cleared, and the tasks whose prompt is in its context       *)
(*   deleter   requests that terminate an agent                            *)
(*   kernel    KernelState                                                 *)
(*   asked, dropped                                                        *)
(*             history: tasks cancelled through the runner, agents whose   *)
(*             termination was ever requested                              *)
(*                                                                         *)
(* A step of a coroutine is what happens until it is suspended; the agent's *)
(* initialize() and shutdown() await nothing that suspends.  Tasks are      *)
(* numbered in the order in which they are created.  Abstracted: the       *)
(* statistics, the text of prompts, results and errors, the agent's memory *)
(* and the number of messages its context keeps.                           *)
(***************************************************************************)
EXTENDS Integers, FiniteSets, SequencesExt

CONSTANTS
    NTasks,        \* bound: tasks ever created
    Agents,
    Priority,      \* the priority of each task, higher runs first
    Workers,       \* bound: worker coroutines alive at once
    Deleters,      \* bound: requests to terminate an agent
    MaxAgents,     \* MAX_AGENTS
    MaxQueues,     \* bound: queue objects of one agent
    MaxFinished,   \* TaskStore.max_finished
    MaxPauses,     \* bound: pauses
    Nobody

TaskIds == 1..NTasks

ASSUME TasksAssumption ==
    /\ NTasks \in Nat /\ IsFiniteSet(Agents)
    /\ Priority \in [TaskIds -> 0..3]
    /\ MaxAgents \in Nat \ {0} /\ MaxQueues \in Nat \ {0}
    /\ MaxFinished \in Nat \ {0} /\ MaxPauses \in Nat
    /\ Nobody \notin TaskIds \cup Agents \cup Workers

VARIABLES store, target, known, queue, qreg, worker, wreg, current, run, agent,
          deleter, kernel, pauses, asked, dropped

runner == <<queue, qreg, worker, wreg, current>>
history == <<asked, dropped>>
taskVars == <<store, target, known, queue, qreg, worker, wreg, current, run, agent,
          deleter, kernel, pauses, asked, dropped>>

-----------------------------------------------------------------------------
Terminal == {"completed", "failed", "cancelled"}
Unfinished == {"pending", "running"}

\* "new" has not taken its first step, "get" awaits the queue, "wait" awaits
\* its run, "reap" awaits the run it has cancelled.
Worker == [at: {"none", "new", "get", "wait", "reap"}, agent: Agents \cup {Nobody},
           q: 0..MaxQueues, task: TaskIds \cup {Nobody}, stop: BOOLEAN]
NoWorker == [at |-> "none", agent |-> Nobody, q |-> 0, task |-> Nobody, stop |-> FALSE]

\* "hold" waits until the agent is not paused, "call" awaits the model.
Run == [at: {"none", "new", "hold", "call"}, stop: BOOLEAN]
NoRun == [at |-> "none", stop |-> FALSE]

Agent == [status: {"absent", "initializing", "idle", "running", "paused",
                   "failed", "removed"},
          paused: BOOLEAN, context: SUBSET TaskIds]
NoAgent == [status |-> "absent", paused |-> FALSE, context |-> {}]

Deleter == [at: {"ready", "reap", "done"}, agent: Agents \cup {Nobody},
            worker: Workers \cup {Nobody}]

TasksTypeOK ==
    /\ store.task \in [TaskIds -> Terminal \cup Unfinished \cup {"absent", "gone"}]
    /\ ToSet(store.finished) \subseteq TaskIds /\ Len(store.finished) <= MaxFinished
    /\ store.active \subseteq TaskIds
    /\ target \in [TaskIds -> Agents \cup {Nobody}]
    /\ known \subseteq Agents
    /\ qreg \in [Agents -> 0..MaxQueues]
    /\ worker \in [Workers -> Worker]
    /\ wreg \in [Agents -> Workers \cup {Nobody}]
    /\ current \in [Agents -> TaskIds \cup {Nobody}]
    /\ run \in [TaskIds -> Run]
    /\ agent \in [Agents -> Agent]
    /\ deleter \in [Deleters -> Deleter]
    /\ kernel \in {"running", "stopping", "stopped"}

TasksInit ==
    /\ store = [task |-> [t \in TaskIds |-> "absent"], finished |-> << >>, active |-> {}]
    /\ target = [t \in TaskIds |-> Nobody]
    /\ known = {}
    /\ queue = [a \in Agents |-> << >>]
    /\ qreg = [a \in Agents |-> 0]
    /\ worker = [w \in Workers |-> NoWorker]
    /\ wreg = [a \in Agents |-> Nobody]
    /\ current = [a \in Agents |-> Nobody]
    /\ run = [t \in TaskIds |-> NoRun]
    /\ agent = [a \in Agents |-> NoAgent]
    /\ deleter = [d \in Deleters |-> [at |-> "ready", agent |-> Nobody, worker |-> Nobody]]
    /\ kernel = "running"
    /\ pauses = 0
    /\ asked = {} /\ dropped = {}

Status(t) == store.task[t]

\* In AgentManager.agents.
Managed == {a \in Agents : agent[a].status \notin {"absent", "removed"}}

-----------------------------------------------------------------------------
\* The orchestrator

\* move_to_end(): the finished tasks once t is the last of them.
FinishOrder(s, t) == Append(SelectSeq(s.finished, LAMBDA u : u # t), t)

\* _prune() after t has finished: at most MaxFinished finished tasks stay.
Pruned(s, t) ==
    LET order == FinishOrder(s, t)
    IN  IF Len(order) <= MaxFinished THEN [s EXCEPT !.finished = order]
        ELSE [s EXCEPT !.finished = Tail(order), !.task[Head(order)] = "gone"]

\* complete_task(), fail_task(), cancel_task().
Finished(s, t, status) ==
    Pruned([s EXCEPT !.task[t] = status, !.active = @ \ {t}], t)

\* cancel_task(): nothing happens for a task that is not in the store.
Cancelled(s, t) ==
    IF s.task[t] \in {"absent", "gone"} THEN s ELSE Finished(s, t, "cancelled")

\* cancel_task() of the tasks of S, in the order of their creation.
CancelledAll(s, S) ==
    LET upTo[n \in 0..NTasks] ==
            IF n = 0 THEN s
            ELSE IF n \in S THEN Cancelled(upTo[n - 1], n) ELSE upTo[n - 1]
    IN  upTo[NTasks]

\* assign_task() and TaskStore.create().
Assigned(s, t) == [s EXCEPT !.task[t] = "pending", !.active = @ \cup {t}]

\* start_task() does not look at the status it overwrites.
Started(s, t) == [s EXCEPT !.task[t] = "running"]

\* unregister_agent(), once the runner has let go of the agent.
Unregister(s, a) == CancelledAll(s, {t \in s.active : target[t] = a})

-----------------------------------------------------------------------------
\* The task runner

\* Mutant: every task gets a worker of its own.
WorkerDoneAlways(w) == TRUE

WorkerDone(w) == IF w = Nobody THEN TRUE ELSE worker[w].at = "none"

\* submit(): the task joins the queue of its agent, which gets a queue and a
\* worker when it has none.
Submit(t, a) ==
    LET fresh == qreg[a] = 0
        n == IF fresh THEN Len(queue[a]) + 1 ELSE qreg[a]
    IN  /\ n <= MaxQueues
        /\ queue' = IF fresh THEN [queue EXCEPT ![a] = Append(@, <<t>>)]
                    ELSE [queue EXCEPT ![a][n] = Append(@, t)]
        /\ qreg' = [qreg EXCEPT ![a] = n]
        /\ IF WorkerDone(wreg[a])
           THEN \E w \in Workers :
                  /\ worker[w].at = "none" /\ \A d \in Deleters : deleter[d].worker # w
                  /\ \A b \in Agents \ {a} : wreg[b] # w
                  /\ worker' = [worker EXCEPT ![w] =
                                    [NoWorker EXCEPT !.at = "new", !.agent = a]]
                  /\ wreg' = [wreg EXCEPT ![a] = w]
           ELSE UNCHANGED <<worker, wreg>>
        /\ UNCHANGED current

\* Mutant: a task cancelled while it is queued is run all the same.
RunnableAnyway(t) == Status(t) # "gone"

\* "cancelled while queued" is skipped.
Runnable(t) == Status(t) = "pending"

\* The place in a queue of the task that comes out of it.
Best(q) ==
    CHOOSE i \in DOMAIN q : \A j \in DOMAIN q \ {i} :
        \/ Priority[q[i]] > Priority[q[j]]
        \/ (Priority[q[i]] = Priority[q[j]] /\ i < j)

\* The first step: the queue is looked up once and for all.
WorkerBegins(w) ==
    LET k == worker[w]
    IN  /\ k.at = "new"
        /\ worker' = [worker EXCEPT ![w] =
                IF k.stop \/ qreg[k.agent] = 0 THEN NoWorker
                ELSE [k EXCEPT !.at = "get", !.q = qreg[k.agent]]]
        /\ UNCHANGED <<store, target, known, queue, qreg, wreg, current, run, agent,
                       deleter, kernel, pauses, history>>

\* The next task of the queue gets a run, unless it is no longer pending.
WorkerTakes(w) ==
    LET k == worker[w]
        q == queue[k.agent][k.q]
        t == q[Best(q)]
    IN  /\ k.at = "get" /\ ~k.stop /\ q # << >>
        /\ queue' = [queue EXCEPT ![k.agent][k.q] = RemoveAt(q, Best(q))]
        /\ IF Runnable(t)
           THEN /\ run' = [run EXCEPT ![t].at = "new"]
                /\ current' = [current EXCEPT ![k.agent] = t]
                /\ worker' = [worker EXCEPT ![w].at = "wait", ![w].task = t]
           ELSE UNCHANGED <<run, current, worker>>
        /\ UNCHANGED <<store, target, known, qreg, wreg, agent, deleter, kernel,
                       pauses, history>>

\* A cancelled worker ends, after the run it waits for.
WorkerStops(w) ==
    LET k == worker[w]
    IN  /\ k.stop
        /\ \/ /\ k.at = "get"
              /\ worker' = [worker EXCEPT ![w] = NoWorker]
              /\ UNCHANGED run
           \/ /\ k.at = "wait"
              /\ worker' = [worker EXCEPT ![w].at = "reap"]
              /\ run' = IF run[k.task].at = "none" THEN run
                        ELSE [run EXCEPT ![k.task].stop = TRUE]
        /\ UNCHANGED <<store, target, known, queue, qreg, wreg, current, agent,
                       deleter, kernel, pauses, history>>

\* The run is over.  What is dropped from _current is whatever is there.
WorkerReaps(w) ==
    LET k == worker[w]
    IN  /\ k.at = "reap" \/ (k.at = "wait" /\ ~k.stop)
        /\ run[k.task].at = "none"
        /\ current' = [current EXCEPT ![k.agent] = Nobody]
        /\ worker' = [worker EXCEPT ![w] =
                IF k.at = "reap" THEN NoWorker ELSE [k EXCEPT !.at = "get", !.task = Nobody]]
        /\ UNCHANGED <<store, target, known, queue, qreg, wreg, run, agent, deleter,
                       kernel, pauses, history>>

\* cur[1].cancel(), for those of ts that are the current task of their agent.
StoppedCurrent(R, ts) ==
    [t \in TaskIds |-> IF t \in ts /\ current[target[t]] = t /\ R[t].at # "none"
                       THEN [R[t] EXCEPT !.stop = TRUE] ELSE R[t]]

\* cancel() of those of ts that are pending or running, one after the other.
Live(ts) == {t \in ts : Status(t) \in Unfinished}

RunnerCancels(ts) ==
    /\ store' = CancelledAll(store, Live(ts))
    /\ run' = StoppedCurrent(run, Live(ts))
    /\ asked' = asked \cup Live(ts)

-----------------------------------------------------------------------------
\* The _run() coroutine of a task, with dispatch_task() and execute()

\* The `except` clauses of dispatch_task() and its normal end all set IDLE.
Undispatched(a) ==
    IF agent[a].status = "removed" THEN agent
    ELSE [agent EXCEPT ![a].status = "idle"]

\* Mutant: only the failure of a task that has not begun is recorded.
RunFailsSilently(t) ==
    /\ store' = IF Status(t) = "running" THEN store ELSE Finished(store, t, "failed")
    /\ run' = [run EXCEPT ![t] = NoRun]

\* _fail(): unless the task has ended in the meantime.
RunFails(t) ==
    /\ store' = IF Status(t) \in Unfinished THEN Finished(store, t, "failed") ELSE store
    /\ run' = [run EXCEPT ![t] = NoRun]

\* The first step: up to the wait for an agent that is not paused.
RunBegins(t) ==
    LET a == target[t]
    IN  /\ run[t].at = "new" /\ ~run[t].stop
        /\ \/ /\ Status(t) = "gone" \/ a \notin Managed
              /\ RunFails(t)
              /\ UNCHANGED agent
           \/ /\ Status(t) # "gone" /\ a \in Managed
              /\ agent[a].status \notin {"idle", "running"}
              /\ store' = Finished(Started(store, t), t, "failed")
              /\ run' = [run EXCEPT ![t] = NoRun]
              /\ UNCHANGED agent
           \/ /\ Status(t) # "gone" /\ a \in Managed
              /\ agent[a].status \in {"idle", "running"}
              /\ store' = Started(store, t)
              /\ run' = [run EXCEPT ![t].at = "hold"]
              /\ agent' = [agent EXCEPT ![a].status = "running"]
        /\ UNCHANGED <<target, known, runner, deleter, kernel, pauses, history>>

\* The agent is not paused: the prompt joins the context and the model is asked.
RunAsks(t) ==
    LET a == target[t]
    IN  /\ run[t].at = "hold" /\ ~run[t].stop /\ ~agent[a].paused
        /\ agent' = [agent EXCEPT ![a].context = @ \cup {t}]
        /\ run' = [run EXCEPT ![t].at = "call"]
        /\ UNCHANGED <<store, target, known, runner, deleter, kernel, pauses, history>>

\* complete_task(), if the task is still running.
AnsweredIn(t) ==
    IF Status(t) = "running" THEN Finished(store, t, "completed") ELSE store

\* kernel.complete() returns, and every reply is final.
RunCompletes(t) ==
    /\ run[t].at = "call" /\ ~run[t].stop
    /\ store' = AnsweredIn(t)
    /\ run' = [run EXCEPT ![t] = NoRun]
    /\ agent' = Undispatched(target[t])
    /\ UNCHANGED <<target, known, runner, deleter, kernel, pauses, history>>

\* execute() raises, or the task times out.
RunErrs(t) ==
    /\ run[t].at \in {"hold", "call"} /\ ~run[t].stop
    /\ RunFails(t)
    /\ agent' = Undispatched(target[t])
    /\ UNCHANGED <<target, known, runner, deleter, kernel, pauses, history>>

\* A cancelled run ends; one that had not begun never reaches the agent.
RunStops(t) ==
    /\ run[t].stop
    /\ run' = [run EXCEPT ![t] = NoRun]
    /\ agent' = IF run[t].at = "new" THEN agent ELSE Undispatched(target[t])
    /\ UNCHANGED <<store, target, known, runner, deleter, kernel, pauses, history>>

-----------------------------------------------------------------------------
\* Agents

\* warm_up() and ping().
KernelUp == kernel = "running"

\* initialize() and the status spawn_agent() gives the agent after it.
StatusInitialized == IF KernelUp THEN "idle" ELSE "failed"

\* register_agent: spawn_agent(), and Orchestrator.register_agent() if it
\* succeeds.  A failed agent stays.
SpawnAgent(a) ==
    /\ agent[a].status = "absent" /\ Cardinality(Managed) < MaxAgents
    /\ agent' = [agent EXCEPT ![a].status = StatusInitialized]
    /\ known' = IF KernelUp THEN known \cup {a} ELSE known
    /\ UNCHANGED <<store, target, runner, run, deleter, kernel, pauses, history>>

PauseAgent(a) ==
    /\ a \in Managed /\ pauses < MaxPauses
    /\ agent' = [agent EXCEPT ![a].status = "paused", ![a].paused = TRUE]
    /\ pauses' = pauses + 1
    /\ UNCHANGED <<store, target, known, runner, run, deleter, kernel, history>>

ResumeAgent(a) ==
    /\ a \in Managed /\ agent[a].paused
    /\ agent' = [agent EXCEPT ![a].status = "idle", ![a].paused = FALSE]
    /\ UNCHANGED <<store, target, known, runner, run, deleter, kernel, pauses, history>>

\* In-flight execute() calls of the agent: AutonomousAgent._active.
Executing(a) == {t \in TaskIds : target[t] = a /\ run[t].at \in {"hold", "call"}}

\* Mutant: idleness alone clears the context.
IdleLongAny(a) == TRUE

\* "Never wipe the context under a task that is still executing."
IdleLong(a) == Executing(a) = {}

\* _restart_agent(): shutdown() clears the context, tasks or not, and as the
\* kernel is not running initialize() fails.
Restarted(g) == [g EXCEPT !.context = {}, !.status = "initializing"]

\* _check_all_agents(), for one agent: the context of an agent that has long
\* been idle is cleared, and an agent whose ping fails is restarted.
HealthCheck(a) ==
    /\ a \in Managed
    /\ \/ /\ KernelUp /\ IdleLong(a)
          /\ agent' = [agent EXCEPT ![a].context = {}]
       \/ /\ ~KernelUp
          /\ agent' = [agent EXCEPT ![a] = Restarted(@)]
    /\ UNCHANGED <<store, target, known, runner, run, deleter, kernel, pauses, history>>

-----------------------------------------------------------------------------
\* The API

NextTask == CHOOSE t \in TaskIds : /\ Status(t) = "absent"
                                   /\ \A u \in 1..(t - 1) : Status(u) # "absent"

\* create_task, for an agent the manager has.
CreateTask(a) ==
    LET t == NextTask
    IN  /\ \E u \in TaskIds : Status(u) = "absent"
        /\ a \in Managed
        /\ known' = known \cup {a}
        /\ store' = Assigned(store, t)
        /\ target' = [target EXCEPT ![t] = a]
        /\ Submit(t, a)
        /\ UNCHANGED <<run, agent, deleter, kernel, pauses, history>>

\* cancel_task
CancelTask(t) ==
    /\ Status(t) \in Unfinished
    /\ RunnerCancels({t})
    /\ UNCHANGED <<target, known, runner, agent, deleter, kernel, pauses, dropped>>

\* The end of drop_agent() and the manager's terminate_agent(): the queue goes,
\* the agent is unregistered, shut down and forgotten.
LetGo(d, a, s) ==
    /\ qreg' = [qreg EXCEPT ![a] = 0]
    /\ store' = Unregister(s, a)
    /\ known' = known \ {a}
    /\ agent' = [agent EXCEPT ![a] = [NoAgent EXCEPT !.status = "removed",
                                                    !.paused = agent[a].paused]]
    /\ deleter' = [deleter EXCEPT ![d] = [at |-> "done", agent |-> a, worker |-> Nobody]]

\* terminate_agent: drop_agent() cancels the agent's tasks and its worker, and
\* waits for the worker if there is one.
DeleteAgent(d, a) ==
    LET w == wreg[a]
        ts == {t \in TaskIds : target[t] = a}
    IN  /\ deleter[d].at = "ready" /\ agent[a].status # "absent"
        /\ \/ /\ w = Nobody
              /\ LetGo(d, a, CancelledAll(store, Live(ts)))
              /\ run' = StoppedCurrent(run, Live(ts))
              /\ asked' = asked \cup Live(ts)
              /\ UNCHANGED <<worker, wreg>>
           \/ /\ w # Nobody
              /\ RunnerCancels(ts)
              /\ wreg' = [wreg EXCEPT ![a] = Nobody]
              /\ worker' = IF WorkerDone(w) THEN worker
                           ELSE [worker EXCEPT ![w].stop = TRUE]
              /\ deleter' = [deleter EXCEPT ![d] =
                                [at |-> "reap", agent |-> a, worker |-> w]]
              /\ UNCHANGED <<qreg, known, agent>>
        /\ dropped' = dropped \cup {a}
        /\ UNCHANGED <<target, queue, current, kernel, pauses>>

WorkerReaped(d) ==
    /\ deleter[d].at = "reap" /\ WorkerDone(deleter[d].worker)
    /\ LetGo(d, deleter[d].agent, store)
    /\ UNCHANGED <<target, queue, worker, wreg, current, run, kernel, pauses, history>>

-----------------------------------------------------------------------------
\* The kernel

PendingAt(n) == {t \in TaskIds : Status(t) = "pending" /\ Priority[t] = n}

\* stop() cancels what is pending in the store, the most urgent first, without
\* telling the runner.
StopKernel ==
    /\ kernel = "running"
    /\ kernel' = "stopping"
    /\ store' = CancelledAll(CancelledAll(CancelledAll(CancelledAll(store,
                    PendingAt(3)), PendingAt(2)), PendingAt(1)), PendingAt(0))
    /\ UNCHANGED <<target, known, runner, run, agent, deleter, pauses, history>>

\* The scheduler and the memory manager have stopped.
KernelStopped ==
    /\ kernel = "stopping"
    /\ kernel' = "stopped"
    /\ UNCHANGED <<store, target, known, runner, run, agent, deleter, pauses, history>>

-----------------------------------------------------------------------------
TasksNext ==
    \/ \E w \in Workers : \/ WorkerBegins(w) \/ WorkerTakes(w)
                          \/ WorkerStops(w) \/ WorkerReaps(w)
    \/ \E t \in TaskIds : \/ RunBegins(t) \/ RunAsks(t) \/ RunCompletes(t)
                          \/ RunErrs(t) \/ RunStops(t) \/ CancelTask(t)
    \/ \E a \in Agents : \/ SpawnAgent(a) \/ PauseAgent(a)
                         \/ ResumeAgent(a) \/ HealthCheck(a) \/ CreateTask(a)
    \/ \E d \in Deleters : \/ \E a \in Agents : DeleteAgent(d, a)
                           \/ WorkerReaped(d)
    \/ StopKernel \/ KernelStopped

TasksSpec == TasksInit /\ [][TasksNext]_taskVars

\* The event loop runs every coroutine that can go on, and the timeout of a
\* task ends its execution if nothing else does.
TasksFairness ==
    /\ \A w \in Workers :
          WF_taskVars(WorkerBegins(w) \/ WorkerTakes(w) \/ WorkerStops(w) \/ WorkerReaps(w))
    /\ \A t \in TaskIds :
          WF_taskVars(RunBegins(t) \/ RunCompletes(t) \/ RunErrs(t) \/ RunStops(t))

TasksFairSpec == TasksSpec /\ TasksFairness

-----------------------------------------------------------------------------
\* The run of t has been cancelled, or the worker that passes it on has.
ToldToStop(t) == run[t].stop \/ \E w \in Workers : worker[w].task = t /\ worker[w].stop

\* An agent "runs one task at a time, because an agent keeps a single
\* conversation context" (task_runner.py): whatever is submitted, cancelled,
\* dropped or shut down, no two runs of an agent execute unless one has been told
\* to stop.
OneAtATime ==
    \A t, u \in TaskIds :
        /\ run[t].at \in {"hold", "call"} /\ ~ToldToStop(t)
        /\ run[u].at \in {"hold", "call"} /\ ~ToldToStop(u)
        /\ target[t] = target[u]
        => t = u

\* A task that its caller has cancelled through the runner is over, as long as
\* nobody terminates its agent: neither a queue that still holds it, nor a run
\* that has not begun or whose answer is on its way, changes it again.
CancelSticks ==
    [][\A t \in asked : \/ Status(t)' \in {Status(t), "gone"}
                        \/ target[t] \in dropped]_taskVars

\* While the kernel runs and nobody terminates its agent, a task that awaits
\* the model has its prompt in the agent's context: the idle clean-up of the
\* health monitor never gets between the two.
PromptKept ==
    \A t \in TaskIds :
        run[t].at = "call" /\ kernel = "running" /\ target[t] \notin dropped
        => t \in agent[target[t]].context

\* An agent's context is that of the one task it works on.
OneConversation == OneAtATime /\ PromptKept

\* A task of an agent that nobody terminates ends: it is run, fails or is
\* cancelled, also when the agent is paused or only looks idle.
TasksEnd ==
    \A t \in TaskIds :
        Status(t) \in Unfinished
        ~> Status(t) \in Terminal \cup {"gone"} \/ target[t] \in dropped
=============================================================================
