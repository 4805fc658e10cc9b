------------------------------ MODULE Harness ------------------------------
(***************************************************************************)
(* Durable agent runs: harness/store.py (the runs table), runner.py (the   *)
(* tool-use loop), runtime.py (one background task per run) and the        *)
(* handlers of api/runs_api.py that drive them.                            *)
(*                                                                         *)
(*   up      the process is running                                        *)
(*   row     the row of each run in the database, all that survives a      *)
(*           crash; open is the part of its message history that matters   *)
(*           here: the tool calls of the last reply not yet answered       *)
(*   task    the execute() coroutines of each run                          *)
(*   reg     HarnessRuntime.tasks: the coroutine registered for a run      *)
(*   forget  done-callbacks that are scheduled and have not run            *)
(*   requested, approved, ran                                              *)
(*           history: how many tool calls the model has asked for, which   *)
(*           of them a human said yes to, and which were carried out       *)
(*                                                                         *)
(* A coroutine step is what happens between two awaits, or less: where the *)
(* code goes on without an await the model may let others in, which gives  *)
(* requests that arrive there the effect they have one await earlier.      *)
(*                                                                         *)
(* Abstracted: the deadline, cost and token limits (any of them may trip   *)
(* when the loop looks), the stall test (any repetition may count),        *)
(* memories and compaction.  A call needs approval when it is forced by    *)
(* the agent's approval_tools, refused as destructive by the registry, or  *)
(* is the review tool.                                                     *)
(***************************************************************************)
EXTENDS Integers, FiniteSets, SequencesExt

CONSTANTS
    Runs,
    RunTasks,      \* bound: coroutines of one run alive at once
    MaxSteps,      \* max_steps
    MaxCalls,      \* bound: tool calls in one reply
    MaxIssued,     \* bound: tool calls of one run
    MaxStops,      \* bound: crashes and shutdowns
    Guarded,       \* {FALSE}, {TRUE} or both: whether calls need approval
    Controls,      \* the requests made of runs: "pause", "cancel", "kill"
    Graceful,      \* whether the process also shuts down in an orderly way
    Planning,      \* agent.plan
    None

ASSUME HarnessAssumption ==
    /\ IsFiniteSet(Runs) /\ IsFiniteSet(RunTasks) /\ RunTasks # {}
    /\ MaxSteps \in Nat \ {0}
    /\ MaxCalls \in Nat /\ MaxIssued \in Nat /\ MaxStops \in Nat
    /\ Guarded \subseteq BOOLEAN
    /\ Controls \subseteq {"pause", "cancel", "kill"}
    /\ Graceful \in BOOLEAN /\ Planning \in BOOLEAN
    /\ None \notin RunTasks \cup BOOLEAN

VARIABLES up, stops, row, task, reg, forget, requested, approved, ran

runHistory == <<requested, approved, ran>>
tables == <<reg, forget>>
runVars == <<up, stops, row, task, reg, forget, requested, approved, ran>>

-----------------------------------------------------------------------------
Call == [id: 1..MaxIssued, guarded: BOOLEAN]

ACTIVE == {"running", "paused", "waiting_approval"}
RunStatus == ACTIVE \cup {"absent", "completed", "failed", "cancelled"}

\* stop_reason, as far as the code looks at it: "error" can be resumed,
\* "shutdown" was left by stop(), "final" stands for every other.
Reason == {"none", "paused", "shutdown", "error", "final"}

Row == [status: RunStatus, control: {"", "pause", "cancel", "kill"},
        reason: Reason, step: 0..MaxSteps, planned: BOOLEAN,
        pending: Seq(Call), open: Seq(Call)]
NoRow == [status |-> "absent", control |-> "", reason |-> "none", step |-> 0,
          planned |-> FALSE, pending |-> << >>, open |-> << >>]

\* "new" (created, execute() has not begun), "start" (before the planning
\* call), "loop" (the top of the loop),
\* "plan" and "model" (awaiting the gateway), "tools" (about to handle the
\* first of its calls), "call" (awaiting that tool).
Task == [at: {"none", "new", "start", "loop", "plan", "model", "tools", "call"},
         decision: BOOLEAN \cup {None}, resumed: BOOLEAN,
         calls: Seq(Call), step: 0..MaxSteps, planned: BOOLEAN]
NoTask == [at |-> "none", decision |-> None, resumed |-> FALSE,
           calls |-> << >>, step |-> 0, planned |-> FALSE]
NewTask(decision) == [NoTask EXCEPT !.at = "new", !.decision = decision]

RunsTypeOK ==
    /\ up \in BOOLEAN
    /\ stops \in 0..MaxStops
    /\ row \in [Runs -> Row]
    /\ task \in [Runs -> [RunTasks -> Task]]
    /\ reg \in [Runs -> RunTasks \cup {None}]
    /\ forget \in [Runs -> Nat]
    /\ requested \in [Runs -> 0..MaxIssued]
    /\ approved \in [Runs -> SUBSET (1..MaxIssued)]
    /\ ran \in [Runs -> SUBSET (1..MaxIssued)]

HarnessInit ==
    /\ up = TRUE
    /\ stops = 0
    /\ row = [r \in Runs |-> NoRow]
    /\ task = [r \in Runs |-> [t \in RunTasks |-> NoTask]]
    /\ reg = [r \in Runs |-> None]
    /\ forget = [r \in Runs |-> 0]
    /\ requested = [r \in Runs |-> 0]
    /\ approved = [r \in Runs |-> {}]
    /\ ran = [r \in Runs |-> {}]

\* _finished(): an error stop is the one failure that can be resumed.
FinishedRun(w) ==
    \/ w.status \in {"completed", "cancelled"}
    \/ w.status = "failed" /\ w.reason # "error"

Alive(r) == {t \in RunTasks : task[r][t].at # "none"}

\* A coroutine that has begun to execute its run.
ExecutingRun(r) == {t \in Alive(r) : task[r][t].at # "new"}

-----------------------------------------------------------------------------
\* Shared pieces

\* spawn() creates a task unless the registered one is still at work.
SpawnNeeded(r) == reg[r] \notin Alive(r)

\* spawn(rid, decision).
Spawn(r, decision) ==
    IF SpawnNeeded(r)
    THEN \E t \in RunTasks \ Alive(r) :
            /\ task' = [task EXCEPT ![r][t] = NewTask(decision)]
            /\ reg' = [reg EXCEPT ![r] = t]
    ELSE UNCHANGED <<task, reg>>

\* _checkpoint(): the row with the coroutine's step and messages.
Checkpointed(w, c) == [w EXCEPT !.step = c.step, !.planned = c.planned, !.open = c.calls]

\* The coroutine goes on, as c.
Continue(r, t, c) ==
    /\ task' = [task EXCEPT ![r][t] = c]
    /\ UNCHANGED forget

\* The coroutine returns or raises, and its done-callback is scheduled.
Return(r, t) ==
    /\ task' = [task EXCEPT ![r][t] = NoTask]
    /\ forget' = [forget EXCEPT ![r] = @ + 1]

\* _end(): the last checkpoint, which also clears the request.
Ended(w, c, status, reason) ==
    [Checkpointed(w, c) EXCEPT !.status = status, !.reason = reason, !.control = ""]

\* The `except Exception` clause of _execute: the request, if any, stays.
ErrorRow(w, c) == [Checkpointed(w, c) EXCEPT !.status = "failed", !.reason = "error"]

\* The row of a run that waits for a human, and of one cancelled by stop().
WaitingRow(w, c) ==
    [Checkpointed(w, c) EXCEPT !.status = "waiting_approval", !.pending = c.calls]
StoppedRow(w, c) == [Checkpointed(w, c) EXCEPT !.status = "paused", !.reason = "shutdown"]

-----------------------------------------------------------------------------
\* The execute() coroutine

\* Mutant: the row does not say that the run is being executed.
BegunStillIdle(w) == [w EXCEPT !.pending = << >>]

\* store.set(rid, status="running", pending=None)
Begun(w) == [w EXCEPT !.status = "running", !.pending = << >>]

\* Where execute() goes from there: the calls a human was asked about, the
\* planning call of a run that has made no step, or the loop.
FirstStop(w) ==
    IF w.pending # << >> THEN "tools"
    ELSE IF Planning /\ w.step = 0 /\ ~w.planned THEN "start"
    ELSE "loop"

BegunTask(w, c) ==
    LET waited == w.pending # << >>
    IN  [at |-> FirstStop(w), resumed |-> waited,
         decision |-> IF waited THEN c.decision ELSE None,
         calls |-> IF waited THEN w.pending ELSE w.open,
         step |-> w.step, planned |-> w.planned]

\* The first step.  A callback scheduled earlier runs before it.
Begin(r, t) ==
    LET c == task[r][t]
        w == row[r]
    IN  /\ c.at = "new" /\ forget[r] = 0
        /\ IF FinishedRun(w)
           THEN /\ Return(r, t)
                /\ UNCHANGED row
           ELSE /\ row' = [row EXCEPT ![r] = Begun(w)]
                /\ Continue(r, t, BegunTask(w, c))
        /\ UNCHANGED <<up, stops, reg, runHistory>>

\* st["step"] < agent.max_steps
StepsLeft(c) == c.step < MaxSteps

Asking(c) == [c EXCEPT !.at = IF @ = "start" THEN "plan" ELSE "model"]

\* _limit(), and then the gateway is asked for the plan or for the next step.
Loop(r, t) ==
    LET c == task[r][t]
        control == row[r].control
    IN  /\ c.at \in {"start", "loop"}
        /\ \/ /\ control = "pause"
              /\ row' = [row EXCEPT ![r] = Ended(@, c, "paused", "paused")]
              /\ Return(r, t)
           \/ /\ control \in {"cancel", "kill"}
              /\ row' = [row EXCEPT ![r] = Ended(@, c, "cancelled", "final")]
              /\ Return(r, t)
           \/ /\ control = ""   \* max_steps, or the deadline, cost or token limit
              /\ row' = [row EXCEPT ![r] = Ended(@, c, "failed", "final")]
              /\ Return(r, t)
           \/ /\ control = "" /\ StepsLeft(c)
              /\ Continue(r, t, Asking(c))
              /\ UNCHANGED row
        /\ UNCHANGED <<up, stops, reg, runHistory>>

Planned(c, made) == [c EXCEPT !.at = "loop", !.planned = made]

\* The planning call returns.  An empty plan leaves no mark.
PlanReturns(r, t) ==
    /\ task[r][t].at = "plan"
    /\ \E made \in BOOLEAN :
        LET c == Planned(task[r][t], made)
        IN  /\ Continue(r, t, c)
            /\ row' = [row EXCEPT ![r] = Checkpointed(@, c)]
    /\ UNCHANGED <<up, stops, reg, runHistory>>

\* The n calls of a new reply.
NewCalls(r, gs) ==
    [i \in DOMAIN gs |-> [id |-> requested[r] + i, guarded |-> gs[i]]]

Replied(c, calls) ==
    [c EXCEPT !.at = "tools", !.calls = calls, !.step = @ + 1, !.resumed = FALSE]

\* The model replies: with an answer, which ends the run, or with tool calls.
ModelReturns(r, t) ==
    LET c == task[r][t]
    IN  /\ c.at = "model"
        /\ \/ /\ row' = [row EXCEPT ![r] = Ended(@, Replied(c, << >>), "completed", "final")]
              /\ Return(r, t)
              /\ UNCHANGED requested
           \/ \E n \in 1..MaxCalls : \E gs \in [1..n -> Guarded] :
                /\ requested[r] + n <= MaxIssued
                /\ requested' = [requested EXCEPT ![r] = @ + n]
                /\ Continue(r, t, Replied(c, NewCalls(r, gs)))
                /\ UNCHANGED row
        /\ UNCHANGED <<up, stops, reg, approved, ran>>

\* Mutant: a yes covers every call of the reply.
AfterFirstCarried(c) == [c EXCEPT !.at = "tools", !.calls = Tail(@)]

\* The first call has been dealt with; a decision is good for one call.
AfterFirst(c) == [c EXCEPT !.at = "tools", !.calls = Tail(@), !.decision = None]

Calling(c) == [c EXCEPT !.at = "call"]

\* _tools(), for its next call: stop and wait for a human, take the human's no
\* as the result, or carry the call out.
NextCall(r, t) ==
    LET c == task[r][t]
        first == Head(c.calls)
    IN  /\ c.at = "tools" /\ c.calls # << >>
        /\ \/ /\ first.guarded /\ c.decision = None
              /\ row' = [row EXCEPT ![r] = WaitingRow(@, c)]
              /\ Return(r, t)
              /\ UNCHANGED ran
           \/ /\ c.decision = FALSE
              /\ Continue(r, t, AfterFirst(c))
              /\ UNCHANGED <<row, ran>>
           \/ /\ IF first.guarded THEN c.decision = TRUE ELSE c.decision # FALSE
              /\ Continue(r, t, Calling(c))
              /\ ran' = [ran EXCEPT ![r] = @ \cup {first.id}]
              /\ UNCHANGED row
        /\ UNCHANGED <<up, stops, reg, requested, approved>>

ToolReturns(r, t) ==
    /\ task[r][t].at = "call"
    /\ Continue(r, t, AfterFirst(task[r][t]))
    /\ UNCHANGED <<up, stops, row, reg, runHistory>>

Looping(c) == [c EXCEPT !.at = "loop"]

\* All calls are answered.  A reply of this execution is checkpointed, and may
\* have been one repetition too many; calls resumed after an approval are not.
CallsDone(r, t) ==
    LET c == Looping(task[r][t])
    IN  /\ task[r][t].at = "tools" /\ c.calls = << >>
        /\ \/ /\ Continue(r, t, c)
              /\ row' = IF c.resumed THEN row
                        ELSE [row EXCEPT ![r] = Checkpointed(@, c)]
           \/ /\ ~c.resumed
              /\ row' = [row EXCEPT ![r] = Ended(@, c, "failed", "final")]
              /\ Return(r, t)
        /\ UNCHANGED <<up, stops, reg, runHistory>>

\* An await raises.
Fails(r, t) ==
    /\ task[r][t].at \in {"plan", "model", "call"}
    /\ row' = [row EXCEPT ![r] = ErrorRow(@, task[r][t])]
    /\ Return(r, t)
    /\ UNCHANGED <<up, stops, reg, runHistory>>

\* The done-callback of some task of the run: it drops whatever is registered.
ForgetTask(r) ==
    /\ forget[r] > 0
    /\ forget' = [forget EXCEPT ![r] = @ - 1]
    /\ reg' = [reg EXCEPT ![r] = None]
    /\ UNCHANGED <<up, stops, row, task, runHistory>>

-----------------------------------------------------------------------------
\* The API

\* start_run: create the row and spawn its task.
StartRun(r) ==
    /\ up /\ row[r].status = "absent"
    /\ row' = [row EXCEPT ![r] = [@ EXCEPT !.status = "running"]]
    /\ Spawn(r, None)
    /\ UNCHANGED <<up, stops, forget, runHistory>>

\* _finish(): the row of a run that nothing is executing.
CancelledRow(w) == [w EXCEPT !.status = "cancelled", !.reason = "final", !.control = ""]

\* cancel_run: at once if nothing is running, else by request.
CancelRun(r) ==
    /\ up /\ "cancel" \in Controls
    /\ row[r].status \in ACTIVE
    /\ row' = [row EXCEPT ![r] =
                IF @.status \in {"paused", "waiting_approval"} THEN CancelledRow(@)
                ELSE [@ EXCEPT !.control = "cancel"]]
    /\ UNCHANGED <<up, stops, task, tables, runHistory>>

PauseRun(r) ==
    /\ up /\ "pause" \in Controls
    /\ row[r].status \in ACTIVE
    /\ row' = [row EXCEPT ![r] = [@ EXCEPT !.control = "pause"]]
    /\ UNCHANGED <<up, stops, task, tables, runHistory>>

\* Mutant: the kill switch ends the runs that have ended, too.
KilledAgain(w) ==
    IF w.status = "running" THEN [w EXCEPT !.control = "kill"]
    ELSE IF w.status = "absent" THEN w
    ELSE CancelledRow(w)

\* kill(): the request to every active run, and an end to the idle ones.
Killed(w) ==
    IF w.status \in {"paused", "waiting_approval"} THEN CancelledRow(w)
    ELSE IF w.status = "running" THEN [w EXCEPT !.control = "kill"]
    ELSE w

KillRuns ==
    /\ up /\ "kill" \in Controls
    /\ row' = [r \in Runs |-> Killed(row[r])]
    /\ UNCHANGED <<up, stops, task, tables, runHistory>>

\* resume_run.  A run that waits needs a decision; a decision for any other is
\* dropped.
ResumeRun(r) ==
    /\ up
    /\ \/ /\ row[r].status = "waiting_approval"
          /\ \E yes \in BOOLEAN :
                /\ Spawn(r, yes)
                /\ approved' = IF yes
                      THEN [approved EXCEPT ![r] = @ \cup {Head(row[r].pending).id}]
                      ELSE approved
       \/ /\ row[r].status \in {"paused", "failed"}
          /\ Spawn(r, None)
          /\ UNCHANGED approved
    /\ UNCHANGED <<up, stops, row, forget, requested, ran>>

-----------------------------------------------------------------------------
\* The process

\* Everything in memory is gone.
Down ==
    /\ up' = FALSE
    /\ stops' = stops + 1
    /\ task' = [r \in Runs |-> [t \in RunTasks |-> NoTask]]
    /\ reg' = [r \in Runs |-> None]
    /\ forget' = [r \in Runs |-> 0]
    /\ UNCHANGED runHistory

Crash ==
    /\ up /\ stops < MaxStops
    /\ Down
    /\ UNCHANGED row

\* stop(): every task is cancelled and leaves a checkpoint that says so,
\* unless it had not begun.  (Two tasks of one run leave one each.)
Shutdown ==
    /\ up /\ stops < MaxStops /\ Graceful
    /\ Down
    /\ \E last \in [Runs -> RunTasks] :
        /\ \A r \in Runs : ExecutingRun(r) # {} => last[r] \in ExecutingRun(r)
        /\ row' = [r \in Runs |->
                    IF ExecutingRun(r) = {} THEN row[r]
                    ELSE StoppedRow(row[r], task[r][last[r]])]

\* Mutant: nothing is picked up.
InterruptedNone == {}

\* store.interrupted()
Interrupted == {r \in Runs : row[r].status = "running"}

\* The process comes back, and start() spawns the interrupted runs.
Restart ==
    /\ ~up
    /\ up' = TRUE
    /\ \E t \in RunTasks :
        /\ task' = [r \in Runs |->
                     IF r \in Interrupted
                     THEN [task[r] EXCEPT ![t] = NewTask(None)]
                     ELSE task[r]]
        /\ reg' = [r \in Runs |-> IF r \in Interrupted THEN t ELSE None]
    /\ UNCHANGED <<stops, row, forget, runHistory>>

-----------------------------------------------------------------------------
TaskStep(r, t) ==
    \/ Begin(r, t)
    \/ Loop(r, t)
    \/ PlanReturns(r, t)
    \/ ModelReturns(r, t)
    \/ NextCall(r, t)
    \/ ToolReturns(r, t)
    \/ CallsDone(r, t)
    \/ Fails(r, t)

HarnessNext ==
    \/ \E r \in Runs :
        \/ \E t \in RunTasks : TaskStep(r, t)
        \/ ForgetTask(r)
        \/ StartRun(r)
        \/ CancelRun(r)
        \/ PauseRun(r)
        \/ ResumeRun(r)
    \/ KillRuns
    \/ Crash
    \/ Shutdown
    \/ Restart

HarnessSpec == HarnessInit /\ [][HarnessNext]_runVars

\* asyncio runs what is ready, the gateway and every tool answer or time out,
\* and a process that stopped is started again.  Nobody has to resume a run.
HarnessFairSpec ==
    /\ HarnessSpec
    /\ \A r \in Runs :
        /\ WF_runVars(ForgetTask(r))
        /\ \A t \in RunTasks : WF_runVars(TaskStep(r, t))
    /\ WF_runVars(Restart)

-----------------------------------------------------------------------------
\* cancel() and kill() end a paused or waiting run on the spot because, as the
\* comment there says, "nothing running".  It has to be so on every path into
\* those states, and a run that waits must have a call to ask about.
IdleRunsAreIdle ==
    \A r \in Runs : row[r].status \in {"paused", "waiting_approval"} =>
        /\ ExecutingRun(r) = {}
        /\ row[r].status = "waiting_approval" =>
              row[r].pending # << >> /\ Head(row[r].pending).guarded

\* The human in the loop: a call that needs approval is carried out only after
\* a human has said yes to that very call, and no call is carried out twice,
\* whatever crashes, shutdowns, refusals and resumptions come in between.
CallsApprovedAndOnce ==
    [][ \A r \in Runs, t \in RunTasks :
          task'[r][t].at = "call" /\ task[r][t].at # "call" =>
            LET first == Head(task'[r][t].calls)
            IN  /\ first.id \notin ran[r]
                /\ first.guarded => first.id \in approved[r] ]_runVars

\* _finished(): "Completed, cancelled or limit-stopped runs are final".  No
\* checkpoint of a coroutine still on its way, and no resumption, revives one.
FinalStays ==
    [][ \A r \in Runs : FinishedRun(row[r]) => row'[r] = row[r] ]_runVars

\* What a run does to the world and what its row says of it are settled once:
\* calls are carried out once and as approved, and the end of a run is its end.
RunsKeepTheirWord == CallsApprovedAndOnce /\ FinalStays

\* A run left 'running' does not stay so: if it was interrupted, start() picks
\* it up, and a run at work ends, waits or pauses.
RunningMovesOn ==
    \A r \in Runs : row[r].status = "running" ~> row[r].status # "running"

\* runtime.py, spawn(): "one task per run".  No run is executed by two
\* coroutines at once, each with its own copy of the messages and the step.
OneTaskPerRun == \A r \in Runs : Cardinality(ExecutingRun(r)) <= 1
=============================================================================
