------------------------------- MODULE MCWork -------------------------------
(***************************************************************************)
(* The two ways work is done in the background: the durable runs of the    *)
(* harness, and the tasks of agents.  They share no variable, so a         *)
(* behaviour is about one of them, chosen in the initial state; fairness   *)
(* is that of the one.                                                     *)
(***************************************************************************)
EXTENDS Harness, Tasks

CONSTANT Foci    \* the components to check

VARIABLE focus

\* Tasks are equally urgent but for the third.
MCPriority == [t \in TaskIds |-> IF t = 3 THEN 3 ELSE 2]

WorkInit == focus \in Foci /\ HarnessInit /\ TasksInit

WorkNext ==
    \/ focus = "harness" /\ HarnessNext /\ UNCHANGED <<taskVars, focus>>
    \/ focus = "tasks" /\ TasksNext /\ UNCHANGED <<runVars, focus>>

\* As in Harness!HarnessFairSpec.
HarnessFair ==
    /\ \A r \in Runs :
        /\ WF_runVars(focus = "harness" /\ ForgetTask(r))
        /\ \A t \in RunTasks : WF_runVars(focus = "harness" /\ TaskStep(r, t))
    /\ WF_runVars(focus = "harness" /\ Restart)

\* As in Tasks!TasksFairness.
TasksFair ==
    /\ \A w \in Workers :
          WF_taskVars(focus = "tasks"
              /\ (WorkerBegins(w) \/ WorkerTakes(w) \/ WorkerStops(w) \/ WorkerReaps(w)))
    /\ \A t \in TaskIds :
          WF_taskVars(focus = "tasks"
              /\ (RunBegins(t) \/ RunCompletes(t) \/ RunErrs(t) \/ RunStops(t)))

WorkSpec == WorkInit /\ [][WorkNext]_<<runVars, taskVars, focus>> /\ HarnessFair /\ TasksFair
=============================================================================
