----------------------------- MODULE Workflows -----------------------------
(***************************************************************************)
(* Fixed-step workflows: harness/workflow.py, the handlers of              *)
(* api/runs_api.py that run them, and their history in harness/store.py.   *)
(*                                                                         *)
(*   plan       the steps of the configured workflow                       *)
(*   flows      the runs in progress or finished, by slot                  *)
(*   past       the table workflow_runs, oldest first                      *)
(*   wfNow      the time, in units of a part of WORKFLOW_TTL               *)
(*   effects    history: the steps whose tool handlers each run started    *)
(*   finished   history: how many runs were recorded                       *)
(*                                                                         *)
(* A run lives in its request's coroutine and is suspended only inside a   *)
(* step, while the tool or the model works.  The registry's own checks are *)
(* those of Tools; here a call may be refused, fail before or after its    *)
(* handler started, or succeed.  What a template is filled with does not   *)
(* decide what runs next and is left out.                                  *)
(***************************************************************************)
EXTENDS Integers, Sequences, FiniteSets, Selections

CONSTANTS
    Drafts,        \* workflows as somebody may write them in agents.yml
    Slots,         \* requests that may run it
    Subjects,      \* who may ask
    Admins,        \* the subjects with the scope "admin"
    Granted,       \* the tools granted to each subject
    Gated,         \* the tools that require an approval
    MaxCostUsd,    \* max_cost_usd
    Prices,        \* what a model call may cost
    WORKFLOW_KEEP, WORKFLOW_TTL,
    MaxFinished,   \* bound: runs recorded
    MaxWfNow       \* bound: the time

\* What a step of a file says; "none" is what it does not say.
RawSteps == [id : STRING, tool : STRING, prompt : BOOLEAN]

ASSUME WorkflowsAssumption ==
    /\ Admins \subseteq Subjects /\ WORKFLOW_KEEP \in Nat \ {0} /\ WORKFLOW_TTL \in Nat
    /\ MaxCostUsd \in Nat /\ Prices \subseteq Nat /\ MaxFinished \in Nat /\ MaxWfNow \in Nat
    /\ Drafts \subseteq Seq(RawSteps)

VARIABLES plan, flows, past, wfNow, effects, finished

wfVars == <<plan, flows, past, wfNow, effects, finished>>

-----------------------------------------------------------------------------
\* parse_steps(): every step has an id of its own that is not "input" and is
\* a tool call or a prompt, and there is a step.
KindOf(d) == IF d.tool # "none" THEN "tool" ELSE IF d.prompt THEN "model" ELSE "none"
Parses(raw) ==
    /\ raw # << >>
    /\ \A i \in DOMAIN raw :
          /\ raw[i].id \notin {"none", "input"}
          /\ \A j \in 1..(i - 1) : raw[j].id # raw[i].id
          /\ KindOf(raw[i]) # "none"
ParsedSteps(raw) ==
    [i \in DOMAIN raw |-> [id |-> raw[i].id, kind |-> KindOf(raw[i]), tool |-> raw[i].tool]]

Ids == {plan[i].id : i \in DOMAIN plan}
NeededTools == {plan[i].tool : i \in {j \in DOMAIN plan : plan[j].kind = "tool"}}

NoFlow == [at |-> "idle", subject |-> "nobody", approved |-> {}, step |-> 0, cost |-> 0,
           status |-> "completed", steps |-> << >>]

\* A file with a workflow that does not parse stops the start-up.
WorkflowsInit ==
    /\ plan \in {ParsedSteps(d) : d \in {r \in Drafts : Parses(r)}}
    /\ flows = [r \in Slots |-> NoFlow]
    /\ past = << >>
    /\ wfNow = 0
    /\ effects = [r \in Slots |-> << >>]
    /\ finished = 0

-----------------------------------------------------------------------------
\* run_workflow_endpoint(): the caller needs every tool of the workflow, may
\* approve only steps it has, and approves nothing unless it is an admin.
MayRun(s, approved) ==
    /\ NeededTools \subseteq Granted[s]
    /\ approved \subseteq Ids
    /\ approved # {} => s \in Admins

StartFlow(r, s, approved) ==
    /\ flows[r].at = "idle" /\ MayRun(s, approved)
    /\ flows' = [flows EXCEPT ![r] = [NoFlow EXCEPT !.at = "next", !.subject = s,
                                                     !.approved = approved]]
    /\ UNCHANGED <<plan, past, wfNow, effects, finished>>

\* Mutant: a run may go on when its cost is at the limit.
OverCostLate(f) == f.cost > MaxCostUsd

\* The cost is compared before a step, whatever its kind.
OverCost(f) == f.cost >= MaxCostUsd

CostStops(f) == [f EXCEPT !.at = "over", !.status = "cost_limit"]
StepOk(f) ==
    [f EXCEPT !.at = IF f.step = Len(plan) THEN "over" ELSE "next",
              !.steps = Append(@, [id |-> plan[f.step].id, ok |-> TRUE])]
StepFails(f, status) ==
    [f EXCEPT !.at = "over", !.status = status,
              !.steps = Append(@, [id |-> plan[f.step].id, ok |-> FALSE])]

\* The next step, or the end before it: a tool that needs an approval the
\* request did not bring stops the run before its handler is started.
NextStep(r) ==
    LET f == flows[r]
        here == [f EXCEPT !.at = "calling", !.step = @ + 1]
        st == plan[f.step + 1]
    IN  /\ f.at = "next"
        /\ flows' = [flows EXCEPT ![r] =
               IF OverCost(f) THEN CostStops(f)
               ELSE IF st.kind = "tool" /\ st.tool \in Gated /\ st.id \notin f.approved
                    THEN StepFails(here, "needs_approval")
                    ELSE here]
        /\ UNCHANGED <<plan, past, wfNow, effects, finished>>

\* registry.call() started the handler, which returns or fails.
ToolStepRuns(r, ok) ==
    LET f == flows[r]
    IN  /\ f.at = "calling" /\ plan[f.step].kind = "tool"
        /\ effects' = [effects EXCEPT ![r] = Append(@, f.step)]
        /\ flows' = [flows EXCEPT ![r] = IF ok THEN StepOk(f) ELSE StepFails(f, "failed")]
        /\ UNCHANGED <<plan, past, wfNow, finished>>

\* registry.call() refused: the rate, the arguments, the permission.
ToolStepRefused(r) ==
    LET f == flows[r]
    IN  /\ f.at = "calling" /\ plan[f.step].kind = "tool"
        /\ flows' = [flows EXCEPT ![r] = StepFails(f, "failed")]
        /\ UNCHANGED <<plan, past, wfNow, effects, finished>>

ModelStep(r, p) ==
    LET f == flows[r]
    IN  /\ f.at = "calling" /\ plan[f.step].kind = "model"
        /\ flows' = [flows EXCEPT ![r] = [StepOk(f) EXCEPT !.cost = @ + p]]
        /\ UNCHANGED <<plan, past, wfNow, effects, finished>>

ModelStepFails(r) ==
    LET f == flows[r]
    IN  /\ f.at = "calling" /\ plan[f.step].kind = "model"
        /\ flows' = [flows EXCEPT ![r] = StepFails(f, "failed")]
        /\ UNCHANGED <<plan, past, wfNow, effects, finished>>

\* record_workflow(), in one transaction: the row, what is too old, and all
\* but the newest of this workflow.
Unexpired(s) == Picked(s, {i \in DOMAIN s : s[i].created >= wfNow - WORKFLOW_TTL})
Newest(s) == Picked(s, {i \in DOMAIN s : i > Len(s) - WORKFLOW_KEEP})
RecordFlow(r) ==
    LET f == flows[r]
        row == [no |-> finished + 1, status |-> f.status, steps |-> f.steps, created |-> wfNow]
    IN  /\ f.at = "over" /\ finished < MaxFinished
        /\ past' = Newest(Unexpired(Append(past, row)))
        /\ finished' = finished + 1
        /\ flows' = [flows EXCEPT ![r] = NoFlow]
        /\ effects' = [effects EXCEPT ![r] = << >>]
        /\ UNCHANGED <<plan, wfNow>>

\* The process dies: its runs are gone, the table is not.
FlowsDie ==
    /\ \E r \in Slots : flows[r].at # "idle"
    /\ flows' = [r \in Slots |-> NoFlow]
    /\ effects' = [r \in Slots |-> << >>]
    /\ UNCHANGED <<plan, past, wfNow, finished>>

WfTick ==
    /\ wfNow < MaxWfNow
    /\ wfNow' = wfNow + 1
    /\ UNCHANGED <<plan, flows, past, effects, finished>>

WorkflowsNext ==
    \/ \E r \in Slots, s \in Subjects, a \in SUBSET Ids : StartFlow(r, s, a)
    \/ \E r \in Slots :
          \/ NextStep(r)
          \/ \E ok \in BOOLEAN : ToolStepRuns(r, ok)
          \/ ToolStepRefused(r)
          \/ \E p \in Prices : ModelStep(r, p)
          \/ ModelStepFails(r)
          \/ RecordFlow(r)
    \/ FlowsDie
    \/ WfTick

WorkflowsSpec == WorkflowsInit /\ [][WorkflowsNext]_wfVars

-----------------------------------------------------------------------------
\* The handlers a run started are those of the tool steps it has behind it,
\* in the order of the plan and once each, and a handler that needs an
\* approval was started only for an admin who named its step
\* (run_workflow(), run_workflow_endpoint()).
EffectsInOrder ==
    \A r \in Slots :
        LET mine == effects[r]
        IN  /\ \A i, j \in DOMAIN mine : i < j => mine[i] < mine[j]
            /\ \A i \in DOMAIN mine :
                  LET st == plan[mine[i]]
                  IN  /\ st.tool \in Granted[flows[r].subject]
                      /\ st.tool \in Gated =>
                            flows[r].subject \in Admins /\ st.id \in flows[r].approved
                      /\ \A k \in 1..(mine[i] - 1) : flows[r].steps[k].ok
            /\ flows[r].status = "completed" =>
                  {mine[i] : i \in DOMAIN mine}
                  = {k \in 1..Len(flows[r].steps) : plan[k].kind = "tool"}

\* A run costs nothing, or less than its limit and one more call.
CostBounded ==
    \A r \in Slots : flows[r].cost = 0 \/ \E p \in Prices : flows[r].cost < MaxCostUsd + p

\* The table holds the latest runs without a gap, as far back as
\* WORKFLOW_KEEP and the age allow, and what it says of a run agrees with
\* its steps: completed when all of them succeeded, failed or needing an
\* approval at the last of them (record_workflow()).
HistoryHonest ==
    /\ Len(past) <= WORKFLOW_KEEP
    /\ past # << >> => past[Len(past)].no = finished
    /\ \A i \in DOMAIN past :
          /\ i > 1 => past[i].no = past[i - 1].no + 1
          /\ LET s == past[i].steps
             IN  CASE past[i].status = "completed" -> Len(s) = Len(plan) /\ \A k \in DOMAIN s : s[k].ok
                   [] past[i].status = "cost_limit" -> Len(s) < Len(plan) /\ \A k \in DOMAIN s : s[k].ok
                   [] OTHER -> s # << >> /\ \A k \in DOMAIN s : s[k].ok <=> k < Len(s)

\* A workflow does what its file says, in order and once, within its approvals
\* and its cost, and its history tells what happened.
WorkflowSound == EffectsInOrder /\ CostBounded /\ HistoryHonest
=============================================================================
