--------------------------- MODULE HarnessProofs ---------------------------
(***************************************************************************)
(* Theorems about the durable runs (what holds as long as no run has two   *)
(* coroutines), about the triggers that start them unattended and the      *)
(* alerts about what they spend, about the workflows of fixed steps, and   *)
(* about the migrations that a gateway runs before it serves.              *)
(***************************************************************************)
EXTENDS Harness, Triggers, Migrations, Workflows, FiniteSetTheorems, SequenceTheorems, TLAPS

\* spawn(): "one task per run".  It is what the done-callbacks do not guarantee
\* (OneTaskPerRun); the theorems say what the harness keeps while it holds.
OneAlive == \A r \in Runs : \A t, u \in Alive(r) : t = u

-----------------------------------------------------------------------------
Calls == [id : Nat, guarded : BOOLEAN]
Rows == [status : RunStatus, control : {"", "pause", "cancel", "kill"}, reason : Reason,
         step : Nat, planned : BOOLEAN, pending : Seq(Calls), open : Seq(Calls)]
TaskPlaces == {"none", "new", "start", "loop", "plan", "model", "tools", "call"}
Coroutines == [at : TaskPlaces, decision : BOOLEAN \cup {None}, resumed : BOOLEAN,
               calls : Seq(Calls), step : Nat, planned : BOOLEAN]

HarnessTypes ==
    /\ row \in [Runs -> Rows]
    /\ task \in [Runs -> [RunTasks -> Coroutines]]
    /\ requested \in [Runs -> Nat]
    /\ approved \in [Runs -> SUBSET Nat]
    /\ ran \in [Runs -> SUBSET Nat]

\* The calls of one reply are numbered in order.
Rising(s) == \A i, j \in DOMAIN s : i < j => s[i].id < s[j].id

\* Calls from k on were asked for, q of them there are, and are not among the ones
\* carried out, n.
Fresh(s, k, q, n) == \A i \in DOMAIN s : k <= i => s[i].id <= q /\ s[i].id \notin n

\* A run that waits has a call to ask about, and only a waiting run has, or one
\* that was cancelled while it waited.
RowOK(w, q, n) ==
    /\ w.status = "waiting_approval" => w.pending # << >> /\ Head(w.pending).guarded = TRUE
    /\ w.pending # << >> => w.status \in {"waiting_approval", "cancelled"}
    /\ Rising(w.pending) /\ Fresh(w.pending, 1, q, n)
    /\ \A i \in n : i <= q

\* A coroutine c of a run with row w: a yes is held only while it is about the
\* call it was given for, one of ok.
TaskOK(c, w, q, ok, n) ==
    /\ c.at \notin {"none", "new"} => w.status = "running"
    /\ c.at = "new" => w.status # "absent"
    /\ c.at = "new" /\ c.decision = TRUE => w.pending # << >> /\ Head(w.pending).id \in ok
    /\ c.at \in {"start", "loop", "plan", "model"} => c.decision = None
    /\ c.at = "tools" /\ c.calls = << >> => c.decision = None
    /\ c.at = "tools" /\ c.decision = TRUE => Head(c.calls).id \in ok
    /\ c.at = "tools" => Rising(c.calls) /\ Fresh(c.calls, 1, q, n)
    /\ c.at = "call" => c.calls # << >> /\ Rising(c.calls) /\ Fresh(c.calls, 2, q, n)

HarnessInv ==
    /\ HarnessTypes
    /\ \A r \in Runs : RowOK(row[r], requested[r], ran[r])
    /\ \A r \in Runs, t \in RunTasks : TaskOK(task[r][t], row[r], requested[r], approved[r], ran[r])

LEMMA HarnessStart == HarnessInit => HarnessInv
<1> SUFFICES ASSUME HarnessInit PROVE HarnessInv
  OBVIOUS
<1>1. NoRow \in Rows
  BY DEF NoRow, Rows, RunStatus, Reason
<1>2. NoTask \in Coroutines
  BY DEF NoTask, Coroutines, TaskPlaces
<1>3. RowOK(NoRow, 0, {})
  BY DEF NoRow, RowOK, Rising, Fresh
<1>4. \A w : TaskOK(NoTask, w, 0, {}, {})
  BY DEF NoTask, TaskOK
<1>5. HarnessTypes
  BY <1>1, <1>2 DEF HarnessInit, HarnessTypes
<1> QED
  BY <1>3, <1>4, <1>5 DEF HarnessInit, HarnessInv

-----------------------------------------------------------------------------
\* A coroutine that is none, or whose row is cancelled while it is new.
LEMMA NoTaskOK ==
    ASSUME NEW w, NEW q, NEW ok, NEW n
    PROVE  NoTask \in Coroutines /\ TaskOK(NoTask, w, q, ok, n)
  BY DEF NoTask, Coroutines, TaskPlaces, TaskOK

LEMMA NewTaskOK ==
    ASSUME NEW d \in BOOLEAN \cup {None}, NEW w, NEW q, NEW ok, NEW n, w.status # "absent",
           d = TRUE => w.pending # << >> /\ Head(w.pending).id \in ok
    PROVE  NewTask(d) \in Coroutines /\ TaskOK(NewTask(d), w, q, ok, n)
<1>1. NoTask \in Coroutines
  BY NoTaskOK
<1>2. NewTask(d) \in Coroutines /\ NewTask(d).at = "new" /\ NewTask(d).decision = d
  BY <1>1 DEF NewTask, Coroutines, TaskPlaces
<1> QED
  BY <1>2 DEF TaskOK

\* The rows that the steps of a coroutine write.
LEMMA CheckpointedOK ==
    ASSUME NEW w \in Rows, NEW c \in Coroutines
    PROVE  /\ Checkpointed(w, c) \in Rows
           /\ Checkpointed(w, c).status = w.status
           /\ Checkpointed(w, c).pending = w.pending
  BY DEF Checkpointed, Rows, Coroutines

LEMMA EndedOK ==
    ASSUME NEW w \in Rows, NEW c \in Coroutines, NEW q, NEW n, RowOK(w, q, n), w.status = "running",
           NEW s \in {"paused", "cancelled", "failed", "completed"}, NEW x \in Reason
    PROVE  Ended(w, c, s, x) \in Rows /\ RowOK(Ended(w, c, s, x), q, n)
<1> DEFINE k == Checkpointed(w, c)
<1>1. k \in Rows /\ k.pending = w.pending
  BY CheckpointedOK
<1>2. Ended(w, c, s, x) = [k EXCEPT !.status = s, !.reason = x, !.control = ""]
  BY DEF Ended
<1> HIDE DEF k
<1>3. /\ Ended(w, c, s, x) \in Rows /\ Ended(w, c, s, x).pending = w.pending
      /\ Ended(w, c, s, x).status = s
  BY <1>1, <1>2 DEF Rows, RunStatus, ACTIVE
<1>4. w.pending = << >>
  BY DEF RowOK
<1> QED
  BY <1>3, <1>4 DEF RowOK

LEMMA ErrorRowOK ==
    ASSUME NEW w \in Rows, NEW c \in Coroutines, NEW q, NEW n, RowOK(w, q, n), w.status = "running"
    PROVE  ErrorRow(w, c) \in Rows /\ RowOK(ErrorRow(w, c), q, n)
<1> DEFINE k == Checkpointed(w, c)
<1>1. k \in Rows /\ k.pending = w.pending
  BY CheckpointedOK
<1>2. ErrorRow(w, c) = [k EXCEPT !.status = "failed", !.reason = "error"]
  BY DEF ErrorRow
<1> HIDE DEF k
<1>3. /\ ErrorRow(w, c) \in Rows /\ ErrorRow(w, c).pending = w.pending
      /\ ErrorRow(w, c).status = "failed"
  BY <1>1, <1>2 DEF Rows, RunStatus, Reason
<1>4. w.pending = << >>
  BY DEF RowOK
<1> QED
  BY <1>3, <1>4 DEF RowOK

LEMMA StoppedRowOK ==
    ASSUME NEW w \in Rows, NEW c \in Coroutines, NEW q, NEW n, RowOK(w, q, n), w.status = "running"
    PROVE  StoppedRow(w, c) \in Rows /\ RowOK(StoppedRow(w, c), q, n)
<1> DEFINE k == Checkpointed(w, c)
<1>1. k \in Rows /\ k.pending = w.pending
  BY CheckpointedOK
<1>2. StoppedRow(w, c) = [k EXCEPT !.status = "paused", !.reason = "shutdown"]
  BY DEF StoppedRow
<1> HIDE DEF k
<1>3. /\ StoppedRow(w, c) \in Rows /\ StoppedRow(w, c).pending = w.pending
      /\ StoppedRow(w, c).status = "paused"
  BY <1>1, <1>2 DEF Rows, RunStatus, ACTIVE, Reason
<1>4. w.pending = << >>
  BY DEF RowOK
<1> QED
  BY <1>3, <1>4 DEF RowOK

LEMMA WaitingRowOK ==
    ASSUME NEW w \in Rows, NEW c \in Coroutines, NEW q, NEW n, RowOK(w, q, n),
           c.calls # << >>, Head(c.calls).guarded = TRUE, Rising(c.calls), Fresh(c.calls, 1, q, n)
    PROVE  WaitingRow(w, c) \in Rows /\ RowOK(WaitingRow(w, c), q, n)
<1> DEFINE k == Checkpointed(w, c)
<1>1. k \in Rows /\ c.calls \in Seq(Calls)
  BY CheckpointedOK DEF Coroutines
<1>2. WaitingRow(w, c) = [k EXCEPT !.status = "waiting_approval", !.pending = c.calls]
  BY DEF WaitingRow
<1> HIDE DEF k
<1>3. /\ WaitingRow(w, c) \in Rows /\ WaitingRow(w, c).pending = c.calls
      /\ WaitingRow(w, c).status = "waiting_approval"
  BY <1>1, <1>2 DEF Rows, RunStatus, ACTIVE
<1> QED
  BY <1>3 DEF RowOK

LEMMA BegunOK ==
    ASSUME NEW w \in Rows, NEW q, NEW n, RowOK(w, q, n)
    PROVE  Begun(w) \in Rows /\ RowOK(Begun(w), q, n) /\ Begun(w).status = "running"
<1>1. << >> \in Seq(Calls)
  OBVIOUS
<1>2. Begun(w) \in Rows /\ Begun(w).status = "running" /\ Begun(w).pending = << >>
  BY <1>1 DEF Begun, Rows, RunStatus, ACTIVE
<1> QED
  BY <1>2 DEF RowOK, Rising, Fresh

LEMMA CancelledRowOK ==
    ASSUME NEW w \in Rows, NEW q, NEW n, RowOK(w, q, n)
    PROVE  /\ CancelledRow(w) \in Rows /\ RowOK(CancelledRow(w), q, n)
           /\ CancelledRow(w).status = "cancelled" /\ CancelledRow(w).pending = w.pending
<1>1. /\ CancelledRow(w) \in Rows /\ CancelledRow(w).status = "cancelled"
      /\ CancelledRow(w).pending = w.pending
  BY DEF CancelledRow, Rows, RunStatus, Reason
<1> QED
  BY <1>1 DEF RowOK

\* What the coroutine becomes in its steps.
LEMMA BegunTaskOK ==
    ASSUME NEW w \in Rows, NEW c \in Coroutines, NEW q, NEW ok, NEW n, RowOK(w, q, n),
           TaskOK(c, w, q, ok, n), c.at = "new"
    PROVE  BegunTask(w, c) \in Coroutines /\ TaskOK(BegunTask(w, c), Begun(w), q, ok, n)
<1> DEFINE b == BegunTask(w, c)
<1>1. w.pending \in Seq(Calls) /\ w.open \in Seq(Calls) /\ w.step \in Nat /\ w.planned \in BOOLEAN
      /\ c.decision \in BOOLEAN \cup {None}
  BY DEF Rows, Coroutines
<1>2. Begun(w).status = "running"
  BY BegunOK
<1>3. CASE w.pending # << >>
  <2>1. b = [at |-> "tools", resumed |-> TRUE, decision |-> c.decision, calls |-> w.pending,
             step |-> w.step, planned |-> w.planned]
    <3>1. (w.pending # << >>) = TRUE
      BY <1>3
    <3> QED
      BY <3>1, Zenon DEF BegunTask, FirstStop
  <2>2. b \in Coroutines /\ b.at = "tools" /\ b.calls = w.pending /\ b.decision = c.decision
    BY <1>1, <2>1 DEF Coroutines, TaskPlaces
  <2> HIDE DEF b
  <2> QED
    BY <1>2, <1>3, <2>2 DEF TaskOK, RowOK, b
<1>4. CASE w.pending = << >>
  <2>1. PICK p \in {"start", "loop"} : p = FirstStop(w)
    BY <1>4 DEF FirstStop
  <2>2. b = [at |-> p, resumed |-> FALSE, decision |-> None, calls |-> w.open,
             step |-> w.step, planned |-> w.planned]
    <3>1. (w.pending # << >>) = FALSE
      BY <1>4
    <3> QED
      BY <2>1, <3>1, Zenon DEF BegunTask
  <2>3. b \in Coroutines /\ b.at = p /\ b.decision = None
    BY <1>1, <2>2 DEF Coroutines, TaskPlaces
  <2> HIDE DEF b
  <2> QED
    BY <1>2, <2>3 DEF TaskOK, b
<1> QED
  BY <1>3, <1>4

LEMMA AskingOK ==
    ASSUME NEW c \in Coroutines, NEW w, NEW q, NEW ok, NEW n, TaskOK(c, w, q, ok, n),
           c.at \in {"start", "loop"}
    PROVE  Asking(c) \in Coroutines /\ TaskOK(Asking(c), w, q, ok, n)
<1>1. PICK p \in {"plan", "model"} : Asking(c) = [c EXCEPT !.at = p]
  BY DEF Asking
<1>2. Asking(c) \in Coroutines /\ Asking(c).at = p /\ Asking(c).decision = c.decision
  BY <1>1 DEF Coroutines, TaskPlaces
<1> QED
  BY <1>2 DEF TaskOK

LEMMA PlannedOK ==
    ASSUME NEW c \in Coroutines, NEW w, NEW q, NEW ok, NEW n, TaskOK(c, w, q, ok, n),
           c.at = "plan", NEW made \in BOOLEAN, NEW v, v.status = w.status
    PROVE  Planned(c, made) \in Coroutines /\ TaskOK(Planned(c, made), v, q, ok, n)
<1>1. /\ Planned(c, made) \in Coroutines /\ Planned(c, made).at = "loop"
      /\ Planned(c, made).decision = c.decision
  BY DEF Planned, Coroutines, TaskPlaces
<1> QED
  BY <1>1 DEF TaskOK

LEMMA LoopingKeeps ==
    ASSUME NEW c \in Coroutines
    PROVE  Looping(c) \in Coroutines /\ Looping(c).calls = c.calls /\ Looping(c).at = "loop"
  BY DEF Looping, Coroutines, TaskPlaces

LEMMA LoopingOK ==
    ASSUME NEW c \in Coroutines, NEW w, NEW q, NEW ok, NEW n, TaskOK(c, w, q, ok, n),
           c.at = "tools", c.calls = << >>, NEW v, v.status = w.status
    PROVE  Looping(c) \in Coroutines /\ TaskOK(Looping(c), v, q, ok, n)
<1>1. /\ Looping(c) \in Coroutines /\ Looping(c).at = "loop"
      /\ Looping(c).decision = c.decision
  BY DEF Looping, Coroutines, TaskPlaces
<1> QED
  BY <1>1 DEF TaskOK

LEMMA RepliedOK ==
    ASSUME NEW c \in Coroutines, NEW w, NEW q, NEW ok, NEW n, TaskOK(c, w, q, ok, n),
           c.at = "model", NEW s \in Seq(Calls), NEW p, Rising(s), Fresh(s, 1, p, n)
    PROVE  Replied(c, s) \in Coroutines /\ TaskOK(Replied(c, s), w, p, ok, n)
<1>1. /\ Replied(c, s) \in Coroutines /\ Replied(c, s).at = "tools"
      /\ Replied(c, s).decision = c.decision /\ Replied(c, s).calls = s
  <2>1. PICK k \in Nat : k = c.step + 1
    BY DEF Coroutines
  <2>2. Replied(c, s) = [c EXCEPT !.at = "tools", !.calls = s, !.step = k, !.resumed = FALSE]
    BY <2>1 DEF Replied
  <2> QED
    BY <2>2 DEF Coroutines, TaskPlaces
<1>2. c.decision = None /\ None # TRUE
  BY HarnessAssumption DEF TaskOK
<1> QED
  BY <1>1, <1>2 DEF TaskOK

LEMMA AfterFirstOK ==
    ASSUME NEW c \in Coroutines, NEW w, NEW q, NEW ok, NEW n, TaskOK(c, w, q, ok, n),
           c.at \in {"tools", "call"}, c.calls # << >>
    PROVE  AfterFirst(c) \in Coroutines /\ TaskOK(AfterFirst(c), w, q, ok, n)
<1>1. c.calls \in Seq(Calls)
  BY DEF Coroutines
<1>2. /\ Tail(c.calls) \in Seq(Calls)
      /\ \A i \in DOMAIN Tail(c.calls) : i \in Nat /\ 1 <= i /\ i + 1 \in DOMAIN c.calls
                                         /\ Tail(c.calls)[i] = c.calls[i + 1]
  BY <1>1
<1>3. PICK s \in Seq(Calls) : s = Tail(c.calls)
  BY <1>2
<1>4. /\ AfterFirst(c) \in Coroutines /\ AfterFirst(c).at = "tools"
      /\ AfterFirst(c).decision = None /\ AfterFirst(c).calls = s
  <2>1. AfterFirst(c) = [c EXCEPT !.at = "tools", !.calls = s, !.decision = None]
    BY <1>3 DEF AfterFirst
  <2> QED
    BY <2>1 DEF Coroutines, TaskPlaces
<1>5. Rising(s)
  BY <1>2, <1>3 DEF Rising, TaskOK
<1>6. Fresh(s, 1, q, n)
  <2>1. Fresh(c.calls, 2, q, n)
    BY <1>1 DEF TaskOK, Fresh
  <2> QED
    BY <1>2, <1>3, <2>1 DEF Fresh
<1> QED
  BY <1>4, <1>5, <1>6, HarnessAssumption DEF TaskOK

LEMMA CallingOK ==
    ASSUME NEW c \in Coroutines, NEW w, NEW q, NEW ok, NEW n, TaskOK(c, w, q, ok, n),
           c.at = "tools", c.calls # << >>
    PROVE  /\ Calling(c) \in Coroutines /\ Calling(c).calls = c.calls
           /\ TaskOK(Calling(c), w, q, ok, n \cup {Head(c.calls).id})
<1>1. /\ Calling(c) \in Coroutines /\ Calling(c).at = "call"
      /\ Calling(c).calls = c.calls
  BY DEF Calling, Coroutines, TaskPlaces
<1>2. c.calls \in Seq(Calls) /\ 1 \in DOMAIN c.calls /\ Head(c.calls) = c.calls[1]
  BY DEF Coroutines
<1>3. ASSUME NEW i \in DOMAIN c.calls PROVE i \in Nat /\ c.calls[i].id \in Nat
  <2>1. i \in 1..Len(c.calls) /\ c.calls[i] \in Calls
    BY <1>2, ElementOfSeq
  <2> QED
    BY <2>1 DEF Calls
<1>4. Fresh(c.calls, 2, q, n \cup {Head(c.calls).id})
  BY <1>2, <1>3 DEF TaskOK, Fresh, Rising
<1> QED
  BY <1>1, <1>4 DEF TaskOK

-----------------------------------------------------------------------------
\* A step about one run, whose coroutines other than t are none.
LEMMA RunMoves ==
    ASSUME HarnessInv, NEW r \in Runs, NEW t \in RunTasks,
           \A u \in RunTasks \ {t} : task[r][u].at = "none",
           NEW w \in Rows, row' = [row EXCEPT ![r] = w],
           NEW c \in Coroutines, task' = [task EXCEPT ![r][t] = c],
           NEW q \in Nat, requested' = [requested EXCEPT ![r] = q],
           NEW a \in SUBSET Nat, approved' = [approved EXCEPT ![r] = a],
           NEW n \in SUBSET Nat, ran' = [ran EXCEPT ![r] = n],
           RowOK(w, q, n), TaskOK(c, w, q, a, n)
    PROVE  HarnessInv'
<1>1. HarnessTypes
  BY DEF HarnessInv
<1>2. HarnessTypes'
  BY <1>1 DEF HarnessTypes
<1>3. /\ row'[r] = w /\ requested'[r] = q /\ approved'[r] = a /\ ran'[r] = n /\ task'[r][t] = c
      /\ \A u \in RunTasks \ {t} : task'[r][u] = task[r][u]
  BY <1>1 DEF HarnessTypes
<1>4. ASSUME NEW p \in Runs \ {r}
      PROVE  /\ row'[p] = row[p] /\ requested'[p] = requested[p] /\ approved'[p] = approved[p]
             /\ ran'[p] = ran[p] /\ task'[p] = task[p]
  BY <1>1 DEF HarnessTypes
<1>5. ASSUME NEW p \in Runs PROVE RowOK(row'[p], requested'[p], ran'[p])
  BY <1>3, <1>4 DEF HarnessInv
<1>6. ASSUME NEW p \in Runs, NEW u \in RunTasks
      PROVE  TaskOK(task'[p][u], row'[p], requested'[p], approved'[p], ran'[p])
  <2>1. CASE p # r
    BY <1>4, <2>1 DEF HarnessInv
  <2>2. CASE p = r /\ u = t
    BY <1>3, <2>2
  <2>3. CASE p = r /\ u # t
    <3>1. task'[p][u].at = "none"
      BY <1>3, <2>3
    <3> QED
      BY <3>1 DEF TaskOK
  <2> QED
    BY <2>1, <2>2, <2>3
<1> QED
  BY <1>2, <1>5, <1>6 DEF HarnessInv

\* A step about the row of one run and about no coroutine.
LEMMA RowMoves ==
    ASSUME HarnessInv, NEW r \in Runs, NEW w \in Rows, row' = [row EXCEPT ![r] = w],
           NEW a \in SUBSET Nat, approved' = [approved EXCEPT ![r] = a],
           UNCHANGED <<task, requested, ran>>,
           RowOK(w, requested[r], ran[r]),
           \A t \in RunTasks : TaskOK(task[r][t], w, requested[r], a, ran[r])
    PROVE  HarnessInv'
<1>1. HarnessTypes
  BY DEF HarnessInv
<1>2. HarnessTypes'
  BY <1>1 DEF HarnessTypes
<1>3. /\ row'[r] = w /\ approved'[r] = a
      /\ \A p \in Runs \ {r} : row'[p] = row[p] /\ approved'[p] = approved[p]
  BY <1>1 DEF HarnessTypes
<1> QED
  BY <1>2, <1>3 DEF HarnessInv

LEMMA Unmoved ==
    ASSUME HarnessInv, NEW r \in Runs
    PROVE  /\ row = [row EXCEPT ![r] = row[r]]
           /\ requested = [requested EXCEPT ![r] = requested[r]]
           /\ approved = [approved EXCEPT ![r] = approved[r]]
           /\ ran = [ran EXCEPT ![r] = ran[r]]
  BY DEF HarnessInv, HarnessTypes

\* What the invariant says of one coroutine.
LEMMA Facts ==
    ASSUME HarnessInv, NEW r \in Runs, NEW t \in RunTasks
    PROVE  /\ row[r] \in Rows /\ task[r][t] \in Coroutines /\ requested[r] \in Nat
           /\ approved[r] \in SUBSET Nat /\ ran[r] \in SUBSET Nat
           /\ RowOK(row[r], requested[r], ran[r])
           /\ TaskOK(task[r][t], row[r], requested[r], approved[r], ran[r])
  BY DEF HarnessInv, HarnessTypes

LEMMA OthersNone ==
    ASSUME OneAlive, NEW r \in Runs, NEW t \in RunTasks, task[r][t].at # "none"
    PROVE  \A u \in RunTasks \ {t} : task[r][u].at = "none"
  BY DEF OneAlive, Alive

\* The steps of a coroutine.  Each leaves a row and a coroutine that are in order.
LEMMA TaskMoves ==
    ASSUME HarnessInv, OneAlive, NEW r \in Runs, NEW t \in RunTasks, task[r][t].at # "none",
           NEW w \in Rows, row' = [row EXCEPT ![r] = w],
           NEW c \in Coroutines, task' = [task EXCEPT ![r][t] = c],
           UNCHANGED runHistory,
           RowOK(w, requested[r], ran[r]), TaskOK(c, w, requested[r], approved[r], ran[r])
    PROVE  HarnessInv'
  BY RunMoves, Unmoved, OthersNone, Facts DEF runHistory

LEMMA BeginStep ==
    ASSUME HarnessInv, OneAlive, NEW r \in Runs, NEW t \in RunTasks, Begin(r, t)
    PROVE  HarnessInv'
<1>1. task[r][t].at = "new" /\ UNCHANGED runHistory
  BY DEF Begin
<1>2. CASE FinishedRun(row[r])
  <2>1. task' = [task EXCEPT ![r][t] = NoTask] /\ row' = row
    BY <1>2 DEF Begin, Return
  <2> QED
    BY <1>1, <2>1, TaskMoves, Facts, Unmoved, NoTaskOK
<1>3. CASE ~FinishedRun(row[r])
  <2>1. /\ row' = [row EXCEPT ![r] = Begun(row[r])]
        /\ task' = [task EXCEPT ![r][t] = BegunTask(row[r], task[r][t])]
    BY <1>3 DEF Begin, Continue
  <2>2. Begun(row[r]) \in Rows /\ RowOK(Begun(row[r]), requested[r], ran[r])
    BY Facts, BegunOK
  <2>3. /\ BegunTask(row[r], task[r][t]) \in Coroutines
        /\ TaskOK(BegunTask(row[r], task[r][t]), Begun(row[r]), requested[r], approved[r], ran[r])
    BY <1>1, Facts, BegunTaskOK
  <2> QED
    BY <1>1, <2>1, <2>2, <2>3, TaskMoves
<1> QED
  BY <1>2, <1>3

LEMMA LoopStep ==
    ASSUME HarnessInv, OneAlive, NEW r \in Runs, NEW t \in RunTasks, Loop(r, t)
    PROVE  HarnessInv'
<1>1. task[r][t].at \in {"start", "loop"} /\ UNCHANGED runHistory /\ row[r].status = "running"
  BY Facts DEF Loop, TaskOK
<1>2. ASSUME NEW s \in {"paused", "cancelled", "failed", "completed"}, NEW x \in Reason,
             row' = [row EXCEPT ![r] = Ended(row[r], task[r][t], s, x)], Return(r, t)
      PROVE  HarnessInv'
  <2>1. /\ Ended(row[r], task[r][t], s, x) \in Rows
        /\ RowOK(Ended(row[r], task[r][t], s, x), requested[r], ran[r])
    BY <1>1, Facts, EndedOK
  <2> QED
    BY <1>1, <1>2, <2>1, TaskMoves, NoTaskOK DEF Return
<1>3. CASE Continue(r, t, Asking(task[r][t])) /\ UNCHANGED row
  <2>1. /\ Asking(task[r][t]) \in Coroutines
        /\ TaskOK(Asking(task[r][t]), row[r], requested[r], approved[r], ran[r])
    BY <1>1, Facts, AskingOK
  <2> QED
    BY <1>1, <1>3, <2>1, TaskMoves, Facts, Unmoved DEF Continue
<1> QED
  BY <1>2, <1>3 DEF Loop, Reason

LEMMA PlanReturnsStep ==
    ASSUME HarnessInv, OneAlive, NEW r \in Runs, NEW t \in RunTasks, PlanReturns(r, t)
    PROVE  HarnessInv'
<1>1. task[r][t].at = "plan" /\ UNCHANGED runHistory /\ row[r].status = "running"
  BY Facts DEF PlanReturns, TaskOK
<1>2. PICK made \in BOOLEAN :
        /\ task' = [task EXCEPT ![r][t] = Planned(task[r][t], made)]
        /\ row' = [row EXCEPT ![r] = Checkpointed(row[r], Planned(task[r][t], made))]
  BY DEF PlanReturns, Continue
<1>3. PICK c \in Coroutines : c = Planned(task[r][t], made)
  BY <1>1, Facts, PlannedOK
<1>4. /\ Checkpointed(row[r], c) \in Rows /\ Checkpointed(row[r], c).status = row[r].status
      /\ Checkpointed(row[r], c).pending = row[r].pending
  BY Facts, CheckpointedOK
<1>5. RowOK(Checkpointed(row[r], c), requested[r], ran[r])
  BY <1>4, Facts DEF RowOK
<1>6. TaskOK(c, Checkpointed(row[r], c), requested[r], approved[r], ran[r])
  BY <1>1, <1>3, <1>4, Facts, PlannedOK
<1> QED
  BY <1>1, <1>2, <1>3, <1>4, <1>5, <1>6, TaskMoves

LEMMA FailsStep ==
    ASSUME HarnessInv, OneAlive, NEW r \in Runs, NEW t \in RunTasks, Fails(r, t)
    PROVE  HarnessInv'
<1>1. /\ task[r][t].at \in {"plan", "model", "call"} /\ UNCHANGED runHistory
      /\ row[r].status = "running"
      /\ row' = [row EXCEPT ![r] = ErrorRow(row[r], task[r][t])]
      /\ task' = [task EXCEPT ![r][t] = NoTask]
  BY Facts DEF Fails, TaskOK, Return
<1>2. ErrorRow(row[r], task[r][t]) \in Rows /\ RowOK(ErrorRow(row[r], task[r][t]), requested[r], ran[r])
  BY <1>1, Facts, ErrorRowOK
<1> QED
  BY <1>1, <1>2, TaskMoves, NoTaskOK

LEMMA ToolReturnsStep ==
    ASSUME HarnessInv, OneAlive, NEW r \in Runs, NEW t \in RunTasks, ToolReturns(r, t)
    PROVE  HarnessInv'
<1>1. /\ task[r][t].at = "call" /\ UNCHANGED <<row, runHistory>>
      /\ task' = [task EXCEPT ![r][t] = AfterFirst(task[r][t])]
  BY DEF ToolReturns, Continue
<1>2. task[r][t].calls # << >>
  BY <1>1, Facts DEF TaskOK
<1>3. /\ AfterFirst(task[r][t]) \in Coroutines
      /\ TaskOK(AfterFirst(task[r][t]), row[r], requested[r], approved[r], ran[r])
  BY <1>1, <1>2, Facts, AfterFirstOK
<1> QED
  BY <1>1, <1>3, TaskMoves, Facts, Unmoved

LEMMA CallsDoneStep ==
    ASSUME HarnessInv, OneAlive, NEW r \in Runs, NEW t \in RunTasks, CallsDone(r, t)
    PROVE  HarnessInv'
<1> DEFINE c == Looping(task[r][t])
<1>1. task[r][t].at = "tools" /\ UNCHANGED runHistory /\ row[r].status = "running"
  BY Facts DEF CallsDone, TaskOK
<1>2. task[r][t].calls = << >> /\ c \in Coroutines
  <2>1. c.calls = task[r][t].calls /\ c \in Coroutines
    BY <1>1, Facts, LoopingKeeps
  <2> QED
    BY <2>1 DEF CallsDone
<1>3. \A v : v.status = row[r].status => TaskOK(c, v, requested[r], approved[r], ran[r])
  BY <1>1, <1>2, Facts, LoopingOK
<1> HIDE DEF c
<1>4. CASE Continue(r, t, c) /\ row' = row
  BY <1>1, <1>2, <1>3, <1>4, TaskMoves, Facts, Unmoved DEF Continue
<1>5. CASE Continue(r, t, c) /\ row' = [row EXCEPT ![r] = Checkpointed(row[r], c)]
  <2>1. /\ Checkpointed(row[r], c) \in Rows /\ Checkpointed(row[r], c).status = row[r].status
        /\ Checkpointed(row[r], c).pending = row[r].pending
    BY <1>2, Facts, CheckpointedOK
  <2>2. RowOK(Checkpointed(row[r], c), requested[r], ran[r])
    BY <2>1, Facts DEF RowOK
  <2> QED
    BY <1>1, <1>2, <1>3, <1>5, <2>1, <2>2, TaskMoves DEF Continue
<1>6. CASE row' = [row EXCEPT ![r] = Ended(row[r], c, "failed", "final")] /\ Return(r, t)
  <2>1. /\ Ended(row[r], c, "failed", "final") \in Rows
        /\ RowOK(Ended(row[r], c, "failed", "final"), requested[r], ran[r])
    BY <1>1, <1>2, Facts, EndedOK DEF Reason
  <2> QED
    BY <1>1, <1>6, <2>1, TaskMoves, NoTaskOK DEF Return
<1> QED
  BY <1>4, <1>5, <1>6 DEF CallsDone, c

\* The calls of a new reply are numbered on from the ones before.
LEMMA NewCallsOK ==
    ASSUME HarnessInv, NEW r \in Runs, NEW m \in Nat, NEW gs \in [1..m -> Guarded]
    PROVE  /\ NewCalls(r, gs) \in Seq(Calls) /\ Rising(NewCalls(r, gs))
           /\ Fresh(NewCalls(r, gs), 1, requested[r] + m, ran[r])
<1> DEFINE s == NewCalls(r, gs)
<1>1. requested[r] \in Nat /\ \A i \in ran[r] : i <= requested[r]
  BY DEF HarnessInv, HarnessTypes, RowOK
<1>2. ASSUME NEW i \in 1..m
      PROVE  [id |-> requested[r] + i, guarded |-> gs[i]] \in Calls
  BY <1>1, HarnessAssumption DEF Calls
<1>3. s = [i \in 1..m |-> [id |-> requested[r] + i, guarded |-> gs[i]]]
  BY DEF NewCalls
<1>4. s \in Seq(Calls) /\ DOMAIN s = 1..m
  BY <1>2, <1>3, IsASeq
<1>5. \A i \in 1..m : s[i].id = requested[r] + i
  BY <1>3
<1> HIDE DEF s
<1>6. Rising(s) /\ Fresh(s, 1, requested[r] + m, ran[r])
  BY <1>1, <1>4, <1>5 DEF Rising, Fresh
<1> QED
  BY <1>4, <1>6 DEF s

LEMMA ModelReturnsStep ==
    ASSUME HarnessInv, OneAlive, NEW r \in Runs, NEW t \in RunTasks, ModelReturns(r, t)
    PROVE  HarnessInv'
<1> DEFINE c == task[r][t]
<1>1. c.at = "model" /\ row[r].status = "running" /\ UNCHANGED <<approved, ran>>
  BY Facts DEF ModelReturns, TaskOK
<1>2. CASE /\ row' = [row EXCEPT ![r] = Ended(row[r], Replied(c, << >>), "completed", "final")]
           /\ Return(r, t) /\ UNCHANGED requested
  <2>1. << >> \in Seq(Calls) /\ Rising(<< >>) /\ Fresh(<< >>, 1, requested[r], ran[r])
    BY DEF Rising, Fresh
  <2>2. Replied(c, << >>) \in Coroutines
    BY <1>1, <2>1, Facts, RepliedOK
  <2>3. /\ Ended(row[r], Replied(c, << >>), "completed", "final") \in Rows
        /\ RowOK(Ended(row[r], Replied(c, << >>), "completed", "final"), requested[r], ran[r])
    BY <1>1, <2>2, Facts, EndedOK DEF Reason
  <2> QED
    BY <1>1, <1>2, <2>3, TaskMoves, NoTaskOK DEF Return, runHistory
<1>3. ASSUME NEW m \in 1..MaxCalls, NEW gs \in [1..m -> Guarded],
             requested' = [requested EXCEPT ![r] = @ + m],
             Continue(r, t, Replied(c, NewCalls(r, gs))), UNCHANGED row
      PROVE  HarnessInv'
  <2>1. PICK q \in Nat : q = requested[r] + m
    BY HarnessAssumption DEF HarnessInv, HarnessTypes
  <2>2. /\ NewCalls(r, gs) \in Seq(Calls) /\ Rising(NewCalls(r, gs))
        /\ Fresh(NewCalls(r, gs), 1, q, ran[r])
    BY <2>1, NewCallsOK, HarnessAssumption
  <2>3. /\ Replied(c, NewCalls(r, gs)) \in Coroutines
        /\ TaskOK(Replied(c, NewCalls(r, gs)), row[r], q, approved[r], ran[r])
    BY <1>1, <2>2, Facts, RepliedOK
  <2>4. RowOK(row[r], q, ran[r])
    <3>1. RowOK(row[r], requested[r], ran[r]) /\ ran[r] \subseteq Nat /\ requested[r] \in Nat
      BY Facts
    <3>2. row[r].pending = << >>
      BY <1>1, <3>1 DEF RowOK
    <3>3. \A i \in ran[r] : i <= q
      BY <2>1, <3>1, HarnessAssumption DEF RowOK
    <3> QED
      BY <1>1, <3>1, <3>2, <3>3 DEF RowOK, Fresh
  <2>5. requested' = [requested EXCEPT ![r] = q]
    BY <1>3, <2>1
  <2>6. /\ \A u \in RunTasks \ {t} : task[r][u].at = "none"
        /\ row[r] \in Rows /\ approved[r] \in SUBSET Nat /\ ran[r] \in SUBSET Nat
    BY <1>1, OthersNone, Facts
  <2>7. /\ row' = [row EXCEPT ![r] = row[r]] /\ approved' = [approved EXCEPT ![r] = approved[r]]
        /\ ran' = [ran EXCEPT ![r] = ran[r]]
        /\ task' = [task EXCEPT ![r][t] = Replied(c, NewCalls(r, gs))]
    BY <1>1, <1>3, Unmoved DEF Continue
  <2> QED
    BY <2>3, <2>4, <2>5, <2>6, <2>7, RunMoves
<1> QED
  BY <1>2, <1>3 DEF ModelReturns

LEMMA NextCallStep ==
    ASSUME HarnessInv, OneAlive, NEW r \in Runs, NEW t \in RunTasks, NextCall(r, t)
    PROVE  HarnessInv'
<1> DEFINE c == task[r][t]
           first == Head(c.calls)
<1>1. c.at = "tools" /\ c.calls # << >> /\ UNCHANGED <<requested, approved>>
  BY DEF NextCall
<1>2. first \in Calls /\ Rising(c.calls) /\ Fresh(c.calls, 1, requested[r], ran[r])
      /\ row[r].status = "running"
  <2>1. c.calls \in Seq(Calls)
    BY Facts DEF Coroutines
  <2>2. first \in Calls
    BY <1>1, <2>1
  <2>3. TaskOK(c, row[r], requested[r], approved[r], ran[r])
    BY Facts
  <2> QED
    BY <1>1, <2>2, <2>3 DEF TaskOK
<1>3. CASE /\ first.guarded /\ row' = [row EXCEPT ![r] = WaitingRow(row[r], c)]
           /\ Return(r, t) /\ UNCHANGED ran
  <2>1. first.guarded = TRUE
    BY <1>2, <1>3 DEF Calls
  <2>2. WaitingRow(row[r], c) \in Rows /\ RowOK(WaitingRow(row[r], c), requested[r], ran[r])
    BY <1>1, <1>2, <2>1, Facts, WaitingRowOK
  <2> QED
    BY <1>1, <1>3, <2>2, TaskMoves, NoTaskOK DEF Return, runHistory
<1>4. CASE Continue(r, t, AfterFirst(c)) /\ UNCHANGED <<row, ran>>
  <2>1. /\ AfterFirst(c) \in Coroutines
        /\ TaskOK(AfterFirst(c), row[r], requested[r], approved[r], ran[r])
    BY <1>1, Facts, AfterFirstOK
  <2> QED
    BY <1>1, <1>4, <2>1, TaskMoves, Facts, Unmoved DEF Continue, runHistory
<1>5. CASE /\ Continue(r, t, Calling(c)) /\ UNCHANGED row
           /\ ran' = [ran EXCEPT ![r] = @ \cup {first.id}]
  <2> DEFINE n == ran[r] \cup {first.id}
  <2>1. /\ Calling(c) \in Coroutines
        /\ TaskOK(Calling(c), row[r], requested[r], approved[r], n)
    BY <1>1, Facts, CallingOK
  <2>2. n \in SUBSET Nat /\ ran' = [ran EXCEPT ![r] = n]
    BY <1>2, <1>5, Facts DEF Calls
  <2>3. RowOK(row[r], requested[r], n)
    <3>1. first.id <= requested[r]
      <4>1. c.calls \in Seq(Calls) /\ 1 \in DOMAIN c.calls /\ first = c.calls[1]
        BY <1>1, Facts DEF Coroutines
      <4> QED
        BY <1>2, <4>1 DEF Fresh
    <3>2. row[r].pending = << >> /\ RowOK(row[r], requested[r], ran[r])
      BY <1>2, Facts DEF RowOK
    <3> QED
      BY <1>2, <3>1, <3>2 DEF RowOK, Fresh
  <2> HIDE DEF n
  <2>4. /\ \A u \in RunTasks \ {t} : task[r][u].at = "none"
        /\ row[r] \in Rows /\ approved[r] \in SUBSET Nat /\ requested[r] \in Nat
    BY <1>1, OthersNone, Facts
  <2>5. /\ row' = [row EXCEPT ![r] = row[r]] /\ approved' = [approved EXCEPT ![r] = approved[r]]
        /\ requested' = [requested EXCEPT ![r] = requested[r]]
        /\ task' = [task EXCEPT ![r][t] = Calling(c)]
    BY <1>1, <1>5, Unmoved DEF Continue
  <2> QED
    BY <2>1, <2>2, <2>3, <2>4, <2>5, RunMoves
<1> QED
  BY <1>3, <1>4, <1>5 DEF NextCall

-----------------------------------------------------------------------------
\* The requests.  A row with the same status and pending calls serves as well.
LEMMA SameForTask ==
    ASSUME NEW c, NEW w, NEW v, NEW q, NEW ok, NEW n, TaskOK(c, w, q, ok, n),
           v.status = w.status, v.pending = w.pending
    PROVE  TaskOK(c, v, q, ok, n)
  BY DEF TaskOK

\* Nothing is executing a run that is paused or waiting, so ending it is safe.
LEMMA CancelledForTask ==
    ASSUME NEW c, NEW w \in Rows, NEW q, NEW ok, NEW n, RowOK(w, q, n), TaskOK(c, w, q, ok, n),
           w.status \in {"paused", "waiting_approval"}
    PROVE  TaskOK(c, CancelledRow(w), q, ok, n)
<1>1. CancelledRow(w).status = "cancelled" /\ CancelledRow(w).pending = w.pending
  BY CancelledRowOK
<1> QED
  BY <1>1 DEF TaskOK

LEMMA ControlledOK ==
    ASSUME NEW w \in Rows, NEW q, NEW n, RowOK(w, q, n), NEW x \in {"pause", "cancel", "kill"}
    PROVE  /\ [w EXCEPT !.control = x] \in Rows /\ RowOK([w EXCEPT !.control = x], q, n)
           /\ [w EXCEPT !.control = x].status = w.status
           /\ [w EXCEPT !.control = x].pending = w.pending
<1> DEFINE v == [w EXCEPT !.control = x]
<1>1. v \in Rows /\ v.status = w.status /\ v.pending = w.pending
  BY DEF Rows
<1> HIDE DEF v
<1>2. RowOK(v, q, n)
  BY <1>1 DEF RowOK
<1> QED
  BY <1>1, <1>2 DEF v

LEMMA StartedKeeps ==
    ASSUME NEW w \in Rows
    PROVE  /\ [w EXCEPT !.status = "running"] \in Rows
           /\ [w EXCEPT !.status = "running"].status = "running"
           /\ [w EXCEPT !.status = "running"].pending = w.pending
  BY DEF Rows, RunStatus, ACTIVE

LEMMA StatusFacts ==
    ASSUME HarnessInv, NEW r \in Runs
    PROVE  /\ row[r] \in Rows /\ RowOK(row[r], requested[r], ran[r]) /\ approved[r] \in SUBSET Nat
           /\ \A t \in RunTasks : TaskOK(task[r][t], row[r], requested[r], approved[r], ran[r])
  BY DEF HarnessInv, HarnessTypes

LEMMA CancelRunStep ==
    ASSUME HarnessInv, NEW r \in Runs, CancelRun(r)
    PROVE  HarnessInv'
<1>1. UNCHANGED <<task, runHistory>>
  BY DEF CancelRun
<1>2. CASE row[r].status \in {"paused", "waiting_approval"}
  <2>1. row' = [row EXCEPT ![r] = CancelledRow(row[r])]
    BY <1>2 DEF CancelRun
  <2>2. /\ CancelledRow(row[r]) \in Rows /\ RowOK(CancelledRow(row[r]), requested[r], ran[r])
        /\ \A t \in RunTasks :
              TaskOK(task[r][t], CancelledRow(row[r]), requested[r], approved[r], ran[r])
    BY <1>2, StatusFacts, CancelledRowOK, CancelledForTask
  <2> QED
    BY <1>1, <2>1, <2>2, RowMoves, StatusFacts, Unmoved DEF runHistory
<1>3. CASE row[r].status \notin {"paused", "waiting_approval"}
  <2> DEFINE v == [row[r] EXCEPT !.control = "cancel"]
  <2>1. row' = [row EXCEPT ![r] = v]
    BY <1>3 DEF CancelRun
  <2>2. "cancel" \in {"pause", "cancel", "kill"}
    OBVIOUS
  <2>3. /\ v \in Rows /\ RowOK(v, requested[r], ran[r]) /\ v.status = row[r].status
        /\ v.pending = row[r].pending
    BY <2>2, StatusFacts, ControlledOK, Zenon
  <2> HIDE DEF v
  <2>4. \A t \in RunTasks : TaskOK(task[r][t], v, requested[r], approved[r], ran[r])
    BY <2>3, StatusFacts, SameForTask
  <2> QED
    BY <1>1, <2>1, <2>3, <2>4, RowMoves, StatusFacts, Unmoved DEF runHistory
<1> QED
  BY <1>2, <1>3

LEMMA PauseRunStep ==
    ASSUME HarnessInv, NEW r \in Runs, PauseRun(r)
    PROVE  HarnessInv'
<1> DEFINE v == [row[r] EXCEPT !.control = "pause"]
<1>1. UNCHANGED <<task, runHistory>> /\ row' = [row EXCEPT ![r] = v]
  BY DEF PauseRun
<1>2. "pause" \in {"pause", "cancel", "kill"}
  OBVIOUS
<1>3. /\ v \in Rows /\ RowOK(v, requested[r], ran[r]) /\ v.status = row[r].status
      /\ v.pending = row[r].pending
  BY <1>2, StatusFacts, ControlledOK, Zenon
<1> HIDE DEF v
<1>4. \A t \in RunTasks : TaskOK(task[r][t], v, requested[r], approved[r], ran[r])
  BY <1>3, StatusFacts, SameForTask
<1> QED
  BY <1>1, <1>3, <1>4, RowMoves, StatusFacts, Unmoved DEF runHistory

LEMMA KilledOK ==
    ASSUME HarnessInv, NEW r \in Runs
    PROVE  /\ Killed(row[r]) \in Rows /\ RowOK(Killed(row[r]), requested[r], ran[r])
           /\ \A t \in RunTasks :
                 TaskOK(task[r][t], Killed(row[r]), requested[r], approved[r], ran[r])
<1>1. CASE row[r].status \in {"paused", "waiting_approval"}
  <2>1. Killed(row[r]) = CancelledRow(row[r])
    BY <1>1 DEF Killed
  <2> QED
    BY <1>1, <2>1, StatusFacts, CancelledRowOK, CancelledForTask
<1>2. CASE row[r].status = "running"
  <2> DEFINE v == [row[r] EXCEPT !.control = "kill"]
  <2>1. Killed(row[r]) = v
    BY <1>2 DEF Killed
  <2>2. "kill" \in {"pause", "cancel", "kill"}
    OBVIOUS
  <2>3. /\ v \in Rows /\ RowOK(v, requested[r], ran[r]) /\ v.status = row[r].status
        /\ v.pending = row[r].pending
    BY <2>2, StatusFacts, ControlledOK, Zenon
  <2> HIDE DEF v
  <2> QED
    BY <2>1, <2>3, StatusFacts, SameForTask
<1>3. CASE row[r].status \notin {"paused", "waiting_approval", "running"}
  <2>1. Killed(row[r]) = row[r]
    BY <1>3 DEF Killed
  <2> QED
    BY <2>1, StatusFacts
<1> QED
  BY <1>1, <1>2, <1>3

LEMMA KillRunsStep ==
    ASSUME HarnessInv, KillRuns
    PROVE  HarnessInv'
<1>1. row' = [r \in Runs |-> Killed(row[r])] /\ UNCHANGED <<task, requested, approved, ran>>
  BY DEF KillRuns, runHistory
<1>2. HarnessTypes'
  BY <1>1, KilledOK DEF HarnessInv, HarnessTypes
<1> QED
  BY <1>1, <1>2, KilledOK DEF HarnessInv

\* A coroutine is spawned, which is then the only one, or there is one already.
LEMMA SpawnStep ==
    ASSUME HarnessInv, OneAlive', NEW r \in Runs, NEW d \in BOOLEAN \cup {None}, Spawn(r, d),
           NEW w \in Rows, row' = [row EXCEPT ![r] = w], w.status # "absent",
           NEW a \in SUBSET Nat, approved' = [approved EXCEPT ![r] = a],
           UNCHANGED <<requested, ran>>, RowOK(w, requested[r], ran[r]),
           d = TRUE => w.pending # << >> /\ Head(w.pending).id \in a,
           \A t \in RunTasks : TaskOK(task[r][t], w, requested[r], a, ran[r])
    PROVE  HarnessInv'
<1>1. CASE task' = task
  BY <1>1, RowMoves
<1>2. ASSUME NEW t \in RunTasks \ Alive(r), task' = [task EXCEPT ![r][t] = NewTask(d)]
      PROVE  HarnessInv'
  <2>1. NewTask(d) \in Coroutines /\ TaskOK(NewTask(d), w, requested[r], a, ran[r])
    BY NewTaskOK
  <2>2. ASSUME NEW u \in RunTasks \ {t} PROVE task[r][u].at = "none"
    <3>1. task'[r][t] = NewTask(d) /\ task'[r][u] = task[r][u]
      BY <1>2 DEF HarnessInv, HarnessTypes
    <3>2. NewTask(d).at = "new"
      BY DEF NewTask, NoTask
    <3>3. task'[r][u].at = "none"
      BY <3>1, <3>2 DEF OneAlive, Alive
    <3> QED
      BY <3>1, <3>3
  <2>3. /\ requested' = [requested EXCEPT ![r] = requested[r]] /\ ran' = [ran EXCEPT ![r] = ran[r]]
        /\ requested[r] \in Nat /\ ran[r] \in SUBSET Nat
    BY Unmoved DEF HarnessInv, HarnessTypes
  <2> QED
    BY <1>2, <2>1, <2>2, <2>3, RunMoves
<1> QED
  BY <1>1, <1>2 DEF Spawn

LEMMA StartRunStep ==
    ASSUME HarnessInv, OneAlive', NEW r \in Runs, StartRun(r)
    PROVE  HarnessInv'
<1> DEFINE w == [row[r] EXCEPT !.status = "running"]
<1>1. /\ row[r].status = "absent" /\ row' = [row EXCEPT ![r] = w] /\ Spawn(r, None)
      /\ UNCHANGED <<requested, approved, ran>>
  BY DEF StartRun, runHistory
<1>2. w \in Rows /\ w.status = "running" /\ w.pending = row[r].pending
  BY StatusFacts, StartedKeeps, Zenon
<1> HIDE DEF w
<1>3. RowOK(w, requested[r], ran[r])
  <2>1. RowOK(row[r], requested[r], ran[r])
    BY StatusFacts
  <2> QED
    BY <1>1, <1>2, <2>1 DEF RowOK
<1>4. ASSUME NEW t \in RunTasks PROVE TaskOK(task[r][t], w, requested[r], approved[r], ran[r])
  <2>1. TaskOK(task[r][t], row[r], requested[r], approved[r], ran[r])
    BY StatusFacts
  <2>2. task[r][t].at = "none"
    BY <1>1, <2>1 DEF TaskOK
  <2> QED
    BY <2>2 DEF TaskOK
<1>5. /\ None \in BOOLEAN \cup {None} /\ None # TRUE /\ approved[r] \in SUBSET Nat
      /\ approved' = [approved EXCEPT ![r] = approved[r]] /\ w.status # "absent"
  BY <1>1, <1>2, StatusFacts, Unmoved, HarnessAssumption
<1> QED
  BY <1>1, <1>2, <1>3, <1>4, <1>5, SpawnStep

LEMMA ResumeRunStep ==
    ASSUME HarnessInv, OneAlive', NEW r \in Runs, ResumeRun(r)
    PROVE  HarnessInv'
<1>1. UNCHANGED <<row, requested, ran>> /\ row' = [row EXCEPT ![r] = row[r]]
  BY Unmoved DEF ResumeRun
<1>2. CASE row[r].status = "waiting_approval"
  <2>1. PICK yes \in BOOLEAN :
          /\ Spawn(r, yes)
          /\ approved' = IF yes
                THEN [approved EXCEPT ![r] = @ \cup {Head(row[r].pending).id}] ELSE approved
    BY <1>2 DEF ResumeRun
  <2>2. row[r].pending # << >> /\ row[r].pending \in Seq(Calls) /\ approved[r] \in SUBSET Nat
    BY <1>2, StatusFacts DEF RowOK, Rows
  <2>3. Head(row[r].pending).id \in Nat
    <3>1. Head(row[r].pending) \in Calls
      BY <2>2
    <3> QED
      BY <3>1 DEF Calls
  <2>4. PICK a \in SUBSET Nat :
          /\ approved' = [approved EXCEPT ![r] = a] /\ approved[r] \subseteq a
          /\ yes = TRUE => Head(row[r].pending).id \in a
    <3>1. CASE yes
      BY <2>1, <2>2, <2>3, <3>1
    <3>2. CASE ~yes
      BY <2>1, <2>2, <3>2, Unmoved
    <3> QED
      BY <3>1, <3>2
  <2>5. ASSUME NEW t \in RunTasks PROVE TaskOK(task[r][t], row[r], requested[r], a, ran[r])
    <3>1. TaskOK(task[r][t], row[r], requested[r], approved[r], ran[r])
      BY StatusFacts
    <3>2. CASE task[r][t].at = "tools"
      BY <1>2, <3>1, <3>2 DEF TaskOK
    <3>3. CASE task[r][t].at # "tools"
      BY <2>4, <3>1, <3>3 DEF TaskOK
    <3> QED
      BY <3>2, <3>3
  <2>6. /\ yes \in BOOLEAN \cup {None} /\ row[r] \in Rows /\ row[r].status # "absent"
        /\ RowOK(row[r], requested[r], ran[r])
        /\ yes = TRUE => row[r].pending # << >> /\ Head(row[r].pending).id \in a
    BY <1>2, <2>2, <2>4, StatusFacts
  <2> QED
    BY <1>1, <2>1, <2>4, <2>5, <2>6, SpawnStep
<1>3. CASE /\ row[r].status \in {"paused", "failed"} /\ Spawn(r, None) /\ UNCHANGED approved
  <2>1. /\ None \in BOOLEAN \cup {None} /\ None # TRUE /\ approved[r] \in SUBSET Nat
        /\ approved' = [approved EXCEPT ![r] = approved[r]] /\ row[r].status # "absent"
    BY <1>3, StatusFacts, Unmoved, HarnessAssumption
  <2> QED
    BY <1>1, <1>3, <2>1, SpawnStep, StatusFacts
<1> QED
  BY <1>2, <1>3 DEF ResumeRun

-----------------------------------------------------------------------------
\* The process.  What is in memory is gone; the rows were in order all along.
LEMMA DownStep ==
    ASSUME HarnessInv, Down, row' \in [Runs -> Rows],
           \A r \in Runs : RowOK(row'[r], requested[r], ran[r])
    PROVE  HarnessInv'
<1>1. /\ task' = [r \in Runs |-> [t \in RunTasks |-> NoTask]]
      /\ UNCHANGED <<requested, approved, ran>>
  BY DEF Down, runHistory
<1>2. HarnessTypes'
  BY <1>1, NoTaskOK DEF HarnessInv, HarnessTypes
<1>3. ASSUME NEW r \in Runs, NEW t \in RunTasks
      PROVE  TaskOK(task'[r][t], row'[r], requested[r], approved[r], ran[r])
  BY <1>1, NoTaskOK
<1> QED
  BY <1>1, <1>2, <1>3 DEF HarnessInv

LEMMA CrashStep ==
    ASSUME HarnessInv, Crash
    PROVE  HarnessInv'
  BY DownStep, StatusFacts DEF Crash, HarnessInv, HarnessTypes

LEMMA ShutdownStep ==
    ASSUME HarnessInv, Shutdown
    PROVE  HarnessInv'
<1>1. PICK last \in [Runs -> RunTasks] :
        /\ \A r \in Runs : ExecutingRun(r) # {} => last[r] \in ExecutingRun(r)
        /\ row' = [r \in Runs |-> IF ExecutingRun(r) = {} THEN row[r]
                                  ELSE StoppedRow(row[r], task[r][last[r]])]
  BY DEF Shutdown
<1>2. ASSUME NEW r \in Runs
      PROVE  row'[r] \in Rows /\ RowOK(row'[r], requested[r], ran[r])
  <2>1. CASE ExecutingRun(r) = {}
    BY <1>1, <2>1, StatusFacts
  <2>2. CASE ExecutingRun(r) # {}
    <3>1. last[r] \in RunTasks /\ task[r][last[r]].at \notin {"none", "new"}
      BY <1>1, <2>2 DEF ExecutingRun, Alive
    <3>2. row[r].status = "running" /\ row[r] \in Rows /\ task[r][last[r]] \in Coroutines
      BY <3>1, Facts DEF TaskOK
    <3>3. row'[r] = StoppedRow(row[r], task[r][last[r]])
      BY <1>1, <2>2
    <3> QED
      BY <3>2, <3>3, StatusFacts, StoppedRowOK
  <2> QED
    BY <2>1, <2>2
<1>3. row' \in [Runs -> Rows]
  BY <1>1, <1>2
<1> QED
  BY <1>2, <1>3, DownStep DEF Shutdown

LEMMA RestartStep ==
    ASSUME HarnessInv, Restart
    PROVE  HarnessInv'
<1>1. PICK t \in RunTasks :
        task' = [r \in Runs |-> IF r \in Interrupted
                                THEN [task[r] EXCEPT ![t] = NewTask(None)] ELSE task[r]]
  BY DEF Restart
<1>2. UNCHANGED <<row, requested, approved, ran>>
  BY DEF Restart, runHistory
<1>3. None \in BOOLEAN \cup {None} /\ None # TRUE
  BY HarnessAssumption
<1>4. ASSUME NEW r \in Runs
      PROVE  /\ task'[r] \in [RunTasks -> Coroutines]
             /\ \A u \in RunTasks : TaskOK(task'[r][u], row[r], requested[r], approved[r], ran[r])
  <2>1. task[r] \in [RunTasks -> Coroutines]
    BY DEF HarnessInv, HarnessTypes
  <2>2. CASE r \in Interrupted
    <3>1. row[r].status = "running"
      BY <2>2 DEF Interrupted
    <3>2. /\ NewTask(None) \in Coroutines
          /\ TaskOK(NewTask(None), row[r], requested[r], approved[r], ran[r])
      BY <1>3, <3>1, NewTaskOK
    <3>3. task'[r] = [task[r] EXCEPT ![t] = NewTask(None)]
      BY <1>1, <2>2
    <3> QED
      BY <2>1, <3>2, <3>3, StatusFacts
  <2>3. CASE r \notin Interrupted
    BY <1>1, <2>1, <2>3, StatusFacts
  <2> QED
    BY <2>2, <2>3
<1>5. HarnessTypes'
  <2>1. task' \in [Runs -> [RunTasks -> Coroutines]]
    BY <1>1, <1>4
  <2> QED
    BY <1>2, <2>1 DEF HarnessInv, HarnessTypes
<1> QED
  BY <1>2, <1>4, <1>5 DEF HarnessInv

LEMMA HarnessStep == HarnessInv /\ OneAlive /\ OneAlive' /\ [HarnessNext]_runVars => HarnessInv'
<1> SUFFICES ASSUME HarnessInv, OneAlive, OneAlive', [HarnessNext]_runVars PROVE HarnessInv'
  OBVIOUS
<1>1. ASSUME NEW r \in Runs, NEW t \in RunTasks, TaskStep(r, t) PROVE HarnessInv'
  BY <1>1, BeginStep, LoopStep, PlanReturnsStep, ModelReturnsStep, NextCallStep,
     ToolReturnsStep, CallsDoneStep, FailsStep DEF TaskStep
<1>2. ASSUME NEW r \in Runs, ForgetTask(r) PROVE HarnessInv'
  BY <1>2 DEF ForgetTask, runHistory, HarnessInv, HarnessTypes
<1>3. CASE UNCHANGED runVars
  BY <1>3 DEF runVars, HarnessInv, HarnessTypes
<1> QED
  BY <1>1, <1>2, <1>3, StartRunStep, CancelRunStep, PauseRunStep, ResumeRunStep,
     KillRunsStep, CrashStep, ShutdownStep, RestartStep DEF HarnessNext

\* harness/runtime.py, cancel(): "nothing running".  While no run has two tasks, a
\* run that is paused or waits for a human is executed by nobody, and one that
\* waits has a call to ask about, for any number of runs, calls, steps, crashes
\* and shutdowns.
THEOREM IdleRunsStayIdle == HarnessSpec /\ []OneAlive => []IdleRunsAreIdle
<1>1. HarnessInv => IdleRunsAreIdle
  <2> SUFFICES ASSUME HarnessInv, NEW r \in Runs, row[r].status \in {"paused", "waiting_approval"}
               PROVE  /\ ExecutingRun(r) = {}
                      /\ row[r].status = "waiting_approval" =>
                            row[r].pending # << >> /\ Head(row[r].pending).guarded
    BY DEF IdleRunsAreIdle
  <2>1. ASSUME NEW t \in ExecutingRun(r) PROVE FALSE
    BY <2>1, StatusFacts DEF ExecutingRun, Alive, TaskOK
  <2>2. RowOK(row[r], requested[r], ran[r])
    BY StatusFacts
  <2> QED
    BY <2>1, <2>2 DEF RowOK
<1> QED
  BY <1>1, HarnessStart, HarnessStep, PTL DEF HarnessSpec

-----------------------------------------------------------------------------
\* A step writes the row of a finished run in no case.
LEMMA FinalStep ==
    ASSUME HarnessInv, [HarnessNext]_runVars, NEW p \in Runs, FinishedRun(row[p])
    PROVE  row'[p] = row[p]
<1>1. row[p].status \in {"completed", "cancelled", "failed"} /\ row \in [Runs -> Rows]
  BY DEF FinishedRun, HarnessInv, HarnessTypes
<1>2. ASSUME NEW r \in Runs, NEW t \in RunTasks, TaskStep(r, t) PROVE row'[p] = row[p]
  <2>1. TaskOK(task[r][t], row[r], requested[r], approved[r], ran[r])
    BY StatusFacts
  <2>2. CASE Begin(r, t)
    BY <1>1, <2>2 DEF Begin
  <2>3. CASE ~Begin(r, t)
    <3>1. task[r][t].at \notin {"none", "new"}
      BY <1>2, <2>3 DEF TaskStep, Loop, PlanReturns, ModelReturns, NextCall, ToolReturns,
         CallsDone, Fails
    <3>2. p # r
      BY <1>1, <2>1, <3>1 DEF TaskOK
    <3> QED
      BY <1>1, <1>2, <2>3, <3>2 DEF TaskStep, Loop, PlanReturns, ModelReturns, NextCall,
         ToolReturns, CallsDone, Fails
  <2> QED
    BY <2>2, <2>3
<1>3. ASSUME NEW r \in Runs, ForgetTask(r) \/ ResumeRun(r) PROVE row'[p] = row[p]
  BY <1>3 DEF ForgetTask, ResumeRun
<1>4. ASSUME NEW r \in Runs, StartRun(r) \/ CancelRun(r) \/ PauseRun(r) PROVE row'[p] = row[p]
  <2>1. row[r].status \in ACTIVE \cup {"absent"}
    BY <1>4 DEF StartRun, CancelRun, PauseRun
  <2>2. p # r
    BY <1>1, <2>1 DEF ACTIVE
  <2> QED
    BY <1>1, <1>4, <2>2 DEF StartRun, CancelRun, PauseRun
<1>5. CASE KillRuns
  <2>1. Killed(row[p]) = row[p]
    BY <1>1 DEF Killed
  <2> QED
    BY <1>5, <2>1 DEF KillRuns
<1>6. CASE Crash \/ Restart
  BY <1>6 DEF Crash, Restart
<1>7. CASE Shutdown
  <2>1. ASSUME NEW t \in ExecutingRun(p) PROVE FALSE
    BY <1>1, StatusFacts DEF ExecutingRun, Alive, TaskOK
  <2>2. ExecutingRun(p) = {}
    BY <2>1
  <2> QED
    BY <1>7, <2>2 DEF Shutdown
<1>8. CASE UNCHANGED runVars
  BY <1>8 DEF runVars
<1> QED
  BY <1>2, <1>3, <1>4, <1>5, <1>6, <1>7, <1>8 DEF HarnessNext

\* The places of the coroutines that a step makes: only NextCall begins a call.
LEMMA Places ==
    /\ NoTask.at # "call"
    /\ \A d \in BOOLEAN \cup {None} : NewTask(d).at # "call"
    /\ \A w : \A c \in Coroutines : BegunTask(w, c).at # "call"
    /\ \A c \in Coroutines :
        /\ Asking(c).at # "call" /\ AfterFirst(c).at # "call" /\ Looping(c).at # "call"
        /\ \A made \in BOOLEAN : Planned(c, made).at # "call"
        /\ \A s \in Seq(Calls) : Replied(c, s).at # "call"
<1>1. NoTask.at # "call" /\ \A d \in BOOLEAN \cup {None} : NewTask(d).at # "call"
  BY DEF NoTask, NewTask
<1>2. ASSUME NEW w, NEW c \in Coroutines PROVE BegunTask(w, c).at # "call"
  <2>1. FirstStop(w) # "call"
    BY DEF FirstStop
  <2>2. BegunTask(w, c).at = FirstStop(w)
    BY DEF BegunTask
  <2> QED
    BY <2>1, <2>2
<1>3. ASSUME NEW c \in Coroutines
      PROVE  Asking(c).at # "call" /\ AfterFirst(c).at # "call" /\ Looping(c).at # "call"
  BY DEF Asking, AfterFirst, Looping, Coroutines
<1>4. ASSUME NEW c \in Coroutines, NEW made \in BOOLEAN PROVE Planned(c, made).at # "call"
  BY DEF Planned, Coroutines
<1>5. ASSUME NEW c \in Coroutines, NEW s \in Seq(Calls) PROVE Replied(c, s).at # "call"
  BY DEF Replied, Coroutines
<1> QED
  BY <1>1, <1>2, <1>3, <1>4, <1>5

CallBegins(p, u) == task'[p][u].at = "call" /\ task[p][u].at # "call"

\* Only a step of NextCall that carries out the first call begins a call.
LEMMA OnlyNextCall ==
    ASSUME HarnessInv, [HarnessNext]_runVars, NEW p \in Runs, NEW u \in RunTasks, CallBegins(p, u)
    PROVE  NextCall(p, u) /\ task'[p][u] = Calling(task[p][u])
<1>1. task \in [Runs -> [RunTasks -> Coroutines]] /\ task[p][u] \in Coroutines
  BY DEF HarnessInv, HarnessTypes
<1>2. ASSUME NEW r \in Runs, NEW t \in RunTasks, NEW c,
             task' = [task EXCEPT ![r][t] = c], c.at # "call"
      PROVE  FALSE
  BY <1>1, <1>2 DEF CallBegins
<1>3. task' # task
  BY DEF CallBegins
<1>4. ASSUME NEW r \in Runs, NEW t \in RunTasks, TaskStep(r, t)
      PROVE  NextCall(p, u) /\ task'[p][u] = Calling(task[p][u])
  <2> DEFINE c == task[r][t]
  <2>0. c \in Coroutines
    BY <1>1
  <2> HIDE DEF c
  <2>1. NoTask.at # "call" /\ BegunTask(row[r], c).at # "call" /\ Asking(c).at # "call"
    BY <2>0, Places
  <2>2. ~Return(r, t)
    BY <1>2, <2>1 DEF Return
  <2>3. ASSUME NEW d, Continue(r, t, d) PROVE d.at = "call"
    BY <1>2, <2>3 DEF Continue
  <2>4. ~Begin(r, t)
    BY <2>1, <2>2, <2>3 DEF Begin, c
  <2>5. ~Loop(r, t)
    BY <2>1, <2>2, <2>3 DEF Loop, c
  <2>6. ~PlanReturns(r, t)
    <3>1. \A made \in BOOLEAN : Planned(c, made).at # "call"
      BY <2>0, Places
    <3> QED
      BY <2>3, <3>1 DEF PlanReturns, c
  <2>7. ~ModelReturns(r, t)
    <3>1. ASSUME NEW n \in 1..MaxCalls, NEW gs \in [1..n -> Guarded],
                 Continue(r, t, Replied(c, NewCalls(r, gs)))
          PROVE  FALSE
      <4>1. NewCalls(r, gs) \in Seq(Calls)
        BY NewCallsOK, HarnessAssumption
      <4>2. Replied(c, NewCalls(r, gs)).at # "call"
        BY <2>0, <4>1, Places
      <4> QED
        BY <2>3, <3>1, <4>2
    <3> QED
      BY <2>2, <3>1 DEF ModelReturns, c
  <2>8. ~ToolReturns(r, t) /\ ~Fails(r, t) /\ ~CallsDone(r, t)
    <3>1. AfterFirst(c).at # "call" /\ Looping(c).at # "call"
      BY <2>0, Places
    <3> QED
      BY <2>2, <2>3, <3>1 DEF ToolReturns, Fails, CallsDone, c
  <2>9. NextCall(r, t)
    BY <1>4, <2>4, <2>5, <2>6, <2>7, <2>8 DEF TaskStep
  <2>10. Continue(r, t, Calling(task[r][t]))
    <3>1. AfterFirst(c).at # "call"
      BY <2>0, Places
    <3>2. ~Continue(r, t, AfterFirst(c))
      BY <2>3, <3>1
    <3> QED
      BY <2>2, <2>9, <3>2 DEF NextCall, c
  <2>11. p = r /\ u = t
    BY <1>1, <2>10 DEF Continue, CallBegins
  <2> QED
    BY <1>1, <2>9, <2>10, <2>11 DEF Continue
<1>5. ASSUME NEW r \in Runs, NEW d, Spawn(r, d), d \in BOOLEAN \cup {None} PROVE FALSE
  <2>1. NewTask(d).at # "call"
    BY <1>1, <1>5, Places
  <2> QED
    BY <1>2, <1>3, <1>5, <2>1 DEF Spawn
<1>6. ASSUME NEW r \in Runs PROVE /\ ~ForgetTask(r) /\ ~StartRun(r) /\ ~CancelRun(r)
                                  /\ ~PauseRun(r) /\ ~ResumeRun(r)
  BY <1>3, <1>5 DEF ForgetTask, StartRun, CancelRun, PauseRun, ResumeRun
<1>7. ~KillRuns /\ ~UNCHANGED runVars
  BY <1>3 DEF KillRuns, runVars
<1>8. ~Crash /\ ~Shutdown
  <2>1. ~Down
    BY <1>1, Places DEF Down, CallBegins
  <2> QED
    BY <2>1 DEF Crash, Shutdown
<1>9. ~Restart
  <2>1. NewTask(None).at # "call"
    BY <1>1, Places
  <2> QED
    BY <1>1, <2>1 DEF Restart, CallBegins
<1> QED
  BY <1>4, <1>6, <1>7, <1>8, <1>9 DEF HarnessNext

LEMMA CallStep ==
    ASSUME HarnessInv, [HarnessNext]_runVars, NEW r \in Runs, NEW t \in RunTasks, CallBegins(r, t)
    PROVE  LET first == Head(task'[r][t].calls)
           IN  first.id \notin ran[r] /\ (first.guarded => first.id \in approved[r])
<1> DEFINE c == task[r][t]
           first == Head(c.calls)
<1>1. NextCall(r, t) /\ task'[r][t] = Calling(c) /\ task[r][t] \in Coroutines
  BY OnlyNextCall, Facts
<1>2. c.at = "tools" /\ c.calls # << >>
  BY <1>1 DEF NextCall
<1>3. task'[r][t].calls = c.calls
  BY <1>1, <1>2, Facts, CallingOK
<1>4. TaskOK(c, row[r], requested[r], approved[r], ran[r])
  BY Facts
<1>5. first.id \notin ran[r]
  <2>1. c.calls \in Seq(Calls) /\ 1 \in DOMAIN c.calls /\ first = c.calls[1]
    BY <1>1, <1>2 DEF Coroutines
  <2> QED
    BY <1>2, <1>4, <2>1 DEF TaskOK, Fresh
<1>6. first.guarded => c.decision = TRUE
  <2>1. task'[r][t].at = "call" /\ task \in [Runs -> [RunTasks -> Coroutines]]
    BY DEF CallBegins, HarnessInv, HarnessTypes
  <2>2. ~Return(r, t)
    BY <2>1 DEF Return, NoTask
  <2>3. ~Continue(r, t, AfterFirst(c))
    <3>1. AfterFirst(c).at = "tools"
      BY <1>1 DEF AfterFirst, Coroutines
    <3> QED
      BY <2>1, <3>1 DEF Continue
  <2> QED
    BY <1>1, <2>2, <2>3 DEF NextCall
<1> QED
  BY <1>2, <1>3, <1>4, <1>5, <1>6 DEF TaskOK

\* harness/runner.py and runtime.py: while no run has two tasks, a call that needs
\* approval is carried out only after a yes to that very call, no call is carried
\* out twice, and a finished run stays as it is, for any number of runs, calls,
\* steps, crashes and shutdowns.
THEOREM RunsKeepTheirWordAlways == HarnessSpec /\ []OneAlive => RunsKeepTheirWord
<1> DEFINE CallBody ==
             \A r \in Runs, t \in RunTasks :
               task'[r][t].at = "call" /\ task[r][t].at # "call" =>
                 LET first == Head(task'[r][t].calls)
                 IN  /\ first.id \notin ran[r]
                     /\ first.guarded => first.id \in approved[r]
           FinalBody == \A r \in Runs : FinishedRun(row[r]) => row'[r] = row[r]
<1>1. HarnessInv /\ [HarnessNext]_runVars => [CallBody]_runVars
  BY CallStep DEF CallBegins
<1>2. HarnessInv /\ [HarnessNext]_runVars => [FinalBody]_runVars
  BY FinalStep
<1> HIDE DEF CallBody, FinalBody
<1>3. HarnessSpec /\ []OneAlive => [][CallBody]_runVars /\ [][FinalBody]_runVars
  BY <1>1, <1>2, HarnessStart, HarnessStep, PTL DEF HarnessSpec
<1> QED
  BY <1>3 DEF RunsKeepTheirWord, CallsApprovedAndOnce, FinalStays, CallBody, FinalBody

-----------------------------------------------------------------------------
\* Triggers and alerts.

\* What a trigger has kept of its starts (f) at the time now: the latest of them
\* (st), all those of the last hour among them.
Latest(f, st, now) ==
    \E k \in 0..Len(st) :
        /\ Len(f) = Len(st) - k
        /\ \A j \in 1..Len(f) : f[j] = st[k + j]
        /\ \A i \in 1..k : now - st[i] >= Hour

\* Starts in their order, none of them in the future.
Ordered(st, now) ==
    /\ st \in Seq(Nat)
    /\ \A i, j \in 1..Len(st) : i <= j => st[i] <= st[j]
    /\ \A i \in 1..Len(st) : st[i] <= now

SpacedOut(st) ==
    \A i, j \in 1..Len(st) : (i <= j /\ st[j] - st[i] < Hour) => j - i < MaxPerHour

Within1h(f, now) == {i \in DOMAIN f : now - f[i] < Hour}

\* The starts of the last hour are the last ones.
LEMMA RecentAreLast ==
    ASSUME NEW now \in Nat, NEW f, Ordered(f, now)
    PROVE  \E m \in 0..Len(f) : /\ Within1h(f, now) = (m + 1)..Len(f)
                                /\ \A i \in 1..m : now - f[i] >= Hour
<1> DEFINE R == Within1h(f, now)
<1>1. Hour \in Nat
  BY TriggersAssumption
<1>2. /\ Len(f) \in Nat /\ DOMAIN f = 1..Len(f) /\ \A i \in 1..Len(f) : f[i] \in Nat
      /\ \A i, j \in 1..Len(f) : i <= j => f[i] <= f[j]
  BY DEF Ordered
<1>3. R \subseteq 1..Len(f) /\ R \subseteq Int /\ IsFiniteSet(R)
  <2>1. R \subseteq 1..Len(f) /\ R \in SUBSET (1..Len(f)) /\ R \subseteq Int
    BY <1>2 DEF Within1h
  <2>2. IsFiniteSet(1..Len(f))
    BY <1>2, FS_Interval
  <2> HIDE DEF R
  <2> QED
    BY <2>1, <2>2, FS_Subset
<1>4. CASE R = {}
  <2>1. \A i \in 1..Len(f) : now - f[i] >= Hour
    BY <1>1, <1>2, <1>4 DEF Within1h
  <2>2. Len(f) \in 0..Len(f) /\ (Len(f) + 1)..Len(f) = {}
    BY <1>2
  <2> QED
    BY <1>4, <2>1, <2>2
<1>5. CASE R # {}
  <2>1. PICK c \in R : \A i \in R : c <= i
    <3> HIDE DEF R
    <3> QED
      BY <1>3, <1>5, FirstPlace
  <2>2. c \in 1..Len(f) /\ now - f[c] < Hour
    BY <1>2 DEF Within1h
  <2>3. ASSUME NEW i \in c..Len(f) PROVE i \in R
    <3>1. i \in 1..Len(f) /\ c <= i
      BY <1>2, <2>2
    <3>2. f[c] <= f[i] /\ f[c] \in Nat /\ f[i] \in Nat
      BY <1>2, <2>2, <3>1
    <3>3. now - f[i] < Hour
      BY <1>1, <2>2, <3>2
    <3> QED
      BY <1>2, <3>1, <3>3 DEF Within1h
  <2>4. ASSUME NEW i \in 1..(c - 1) PROVE now - f[i] >= Hour
    <3>1. i \in 1..Len(f) /\ ~(c <= i)
      BY <1>2, <2>2
    <3>2. i \notin R
      BY <2>1, <3>1
    <3>3. f[i] \in Nat
      BY <1>2, <3>1
    <3> QED
      BY <1>1, <1>2, <3>1, <3>2, <3>3 DEF Within1h
  <2>5. R = c..Len(f)
    <3> HIDE DEF R
    <3>1. \A i \in R : i \in c..Len(f)
      BY <1>2, <1>3, <2>1, <2>2
    <3> QED
      BY <2>3, <3>1
  <2>6. c - 1 \in 0..Len(f) /\ (c - 1) + 1 = c
    BY <1>2, <2>2
  <2> QED
    BY <2>4, <2>5, <2>6
<1> QED
  BY <1>4, <1>5

\* Dropping the starts that are older leaves the latest.
LEMMA LastHourOK ==
    ASSUME NEW f, NEW st, trNow \in Nat, Ordered(f, trNow), Ordered(st, trNow), Latest(f, st, trNow)
    PROVE  /\ Ordered(LastHour(f), trNow) /\ Latest(LastHour(f), st, trNow)
           /\ \A i \in 1..Len(st) : trNow - st[i] < Hour => Len(st) - i < Len(LastHour(f))
<1>1. PICK m \in 0..Len(f) : /\ Within1h(f, trNow) = (m + 1)..Len(f)
                             /\ \A i \in 1..m : trNow - f[i] >= Hour
  BY RecentAreLast
<1>2. PICK k \in 0..Len(st) :
         /\ Len(f) = Len(st) - k
         /\ \A j \in 1..Len(f) : f[j] = st[k + j]
         /\ \A i \in 1..k : trNow - st[i] >= Hour
  BY DEF Latest
<1>3. PICK n \in Nat : n = Len(f)
  BY DEF Ordered
<1>4. PICK l \in Nat : l = Len(st)
  BY DEF Ordered
<1>5. m \in 0..n /\ k \in 0..l /\ n = l - k
  BY <1>1, <1>2, <1>3, <1>4
<1> DEFINE g == LastHour(f)
<1>6. g = [j \in 1..(n - m) |-> f[m + j]]
  <2>1. g = Picked(f, Within1h(f, trNow))
    BY DEF LastHour, Within1h
  <2>2. Picked(f, (m + 1)..n) = [j \in 1..(n - m) |-> f[m + j]]
    BY <1>5, PickedEnd
  <2> HIDE DEF g
  <2> QED
    BY <1>1, <1>3, <2>1, <2>2
<1>7. /\ \A j \in 1..n : f[j] \in Nat /\ f[j] <= trNow
      /\ \A i, j \in 1..n : i <= j => f[i] <= f[j]
  BY <1>3 DEF Ordered
<1>8. g \in Seq(Nat) /\ Len(g) = n - m /\ \A j \in 1..(n - m) : g[j] = f[m + j] /\ m + j \in 1..n
  <2>1. \A j \in 1..(n - m) : m + j \in 1..n
    BY <1>5
  <2>2. \A j \in 1..(n - m) : f[m + j] \in Nat
    BY <1>7, <2>1
  <2>3. n - m \in Nat
    BY <1>5
  <2> QED
    BY <1>6, <2>1, <2>2, <2>3
<1> HIDE DEF g
<1>9. Ordered(g, trNow)
  <2>1. ASSUME NEW i \in 1..(n - m), NEW j \in 1..(n - m), i <= j PROVE g[i] <= g[j]
    <3>1. m + i <= m + j
      BY <1>5, <2>1
    <3> QED
      BY <1>7, <1>8, <3>1
  <2>2. \A i \in 1..(n - m) : g[i] <= trNow
    BY <1>7, <1>8
  <2> QED
    BY <1>8, <2>1, <2>2 DEF Ordered
<1>10. Latest(g, st, trNow)
  <2>1. k + m \in 0..Len(st) /\ Len(g) = Len(st) - (k + m)
    BY <1>4, <1>5, <1>8
  <2>2. ASSUME NEW j \in 1..Len(g) PROVE g[j] = st[k + m + j]
    <3>1. g[j] = f[m + j] /\ m + j \in 1..n
      BY <1>8
    <3>2. f[m + j] = st[k + (m + j)]
      BY <1>2, <1>3, <3>1
    <3>3. k + (m + j) = k + m + j
      BY <1>5, <1>8
    <3> QED
      BY <3>1, <3>2, <3>3
  <2>3. ASSUME NEW i \in 1..(k + m) PROVE trNow - st[i] >= Hour
    <3>1. CASE i <= k
      BY <1>2, <1>5, <3>1
    <3>2. CASE ~(i <= k)
      <4>1. i - k \in 1..m /\ i - k \in 1..n /\ k + (i - k) = i
        BY <1>5, <3>2
      <4>2. f[i - k] = st[k + (i - k)]
        BY <1>2, <1>3, <4>1
      <4>3. trNow - f[i - k] >= Hour
        BY <1>1, <4>1
      <4> QED
        BY <4>1, <4>2, <4>3
    <3> QED
      BY <3>1, <3>2
  <2> QED
    BY <2>1, <2>2, <2>3 DEF Latest
<1>11. ASSUME NEW i \in 1..Len(st), trNow - st[i] < Hour PROVE Len(st) - i < Len(g)
  <2>1. PICK q \in 0..Len(st) : Len(g) = Len(st) - q /\ \A x \in 1..q : trNow - st[x] >= Hour
    BY <1>10 DEF Latest
  <2>2. i \notin 1..q
    <3>1. st[i] \in Nat /\ Hour \in Nat
      BY TriggersAssumption DEF Ordered
    <3> QED
      BY <1>11, <2>1, <3>1
  <2> QED
    BY <1>4, <2>1, <2>2
<1> QED
  BY <1>9, <1>10, <1>11 DEF g

\* A start after fewer than MaxPerHour within the hour is spaced out.
LEMMA StartOK ==
    ASSUME NEW g, NEW st, trNow \in Nat, Ordered(g, trNow), Ordered(st, trNow), Latest(g, st, trNow),
           SpacedOut(st), Len(g) < MaxPerHour,
           \A i \in 1..Len(st) : trNow - st[i] < Hour => Len(st) - i < Len(g)
    PROVE  /\ Ordered(Append(g, trNow), trNow) /\ Ordered(Append(st, trNow), trNow)
           /\ Latest(Append(g, trNow), Append(st, trNow), trNow)
           /\ SpacedOut(Append(st, trNow))
<1>1. MaxPerHour \in Nat /\ Hour \in Nat \ {0}
  BY TriggersAssumption
<1>2. ASSUME NEW s, Ordered(s, trNow)
      PROVE  /\ Ordered(Append(s, trNow), trNow) /\ Len(Append(s, trNow)) = Len(s) + 1
             /\ \A i \in 1..Len(s) : Append(s, trNow)[i] = s[i]
             /\ Append(s, trNow)[Len(s) + 1] = trNow
  <2>1. s \in Seq(Nat) /\ Len(s) \in Nat
    BY <1>2 DEF Ordered
  <2>2. PICK a \in Seq(Nat) : a = Append(s, trNow)
    <3>1. Append(s, trNow) \in Seq(Nat)
      BY <2>1, AppendProperties
    <3> QED
      BY <3>1
  <2>3. /\ Len(a) = Len(s) + 1 /\ \A i \in 1..Len(s) : a[i] = s[i]
        /\ a[Len(s) + 1] = trNow
    BY <2>1, <2>2
  <2>4. ASSUME NEW i \in 1..Len(a), NEW j \in 1..Len(a), i <= j PROVE a[i] <= a[j]
    <3>1. i \in 1..Len(s) => s[i] <= trNow /\ s[i] \in Nat
      BY <1>2, <2>1 DEF Ordered
    <3>2. i \in 1..Len(s) /\ j \in 1..Len(s) => s[i] <= s[j]
      BY <1>2, <2>4 DEF Ordered
    <3>3. CASE j \in 1..Len(s)
      <4>1. i \in 1..Len(s)
        BY <2>1, <2>4, <3>3
      <4> QED
        BY <2>3, <3>2, <3>3, <4>1
    <3>4. CASE j \notin 1..Len(s)
      <4>1. j = Len(s) + 1 /\ (i \in 1..Len(s) \/ i = Len(s) + 1)
        BY <2>1, <2>3, <3>4
      <4>2. CASE i \in 1..Len(s)
        BY <2>3, <3>1, <4>1, <4>2
      <4>3. CASE i = Len(s) + 1
        BY <2>3, <4>1, <4>3
      <4> QED
        BY <4>1, <4>2, <4>3
    <3> QED
      BY <3>3, <3>4
  <2>5. ASSUME NEW i \in 1..Len(a) PROVE a[i] <= trNow
    <3>1. Len(a) \in 1..Len(a) /\ i <= Len(a)
      BY <2>1, <2>3
    <3>2. a[Len(a)] = trNow
      BY <2>3
    <3> QED
      BY <2>4, <3>1, <3>2
  <2> QED
    BY <2>2, <2>3, <2>4, <2>5 DEF Ordered
<1>3. PICK b : b = Append(st, trNow)
  OBVIOUS
<1>4. PICK h : h = Append(g, trNow)
  OBVIOUS
<1>5. PICK l \in Nat : l = Len(st)
  BY DEF Ordered
<1>6. PICK n \in Nat : n = Len(g)
  BY DEF Ordered
<1>7. /\ Ordered(b, trNow) /\ Len(b) = l + 1 /\ \A i \in 1..l : b[i] = st[i]
      /\ b[l + 1] = trNow
  BY <1>2, <1>3, <1>5
<1>8. /\ Ordered(h, trNow) /\ Len(h) = n + 1 /\ \A i \in 1..n : h[i] = g[i]
      /\ h[n + 1] = trNow
  BY <1>2, <1>4, <1>6
<1>9. Latest(h, b, trNow)
  <2>1. PICK k \in 0..l : /\ n = l - k /\ \A j \in 1..n : g[j] = st[k + j]
                         /\ \A i \in 1..k : trNow - st[i] >= Hour
    BY <1>5, <1>6 DEF Latest
  <2>2. ASSUME NEW j \in 1..(n + 1) PROVE h[j] = b[k + j]
    <3>1. CASE j \in 1..n
      <4>1. k + j \in 1..l
        BY <2>1, <3>1
      <4> QED
        BY <1>7, <1>8, <2>1, <3>1, <4>1
    <3>2. CASE j \notin 1..n
      <4>1. j = n + 1 /\ k + j = l + 1
        BY <2>1, <3>2
      <4> QED
        BY <1>7, <1>8, <4>1
    <3> QED
      BY <3>1, <3>2
  <2>3. k \in 0..(l + 1) /\ n + 1 = (l + 1) - k /\ \A i \in 1..k : i \in 1..l
    BY <2>1
  <2> QED
    BY <1>7, <1>8, <2>1, <2>2, <2>3 DEF Latest
<1>10. SpacedOut(b)
  <2>1. SUFFICES ASSUME NEW i \in 1..(l + 1), NEW j \in 1..(l + 1), i <= j, b[j] - b[i] < Hour
                 PROVE  j - i < MaxPerHour
    BY <1>7 DEF SpacedOut
  <2>2. CASE j \in 1..l
    <3>1. i \in 1..l /\ b[i] = st[i] /\ b[j] = st[j]
      BY <1>7, <2>1, <2>2
    <3> QED
      BY <1>5, <2>1, <2>2, <3>1 DEF SpacedOut
  <2>3. CASE j \notin 1..l /\ i \in 1..l
    <3>1. j = l + 1 /\ b[i] = st[i] /\ b[j] = trNow
      BY <1>7, <2>3
    <3>2. l - i < n
      BY <1>5, <1>6, <2>1, <2>3, <3>1
    <3> QED
      BY <1>1, <1>6, <2>3, <3>1, <3>2
  <2>4. CASE j \notin 1..l /\ i \notin 1..l
    BY <1>1, <1>6, <2>4
  <2> QED
    BY <2>2, <2>3, <2>4
<1> QED
  BY <1>3, <1>4, <1>7, <1>8, <1>9, <1>10

-----------------------------------------------------------------------------
TaskCounts == [running: Nat, ended: Nat]

\* One trigger: what it has kept is the end of what it started.
TrigOK(f, st, x, now) ==
    /\ Ordered(f, now) /\ Ordered(st, now) /\ Latest(f, st, now) /\ SpacedOut(st)
    /\ x \in TaskCounts /\ x.running + x.ended <= 1

TrigsOK == \A t \in TriggerNames : TrigOK(trig[t].fired, started[t][boots], tasks[t], trNow)

\* The starts of every life of the process, none yet of a life to come.
LivesOK ==
    /\ boots \in 0..MaxBoots
    /\ started = [t \in TriggerNames |-> [b \in 0..MaxBoots |-> started[t][b]]]
    /\ \A t \in TriggerNames : \A b \in 0..MaxBoots :
          /\ started[t][b] \in Seq(Nat) /\ SpacedOut(started[t][b])
          /\ b > boots => started[t][b] = << >>

\* What was announced by the last look at a usage that cost this much.
Announced(k, carried, cost) == k \in carried \/ cost >= Threshold(k)

Due(s, k, l, cost) ==
    EventOf(k) \in Wants[s] /\ l.done /\ cost >= Threshold(k) /\ k \notin l.carried

\* What check() remembers is what the last look at this usage found, and the
\* alerts sent about the usage are those that were due.
SentOK(snt, l, cost) ==
    /\ l.done => /\ noted.last = cost
                 /\ \A k \in AlertKinds : k \in noted.fired <=> Announced(k, l.carried, cost)
    /\ \A s \in Sinks, k \in AlertKinds : snt[s][k] = IF Due(s, k, l, cost) THEN 1 ELSE 0

AlertsOK ==
    /\ spend = [win |-> spend.win, cost |-> spend.cost, alerted |-> spend.alerted]
    /\ spend.cost \in Nat
    /\ SentOK(sent, look, spend.cost) /\ noted.last \in Int

TriggersInv ==
    /\ trNow \in Nat /\ tasks = [t \in TriggerNames |-> tasks[t]]
    /\ TrigsOK /\ LivesOK /\ AlertsOK

LEMMA FireOK ==
    ASSUME TriggersInv, trNow' = trNow, boots' = boots, NEW S, NEW left, Fire(S, left),
           \A t \in TriggerNames : left[t] \in TaskCounts /\ left[t].running + left[t].ended <= 1,
           \A t \in TriggerNames : tasks[t] = NoTasks => left[t] = NoTasks
    PROVE  TrigsOK' /\ LivesOK' /\ tasks' = [t \in TriggerNames |-> tasks'[t]]
<1> DEFINE go == {t \in S : MayFire(t)}
           Now(f, t) == IF t \in go THEN Append(f, trNow) ELSE f
<1>1. trNow \in Nat /\ TrigsOK /\ LivesOK
  BY DEF TriggersInv
<1>2. /\ trig' = [t \in TriggerNames |-> IF t \notin S THEN trig[t] ELSE
              [fired  |-> Now(LastHour(trig[t].fired), t),
               nextAt |-> IF Kind[t] = "interval" THEN trNow + Interval ELSE 0]]
      /\ started' = [t \in TriggerNames |->
              [started[t] EXCEPT ![boots] = Now(started[t][boots], t)]]
      /\ tasks' = [t \in TriggerNames |->
              IF t \in go THEN [left[t] EXCEPT !.running = @ + 1] ELSE left[t]]
  BY DEF Fire
<1>6. ASSUME NEW t \in TriggerNames
      PROVE  /\ started'[t] = [b \in 0..MaxBoots |-> started'[t][b]]
             /\ started'[t][boots] = Now(started[t][boots], t)
             /\ \A b \in (0..MaxBoots) \ {boots} : started'[t][b] = started[t][b]
  <2>1. started[t] = [b \in 0..MaxBoots |-> started[t][b]] /\ boots \in 0..MaxBoots
    BY <1>1 DEF LivesOK
  <2>2. started'[t] = [started[t] EXCEPT ![boots] = Now(started[t][boots], t)]
    BY <1>2
  <2> HIDE DEF Now
  <2> QED
    BY <2>1, <2>2
<1>3. ASSUME NEW t \in TriggerNames PROVE TrigOK(trig'[t].fired, started'[t][boots], tasks'[t], trNow)
  <2> DEFINE g == LastHour(trig[t].fired)
  <2>1. TrigOK(trig[t].fired, started[t][boots], tasks[t], trNow)
    BY <1>1 DEF TrigsOK
  <2>2. /\ Ordered(g, trNow) /\ Latest(g, started[t][boots], trNow)
        /\ \A i \in 1..Len(started[t][boots]) :
              trNow - started[t][boots][i] < Hour => Len(started[t][boots]) - i < Len(g)
    BY <1>1, <2>1, LastHourOK DEF TrigOK
  <2> HIDE DEF g
  <2>3. CASE t \in go
    <3>1. MayFire(t) /\ t \in S
      BY <2>3
    <3>2. trig'[t].fired = Append(g, trNow) /\ started'[t][boots] = Append(started[t][boots], trNow)
      BY <1>2, <1>6, <2>3, <3>1 DEF g
    <3>3. tasks'[t] = [left[t] EXCEPT !.running = left[t].running + 1] /\ left[t] = NoTasks
      BY <1>2, <2>3, <3>1 DEF MayFire
    <3>4. tasks'[t] \in TaskCounts /\ tasks'[t].running + tasks'[t].ended <= 1
      <4>1. tasks'[t] = [running |-> 1, ended |-> 0]
        BY <3>3 DEF NoTasks
      <4> QED
        BY <4>1 DEF TaskCounts
    <3>5. Len(g) < MaxPerHour
      BY <3>1 DEF MayFire, g
    <3>6. /\ Ordered(Append(g, trNow), trNow) /\ Ordered(Append(started[t][boots], trNow), trNow)
          /\ Latest(Append(g, trNow), Append(started[t][boots], trNow), trNow)
          /\ SpacedOut(Append(started[t][boots], trNow))
      BY <1>1, <2>1, <2>2, <3>5, StartOK DEF TrigOK
    <3> QED
      BY <3>2, <3>4, <3>6 DEF TrigOK
  <2>4. CASE t \notin go
    <3>1. started'[t][boots] = started[t][boots] /\ tasks'[t] = left[t]
      BY <1>2, <1>6, <2>4
    <3>2. trig'[t].fired = g \/ trig'[t].fired = trig[t].fired
      BY <1>2, <2>4 DEF g
    <3> QED
      BY <2>1, <2>2, <3>1, <3>2 DEF TrigOK
  <2> QED
    BY <2>3, <2>4
<1>4. tasks' = [t \in TriggerNames |-> tasks'[t]]
  BY <1>2
<1>5. TrigsOK'
  BY <1>3 DEF TrigsOK
<1>7. LivesOK'
  <2>1. started' = [t \in TriggerNames |-> [b \in 0..MaxBoots |-> started'[t][b]]]
    <3>1. started' = [t \in TriggerNames |-> started'[t]]
      BY <1>2
    <3> HIDE DEF Now
    <3> QED
      BY <1>6, <3>1
  <2>2. ASSUME NEW t \in TriggerNames, NEW b \in 0..MaxBoots
        PROVE  /\ started'[t][b] \in Seq(Nat) /\ SpacedOut(started'[t][b])
               /\ b > boots => started'[t][b] = << >>
    <3>1. CASE b = boots
      <4>1. started'[t][boots] \in Seq(Nat) /\ SpacedOut(started'[t][boots])
        BY <1>3 DEF TrigOK, Ordered
      <4>2. ~(b > boots)
        BY <1>1, <3>1 DEF LivesOK
      <4> QED
        BY <3>1, <4>1, <4>2
    <3>2. CASE b # boots
      <4>1. started'[t][b] = started[t][b]
        BY <1>6, <3>2
      <4> QED
        BY <1>1, <4>1 DEF LivesOK
    <3> QED
      BY <3>1, <3>2
  <2> QED
    BY <1>1, <2>1, <2>2 DEF LivesOK
<1> QED
  BY <1>4, <1>5, <1>7

\* A usage that was not looked at yet
LEMMA FreshAlerts ==
    ASSUME NEW now, spend = NewUsage(now), sent = NothingSent, look = NoLook, noted.last \in Int
    PROVE  AlertsOK
<1>1. SentOK(NothingSent, NoLook, 0)
  BY DEF SentOK, Due, NothingSent, NoLook
<1>2. /\ spend = [win |-> now \div Window, cost |-> 0, alerted |-> {}]
      /\ spend.cost = 0
  BY DEF NewUsage
<1> QED
  BY <1>1, <1>2 DEF AlertsOK

LEMMA FreshAlertsNext ==
    ASSUME NEW now, spend' = NewUsage(now), sent' = NothingSent, look' = NoLook,
           noted'.last \in Int
    PROVE  AlertsOK'
<1>1. SentOK(NothingSent, NoLook, 0)'
  BY DEF SentOK, Due, NothingSent, NoLook
<1>2. /\ spend' = [win |-> now \div Window, cost |-> 0, alerted |-> {}]
      /\ spend'.cost = 0
  BY DEF NewUsage
<1>3. SentOK(sent, look, spend.cost)'
  BY <1>1, <1>2 DEF SentOK, Due
<1> QED
  BY <1>2, <1>3 DEF AlertsOK

LEMMA TriggersStart == TriggersInit => TriggersInv
<1> SUFFICES ASSUME TriggersInit PROVE TriggersInv
  OBVIOUS
<1>1. /\ trNow = 0 /\ trig = [t \in TriggerNames |-> NewTrigger(t, 0)]
      /\ tasks = [t \in TriggerNames |-> NoTasks] /\ boots = 0
      /\ started = [t \in TriggerNames |-> [b \in 0..MaxBoots |-> << >>]]
      /\ spend = NewUsage(0) /\ sent = NothingSent /\ look = NoLook /\ noted.last = 0
  BY DEF TriggersInit
<1>2. \A n : Ordered(<< >>, n) /\ Latest(<< >>, << >>, n) /\ SpacedOut(<< >>)
  BY DEF Ordered, Latest, SpacedOut
<1>3. NoTasks \in TaskCounts /\ NoTasks.running + NoTasks.ended <= 1
  BY DEF NoTasks, TaskCounts
<1>4. \A t : NewTrigger(t, 0).fired = << >>
  BY DEF NewTrigger
<1>7. boots \in 0..MaxBoots
  BY <1>1, TriggersAssumption
<1>8. \A t \in TriggerNames : \A b \in 0..MaxBoots : started[t][b] = << >>
  BY <1>1
<1>5. TrigsOK
  BY <1>1, <1>2, <1>3, <1>4, <1>7, <1>8 DEF TrigsOK, TrigOK
<1>9. LivesOK
  <2>1. << >> \in Seq(Nat)
    OBVIOUS
  <2>2. started = [t \in TriggerNames |-> [b \in 0..MaxBoots |-> started[t][b]]]
    BY <1>1
  <2> QED
    BY <1>2, <1>7, <1>8, <2>1, <2>2 DEF LivesOK
<1>6. AlertsOK
  BY <1>1, FreshAlerts
<1> QED
  BY <1>1, <1>5, <1>6, <1>9 DEF TriggersInv

\* All triggers anew
LEMMA RestartTriggersOK == ASSUME TriggersInv, RestartTriggers PROVE TriggersInv'
<1>1. /\ trNow' = trNow /\ trig' = [t \in TriggerNames |-> NewTrigger(t, trNow)]
      /\ tasks' = [t \in TriggerNames |-> NoTasks] /\ started' = started
      /\ boots' = boots + 1 /\ boots < MaxBoots
      /\ spend' = NewUsage(trNow) /\ sent' = NothingSent /\ look' = NoLook /\ noted'.last = 0
  BY DEF RestartTriggers
<1>2. \A n : Ordered(<< >>, n) /\ Latest(<< >>, << >>, n) /\ SpacedOut(<< >>)
  BY DEF Ordered, Latest, SpacedOut
<1>3. NoTasks \in TaskCounts /\ NoTasks.running + NoTasks.ended <= 1
  BY DEF NoTasks, TaskCounts
<1>4. \A t, n : NewTrigger(t, n).fired = << >>
  BY DEF NewTrigger
<1>8. boots' \in 0..MaxBoots /\ boots' > boots /\ boots \in 0..MaxBoots
  BY <1>1, TriggersAssumption DEF TriggersInv, LivesOK
<1>5. \A t \in TriggerNames : /\ trig'[t].fired = << >> /\ tasks'[t] = NoTasks
                              /\ started'[t][boots'] = << >>
  BY <1>1, <1>4, <1>8 DEF TriggersInv, LivesOK
<1>6. TrigsOK'
  BY <1>2, <1>3, <1>5 DEF TrigsOK, TrigOK
<1>7. AlertsOK'
  BY <1>1, FreshAlertsNext
<1>9. LivesOK'
  <2>1. \A b \in 0..MaxBoots : b > boots' => b > boots
    BY <1>8
  <2> QED
    BY <1>1, <1>8, <2>1 DEF TriggersInv, LivesOK
<1> QED
  BY <1>1, <1>6, <1>7, <1>9 DEF TriggersInv

\* As time goes by, what was kept stays the latest.
LEMMA LatestLater ==
    ASSUME NEW f, NEW st, NEW now \in Nat, Latest(f, st, now), Ordered(st, now)
    PROVE  Latest(f, st, now + 1)
<1>1. PICK k \in 0..Len(st) :
         /\ Len(f) = Len(st) - k
         /\ \A j \in 1..Len(f) : f[j] = st[k + j]
         /\ \A i \in 1..k : now - st[i] >= Hour
  BY DEF Latest
<1>2. Len(st) \in Nat /\ \A i \in 1..Len(st) : st[i] \in Nat
  BY DEF Ordered
<1>3. PICK n \in Nat : n = now + 1
  OBVIOUS
<1>4. ASSUME NEW i \in 1..k PROVE n - st[i] >= Hour
  <2>1. i \in 1..Len(st)
    BY <1>2
  <2>2. st[i] \in Nat /\ Hour \in Nat
    BY <1>2, <2>1, TriggersAssumption
  <2>3. now - st[i] >= Hour
    BY <1>1
  <2> QED
    BY <1>3, <2>2, <2>3
<1>5. Latest(f, st, n)
  BY <1>1, <1>4 DEF Latest
<1> QED
  BY <1>3, <1>5

LEMMA TrTickOK == ASSUME TriggersInv, TrTick PROVE TriggersInv'
<1>1. /\ trNow' = trNow + 1 /\ trig' = trig /\ tasks' = tasks /\ started' = started
      /\ spend' = spend /\ noted' = noted /\ sent' = sent /\ look' = look /\ boots' = boots
      /\ trNow \in Nat /\ trNow' \in Nat
  BY DEF TrTick, TriggersInv
<1>2. ASSUME NEW f, Ordered(f, trNow) PROVE Ordered(f, trNow + 1)
  <2>1. \A i \in 1..Len(f) : f[i] <= trNow + 1
    <3>1. \A i \in 1..Len(f) : f[i] \in Nat /\ f[i] <= trNow
      BY <1>2 DEF Ordered
    <3> QED
      BY <1>1, <3>1
  <2> QED
    BY <1>2, <2>1 DEF Ordered
<1>3. ASSUME NEW f, NEW st, Latest(f, st, trNow), Ordered(st, trNow) PROVE Latest(f, st, trNow + 1)
  BY <1>1, <1>3, LatestLater
<1>4. ASSUME NEW t \in TriggerNames PROVE TrigOK(trig[t].fired, started[t][boots], tasks[t], trNow + 1)
  <2>1. TrigOK(trig[t].fired, started[t][boots], tasks[t], trNow)
    BY DEF TriggersInv, TrigsOK
  <2> QED
    BY <1>2, <1>3, <2>1 DEF TrigOK
<1>5. TrigsOK' /\ LivesOK' /\ AlertsOK'
  BY <1>1, <1>4 DEF TrigsOK, LivesOK, AlertsOK, SentOK, TriggersInv
<1> QED
  BY <1>1, <1>5 DEF TriggersInv

\* Steps that leave the triggers alone, and those that leave the alerts alone.
LEMMA TrigsStay ==
    ASSUME TriggersInv, UNCHANGED <<trNow, trig, tasks, boots, started>>
    PROVE  TrigsOK' /\ LivesOK' /\ trNow' \in Nat
BY DEF TriggersInv, TrigsOK, LivesOK

LEMMA AlertsStay ==
    ASSUME TriggersInv, UNCHANGED <<spend, noted, sent, look>> PROVE AlertsOK'
BY DEF TriggersInv, AlertsOK, SentOK

LEMMA CountsAre ==
    ASSUME TriggersInv, NEW t \in TriggerNames
    PROVE  /\ tasks[t] \in TaskCounts /\ tasks[t].running + tasks[t].ended <= 1
           /\ tasks[t] = [running |-> tasks[t].running, ended |-> tasks[t].ended]
BY DEF TriggersInv, TrigsOK, TrigOK, TaskCounts

LEMMA SameTasksFire ==
    ASSUME TriggersInv, NEW S, Fire(S, tasks), UNCHANGED <<trNow, boots>>
    PROVE  TrigsOK' /\ LivesOK' /\ tasks' = [t \in TriggerNames |-> tasks'[t]]
BY CountsAre, FireOK

LEMMA RunFinishesOK == ASSUME TriggersInv, NEW t \in TriggerNames, RunFinishes(t) PROVE TriggersInv'
<1> DEFINE left == [tasks EXCEPT ![t] = [running |-> tasks[t].running - 1, ended |-> tasks[t].ended + 1]]
<1>1. /\ tasks[t].running > 0 /\ Fire(Listening({"run.finished"}), left)
      /\ trNow' = trNow /\ boots' = boots /\ UNCHANGED <<spend, noted, sent, look>>
  BY DEF RunFinishes
<1>2. ASSUME NEW q \in TriggerNames
      PROVE  /\ left[q] \in TaskCounts /\ left[q].running + left[q].ended <= 1
             /\ tasks[q] = NoTasks => left[q] = NoTasks
  <2>1. /\ tasks[q] \in TaskCounts /\ tasks[q].running + tasks[q].ended <= 1
        /\ tasks = [x \in TriggerNames |-> tasks[x]]
    BY CountsAre DEF TriggersInv
  <2>2. CASE q = t
    <3>1. left[q] = [running |-> tasks[t].running - 1, ended |-> tasks[t].ended + 1]
      BY <2>1, <2>2
    <3>2. tasks[q] # NoTasks
      BY <1>1, <2>2 DEF NoTasks
    <3>3. /\ tasks[t].running \in Nat /\ tasks[t].ended \in Nat
          /\ tasks[t].running + tasks[t].ended <= 1
      BY <2>1, <2>2 DEF TaskCounts
    <3>4. tasks[t].running - 1 \in Nat /\ tasks[t].ended + 1 \in Nat
      BY <1>1, <3>3
    <3> HIDE DEF left
    <3>5. left[q] \in TaskCounts
      BY <3>1, <3>4 DEF TaskCounts
    <3>6. left[q].running + left[q].ended <= 1
      BY <3>1, <3>3
    <3> QED
      BY <3>2, <3>5, <3>6
  <2>3. CASE q # t
    <3>1. left[q] = tasks[q]
      BY <2>1, <2>3
    <3> QED
      BY <2>1, <3>1
  <2> QED
    BY <2>2, <2>3
<1> HIDE DEF left
<1>3. TrigsOK' /\ LivesOK' /\ tasks' = [x \in TriggerNames |-> tasks'[x]]
  BY <1>1, <1>2, FireOK
<1> QED
  BY <1>1, <1>3, AlertsStay DEF TriggersInv

LEMMA GoReturnsOK == ASSUME TriggersInv, NEW t \in TriggerNames, GoReturns(t) PROVE TriggersInv'
<1>1. PICK x : /\ tasks' = [tasks EXCEPT ![t] = x]
               /\ \/ tasks[t].ended > 0 /\ x = [tasks[t] EXCEPT !.ended = tasks[t].ended - 1]
                  \/ tasks[t].running > 0 /\ x = [tasks[t] EXCEPT !.running = tasks[t].running - 1]
  BY DEF GoReturns
<1>2. UNCHANGED <<trNow, trig, boots, started, spend, noted, sent, look>>
  BY DEF GoReturns
<1>3. PICK r \in Nat, e \in Nat : tasks[t] = [running |-> r, ended |-> e] /\ r + e <= 1
  BY CountsAre DEF TaskCounts
<1>4. x \in TaskCounts /\ x.running + x.ended <= 1
  <2>1. CASE tasks[t].ended > 0 /\ x = [tasks[t] EXCEPT !.ended = tasks[t].ended - 1]
    <3>1. x = [running |-> r, ended |-> e - 1] /\ e > 0
      BY <1>3, <2>1
    <3> QED
      BY <1>3, <3>1 DEF TaskCounts
  <2>2. CASE tasks[t].running > 0 /\ x = [tasks[t] EXCEPT !.running = tasks[t].running - 1]
    <3>1. x = [running |-> r - 1, ended |-> e] /\ r > 0
      BY <1>3, <2>2
    <3> QED
      BY <1>3, <3>1 DEF TaskCounts
  <2> QED
    BY <1>1, <2>1, <2>2
<1>5. tasks' = [q \in TriggerNames |-> tasks'[q]] /\ tasks'[t] = x
      /\ \A q \in TriggerNames : q # t => tasks'[q] = tasks[q]
  BY <1>1 DEF TriggersInv
<1>6. ASSUME NEW q \in TriggerNames PROVE TrigOK(trig[q].fired, started[q][boots], tasks'[q], trNow)
  <2>1. TrigOK(trig[q].fired, started[q][boots], tasks[q], trNow)
    BY DEF TriggersInv, TrigsOK
  <2> QED
    BY <1>4, <1>5, <2>1 DEF TrigOK
<1>7. TrigsOK' /\ LivesOK'
  BY <1>2, <1>6 DEF TrigsOK, TriggersInv, LivesOK
<1> QED
  BY <1>2, <1>5, <1>7, AlertsStay DEF TriggersInv

\* The usage of the present window, and the alerts sent about it
LEMMA UsageOK ==
    ASSUME TriggersInv
    PROVE  /\ UsageNow = [win |-> UsageNow.win, cost |-> UsageNow.cost, alerted |-> UsageNow.alerted]
           /\ UsageNow.cost \in Nat
           /\ SentOK(SentNow, LookNow, UsageNow.cost)
<1>1. CASE spend.win = trNow \div Window
  <2>1. UsageNow = spend /\ SentNow = sent /\ LookNow = look
    BY <1>1 DEF UsageNow, SentNow, LookNow
  <2> QED
    BY <2>1 DEF TriggersInv, AlertsOK
<1>2. CASE spend.win # trNow \div Window
  <2>1. UsageNow = NewUsage(trNow) /\ SentNow = NothingSent /\ LookNow = NoLook
    BY <1>2 DEF UsageNow, SentNow, LookNow
  <2>2. SentOK(NothingSent, NoLook, 0)
    BY DEF SentOK, Due, NothingSent, NoLook
  <2> QED
    BY <2>1, <2>2 DEF NewUsage
<1> QED
  BY <1>1, <1>2

\* A look tells of what was reached and not told before.
LEMMA RecordSpendOK == ASSUME TriggersInv, NEW cost \in Costs, RecordSpend(cost) PROVE TriggersInv'
<1> DEFINE total == UsageNow.cost + cost
           kinds == DueAlerts(total)
           l     == LookedAt(total)
<1>1. PICK al : /\ spend' = [UsageNow EXCEPT !.cost = total, !.alerted = al]
                /\ noted' = [last |-> total, fired |-> AlreadyFired(total) \union kinds]
                /\ sent' = SentWith(kinds, SentNow) /\ look' = l
                /\ Fire(Listening({EventOf(k) : k \in kinds}), tasks)
                /\ trNow' = trNow /\ boots' = boots
  BY DEF RecordSpend
<1>2. /\ cost \in Nat /\ UsageNow.cost \in Nat /\ total \in Nat /\ total >= UsageNow.cost
      /\ SentOK(SentNow, LookNow, UsageNow.cost)
      /\ \A k \in AlertKinds : Threshold(k) \in Nat
  BY UsageOK, TriggersAssumption DEF Threshold
<1>3. spend' = [win |-> UsageNow.win, cost |-> total, alerted |-> al]
  BY <1>1, UsageOK
<1>4. \A k \in AlertKinds : k \in kinds <=> total >= Threshold(k) /\ k \notin AlreadyFired(total)
  BY DEF DueAlerts, Threshold, AlertKinds
<1> HIDE DEF kinds
<1>5. /\ l.done
      /\ \A k \in AlertKinds :
            /\ k \in l.carried => k \in AlreadyFired(total)
            /\ k \in AlreadyFired(total) =>
                  k \in l.carried \/ (LookNow.done /\ UsageNow.cost >= Threshold(k))
            /\ LookNow.done /\ UsageNow.cost >= Threshold(k) => k \in AlreadyFired(total)
            /\ LookNow.done => l.carried = LookNow.carried
  <2>1. CASE LookNow.done
    <3>1. l = LookNow
      BY <2>1 DEF LookedAt
    <3>2. /\ noted.last = UsageNow.cost
          /\ \A k \in AlertKinds : k \in noted.fired <=> Announced(k, LookNow.carried, UsageNow.cost)
      BY <1>2, <2>1 DEF SentOK
    <3>3. AlreadyFired(total) = noted.fired
      <4>1. ~(total < noted.last)
        BY <1>2, <3>2
      <4> HIDE DEF total
      <4> QED
        BY <4>1 DEF AlreadyFired
    <3> HIDE DEF total, l
    <3> QED
      BY <2>1, <3>1, <3>2, <3>3 DEF Announced
  <2>2. CASE ~LookNow.done
    <3>1. l = [done |-> TRUE, carried |-> IF total >= noted.last THEN noted.fired ELSE {}]
      BY <2>2 DEF LookedAt
    <3>2. l.done = TRUE /\ l.carried = IF total >= noted.last THEN noted.fired ELSE {}
      BY <3>1
    <3>3. AlreadyFired(total) = IF total < noted.last THEN {} ELSE noted.fired
      BY DEF AlreadyFired
    <3>4. noted.last \in Int
      BY DEF TriggersInv, AlertsOK
    <3>5. total >= noted.last <=> ~(total < noted.last)
      BY <1>2, <3>4
    <3> HIDE DEF total, l
    <3> QED
      BY <2>2, <3>2, <3>3, <3>5
  <2> QED
    BY <2>1, <2>2
<1> HIDE DEF l
<1>6. \A k \in AlertKinds : k \in noted'.fired <=> Announced(k, l.carried, total)
  <2> SUFFICES ASSUME NEW k \in AlertKinds PROVE k \in noted'.fired <=> Announced(k, l.carried, total)
    OBVIOUS
  <2>1. k \in noted'.fired <=> k \in AlreadyFired(total) \/ k \in kinds
    BY <1>1
  <2>2. UsageNow.cost >= Threshold(k) => total >= Threshold(k)
    BY <1>2
  <2> HIDE DEF total
  <2> QED
    BY <1>4, <1>5, <2>1, <2>2 DEF Announced
<1>7. ASSUME NEW s \in Sinks, NEW k \in AlertKinds
      PROVE  sent'[s][k] = IF Due(s, k, l, total) THEN 1 ELSE 0
  <2>1. sent'[s][k] = SentNow[s][k] + (IF k \in kinds /\ EventOf(k) \in Wants[s] THEN 1 ELSE 0)
    BY <1>1 DEF SentWith
  <2>2. SentNow[s][k] = IF Due(s, k, LookNow, UsageNow.cost) THEN 1 ELSE 0
    BY <1>2 DEF SentOK
  <2>3. UsageNow.cost >= Threshold(k) => total >= Threshold(k)
    BY <1>2
  <2> HIDE DEF total
  <2>4. CASE Due(s, k, LookNow, UsageNow.cost)
    <3>1. Due(s, k, l, total) /\ k \notin kinds
      BY <1>4, <1>5, <2>3, <2>4 DEF Due
    <3> QED
      BY <2>1, <2>2, <2>4, <3>1
  <2>5. CASE ~Due(s, k, LookNow, UsageNow.cost)
    <3>1. Due(s, k, l, total) <=> (k \in kinds /\ EventOf(k) \in Wants[s])
      BY <1>4, <1>5, <2>5 DEF Due
    <3> QED
      BY <2>1, <2>2, <2>5, <3>1
  <2> QED
    BY <2>4, <2>5
<1>8. AlertsOK'
  <2>1. noted'.last = total /\ spend'.cost = total /\ look' = l
    BY <1>1, <1>3
  <2> HIDE DEF total
  <2>2. /\ \A k \in AlertKinds : k \in noted'.fired <=> Announced(k, look'.carried, spend'.cost)
        /\ \A s \in Sinks, k \in AlertKinds :
              sent'[s][k] = IF Due(s, k, look', spend'.cost) THEN 1 ELSE 0
    BY <1>6, <1>7, <2>1
  <2>3. SentOK(sent, look, spend.cost)'
    BY <2>1, <2>2 DEF SentOK, Due, Announced
  <2>4. spend' = [win |-> spend'.win, cost |-> spend'.cost, alerted |-> spend'.alerted]
        /\ spend'.cost \in Nat /\ noted'.last \in Int
    BY <1>2, <1>3, <2>1
  <2> QED
    BY <2>3, <2>4 DEF AlertsOK
<1> HIDE DEF total
<1>9. TrigsOK' /\ LivesOK' /\ tasks' = [t \in TriggerNames |-> tasks'[t]]
  BY <1>1, SameTasksFire
<1> QED
  BY <1>1, <1>8, <1>9 DEF TriggersInv

LEMMA RefuseSpendOK == ASSUME TriggersInv, RefuseSpend PROVE TriggersInv'
<1>1. PICK al : spend' = [UsageNow EXCEPT !.alerted = al]
  BY DEF RefuseSpend
<1>2. /\ sent' = SentNow /\ noted' = noted /\ look' = LookNow
      /\ UNCHANGED <<trNow, trig, tasks, boots, started>>
  BY DEF RefuseSpend
<1>3. spend' = [win |-> UsageNow.win, cost |-> UsageNow.cost, alerted |-> al]
  BY <1>1, UsageOK
<1>5. SentOK(sent, look, spend.cost)'
  <2>1. spend'.cost = UsageNow.cost
    BY <1>3
  <2>2. SentOK(SentNow, LookNow, UsageNow.cost)
    BY UsageOK
  <2> QED
    BY <1>2, <2>1, <2>2 DEF SentOK
<1>6. spend' = [win |-> spend'.win, cost |-> spend'.cost, alerted |-> spend'.alerted]
      /\ spend'.cost \in Nat /\ noted'.last \in Int
  BY <1>2, <1>3, UsageOK DEF TriggersInv, AlertsOK
<1>4. AlertsOK'
  BY <1>5, <1>6 DEF AlertsOK
<1> QED
  BY <1>2, <1>4, TrigsStay DEF TriggersInv

LEMMA ResetSpendOK == ASSUME TriggersInv, ResetSpend PROVE TriggersInv'
<1>1. /\ spend' = NewUsage(trNow) /\ sent' = NothingSent /\ look' = NoLook
      /\ UNCHANGED <<trNow, trig, tasks, boots, started>>
  BY DEF ResetSpend
<1>3. noted'.last \in Int
  BY DEF ResetSpend, TriggersInv, AlertsOK
<1>2. AlertsOK'
  BY <1>1, <1>3, FreshAlertsNext
<1> QED
  BY <1>1, <1>2, TrigsStay DEF TriggersInv

LEMMA TriggersStep == TriggersInv /\ [TriggersNext]_trVars => TriggersInv'
<1> SUFFICES ASSUME TriggersInv, [TriggersNext]_trVars PROVE TriggersInv'
  OBVIOUS
<1>1. ASSUME NEW S, Fire(S, tasks), UNCHANGED <<trNow, boots, spend, noted, sent, look>> PROVE TriggersInv'
  BY <1>1, SameTasksFire, AlertsStay DEF TriggersInv
<1>2. CASE TickTriggers
  BY <1>1, <1>2 DEF TickTriggers
<1>3. ASSUME NEW t \in TriggerNames, NEW signed, FireWebhook(t, signed) PROVE TriggersInv'
  BY <1>1, <1>3 DEF FireWebhook
<1>4. ASSUME NEW event, Announce(event) PROVE TriggersInv'
  BY <1>1, <1>4 DEF Announce
<1>5. CASE UNCHANGED trVars
  <2>1. UNCHANGED <<trNow, trig, tasks, boots, started>> /\ UNCHANGED <<spend, noted, sent, look>>
    BY <1>5 DEF trVars
  <2> QED
    BY <2>1, TrigsStay, AlertsStay DEF TriggersInv
<1> QED
  BY <1>2, <1>3, <1>4, <1>5, TrTickOK, RefuseSpendOK, ResetSpendOK, RestartTriggersOK,
     RunFinishesOK, GoReturnsOK, RecordSpendOK DEF TriggersNext

LEMMA TriggersHold == TriggersInv => TriggersSound
<1> SUFFICES ASSUME TriggersInv PROVE TriggersSound
  OBVIOUS
<1>1. TriggersHeld
  <2> SUFFICES ASSUME NEW t \in TriggerNames
               PROVE  /\ tasks[t].running + tasks[t].ended <= 1
                      /\ \A b \in 0..MaxBoots : \A i, j \in DOMAIN started[t][b] :
                            (i <= j /\ started[t][b][j] - started[t][b][i] < Hour)
                            => j - i < MaxPerHour
    BY DEF TriggersHeld
  <2>1. tasks[t].running + tasks[t].ended <= 1
    BY DEF TriggersInv, TrigsOK, TrigOK
  <2>2. ASSUME NEW b \in 0..MaxBoots
        PROVE  SpacedOut(started[t][b]) /\ DOMAIN started[t][b] = 1..Len(started[t][b])
    BY DEF TriggersInv, LivesOK
  <2> QED
    BY <2>1, <2>2 DEF SpacedOut
<1>2. AlertsExact
  BY DEF TriggersInv, AlertsOK, SentOK, Due, AlertsExact
<1> QED
  BY <1>1, <1>2 DEF TriggersSound

\* Whatever storm of ticks, webhooks, events and spending meets them, the starts of
\* each life of the process stay within max_per_hour, and a sink is told of a kind
\* once about a window in which it was reached, unless the window's first look was
\* no lower than the one before and the kind had been told of then.
THEOREM TriggersAlways == TriggersSpec => []TriggersSound
BY TriggersStart, TriggersStep, TriggersHold, PTL DEF TriggersSpec

-----------------------------------------------------------------------------
\* Migrations.

\* What a transaction has in hand is known to some release and not in the records.
NotYet(files, recs) == files \in Seq(Versions) /\ \A i \in 1..Len(files) : files[i] \notin recs

\* A replica that is migrating, and one that serves, has its whole release in view.
Whole(x, n, recs) ==
    /\ x.at = "migrating" => 1..n \subseteq recs \union ToSet(x.pending) \union ToSet(x.did)
    /\ x.at = "serving" => 1..n \subseteq recs

ReplicaRecords ==
    [at : {"off", "failed", "waiting", "migrating", "serving"},
     pending : Seq(Versions), did : Seq(Versions), why : {"none", "statement"}]

ReplicaOK(x, recs) ==
    /\ x \in ReplicaRecords /\ NotYet(x.pending, recs) /\ NotYet(x.did, recs)
    /\ x.at # "migrating" => x.pending = << >> /\ x.did = << >>
    /\ x.at = "failed" => x.why = "statement"

MigrationsInv ==
    /\ records \in Seq(Versions)
    /\ schema = [m \in Versions |-> IF m \in ToSet(records) THEN 1 ELSE 0]
    /\ replica = [r \in Replicas |-> replica[r]]
    /\ \A r \in Replicas : ReplicaOK(replica[r], ToSet(records))
    /\ \A r \in Replicas : replica[r].at = "migrating" <=> mlock = r
    /\ ~downs => \A r \in Replicas : Whole(replica[r], Release[r], ToSet(records))
    /\ mlock \in Replicas \union {NoReplica}

LEMMA NothingYet == ASSUME NEW recs PROVE NotYet(<< >>, recs) /\ ToSet(<< >>) = {}
<1>1. Len(<< >>) = 0 /\ << >> \in Seq(Versions)
  OBVIOUS
<1>2. 1..Len(<< >>) = {} /\ DOMAIN << >> = {}
  BY <1>1
<1> QED
  BY <1>1, <1>2 DEF NotYet, ToSet

\* Somewhere else, with nothing in hand
LEMMA EmptyOK ==
    ASSUME NEW a \in {"off", "failed", "waiting", "serving"}, NEW w \in {"none", "statement"},
           a = "failed" => w = "statement", NEW recs
    PROVE  ReplicaOK(Outside(a, w), recs)
<1>1. << >> \in Seq(Versions)
  OBVIOUS
<1>2. NotYet(<< >>, recs)
  BY NothingYet
<1>3. Outside(a, w) = [at |-> a, pending |-> << >>, did |-> << >>, why |-> w]
  BY DEF Outside
<1>4. PICK e : e = << >>
  OBVIOUS
<1> QED
  BY <1>1, <1>2, <1>3, <1>4 DEF ReplicaOK, ReplicaRecords

\* A replica moves on, the records staying as they are.
LEMMA MoveOK ==
    ASSUME MigrationsInv, NEW r \in Replicas, NEW y, ReplicaOK(y, ToSet(records)),
           ~downs => Whole(y, Release[r], ToSet(records)),
           replica' = [replica EXCEPT ![r] = y], UNCHANGED <<records, schema, downs>>,
           \/ y.at = "migrating" /\ mlock' = r /\ mlock \in {r, NoReplica}
           \/ y.at # "migrating" /\ mlock' = Freed(r)
    PROVE  MigrationsInv'
<1>1. /\ replica' = [q \in Replicas |-> replica'[q]]
      /\ \A q \in Replicas : replica'[q] = IF q = r THEN y ELSE replica[q]
  BY DEF MigrationsInv
<1>2. ASSUME NEW q \in Replicas PROVE ReplicaOK(replica'[q], ToSet(records))
  BY <1>1 DEF MigrationsInv
<1>3. ASSUME NEW q \in Replicas, ~downs PROVE Whole(replica'[q], Release[q], ToSet(records))
  BY <1>1, <1>3 DEF MigrationsInv
<1>4. NoReplica \notin Replicas
  BY MigrationsAssumption DEF NoReplica
<1>5. ASSUME NEW q \in Replicas PROVE replica'[q].at = "migrating" <=> mlock' = q
  <2>1. replica[q].at = "migrating" <=> mlock = q
    BY DEF MigrationsInv
  <2> QED
    BY <1>1, <1>4, <2>1 DEF Freed
<1>6. mlock' \in Replicas \union {NoReplica}
  BY DEF Freed, MigrationsInv
<1>7. records' = records /\ schema' = schema /\ downs' = downs
  OBVIOUS
<1> QED
  BY <1>1, <1>2, <1>3, <1>5, <1>6, <1>7 DEF MigrationsInv

\* A replica leaves what it was about, with nothing in hand.
LEMMA LeavesOK ==
    ASSUME MigrationsInv, NEW r \in Replicas, NEW a \in {"off", "failed", "waiting"},
           NEW w \in {"none", "statement"}, a = "failed" => w = "statement",
           replica' = [replica EXCEPT ![r] = Outside(a, w)],
           UNCHANGED <<records, schema, downs>>, mlock' = Freed(r)
    PROVE  MigrationsInv'
<1>1. PICK y : y = Outside(a, w)
  OBVIOUS
<1>2. ReplicaOK(y, ToSet(records))
  BY <1>1, EmptyOK
<1>3. y.at # "migrating" /\ y.at # "serving"
  BY <1>1 DEF Outside
<1>4. Whole(y, Release[r], ToSet(records))
  BY <1>3 DEF Whole
<1>5. replica' = [replica EXCEPT ![r] = y]
  BY <1>1
<1> QED
  BY <1>2, <1>3, <1>4, <1>5, MoveOK

LEMMA StartReplicaOK == ASSUME MigrationsInv, NEW r \in Replicas, StartReplica(r) PROVE MigrationsInv'
<1>1. /\ replica[r].at \in {"off", "failed"} /\ UNCHANGED <<records, schema, mlock, downs>>
      /\ replica' = [replica EXCEPT ![r] = Outside("waiting", "none")]
  BY DEF StartReplica
<1>2. mlock' = Freed(r)
  BY <1>1 DEF Freed, MigrationsInv
<1> QED
  BY <1>1, <1>2, LeavesOK

LEMMA FileFailsOK == ASSUME MigrationsInv, NEW r \in Replicas, FileFails(r) PROVE MigrationsInv'
<1>1. /\ UNCHANGED <<records, schema, downs>> /\ mlock' = Freed(r)
      /\ replica' = [replica EXCEPT ![r] = Outside("failed", "statement")]
  BY DEF FileFails
<1> QED
  BY <1>1, LeavesOK

LEMMA KillReplicaOK == ASSUME MigrationsInv, NEW r \in Replicas, KillReplica(r) PROVE MigrationsInv'
<1>1. /\ UNCHANGED <<records, schema, downs>> /\ mlock' = Freed(r)
      /\ replica' = [replica EXCEPT ![r] = Outside("off", "none")]
  BY DEF KillReplica, NoTxn
<1> QED
  BY <1>1, LeavesOK

\* The files that a replica finds pending are the rest of its release.
LEMMA PendingOK ==
    ASSUME NEW r \in Replicas
    PROVE  /\ NotYet(Pending(r), ToSet(records))
           /\ 1..Release[r] \subseteq ToSet(records) \union ToSet(Pending(r))
<1> DEFINE files == [m \in 1..Release[r] |-> m]
           new == {m \in 1..Release[r] : m \notin ToSet(records)}
<1>1. Release[r] \in Nat
  BY MigrationsAssumption
<1>2. new \subseteq 1..Release[r] /\ new \in SUBSET (1..Release[r]) /\ new \subseteq Int
  BY <1>1
<1>3. IsFiniteSet(new)
  <2>1. IsFiniteSet(1..Release[r])
    BY <1>1, FS_Interval
  <2> HIDE DEF new
  <2> QED
    BY <1>2, <2>1, FS_Subset
<1>4. {files[i] : i \in new} = new
  BY <1>2
<1>5. new \subseteq Versions
  BY <1>2 DEF Versions
<1>6. Pending(r) = Picked(files, new)
  BY DEF Pending
<1> HIDE DEF files, new
<1>7. /\ Picked(files, new) \in Seq({files[i] : i \in new})
      /\ ToSet(Picked(files, new)) = {files[i] : i \in new}
  <2>1. Picked(files, new) \in Seq({files[i] : i \in new})
    <3>1. \A i \in new : files[i] \in {files[j] : j \in new}
      OBVIOUS
    <3> QED
      BY <1>2, <1>3, <3>1, PickedFrom
  <2>2. ToSet(Picked(files, new)) = {files[i] : i \in new}
    BY <1>2, <1>3, PickedRange DEF ToSet
  <2> QED
    BY <2>1, <2>2
<1>8. PICK p : p = Pending(r)
  OBVIOUS
<1>9. p \in Seq(new) /\ ToSet(p) = new
  BY <1>4, <1>6, <1>7, <1>8
<1>10. p \in Seq(Versions) /\ \A i \in 1..Len(p) : p[i] \in new
  BY <1>5, <1>9
<1>11. NotYet(p, ToSet(records))
  BY <1>10 DEF NotYet, new
<1>12. 1..Release[r] \subseteq ToSet(records) \union new
  BY DEF new
<1> QED
  BY <1>8, <1>9, <1>11, <1>12

LEMMA TakeMigrationLockOK ==
    ASSUME MigrationsInv, NEW r \in Replicas, TakeMigrationLock(r) PROVE MigrationsInv'
<1>1. /\ replica[r].at = "waiting" /\ mlock = NoReplica /\ mlock' = r
      /\ UNCHANGED <<records, schema, downs>>
      /\ replica' = [replica EXCEPT ![r].at = "migrating", ![r].pending = Pending(r)]
  BY DEF TakeMigrationLock, LockFree
<1>2. PICK x : x = replica[r]
  OBVIOUS
<1>3. x \in ReplicaRecords /\ NotYet(x.did, ToSet(records))
  BY <1>2 DEF MigrationsInv, ReplicaOK
<1>4. x = [at |-> x.at, pending |-> x.pending, did |-> x.did, why |-> x.why]
      /\ x.did \in Seq(Versions) /\ x.why \in {"none", "statement"}
  BY <1>3 DEF ReplicaRecords
<1>5. PICK y : y = [at |-> "migrating", pending |-> Pending(r), did |-> x.did, why |-> x.why]
  OBVIOUS
<1>6. replica' = [replica EXCEPT ![r] = y]
  <2>1. replica' = [replica EXCEPT ![r] = [replica[r] EXCEPT !.at = "migrating", !.pending = Pending(r)]]
    BY <1>1 DEF MigrationsInv
  <2>2. PICK p : p = Pending(r)
    OBVIOUS
  <2>3. PICK z : z = [x EXCEPT !.at = "migrating"]
    OBVIOUS
  <2>4. z = [at |-> "migrating", pending |-> x.pending, did |-> x.did, why |-> x.why]
    BY <1>4, <2>3
  <2>5. [z EXCEPT !.pending = p] = y
    BY <1>5, <2>2, <2>4
  <2> QED
    BY <1>2, <2>1, <2>2, <2>3, <2>5
<1>7. NotYet(Pending(r), ToSet(records)) /\ Pending(r) \in Seq(Versions)
  BY PendingOK DEF NotYet
<1>8. ReplicaOK(y, ToSet(records))
  BY <1>3, <1>4, <1>5, <1>7 DEF ReplicaOK, ReplicaRecords
<1>9. Whole(y, Release[r], ToSet(records))
  BY <1>5, PendingOK DEF Whole
<1> QED
  BY <1>1, <1>5, <1>6, <1>8, <1>9, MoveOK

LEMMA ApplyFileOK == ASSUME MigrationsInv, NEW r \in Replicas, ApplyFile(r) PROVE MigrationsInv'
<1>1. /\ replica[r].at = "migrating" /\ replica[r].pending # << >>
      /\ UNCHANGED <<records, schema, mlock, downs>>
      /\ replica' = [replica EXCEPT ![r].pending = Tail(replica[r].pending),
                                    ![r].did = Append(replica[r].did, Head(replica[r].pending))]
  BY DEF ApplyFile
<1>2. PICK x : x = replica[r]
  OBVIOUS
<1>3. PICK p : p = x.pending
  OBVIOUS
<1>4. PICK d : d = x.did
  OBVIOUS
<1>5. PICK recs : recs = ToSet(records)
  OBVIOUS
<1>6. /\ ReplicaOK(x, recs) /\ mlock = r
      /\ ~downs => Whole(x, Release[r], recs)
  BY <1>1, <1>2, <1>5 DEF MigrationsInv
<1>7. /\ x = [at |-> "migrating", pending |-> p, did |-> d, why |-> x.why] /\ x.why \in {"none", "statement"}
      /\ p \in Seq(Versions) /\ d \in Seq(Versions) /\ p # << >>
      /\ \A i \in 1..Len(p) : p[i] \notin recs
      /\ \A i \in 1..Len(d) : d[i] \notin recs
  BY <1>1, <1>2, <1>3, <1>4, <1>6 DEF ReplicaOK, ReplicaRecords, NotYet
<1>8. PICK t : t = Tail(p)
  OBVIOUS
<1>9. PICK e : e = Append(d, Head(p))
  OBVIOUS
<1>10. /\ t \in Seq(Versions) /\ Len(p) \in Nat /\ Len(p) > 0 /\ Len(t) = Len(p) - 1
       /\ \A i \in 1..Len(t) : t[i] = p[i + 1] /\ i + 1 \in 1..Len(p)
  BY <1>7, <1>8
<1>11. /\ e \in Seq(Versions) /\ Len(d) \in Nat /\ Len(e) = Len(d) + 1
       /\ e[Len(d) + 1] = p[1] /\ \A i \in 1..Len(d) : e[i] = d[i]
  BY <1>7, <1>9
<1>12. NotYet(t, recs)
  BY <1>7, <1>10 DEF NotYet
<1>13. NotYet(e, recs)
  <2>1. \A i \in 1..Len(e) : i \in 1..Len(d) \/ i = Len(d) + 1
    BY <1>11
  <2>2. 1 \in 1..Len(p)
    BY <1>10
  <2> QED
    BY <1>7, <1>11, <2>1, <2>2 DEF NotYet
<1>14. PICK y : y = [at |-> "migrating", pending |-> t, did |-> e, why |-> x.why]
  OBVIOUS
<1>15. replica' = [replica EXCEPT ![r] = y]
  <2>1. PICK z : z = [x EXCEPT !.pending = t]
    OBVIOUS
  <2>2. z = [at |-> "migrating", pending |-> t, did |-> d, why |-> x.why]
    BY <1>7, <2>1
  <2>3. [z EXCEPT !.did = e] = y
    BY <1>14, <2>2
  <2>4. replica' = [replica EXCEPT ![r] = [replica[r] EXCEPT !.pending = t, !.did = e]]
    BY <1>1, <1>2, <1>3, <1>4, <1>8, <1>9 DEF MigrationsInv
  <2> QED
    BY <1>2, <2>1, <2>3, <2>4
<1>16. ReplicaOK(y, recs)
  BY <1>7, <1>10, <1>11, <1>12, <1>13, <1>14 DEF ReplicaOK, ReplicaRecords
<1>17. ~downs => Whole(y, Release[r], recs)
  <2> SUFFICES ASSUME ~downs PROVE 1..Release[r] \subseteq recs \union ToSet(t) \union ToSet(e)
    BY <1>14 DEF Whole
  <2>1. 1..Release[r] \subseteq recs \union ToSet(p) \union ToSet(d)
    BY <1>3, <1>4, <1>6, <1>7 DEF Whole
  <2>2. /\ ToSet(p) = {p[i] : i \in 1..Len(p)} /\ ToSet(d) = {d[i] : i \in 1..Len(d)}
        /\ ToSet(t) = {t[i] : i \in 1..Len(t)} /\ ToSet(e) = {e[i] : i \in 1..Len(e)}
    <3>1. DOMAIN p = 1..Len(p) /\ DOMAIN d = 1..Len(d) /\ DOMAIN t = 1..Len(t) /\ DOMAIN e = 1..Len(e)
      BY <1>7, <1>10, <1>11
    <3> QED
      BY <3>1 DEF ToSet
  <2>3. \A i \in 1..Len(d) : d[i] \in ToSet(e)
    <3>1. \A i \in 1..Len(d) : i \in 1..Len(e)
      BY <1>11
    <3> QED
      BY <1>11, <2>2, <3>1
  <2>4. ASSUME NEW i \in 1..Len(p) PROVE p[i] \in ToSet(t) \union ToSet(e)
    <3>1. CASE i = 1
      <4>1. Len(d) + 1 \in 1..Len(e)
        BY <1>11
      <4> QED
        BY <1>11, <2>2, <3>1, <4>1
    <3>2. CASE i # 1
      <4>0. PICK n \in Nat : n = Len(t) /\ Len(p) = n + 1
        BY <1>10
      <4>1. PICK j \in 1..Len(t) : j + 1 = i
        <5>1. i \in 1..(n + 1) /\ i # 1
          BY <3>2, <4>0
        <5>2. i - 1 \in 1..n /\ (i - 1) + 1 = i
          BY <5>1
        <5> QED
          BY <4>0, <5>2
      <4>2. t[j] = p[i]
        BY <1>10, <4>1
      <4> QED
        BY <2>2, <4>2
    <3> QED
      BY <3>1, <3>2
  <2> QED
    BY <2>1, <2>2, <2>3, <2>4
<1> QED
  BY <1>1, <1>5, <1>6, <1>14, <1>15, <1>16, <1>17, MoveOK

LEMMA CommitMigrationsOK ==
    ASSUME MigrationsInv, NEW r \in Replicas, CommitMigrations(r) PROVE MigrationsInv'
<1>1. /\ replica[r].at = "migrating" /\ replica[r].pending = << >> /\ mlock' = Freed(r)
      /\ mlock = r /\ UNCHANGED downs
  BY DEF CommitMigrations, MigrationsInv
<1>2. PICK d : d = replica[r].did
  OBVIOUS
<1>3. /\ d \in Seq(Versions) /\ \A i \in 1..Len(d) : d[i] \notin ToSet(records)
      /\ ~downs => 1..Release[r] \subseteq ToSet(records) \union ToSet(d)
  <2>1. ReplicaOK(replica[r], ToSet(records)) /\ (~downs => Whole(replica[r], Release[r], ToSet(records)))
    BY DEF MigrationsInv
  <2>2. ToSet(<< >>) = {}
    BY NothingYet
  <2> QED
    BY <1>1, <1>2, <2>1, <2>2 DEF ReplicaOK, NotYet, Whole
<1>4. ToSet(d) = {d[i] : i \in 1..Len(d)}
  <2>1. DOMAIN d = 1..Len(d)
    BY <1>3
  <2> QED
    BY <2>1 DEF ToSet
<1>5. ToSet(d) \intersect ToSet(records) = {}
  BY <1>3, <1>4
<1>6. /\ records' = records \o d
      /\ schema' = [m \in Versions |-> schema[m] + (IF m \in ToSet(d) THEN 1 ELSE 0)]
      /\ replica' = [replica EXCEPT ![r] = Outside("serving", "none")]
  BY <1>2, <1>5 DEF CommitMigrations
<1>7. PICK c : c = records \o d
  OBVIOUS
<1>8. c \in Seq(Versions) /\ ToSet(c) = ToSet(records) \union ToSet(d)
  <2>1. records \in Seq(Versions) /\ Len(records) \in Nat /\ Len(d) \in Nat
    BY <1>3 DEF MigrationsInv
  <2>2. /\ c \in Seq(Versions) /\ Len(c) = Len(records) + Len(d)
        /\ \A i \in 1..(Len(records) + Len(d)) :
              c[i] = IF i <= Len(records) THEN records[i] ELSE d[i - Len(records)]
    BY <1>3, <1>7, <2>1, ConcatProperties
  <2>3. DOMAIN c = 1..(Len(records) + Len(d)) /\ DOMAIN records = 1..Len(records)
    BY <2>1, <2>2
  <2>4. ASSUME NEW i \in 1..Len(records) PROVE records[i] \in ToSet(c)
    <3>1. i \in 1..(Len(records) + Len(d)) /\ i <= Len(records)
      BY <2>1
    <3> QED
      BY <2>2, <2>3, <3>1 DEF ToSet
  <2>5. ASSUME NEW i \in 1..Len(d) PROVE d[i] \in ToSet(c)
    <3>1. PICK j \in 1..(Len(records) + Len(d)) : ~(j <= Len(records)) /\ j - Len(records) = i
      <4>1. Len(records) + i \in 1..(Len(records) + Len(d)) /\ ~(Len(records) + i <= Len(records))
            /\ (Len(records) + i) - Len(records) = i
        BY <2>1
      <4> QED
        BY <4>1
    <3> QED
      BY <2>2, <2>3, <3>1 DEF ToSet
  <2>6. ASSUME NEW i \in 1..(Len(records) + Len(d)) PROVE c[i] \in ToSet(records) \union ToSet(d)
    <3>1. CASE i <= Len(records)
      <4>1. i \in 1..Len(records) /\ c[i] = records[i]
        BY <2>1, <2>2, <3>1
      <4> QED
        BY <2>3, <4>1 DEF ToSet
    <3>2. CASE ~(i <= Len(records))
      <4>1. i - Len(records) \in 1..Len(d) /\ c[i] = d[i - Len(records)]
        BY <2>1, <2>2, <3>2
      <4> QED
        BY <1>4, <4>1
    <3> QED
      BY <3>1, <3>2
  <2>7. /\ ToSet(c) = {c[i] : i \in 1..(Len(records) + Len(d))}
        /\ ToSet(records) = {records[i] : i \in 1..Len(records)}
    BY <2>3 DEF ToSet
  <2> QED
    BY <1>4, <2>2, <2>4, <2>5, <2>6, <2>7
<1>9. schema' = [m \in Versions |-> IF m \in ToSet(c) THEN 1 ELSE 0]
  <2>1. schema = [m \in Versions |-> IF m \in ToSet(records) THEN 1 ELSE 0]
    BY DEF MigrationsInv
  <2>2. ASSUME NEW m \in Versions
        PROVE schema[m] + (IF m \in ToSet(d) THEN 1 ELSE 0) = IF m \in ToSet(c) THEN 1 ELSE 0
    BY <1>5, <1>8, <2>1
  <2> QED
    BY <1>6, <2>2
<1>10. /\ replica' = [q \in Replicas |-> replica'[q]]
       /\ \A q \in Replicas : replica'[q] = IF q = r THEN Outside("serving", "none") ELSE replica[q]
  BY <1>6 DEF MigrationsInv
<1>11. ASSUME NEW q \in Replicas
       PROVE  ReplicaOK(replica'[q], ToSet(c)) /\ replica'[q].at # "migrating"
  <2>1. CASE q = r
    <3>1. ReplicaOK(Outside("serving", "none"), ToSet(c))
      BY EmptyOK
    <3> QED
      BY <1>10, <2>1, <3>1 DEF Outside
  <2>2. CASE q # r
    <3>1. ReplicaOK(replica[q], ToSet(records)) /\ replica[q].at # "migrating"
      BY <1>1, <2>2 DEF MigrationsInv
    <3>2. NotYet(<< >>, ToSet(c))
      BY NothingYet
    <3> QED
      BY <1>10, <2>2, <3>1, <3>2 DEF ReplicaOK
  <2> QED
    BY <2>1, <2>2
<1>12. ASSUME NEW q \in Replicas, ~downs PROVE Whole(replica'[q], Release[q], ToSet(c))
  <2>1. CASE q = r
    BY <1>3, <1>8, <1>11, <1>12, <2>1 DEF Whole
  <2>2. CASE q # r
    <3>1. Whole(replica[q], Release[q], ToSet(records)) /\ replica'[q] = replica[q]
      BY <1>10, <1>12, <2>2 DEF MigrationsInv
    <3> QED
      BY <1>8, <1>11, <3>1 DEF Whole
  <2> QED
    BY <2>1, <2>2
<1>13. mlock' = NoReplica /\ NoReplica \notin Replicas
  BY <1>1, MigrationsAssumption DEF Freed, NoReplica
<1>14. records' = c /\ downs' = downs
  BY <1>1, <1>6, <1>7
<1> QED
  BY <1>8, <1>9, <1>10, <1>11, <1>12, <1>13, <1>14 DEF MigrationsInv

LEMMA MigrateDownOK ==
    ASSUME MigrationsInv, NEW n \in Versions, MigrateDown(n) PROVE MigrationsInv'
<1> DEFINE rest == {i \in DOMAIN records : records[i] \notin Reverts(n)}
<1>1. /\ n <= Len(records) /\ records' = Picked(records, rest) /\ downs' = TRUE
      /\ schema' = [m \in Versions |-> schema[m] - (IF m \in Reverts(n) \ NoDown THEN 1 ELSE 0)]
      /\ UNCHANGED <<replica, mlock>>
  BY DEF MigrateDown
<1>2. records \in Seq(Versions) /\ Len(records) \in Nat /\ DOMAIN records = 1..Len(records) /\ n \in Nat
  <2>1. PICK r \in Replicas : n \in 1..Release[r]
    BY DEF Versions
  <2>2. Release[r] \in Nat
    BY MigrationsAssumption
  <2> QED
    BY <2>1, <2>2 DEF MigrationsInv
<1>3. Reverts(n) \subseteq ToSet(records) /\ Reverts(n) \ NoDown = Reverts(n)
  <2>1. \A i \in (Len(records) - n + 1)..Len(records) : i \in DOMAIN records
    BY <1>1, <1>2
  <2> QED
    BY <2>1 DEF Reverts, ToSet
<1>4. rest \subseteq Int /\ IsFiniteSet(rest) /\ rest \subseteq DOMAIN records
  <2>1. rest \in SUBSET (1..Len(records)) /\ rest \subseteq Int
    BY <1>2
  <2>2. IsFiniteSet(1..Len(records))
    BY <1>2, FS_Interval
  <2> HIDE DEF rest
  <2> QED
    BY <1>2, <2>1, <2>2, FS_Subset
<1>5. {records[i] : i \in rest} = ToSet(records) \ Reverts(n)
  BY DEF ToSet
<1>6. \A i \in rest : records[i] \in Versions
  BY <1>2
<1> HIDE DEF rest
<1>7. Picked(records, rest) \in Seq(Versions)
  BY <1>4, <1>6, PickedFrom
<1>8. ToSet(Picked(records, rest)) = ToSet(records) \ Reverts(n)
  <2>1. ToSet(Picked(records, rest)) = {records[i] : i \in rest}
    BY <1>4, PickedRange DEF ToSet
  <2> QED
    BY <1>5, <2>1
<1>9. PICK c : c = Picked(records, rest)
  OBVIOUS
<1>10. c \in Seq(Versions) /\ ToSet(c) = ToSet(records) \ Reverts(n)
  BY <1>7, <1>8, <1>9
<1>11. schema' = [m \in Versions |-> IF m \in ToSet(c) THEN 1 ELSE 0]
  <2>1. schema = [m \in Versions |-> IF m \in ToSet(records) THEN 1 ELSE 0]
    BY DEF MigrationsInv
  <2>2. ASSUME NEW m \in Versions
        PROVE schema[m] - (IF m \in Reverts(n) \ NoDown THEN 1 ELSE 0) = IF m \in ToSet(c) THEN 1 ELSE 0
    BY <1>3, <1>10, <2>1
  <2> QED
    BY <1>1, <2>2
<1>12. ASSUME NEW q \in Replicas PROVE ReplicaOK(replica[q], ToSet(c))
  <2>1. ReplicaOK(replica[q], ToSet(records)) /\ ToSet(c) \subseteq ToSet(records)
    BY <1>10 DEF MigrationsInv
  <2> QED
    BY <2>1 DEF ReplicaOK, NotYet
<1>13. records' = c
  BY <1>1, <1>9
<1> QED
  BY <1>1, <1>10, <1>11, <1>12, <1>13 DEF MigrationsInv

LEMMA MigrationsStart == MigrationsInit => MigrationsInv
<1> SUFFICES ASSUME MigrationsInit PROVE MigrationsInv
  OBVIOUS
<1>1. /\ records = << >> /\ schema = [m \in Versions |-> 0]
      /\ replica = [r \in Replicas |-> NoTxn] /\ mlock = NoReplica
  BY DEF MigrationsInit
<1>2. << >> \in Seq(Versions) /\ ToSet(<< >>) = {}
  BY NothingYet DEF NotYet
<1>3. ASSUME NEW r \in Replicas
      PROVE  /\ replica[r] = Outside("off", "none") /\ replica[r].at = "off"
             /\ ReplicaOK(replica[r], ToSet(records)) /\ Whole(replica[r], Release[r], ToSet(records))
  <2>1. replica[r] = Outside("off", "none") /\ replica[r].at = "off"
    BY <1>1 DEF NoTxn, Outside
  <2> QED
    BY <2>1, EmptyOK DEF Whole
<1>4. NoReplica \notin Replicas
  BY MigrationsAssumption DEF NoReplica
<1>5. schema = [m \in Versions |-> IF m \in ToSet(records) THEN 1 ELSE 0]
  BY <1>1, <1>2
<1> QED
  BY <1>1, <1>2, <1>3, <1>4, <1>5 DEF MigrationsInv

LEMMA MigrationsStep == MigrationsInv /\ [MigrationsNext]_migVars => MigrationsInv'
<1>1. MigrationsInv /\ UNCHANGED migVars => MigrationsInv'
  BY DEF MigrationsInv, migVars
<1> QED
  BY <1>1, StartReplicaOK, TakeMigrationLockOK, ApplyFileOK, FileFailsOK, CommitMigrationsOK,
     KillReplicaOK, MigrateDownOK DEF MigrationsNext

LEMMA MigrationsHold == MigrationsInv => MigrationsSound
<1> SUFFICES ASSUME MigrationsInv PROVE MigrationsSound
  OBVIOUS
<1>1. \A m \in Versions : schema[m] = IF m \in ToSet(records) THEN 1 ELSE 0
  BY DEF MigrationsInv
<1>2. \A r \in Replicas : replica[r].at = "failed" => replica[r].why = "statement"
  BY DEF MigrationsInv, ReplicaOK
<1>3. ~downs => \A r \in Replicas : replica[r].at = "serving" => 1..Release[r] \subseteq ToSet(records)
  BY DEF MigrationsInv, Whole
<1> QED
  BY <1>1, <1>2, <1>3 DEF MigrationsSound

\* However many replicas of whatever releases start, are killed and fail, the
\* records say which migrations are in effect, and a gateway serves with all of its own.
THEOREM MigrationsAlways == MigrationsSpec => []MigrationsSound
BY MigrationsStart, MigrationsStep, MigrationsHold, PTL DEF MigrationsSpec

-----------------------------------------------------------------------------
\* Workflows.

FlowAt == {"idle", "next", "calling", "over"}
FlowEnds == {"completed", "cost_limit", "failed", "needs_approval"}
Results == [id : STRING, ok : BOOLEAN]
Flows == [at : FlowAt, subject : Subjects \cup {"nobody"}, approved : SUBSET Ids, step : Nat,
          cost : Nat, status : FlowEnds, steps : Seq(Results)]

PlanSteps == [id : STRING, kind : {"tool", "model", "none"}, tool : STRING]
PlanOK == plan \in Seq(PlanSteps) /\ Len(plan) # 0

\* The steps a run has behind it (s) when it has reached a step (n): all succeeded,
\* except the last one of a run that failed or needs an approval.
StepsOK(at, status, n, s) ==
    /\ n \in 0..Len(plan)
    /\ at = "idle" => n = 0 /\ Len(s) = 0 /\ status = "completed"
    /\ at = "next" => n = Len(s) /\ n < Len(plan) /\ status = "completed"
    /\ at = "calling" => n = Len(s) + 1 /\ status = "completed"
    /\ at = "over" => Len(s) = n /\ (status = "completed" => n = Len(plan))
                      /\ (status = "cost_limit" => n < Len(plan))
    /\ status \in {"completed", "cost_limit"} => \A k \in 1..Len(s) : s[k].ok
    /\ status \in {"failed", "needs_approval"} => Len(s) # 0 /\ \A k \in 1..Len(s) : s[k].ok <=> k < Len(s)

\* The steps whose handlers a run started (e), of those it has behind it (s).
StartedOK(status, s, e) ==
    /\ e \in Seq(Nat)
    /\ \A i \in 1..Len(e) : e[i] \in 1..Len(s) /\ plan[e[i]].kind = "tool"
    /\ \A i, j \in 1..Len(e) : i < j => e[i] < e[j]
    /\ status \in {"completed", "cost_limit"} =>
          \A k \in 1..Len(s) : plan[k].kind = "tool" => \E i \in 1..Len(e) : e[i] = k

\* A tool that somebody may call at a step, with these steps approved.
Allowed(who, steps, k) ==
    /\ plan[k].tool \in Granted[who]
    /\ plan[k].tool \in Gated => who \in Admins /\ plan[k].id \in steps

AllowedOK(f, e) ==
    /\ f.at # "idle" => MayRun(f.subject, f.approved)
    /\ f.at = "calling" /\ plan[f.step].kind = "tool" => Allowed(f.subject, f.approved, f.step)
    /\ \A i \in 1..Len(e) : Allowed(f.subject, f.approved, e[i])

CostOK(at, cost) ==
    /\ cost = 0 \/ \E p \in Prices : cost < MaxCostUsd + p
    /\ at = "calling" => cost < MaxCostUsd

FlowOK(f, e) ==
    /\ f \in Flows
    /\ StepsOK(f.at, f.status, f.step, f.steps)
    /\ StartedOK(f.status, f.steps, e)
    /\ AllowedOK(f, e)
    /\ CostOK(f.at, f.cost)

FlowsOK == \A r \in Slots : FlowOK(flows[r], effects[r])

\* What the table says of a run agrees with its steps.
RowTells(status, s) ==
    /\ status \in FlowEnds /\ s \in Seq(Results)
    /\ status = "completed" => Len(s) = Len(plan)
    /\ status = "cost_limit" => Len(s) < Len(plan)
    /\ status \in {"completed", "cost_limit"} => \A k \in 1..Len(s) : s[k].ok
    /\ status \in {"failed", "needs_approval"} => Len(s) # 0 /\ \A k \in 1..Len(s) : s[k].ok <=> k < Len(s)

PastRows == [no : Nat, status : FlowEnds, steps : Seq(Results), created : Nat]

\* The latest rows of n, in their order, none of them from the future.
RowsOK(s, n, now) ==
    /\ s \in Seq(PastRows)
    /\ \A i, j \in 1..Len(s) : i <= j => s[i].created <= s[j].created
    /\ \A i \in 1..Len(s) :
          s[i].created <= now /\ s[i].no = n - (Len(s) - i) /\ RowTells(s[i].status, s[i].steps)

PastOK == RowsOK(past, finished, wfNow) /\ Len(past) <= WORKFLOW_KEEP

WorkflowsInv ==
    /\ flows = [r \in Slots |-> flows[r]] /\ effects = [r \in Slots |-> effects[r]]
    /\ wfNow \in Nat /\ finished \in Nat /\ PlanOK /\ FlowsOK /\ PastOK

LEMMA WorkflowSoundOK ==
    ASSUME WorkflowsInv
    PROVE  WorkflowSound
<1>1. EffectsInOrder
  <2> SUFFICES ASSUME NEW r \in Slots
               PROVE  /\ \A i, j \in DOMAIN effects[r] : i < j => effects[r][i] < effects[r][j]
                      /\ \A i \in DOMAIN effects[r] :
                            /\ plan[effects[r][i]].tool \in Granted[flows[r].subject]
                            /\ plan[effects[r][i]].tool \in Gated =>
                                  /\ flows[r].subject \in Admins
                                  /\ plan[effects[r][i]].id \in flows[r].approved
                            /\ \A k \in 1..(effects[r][i] - 1) : flows[r].steps[k].ok
                      /\ flows[r].status = "completed" =>
                            {effects[r][i] : i \in DOMAIN effects[r]}
                            = {k \in 1..Len(flows[r].steps) : plan[k].kind = "tool"}
    BY DEF EffectsInOrder
  <2>1. PICK f : f = flows[r]
    OBVIOUS
  <2>2. PICK e : e = effects[r]
    OBVIOUS
  <2>3. FlowOK(f, e)
    BY <2>1, <2>2 DEF WorkflowsInv, FlowsOK
  <2>4. PICK s \in Seq(Results) : s = f.steps
    BY <2>3 DEF FlowOK, Flows
  <2>5. /\ e \in Seq(Nat) /\ Len(e) \in Nat /\ DOMAIN e = 1..Len(e)
        /\ Len(s) \in Nat /\ f.status \in FlowEnds
    BY <2>3 DEF FlowOK, StartedOK, Flows
  <2>6. \A i, j \in 1..Len(e) : i < j => e[i] < e[j]
    BY <2>3 DEF FlowOK, StartedOK
  <2>7. \A i \in 1..Len(e) : Allowed(f.subject, f.approved, e[i])
    BY <2>3 DEF FlowOK, AllowedOK
  <2>8. ASSUME NEW i \in 1..Len(e), NEW k \in 1..(e[i] - 1) PROVE s[k].ok
    <3>1. e[i] \in 1..Len(s)
      BY <2>3, <2>4 DEF FlowOK, StartedOK
    <3>2. k \in 1..Len(s) /\ k < Len(s)
      BY <2>5, <3>1
    <3>3. CASE f.status \in {"completed", "cost_limit"}
      BY <2>3, <2>4, <3>2, <3>3 DEF FlowOK, StepsOK
    <3>4. CASE f.status \in {"failed", "needs_approval"}
      BY <2>3, <2>4, <3>2, <3>4 DEF FlowOK, StepsOK
    <3> QED
      BY <2>5, <3>3, <3>4 DEF FlowEnds
  <2>9. ASSUME f.status = "completed"
        PROVE  {e[i] : i \in 1..Len(e)} = {k \in 1..Len(s) : plan[k].kind = "tool"}
    <3>1. /\ \A i \in 1..Len(e) : e[i] \in 1..Len(s) /\ plan[e[i]].kind = "tool"
          /\ \A k \in 1..Len(s) : plan[k].kind = "tool" => \E i \in 1..Len(e) : e[i] = k
      BY <2>3, <2>4, <2>9 DEF FlowOK, StartedOK
    <3> QED
      BY <3>1
  <2>10. \A i \in 1..Len(e) :
            /\ plan[e[i]].tool \in Granted[f.subject]
            /\ plan[e[i]].tool \in Gated => f.subject \in Admins /\ plan[e[i]].id \in f.approved
            /\ \A k \in 1..(e[i] - 1) : s[k].ok
    BY <2>7, <2>8 DEF Allowed
  <2> QED
    BY <2>1, <2>2, <2>4, <2>5, <2>6, <2>9, <2>10
<1>2. CostBounded
  BY DEF WorkflowsInv, FlowsOK, FlowOK, CostOK, CostBounded
<1>3. HistoryHonest
  <2>1. PICK s \in Seq(PastRows) : s = past
    BY DEF WorkflowsInv, PastOK, RowsOK
  <2>2. PICK n \in Nat : n = Len(s)
    OBVIOUS
  <2>3. DOMAIN s = 1..n /\ finished \in Nat
    BY <2>2 DEF WorkflowsInv
  <2>4. \A i \in 1..n : s[i].no = finished - (n - i) /\ RowTells(s[i].status, s[i].steps)
    BY <2>1, <2>2 DEF WorkflowsInv, PastOK, RowsOK
  <2>5. n <= WORKFLOW_KEEP
    BY <2>1, <2>2 DEF WorkflowsInv, PastOK
  <2>6. s # << >> => s[n].no = finished
    <3>1. s # << >> => n \in 1..n
      BY <2>2
    <3> QED
      BY <2>3, <2>4, <3>1
  <2>7. ASSUME NEW i \in 1..n, i > 1 PROVE s[i].no = s[i - 1].no + 1
    <3>1. i - 1 \in 1..n
      BY <2>7
    <3>2. s[i - 1].no = finished - (n - (i - 1)) /\ s[i].no = finished - (n - i)
      BY <2>4, <3>1
    <3> QED
      BY <2>3, <3>2
  <2>8. ASSUME NEW i \in 1..n
        PROVE  CASE s[i].status = "completed" -> Len(s[i].steps) = Len(plan) /\ \A k \in DOMAIN s[i].steps : s[i].steps[k].ok
                 [] s[i].status = "cost_limit" -> Len(s[i].steps) < Len(plan) /\ \A k \in DOMAIN s[i].steps : s[i].steps[k].ok
                 [] OTHER -> s[i].steps # << >> /\ \A k \in DOMAIN s[i].steps : s[i].steps[k].ok <=> k < Len(s[i].steps)
    <3>1. PICK t \in Seq(Results) : t = s[i].steps
      BY <2>4 DEF RowTells
    <3>2. PICK st \in FlowEnds : st = s[i].status
      BY <2>4 DEF RowTells
    <3>3. RowTells(st, t) /\ DOMAIN t = 1..Len(t) /\ (Len(t) # 0 => t # << >>)
      BY <2>4, <3>1, <3>2
    <3>4. CASE st \in {"completed", "cost_limit"}
      BY <3>1, <3>2, <3>3, <3>4 DEF RowTells
    <3>5. CASE st \in {"failed", "needs_approval"}
      BY <3>1, <3>2, <3>3, <3>5 DEF RowTells
    <3> QED
      BY <3>4, <3>5 DEF FlowEnds
  <2> QED
    BY <2>1, <2>2, <2>3, <2>5, <2>6, <2>7, <2>8 DEF HistoryHonest
<1> QED
  BY <1>1, <1>2, <1>3 DEF WorkflowSound

-----------------------------------------------------------------------------
\* A step more behind a run, whose handler it started if it is a tool's that succeeded.
LEMMA StartedStep ==
    ASSUME NEW s \in Seq(Results), NEW x \in Results, NEW e, StartedOK("completed", s, e),
           NEW n \in Nat, n = Len(s) + 1, NEW d, NEW status,
           d = e \/ (d = Append(e, n) /\ plan[n].kind = "tool"),
           status \in {"completed", "cost_limit"} /\ plan[n].kind = "tool" => d = Append(e, n)
    PROVE  StartedOK(status, Append(s, x), d)
<1>1. PICK t \in Seq(Results) : t = Append(s, x)
  <2>1. Append(s, x) \in Seq(Results)
    BY AppendProperties
  <2> QED
    BY <2>1
<1>2. PICK l \in Nat : l = Len(e)
  BY DEF StartedOK
<1>3. /\ e \in Seq(Nat) /\ Len(s) \in Nat /\ Len(t) = n
      /\ \A i \in 1..l : e[i] \in 1..Len(s) /\ e[i] \in 1..n /\ plan[e[i]].kind = "tool" /\ e[i] < n
      /\ \A i, j \in 1..l : i < j => e[i] < e[j]
      /\ \A k \in 1..Len(s) : plan[k].kind = "tool" => \E i \in 1..l : e[i] = k
  BY <1>1, <1>2 DEF StartedOK
<1>4. \A k \in 1..n : k \in 1..Len(s) \/ k = n
  BY <1>3
<1>5. CASE d = e
  <2>1. status \in {"completed", "cost_limit"} => plan[n].kind # "tool"
    <3>1. d # Append(e, n)
      <4>1. Len(Append(e, n)) = l + 1
        BY <1>2, <1>3
      <4> QED
        BY <1>2, <1>5, <4>1
    <3> QED
      BY <3>1
  <2>2. status \in {"completed", "cost_limit"} =>
           \A k \in 1..n : plan[k].kind = "tool" => \E i \in 1..l : e[i] = k
    BY <1>3, <1>4, <2>1
  <2> QED
    BY <1>1, <1>2, <1>3, <1>5, <2>2 DEF StartedOK
<1>6. CASE d # e
  <2>1. d = Append(e, n) /\ plan[n].kind = "tool"
    BY <1>6
  <2>2. /\ d \in Seq(Nat) /\ Len(d) = l + 1 /\ d[l + 1] = n
        /\ \A i \in 1..l : d[i] = e[i]
    BY <1>2, <1>3, <2>1
  <2>3. ASSUME NEW i \in 1..(l + 1) PROVE d[i] \in 1..n /\ plan[d[i]].kind = "tool"
    <3>1. n \in 1..n
      BY <1>3
    <3>2. CASE i \in 1..l
      BY <1>3, <2>2, <3>2
    <3>3. CASE i \notin 1..l
      <4>1. i = l + 1
        BY <3>3
      <4> QED
        BY <2>1, <2>2, <3>1, <4>1
    <3> QED
      BY <3>2, <3>3
  <2>4. ASSUME NEW i \in 1..(l + 1), NEW j \in 1..(l + 1), i < j PROVE d[i] < d[j]
    <3>1. i \in 1..l /\ (j \in 1..l \/ j = l + 1)
      BY <2>4
    <3>2. CASE j \in 1..l
      BY <1>3, <2>2, <2>4, <3>1, <3>2
    <3>3. CASE j = l + 1
      BY <1>3, <2>2, <3>1, <3>3
    <3> QED
      BY <3>1, <3>2, <3>3
  <2>5. ASSUME NEW k \in 1..n, plan[k].kind = "tool" PROVE \E i \in 1..(l + 1) : d[i] = k
    <3>1. CASE k = n
      <4>1. l + 1 \in 1..(l + 1)
        OBVIOUS
      <4> QED
        BY <2>2, <3>1, <4>1
    <3>2. CASE k # n
      <4>1. PICK i \in 1..l : e[i] = k
        BY <1>3, <1>4, <2>5, <3>2
      <4>2. i \in 1..(l + 1) /\ d[i] = k
        BY <2>2, <4>1
      <4> QED
        BY <4>2
    <3> QED
      BY <3>1, <3>2
  <2> QED
    BY <1>1, <1>3, <2>2, <2>3, <2>4, <2>5 DEF StartedOK
<1> QED
  BY <1>5, <1>6

\* The step a run ends or goes on with, at the place n, with what it started (d).
Moved(f, g, n) ==
    /\ g \in Flows /\ g.subject = f.subject /\ g.approved = f.approved
    /\ g.step = n /\ n = Len(f.steps) + 1 /\ n <= Len(plan)

MovedStarts(f, n, e, d) ==
    \/ d = e
    \/ d = Append(e, n) /\ plan[n].kind = "tool" /\ Allowed(f.subject, f.approved, n)

LEMMA MovedAllowed ==
    ASSUME NEW f, NEW e, NEW g, NEW d, NEW n \in Nat, Moved(f, g, n), FlowOK(f, e), f.at # "idle",
           MovedStarts(f, n, e, d), g.at # "calling"
    PROVE  AllowedOK(g, d)
<1>1. e \in Seq(Nat) /\ Len(e) \in Nat
  BY DEF FlowOK, StartedOK
<1>2. MayRun(g.subject, g.approved)
  BY DEF FlowOK, AllowedOK, Moved
<1>3. ASSUME NEW i \in 1..Len(d) PROVE Allowed(g.subject, g.approved, d[i])
  <2>1. \A j \in 1..Len(e) : Allowed(g.subject, g.approved, e[j])
    BY DEF FlowOK, AllowedOK, Moved
  <2>2. CASE d = e
    BY <2>1, <2>2
  <2>3. CASE d = Append(e, n) /\ Allowed(f.subject, f.approved, n)
    <3>1. CASE i \in 1..Len(e)
      <4>1. d[i] = e[i]
        BY <1>1, <2>3, <3>1
      <4> QED
        BY <2>1, <3>1, <4>1
    <3>2. CASE i \notin 1..Len(e)
      <4>1. d[i] = n
        BY <1>1, <1>3, <2>3, <3>2
      <4> QED
        BY <2>3, <4>1 DEF Moved
    <3> QED
      BY <3>1, <3>2
  <2> QED
    BY <2>2, <2>3 DEF MovedStarts
<1> QED
  BY <1>2, <1>3 DEF AllowedOK

LEMMA StepOkKeeps ==
    ASSUME PlanOK, NEW f, NEW e, FlowOK(f, e), f.at = "calling", NEW g, NEW d, NEW n \in Nat,
           Moved(f, g, n), MovedStarts(f, n, e, d), plan[n].kind = "tool" => d = Append(e, n),
           NEW x \in Results, x.ok, g.steps = Append(f.steps, x),
           g.at = IF n = Len(plan) THEN "over" ELSE "next", g.status = f.status,
           CostOK(g.at, g.cost)
    PROVE  FlowOK(g, d)
<1>1. PICK s \in Seq(Results) : s = f.steps
  BY DEF FlowOK, Flows
<1>2. f.status = "completed" /\ Len(plan) \in Nat
  BY DEF FlowOK, StepsOK, PlanOK
<1>3. StartedOK("completed", s, e)
  BY <1>1, <1>2 DEF FlowOK
<1>4. n = Len(s) + 1 /\ n <= Len(plan)
  BY <1>1 DEF Moved
<1>5. d = e \/ (d = Append(e, n) /\ plan[n].kind = "tool")
  BY DEF MovedStarts
<1>6. StartedOK(g.status, g.steps, d)
  BY <1>1, <1>2, <1>3, <1>4, <1>5, StartedStep
<1>7. StepsOK(g.at, g.status, n, g.steps)
  <2>1. PICK t \in Seq(Results) : t = g.steps /\ t = Append(s, x)
    <3>1. Append(s, x) \in Seq(Results)
      BY AppendProperties
    <3> QED
      BY <1>1, <3>1
  <2>2. \A k \in 1..Len(s) : s[k].ok
    BY <1>1, <1>2 DEF FlowOK, StepsOK
  <2>3. Len(t) = n /\ \A k \in 1..Len(t) : t[k].ok
    BY <1>4, <2>1, <2>2
  <2> QED
    BY <1>2, <1>4, <2>1, <2>3 DEF StepsOK
<1>8. AllowedOK(g, d)
  BY MovedAllowed
<1> QED
  BY <1>6, <1>7, <1>8 DEF FlowOK, Moved

LEMMA StepFailsKeeps ==
    ASSUME PlanOK, NEW f, NEW e, FlowOK(f, e), f.at \in {"next", "calling"}, NEW g, NEW d, NEW n \in Nat,
           Moved(f, g, n), MovedStarts(f, n, e, d),
           NEW x \in Results, ~x.ok, g.steps = Append(f.steps, x),
           g.at = "over", g.status \in {"failed", "needs_approval"}, g.cost = f.cost
    PROVE  FlowOK(g, d)
<1>1. PICK s \in Seq(Results) : s = f.steps
  BY DEF FlowOK, Flows
<1>2. f.status = "completed" /\ Len(plan) \in Nat
  BY DEF FlowOK, StepsOK, PlanOK
<1>3. StartedOK("completed", s, e)
  BY <1>1, <1>2 DEF FlowOK
<1>4. n = Len(s) + 1 /\ n <= Len(plan)
  BY <1>1 DEF Moved
<1>5. d = e \/ (d = Append(e, n) /\ plan[n].kind = "tool")
  BY DEF MovedStarts
<1>6. StartedOK(g.status, g.steps, d)
  BY <1>1, <1>2, <1>3, <1>4, <1>5, StartedStep
<1>7. StepsOK(g.at, g.status, n, g.steps)
  <2>1. PICK t \in Seq(Results) : t = g.steps /\ t = Append(s, x)
    <3>1. Append(s, x) \in Seq(Results)
      BY AppendProperties
    <3> QED
      BY <1>1, <3>1
  <2>2. \A k \in 1..Len(s) : s[k].ok
    BY <1>1, <1>2 DEF FlowOK, StepsOK
  <2>3. Len(t) = n /\ \A k \in 1..Len(t) : t[k].ok <=> k < Len(t)
    BY <1>4, <2>1, <2>2
  <2> QED
    BY <1>2, <1>4, <2>1, <2>3 DEF StepsOK
<1>8. AllowedOK(g, d)
  BY MovedAllowed
<1>9. CostOK(g.at, g.cost)
  BY DEF FlowOK, CostOK
<1> QED
  BY <1>6, <1>7, <1>8, <1>9 DEF FlowOK, Moved

-----------------------------------------------------------------------------
\* Keeping the end of the rows (from the place m on) keeps what they tell.
LEMMA EndOfRows ==
    ASSUME NEW s, NEW n \in Nat, NEW now \in Nat, RowsOK(s, n, now), NEW m \in 0..Len(s), NEW t,
           t = Picked(s, (m + 1)..Len(s))
    PROVE  RowsOK(t, n, now) /\ Len(t) = Len(s) - m
<1>1. PICK l \in Nat : l = Len(s)
  BY DEF RowsOK
<1>2. t = [j \in 1..(l - m) |-> s[m + j]]
  BY <1>1, PickedEnd
<1>3. \A j \in 1..(l - m) : m + j \in 1..l
  BY <1>1
<1>4. \A i \in 1..l : s[i] \in PastRows
  BY <1>1 DEF RowsOK
<1>5. /\ t \in Seq(PastRows) /\ Len(t) = l - m
      /\ \A j \in 1..(l - m) : t[j] = s[m + j]
  <2>1. \A j \in 1..(l - m) : s[m + j] \in PastRows
    BY <1>3, <1>4
  <2>2. PICK k \in Nat : k = l - m
    <3>1. l - m \in Nat
      BY <1>1
    <3> QED
      BY <3>1
  <2>3. t = [j \in 1..k |-> s[m + j]] /\ \A j \in 1..k : s[m + j] \in PastRows
    BY <1>2, <2>1, <2>2
  <2>4. t \in [1..k -> PastRows]
    BY <2>3
  <2>5. t \in Seq(PastRows) /\ Len(t) = k
    BY <2>4
  <2>6. \A j \in 1..k : t[j] = s[m + j]
    BY <2>3
  <2> QED
    BY <2>2, <2>5, <2>6
<1>6. ASSUME NEW i \in 1..(l - m), NEW j \in 1..(l - m), i <= j PROVE t[i].created <= t[j].created
  <2>1. m + i \in 1..l /\ m + j \in 1..l /\ m + i <= m + j
    BY <1>1, <1>6
  <2>2. s[m + i].created <= s[m + j].created
    BY <1>1, <2>1 DEF RowsOK
  <2> QED
    BY <1>5, <2>2
<1>7. ASSUME NEW i \in 1..(l - m)
      PROVE  /\ t[i].created <= now /\ RowTells(t[i].status, t[i].steps)
             /\ t[i].no = n - ((l - m) - i)
  <2>1. PICK k \in 1..l : k = m + i
    BY <1>3
  <2>2. t[i] = s[k]
    BY <1>5, <2>1
  <2>3. s[k].created <= now /\ RowTells(s[k].status, s[k].steps) /\ s[k].no = n - (l - k)
    BY <1>1 DEF RowsOK
  <2>4. l - k = (l - m) - i
    BY <1>1, <2>1
  <2> QED
    BY <2>2, <2>3, <2>4
<1> QED
  BY <1>1, <1>5, <1>6, <1>7 DEF RowsOK

LEMMA UnexpiredOK ==
    ASSUME NEW s, wfNow \in Nat, NEW n \in Nat, RowsOK(s, n, wfNow)
    PROVE  /\ RowsOK(Unexpired(s), n, wfNow)
           /\ Len(s) # 0 /\ s[Len(s)].created = wfNow => Len(Unexpired(s)) # 0
<1> DEFINE I == {i \in DOMAIN s : s[i].created >= wfNow - WORKFLOW_TTL}
<1>1. PICK l \in Nat : l = Len(s)
  BY DEF RowsOK
<1>2. DOMAIN s = 1..l /\ \A i \in 1..l : s[i] \in PastRows /\ s[i].created \in Nat
  <2>1. s \in Seq(PastRows)
    BY DEF RowsOK
  <2>2. DOMAIN s = 1..l /\ \A i \in 1..l : s[i] \in PastRows
    BY <1>1, <2>1
  <2>3. \A x \in PastRows : x.created \in Nat
    BY DEF PastRows
  <2> QED
    BY <2>2, <2>3
<1>3. WORKFLOW_TTL \in Nat
  BY WorkflowsAssumption
<1>4. I \in SUBSET (1..l)
  BY <1>2
<1>5. ASSUME NEW i \in I, NEW j \in 1..l, i <= j PROVE j \in I
  <2>1. i \in 1..l /\ s[i].created >= wfNow - WORKFLOW_TTL
    BY <1>2
  <2>2. s[i].created <= s[j].created
    BY <1>1, <1>5, <2>1 DEF RowsOK
  <2>3. s[j].created >= wfNow - WORKFLOW_TTL
    BY <1>2, <1>3, <2>1, <2>2
  <2> QED
    BY <1>2, <2>3
<1>6. Unexpired(s) = Picked(s, I)
  BY DEF Unexpired
<1>7. l # 0 /\ s[l].created = wfNow => l \in I
  BY <1>2, <1>3
<1> HIDE DEF I
<1>8. PICK m \in 0..l : I = (m + 1)..l
  BY <1>4, <1>5, LastPlaces
<1>9. RowsOK(Unexpired(s), n, wfNow) /\ Len(Unexpired(s)) = l - m
  BY <1>1, <1>6, <1>8, EndOfRows
<1>10. l # 0 /\ s[l].created = wfNow => l - m # 0
  BY <1>7, <1>8
<1> QED
  BY <1>1, <1>9, <1>10

LEMMA NewestOK ==
    ASSUME NEW s, NEW n \in Nat, NEW now \in Nat, RowsOK(s, n, now)
    PROVE  /\ RowsOK(Newest(s), n, now) /\ Len(Newest(s)) <= WORKFLOW_KEEP
           /\ Len(s) # 0 => Len(Newest(s)) # 0
<1> DEFINE I == {i \in DOMAIN s : i > Len(s) - WORKFLOW_KEEP}
<1>1. PICK l \in Nat : l = Len(s)
  BY DEF RowsOK
<1>2. DOMAIN s = 1..l
  BY <1>1 DEF RowsOK
<1>3. WORKFLOW_KEEP \in Nat \ {0}
  BY WorkflowsAssumption
<1>4. PICK m \in 0..l : m = IF l > WORKFLOW_KEEP THEN l - WORKFLOW_KEEP ELSE 0
  BY <1>3
<1>5. I = (m + 1)..l
  BY <1>1, <1>2, <1>3, <1>4
<1>6. Newest(s) = Picked(s, I)
  BY DEF Newest
<1> HIDE DEF I
<1>7. RowsOK(Newest(s), n, now) /\ Len(Newest(s)) = l - m
  BY <1>1, <1>5, <1>6, EndOfRows
<1> QED
  BY <1>1, <1>3, <1>4, <1>7

\* A row more, of the present time.
LEMMA RowMore ==
    ASSUME NEW s, NEW n \in Nat, NEW now \in Nat, RowsOK(s, n, now), NEW entry \in PastRows,
           entry.no = n + 1, entry.created = now, RowTells(entry.status, entry.steps)
    PROVE  /\ RowsOK(Append(s, entry), n + 1, now)
           /\ Len(Append(s, entry)) # 0 /\ Append(s, entry)[Len(Append(s, entry))].created = now
<1>1. PICK l \in Nat : l = Len(s)
  BY DEF RowsOK
<1>2. PICK t \in Seq(PastRows) : t = Append(s, entry)
  <2>1. Append(s, entry) \in Seq(PastRows)
    BY AppendProperties DEF RowsOK
  <2> QED
    BY <2>1
<1>3. /\ Len(t) = l + 1 /\ t[l + 1] = entry
      /\ \A i \in 1..l : t[i] = s[i]
  BY <1>1, <1>2 DEF RowsOK
<1>4. ASSUME NEW i \in 1..(l + 1), NEW j \in 1..(l + 1), i <= j PROVE t[i].created <= t[j].created
  <2>1. CASE j \in 1..l
    <3>1. i \in 1..l
      BY <1>4, <2>1
    <3>2. s[i].created <= s[j].created
      BY <1>1, <1>4, <2>1, <3>1 DEF RowsOK
    <3> QED
      BY <1>3, <2>1, <3>1, <3>2
  <2>2. CASE j \notin 1..l /\ i \in 1..l
    <3>1. j = l + 1
      BY <2>2
    <3>2. s[i].created <= now
      BY <1>1, <2>2 DEF RowsOK
    <3> QED
      BY <1>3, <2>2, <3>1, <3>2
  <2>3. CASE j \notin 1..l /\ i \notin 1..l
    <3>1. i = l + 1 /\ j = l + 1
      BY <2>3
    <3> QED
      BY <1>3, <3>1
  <2> QED
    BY <2>1, <2>2, <2>3
<1>5. ASSUME NEW i \in 1..(l + 1)
      PROVE  /\ t[i].created <= now /\ RowTells(t[i].status, t[i].steps)
             /\ t[i].no = (n + 1) - ((l + 1) - i)
  <2>1. CASE i \in 1..l
    <3>1. s[i].created <= now /\ RowTells(s[i].status, s[i].steps) /\ s[i].no = n - (l - i)
      BY <1>1, <2>1 DEF RowsOK
    <3>2. n - (l - i) = (n + 1) - ((l + 1) - i)
      OBVIOUS
    <3> QED
      BY <1>3, <2>1, <3>1, <3>2
  <2>2. CASE i \notin 1..l
    <3>1. i = l + 1
      BY <2>2
    <3>2. t[i] = entry
      BY <1>3, <3>1
    <3>3. (n + 1) - ((l + 1) - i) = n + 1
      BY <3>1
    <3> QED
      BY <3>2, <3>3
  <2> QED
    BY <2>1, <2>2
<1>6. RowsOK(t, n + 1, now)
  BY <1>3, <1>4, <1>5 DEF RowsOK
<1> QED
  BY <1>2, <1>3, <1>6

-----------------------------------------------------------------------------
LEMMA NoFlowOK ==
    ASSUME PlanOK
    PROVE  FlowOK(NoFlow, << >>)
<1>1. Len(plan) \in Nat
  BY DEF PlanOK
<1>2. NoFlow \in Flows
  BY DEF NoFlow, Flows, FlowAt, FlowEnds
<1>3. StepsOK("idle", "completed", 0, << >>) /\ StartedOK("completed", << >>, << >>)
  BY <1>1 DEF StepsOK, StartedOK
<1>4. AllowedOK(NoFlow, << >>) /\ CostOK("idle", 0)
  BY DEF AllowedOK, NoFlow, CostOK
<1> QED
  BY <1>2, <1>3, <1>4 DEF FlowOK, NoFlow

LEMMA WorkflowsInitInv ==
    ASSUME WorkflowsInit
    PROVE  WorkflowsInv
<1>1. PlanOK
  <2>1. PICK d \in Drafts : Parses(d) /\ plan = ParsedSteps(d)
    BY Zenon DEF WorkflowsInit
  <2>2. d \in Seq(RawSteps)
    BY <2>1, WorkflowsAssumption
  <2>3. PICK n \in Nat : n = Len(d)
    BY <2>2
  <2>4. DOMAIN d = 1..n /\ \A i \in 1..n : d[i] \in RawSteps
    BY <2>2, <2>3
  <2>5. ASSUME NEW x \in RawSteps PROVE [id |-> x.id, kind |-> KindOf(x), tool |-> x.tool] \in PlanSteps
    <3>1. x.id \in STRING /\ x.tool \in STRING
      BY DEF RawSteps
    <3>2. KindOf(x) \in {"tool", "model", "none"}
      BY Zenon DEF KindOf
    <3> QED
      BY <3>1, <3>2 DEF PlanSteps
  <2>6. plan = [i \in 1..n |-> [id |-> d[i].id, kind |-> KindOf(d[i]), tool |-> d[i].tool]]
    BY <2>1, <2>4 DEF ParsedSteps
  <2>7. plan \in [1..n -> PlanSteps]
    BY <2>4, <2>5, <2>6
  <2>8. d # << >>
    BY <2>1, Zenon DEF Parses
  <2>9. n # 0
    BY <2>2, <2>3, <2>8
  <2>10. plan \in Seq(PlanSteps) /\ Len(plan) = n
    BY <2>7
  <2> QED
    BY <2>9, <2>10 DEF PlanOK
<1>2. FlowsOK
  <2>1. flows = [r \in Slots |-> NoFlow] /\ effects = [r \in Slots |-> << >>]
    BY Zenon DEF WorkflowsInit
  <2>2. FlowOK(NoFlow, << >>)
    BY <1>1, NoFlowOK
  <2> QED
    BY <2>1, <2>2 DEF FlowsOK
<1>3. past = << >> /\ wfNow = 0 /\ finished = 0
  BY Zenon DEF WorkflowsInit
<1>4. PastOK
  BY <1>3, WorkflowsAssumption DEF PastOK, RowsOK
<1>5. flows = [r \in Slots |-> flows[r]] /\ effects = [r \in Slots |-> effects[r]]
  <2>1. flows = [r \in Slots |-> NoFlow] /\ effects = [r \in Slots |-> << >>]
    BY Zenon DEF WorkflowsInit
  <2> QED
    BY <2>1
<1> QED
  BY <1>1, <1>2, <1>3, <1>4, <1>5 DEF WorkflowsInv

\* The actions of one run.
FlowStep(r) ==
    \/ \E s \in Subjects, a \in SUBSET Ids : StartFlow(r, s, a)
    \/ NextStep(r)
    \/ \E ok \in BOOLEAN : ToolStepRuns(r, ok)
    \/ ToolStepRefused(r)
    \/ \E p \in Prices : ModelStep(r, p)
    \/ ModelStepFails(r)

LEMMA FlowStepOK ==
    ASSUME PlanOK, NEW r, NEW f, NEW e, f = flows[r], e = effects[r], FlowOK(f, e), FlowStep(r)
    PROVE  \E g, d : /\ FlowOK(g, d) /\ flows' = [flows EXCEPT ![r] = g]
                     /\ (effects' = effects /\ d = e) \/ effects' = [effects EXCEPT ![r] = d]
<1>1. /\ f \in Flows /\ e \in Seq(Nat) /\ Len(plan) \in Nat
      /\ MaxCostUsd \in Nat /\ Prices \subseteq Nat
  BY WorkflowsAssumption DEF FlowOK, StartedOK, PlanOK
<1>2. PICK n \in Nat : n = f.step
  BY <1>1 DEF Flows
<1>3. \A k \in 1..Len(plan) : plan[k].id \in STRING
  <2>1. \A k \in 1..Len(plan) : plan[k] \in PlanSteps
    BY DEF PlanOK
  <2> QED
    BY <2>1 DEF PlanSteps
<1>4. ASSUME NEW s \in Subjects, NEW a \in SUBSET Ids, StartFlow(r, s, a)
      PROVE  \E g : FlowOK(g, e) /\ flows' = [flows EXCEPT ![r] = g] /\ effects' = effects
  <2>1. PICK g : g = [NoFlow EXCEPT !.at = "next", !.subject = s, !.approved = a]
    OBVIOUS
  <2>2. /\ f.at = "idle" /\ MayRun(s, a) /\ effects' = effects
        /\ flows' = [flows EXCEPT ![r] = g]
    BY <1>4, <2>1 DEF StartFlow
  <2>3. g = [at |-> "next", subject |-> s, approved |-> a, step |-> 0, cost |-> 0,
             status |-> "completed", steps |-> << >>]
    BY <2>1 DEF NoFlow
  <2>4. g \in Flows
    BY <2>3 DEF Flows, FlowAt, FlowEnds
  <2>5. StepsOK("next", "completed", 0, << >>)
    BY <1>1 DEF StepsOK, PlanOK
  <2>6. f.status = "completed" /\ Len(f.steps) = 0 /\ f.steps = << >> /\ Len(e) = 0
    BY <1>1, <2>2 DEF FlowOK, StepsOK, StartedOK, Flows
  <2>7. StartedOK("completed", << >>, e)
    BY <2>6 DEF FlowOK
  <2>8. AllowedOK(g, e)
    BY <2>2, <2>3, <2>6 DEF AllowedOK
  <2>9. CostOK("next", 0)
    BY DEF CostOK
  <2> QED
    BY <2>2, <2>3, <2>4, <2>5, <2>7, <2>8, <2>9 DEF FlowOK
<1>5. ASSUME NextStep(r)
      PROVE  \E g : FlowOK(g, e) /\ flows' = [flows EXCEPT ![r] = g] /\ effects' = effects
  <2> DEFINE here == [f EXCEPT !.at = "calling", !.step = @ + 1]
             st == plan[f.step + 1]
  <2>1. /\ f.at = "next" /\ effects' = effects
        /\ flows' = [flows EXCEPT ![r] =
               IF OverCost(f) THEN CostStops(f)
               ELSE IF st.kind = "tool" /\ st.tool \in Gated /\ st.id \notin f.approved
                    THEN StepFails(here, "needs_approval")
                    ELSE here]
    BY <1>5 DEF NextStep
  <2>2. PICK h : h = [at |-> "calling", subject |-> f.subject, approved |-> f.approved, step |-> n + 1,
                      cost |-> f.cost, status |-> f.status, steps |-> f.steps]
    OBVIOUS
  <2>3. here = h
    <3>1. PICK g : g = here
      OBVIOUS
    <3>2. g = [f EXCEPT !.at = "calling", !.step = n + 1]
      BY <1>2, <3>1
    <3> HIDE DEF here
    <3>3. g = [at |-> "calling", subject |-> f.subject, approved |-> f.approved, step |-> n + 1,
               cost |-> f.cost, status |-> f.status, steps |-> f.steps]
      BY <1>1, <3>2 DEF Flows
    <3> QED
      BY <2>2, <3>1, <3>3
  <2>4. h \in Flows /\ n + 1 \in 1..Len(plan) /\ n = Len(f.steps) /\ f.status = "completed"
    BY <1>1, <1>2, <2>1, <2>2 DEF Flows, FlowAt, FlowOK, StepsOK
  <2> HIDE DEF here
  <2>5. CASE OverCost(f)
    <3>1. PICK g : g = CostStops(f)
      OBVIOUS
    <3>2. g = [at |-> "over", subject |-> f.subject, approved |-> f.approved, step |-> f.step,
               cost |-> f.cost, status |-> "cost_limit", steps |-> f.steps]
      BY <1>1, <3>1 DEF Flows, CostStops
    <3>3. g \in Flows
      BY <1>1, <3>2 DEF Flows, FlowAt, FlowEnds
    <3>4. StepsOK("over", "cost_limit", f.step, f.steps)
      BY <1>2, <2>1, <2>4 DEF FlowOK, StepsOK
    <3>5. StartedOK("cost_limit", f.steps, e)
      BY <2>4 DEF FlowOK, StartedOK
    <3>6. AllowedOK(g, e)
      BY <2>1, <3>2 DEF FlowOK, AllowedOK
    <3>7. CostOK("over", f.cost)
      BY DEF FlowOK, CostOK
    <3>8. FlowOK(g, e)
      BY <3>2, <3>3, <3>4, <3>5, <3>6, <3>7 DEF FlowOK
    <3> QED
      BY <2>1, <2>5, <3>1, <3>8
  <2>6. CASE ~OverCost(f) /\ st.kind = "tool" /\ st.tool \in Gated /\ st.id \notin f.approved
    <3>1. PICK g : g = StepFails(h, "needs_approval")
      OBVIOUS
    <3>2. PICK x : x = [id |-> plan[n + 1].id, ok |-> FALSE]
      OBVIOUS
    <3>3. g = [at |-> "over", subject |-> f.subject, approved |-> f.approved, step |-> n + 1,
               cost |-> f.cost, status |-> "needs_approval", steps |-> Append(f.steps, x)]
      BY <2>2, <3>1, <3>2 DEF StepFails
    <3>4. x \in Results /\ ~x.ok
      BY <1>3, <2>4, <3>2 DEF Results
    <3>5. g \in Flows
      <4>1. Append(f.steps, x) \in Seq(Results)
        BY <1>1, <3>4, AppendProperties DEF Flows
      <4> QED
        BY <1>1, <1>2, <3>3, <4>1 DEF Flows, FlowAt, FlowEnds
    <3>6. Moved(f, g, n + 1)
      BY <2>4, <3>3, <3>5 DEF Moved
    <3>7. MovedStarts(f, n + 1, e, e)
      BY DEF MovedStarts
    <3>8. FlowOK(g, e)
      BY <2>1, <3>3, <3>4, <3>6, <3>7, StepFailsKeeps
    <3> QED
      BY <2>1, <2>3, <2>6, <3>1, <3>8
  <2>7. CASE ~OverCost(f) /\ ~(st.kind = "tool" /\ st.tool \in Gated /\ st.id \notin f.approved)
    <3>1. StepsOK("calling", f.status, n + 1, f.steps)
      BY <1>1, <1>2, <2>1, <2>4 DEF FlowOK, StepsOK
    <3>2. StartedOK(f.status, f.steps, e)
      BY DEF FlowOK
    <3>3. MayRun(f.subject, f.approved)
      BY <2>1 DEF FlowOK, AllowedOK
    <3>4. plan[n + 1].kind = "tool" => Allowed(f.subject, f.approved, n + 1)
      <4>1. SUFFICES ASSUME plan[n + 1].kind = "tool" PROVE Allowed(f.subject, f.approved, n + 1)
        OBVIOUS
      <4>2. PICK k \in 1..Len(plan) : k = n + 1
        BY <2>4
      <4>3. plan[k].tool \in NeededTools
        <5>1. DOMAIN plan = 1..Len(plan)
          BY DEF PlanOK
        <5> QED
          BY <4>1, <4>2, <5>1 DEF NeededTools
      <4>4. plan[k].tool \in Granted[f.subject]
        BY <3>3, <4>3 DEF MayRun
      <4>5. plan[k].tool \in Gated => plan[k].id \in f.approved
        BY <1>2, <2>7, <4>1, <4>2
      <4>6. plan[k].tool \in Gated => f.subject \in Admins
        BY <3>3, <4>5 DEF MayRun
      <4> QED
        BY <4>2, <4>4, <4>5, <4>6 DEF Allowed
    <3>5. AllowedOK(h, e)
      <4>1. \A i \in 1..Len(e) : Allowed(f.subject, f.approved, e[i])
        BY DEF FlowOK, AllowedOK
      <4> QED
        BY <2>2, <3>3, <3>4, <4>1 DEF AllowedOK
    <3>6. CostOK("calling", f.cost)
      <4>1. f.cost \in Nat /\ ~(f.cost >= MaxCostUsd)
        BY <1>1, <2>7 DEF OverCost, Flows
      <4>2. f.cost < MaxCostUsd
        BY <1>1, <4>1
      <4> QED
        BY <4>2 DEF FlowOK, CostOK
    <3>7. FlowOK(h, e)
      BY <2>2, <2>4, <3>1, <3>2, <3>5, <3>6 DEF FlowOK
    <3> QED
      BY <2>1, <2>3, <2>7, <3>7
  <2> QED
    BY <2>5, <2>6, <2>7
<1>6. ASSUME NEW d, NEW ok \in BOOLEAN, NEW c \in Nat, f.at = "calling",
             MovedStarts(f, n, e, d), ok /\ plan[n].kind = "tool" => d = Append(e, n),
             ok => CostOK("next", c), ok \/ c = f.cost, NEW g,
             g = IF ok THEN [StepOk(f) EXCEPT !.cost = c] ELSE StepFails(f, "failed")
      PROVE  FlowOK(g, d)
  <2>1. n \in 1..Len(plan) /\ n = Len(f.steps) + 1 /\ f.status = "completed"
    BY <1>1, <1>2, <1>6 DEF Flows, FlowOK, StepsOK
  <2>2. PICK x : x = [id |-> plan[n].id, ok |-> ok]
    OBVIOUS
  <2>3. x \in Results /\ x.ok = ok
    BY <1>3, <2>1, <2>2 DEF Results
  <2>4. Append(f.steps, x) \in Seq(Results)
    BY <1>1, <2>3, AppendProperties DEF Flows
  <2>5. CASE ok
    <3>1. g = [at |-> IF n = Len(plan) THEN "over" ELSE "next", subject |-> f.subject,
               approved |-> f.approved, step |-> n, cost |-> c, status |-> f.status,
               steps |-> Append(f.steps, x)]
      BY <1>1, <1>2, <1>6, <2>2, <2>5 DEF StepOk, Flows
    <3>2. g \in Flows
      BY <1>1, <1>2, <2>4, <3>1 DEF Flows, FlowAt, FlowEnds
    <3>3. Moved(f, g, n)
      BY <2>1, <3>1, <3>2 DEF Moved
    <3>4. CostOK(g.at, g.cost)
      BY <1>6, <2>5, <3>1 DEF CostOK
    <3>5. /\ g.at = (IF n = Len(plan) THEN "over" ELSE "next") /\ g.status = f.status
          /\ g.steps = Append(f.steps, x)
      BY <3>1
    <3>6. /\ f.at = "calling" /\ MovedStarts(f, n, e, d)
          /\ plan[n].kind = "tool" => d = Append(e, n)
      BY <1>6, <2>5
    <3>7. x \in Results /\ x.ok
      BY <2>3, <2>5
    <3> QED
      BY <3>3, <3>4, <3>5, <3>6, <3>7, StepOkKeeps
  <2>6. CASE ~ok
    <3>1. g = [at |-> "over", subject |-> f.subject, approved |-> f.approved, step |-> n,
               cost |-> f.cost, status |-> "failed", steps |-> Append(f.steps, x)]
      BY <1>1, <1>2, <1>6, <2>2, <2>6 DEF StepFails, Flows
    <3>2. g \in Flows
      BY <1>1, <1>2, <2>4, <3>1 DEF Flows, FlowAt, FlowEnds
    <3>3. Moved(f, g, n)
      BY <2>1, <3>1, <3>2 DEF Moved
    <3>4. /\ g.at = "over" /\ g.status \in {"failed", "needs_approval"} /\ g.cost = f.cost
          /\ g.steps = Append(f.steps, x)
      BY <3>1
    <3>5. f.at \in {"next", "calling"} /\ MovedStarts(f, n, e, d)
      BY <1>6
    <3>6. x \in Results /\ ~x.ok
      BY <2>3, <2>6
    <3> QED
      BY <3>3, <3>4, <3>5, <3>6, StepFailsKeeps
  <2> QED
    BY <2>5, <2>6
<1>7. f.cost \in Nat /\ [StepOk(f) EXCEPT !.cost = f.cost] = StepOk(f)
  <2>1. PICK g : g = [StepOk(f) EXCEPT !.cost = f.cost]
    OBVIOUS
  <2>2. PICK h : h = StepOk(f)
    OBVIOUS
  <2>3. PICK x : x = [id |-> plan[f.step].id, ok |-> TRUE]
    OBVIOUS
  <2>4. g = [at |-> IF f.step = Len(plan) THEN "over" ELSE "next", subject |-> f.subject,
             approved |-> f.approved, step |-> f.step, cost |-> f.cost, status |-> f.status,
             steps |-> Append(f.steps, x)]
    BY <1>1, <2>1, <2>3 DEF StepOk, Flows
  <2>5. h = [at |-> IF f.step = Len(plan) THEN "over" ELSE "next", subject |-> f.subject,
             approved |-> f.approved, step |-> f.step, cost |-> f.cost, status |-> f.status,
             steps |-> Append(f.steps, x)]
    BY <1>1, <2>2, <2>3 DEF StepOk, Flows
  <2> QED
    BY <1>1, <2>1, <2>2, <2>4, <2>5 DEF Flows
<1>8. CostOK("next", f.cost) /\ MovedStarts(f, n, e, e)
  BY DEF FlowOK, CostOK, MovedStarts
<1>9. ASSUME NEW ok \in BOOLEAN, ToolStepRuns(r, ok)
      PROVE  \E g, d : FlowOK(g, d) /\ flows' = [flows EXCEPT ![r] = g] /\ effects' = [effects EXCEPT ![r] = d]
  <2>1. PICK g : g = IF ok THEN StepOk(f) ELSE StepFails(f, "failed")
    OBVIOUS
  <2>2. PICK d : d = Append(e, n)
    OBVIOUS
  <2>3. /\ f.at = "calling" /\ plan[n].kind = "tool"
        /\ flows' = [flows EXCEPT ![r] = g] /\ effects' = [effects EXCEPT ![r] = d]
    BY <1>2, <1>9, <2>1, <2>2 DEF ToolStepRuns
  <2>4. MovedStarts(f, n, e, d)
    BY <1>2, <2>2, <2>3 DEF FlowOK, AllowedOK, MovedStarts
  <2>5. g = IF ok THEN [StepOk(f) EXCEPT !.cost = f.cost] ELSE StepFails(f, "failed")
    BY <1>7, <2>1
  <2>6. FlowOK(g, d)
    BY <1>6, <1>7, <1>8, <2>2, <2>3, <2>4, <2>5
  <2> QED
    BY <2>3, <2>6
<1>10. ASSUME ToolStepRefused(r) \/ ModelStepFails(r)
       PROVE  \E g : FlowOK(g, e) /\ flows' = [flows EXCEPT ![r] = g] /\ effects' = effects
  <2>1. PICK g : g = StepFails(f, "failed")
    OBVIOUS
  <2>2. f.at = "calling" /\ flows' = [flows EXCEPT ![r] = g] /\ effects' = effects
    BY <1>10, <2>1 DEF ToolStepRefused, ModelStepFails
  <2>3. PICK ok \in BOOLEAN : ~ok
    OBVIOUS
  <2>4. g = IF ok THEN [StepOk(f) EXCEPT !.cost = f.cost] ELSE StepFails(f, "failed")
    BY <2>1, <2>3
  <2>5. FlowOK(g, e)
    BY <1>6, <1>7, <1>8, <2>2, <2>3, <2>4
  <2> QED
    BY <2>2, <2>5
<1>11. ASSUME NEW p \in Prices, ModelStep(r, p)
       PROVE  \E g : FlowOK(g, e) /\ flows' = [flows EXCEPT ![r] = g] /\ effects' = effects
  <2>1. PICK c \in Nat : c = f.cost + p
    BY <1>1, <1>7
  <2>2. PICK g : g = [StepOk(f) EXCEPT !.cost = c]
    OBVIOUS
  <2>3. StepOk(f).cost = f.cost
    BY <1>1 DEF StepOk, Flows
  <2>4. /\ f.at = "calling" /\ plan[n].kind = "model"
        /\ flows' = [flows EXCEPT ![r] = g] /\ effects' = effects
    BY <1>2, <1>11, <2>1, <2>2, <2>3 DEF ModelStep
  <2>5. CostOK("next", c)
    <3>1. f.cost < MaxCostUsd
      BY <2>4 DEF FlowOK, CostOK
    <3>2. c < MaxCostUsd + p
      BY <1>1, <1>7, <2>1, <3>1
    <3> QED
      BY <3>2 DEF CostOK
  <2>6. PICK ok \in BOOLEAN : ok
    OBVIOUS
  <2>7. g = IF ok THEN [StepOk(f) EXCEPT !.cost = c] ELSE StepFails(f, "failed")
    BY <2>2, <2>6
  <2>8. FlowOK(g, e)
    BY <1>6, <1>8, <2>4, <2>5, <2>6, <2>7
  <2> QED
    BY <2>4, <2>8
<1> QED
  BY <1>4, <1>5, <1>9, <1>10, <1>11 DEF FlowStep

\* The plan is all that what holds of a run or of a entry takes from the state.
LEMMA FlowSame ==
    ASSUME plan' = plan, NEW f, NEW e, FlowOK(f, e)
    PROVE  FlowOK(f, e)'
  BY DEF FlowOK, Flows, Ids, StepsOK, StartedOK, AllowedOK, MayRun, NeededTools, Allowed, CostOK

LEMMA RowsSame ==
    ASSUME plan' = plan, NEW s, NEW n, NEW now, RowsOK(s, n, now)
    PROVE  RowsOK(s, n, now)'
  BY DEF RowsOK, RowTells

LEMMA RecordFlowOK ==
    ASSUME WorkflowsInv, NEW r \in Slots, RecordFlow(r)
    PROVE  PastOK'
<1>1. PICK f : f = flows[r]
  OBVIOUS
<1>2. PICK entry : entry = [no |-> finished + 1, status |-> f.status, steps |-> f.steps, created |-> wfNow]
  OBVIOUS
<1>3. /\ f.at = "over" /\ finished' = finished + 1 /\ wfNow' = wfNow
      /\ past' = Newest(Unexpired(Append(past, entry)))
      /\ plan' = plan
  BY <1>1, <1>2 DEF RecordFlow
<1>4. FlowOK(f, effects[r]) /\ f \in Flows
  BY <1>1 DEF WorkflowsInv, FlowsOK, FlowOK
<1>5. RowTells(f.status, f.steps)
  BY <1>3, <1>4 DEF FlowOK, StepsOK, RowTells, Flows
<1>6. entry \in PastRows
  BY <1>2, <1>4 DEF PastRows, Flows, WorkflowsInv
<1>7. RowsOK(past, finished, wfNow) /\ wfNow \in Nat /\ finished \in Nat
  BY DEF WorkflowsInv, PastOK
<1>8. PICK n \in Nat : n = finished + 1
  BY <1>7
<1>9. entry.no = finished + 1 /\ entry.created = wfNow /\ RowTells(entry.status, entry.steps)
  BY <1>2, <1>5
<1>10. RowsOK(Append(past, entry), n, wfNow)
  BY <1>6, <1>7, <1>8, <1>9, RowMore
<1>11. RowsOK(Unexpired(Append(past, entry)), n, wfNow)
  BY <1>7, <1>10, UnexpiredOK
<1>12. RowsOK(past', n, wfNow) /\ Len(past') <= WORKFLOW_KEEP
  BY <1>3, <1>7, <1>11, NewestOK
<1> QED
  BY <1>3, <1>8, <1>12, RowsSame DEF PastOK

LEMMA WorkflowsStep ==
    ASSUME WorkflowsInv, [WorkflowsNext]_wfVars
    PROVE  WorkflowsInv'
<1>1. /\ flows = [r \in Slots |-> flows[r]] /\ effects = [r \in Slots |-> effects[r]]
      /\ wfNow \in Nat /\ finished \in Nat /\ PlanOK /\ FlowsOK /\ PastOK
  BY DEF WorkflowsInv
<1>2. CASE \E r \in Slots : FlowStep(r)
  <2>1. PICK r \in Slots : FlowStep(r)
    BY <1>2
  <2>2. plan' = plan /\ past' = past /\ wfNow' = wfNow /\ finished' = finished
    BY <2>1 DEF FlowStep, StartFlow, NextStep, ToolStepRuns, ToolStepRefused, ModelStep, ModelStepFails
  <2>3. PICK g, d : /\ FlowOK(g, d) /\ flows' = [flows EXCEPT ![r] = g]
                    /\ (effects' = effects /\ d = effects[r]) \/ effects' = [effects EXCEPT ![r] = d]
    <3>1. FlowOK(flows[r], effects[r])
      BY <1>1 DEF FlowsOK
    <3> QED
      BY <1>1, <2>1, <3>1, FlowStepOK
  <2>4. ASSUME NEW q \in Slots PROVE FlowOK(flows'[q], effects'[q])
    <3>1. CASE q = r
      <4>1. flows'[q] = g /\ effects'[q] = d
        BY <1>1, <2>3, <3>1
      <4> QED
        BY <2>3, <4>1
    <3>2. CASE q # r
      <4>1. flows'[q] = flows[q] /\ effects'[q] = effects[q]
        BY <1>1, <2>3, <3>2
      <4> QED
        BY <1>1, <4>1 DEF FlowsOK
    <3> QED
      BY <3>1, <3>2
  <2>5. FlowsOK'
    BY <2>2, <2>4, FlowSame DEF FlowsOK
  <2>6. flows' = [q \in Slots |-> flows'[q]] /\ effects' = [q \in Slots |-> effects'[q]]
    BY <1>1, <2>3
  <2> QED
    BY <1>1, <2>2, <2>5, <2>6, RowsSame DEF WorkflowsInv, PlanOK, PastOK
<1>3. CASE \E r \in Slots : RecordFlow(r)
  <2>1. PICK r \in Slots : RecordFlow(r)
    BY <1>3
  <2>2. /\ plan' = plan /\ wfNow' = wfNow /\ finished' = finished + 1
        /\ flows' = [flows EXCEPT ![r] = NoFlow] /\ effects' = [effects EXCEPT ![r] = << >>]
    BY <2>1 DEF RecordFlow
  <2>3. ASSUME NEW q \in Slots PROVE FlowOK(flows'[q], effects'[q])
    <3>1. CASE q = r
      <4>1. flows'[q] = NoFlow /\ effects'[q] = << >>
        BY <1>1, <2>2, <3>1
      <4> QED
        BY <1>1, <4>1, NoFlowOK
    <3>2. CASE q # r
      <4>1. flows'[q] = flows[q] /\ effects'[q] = effects[q]
        BY <1>1, <2>2, <3>2
      <4> QED
        BY <1>1, <4>1 DEF FlowsOK
    <3> QED
      BY <3>1, <3>2
  <2>4. FlowsOK'
    BY <2>2, <2>3, FlowSame DEF FlowsOK
  <2>5. flows' = [q \in Slots |-> flows'[q]] /\ effects' = [q \in Slots |-> effects'[q]]
    BY <1>1, <2>2
  <2>6. PastOK'
    BY <2>1, RecordFlowOK
  <2>7. wfNow' \in Nat /\ finished' \in Nat /\ PlanOK'
    BY <1>1, <2>2 DEF PlanOK
  <2> QED
    BY <2>4, <2>5, <2>6, <2>7 DEF WorkflowsInv
<1>4. CASE FlowsDie
  <2>1. /\ plan' = plan /\ wfNow' = wfNow /\ finished' = finished /\ past' = past
        /\ flows' = [r \in Slots |-> NoFlow] /\ effects' = [r \in Slots |-> << >>]
    BY <1>4 DEF FlowsDie
  <2>2. FlowsOK'
    <3>1. \A r \in Slots : FlowOK(flows'[r], effects'[r])
      BY <1>1, <2>1, NoFlowOK
    <3> QED
      BY <2>1, <3>1, FlowSame DEF FlowsOK
  <2>3. flows' = [q \in Slots |-> flows'[q]] /\ effects' = [q \in Slots |-> effects'[q]]
    BY <2>1
  <2> QED
    BY <1>1, <2>1, <2>2, <2>3, RowsSame DEF WorkflowsInv, PlanOK, PastOK
<1>5. CASE WfTick
  <2>1. /\ plan' = plan /\ wfNow' = wfNow + 1 /\ finished' = finished /\ past' = past
        /\ flows' = flows /\ effects' = effects
    BY <1>5 DEF WfTick
  <2>2. FlowsOK'
    BY <1>1, <2>1, FlowSame DEF FlowsOK
  <2>3. PICK n \in Nat : n = wfNow + 1 /\ wfNow <= n
    BY <1>1
  <2>4. RowsOK(past, finished, n)
    <3>1. \A i \in 1..Len(past) : past[i].created <= n
      <4> SUFFICES ASSUME NEW i \in 1..Len(past) PROVE past[i].created <= n
        OBVIOUS
      <4>1. past[i] \in PastRows /\ past[i].created <= wfNow
        BY <1>1 DEF PastOK, RowsOK
      <4>2. past[i].created \in Nat
        BY <4>1 DEF PastRows
      <4> QED
        BY <1>1, <2>3, <4>1, <4>2
    <3> QED
      BY <1>1, <3>1 DEF PastOK, RowsOK
  <2>5. PastOK'
    BY <1>1, <2>1, <2>3, <2>4, RowsSame DEF PastOK
  <2> QED
    BY <1>1, <2>1, <2>2, <2>5 DEF WorkflowsInv, PlanOK
<1>6. CASE UNCHANGED wfVars
  <2>1. /\ plan' = plan /\ wfNow' = wfNow /\ finished' = finished /\ past' = past
        /\ flows' = flows /\ effects' = effects
    BY <1>6 DEF wfVars
  <2>2. FlowsOK'
    BY <1>1, <2>1, FlowSame DEF FlowsOK
  <2> QED
    BY <1>1, <2>1, <2>2, RowsSame DEF WorkflowsInv, PlanOK, PastOK
<1> QED
  BY <1>2, <1>3, <1>4, <1>5, <1>6, Zenon DEF WorkflowsNext, FlowStep

\* A workflow does what its file says, in order and once, within its approvals
\* and its cost, and its history tells what happened (run_workflow(),
\* record_workflow()).
THEOREM WorkflowsAlways == WorkflowsSpec => []WorkflowSound
<1>1. WorkflowsInit => WorkflowsInv
  BY WorkflowsInitInv
<1>2. WorkflowsInv /\ [WorkflowsNext]_wfVars => WorkflowsInv'
  BY WorkflowsStep
<1>3. WorkflowsInv => WorkflowSound
  BY WorkflowSoundOK
<1> QED
  BY <1>1, <1>2, <1>3, PTL DEF WorkflowsSpec
=============================================================================
