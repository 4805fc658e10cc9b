---------------------------- MODULE TasksProofs ----------------------------
(***************************************************************************)
(* Theorems about agent tasks, for any number of agents, tasks, workers,   *)
(* queues and requests to terminate an agent, and about the shutdown of    *)
(* the engine that runs them.                                              *)
(***************************************************************************)
EXTENDS Tasks, Shutdown, SequenceTheorems, WellFoundedInduction, TLAPS

\* A set of numbers without 0 that no number is the first of is empty.
Less == {ss \in Nat \X Nat : ss[1] < ss[2]}

LEMMA NotLess ==
    ASSUME NEW x \in Nat, NEW y \in Nat, <<y, x>> \notin Less
    PROVE  x <= y
<1>1. <<y, x>> \in Nat \X Nat /\ <<y, x>>[1] = y /\ <<y, x>>[2] = x
  OBVIOUS
<1>2. ~(y < x)
  BY <1>1, Zenon DEF Less
<1> QED
  BY <1>2

LEMMA Smallest ==
    ASSUME NEW S \in SUBSET Nat, S # {}
    PROVE  \E x \in S : \A y \in S : x <= y
<1>1. IsWellFoundedOn(Less, Nat)
  BY NatLessThanWellFounded DEF OpToRel, Less
<1>2. PICK x \in S : \A y \in S : ~(<<y, x>> \in Less)
  BY <1>1, WFMin
<1> QED
  BY <1>2, NotLess

LEMMA NoFirst ==
    ASSUME NEW Bad \in SUBSET Nat, 0 \notin Bad,
           \A n \in Nat : n \notin Bad => n + 1 \notin Bad
    PROVE  Bad = {}
<1> SUFFICES ASSUME Bad # {} PROVE FALSE
  OBVIOUS
<1>1. PICK x \in Bad : \A y \in Bad : x <= y
  BY Smallest
<1>2. x - 1 \in Nat /\ x - 1 \notin Bad /\ (x - 1) + 1 = x
  BY <1>1
<1> QED
  BY <1>1, <1>2

-----------------------------------------------------------------------------
\* The task store.

Statuses == Terminal \cup Unfinished \cup {"absent", "gone"}

\* A task in active_tasks has not ended.
StoreOK(s) ==
    /\ s = [task |-> s.task, finished |-> s.finished, active |-> s.active]
    /\ s.task \in [TaskIds -> Statuses]
    /\ s.active \subseteq TaskIds
    /\ \A t \in s.active : s.task[t] \in Unfinished \cup {"gone"}

\* s becomes s2 as t ends with status st; others may be pruned.
Ends(s, s2, t, st) ==
    /\ StoreOK(s2)
    /\ s2.active = s.active \ {t}
    /\ s2.task[t] \in {st, "gone"}
    /\ \A u \in TaskIds \ {t} : s2.task[u] \in {s.task[u], "gone"}

LEMMA FinishedEnds ==
    ASSUME NEW s, StoreOK(s), NEW t \in TaskIds, NEW st \in Terminal
    PROVE  Ends(s, Finished(s, t, st), t, st)
<1> DEFINE a == [s EXCEPT !.task[t] = st, !.active = @ \ {t}]
           T == [s.task EXCEPT ![t] = st]
<1>1. a = [task |-> T, finished |-> s.finished, active |-> s.active \ {t}]
  <2> DEFINE s1 == [s EXCEPT !.task[t] = st]
  <2>1. s1 = [task |-> T, finished |-> s.finished, active |-> s.active]
    BY DEF StoreOK
  <2>2. a = [s1 EXCEPT !.active = s.active \ {t}]
    BY DEF StoreOK
  <2> HIDE DEF a, T, s1
  <2> QED
    BY <2>1, <2>2
<1>2. /\ T \in [TaskIds -> Statuses] /\ T[t] = st
      /\ \A u \in TaskIds \ {t} : T[u] = s.task[u]
  BY DEF StoreOK, Statuses
<1>3. Finished(s, t, st) = Pruned(a, t)
  BY DEF Finished
<1> HIDE DEF a, T
<1>4. PICK x, g, G :
        /\ G = [T EXCEPT ![g] = "gone"]
        /\ \/ Pruned(a, t) = [task |-> T, finished |-> x, active |-> s.active \ {t}]
           \/ Pruned(a, t) = [task |-> G, finished |-> x, active |-> s.active \ {t}]
  <2>1. PICK order : order = FinishOrder(a, t)
    OBVIOUS
  <2>2. CASE Len(order) <= MaxFinished
    <3>1. Pruned(a, t) = [a EXCEPT !.finished = order]
      BY <2>1, <2>2 DEF Pruned
    <3>2. Pruned(a, t) = [task |-> T, finished |-> order, active |-> s.active \ {t}]
      BY <1>1, <3>1
    <3> QED
      BY <3>2
  <2>3. CASE ~(Len(order) <= MaxFinished)
    <3>1. Pruned(a, t) = [a EXCEPT !.finished = Tail(order), !.task[Head(order)] = "gone"]
      BY <2>1, <2>3 DEF Pruned
    <3>2. Pruned(a, t) = [task |-> [T EXCEPT ![Head(order)] = "gone"],
                          finished |-> Tail(order), active |-> s.active \ {t}]
      BY <1>1, <3>1
    <3> QED
      BY <3>2
  <2> QED
    BY <2>2, <2>3
<1>5. G \in [TaskIds -> Statuses] /\ \A u \in TaskIds : G[u] \in {T[u], "gone"}
  BY <1>2, <1>4 DEF Statuses
<1> DEFINE f == Finished(s, t, st)
<1>6. /\ f = [task |-> f.task, finished |-> f.finished, active |-> f.active]
      /\ f.active = s.active \ {t} /\ f.task \in {T, G}
  BY <1>3, <1>4
<1> HIDE DEF f
<1>7. f.task \in [TaskIds -> Statuses] /\ \A u \in TaskIds : f.task[u] \in {T[u], "gone"}
  BY <1>2, <1>5, <1>6
<1>8. StoreOK(f)
  BY <1>2, <1>6, <1>7 DEF StoreOK
<1> QED
  BY <1>2, <1>6, <1>7, <1>8 DEF Ends, f

\* s becomes s2 as the tasks of S are cancelled, one after the other.
Cancels(s, s2, S) ==
    /\ StoreOK(s2)
    /\ s2.active \subseteq s.active
    /\ \A t \in TaskIds :
          /\ t \notin S => s2.task[t] \in {s.task[t], "gone"}
          /\ t \in S => s2.task[t] \in {s.task[t], "cancelled", "gone"}
          /\ t \in S /\ s.task[t] # "absent" => s2.task[t] \in {"cancelled", "gone"}
          /\ s.task[t] = "gone" => s2.task[t] = "gone"

LEMMA CancelsOne ==
    ASSUME NEW s, StoreOK(s), NEW t \in TaskIds
    PROVE  Cancels(s, Cancelled(s, t), {t})
<1>1. CASE s.task[t] \in {"absent", "gone"}
  BY <1>1 DEF Cancelled, Cancels
<1>2. CASE s.task[t] \notin {"absent", "gone"}
  <2>1. Ends(s, Cancelled(s, t), t, "cancelled")
    BY <1>2, FinishedEnds DEF Cancelled, Terminal
  <2> QED
    BY <1>2, <2>1 DEF Ends, Cancels
<1> QED
  BY <1>1, <1>2

LEMMA CancelsMore ==
    ASSUME NEW s, NEW s1, NEW s2, NEW S, NEW S2, Cancels(s, s1, S), Cancels(s1, s2, S2)
    PROVE  Cancels(s, s2, S \cup S2)
BY DEF Cancels

\* The tasks are cancelled one after the other: what holds the store after the
\* first n of them is a function of n.
LEMMA CancelledAllUnfolds ==
    ASSUME NEW s, NEW S
    PROVE  \E h : /\ h = [n \in 0..NTasks |->
                            IF n = 0 THEN s
                            ELSE IF n \in S THEN Cancelled(h[n - 1], n) ELSE h[n - 1]]
                  /\ CancelledAll(s, S) = h[NTasks]
<1> NTasks \in Nat
  BY TasksAssumption
<1> DEFINE Next(g, n) == IF n = 0 THEN s
                         ELSE IF n \in S THEN Cancelled(g[n - 1], n) ELSE g[n - 1]
           Partial(g, m) == /\ g = [n \in 0..NTasks |-> g[n]]
                            /\ \A n \in 0..NTasks : n <= m => g[n] = Next(g, n)
           Bad == {m \in Nat : ~ \E g : Partial(g, m)}
<1>1. 0 \notin Bad
  <2> DEFINE g == [n \in 0..NTasks |-> s]
  <2>1. Partial(g, 0)
    OBVIOUS
  <2> QED
    BY <2>1
<1>2. ASSUME NEW m \in Nat, m \notin Bad PROVE m + 1 \notin Bad
  <2>1. PICK g : Partial(g, m)
    BY <1>2
  <2> DEFINE k == [g EXCEPT ![m + 1] = Next(g, m + 1)]
  <2>2. k = [n \in 0..NTasks |-> k[n]]
    BY <2>1
  <2>3. \A n \in 0..NTasks : k[n] = IF n = m + 1 THEN Next(g, m + 1) ELSE g[n]
    BY <2>1
  <2> HIDE DEF k
  <2>4. ASSUME NEW n \in 0..NTasks, n <= m + 1 PROVE k[n] = Next(k, n)
    <3>1. CASE n = 0
      <4>1. n <= m /\ n # m + 1
        BY <3>1
      <4>2. g[n] = Next(g, n)
        BY <2>1, <4>1
      <4>3. g[n] = s
        BY <3>1, <4>2
      <4> QED
        BY <2>3, <3>1, <4>1, <4>3
    <3>2. CASE n # 0
      <4>1. n - 1 \in 0..NTasks /\ n - 1 # m + 1 /\ k[n - 1] = g[n - 1]
        BY <2>3, <2>4, <3>2
      <4>2. CASE n = m + 1
        BY <2>3, <3>2, <4>1, <4>2
      <4>3. CASE n # m + 1
        <5>1. n <= m
          BY <2>4, <4>3
        <5>2. g[n] = Next(g, n)
          BY <2>1, <5>1
        <5>3. k[n] = g[n]
          BY <2>3, <4>3
        <5> QED
          BY <3>2, <4>1, <5>2, <5>3
      <4> QED
        BY <4>2, <4>3
    <3> QED
      BY <3>1, <3>2
  <2>5. Partial(k, m + 1)
    BY <2>2, <2>4
  <2> QED
    BY <2>5
<1>3. PICK g : Partial(g, NTasks)
  <2>1. Bad = {}
    <3> HIDE DEF Partial
    <3>1. Bad \in SUBSET Nat
      OBVIOUS
    <3> HIDE DEF Bad
    <3> QED
      BY <1>1, <1>2, <3>1, NoFirst
  <2> HIDE DEF Partial
  <2> QED
    BY <2>1
<1>4. g = [n \in 0..NTasks |-> IF n = 0 THEN s
                ELSE IF n \in S THEN Cancelled(g[n - 1], n) ELSE g[n - 1]]
  <2>1. g = [n \in 0..NTasks |-> g[n]]
    BY <1>3
  <2>2. ASSUME NEW n \in 0..NTasks
        PROVE  g[n] = IF n = 0 THEN s
                      ELSE IF n \in S THEN Cancelled(g[n - 1], n) ELSE g[n - 1]
    <3>1. n <= NTasks
      OBVIOUS
    <3>2. g[n] = Next(g, n)
      <4> HIDE DEF Next
      <4> QED
        BY <1>3, <3>1
    <3> QED
      BY <3>2, Zenon
  <2> HIDE DEF Partial, Bad
  <2> QED
    BY <2>1, <2>2
<1> QED
  BY <1>4 DEF CancelledAll

LEMMA CancelledAllCancels ==
    ASSUME NEW s, StoreOK(s), NEW S
    PROVE  Cancels(s, CancelledAll(s, S), S)
<1> NTasks \in Nat
  BY TasksAssumption
<1>1. PICK h : /\ h = [n \in 0..NTasks |->
                        IF n = 0 THEN s
                        ELSE IF n \in S THEN Cancelled(h[n - 1], n) ELSE h[n - 1]]
               /\ CancelledAll(s, S) = h[NTasks]
  BY CancelledAllUnfolds
<1> DEFINE Bad == {m \in Nat : m <= NTasks /\ ~Cancels(s, h[m], S \cap 1..m)}
<1>2. 0 \notin Bad
  <2>1. h[0] = s
    BY <1>1
  <2>2. S \cap 1..0 = {}
    OBVIOUS
  <2>3. Cancels(s, s, {})
    BY DEF Cancels
  <2> QED
    BY <2>1, <2>2, <2>3
<1>3. ASSUME NEW m \in Nat, m \notin Bad PROVE m + 1 \notin Bad
  <2> SUFFICES ASSUME m + 1 <= NTasks PROVE Cancels(s, h[m + 1], S \cap 1..(m + 1))
    OBVIOUS
  <2>1. Cancels(s, h[m], S \cap 1..m)
    BY <1>3
  <2>2. m + 1 \in 0..NTasks /\ m + 1 # 0 /\ (m + 1) - 1 = m /\ m + 1 \in TaskIds
    BY DEF TaskIds
  <2>3. h[m + 1] = IF m + 1 \in S THEN Cancelled(h[m], m + 1) ELSE h[m]
    BY <1>1, <2>2
  <2>4. CASE m + 1 \in S
    <3>1. S \cap 1..(m + 1) = (S \cap 1..m) \cup {m + 1}
      BY <2>4
    <3>2. StoreOK(h[m])
      BY <2>1 DEF Cancels
    <3>3. Cancels(h[m], Cancelled(h[m], m + 1), {m + 1})
      BY <2>2, <3>2, CancelsOne
    <3> QED
      BY <2>1, <2>3, <2>4, <3>1, <3>3, CancelsMore
  <2>5. CASE m + 1 \notin S
    <3>1. S \cap 1..(m + 1) = S \cap 1..m
      BY <2>5
    <3> QED
      BY <2>1, <2>3, <2>5, <3>1
  <2> QED
    BY <2>4, <2>5
<1>4. Bad = {}
  <2>1. Bad \in SUBSET Nat
    OBVIOUS
  <2> HIDE DEF Bad
  <2> QED
    BY <1>2, <1>3, <2>1, NoFirst
<1>5. Cancels(s, h[NTasks], S \cap 1..NTasks)
  BY <1>4
<1> QED
  BY <1>1, <1>5 DEF Cancels, TaskIds

-----------------------------------------------------------------------------
\* The queues.

LEMMA BestInQueue ==
    ASSUME NEW q \in Seq(TaskIds), q # << >>
    PROVE  Best(q) \in DOMAIN q
<1> DEFINE p(i) == Priority[q[i]]
           W == {3 - p(i) : i \in DOMAIN q}
<1>1. DOMAIN q \subseteq Nat /\ DOMAIN q # {}
  OBVIOUS
<1>2. \A i \in DOMAIN q : p(i) \in 0..3
  BY TasksAssumption
<1>3. W \in SUBSET Nat /\ W # {}
  BY <1>1, <1>2
<1>4. PICK m \in W : \A n \in W : m <= n
  <2> HIDE DEF W
  <2> QED
    BY <1>3, Smallest
<1>5. PICK i0 \in DOMAIN q : m = 3 - p(i0)
  BY <1>4
<1>6. \A j \in DOMAIN q : p(i0) >= p(j)
  <2> TAKE j \in DOMAIN q
  <2>1. 3 - p(j) \in W
    OBVIOUS
  <2>2. 3 - p(i0) <= 3 - p(j)
    BY <1>4, <1>5, <2>1
  <2> HIDE DEF p
  <2> QED
    BY <1>2, <2>2
<1> DEFINE S == {i \in DOMAIN q : p(i) = p(i0)}
<1>7. PICK i \in S : \A j \in S : i <= j
  <2>1. S \in SUBSET Nat /\ S # {}
    BY <1>1
  <2> HIDE DEF S
  <2> QED
    BY <2>1, Smallest
<1>8. \A j \in DOMAIN q \ {i} : \/ p(i) > p(j)
                                \/ p(i) = p(j) /\ i < j
  <2> TAKE j \in DOMAIN q \ {i}
  <2>1. i \in DOMAIN q /\ p(i) = p(i0)
    BY <1>7
  <2>2. p(i) >= p(j)
    BY <1>6, <2>1
  <2>3. CASE p(i) = p(j)
    <3>1. i <= j /\ i # j /\ i \in Nat /\ j \in Nat
      BY <1>1, <1>7, <2>1, <2>3
    <3> QED
      BY <2>3, <3>1
  <2>4. CASE p(i) # p(j)
    <3>1. p(i) \in 0..3 /\ p(j) \in 0..3
      BY <1>2, <2>1
    <3> HIDE DEF p
    <3> QED
      BY <2>2, <2>4, <3>1
  <2> QED
    BY <2>3, <2>4
<1>9. \E k \in DOMAIN q : \A j \in DOMAIN q \ {k} :
            \/ Priority[q[k]] > Priority[q[j]]
            \/ (Priority[q[k]] = Priority[q[j]] /\ k < j)
  BY <1>7, <1>8
<1> QED
  BY <1>9, Zenon DEF Best

LEMMA RemovedStays ==
    ASSUME NEW X, NEW q \in Seq(X), NEW i \in DOMAIN q
    PROVE  RemoveAt(q, i) \in Seq(X)
<1>1. SubSeq(q, 1, i - 1) \in Seq(X)
  BY SubSeqProperties
<1>2. SubSeq(q, i + 1, Len(q)) \in Seq(X)
  BY SubSeqProperties
<1> QED
  BY <1>1, <1>2, ConcatProperties DEF RemoveAt

LEMMA LargerSeq ==
    ASSUME NEW X, NEW Y, X \subseteq Y, NEW q \in Seq(X)
    PROVE  q \in Seq(Y)
OBVIOUS

LEMMA LargerQueues ==
    ASSUME NEW X, NEW Y, X \subseteq Y, NEW q \in Seq(Seq(X))
    PROVE  q \in Seq(Seq(Y))
<1>1. Seq(X) \subseteq Seq(Y)
  BY LargerSeq
<1> QED
  BY <1>1, LargerSeq

LEMMA NextTaskIsNew ==
    ASSUME \E u \in TaskIds : Status(u) = "absent"
    PROVE  NextTask \in TaskIds /\ Status(NextTask) = "absent"
<1> NTasks \in Nat
  BY TasksAssumption
<1> DEFINE S == {u \in TaskIds : Status(u) = "absent"}
<1>1. S \in SUBSET Nat /\ S # {}
  BY DEF TaskIds
<1>2. PICK t \in S : \A u \in S : t <= u
  <2> HIDE DEF S
  <2> QED
    BY <1>1, Smallest
<1>3. \A u \in 1..(t - 1) : Status(u) # "absent"
  BY <1>2 DEF TaskIds
<1>4. \E x \in TaskIds : Status(x) = "absent" /\ \A u \in 1..(x - 1) : Status(u) # "absent"
  BY <1>2, <1>3
<1> QED
  BY <1>4, Zenon DEF NextTask

-----------------------------------------------------------------------------
\* The inductive invariant.

\* The tasks of agent a.
TasksOf(a) == {t \in TaskIds : target[t] = a}

\* What the variables hold.  pauses and known matter to no theorem.
Typed ==
    /\ StoreOK(store)
    /\ target \in [TaskIds -> Agents \cup {Nobody}]
    /\ qreg \in [Agents -> 0..MaxQueues]
    /\ worker \in [Workers -> Worker]
    /\ wreg \in [Agents -> Workers \cup {Nobody}]
    /\ current \in [Agents -> TaskIds \cup {Nobody}]
    /\ run \in [TaskIds -> Run]
    /\ agent \in [Agents -> Agent]
    /\ deleter \in [Deleters -> Deleter]
    /\ asked \subseteq TaskIds

\* A task that has not been created has no agent; one that is not over has.
Targeted ==
    \A t \in TaskIds : /\ Status(t) = "absent" => target[t] = Nobody
                       /\ Status(t) \in Unfinished => target[t] \in Agents

\* Every queue of an agent holds tasks of that agent.
QueuesHold ==
    /\ queue = [a \in Agents |-> queue[a]]
    /\ \A a \in Agents : /\ queue[a] \in Seq(Seq(TasksOf(a)))
                         /\ qreg[a] <= Len(queue[a])

\* A worker belongs to one agent and takes from a queue of it; unless it has
\* been cancelled, with the agent, it is the one the runner knows.  The task
\* that can be cancelled is the one it waits for, until the agent is dropped.
WorkerKeeps(w) ==
    LET k == worker[w]
    IN  k.at # "none" =>
        /\ k.agent \in Agents
        /\ k.at \in {"get", "wait"} => k.q \in 1..Len(queue[k.agent])
        /\ k.at \in {"wait", "reap"} => k.task \in TaskIds /\ target[k.task] = k.agent
        /\ k.at = "reap" => k.stop
        /\ ~k.stop => wreg[k.agent] = w
        /\ k.stop => k.agent \in dropped
        /\ k.at = "wait" /\ k.agent \notin dropped => current[k.agent] = k.task

Manned ==
    /\ \A w \in Workers : WorkerKeeps(w)
    /\ \A a \in Agents : wreg[a] # Nobody /\ worker[wreg[a]].at # "none"
                            => worker[wreg[a]].agent = a

\* A worker waits for every run there is.
Awaited ==
    \A t \in TaskIds :
        IF run[t].at = "none" THEN ~run[t].stop
        ELSE \E w \in Workers : worker[w].at \in {"wait", "reap"} /\ worker[w].task = t

\* A task cancelled through the runner is over, and its run, if there is one, has
\* been told to stop.
AskedOver ==
    \A t \in asked :
        /\ Status(t) # "absent" /\ target[t] \in Agents
        /\ target[t] \notin dropped =>
             /\ Status(t) \in Terminal \cup {"gone"}
             /\ run[t].at = "none" \/ run[t].stop

\* A request waits for the worker of an agent that is being terminated.
Deleting == \A d \in Deleters : deleter[d].at = "reap" =>
                deleter[d].agent \in Agents /\ deleter[d].agent \in dropped

TasksInv == /\ Typed /\ Targeted /\ QueuesHold /\ Manned /\ Awaited
            /\ AskedOver /\ Deleting /\ PromptKept

LEMMA InvInit == TasksInit => TasksInv
<1> SUFFICES ASSUME TasksInit PROVE TasksInv
  OBVIOUS
<1> USE TasksAssumption
<1>1. Typed
  <2>1. StoreOK(store)
    BY DEF TasksInit, StoreOK, Statuses
  <2>2. worker \in [Workers -> Worker]
    BY DEF TasksInit, Worker, NoWorker
  <2>3. run \in [TaskIds -> Run]
    BY DEF TasksInit, Run, NoRun
  <2>4. agent \in [Agents -> Agent]
    BY DEF TasksInit, Agent, NoAgent
  <2>5. deleter \in [Deleters -> Deleter]
    BY DEF TasksInit, Deleter
  <2> QED
    BY <2>1, <2>2, <2>3, <2>4, <2>5 DEF TasksInit, Typed
<1>2. Targeted
  BY DEF TasksInit, Targeted, Status, Unfinished
<1>3. QueuesHold
  BY DEF TasksInit, QueuesHold
<1>4. Manned
  BY DEF TasksInit, Manned, WorkerKeeps, NoWorker
<1>5. Awaited
  BY DEF TasksInit, Awaited, NoRun
<1>6. AskedOver /\ Deleting
  BY DEF TasksInit, AskedOver, Deleting
<1>7. PromptKept
  BY DEF TasksInit, PromptKept, NoRun
<1> QED
  BY <1>1, <1>2, <1>3, <1>4, <1>5, <1>6, <1>7 DEF TasksInv

\* From the invariant: two workers of an agent that nobody terminates are one,
\* and a run belongs to the task its agent's worker waits for.
LEMMA OneWorker ==
    ASSUME Manned, NEW v \in Workers, NEW w \in Workers,
           worker[v].at # "none", worker[w].at # "none",
           ~worker[v].stop, ~worker[w].stop, worker[v].agent = worker[w].agent
    PROVE  v = w
BY DEF Manned, WorkerKeeps

LEMMA RunIsCurrent ==
    ASSUME Manned, Awaited, NEW t \in TaskIds, run[t].at # "none",
           target[t] \notin dropped
    PROVE  /\ target[t] \in Agents
           /\ current[target[t]] = t
<1>1. PICK w \in Workers : worker[w].at \in {"wait", "reap"} /\ worker[w].task = t
  BY DEF Awaited
<1>2. WorkerKeeps(w)
  BY DEF Manned
<1> QED
  BY <1>1, <1>2 DEF WorkerKeeps

LEMMA RunHasAgent ==
    ASSUME Manned, Awaited, NEW t \in TaskIds, run[t].at # "none"
    PROVE  target[t] \in Agents
<1>1. PICK w \in Workers : worker[w].at \in {"wait", "reap"} /\ worker[w].task = t
  BY DEF Awaited
<1>2. WorkerKeeps(w)
  BY DEF Manned
<1> QED
  BY <1>1, <1>2 DEF WorkerKeeps

LEMMA InvOneAtATime == Manned /\ Awaited => OneAtATime
<1> SUFFICES ASSUME Manned, Awaited, NEW t \in TaskIds, NEW u \in TaskIds,
                    run[t].at \in {"hold", "call"}, ~ToldToStop(t),
                    run[u].at \in {"hold", "call"}, ~ToldToStop(u),
                    target[t] = target[u]
             PROVE  t = u
  BY DEF OneAtATime
<1>1. PICK v \in Workers : worker[v].at \in {"wait", "reap"} /\ worker[v].task = t
  BY DEF Awaited
<1>2. PICK w \in Workers : worker[w].at \in {"wait", "reap"} /\ worker[w].task = u
  BY DEF Awaited
<1>3. ~worker[v].stop /\ ~worker[w].stop
  BY <1>1, <1>2 DEF ToldToStop
<1>4. WorkerKeeps(v) /\ WorkerKeeps(w)
  BY DEF Manned
<1>5. worker[v].agent = worker[w].agent
  BY <1>1, <1>2, <1>4 DEF WorkerKeeps
<1>6. worker[v].at # "none" /\ worker[w].at # "none"
  BY <1>1, <1>2
<1>7. v = w
  BY <1>3, <1>5, <1>6, OneWorker
<1> QED
  BY <1>1, <1>2, <1>7

-----------------------------------------------------------------------------
\* Steps of a run.

\* What CancelSticks asks of a step.
Sticks == \A t \in asked : \/ Status(t)' \in {Status(t), "gone"}
                           \/ target[t] \in dropped

\* A step of the run of t changes no other task, but for pruning.
LEMMA RunStep ==
    ASSUME TasksInv, NEW t \in TaskIds, run[t].at # "none",
           NEW r \in Run, run' = [run EXCEPT ![t] = r], r.at = "none" => ~r.stop,
           ~run[t].stop \/ (r.at = "none" /\ store' = store),
           StoreOK(store'), store'.task[t] # "absent",
           \A u \in TaskIds \ {t} : store'.task[u] \in {store.task[u], "gone"},
           agent' \in [Agents -> Agent],
           \A a \in Agents : agent[a].context \subseteq agent'[a].context,
           r.at = "call" => t \in agent'[target[t]].context,
           UNCHANGED <<target, runner, deleter, kernel, history>>
    PROVE  TasksInv' /\ Sticks
<1> DEFINE a == target[t]
<1>1. target[t] \in Agents
  BY RunHasAgent DEF TasksInv
<1>2. Typed /\ Typed'
  BY DEF TasksInv, Typed, runner, history
<1>3. /\ run'[t] = r
      /\ \A u \in TaskIds \ {t} : run'[u] = run[u]
  BY <1>2 DEF Typed
<1>4. UNCHANGED <<target, queue, qreg, worker, wreg, current, asked, dropped>>
  BY DEF runner, history
<1>5. Targeted'
  BY <1>1, <1>4 DEF TasksInv, Targeted, Status, Unfinished
<1>6. QueuesHold' /\ Manned' /\ Deleting'
  <2>1. QueuesHold /\ Manned /\ Deleting
    BY DEF TasksInv
  <2>2. QueuesHold'
    BY <1>4, <2>1 DEF QueuesHold, TasksOf
  <2>3. \A w \in Workers : WorkerKeeps(w)'
    BY <1>4, <2>1 DEF Manned, WorkerKeeps, TasksOf
  <2>4. Manned'
    BY <1>4, <2>1, <2>3 DEF Manned
  <2>5. Deleting'
    BY <1>4, <2>1 DEF Deleting
  <2> QED
    BY <2>2, <2>4, <2>5
<1>7. Awaited'
  BY <1>3, <1>4 DEF TasksInv, Awaited
<1>8. ASSUME NEW u \in asked
      PROVE  /\ (Status(u) # "absent" /\ target[u] \in Agents)'
             /\ target[u] \notin dropped =>
                  /\ Status(u)' \in {Status(u), "gone"}
                  /\ (Status(u) \in Terminal \cup {"gone"})'
                  /\ (run[u].at = "none" \/ run[u].stop)'
  <2>1. u \in TaskIds
    BY <1>2 DEF Typed
  <2>2. /\ Status(u) # "absent" /\ target[u] \in Agents
        /\ target[u] \notin dropped =>
             /\ Status(u) \in Terminal \cup {"gone"}
             /\ run[u].at = "none" \/ run[u].stop
    BY DEF TasksInv, AskedOver
  <2>3. CASE u = t
    <3>1. target[u] \notin dropped => store' = store /\ r.at = "none"
      BY <2>2, <2>3
    <3> QED
      BY <1>3, <1>4, <2>1, <2>2, <2>3, <3>1 DEF Status
  <2>4. CASE u # t
    <3>1. store'.task[u] \in {store.task[u], "gone"} /\ run'[u] = run[u]
      BY <1>3, <2>1, <2>4
    <3> QED
      BY <1>4, <2>2, <3>1 DEF Status
  <2> QED
    BY <2>3, <2>4
<1>9. AskedOver'
  BY <1>4, <1>8 DEF AskedOver
<1>10. Sticks
  BY <1>8 DEF Sticks
<1>11. PromptKept'
  <2> SUFFICES ASSUME NEW u \in TaskIds,
                      (run[u].at = "call" /\ kernel = "running" /\ target[u] \notin dropped)'
               PROVE  (u \in agent[target[u]].context)'
    BY DEF PromptKept
  <2>1. CASE u = t
    BY <1>3, <1>4, <2>1
  <2>2. CASE u # t
    <3>1. run[u].at = "call" /\ kernel = "running" /\ target[u] \notin dropped
      BY <1>3, <1>4, <2>2
    <3>2. u \in agent[target[u]].context
      BY <3>1 DEF TasksInv, PromptKept
    <3>3. target[u] \in Agents
      BY <3>1, RunHasAgent DEF TasksInv
    <3> QED
      BY <1>4, <3>2, <3>3
  <2> QED
    BY <2>1, <2>2
<1> QED
  BY <1>2, <1>5, <1>6, <1>7, <1>9, <1>10, <1>11 DEF TasksInv

\* What dispatch_task() does to the agent as it ends.
LEMMA UndispatchedAgent ==
    ASSUME agent \in [Agents -> Agent], NEW a \in Agents
    PROVE  /\ Undispatched(a) \in [Agents -> Agent]
           /\ \A b \in Agents : Undispatched(a)[b].context = agent[b].context
<1>1. agent[a] \in Agent
  OBVIOUS
<1>2. [agent[a] EXCEPT !.status = "idle"] \in Agent
  BY <1>1 DEF Agent
<1>3. [agent[a] EXCEPT !.status = "idle"].context = agent[a].context
  BY <1>1 DEF Agent
<1> QED
  BY <1>2, <1>3 DEF Undispatched

LEMMA StartedOK ==
    ASSUME StoreOK(store), NEW t \in TaskIds, Status(t) # "gone"
    PROVE  /\ StoreOK(Started(store, t))
           /\ Started(store, t).task[t] = "running"
           /\ \A u \in TaskIds \ {t} : Started(store, t).task[u] = store.task[u]
<1> DEFINE T == [store.task EXCEPT ![t] = "running"]
           s2 == Started(store, t)
<1>1. s2 = [task |-> T, finished |-> store.finished, active |-> store.active]
  BY DEF StoreOK, Started
<1>2. T \in [TaskIds -> Statuses] /\ T[t] = "running"
      /\ \A u \in TaskIds \ {t} : T[u] = store.task[u]
  BY DEF StoreOK, Statuses, Unfinished
<1> HIDE DEF T
<1>3. /\ s2 = [task |-> s2.task, finished |-> s2.finished, active |-> s2.active]
      /\ s2.task = T /\ s2.active = store.active
  BY <1>1
<1> HIDE DEF s2
<1>4. StoreOK(s2)
  BY <1>2, <1>3 DEF StoreOK, Unfinished
<1> QED
  BY <1>2, <1>3, <1>4 DEF s2

LEMMA RunFailsStep ==
    ASSUME StoreOK(store), NEW t \in TaskIds, RunFails(t)
    PROVE  /\ StoreOK(store')
           /\ Status(t) # "absent" => store'.task[t] # "absent"
           /\ \A u \in TaskIds \ {t} : store'.task[u] \in {store.task[u], "gone"}
<1>1. CASE Status(t) \in Unfinished
  <2>1. Ends(store, store', t, "failed")
    BY <1>1, FinishedEnds DEF RunFails, Terminal
  <2> QED
    BY <2>1 DEF Ends
<1>2. CASE Status(t) \notin Unfinished
  BY <1>2 DEF RunFails, Status
<1> QED
  BY <1>1, <1>2

LEMMA InvRunBegins ==
    ASSUME TasksInv, NEW t \in TaskIds, RunBegins(t)
    PROVE  TasksInv' /\ Sticks
<1> DEFINE a == target[t]
<1>1. /\ run[t].at = "new" /\ ~run[t].stop
      /\ UNCHANGED <<target, runner, deleter, kernel, history>>
  BY DEF RunBegins
<1>2. Typed /\ a \in Agents
  BY <1>1, RunHasAgent DEF TasksInv
<1>3. StoreOK(store) /\ agent \in [Agents -> Agent] /\ NoRun \in Run
  BY <1>2 DEF Typed, NoRun, Run
<1>4. Status(t) # "absent"
  BY <1>2, TasksAssumption DEF TasksInv, Targeted
<1>5. CASE Status(t) = "gone" \/ a \notin Managed
  <2>1. RunFails(t) /\ agent' = agent
    BY <1>5 DEF RunBegins
  <2>2. run' = [run EXCEPT ![t] = NoRun] /\ NoRun.at = "none" /\ ~NoRun.stop
    BY <2>1 DEF RunFails, NoRun
  <2>3. /\ StoreOK(store') /\ store'.task[t] # "absent"
        /\ \A u \in TaskIds \ {t} : store'.task[u] \in {store.task[u], "gone"}
    BY <1>3, <1>4, <2>1, RunFailsStep
  <2> QED
    BY <1>1, <1>3, <2>1, <2>2, <2>3, RunStep
<1>6. CASE Status(t) # "gone" /\ a \in Managed
  <2> DEFINE s == Started(store, t)
  <2>1. /\ StoreOK(s) /\ s.task[t] = "running"
        /\ \A u \in TaskIds \ {t} : s.task[u] = store.task[u]
    BY <1>3, <1>6, StartedOK
  <2>2. CASE agent[a].status \notin {"idle", "running"}
    <3>1. /\ store' = Finished(s, t, "failed")
          /\ run' = [run EXCEPT ![t] = NoRun] /\ agent' = agent
      BY <1>6, <2>2 DEF RunBegins
    <3> HIDE DEF s
    <3>2. Ends(s, store', t, "failed")
      BY <2>1, <3>1, FinishedEnds DEF Terminal
    <3>3. /\ StoreOK(store') /\ store'.task[t] # "absent"
          /\ \A u \in TaskIds \ {t} : store'.task[u] \in {store.task[u], "gone"}
      BY <2>1, <3>2 DEF Ends
    <3>4. NoRun.at = "none" /\ ~NoRun.stop
      BY DEF NoRun
    <3> QED
      BY <1>1, <1>3, <3>1, <3>3, <3>4, RunStep
  <2>3. CASE agent[a].status \in {"idle", "running"}
    <3>1. /\ store' = s /\ run' = [run EXCEPT ![t].at = "hold"]
          /\ agent' = [agent EXCEPT ![a].status = "running"]
      BY <1>6, <2>3 DEF RunBegins
    <3>2. PICK r : r = [run[t] EXCEPT !.at = "hold"]
      OBVIOUS
    <3>3. r \in Run /\ r.at = "hold" /\ run' = [run EXCEPT ![t] = r]
      BY <1>2, <3>1, <3>2 DEF Typed, Run
    <3>4. PICK g : g = [agent[a] EXCEPT !.status = "running"]
      OBVIOUS
    <3>5. g \in Agent /\ g.context = agent[a].context
      BY <1>2, <1>3, <3>4 DEF Agent
    <3>6. agent' = [agent EXCEPT ![a] = g]
      BY <3>1, <3>4
    <3>7. /\ agent' \in [Agents -> Agent]
          /\ \A b \in Agents : agent[b].context \subseteq agent'[b].context
      BY <1>2, <1>3, <3>5, <3>6
    <3> HIDE DEF s
    <3>8. /\ StoreOK(store') /\ store'.task[t] # "absent"
          /\ \A u \in TaskIds \ {t} : store'.task[u] \in {store.task[u], "gone"}
      BY <2>1, <3>1
    <3> QED
      BY <1>1, <3>3, <3>7, <3>8, RunStep
  <2> QED
    BY <2>2, <2>3
<1> QED
  BY <1>5, <1>6

LEMMA InvRunAsks ==
    ASSUME TasksInv, NEW t \in TaskIds, RunAsks(t)
    PROVE  TasksInv' /\ Sticks
<1> DEFINE a == target[t]
<1>1. /\ run[t].at = "hold" /\ ~run[t].stop /\ store' = store
      /\ run' = [run EXCEPT ![t].at = "call"]
      /\ agent' = [agent EXCEPT ![a].context = @ \cup {t}]
      /\ UNCHANGED <<target, runner, deleter, kernel, history>>
  BY DEF RunAsks
<1>2. Typed /\ a \in Agents
  BY <1>1, RunHasAgent DEF TasksInv
<1>3. Status(t) # "absent"
  BY <1>2, TasksAssumption DEF TasksInv, Targeted
<1>4. PICK r : r = [run[t] EXCEPT !.at = "call"]
  OBVIOUS
<1>5. r \in Run /\ r.at = "call" /\ run' = [run EXCEPT ![t] = r]
  BY <1>1, <1>2, <1>4 DEF Typed, Run
<1>6. PICK g : g = [agent[a] EXCEPT !.context = agent[a].context \cup {t}]
  OBVIOUS
<1>7. g \in Agent /\ g.context = agent[a].context \cup {t}
  <2>1. agent[a] \in Agent
    BY <1>2 DEF Typed
  <2> QED
    BY <1>6, <2>1 DEF Agent
<1>8. agent' = [agent EXCEPT ![a] = g]
  BY <1>1, <1>6
<1>9. /\ agent' \in [Agents -> Agent] /\ t \in agent'[target[t]].context
      /\ \A b \in Agents : agent[b].context \subseteq agent'[b].context
  BY <1>2, <1>7, <1>8 DEF Typed
<1>10. /\ StoreOK(store') /\ store'.task[t] # "absent"
       /\ \A u \in TaskIds \ {t} : store'.task[u] \in {store.task[u], "gone"}
  BY <1>1, <1>2, <1>3 DEF Typed, Status
<1> QED
  BY <1>1, <1>5, <1>9, <1>10, RunStep

LEMMA InvRunEnds ==
    ASSUME TasksInv, NEW t \in TaskIds, RunCompletes(t) \/ RunErrs(t) \/ RunStops(t)
    PROVE  TasksInv' /\ Sticks
<1> DEFINE a == target[t]
<1>1. CASE run[t].at = "none"
  <2>1. RunStops(t)
    BY <1>1 DEF RunCompletes, RunErrs
  <2> QED
    BY <1>1, <2>1 DEF RunStops, TasksInv, Awaited
<1>2. CASE run[t].at # "none"
  <2>1. Typed /\ a \in Agents
    BY <1>2, RunHasAgent DEF TasksInv
  <2>2. Status(t) # "absent"
    BY <2>1, TasksAssumption DEF TasksInv, Targeted
  <2>3. /\ run' = [run EXCEPT ![t] = NoRun] /\ NoRun.at = "none" /\ ~NoRun.stop /\ NoRun \in Run
        /\ UNCHANGED <<target, runner, deleter, kernel, history>>
    BY DEF RunCompletes, RunErrs, RunStops, RunFails, NoRun, Run
  <2>4. /\ agent' \in [Agents -> Agent]
        /\ \A b \in Agents : agent[b].context \subseteq agent'[b].context
    <3>1. agent' = agent \/ agent' = Undispatched(a)
      BY DEF RunCompletes, RunErrs, RunStops
    <3>2. agent \in [Agents -> Agent]
      BY <2>1 DEF Typed
    <3> QED
      BY <2>1, <3>1, <3>2, UndispatchedAgent
  <2>5. StoreOK(store)
    BY <2>1 DEF Typed
  <2>6. /\ StoreOK(store') /\ store'.task[t] # "absent"
        /\ \A u \in TaskIds \ {t} : store'.task[u] \in {store.task[u], "gone"}
        /\ ~run[t].stop \/ store' = store
    <3>1. CASE RunCompletes(t)
      <4>1. ~run[t].stop /\ store' = AnsweredIn(t)
        BY <3>1 DEF RunCompletes
      <4>2. CASE Status(t) = "running"
        <5>1. Ends(store, store', t, "completed")
          BY <2>5, <4>1, <4>2, FinishedEnds DEF AnsweredIn, Terminal
        <5> QED
          BY <4>1, <5>1 DEF Ends
      <4>3. CASE Status(t) # "running"
        BY <2>2, <2>5, <4>1, <4>3 DEF AnsweredIn, Status
      <4> QED
        BY <4>2, <4>3
    <3>2. CASE RunErrs(t)
      <4>1. ~run[t].stop /\ RunFails(t)
        BY <3>2 DEF RunErrs
      <4> QED
        BY <2>2, <2>5, <4>1, RunFailsStep
    <3>3. CASE RunStops(t)
      BY <2>2, <2>5, <3>3 DEF RunStops, Status
    <3> QED
      BY <3>1, <3>2, <3>3
  <2> QED
    BY <1>2, <2>3, <2>4, <2>6, RunStep
<1> QED
  BY <1>1, <1>2

-----------------------------------------------------------------------------
\* Steps of an agent.

\* A context is cleared under nobody's feet.
LEMMA AgentStep ==
    ASSUME TasksInv, agent' \in [Agents -> Agent],
           \A t \in TaskIds :
               run[t].at = "call" /\ kernel = "running" /\ target[t] \notin dropped
               /\ t \in agent[target[t]].context
               => t \in agent'[target[t]].context,
           UNCHANGED <<store, target, runner, run, deleter, kernel, history>>
    PROVE  TasksInv' /\ Sticks
<1>1. UNCHANGED <<target, queue, qreg, worker, wreg, current, asked, dropped>>
  BY DEF runner, history
<1>2. PromptKept'
  BY <1>1 DEF TasksInv, PromptKept
<1>3. Typed'
  BY <1>1 DEF TasksInv, Typed
<1>4. Targeted' /\ QueuesHold' /\ Manned' /\ Deleting'
  BY <1>1 DEF TasksInv, Targeted, Status, QueuesHold, TasksOf, Manned, WorkerKeeps, Deleting
<1>5. Awaited' /\ AskedOver' /\ Sticks
  BY <1>1 DEF TasksInv, Awaited, AskedOver, Sticks, Status
<1> QED
  BY <1>2, <1>3, <1>4, <1>5 DEF TasksInv

LEMMA InvAgents ==
    ASSUME TasksInv, NEW a \in Agents,
           SpawnAgent(a) \/ PauseAgent(a) \/ ResumeAgent(a) \/ HealthCheck(a)
    PROVE  TasksInv' /\ Sticks
<1>1. UNCHANGED <<store, target, runner, run, deleter, kernel, history>>
  BY DEF SpawnAgent, PauseAgent, ResumeAgent, HealthCheck
<1>2. agent \in [Agents -> Agent] /\ agent[a] \in Agent
  BY DEF TasksInv, Typed
<1>3. CASE SpawnAgent(a) \/ PauseAgent(a) \/ ResumeAgent(a)
  <2>1. PICK g : /\ agent' = [agent EXCEPT ![a] = g]
                 /\ g \in Agent /\ g.context = agent[a].context
    <3>1. CASE SpawnAgent(a)
      <4>1. agent' = [agent EXCEPT ![a] = [agent[a] EXCEPT !.status = StatusInitialized]]
        BY <3>1 DEF SpawnAgent
      <4>2. StatusInitialized \in {"idle", "failed"}
        BY DEF StatusInitialized
      <4>3. /\ [agent[a] EXCEPT !.status = StatusInitialized] \in Agent
            /\ [agent[a] EXCEPT !.status = StatusInitialized].context = agent[a].context
        BY <1>2, <4>2 DEF Agent
      <4> QED
        BY <4>1, <4>3
    <3>2. CASE PauseAgent(a)
      <4>1. agent' = [agent EXCEPT ![a] = [agent[a] EXCEPT !.status = "paused", !.paused = TRUE]]
        BY <1>2, <3>2 DEF PauseAgent
      <4>2. /\ [agent[a] EXCEPT !.status = "paused", !.paused = TRUE] \in Agent
            /\ [agent[a] EXCEPT !.status = "paused", !.paused = TRUE].context = agent[a].context
        BY <1>2 DEF Agent
      <4> QED
        BY <4>1, <4>2
    <3>3. CASE ResumeAgent(a)
      <4>1. agent' = [agent EXCEPT ![a] = [agent[a] EXCEPT !.status = "idle", !.paused = FALSE]]
        BY <1>2, <3>3 DEF ResumeAgent
      <4>2. /\ [agent[a] EXCEPT !.status = "idle", !.paused = FALSE] \in Agent
            /\ [agent[a] EXCEPT !.status = "idle", !.paused = FALSE].context = agent[a].context
        BY <1>2 DEF Agent
      <4> QED
        BY <4>1, <4>2
    <3> QED
      BY <1>3, <3>1, <3>2, <3>3
  <2>2. /\ agent' \in [Agents -> Agent]
        /\ \A b \in Agents : agent'[b].context = agent[b].context
    BY <1>2, <2>1
  <2>3. \A t \in TaskIds : run[t].at = "call" => target[t] \in Agents
    BY RunHasAgent DEF TasksInv
  <2> QED
    BY <1>1, <2>2, <2>3, AgentStep
<1>4. CASE HealthCheck(a)
  <2>1. CASE KernelUp /\ IdleLong(a)
    <3>1. PICK g : g = [agent[a] EXCEPT !.context = {}]
      OBVIOUS
    <3>2. g \in Agent
      BY <1>2, <3>1 DEF Agent
    <3>3. agent' = [agent EXCEPT ![a] = g]
      BY <1>4, <2>1, <3>1 DEF HealthCheck
    <3>4. \A t \in TaskIds : run[t].at = "call" => target[t] # a
      BY <2>1 DEF IdleLong, Executing
    <3>5. agent' \in [Agents -> Agent]
      BY <1>2, <3>2, <3>3
    <3>6. \A t \in TaskIds :
              run[t].at = "call" /\ kernel = "running" /\ target[t] \notin dropped
              /\ t \in agent[target[t]].context
              => t \in agent'[target[t]].context
      BY <1>2, <3>3, <3>4
    <3> QED
      BY <1>1, <3>5, <3>6, AgentStep
  <2>2. CASE ~KernelUp
    <3>1. PICK g : g = Restarted(agent[a])
      OBVIOUS
    <3>2. g \in Agent
      BY <1>2, <3>1 DEF Agent, Restarted
    <3>3. agent' = [agent EXCEPT ![a] = g]
      BY <1>4, <2>2, <3>1 DEF HealthCheck
    <3>4. agent' \in [Agents -> Agent]
      BY <1>2, <3>2, <3>3
    <3> QED
      BY <1>1, <2>2, <3>4, AgentStep DEF KernelUp
  <2> QED
    BY <1>4, <2>1, <2>2 DEF HealthCheck
<1> QED
  BY <1>3, <1>4

-----------------------------------------------------------------------------
\* Steps of a worker.

\* A worker that keeps its word disturbs no other worker: the only other one of
\* its agent, if any, has been cancelled.
LEMMA WorkerStep ==
    ASSUME Typed, Manned, NEW w \in Workers, worker[w].at # "none",
           NEW k \in Worker, worker' = [worker EXCEPT ![w] = k],
           k.at # "none" => k.agent = worker[w].agent,
           UNCHANGED <<target, wreg, dropped>>,
           \A a \in Agents : Len(queue'[a]) = Len(queue[a]),
           \A a \in Agents : current'[a] = current[a] \/ a = worker[w].agent,
           WorkerKeeps(w)'
    PROVE  Manned'
<1>1. worker'[w] = k /\ \A v \in Workers \ {w} : worker'[v] = worker[v]
  BY DEF Typed
<1>2. WorkerKeeps(w)
  BY DEF Manned
<1>3. ASSUME NEW v \in Workers PROVE WorkerKeeps(v)'
  <2>1. CASE v = w
    BY <2>1
  <2>2. CASE v # w
    <3> SUFFICES ASSUME worker[v].at # "none" PROVE WorkerKeeps(v)'
      BY <1>1, <2>2 DEF WorkerKeeps
    <3>1. WorkerKeeps(v) /\ worker'[v] = worker[v]
      BY <1>1, <2>2 DEF Manned
    <3>2. worker[v].agent \in Agents
      BY <3>1 DEF WorkerKeeps
    <3>3. worker[v].at = "wait" /\ worker[v].agent \notin dropped
          => current'[worker[v].agent] = current[worker[v].agent]
      <4> SUFFICES ASSUME worker[v].agent \notin dropped, worker[v].agent = worker[w].agent
                   PROVE  FALSE
        BY <3>2
      <4>1. ~worker[v].stop /\ ~worker[w].stop
        BY <1>2, <3>1 DEF WorkerKeeps
      <4> QED
        BY <2>2, <4>1, OneWorker
    <3>4. Len(queue'[worker[v].agent]) = Len(queue[worker[v].agent])
      BY <3>2
    <3> HIDE DEF Manned, Typed
    <3>5. /\ worker[v].at \in {"get", "wait"}
                => worker[v].q \in 1..Len(queue'[worker[v].agent])
          /\ worker[v].at = "wait" /\ worker[v].agent \notin dropped
                => current'[worker[v].agent] = worker[v].task
      BY <3>1, <3>3, <3>4 DEF WorkerKeeps
    <3> QED
      BY <3>1, <3>5 DEF WorkerKeeps
  <2> QED
    BY <2>1, <2>2
<1>4. ASSUME NEW a \in Agents, wreg'[a] # Nobody, worker'[wreg'[a]].at # "none"
      PROVE  worker'[wreg'[a]].agent = a
  <2>1. wreg[a] \in Workers /\ wreg'[a] = wreg[a]
    BY <1>4 DEF Typed
  <2>2. CASE wreg[a] = w
    BY <1>1, <1>4, <2>1, <2>2 DEF Manned
  <2>3. CASE wreg[a] # w
    BY <1>1, <1>4, <2>1, <2>3 DEF Manned
  <2> QED
    BY <2>2, <2>3
<1> QED
  BY <1>3, <1>4 DEF Manned

LEMMA InvWorkerBegins ==
    ASSUME TasksInv, NEW w \in Workers, WorkerBegins(w)
    PROVE  TasksInv' /\ Sticks
<1>1. /\ worker[w].at = "new"
      /\ UNCHANGED <<store, target, queue, qreg, wreg, current, run, agent, deleter,
                     kernel, asked, dropped>>
  BY DEF WorkerBegins, history
<1>2. PICK a : a = worker[w].agent
  OBVIOUS
<1>3. WorkerKeeps(w) /\ worker[w] \in Worker
  BY DEF TasksInv, Typed, Manned
<1>4. a \in Agents
  BY <1>1, <1>2, <1>3 DEF WorkerKeeps
<1>5. qreg[a] \in 0..MaxQueues /\ qreg[a] <= Len(queue[a]) /\ Len(queue[a]) \in Nat
  BY <1>4 DEF TasksInv, Typed, QueuesHold
<1>6. PICK k \in Worker : /\ worker' = [worker EXCEPT ![w] = k]
                          /\ k.at = "none" \/
                             /\ k.at = "get" /\ k.agent = a /\ k.stop = worker[w].stop
                             /\ k.q \in 1..Len(queue[a])
  <2>1. CASE worker[w].stop \/ qreg[a] = 0
    <3>1. worker' = [worker EXCEPT ![w] = NoWorker]
      BY <1>2, <2>1 DEF WorkerBegins
    <3>2. NoWorker \in Worker /\ NoWorker.at = "none"
      BY TasksAssumption DEF NoWorker, Worker
    <3> QED
      BY <3>1, <3>2
  <2>2. CASE ~(worker[w].stop \/ qreg[a] = 0)
    <3>1. PICK k : k = [worker[w] EXCEPT !.at = "get", !.q = qreg[a]]
      OBVIOUS
    <3>2. worker' = [worker EXCEPT ![w] = k]
      BY <1>2, <2>2, <3>1 DEF WorkerBegins
    <3>3. /\ k \in Worker /\ k.at = "get" /\ k.agent = worker[w].agent
          /\ k.stop = worker[w].stop /\ k.q = qreg[a]
      BY <1>3, <1>5, <3>1 DEF Worker
    <3>4. k.q \in 1..Len(queue[a])
      BY <1>5, <2>2, <3>3
    <3> QED
      BY <1>2, <3>2, <3>3, <3>4
  <2> QED
    BY <2>1, <2>2
<1>7. worker'[w] = k /\ \A v \in Workers \ {w} : worker'[v] = worker[v]
  BY <1>6 DEF TasksInv, Typed
<1>8. WorkerKeeps(w)'
  BY <1>1, <1>2, <1>3, <1>4, <1>6, <1>7 DEF WorkerKeeps
<1>9. Manned'
  BY <1>1, <1>2, <1>6, <1>8, WorkerStep DEF TasksInv
<1>10. Typed'
  BY <1>1, <1>6 DEF TasksInv, Typed
<1>11. Awaited'
  BY <1>1, <1>7 DEF TasksInv, Awaited
<1> QED
  BY <1>1, <1>9, <1>10, <1>11 DEF TasksInv, Targeted, Status, QueuesHold, TasksOf,
     AskedOver, Deleting, PromptKept, Sticks

LEMMA InvWorkerStops ==
    ASSUME TasksInv, NEW w \in Workers, WorkerStops(w)
    PROVE  TasksInv' /\ Sticks
<1>1. /\ worker[w].stop /\ worker[w].at \in {"get", "wait"}
      /\ UNCHANGED <<store, target, queue, qreg, wreg, current, agent, deleter,
                     kernel, asked, dropped>>
  BY DEF WorkerStops, history
<1>2. WorkerKeeps(w) /\ worker[w] \in Worker
  BY DEF TasksInv, Typed, Manned
<1>3. PICK k \in Worker : /\ worker' = [worker EXCEPT ![w] = k]
                          /\ \/ k.at = "none" /\ worker[w].at = "get"
                             \/ /\ worker[w].at = "wait"
                                /\ k.at = "reap" /\ k.agent = worker[w].agent /\ k.stop
                                /\ k.task = worker[w].task
  <2>1. CASE worker[w].at = "get"
    <3>1. worker' = [worker EXCEPT ![w] = NoWorker]
      BY <2>1 DEF WorkerStops
    <3>2. NoWorker \in Worker /\ NoWorker.at = "none"
      BY TasksAssumption DEF NoWorker, Worker
    <3> QED
      BY <2>1, <3>1, <3>2
  <2>2. CASE worker[w].at = "wait"
    <3>1. PICK k : k = [worker[w] EXCEPT !.at = "reap"]
      OBVIOUS
    <3>2. worker' = [worker EXCEPT ![w] = k]
      BY <2>2, <3>1 DEF WorkerStops
    <3>3. /\ k \in Worker /\ k.at = "reap" /\ k.agent = worker[w].agent
          /\ k.stop = worker[w].stop /\ k.task = worker[w].task
      BY <1>2, <3>1 DEF Worker
    <3> QED
      BY <1>1, <2>2, <3>2, <3>3
  <2> QED
    BY <1>1, <2>1, <2>2
<1>4. worker'[w] = k /\ \A v \in Workers \ {w} : worker'[v] = worker[v]
  BY <1>3 DEF TasksInv, Typed
<1>5. WorkerKeeps(w)'
  BY <1>1, <1>2, <1>3, <1>4 DEF WorkerKeeps
<1>6. Manned'
  <2>1. worker[w].at # "none" /\ (k.at # "none" => k.agent = worker[w].agent)
    BY <1>1, <1>3
  <2> QED
    BY <1>1, <1>3, <1>5, <2>1, WorkerStep DEF TasksInv
<1>7. /\ run' \in [TaskIds -> Run]
      /\ \A t \in TaskIds : /\ run'[t].at = run[t].at
                            /\ run[t].stop => run'[t].stop
                            /\ run[t].at = "none" => run'[t] = run[t]
  <2>1. CASE run' = run
    BY <2>1 DEF TasksInv, Typed
  <2>2. CASE run' # run
    <3>1. PICK t : t = worker[w].task
      OBVIOUS
    <3>2. run' = [run EXCEPT ![t].stop = TRUE] /\ run[t].at # "none" /\ t \in TaskIds
      BY <1>2, <2>2, <3>1 DEF WorkerStops, WorkerKeeps
    <3>3. PICK r : r = [run[t] EXCEPT !.stop = TRUE]
      OBVIOUS
    <3>4. r \in Run /\ r.at = run[t].at /\ r.stop /\ run' = [run EXCEPT ![t] = r]
      BY <3>2, <3>3 DEF TasksInv, Typed, Run
    <3> QED
      BY <3>2, <3>4 DEF TasksInv, Typed
  <2> QED
    BY <2>1, <2>2
<1>8. Typed'
  BY <1>1, <1>3, <1>7 DEF TasksInv, Typed
<1>9. Awaited'
  <2> SUFFICES ASSUME NEW t \in TaskIds, run'[t].at # "none"
               PROVE  \E v \in Workers : worker'[v].at \in {"wait", "reap"} /\ worker'[v].task = t
    BY <1>7 DEF TasksInv, Awaited
  <2>1. PICK v \in Workers : worker[v].at \in {"wait", "reap"} /\ worker[v].task = t
    BY <1>7 DEF TasksInv, Awaited
  <2>2. CASE v = w
    BY <1>3, <1>4, <2>1, <2>2
  <2>3. CASE v # w
    BY <1>4, <2>1, <2>3
  <2> QED
    BY <2>2, <2>3
<1>10. AskedOver'
  BY <1>1, <1>7 DEF TasksInv, Typed, AskedOver, Status
<1>11. PromptKept'
  BY <1>1, <1>7 DEF TasksInv, PromptKept
<1> QED
  BY <1>1, <1>6, <1>8, <1>9, <1>10, <1>11 DEF TasksInv, Targeted, Status, QueuesHold,
     TasksOf, Deleting, Sticks

LEMMA InvWorkerReaps ==
    ASSUME TasksInv, NEW w \in Workers, WorkerReaps(w)
    PROVE  TasksInv' /\ Sticks
<1>1. /\ worker[w].at = "reap" \/ (worker[w].at = "wait" /\ ~worker[w].stop)
      /\ run[worker[w].task].at = "none"
      /\ current' = [current EXCEPT ![worker[w].agent] = Nobody]
      /\ UNCHANGED <<store, target, queue, qreg, wreg, run, agent, deleter,
                     kernel, asked, dropped>>
  BY DEF WorkerReaps, history
<1>2. WorkerKeeps(w) /\ worker[w] \in Worker
  BY DEF TasksInv, Typed, Manned
<1>3. PICK k \in Worker : /\ worker' = [worker EXCEPT ![w] = k]
                          /\ k.at = "none" \/
                             /\ worker[w].at = "wait"
                             /\ k.at = "get" /\ k.agent = worker[w].agent
                             /\ k.q = worker[w].q /\ ~k.stop
  <2>1. CASE worker[w].at = "reap"
    <3>1. worker' = [worker EXCEPT ![w] = NoWorker]
      BY <2>1 DEF WorkerReaps
    <3>2. NoWorker \in Worker /\ NoWorker.at = "none"
      BY TasksAssumption DEF NoWorker, Worker
    <3> QED
      BY <3>1, <3>2
  <2>2. CASE worker[w].at = "wait"
    <3>1. PICK k : k = [worker[w] EXCEPT !.at = "get", !.task = Nobody]
      OBVIOUS
    <3>2. worker' = [worker EXCEPT ![w] = k]
      BY <2>2, <3>1 DEF WorkerReaps
    <3>3. /\ k \in Worker /\ k.at = "get" /\ k.agent = worker[w].agent
          /\ k.stop = worker[w].stop /\ k.q = worker[w].q
      BY <1>2, <3>1 DEF Worker
    <3> QED
      BY <1>1, <2>2, <3>2, <3>3
  <2> QED
    BY <1>1, <2>1, <2>2
<1>4. worker'[w] = k /\ \A v \in Workers \ {w} : worker'[v] = worker[v]
  BY <1>3 DEF TasksInv, Typed
<1>5. WorkerKeeps(w)'
  <2>1. CASE k.at = "none"
    BY <1>4, <2>1 DEF WorkerKeeps
  <2>2. CASE k.at # "none"
    BY <1>1, <1>2, <1>3, <1>4, <2>2 DEF WorkerKeeps
  <2> QED
    BY <2>1, <2>2
<1>6. current' \in [Agents -> TaskIds \cup {Nobody}]
  BY <1>1 DEF TasksInv, Typed
<1>7. Manned'
  <2>1. worker[w].at # "none" /\ (k.at # "none" => k.agent = worker[w].agent)
    BY <1>1, <1>3
  <2>2. \A a \in Agents : current'[a] = current[a] \/ a = worker[w].agent
    BY <1>1 DEF TasksInv, Typed
  <2> QED
    BY <1>1, <1>3, <1>5, <2>1, <2>2, WorkerStep DEF TasksInv
<1>8. Typed'
  BY <1>1, <1>3, <1>6 DEF TasksInv, Typed
<1>9. Awaited'
  <2> SUFFICES ASSUME NEW t \in TaskIds, run[t].at # "none"
               PROVE  \E v \in Workers : worker'[v].at \in {"wait", "reap"} /\ worker'[v].task = t
    BY <1>1 DEF TasksInv, Awaited
  <2>1. PICK v \in Workers : worker[v].at \in {"wait", "reap"} /\ worker[v].task = t
    BY DEF TasksInv, Awaited
  <2>2. v # w
    BY <1>1, <2>1
  <2> QED
    BY <1>4, <2>1, <2>2
<1> QED
  BY <1>1, <1>7, <1>8, <1>9 DEF TasksInv, Targeted, Status, QueuesHold,
     TasksOf, AskedOver, Deleting, PromptKept, Sticks

LEMMA InvWorkerTakes ==
    ASSUME TasksInv, NEW w \in Workers, WorkerTakes(w)
    PROVE  TasksInv' /\ Sticks
<1>1. PICK a, n, q, i, t : /\ a = worker[w].agent /\ n = worker[w].q
                           /\ q = queue[a][n] /\ i = Best(q) /\ t = q[i]
  OBVIOUS
<1>2. /\ worker[w].at = "get" /\ ~worker[w].stop /\ q # << >>
      /\ queue' = [queue EXCEPT ![a] = [queue[a] EXCEPT ![n] = RemoveAt(q, i)]]
      /\ UNCHANGED <<store, target, qreg, wreg, agent, deleter, kernel, asked, dropped>>
  <2>1. queue' = [queue EXCEPT ![a][n] = RemoveAt(q, i)]
    BY <1>1 DEF WorkerTakes
  <2> QED
    BY <1>1, <2>1 DEF WorkerTakes, history
<1>3. WorkerKeeps(w) /\ worker[w] \in Worker
  BY DEF TasksInv, Typed, Manned
<1>4. a \in Agents /\ n \in 1..Len(queue[a]) /\ wreg[a] = w
  BY <1>1, <1>2, <1>3 DEF WorkerKeeps
<1>5. queue[a] \in Seq(Seq(TasksOf(a))) /\ q \in Seq(TasksOf(a))
  <2>1. queue[a] \in Seq(Seq(TasksOf(a)))
    BY <1>4 DEF TasksInv, QueuesHold
  <2> QED
    BY <1>1, <1>4, <2>1
<1>6. i \in DOMAIN q /\ t \in TaskIds /\ target[t] = a
  <2>1. q \in Seq(TaskIds)
    BY <1>5, LargerSeq DEF TasksOf
  <2>2. i \in DOMAIN q
    BY <1>1, <1>2, <2>1, BestInQueue
  <2> QED
    BY <1>1, <1>5, <2>2 DEF TasksOf
<1>7. RemoveAt(q, i) \in Seq(TasksOf(a))
  BY <1>5, <1>6, RemovedStays
<1>8. /\ queue'[a] \in Seq(Seq(TasksOf(a))) /\ Len(queue'[a]) = Len(queue[a])
      /\ \A b \in Agents \ {a} : queue'[b] = queue[b]
      /\ queue' = [b \in Agents |-> queue'[b]]
  <2>1. PICK r : r = RemoveAt(q, i)
    OBVIOUS
  <2>2. PICK Q : Q = [queue[a] EXCEPT ![n] = r]
    OBVIOUS
  <2>3. Q \in Seq(Seq(TasksOf(a))) /\ Len(Q) = Len(queue[a])
    BY <1>4, <1>5, <1>7, <2>1, <2>2
  <2>4. queue' = [queue EXCEPT ![a] = Q] /\ queue = [b \in Agents |-> queue[b]]
    BY <1>2, <2>1, <2>2 DEF TasksInv, QueuesHold
  <2>5. queue'[a] = Q /\ \A b \in Agents \ {a} : queue'[b] = queue[b]
    BY <1>4, <2>4
  <2>6. queue' = [b \in Agents |-> queue'[b]]
    BY <2>4
  <2> QED
    BY <2>3, <2>5, <2>6
<1>9. QueuesHold'
  <2>1. TasksOf(a)' = TasksOf(a) /\ \A b : TasksOf(b)' = TasksOf(b)
    BY <1>2 DEF TasksOf
  <2> QED
    BY <1>2, <1>8, <2>1 DEF TasksInv, QueuesHold
<1>10. CASE Runnable(t)
  <2>1. /\ run' = [run EXCEPT ![t].at = "new"]
        /\ current' = [current EXCEPT ![a] = t]
        /\ worker' = [worker EXCEPT ![w].at = "wait", ![w].task = t]
    BY <1>1, <1>10 DEF WorkerTakes
  <2>2. PICK k : k = [worker[w] EXCEPT !.at = "wait", !.task = t]
    OBVIOUS
  <2>3. worker' = [worker EXCEPT ![w] = k]
    BY <1>3, <2>1, <2>2 DEF TasksInv, Typed
  <2>4. /\ k \in Worker /\ k.at = "wait" /\ k.task = t /\ k.agent = a
        /\ k.q = n /\ ~k.stop
    BY <1>1, <1>2, <1>3, <1>6, <2>2 DEF Worker
  <2>5. worker'[w] = k /\ \A v \in Workers \ {w} : worker'[v] = worker[v]
    BY <2>3 DEF TasksInv, Typed
  <2>6. /\ current' \in [Agents -> TaskIds \cup {Nobody}]
        /\ current'[a] = t /\ \A b \in Agents \ {a} : current'[b] = current[b]
    BY <1>4, <1>6, <2>1 DEF TasksInv, Typed
  <2>7. WorkerKeeps(w)'
    BY <1>2, <1>4, <1>6, <1>8, <2>4, <2>5, <2>6 DEF WorkerKeeps
  <2>8. Manned'
    <3>1. worker[w].at # "none" /\ k.agent = worker[w].agent
      BY <1>1, <1>2, <2>4
    <3>2. \A b \in Agents : current'[b] = current[b] \/ b = worker[w].agent
      BY <1>1, <2>6
    <3>3. \A b \in Agents : Len(queue'[b]) = Len(queue[b])
      BY <1>8
    <3> QED
      BY <1>2, <2>3, <2>4, <2>7, <3>1, <3>2, <3>3, WorkerStep DEF TasksInv
  <2>9. PICK r : r = [run[t] EXCEPT !.at = "new"]
    OBVIOUS
  <2>10. r \in Run /\ r.at = "new" /\ run' = [run EXCEPT ![t] = r]
    BY <1>6, <2>1, <2>9 DEF TasksInv, Typed, Run
  <2>11. /\ run' \in [TaskIds -> Run] /\ run'[t] = r
         /\ \A u \in TaskIds \ {t} : run'[u] = run[u]
    BY <1>6, <2>10 DEF TasksInv, Typed
  <2>12. Typed'
    BY <1>2, <2>3, <2>4, <2>6, <2>11 DEF TasksInv, Typed
  <2>13. Awaited'
    <3>1. ASSUME NEW u \in TaskIds, run'[u].at # "none"
          PROVE  \E v \in Workers : worker'[v].at \in {"wait", "reap"} /\ worker'[v].task = u
      <4>1. CASE u = t
        BY <2>4, <2>5, <4>1
      <4>2. CASE u # t
        <5>1. run[u].at # "none"
          BY <2>11, <3>1, <4>2
        <5>2. PICK v \in Workers : worker[v].at \in {"wait", "reap"} /\ worker[v].task = u
          BY <5>1 DEF TasksInv, Awaited
        <5>3. v # w
          BY <1>2, <5>2
        <5> QED
          BY <2>5, <5>2, <5>3
      <4> QED
        BY <4>1, <4>2
    <3>2. \A u \in TaskIds : run'[u].at = "none" => run'[u] = run[u]
      BY <2>10, <2>11
    <3> QED
      BY <3>1, <3>2 DEF TasksInv, Awaited
  <2>14. AskedOver'
    <3> SUFFICES ASSUME NEW u \in asked
                 PROVE  /\ Status(u) # "absent" /\ target[u] \in Agents
                        /\ target[u] \notin dropped =>
                             /\ Status(u) \in Terminal \cup {"gone"}
                             /\ run'[u].at = "none" \/ run'[u].stop
      BY <1>2 DEF AskedOver, Status
    <3>1. /\ Status(u) # "absent" /\ target[u] \in Agents
          /\ target[u] \notin dropped =>
                 /\ Status(u) \in Terminal \cup {"gone"}
                 /\ run[u].at = "none" \/ run[u].stop
      BY DEF TasksInv, AskedOver
    <3>2. CASE u = t
      BY <1>10, <3>1, <3>2 DEF Runnable, Terminal
    <3>3. CASE u # t
      BY <2>11, <3>1, <3>3 DEF TasksInv, Typed
    <3> QED
      BY <3>2, <3>3
  <2>15. PromptKept'
    BY <1>2, <2>10, <2>11 DEF TasksInv, PromptKept
  <2> QED
    BY <1>2, <1>9, <2>8, <2>12, <2>13, <2>14, <2>15
    DEF TasksInv, Targeted, Status, Deleting, Sticks
<1>11. CASE ~Runnable(t)
  <2>1. UNCHANGED <<run, current, worker>>
    BY <1>1, <1>11 DEF WorkerTakes
  <2>2. Manned'
    <3>1. \A b \in Agents : Len(queue'[b]) = Len(queue[b])
      BY <1>8
    <3> QED
      BY <1>2, <2>1, <3>1 DEF TasksInv, Manned, WorkerKeeps
  <2>3. Typed'
    BY <1>2, <2>1 DEF TasksInv, Typed
  <2> QED
    BY <1>2, <1>9, <2>1, <2>2, <2>3 DEF TasksInv, Targeted, Status,
       Awaited, AskedOver, Deleting, PromptKept, Sticks
<1> QED
  BY <1>10, <1>11

-----------------------------------------------------------------------------
\* Steps of the handlers and the kernel, which cancel tasks.

\* What cancellations make of a store: nothing is created, nothing is revived.
Settles(s, s2) ==
    /\ StoreOK(s2)
    /\ \A t \in TaskIds :
          /\ s2.task[t] = "absent" => s.task[t] = "absent"
          /\ s2.task[t] \in Unfinished => s.task[t] \in Unfinished
          /\ s.task[t] \in Terminal \cup {"gone"} => s2.task[t] \in {s.task[t], "gone"}

LEMMA CancelsSettle ==
    ASSUME NEW s, NEW s2, NEW S, Cancels(s, s2, S),
           \A t \in S \cap TaskIds : s.task[t] \in Unfinished \cup {"gone"}
    PROVE  Settles(s, s2)
BY DEF Cancels, Settles, Terminal, Unfinished

LEMMA SettlesMore ==
    ASSUME NEW s, NEW s1, NEW s2, Settles(s, s1), Settles(s1, s2)
    PROVE  Settles(s, s2)
BY DEF Settles

LEMMA LiveCancelled ==
    ASSUME StoreOK(store), NEW ts \in SUBSET TaskIds
    PROVE  /\ Settles(store, CancelledAll(store, Live(ts)))
           /\ \A t \in Live(ts) : CancelledAll(store, Live(ts)).task[t] \in {"cancelled", "gone"}
<1> DEFINE S == Live(ts)
           s2 == CancelledAll(store, S)
<1>1. Cancels(store, s2, S)
  BY CancelledAllCancels
<1>2. \A t \in S : t \in TaskIds /\ store.task[t] \in Unfinished
  BY DEF Live, Status
<1> HIDE DEF S, s2
<1>3. Settles(store, s2)
  BY <1>1, <1>2, CancelsSettle
<1>4. \A t \in S : s2.task[t] \in {"cancelled", "gone"}
  BY <1>1, <1>2 DEF Cancels, Unfinished
<1> QED
  BY <1>3, <1>4 DEF S, s2

LEMMA UnregisterSettles ==
    ASSUME NEW s, StoreOK(s), NEW a
    PROVE  Settles(s, Unregister(s, a))
<1> DEFINE S == {t \in s.active : target[t] = a}
<1>1. Cancels(s, Unregister(s, a), S)
  BY CancelledAllCancels DEF Unregister
<1>2. \A t \in S \cap TaskIds : s.task[t] \in Unfinished \cup {"gone"}
  BY DEF StoreOK
<1> HIDE DEF S
<1> QED
  BY <1>1, <1>2, CancelsSettle

LEMMA StoppedRuns ==
    ASSUME run \in [TaskIds -> Run], NEW ts \in SUBSET TaskIds
    PROVE  /\ StoppedCurrent(run, ts) \in [TaskIds -> Run]
           /\ \A t \in TaskIds :
                 /\ StoppedCurrent(run, ts)[t].at = run[t].at
                 /\ run[t].stop => StoppedCurrent(run, ts)[t].stop
                 /\ run[t].at = "none" => StoppedCurrent(run, ts)[t] = run[t]
                 /\ t \in ts /\ run[t].at # "none" /\ current[target[t]] = t
                       => StoppedCurrent(run, ts)[t].stop
<1>1. ASSUME NEW t \in TaskIds
      PROVE  /\ StoppedCurrent(run, ts)[t] \in Run
             /\ StoppedCurrent(run, ts)[t].at = run[t].at
             /\ run[t].stop => StoppedCurrent(run, ts)[t].stop
             /\ run[t].at = "none" => StoppedCurrent(run, ts)[t] = run[t]
             /\ t \in ts /\ run[t].at # "none" /\ current[target[t]] = t
                   => StoppedCurrent(run, ts)[t].stop
  <2>1. PICK r : r = [run[t] EXCEPT !.stop = TRUE]
    OBVIOUS
  <2>2. r \in Run /\ r.at = run[t].at /\ r.stop /\ run[t] \in Run
    BY <2>1 DEF Run
  <2>3. StoppedCurrent(run, ts)[t] =
            IF t \in ts /\ current[target[t]] = t /\ run[t].at # "none" THEN r ELSE run[t]
    BY <2>1 DEF StoppedCurrent
  <2> QED
    BY <2>2, <2>3
<1>2. StoppedCurrent(run, ts) = [t \in TaskIds |-> StoppedCurrent(run, ts)[t]]
  BY DEF StoppedCurrent
<1> QED
  BY <1>1, <1>2

\* A step that cancels, stops and lets go keeps the invariant if it leaves the
\* workers where they are and what it asks for is done.
LEMMA CancelStep ==
    ASSUME TasksInv,
           Settles(store, store'),
           run' \in [TaskIds -> Run],
           \A t \in TaskIds : /\ run'[t].at = run[t].at
                              /\ run[t].stop => run'[t].stop
                              /\ run[t].at = "none" => run'[t] = run[t],
           asked \subseteq asked', asked' \subseteq TaskIds, dropped \subseteq dropped',
           \A t \in asked' \ asked :
               /\ store'.task[t] # "absent" /\ target[t] \in Agents
               /\ target[t] \notin dropped' =>
                    /\ store'.task[t] \in Terminal \cup {"gone"}
                    /\ run'[t].at = "none" \/ run'[t].stop,
           worker' \in [Workers -> Worker],
           \A w \in Workers : worker'[w].at = worker[w].at /\ worker'[w].task = worker[w].task,
           wreg' \in [Agents -> Workers \cup {Nobody}], Manned',
           qreg' \in [Agents -> 0..MaxQueues], \A a \in Agents : qreg'[a] <= qreg[a],
           deleter' \in [Deleters -> Deleter], Deleting',
           agent' \in [Agents -> Agent],
           \A a \in Agents \ dropped' : agent'[a] = agent[a],
           kernel' = "running" => kernel = "running",
           UNCHANGED <<target, queue, current>>
    PROVE  TasksInv' /\ Sticks
<1>1. Typed'
  BY DEF TasksInv, Typed, Settles
<1>2. Targeted'
  BY DEF TasksInv, Targeted, Status, Settles
<1>3. QueuesHold'
  <2>1. \A a : TasksOf(a)' = TasksOf(a)
    BY DEF TasksOf
  <2>2. ASSUME NEW a \in Agents PROVE qreg'[a] <= Len(queue[a])
    <3>1. /\ qreg[a] \in Nat /\ qreg'[a] \in Nat /\ queue[a] \in Seq(Seq(TasksOf(a)))
          /\ qreg[a] <= Len(queue[a])
      BY DEF TasksInv, Typed, QueuesHold
    <3>2. qreg'[a] <= qreg[a] /\ Len(queue[a]) \in Nat
      BY <3>1
    <3> QED
      BY <3>1, <3>2
  <2> QED
    BY <2>1, <2>2 DEF TasksInv, QueuesHold
<1>4. Awaited'
  BY DEF TasksInv, Awaited
<1>5. ASSUME NEW t \in asked
      PROVE  /\ t \in TaskIds
             /\ store'.task[t] # "absent" /\ target[t] \in Agents
             /\ target[t] \notin dropped =>
                  /\ store'.task[t] \in {store.task[t], "gone"}
                  /\ store'.task[t] \in Terminal \cup {"gone"}
                  /\ run'[t].at = "none" \/ run'[t].stop
  <2>1. /\ t \in TaskIds /\ store.task[t] # "absent" /\ target[t] \in Agents
        /\ target[t] \notin dropped =>
             /\ store.task[t] \in Terminal \cup {"gone"}
             /\ run[t].at = "none" \/ run[t].stop
    BY DEF TasksInv, Typed, AskedOver, Status
  <2> QED
    BY <2>1 DEF Settles
<1>6. AskedOver'
  BY <1>5 DEF AskedOver, Status
<1>7. Sticks
  BY <1>5 DEF Sticks, Status
<1>8. PromptKept'
  <2> SUFFICES ASSUME NEW t \in TaskIds, run'[t].at = "call", kernel' = "running",
                      target[t] \notin dropped'
               PROVE  t \in agent'[target[t]].context
    BY DEF PromptKept
  <2>1. run[t].at = "call" /\ kernel = "running" /\ target[t] \notin dropped
    OBVIOUS
  <2>2. t \in agent[target[t]].context /\ target[t] \in Agents
    BY <2>1, RunHasAgent DEF TasksInv, PromptKept
  <2> QED
    BY <2>2
<1> QED
  BY <1>1, <1>2, <1>3, <1>4, <1>6, <1>7, <1>8 DEF TasksInv

LEMMA InvCancelTask ==
    ASSUME TasksInv, NEW t \in TaskIds, CancelTask(t)
    PROVE  TasksInv' /\ Sticks
<1> DEFINE L == Live({t})
<1>1. /\ store' = CancelledAll(store, L)
      /\ run' = StoppedCurrent(run, L)
      /\ asked' = asked \cup L
      /\ UNCHANGED <<target, queue, qreg, worker, wreg, current, agent, deleter,
                     kernel, dropped>>
  BY DEF CancelTask, RunnerCancels, runner
<1>2. Typed /\ L \in SUBSET TaskIds
  BY DEF TasksInv, Live
<1>3. /\ Settles(store, store')
      /\ \A u \in L : store'.task[u] \in {"cancelled", "gone"}
  <2>1. StoreOK(store) /\ {t} \in SUBSET TaskIds
    BY <1>2 DEF Typed
  <2> QED
    BY <1>1, <2>1, LiveCancelled
<1>4. /\ run' \in [TaskIds -> Run]
      /\ \A u \in TaskIds : /\ run'[u].at = run[u].at
                            /\ run[u].stop => run'[u].stop
                            /\ run[u].at = "none" => run'[u] = run[u]
                            /\ u \in L /\ run[u].at # "none" /\ current[target[u]] = u
                                  => run'[u].stop
  <2>1. run \in [TaskIds -> Run]
    BY <1>2 DEF Typed
  <2> HIDE DEF L
  <2> QED
    BY <1>1, <1>2, <2>1, StoppedRuns
<1>5. ASSUME NEW u \in asked' \ asked
      PROVE  /\ store'.task[u] # "absent" /\ target[u] \in Agents
             /\ target[u] \notin dropped' =>
                  /\ store'.task[u] \in Terminal \cup {"gone"}
                  /\ run'[u].at = "none" \/ run'[u].stop
  <2>1. u \in L /\ u \in TaskIds /\ Status(u) \in Unfinished
    BY <1>1, <1>5 DEF Live
  <2>2. store'.task[u] \in {"cancelled", "gone"}
    BY <1>3, <2>1
  <2>3. target[u] \in Agents
    BY <2>1 DEF TasksInv, Targeted
  <2> HIDE DEF L
  <2>4. target[u] \notin dropped => run'[u].at = "none" \/ run'[u].stop
    BY <1>4, <2>1, RunIsCurrent DEF TasksInv
  <2> QED
    BY <1>1, <2>2, <2>3, <2>4 DEF Terminal
<1>6. Manned' /\ Deleting'
  BY <1>1 DEF TasksInv, Manned, WorkerKeeps, Deleting
<1> HIDE DEF L
<1>7. /\ asked \subseteq asked' /\ asked' \subseteq TaskIds /\ dropped \subseteq dropped'
      /\ UNCHANGED <<target, queue, current>>
  BY <1>1, <1>2 DEF Typed
<1>8. /\ worker' \in [Workers -> Worker] /\ wreg' \in [Agents -> Workers \cup {Nobody}]
      /\ qreg' \in [Agents -> 0..MaxQueues] /\ deleter' \in [Deleters -> Deleter]
      /\ agent' \in [Agents -> Agent]
      /\ \A w \in Workers : worker'[w].at = worker[w].at /\ worker'[w].task = worker[w].task
      /\ \A a \in Agents : qreg'[a] <= qreg[a]
      /\ \A a \in Agents \ dropped' : agent'[a] = agent[a]
  BY <1>1, <1>2 DEF Typed
<1>9. kernel' = "running" => kernel = "running"
  BY <1>1
<1>10. \A u \in TaskIds : /\ run'[u].at = run[u].at
                          /\ run[u].stop => run'[u].stop
                          /\ run[u].at = "none" => run'[u] = run[u]
  BY <1>4
<1> QED
  BY <1>3, <1>4, <1>5, <1>6, <1>7, <1>8, <1>9, <1>10, CancelStep

\* What terminate_agent() leaves of the agent.
LEMMA Removed ==
    ASSUME Typed, NEW a \in Agents, NEW d \in Deleters, NEW s, LetGo(d, a, s)
    PROVE  /\ qreg' \in [Agents -> 0..MaxQueues] /\ \A b \in Agents : qreg'[b] <= qreg[b]
           /\ agent' \in [Agents -> Agent] /\ \A b \in Agents \ {a} : agent'[b] = agent[b]
           /\ deleter' \in [Deleters -> Deleter]
           /\ \A e \in Deleters : deleter'[e].at = "reap" => deleter'[e] = deleter[e]
<1>1. qreg' \in [Agents -> 0..MaxQueues] /\ \A b \in Agents : qreg'[b] <= qreg[b]
  <2>1. qreg' = [qreg EXCEPT ![a] = 0] /\ 0 \in 0..MaxQueues
    BY TasksAssumption DEF LetGo
  <2>2. \A b \in Agents : qreg[b] \in 0..MaxQueues
    BY DEF Typed
  <2> QED
    BY <2>1, <2>2, TasksAssumption DEF Typed
<1>2. agent' \in [Agents -> Agent] /\ \A b \in Agents \ {a} : agent'[b] = agent[b]
  <2>1. PICK g : g = [NoAgent EXCEPT !.status = "removed", !.paused = agent[a].paused]
    OBVIOUS
  <2>2. agent[a].paused \in BOOLEAN
    BY DEF Typed, Agent
  <2>3. PICK p \in BOOLEAN : p = agent[a].paused
    BY <2>2
  <2>4. g = [status |-> "removed", paused |-> p, context |-> {}]
    BY <2>1, <2>3 DEF NoAgent
  <2>5. g \in Agent
    BY <2>4 DEF Agent
  <2>6. agent' = [agent EXCEPT ![a] = g]
    BY <2>1 DEF LetGo
  <2> QED
    BY <2>5, <2>6 DEF Typed
<1>3. PICK e : e = [at |-> "done", agent |-> a, worker |-> Nobody]
  OBVIOUS
<1>4. e \in Deleter /\ e.at # "reap" /\ deleter' = [deleter EXCEPT ![d] = e]
  BY <1>3 DEF Deleter, LetGo
<1> QED
  BY <1>1, <1>2, <1>4 DEF Typed

LEMMA InvWorkerReaped ==
    ASSUME TasksInv, NEW d \in Deleters, WorkerReaped(d)
    PROVE  TasksInv' /\ Sticks
<1>1. PICK a : a = deleter[d].agent
  OBVIOUS
<1>2. /\ deleter[d].at = "reap" /\ LetGo(d, a, store)
      /\ UNCHANGED <<target, queue, worker, wreg, current, run, kernel, asked, dropped>>
  BY <1>1 DEF WorkerReaped, history
<1>3. a \in Agents /\ a \in dropped /\ Typed
  BY <1>1, <1>2 DEF TasksInv, Deleting
<1>4. Settles(store, store')
  BY <1>2, <1>3, UnregisterSettles DEF LetGo, Typed
<1>5. /\ qreg' \in [Agents -> 0..MaxQueues] /\ \A b \in Agents : qreg'[b] <= qreg[b]
      /\ agent' \in [Agents -> Agent] /\ \A b \in Agents \ {a} : agent'[b] = agent[b]
      /\ deleter' \in [Deleters -> Deleter]
      /\ \A e \in Deleters : deleter'[e].at = "reap" => deleter'[e] = deleter[e]
  BY <1>2, <1>3, Removed
<1>6. Deleting'
  BY <1>2, <1>5 DEF TasksInv, Deleting
<1>7. Manned'
  BY <1>2 DEF TasksInv, Manned, WorkerKeeps
<1>8. /\ asked \subseteq asked' /\ asked' \subseteq TaskIds /\ dropped \subseteq dropped'
      /\ asked' \ asked = {}
      /\ UNCHANGED <<target, queue, current>>
  BY <1>2, <1>3 DEF Typed
<1>9. /\ worker' \in [Workers -> Worker] /\ wreg' \in [Agents -> Workers \cup {Nobody}]
      /\ \A w \in Workers : worker'[w].at = worker[w].at /\ worker'[w].task = worker[w].task
      /\ run' \in [TaskIds -> Run]
      /\ \A t \in TaskIds : /\ run'[t].at = run[t].at
                            /\ run[t].stop => run'[t].stop
                            /\ run[t].at = "none" => run'[t] = run[t]
  BY <1>2, <1>3 DEF Typed
<1>10. \A b \in Agents \ dropped' : agent'[b] = agent[b]
  BY <1>2, <1>3, <1>5
<1>11. kernel' = "running" => kernel = "running"
  BY <1>2
<1>12. \A t \in asked' \ asked :
           /\ store'.task[t] # "absent" /\ target[t] \in Agents
           /\ target[t] \notin dropped' =>
                /\ store'.task[t] \in Terminal \cup {"gone"}
                /\ run'[t].at = "none" \/ run'[t].stop
  BY <1>8
<1> QED
  BY <1>4, <1>5, <1>6, <1>7, <1>8, <1>9, <1>10, <1>11, <1>12, CancelStep

\* The worker of the agent is told to stop and forgotten.
LEMMA WorkerDropped ==
    ASSUME Typed, Manned, NEW a \in Agents, NEW w \in Workers, wreg[a] = w,
           wreg' = [wreg EXCEPT ![a] = Nobody],
           worker' = IF WorkerDone(w) THEN worker ELSE [worker EXCEPT ![w].stop = TRUE],
           dropped' = dropped \cup {a},
           UNCHANGED <<target, queue, current>>
    PROVE  /\ worker' \in [Workers -> Worker]
           /\ \A v \in Workers : worker'[v].at = worker[v].at /\ worker'[v].task = worker[v].task
           /\ Manned'
<1>1. w # Nobody /\ (WorkerDone(w) <=> worker[w].at = "none")
  BY TasksAssumption DEF WorkerDone
<1>2. PICK k : k = [worker[w] EXCEPT !.stop = TRUE]
  OBVIOUS
<1>3. /\ k \in Worker /\ k.at = worker[w].at /\ k.agent = worker[w].agent
      /\ k.task = worker[w].task /\ k.q = worker[w].q /\ k.stop
  BY <1>2 DEF Typed, Worker
<1>4. /\ worker' \in [Workers -> Worker]
      /\ worker'[w] = IF worker[w].at = "none" THEN worker[w] ELSE k
      /\ \A v \in Workers \ {w} : worker'[v] = worker[v]
  <2>1. CASE worker[w].at = "none"
    BY <1>1, <2>1 DEF Typed
  <2>2. CASE worker[w].at # "none"
    <3>1. worker' = [worker EXCEPT ![w] = k]
      BY <1>1, <1>2, <2>2
    <3> QED
      BY <1>3, <2>2, <3>1 DEF Typed
  <2> QED
    BY <2>1, <2>2
<1>5. \A v \in Workers : worker'[v].at = worker[v].at /\ worker'[v].task = worker[v].task
  BY <1>3, <1>4
<1>6. /\ wreg'[a] = Nobody
      /\ \A b \in Agents \ {a} : wreg'[b] = wreg[b]
  BY DEF Typed
<1>7. ASSUME NEW v \in Workers PROVE WorkerKeeps(v)'
  <2> SUFFICES ASSUME worker[v].at # "none" PROVE WorkerKeeps(v)'
    BY <1>5 DEF WorkerKeeps
  <2>1. WorkerKeeps(v)
    BY DEF Manned
  <2>2. CASE v = w
    <3>1. worker[v].agent = a
      BY <1>1, <2>2 DEF Manned
    <3>2. worker'[v] = k
      BY <1>4, <2>2
    <3> QED
      BY <1>3, <2>1, <2>2, <3>1, <3>2 DEF WorkerKeeps
  <2>3. CASE v # w
    <3>1. worker'[v] = worker[v]
      BY <1>4, <2>3
    <3>2. ~worker[v].stop => worker[v].agent # a
      BY <2>1, <2>3 DEF WorkerKeeps
    <3>3. worker[v].agent \in Agents
      BY <2>1 DEF WorkerKeeps
    <3>4. ~worker[v].stop => wreg'[worker[v].agent] = v
      BY <1>6, <2>1, <3>2, <3>3 DEF WorkerKeeps
    <3>5. /\ dropped \subseteq dropped'
          /\ target' = target /\ queue' = queue /\ current' = current
      OBVIOUS
    <3> HIDE DEF Manned, Typed
    <3> QED
      BY <2>1, <3>1, <3>4, <3>5 DEF WorkerKeeps
  <2> QED
    BY <2>2, <2>3
<1>8. ASSUME NEW b \in Agents, wreg'[b] # Nobody, worker'[wreg'[b]].at # "none"
      PROVE  worker'[wreg'[b]].agent = b
  <2>1. b # a /\ wreg'[b] = wreg[b] /\ wreg[b] \in Workers
    BY <1>6, <1>8 DEF Typed
  <2>2. worker[wreg[b]].at # "none"
    BY <1>5, <1>8, <2>1
  <2>3. worker[wreg[b]].agent = b
    BY <1>8, <2>1, <2>2 DEF Manned
  <2> QED
    BY <1>3, <1>4, <2>1, <2>3
<1> QED
  BY <1>4, <1>5, <1>7, <1>8 DEF Manned

LEMMA InvDeleteAgent ==
    ASSUME TasksInv, NEW d \in Deleters, NEW a \in Agents, DeleteAgent(d, a)
    PROVE  TasksInv' /\ Sticks
<1> DEFINE ts == {t \in TaskIds : target[t] = a}
           L == Live(ts)
<1>1. PICK w : w = wreg[a]
  OBVIOUS
<1>2. /\ run' = StoppedCurrent(run, L) /\ asked' = asked \cup L
      /\ dropped' = dropped \cup {a}
      /\ UNCHANGED <<target, queue, current, kernel>>
  BY DEF DeleteAgent, RunnerCancels
<1>3. Typed /\ Manned /\ ts \in SUBSET TaskIds /\ L \in SUBSET TaskIds
  BY DEF TasksInv, Live
<1>4. \A t \in L : target[t] = a /\ Status(t) # "absent"
  BY DEF Live, Unfinished
<1>5. /\ Settles(store, CancelledAll(store, L))
      /\ \A t \in L : CancelledAll(store, L).task[t] \in {"cancelled", "gone"}
  <2>1. StoreOK(store)
    BY <1>3 DEF Typed
  <2> HIDE DEF ts
  <2> QED
    BY <1>3, <2>1, LiveCancelled
<1> HIDE DEF ts, L
<1>6. /\ run' \in [TaskIds -> Run]
      /\ \A t \in TaskIds : /\ run'[t].at = run[t].at
                            /\ run[t].stop => run'[t].stop
                            /\ run[t].at = "none" => run'[t] = run[t]
  <2>1. run \in [TaskIds -> Run]
    BY <1>3 DEF Typed
  <2> QED
    BY <1>2, <1>3, <2>1, StoppedRuns
<1>7. PICK s : s = CancelledAll(store, L)
  OBVIOUS
<1>8. /\ asked \subseteq asked' /\ asked' \subseteq TaskIds /\ dropped \subseteq dropped'
      /\ UNCHANGED <<target, queue, current>>
  BY <1>2, <1>3 DEF Typed
<1>9. kernel' = "running" => kernel = "running"
  BY <1>2
<1>10. CASE w = Nobody
  <2>1. LetGo(d, a, s) /\ UNCHANGED <<worker, wreg>>
    BY <1>1, <1>7, <1>10, TasksAssumption DEF DeleteAgent, L, ts, Typed
  <2>2. Settles(store, s) /\ Settles(s, store')
    BY <1>5, <1>7, <2>1, UnregisterSettles DEF LetGo, Settles
  <2>3. Settles(store, store')
    BY <2>2, SettlesMore
  <2>4. /\ qreg' \in [Agents -> 0..MaxQueues] /\ \A b \in Agents : qreg'[b] <= qreg[b]
        /\ agent' \in [Agents -> Agent] /\ \A b \in Agents \ {a} : agent'[b] = agent[b]
        /\ deleter' \in [Deleters -> Deleter]
        /\ \A e \in Deleters : deleter'[e].at = "reap" => deleter'[e] = deleter[e]
    BY <1>3, <2>1, Removed
  <2>5. Deleting'
    BY <1>2, <2>4 DEF TasksInv, Deleting
  <2>6. Manned'
    BY <1>2, <2>1 DEF TasksInv, Manned, WorkerKeeps
  <2>7. \A t \in asked' \ asked :
            /\ store'.task[t] # "absent" /\ target[t] \in Agents
            /\ target[t] \notin dropped' =>
                 /\ store'.task[t] \in Terminal \cup {"gone"}
                 /\ run'[t].at = "none" \/ run'[t].stop
    <3> TAKE t \in asked' \ asked
    <3>1. t \in L /\ t \in TaskIds /\ target[t] = a /\ target[t] \in dropped'
      BY <1>2, <1>3, <1>4
    <3>2. store'.task[t] # "absent"
      BY <1>4, <2>3, <3>1 DEF Settles, Status
    <3> QED
      BY <3>1, <3>2
  <2>8. /\ worker' \in [Workers -> Worker] /\ wreg' \in [Agents -> Workers \cup {Nobody}]
        /\ \A v \in Workers : worker'[v].at = worker[v].at /\ worker'[v].task = worker[v].task
    BY <1>3, <2>1 DEF Typed
  <2>9. \A b \in Agents \ dropped' : agent'[b] = agent[b]
    BY <1>2, <2>4
  <2> QED
    BY <1>6, <1>8, <1>9, <2>3, <2>4, <2>5, <2>6, <2>7, <2>8, <2>9, CancelStep
<1>11. CASE w # Nobody
  <2>1. /\ store' = s
        /\ wreg' = [wreg EXCEPT ![a] = Nobody]
        /\ worker' = IF WorkerDone(w) THEN worker ELSE [worker EXCEPT ![w].stop = TRUE]
        /\ deleter' = [deleter EXCEPT ![d] = [at |-> "reap", agent |-> a, worker |-> w]]
        /\ UNCHANGED <<qreg, agent>>
    BY <1>1, <1>7, <1>11 DEF DeleteAgent, RunnerCancels, L, ts
  <2>2. w \in Workers
    BY <1>1, <1>3, <1>11 DEF Typed
  <2>3. /\ worker' \in [Workers -> Worker]
        /\ \A v \in Workers : worker'[v].at = worker[v].at /\ worker'[v].task = worker[v].task
        /\ Manned'
    BY <1>1, <1>2, <1>3, <2>1, <2>2, WorkerDropped
  <2>4. Settles(store, store')
    BY <1>5, <1>7, <2>1
  <2>5. PICK e : e = [at |-> "reap", agent |-> a, worker |-> w]
    OBVIOUS
  <2>6. e \in Deleter /\ e.agent = a /\ deleter' = [deleter EXCEPT ![d] = e]
    BY <2>1, <2>2, <2>5 DEF Deleter
  <2>7. deleter' \in [Deleters -> Deleter] /\ Deleting'
    BY <1>2, <2>6 DEF TasksInv, Typed, Deleting
  <2>8. \A t \in asked' \ asked :
            /\ store'.task[t] # "absent" /\ target[t] \in Agents
            /\ target[t] \notin dropped' =>
                 /\ store'.task[t] \in Terminal \cup {"gone"}
                 /\ run'[t].at = "none" \/ run'[t].stop
    BY <1>2, <1>4, <1>5, <1>7, <2>1
  <2>9. /\ wreg' \in [Agents -> Workers \cup {Nobody}]
        /\ qreg' \in [Agents -> 0..MaxQueues] /\ agent' \in [Agents -> Agent]
        /\ \A b \in Agents \ dropped' : agent'[b] = agent[b]
    BY <1>3, <2>1 DEF Typed
  <2>10. \A b \in Agents : qreg'[b] <= qreg[b]
    BY <1>3, <2>1 DEF Typed
  <2> QED
    BY <1>6, <1>8, <1>9, <2>3, <2>4, <2>7, <2>8, <2>9, <2>10, CancelStep
<1> QED
  BY <1>10, <1>11

\* The pending tasks, one priority after the other.
LEMMA KernelSettles ==
    ASSUME StoreOK(store)
    PROVE  Settles(store, CancelledAll(CancelledAll(CancelledAll(CancelledAll(store,
                    PendingAt(3)), PendingAt(2)), PendingAt(1)), PendingAt(0)))
<1>1. PICK s3, s2, s1, s0 : /\ s3 = CancelledAll(store, PendingAt(3))
                            /\ s2 = CancelledAll(s3, PendingAt(2))
                            /\ s1 = CancelledAll(s2, PendingAt(1))
                            /\ s0 = CancelledAll(s1, PendingAt(0))
  OBVIOUS
<1>2. \A n \in 0..3 : /\ PendingAt(n) \subseteq TaskIds
                      /\ \A t \in PendingAt(n) : Status(t) = "pending" /\ Priority[t] = n
  BY DEF PendingAt
<1>3. Cancels(store, s3, PendingAt(3))
  BY <1>1, CancelledAllCancels
<1>4. Cancels(s3, s2, PendingAt(2))
  BY <1>1, <1>3, CancelledAllCancels DEF Cancels
<1>5. Cancels(s2, s1, PendingAt(1))
  BY <1>1, <1>4, CancelledAllCancels DEF Cancels
<1>6. Cancels(s1, s0, PendingAt(0))
  BY <1>1, <1>5, CancelledAllCancels DEF Cancels
<1>7. Cancels(store, s0, PendingAt(3) \cup PendingAt(2) \cup PendingAt(1) \cup PendingAt(0))
  <2>1. Cancels(store, s2, PendingAt(3) \cup PendingAt(2))
    BY <1>3, <1>4, CancelsMore
  <2>2. Cancels(store, s1, (PendingAt(3) \cup PendingAt(2)) \cup PendingAt(1))
    BY <1>5, <2>1, CancelsMore
  <2> QED
    BY <1>6, <2>2, CancelsMore
<1>8. \A t \in PendingAt(3) \cup PendingAt(2) \cup PendingAt(1) \cup PendingAt(0) :
          store.task[t] \in Unfinished \cup {"gone"}
  BY <1>2 DEF Status, Unfinished
<1> QED
  BY <1>1, <1>7, <1>8, CancelsSettle

LEMMA InvKernel ==
    ASSUME TasksInv, StopKernel \/ KernelStopped
    PROVE  TasksInv' /\ Sticks
<1>1. /\ kernel' # "running"
      /\ UNCHANGED <<target, queue, qreg, worker, wreg, current, run, agent, deleter,
                     asked, dropped>>
  BY DEF StopKernel, KernelStopped, runner, history
<1>2. Typed
  BY DEF TasksInv
<1>3. Settles(store, store')
  <2>1. StoreOK(store)
    BY <1>2 DEF Typed
  <2>2. CASE StopKernel
    BY <2>1, <2>2, KernelSettles DEF StopKernel
  <2>3. CASE KernelStopped
    BY <2>1, <2>3 DEF KernelStopped, Settles
  <2> QED
    BY <2>2, <2>3
<1>4. Manned' /\ Deleting'
  BY <1>1 DEF TasksInv, Manned, WorkerKeeps, Deleting
<1>5. /\ asked \subseteq asked' /\ asked' \subseteq TaskIds /\ dropped \subseteq dropped'
      /\ asked' \ asked = {}
      /\ UNCHANGED <<target, queue, current>>
  BY <1>1, <1>2 DEF Typed
<1>6. /\ worker' \in [Workers -> Worker] /\ wreg' \in [Agents -> Workers \cup {Nobody}]
      /\ qreg' \in [Agents -> 0..MaxQueues] /\ deleter' \in [Deleters -> Deleter]
      /\ agent' \in [Agents -> Agent] /\ run' \in [TaskIds -> Run]
      /\ \A w \in Workers : worker'[w].at = worker[w].at /\ worker'[w].task = worker[w].task
      /\ \A a \in Agents : qreg'[a] <= qreg[a]
      /\ \A a \in Agents \ dropped' : agent'[a] = agent[a]
      /\ \A t \in TaskIds : /\ run'[t].at = run[t].at
                            /\ run[t].stop => run'[t].stop
                            /\ run[t].at = "none" => run'[t] = run[t]
  BY <1>1, <1>2 DEF Typed
<1>7. \A t \in asked' \ asked :
          /\ store'.task[t] # "absent" /\ target[t] \in Agents
          /\ target[t] \notin dropped' =>
               /\ store'.task[t] \in Terminal \cup {"gone"}
               /\ run'[t].at = "none" \/ run'[t].stop
  BY <1>5
<1> QED
  BY <1>1, <1>3, <1>4, <1>5, <1>6, <1>7, CancelStep

-----------------------------------------------------------------------------
\* The creation of a task.

LEMMA AssignedOK ==
    ASSUME StoreOK(store), NEW t \in TaskIds
    PROVE  /\ StoreOK(Assigned(store, t))
           /\ Assigned(store, t).task[t] = "pending"
           /\ \A u \in TaskIds \ {t} : Assigned(store, t).task[u] = store.task[u]
<1> DEFINE T == [store.task EXCEPT ![t] = "pending"]
           A == store.active \cup {t}
           s1 == [store EXCEPT !.task[t] = "pending"]
           s2 == Assigned(store, t)
<1>1. s1 = [task |-> T, finished |-> store.finished, active |-> store.active]
  BY DEF StoreOK
<1>2. s2 = [s1 EXCEPT !.active = A]
  BY DEF StoreOK, Assigned
<1>3. /\ T \in [TaskIds -> Statuses] /\ T[t] = "pending"
      /\ \A u \in TaskIds \ {t} : T[u] = store.task[u]
  BY DEF StoreOK, Statuses, Unfinished
<1>4. A \subseteq TaskIds /\ \A u \in A : T[u] \in Unfinished \cup {"gone"}
  BY <1>3 DEF StoreOK, Unfinished
<1> HIDE DEF T, A, s1, s2
<1>5. s2 = [task |-> T, finished |-> store.finished, active |-> A]
  BY <1>1, <1>2
<1>6. /\ s2 = [task |-> s2.task, finished |-> s2.finished, active |-> s2.active]
      /\ s2.task = T /\ s2.active = A
  BY <1>5
<1>7. StoreOK(s2)
  BY <1>3, <1>4, <1>6 DEF StoreOK
<1> QED
  BY <1>3, <1>6, <1>7 DEF s2

LEMMA SubmitQueues ==
    ASSUME Typed, QueuesHold, NEW t \in TaskIds, NEW a \in Agents, Submit(t, a),
           target' = [target EXCEPT ![t] = a], target[t] = Nobody
    PROVE  /\ QueuesHold' /\ qreg' \in [Agents -> 0..MaxQueues]
           /\ \A b \in Agents : Len(queue'[b]) \in Nat /\ Len(queue'[b]) >= Len(queue[b])
<1>1. /\ t \in TasksOf(a)'
      /\ \A b \in Agents : TasksOf(b) \subseteq TasksOf(b)'
  BY TasksAssumption DEF TasksOf, Typed
<1>2. PICK X : X = TasksOf(a)'
  OBVIOUS
<1>3. /\ queue[a] \in Seq(Seq(X)) /\ qreg[a] <= Len(queue[a]) /\ qreg[a] \in 0..MaxQueues
      /\ t \in X /\ Len(queue[a]) \in Nat
  <2>1. queue[a] \in Seq(Seq(TasksOf(a))) /\ TasksOf(a) \subseteq X
    BY <1>1, <1>2 DEF QueuesHold
  <2> QED
    BY <1>1, <1>2, <2>1, LargerQueues DEF QueuesHold, Typed
<1>4. PICK n, Q : /\ n <= MaxQueues /\ qreg' = [qreg EXCEPT ![a] = n]
                  /\ queue' = [queue EXCEPT ![a] = Q]
                  /\ \/ /\ qreg[a] = 0 /\ n = Len(queue[a]) + 1
                        /\ Q = Append(queue[a], <<t>>)
                     \/ /\ qreg[a] # 0 /\ n = qreg[a]
                        /\ Q = [queue[a] EXCEPT ![n] = Append(queue[a][n], t)]
  <2>1. CASE qreg[a] = 0
    BY <2>1 DEF Submit
  <2>2. CASE qreg[a] # 0
    <3>1. PICK n : n = qreg[a]
      OBVIOUS
    <3>2. queue' = [queue EXCEPT ![a] = [queue[a] EXCEPT ![n] = Append(queue[a][n], t)]]
      BY <2>2, <3>1 DEF Submit
    <3>3. n <= MaxQueues /\ qreg' = [qreg EXCEPT ![a] = n]
      BY <2>2, <3>1 DEF Submit
    <3> QED
      BY <2>2, <3>1, <3>2, <3>3
  <2> QED
    BY <2>1, <2>2
<1>5. Q \in Seq(Seq(X)) /\ Len(Q) >= Len(queue[a]) /\ n \in 0..MaxQueues /\ n <= Len(Q)
  <2>1. CASE qreg[a] = 0
    <3>1. <<t>> \in Seq(X) /\ n = Len(queue[a]) + 1 /\ Q = Append(queue[a], <<t>>)
      BY <1>3, <1>4, <2>1
    <3> QED
      BY <1>3, <1>4, <3>1, TasksAssumption
  <2>2. CASE qreg[a] # 0
    <3>1. n \in 1..Len(queue[a]) /\ n = qreg[a]
      BY <1>3, <1>4, <2>2
    <3>2. PICK r : r = Append(queue[a][n], t)
      OBVIOUS
    <3>3. queue[a][n] \in Seq(X)
      BY <1>3, <3>1
    <3>4. r \in Seq(X)
      BY <1>3, <3>2, <3>3
    <3>5. Q = [queue[a] EXCEPT ![n] = r]
      BY <1>4, <2>2, <3>2
    <3>6. Q \in Seq(Seq(X)) /\ Len(Q) = Len(queue[a])
      BY <1>3, <3>1, <3>4, <3>5
    <3> QED
      BY <1>3, <3>1, <3>6
  <2> QED
    BY <2>1, <2>2
<1>6. /\ queue' = [b \in Agents |-> queue'[b]]
      /\ queue'[a] = Q /\ \A b \in Agents \ {a} : queue'[b] = queue[b]
  BY <1>4 DEF QueuesHold
<1>7. /\ qreg' \in [Agents -> 0..MaxQueues]
      /\ qreg'[a] = n /\ \A b \in Agents \ {a} : qreg'[b] = qreg[b]
  BY <1>4, <1>5 DEF Typed
<1>8. ASSUME NEW b \in Agents
      PROVE  /\ queue'[b] \in Seq(Seq(TasksOf(b)')) /\ qreg'[b] <= Len(queue'[b])
             /\ Len(queue'[b]) \in Nat /\ Len(queue'[b]) >= Len(queue[b])
  <2>1. CASE b = a
    BY <1>2, <1>5, <1>6, <1>7, <2>1
  <2>2. CASE b # a
    <3>1. queue[b] \in Seq(Seq(TasksOf(b))) /\ qreg[b] <= Len(queue[b])
      BY DEF QueuesHold
    <3>2. TasksOf(b) \subseteq TasksOf(b)'
      BY <1>1
    <3>3. PICK Y : Y = TasksOf(b)'
      OBVIOUS
    <3>4. queue[b] \in Seq(Seq(Y))
      BY <3>1, <3>2, <3>3, LargerQueues
    <3> QED
      BY <1>6, <1>7, <2>2, <3>1, <3>3, <3>4
  <2> QED
    BY <2>1, <2>2
<1> QED
  BY <1>6, <1>7, <1>8 DEF QueuesHold

LEMMA SubmitWorkers ==
    ASSUME Typed, Targeted, Manned, NEW t \in TaskIds, NEW a \in Agents, Submit(t, a),
           target' = [target EXCEPT ![t] = a], target[t] = Nobody, dropped' = dropped,
           \A b \in Agents : Len(queue[b]) \in Nat /\ Len(queue'[b]) \in Nat
                             /\ Len(queue'[b]) >= Len(queue[b])
    PROVE  /\ Manned' /\ worker' \in [Workers -> Worker]
           /\ wreg' \in [Agents -> Workers \cup {Nobody}] /\ current' = current
           /\ \A v \in Workers : worker[v].at # "none" => worker'[v] = worker[v]
<1>1. \A u \in TaskIds : target[u] \in Agents => target'[u] = target[u]
  BY TasksAssumption DEF Typed
<1>2. current' = current
  BY DEF Submit
<1>3. ASSUME NEW v \in Workers, worker[v].at # "none", worker'[v] = worker[v],
             wreg'[worker[v].agent] = wreg[worker[v].agent] \/ worker[v].stop
      PROVE  WorkerKeeps(v)'
  <2>1. WorkerKeeps(v) /\ worker[v] \in Worker
    BY DEF Manned, Typed
  <2>2. worker[v].agent \in Agents
    BY <1>3, <2>1 DEF WorkerKeeps
  <2>3. worker[v].at \in {"get", "wait"} => worker[v].q \in 1..Len(queue'[worker[v].agent])
    <3> SUFFICES ASSUME worker[v].at \in {"get", "wait"}
                 PROVE  worker[v].q \in 1..Len(queue'[worker[v].agent])
      OBVIOUS
    <3>1. worker[v].q \in 1..Len(queue[worker[v].agent])
      BY <2>1 DEF WorkerKeeps
    <3>2. /\ Len(queue[worker[v].agent]) \in Nat /\ Len(queue'[worker[v].agent]) \in Nat
          /\ Len(queue'[worker[v].agent]) >= Len(queue[worker[v].agent])
      BY <2>2
    <3> QED
      BY <3>1, <3>2
  <2>4. worker[v].at \in {"wait", "reap"} =>
            worker[v].task \in TaskIds /\ target'[worker[v].task] = worker[v].agent
    BY <1>1, <2>1, <2>2 DEF WorkerKeeps
  <2> HIDE DEF Manned, Typed
  <2> QED
    BY <1>2, <1>3, <2>1, <2>2, <2>3, <2>4 DEF WorkerKeeps
<1>4. CASE WorkerDone(wreg[a])
  <2>1. PICK w \in Workers :
            /\ worker[w].at = "none" /\ \A b \in Agents \ {a} : wreg[b] # w
            /\ worker' = [worker EXCEPT ![w] = [NoWorker EXCEPT !.at = "new", !.agent = a]]
            /\ wreg' = [wreg EXCEPT ![a] = w]
    BY <1>4 DEF Submit
  <2>2. PICK k : k = [NoWorker EXCEPT !.at = "new", !.agent = a]
    OBVIOUS
  <2>3. k = [at |-> "new", agent |-> a, q |-> 0, task |-> Nobody, stop |-> FALSE]
    BY <2>2 DEF NoWorker
  <2>4. k \in Worker /\ k.at = "new" /\ k.agent = a /\ ~k.stop
    BY <2>3, TasksAssumption DEF Worker
  <2>5. /\ worker' \in [Workers -> Worker] /\ worker'[w] = k
        /\ \A v \in Workers \ {w} : worker'[v] = worker[v]
    BY <2>1, <2>2, <2>4 DEF Typed
  <2>6. /\ wreg' \in [Agents -> Workers \cup {Nobody}] /\ wreg'[a] = w
        /\ \A b \in Agents \ {a} : wreg'[b] = wreg[b]
    BY <2>1 DEF Typed
  <2>7. ASSUME NEW v \in Workers PROVE WorkerKeeps(v)'
    <3>1. CASE v = w
      BY <2>4, <2>5, <2>6, <3>1 DEF WorkerKeeps
    <3>2. CASE v # w
      <4>1. worker'[v] = worker[v]
        BY <2>5, <3>2
      <4>2. CASE worker[v].at = "none"
        BY <4>1, <4>2 DEF WorkerKeeps
      <4>3. CASE worker[v].at # "none"
        <5>1. worker[v].agent \in Agents /\ (~worker[v].stop => wreg[worker[v].agent] = v)
          BY <4>3 DEF Manned, WorkerKeeps
        <5>2. v # Nobody
          BY TasksAssumption
        <5>3. worker[v].stop \/ worker[v].agent # a
          BY <1>4, <4>3, <5>1, <5>2 DEF WorkerDone
        <5>4. wreg'[worker[v].agent] = wreg[worker[v].agent] \/ worker[v].stop
          BY <2>6, <5>1, <5>3
        <5> QED
          BY <1>3, <4>1, <4>3, <5>4
      <4> QED
        BY <4>2, <4>3
    <3> QED
      BY <3>1, <3>2
  <2>8. ASSUME NEW b \in Agents, wreg'[b] # Nobody, worker'[wreg'[b]].at # "none"
        PROVE  worker'[wreg'[b]].agent = b
    <3>1. CASE b = a
      BY <2>4, <2>5, <2>6, <3>1
    <3>2. CASE b # a
      <4>1. wreg'[b] = wreg[b] /\ wreg[b] # w /\ wreg[b] \in Workers
        BY <2>1, <2>6, <2>8, <3>2 DEF Typed
      <4> QED
        BY <2>5, <2>8, <4>1 DEF Manned
    <3> QED
      BY <3>1, <3>2
  <2> QED
    BY <1>2, <2>1, <2>5, <2>6, <2>7, <2>8 DEF Manned
<1>5. CASE ~WorkerDone(wreg[a])
  <2>1. worker' = worker /\ wreg' = wreg
    BY <1>5 DEF Submit
  <2>2. ASSUME NEW v \in Workers PROVE WorkerKeeps(v)'
    <3>1. CASE worker[v].at = "none"
      BY <2>1, <3>1 DEF WorkerKeeps
    <3>2. CASE worker[v].at # "none"
      BY <1>3, <2>1, <3>2
    <3> QED
      BY <3>1, <3>2
  <2> QED
    BY <1>2, <2>1, <2>2 DEF Typed, Manned
<1> QED
  BY <1>4, <1>5

LEMMA InvCreateTask ==
    ASSUME TasksInv, NEW a \in Agents, CreateTask(a)
    PROVE  TasksInv' /\ Sticks
<1>1. PICK t : t = NextTask
  OBVIOUS
<1>2. t \in TaskIds /\ Status(t) = "absent"
  <2>1. \E u \in TaskIds : Status(u) = "absent"
    BY DEF CreateTask
  <2> QED
    BY <1>1, <2>1, NextTaskIsNew
<1>3. /\ store' = Assigned(store, t) /\ target' = [target EXCEPT ![t] = a]
      /\ Submit(t, a)
      /\ UNCHANGED <<run, agent, deleter, kernel, asked, dropped>>
  BY <1>1 DEF CreateTask, history
<1>4. Typed /\ QueuesHold /\ Targeted /\ Manned /\ target[t] = Nobody
  BY <1>2 DEF TasksInv, Targeted
<1>5. Nobody \notin Agents
  BY TasksAssumption
<1>6. /\ StoreOK(store') /\ store'.task[t] = "pending"
      /\ \A u \in TaskIds \ {t} : store'.task[u] = store.task[u]
  <2>1. StoreOK(store)
    BY <1>4 DEF Typed
  <2> QED
    BY <1>2, <1>3, <2>1, AssignedOK
<1>7. /\ target' \in [TaskIds -> Agents \cup {Nobody}] /\ target'[t] = a
      /\ \A u \in TaskIds \ {t} : target'[u] = target[u]
  BY <1>2, <1>3, <1>4 DEF Typed
<1>8. /\ QueuesHold' /\ qreg' \in [Agents -> 0..MaxQueues]
      /\ \A b \in Agents : Len(queue'[b]) \in Nat /\ Len(queue'[b]) >= Len(queue[b])
  BY <1>2, <1>3, <1>4, SubmitQueues
<1>9. /\ Manned' /\ worker' \in [Workers -> Worker]
      /\ wreg' \in [Agents -> Workers \cup {Nobody}] /\ current' = current
      /\ \A v \in Workers : worker[v].at # "none" => worker'[v] = worker[v]
  <2>1. \A b \in Agents : Len(queue[b]) \in Nat
    BY <1>4 DEF QueuesHold
  <2>2. \A b \in Agents : Len(queue[b]) \in Nat /\ Len(queue'[b]) \in Nat
                          /\ Len(queue'[b]) >= Len(queue[b])
    BY <1>8, <2>1
  <2>3. dropped' = dropped
    BY <1>3
  <2> QED
    BY <1>2, <1>3, <1>4, <2>2, <2>3, SubmitWorkers
<1>10. Typed'
  BY <1>3, <1>4, <1>6, <1>7, <1>8, <1>9 DEF Typed
<1>11. Targeted'
  <2> SUFFICES ASSUME NEW u \in TaskIds
               PROVE  /\ store'.task[u] = "absent" => target'[u] = Nobody
                      /\ store'.task[u] \in Unfinished => target'[u] \in Agents
    BY DEF Targeted, Status
  <2>1. CASE u = t
    BY <1>6, <1>7, <2>1
  <2>2. CASE u # t
    BY <1>4, <1>6, <1>7, <2>2 DEF Targeted, Status
  <2> QED
    BY <2>1, <2>2
<1>12. Awaited'
  <2> SUFFICES ASSUME NEW u \in TaskIds, run[u].at # "none"
               PROVE  \E v \in Workers : worker'[v].at \in {"wait", "reap"} /\ worker'[v].task = u
    BY <1>3 DEF TasksInv, Awaited
  <2>1. PICK v \in Workers : worker[v].at \in {"wait", "reap"} /\ worker[v].task = u
    BY DEF TasksInv, Awaited
  <2>2. worker'[v] = worker[v]
    BY <1>9, <2>1
  <2> QED
    BY <2>1, <2>2
<1>13. \A u \in asked : u # t /\ u \in TaskIds
  BY <1>2 DEF TasksInv, Typed, AskedOver
<1>14. AskedOver' /\ Sticks
  BY <1>3, <1>6, <1>7, <1>13 DEF TasksInv, AskedOver, Sticks, Status
<1>15. Deleting'
  BY <1>3 DEF TasksInv, Deleting
<1>16. PromptKept'
  <2> SUFFICES ASSUME NEW u \in TaskIds, run[u].at = "call", kernel = "running",
                      target'[u] \notin dropped
               PROVE  u \in agent[target'[u]].context
    BY <1>3 DEF PromptKept
  <2>1. u # t
    BY <1>2, <1>4, <1>5, RunHasAgent DEF TasksInv
  <2>2. target'[u] = target[u]
    BY <1>7, <2>1
  <2> QED
    BY <2>2 DEF TasksInv, PromptKept
<1> QED
  BY <1>8, <1>9, <1>10, <1>11, <1>12, <1>14, <1>15, <1>16 DEF TasksInv

-----------------------------------------------------------------------------
LEMMA InvUnchanged ==
    ASSUME TasksInv, UNCHANGED taskVars
    PROVE  TasksInv' /\ Sticks
<1>1. UNCHANGED <<store, target, queue, qreg, worker, wreg, current, run, agent,
                  deleter, kernel, asked, dropped>>
  BY DEF taskVars
<1>2. Typed' /\ Targeted' /\ QueuesHold'
  BY <1>1 DEF TasksInv, Typed, Targeted, Status, QueuesHold, TasksOf
<1>3. Manned' /\ Awaited' /\ AskedOver'
  BY <1>1 DEF TasksInv, Manned, WorkerKeeps, Awaited, AskedOver, Status
<1>4. Deleting' /\ PromptKept' /\ Sticks
  BY <1>1 DEF TasksInv, Deleting, PromptKept, Sticks, Status
<1> QED
  BY <1>2, <1>3, <1>4 DEF TasksInv

LEMMA InvNext ==
    ASSUME TasksInv, [TasksNext]_taskVars
    PROVE  TasksInv' /\ Sticks
<1>1. CASE UNCHANGED taskVars
  BY <1>1, InvUnchanged
<1>2. CASE TasksNext
  <2>1. ASSUME NEW w \in Workers, WorkerBegins(w) PROVE TasksInv' /\ Sticks
    BY <2>1, InvWorkerBegins
  <2>2. ASSUME NEW w \in Workers, WorkerTakes(w) PROVE TasksInv' /\ Sticks
    BY <2>2, InvWorkerTakes
  <2>3. ASSUME NEW w \in Workers, WorkerStops(w) PROVE TasksInv' /\ Sticks
    BY <2>3, InvWorkerStops
  <2>4. ASSUME NEW w \in Workers, WorkerReaps(w) PROVE TasksInv' /\ Sticks
    BY <2>4, InvWorkerReaps
  <2>5. ASSUME NEW t \in TaskIds, RunBegins(t) PROVE TasksInv' /\ Sticks
    BY <2>5, InvRunBegins
  <2>6. ASSUME NEW t \in TaskIds, RunAsks(t) PROVE TasksInv' /\ Sticks
    BY <2>6, InvRunAsks
  <2>7. ASSUME NEW t \in TaskIds, RunCompletes(t) \/ RunErrs(t) \/ RunStops(t)
        PROVE  TasksInv' /\ Sticks
    BY <2>7, InvRunEnds
  <2>8. ASSUME NEW t \in TaskIds, CancelTask(t) PROVE TasksInv' /\ Sticks
    BY <2>8, InvCancelTask
  <2>9. ASSUME NEW a \in Agents,
               SpawnAgent(a) \/ PauseAgent(a) \/ ResumeAgent(a) \/ HealthCheck(a)
        PROVE  TasksInv' /\ Sticks
    BY <2>9, InvAgents
  <2>10. ASSUME NEW a \in Agents, CreateTask(a) PROVE TasksInv' /\ Sticks
    BY <2>10, InvCreateTask
  <2>11. ASSUME NEW d \in Deleters, NEW a \in Agents, DeleteAgent(d, a)
         PROVE  TasksInv' /\ Sticks
    BY <2>11, InvDeleteAgent
  <2>12. ASSUME NEW d \in Deleters, WorkerReaped(d) PROVE TasksInv' /\ Sticks
    BY <2>12, InvWorkerReaped
  <2>13. CASE StopKernel \/ KernelStopped
    BY <2>13, InvKernel
  <2> HIDE DEF TasksInv, Sticks
  <2> QED
    BY <1>2, <2>1, <2>2, <2>3, <2>4, <2>5, <2>6, <2>7, <2>8, <2>9, <2>10, <2>11,
       <2>12, <2>13 DEF TasksNext
<1> QED
  BY <1>1, <1>2

\* Whatever is submitted, cancelled, dropped or shut down, and in whatever order
\* the coroutines run: no two runs of an agent execute unless one has been told
\* to stop, and while the kernel runs the task that awaits the model has its
\* prompt in the context of its agent, unless the agent is being terminated.
THEOREM OneConversationAlways == TasksSpec => []OneConversation
<1>1. TasksInv => OneConversation
  BY InvOneAtATime DEF TasksInv, OneConversation
<1> QED
  BY <1>1, InvInit, InvNext, PTL DEF TasksSpec

\* A task that its caller has cancelled through the runner never changes again,
\* but for being pruned, as long as nobody terminates its agent.
THEOREM CancelSticksAlways == TasksSpec => CancelSticks
<1> DEFINE Stick == \A t \in asked : \/ Status(t)' \in {Status(t), "gone"}
                                     \/ target[t] \in dropped
<1>1. TasksInv /\ [TasksNext]_taskVars => [Stick]_taskVars
  BY InvNext DEF Sticks
<1> HIDE DEF Stick
<1>2. TasksSpec => [][Stick]_taskVars
  BY <1>1, InvInit, InvNext, PTL DEF TasksSpec
<1> QED
  BY <1>2 DEF CancelSticks, Stick

-----------------------------------------------------------------------------
(***************************************************************************)
(* The engine closes in quiet, for any number of requests, background      *)
(* tasks and shutdowns in any mode.                                        *)
(*                                                                         *)
(* The argument.  Quiet is reached in two levels, each of which stays once *)
(* it is reached: no ordinary request is served nor can come in (level 1), *)
(* and no agent task is running (2: only a request in flight starts one).  *)
(* The stages have ranks: a stage of rank k needs level k and, when it is  *)
(* done without giving up, has reached level k + 1; and no branch skips a  *)
(* rank.  A closer that drops the tasks one by one has what is still       *)
(* running on its list, since none is started meanwhile.  And a task that  *)
(* was cancelled is waited for by the closer that popped its worker, which *)
(* leaves its stage only when the task has ended.  The engine is closed by *)
(* a stage of the last rank.                                               *)
(***************************************************************************)

Stages == {"idle", "tasks", "drop", "agents", "flush", "hooks", "kernel", "db"}

Rank(stage) == CASE stage = "idle" -> 0
                 [] stage \in {"tasks", "drop"} -> 1
                 [] OTHER -> 2

Shut == ~accepting \/ proc # "up"

Level(k) ==
    /\ k >= 1 => Shut /\ \A r \in PlainReqs : visit[r] \notin {"in", "posted"}
    /\ k >= 2 => \A j \in Jobs : bg[j] # "running"

\* A branch that does not skip a rank, nor is anywhere else between two workers.
Follows(s, t) == Rank(t) <= Rank(s) + 1 /\ t # "drop"
Stepwise(b) == \A i \in 1..(Len(b) - 1) : Follows(b[i], b[i + 1])

Stretch == {b \in Seq(Stages) : b # << >> /\ Stepwise(b)}

Work == [at: {"none", "new", "work", "over"}, mode: Modes \cup {"none", "lifespan"},
         todo: SUBSET Stretch, left: SUBSET Jobs, reaps: SUBSET Jobs]

BgStates == {"none", "running", "stopping", "done"}

ShutdownTypes ==
    /\ accepting \in BOOLEAN /\ dbOpen \in BOOLEAN /\ hurried \in BOOLEAN
    /\ agentsUp \in BOOLEAN /\ kernelUp \in BOOLEAN
    /\ proc \in {"up", "closing", "gone"}
    /\ visit \in [Reqs -> {"out", "in", "posted", "done"}]
    /\ bg \in [Jobs -> BgStates]
    /\ closer \in [Closers -> Work]

\* What closer w has reached.
WorkOK(w) ==
    /\ w.at = "new" => w.mode \in Modes
    /\ w.at = "work" => Shut
    /\ w.at = "work" /\ ~hurried =>
          \A b \in w.todo : /\ Level(Rank(b[1]))
                            /\ b[1] = "drop" => \A j \in Jobs : bg[j] = "running" => j \in w.left
    /\ w.reaps # {} => w.at = "work" /\ \E b \in w.todo : b[1] = "drop"
    /\ w.at # "work" => w.todo = {}

\* Every cancelled task is waited for.
Reaped ==
    ~hurried => \A j \in Jobs : bg[j] = "stopping"
                => \E c \in Closers : closer[c].at = "work" /\ j \in closer[c].reaps

\* The inductive invariant.
ShutdownInv ==
    /\ ShutdownTypes
    /\ \A c \in Closers : WorkOK(closer[c])
    /\ Reaped
    /\ ~dbOpen /\ ~hurried => Level(2)

-----------------------------------------------------------------------------
LEMMA Ranks ==
    /\ \A s \in Stages : Rank(s) \in 0..2
    /\ Rank("idle") = 0 /\ Rank("tasks") = 1 /\ Rank("drop") = 1 /\ Rank("db") = 2
    /\ \A s \in Stages : /\ Rank(s) = 0 => s = "idle"
                         /\ Rank(s) = 1 => s \in Stopping
  BY DEF Rank, Stages, Stopping

\* The branches of every mode are stretches; only a shutdown from a request
\* begins with the wait for the requests, and only a forced one with a later
\* rank than the tasks.
LEMMA BranchesOK ==
    /\ \A m \in Modes \cup {"lifespan"} : Branches(m) \subseteq Stretch
    /\ \A m \in {"graceful", "immediate"} : \A b \in Branches(m) : b[1] = "idle"
    /\ \A b \in Branches("lifespan") : b[1] = "tasks"
<1> DEFINE g == <<"idle", "tasks", "agents", "flush", "hooks", "db">>
           i == <<"idle", "tasks", "agents", "flush", "db">>
           f == <<"tasks", "agents">>
           l == <<"tasks", "agents", "kernel", "db">>
<1>1. g \in Stretch
  BY DEF Stretch, Stepwise, Follows, Rank, Stages
<1>2. i \in Stretch
  BY DEF Stretch, Stepwise, Follows, Rank, Stages
<1>3. f \in Stretch /\ <<"kernel">> \in Stretch /\ <<"db">> \in Stretch
  BY DEF Stretch, Stepwise, Follows, Rank, Stages
<1>4. l \in Stretch
  BY DEF Stretch, Stepwise, Follows, Rank, Stages
<1>5. /\ Branches("graceful") = {g} /\ Branches("immediate") = {i}
      /\ Branches("forced") = {f, <<"kernel">>, <<"db">>} /\ Branches("lifespan") = {l}
  BY DEF Branches
<1>6. g[1] = "idle" /\ i[1] = "idle" /\ l[1] = "tasks"
  OBVIOUS
<1> HIDE DEF g, i, f, l
<1> QED
  BY <1>1, <1>2, <1>3, <1>4, <1>5, <1>6 DEF Modes

\* What is left of a stretch does not skip a rank either.
LEMMA TailOK ==
    ASSUME NEW b \in Stretch, Len(b) # 1
    PROVE  /\ Tail(b) \in Stretch /\ Tail(b)[1] # "drop"
           /\ Rank(Tail(b)[1]) <= Rank(b[1]) + 1
<1>1. b \in Seq(Stages) /\ b # << >> /\ Stepwise(b)
  BY DEF Stretch
<1>2. PICK n \in Nat \ {0} : n = Len(b)
  BY <1>1, EmptySeq
<1>0. n >= 2
  BY <1>2
<1>3. PICK t \in Seq(Stages) : t = Tail(b)
  BY <1>1, HeadTailProperties
<1>4. Len(t) = n - 1 /\ \A i \in 1..(n - 1) : t[i] = b[i + 1]
  BY <1>1, <1>2, <1>3, HeadTailProperties
<1>5. t # << >> /\ t[1] = b[2]
  BY <1>0, <1>2, <1>4
<1>6. \A i \in 1..(n - 1) : Follows(b[i], b[i + 1])
  BY <1>1, <1>2 DEF Stepwise
<1>7. ASSUME NEW i \in 1..(n - 2) PROVE Follows(t[i], t[i + 1])
  <2>1. i + 1 \in 1..(n - 1) /\ i \in 1..(n - 1)
    BY <1>0, <1>2
  <2>2. t[i + 1] = b[(i + 1) + 1] /\ t[i] = b[i + 1]
    BY <1>4, <2>1
  <2> QED
    BY <1>6, <2>1, <2>2
<1>8. Stepwise(t)
  BY <1>0, <1>2, <1>4, <1>7 DEF Stepwise
<1>9. 1 \in 1..(n - 1)
  BY <1>0, <1>2
<1>10. Follows(b[1], b[1 + 1])
  BY <1>6, <1>9
<1> QED
  BY <1>3, <1>5, <1>8, <1>10 DEF Stretch, Follows

LEMMA HeadOK ==
    ASSUME NEW b \in Stretch
    PROVE  Head(b) = b[1] /\ b[1] \in Stages /\ Rank(b[1]) \in 0..2
  BY Ranks DEF Stretch

\* A branch whose first stage is called "drop" from then on.
LEMMA DropOK ==
    ASSUME NEW b \in Stretch, Rank(b[1]) = 1
    PROVE  <<"drop">> \o Tail(b) \in Stretch /\ (<<"drop">> \o Tail(b))[1] = "drop"
<1>1. b \in Seq(Stages) /\ b # << >> /\ Stepwise(b)
  BY DEF Stretch
<1>2. PICK n \in Nat \ {0} : n = Len(b)
  BY <1>1, EmptySeq
<1>3. PICK t \in Seq(Stages) : t = Tail(b)
  BY <1>1, HeadTailProperties
<1>4. Len(t) = n - 1 /\ \A i \in 1..(n - 1) : t[i] = b[i + 1]
  BY <1>1, <1>2, <1>3, HeadTailProperties
<1>5. PICK d : d = <<"drop">> \o t
  OBVIOUS
<1>6. "drop" \in Stages
  BY DEF Stages
<1>7. d \in Seq(Stages) /\ Len(d) = n /\ d[1] = "drop"
      /\ \A i \in 2..n : d[i] = t[i - 1]
  BY <1>3, <1>4, <1>5, <1>6
<1>8. \A i \in 2..n : d[i] = b[i]
  BY <1>4, <1>7
<1>9. Rank(d[1]) = Rank(b[1])
  BY <1>7, Ranks
<1>10. \A i \in 1..(n - 1) : Follows(b[i], b[i + 1])
  BY <1>1, <1>2 DEF Stepwise
<1>11. ASSUME NEW i \in 1..(n - 1) PROVE Follows(d[i], d[i + 1])
  <2>1. d[i + 1] = b[i + 1]
    BY <1>8
  <2>2. Rank(d[i]) = Rank(b[i])
    BY <1>8, <1>9
  <2> QED
    BY <1>10, <2>1, <2>2 DEF Follows
<1>12. Stepwise(d) /\ d # << >>
  BY <1>7, <1>11 DEF Stepwise
<1> QED
  BY <1>3, <1>5, <1>7, <1>12 DEF Stretch

LEMMA OnwardOK ==
    ASSUME NEW T \in SUBSET Stretch, NEW b \in T
    PROVE  /\ Onward(T, b) \in SUBSET Stretch
           /\ \A d \in T : d # b => d \in Onward(T, b)
           /\ \A d \in Onward(T, b) :
                 \/ d \in T /\ d # b
                 \/ Rank(d[1]) <= Rank(b[1]) + 1 /\ d[1] # "drop"
<1>1. Len(b) # 1 => /\ Tail(b) \in Stretch /\ Tail(b)[1] # "drop"
                    /\ Rank(Tail(b)[1]) <= Rank(b[1]) + 1
  BY TailOK
<1> QED
  BY <1>1 DEF Onward

\* The records that the steps make of a closer's.
LEMMA ClosingOK ==
    ASSUME NEW a \in {"none", "new", "work", "over"}, NEW m \in Modes \cup {"none", "lifespan"},
           NEW T \in SUBSET Stretch
    PROVE  /\ Closing(a, m, T) \in Work
           /\ Closing(a, m, T).at = a /\ Closing(a, m, T).mode = m /\ Closing(a, m, T).todo = T
           /\ Closing(a, m, T).left = {} /\ Closing(a, m, T).reaps = {}
  BY DEF Closing, Work

LEMMA MadeTodo ==
    ASSUME NEW x \in Work, NEW T \in SUBSET Stretch
    PROVE  \E w \in Work : /\ w = [x EXCEPT !.todo = T]
                           /\ w.at = x.at /\ w.mode = x.mode /\ w.todo = T
                           /\ w.left = x.left /\ w.reaps = x.reaps
<1>1. [x EXCEPT !.todo = T] \in Work
  BY DEF Work
<1> QED
  BY <1>1 DEF Work

LEMMA MadeOver ==
    ASSUME NEW x \in Work
    PROVE  \E w \in Work : /\ w = [x EXCEPT !.at = "over"]
                           /\ w.at = "over" /\ w.mode = x.mode /\ w.todo = x.todo
                           /\ w.left = x.left /\ w.reaps = x.reaps
<1>1. [x EXCEPT !.at = "over"] \in Work
  BY DEF Work
<1> QED
  BY <1>1 DEF Work

LEMMA RunnerAtOK ==
    ASSUME NEW c, closer[c] \in Work, NEW T \in SUBSET Stretch, NEW L \in SUBSET Jobs,
           NEW R \in SUBSET Jobs
    PROVE  \E w \in Work : /\ w = RunnerAt(c, T, L, R)
                           /\ w.at = closer[c].at /\ w.todo = T /\ w.left = L /\ w.reaps = R
<1>1. RunnerAt(c, T, L, R) \in Work
  BY DEF Work, RunnerAt
<1>2. /\ RunnerAt(c, T, L, R).at = closer[c].at /\ RunnerAt(c, T, L, R).todo = T
      /\ RunnerAt(c, T, L, R).left = L /\ RunnerAt(c, T, L, R).reaps = R
  BY DEF Work, RunnerAt
<1> QED
  BY <1>1, <1>2

LEMMA ShutdownStart == ShutdownInit => ShutdownInv
<1> SUFFICES ASSUME ShutdownInit PROVE ShutdownInv
  OBVIOUS
<1>1. PICK w \in Work : w = Closing("none", "none", {}) /\ w.at = "none" /\ w.todo = {} /\ w.reaps = {}
  BY ClosingOK
<1>2. \A c \in Closers : closer[c] = w
  BY <1>1 DEF ShutdownInit
<1>3. ShutdownTypes
  BY <1>1 DEF ShutdownInit, ShutdownTypes, BgStates
<1>4. \A c \in Closers : WorkOK(closer[c])
  BY <1>1, <1>2 DEF WorkOK
<1> QED
  BY <1>3, <1>4 DEF ShutdownInv, ShutdownInit, Reaped

-----------------------------------------------------------------------------
\* Once the intake is shut and the requests are gone, no task is started.
NoneStarted == Level(1) => \A j \in Jobs : bg'[j] = "running" => bg[j] = "running"
NoneCancelled == \A j \in Jobs : bg'[j] = "stopping" => bg[j] = "stopping"

\* A closer that does not move keeps what it has reached.
LEMMA WorkStays ==
    ASSUME NEW w \in Work, WorkOK(w), Shut => Shut', hurried => hurried',
           hurried \in BOOLEAN, hurried' \in BOOLEAN,
           \A k \in 0..2 : Level(k) => Level(k)', NoneStarted
    PROVE  WorkOK(w)'
<1>1. ASSUME w.at = "work", ~hurried', NEW b \in w.todo
      PROVE  /\ Level(Rank(b[1]))'
             /\ b[1] = "drop" => \A j \in Jobs : bg'[j] = "running" => j \in w.left
  <2>1. b \in Stretch /\ ~hurried
    BY <1>1 DEF Work
  <2>2. Level(Rank(b[1])) /\ Rank(b[1]) \in 0..2
    BY <1>1, <2>1, HeadOK DEF WorkOK
  <2>3. ASSUME b[1] = "drop", NEW j \in Jobs, bg'[j] = "running" PROVE j \in w.left
    <3>1. Level(1)
      BY <2>2, <2>3, Ranks
    <3>2. bg[j] = "running"
      BY <2>3, <3>1 DEF NoneStarted
    <3> QED
      BY <1>1, <2>1, <2>3, <3>2 DEF WorkOK
  <2> QED
    BY <2>2, <2>3
<1> QED
  BY <1>1 DEF WorkOK

\* A step that leaves the closers and the engine alone.
LEMMA LevelsStay ==
    ASSUME ShutdownInv, ShutdownTypes', Shut => Shut', hurried' = hurried, closer' = closer,
           dbOpen' = dbOpen, \A k \in 0..2 : Level(k) => Level(k)', NoneStarted, NoneCancelled
    PROVE  ShutdownInv'
<1>1. ASSUME NEW c \in Closers PROVE WorkOK(closer[c])'
  <2>1. WorkOK(closer[c]) /\ closer[c] \in Work /\ hurried \in BOOLEAN
    BY <1>1 DEF ShutdownInv, ShutdownTypes
  <2>2. PICK w \in Work : w = closer[c]
    BY <2>1
  <2>3. WorkOK(w)'
    BY <2>1, <2>2, WorkStays
  <2> QED
    BY <2>2, <2>3 DEF WorkOK
<1>2. Reaped'
  BY DEF ShutdownInv, Reaped, NoneCancelled
<1> QED
  BY <1>1, <1>2 DEF ShutdownInv

\* The intake and the requests.
LEMMA VisitStep ==
    ASSUME ShutdownInv, NEW r \in Reqs, Enter(r) \/ Leave(r)
    PROVE  ShutdownInv'
<1>1. ShutdownTypes'
  BY DEF ShutdownInv, ShutdownTypes, Enter, Leave, parts
<1>2. closer' = closer /\ hurried' = hurried /\ dbOpen' = dbOpen /\ bg' = bg /\ Shut' = Shut
  BY DEF Enter, Leave, parts, Shut
<1>3. Shut => \A p \in PlainReqs : visit[p] \notin {"in", "posted"} => visit'[p] \notin {"in", "posted"}
  BY ShutdownAssumption DEF Enter, Leave, Served, Shut, Reqs, ShutdownInv, ShutdownTypes, InFlight
<1>4. \A k \in 0..2 : Level(k) => Level(k)'
  BY <1>2, <1>3 DEF Level
<1>5. NoneStarted /\ NoneCancelled
  BY <1>2 DEF NoneStarted, NoneCancelled
<1> QED
  BY <1>1, <1>2, <1>4, <1>5, LevelsStay

LEMMA JobStep ==
    ASSUME ShutdownInv, NEW j \in Jobs, StartJob(j) \/ JobEnds(j)
    PROVE  ShutdownInv'
<1>1. ShutdownTypes'
  BY DEF ShutdownInv, ShutdownTypes, StartJob, JobEnds, parts, BgStates
<1>2. closer' = closer /\ hurried' = hurried /\ dbOpen' = dbOpen /\ visit' = visit /\ Shut' = Shut
  BY DEF StartJob, JobEnds, parts, Shut
<1>3. NoneStarted /\ NoneCancelled
  BY DEF StartJob, JobEnds, Level, InFlight, ShutdownInv, ShutdownTypes, NoneStarted, NoneCancelled
<1>4. \A k \in 0..2 : Level(k) => Level(k)'
  BY <1>2, <1>3 DEF Level, NoneStarted
<1> QED
  BY <1>1, <1>2, <1>3, <1>4, LevelsStay

\* One closer moves: it reaches what it says, and forgets no cancelled task.
LEMMA CloserMoves ==
    ASSUME ShutdownInv, NEW s \in Closers, NEW w \in Work, closer' = [closer EXCEPT ![s] = w],
           visit' \in [Reqs -> {"out", "in", "posted", "done"}],
           \A p \in PlainReqs : visit'[p] = visit[p],
           Shut => Shut', hurried => hurried', hurried' \in BOOLEAN,
           accepting' \in BOOLEAN, agentsUp' \in BOOLEAN, kernelUp' \in BOOLEAN, dbOpen' \in BOOLEAN,
           proc' \in {"up", "closing", "gone"}, bg' \in [Jobs -> BgStates],
           \A j \in Jobs : bg'[j] = "running" => bg[j] = "running",
           WorkOK(w)',
           ~hurried' => \A j \in Jobs : bg'[j] = "stopping"
               => \/ w.at = "work" /\ j \in w.reaps
                  \/ bg[j] = "stopping" /\ ~(closer[s].at = "work" /\ j \in closer[s].reaps),
           ~dbOpen' => ~dbOpen \/ hurried' \/ Level(2)'
    PROVE  ShutdownInv'
<1>1. ShutdownTypes'
  BY DEF ShutdownInv, ShutdownTypes
<1>2. (\A k \in 0..2 : Level(k) => Level(k)') /\ NoneStarted
  BY DEF Level, NoneStarted
<1>3. closer'[s] = w /\ \A c \in Closers \ {s} : closer'[c] = closer[c]
  BY DEF ShutdownInv, ShutdownTypes
<1>4. ASSUME NEW c \in Closers PROVE WorkOK(closer[c])'
  <2>1. CASE c = s
    BY <1>3, <2>1 DEF WorkOK, Level, Shut
  <2>2. CASE c # s
    <3>1. closer'[c] = closer[c] /\ WorkOK(closer[c]) /\ closer[c] \in Work /\ hurried \in BOOLEAN
      BY <1>3, <2>2 DEF ShutdownInv, ShutdownTypes
    <3>2. PICK x \in Work : x = closer[c]
      BY <3>1
    <3>3. WorkOK(x)'
      BY <1>2, <3>1, <3>2, WorkStays
    <3> QED
      BY <3>1, <3>2, <3>3 DEF WorkOK
  <2> QED
    BY <2>1, <2>2
<1>5. ASSUME ~hurried', NEW j \in Jobs, bg'[j] = "stopping"
      PROVE  \E c \in Closers : closer'[c].at = "work" /\ j \in closer'[c].reaps
  <2>1. CASE w.at = "work" /\ j \in w.reaps
    BY <1>3, <2>1
  <2>2. CASE bg[j] = "stopping" /\ ~(closer[s].at = "work" /\ j \in closer[s].reaps)
    <3>1. ~hurried
      BY <1>5 DEF ShutdownInv, ShutdownTypes
    <3>2. PICK c \in Closers : closer[c].at = "work" /\ j \in closer[c].reaps
      BY <2>2, <3>1 DEF ShutdownInv, Reaped
    <3> QED
      BY <1>3, <2>2, <3>2
  <2> QED
    BY <1>5, <2>1, <2>2
<1>6. Reaped'
  BY <1>5 DEF Reaped
<1>7. (~dbOpen /\ ~hurried => Level(2))'
  BY <1>2 DEF ShutdownInv, ShutdownTypes
<1> QED
  BY <1>1, <1>4, <1>6, <1>7 DEF ShutdownInv

LEMMA PostStep ==
    ASSUME ShutdownInv, NEW r \in AdminReqs, NEW s \in Shutdowns, NEW mode \in PostedModes,
           PostShutdown(r, s, mode)
    PROVE  ShutdownInv'
<1>1. s \in Closers /\ r \in Reqs /\ r \notin PlainReqs /\ mode \in Modes
  BY ShutdownAssumption, PostedModesAssumption DEF Closers, Reqs
<1>2. PICK w \in Work : /\ w = Closing("new", mode, {}) /\ w.at = "new" /\ w.mode = mode
                        /\ w.todo = {} /\ w.reaps = {}
  BY <1>1, ClosingOK
<1>3. /\ closer' = [closer EXCEPT ![s] = w] /\ closer[s].at = "none"
      /\ visit' = [visit EXCEPT ![r] = "posted"]
      /\ UNCHANGED <<accepting, bg, parts, proc, hurried>>
  BY <1>2 DEF PostShutdown
<1>4. WorkOK(w)'
  BY <1>1, <1>2 DEF WorkOK
<1>5. /\ visit' \in [Reqs -> {"out", "in", "posted", "done"}]
      /\ \A p \in PlainReqs : visit'[p] = visit[p]
  BY <1>1, <1>3 DEF ShutdownInv, ShutdownTypes, Reqs
<1>6. /\ (Shut => Shut') /\ (hurried => hurried') /\ hurried' \in BOOLEAN /\ accepting' \in BOOLEAN
      /\ agentsUp' \in BOOLEAN /\ kernelUp' \in BOOLEAN /\ dbOpen' \in BOOLEAN /\ dbOpen' = dbOpen
      /\ proc' \in {"up", "closing", "gone"} /\ bg' \in [Jobs -> BgStates] /\ bg' = bg
  BY <1>3 DEF ShutdownInv, ShutdownTypes, parts, Shut
<1> QED
  BY <1>1, <1>3, <1>4, <1>5, <1>6, CloserMoves

\* What most steps of a closer leave alone.
LEMMA CalmlyMoves ==
    ASSUME ShutdownInv, NEW s \in Closers, NEW w \in Work, closer' = [closer EXCEPT ![s] = w],
           visit' = visit, bg' = bg, Shut => Shut', hurried => hurried', hurried' \in BOOLEAN,
           accepting' \in BOOLEAN, agentsUp' \in BOOLEAN, kernelUp' \in BOOLEAN, dbOpen' \in BOOLEAN,
           proc' \in {"up", "closing", "gone"}, WorkOK(w)',
           ~hurried' => \A j \in closer[s].reaps :
               bg[j] = "stopping" => w.at = "work" /\ j \in w.reaps,
           ~dbOpen' => ~dbOpen \/ hurried' \/ Level(2)'
    PROVE  ShutdownInv'
<1>1. /\ visit' \in [Reqs -> {"out", "in", "posted", "done"}]
      /\ \A p \in PlainReqs : visit'[p] = visit[p]
      /\ bg' \in [Jobs -> BgStates]
  BY DEF ShutdownInv, ShutdownTypes
<1> QED
  BY <1>1, CloserMoves

LEMMA BeginsStep ==
    ASSUME ShutdownInv, NEW s \in Shutdowns, TriggerBegins(s)
    PROVE  ShutdownInv'
<1>1. PICK m \in Modes : m = closer[s].mode
  BY DEF TriggerBegins, ShutdownInv, ShutdownTypes, WorkOK, Closers
<1>2. s \in Closers /\ Branches(m) \in SUBSET Stretch
  BY BranchesOK DEF Closers
<1>3. PICK w \in Work : /\ w = Closing("work", m, Branches(m)) /\ w.at = "work" /\ w.mode = m
                        /\ w.todo = Branches(m) /\ w.reaps = {}
  BY <1>2, ClosingOK
<1>4. closer' = [closer EXCEPT ![s] = w]
  BY <1>1, <1>3 DEF TriggerBegins
<1>5. /\ accepting' = FALSE /\ hurried' = (hurried \/ m = "forced") /\ closer[s].at = "new"
      /\ UNCHANGED <<visit, bg, parts, proc>>
  BY <1>1 DEF TriggerBegins
<1>6. /\ (hurried => hurried') /\ hurried' \in BOOLEAN /\ accepting' \in BOOLEAN /\ Shut'
      /\ agentsUp' \in BOOLEAN /\ kernelUp' \in BOOLEAN /\ dbOpen' \in BOOLEAN /\ dbOpen' = dbOpen
      /\ proc' \in {"up", "closing", "gone"}
  BY <1>5 DEF ShutdownInv, ShutdownTypes, parts, Shut
<1>7. WorkOK(w)'
  <2>1. ~hurried' => \A b \in w.todo : b[1] = "idle"
    BY <1>3, <1>5, BranchesOK DEF Modes
  <2>2. Level(0)' /\ Rank("idle") = 0
    BY Ranks DEF Level
  <2> QED
    BY <1>3, <1>6, <2>1, <2>2 DEF WorkOK
<1>8. closer[s].reaps = {}
  BY <1>2, <1>5 DEF ShutdownInv, WorkOK
<1> QED
  BY <1>2, <1>4, <1>5, <1>6, <1>7, <1>8, CalmlyMoves

\* A stage that is not of the tasks, done, has reached the next level.
LEMMA Reaches ==
    ASSUME ShutdownInv, NEW b \in Stretch, Head(b) \notin Stopping, Ready(Head(b)), Level(Rank(b[1])),
           Shut, visit' = visit, bg' = bg, accepting' = accepting, proc' = proc
    PROVE  Level(IF Rank(b[1]) = 0 THEN 1 ELSE 2)'
<1>1. PICK s \in Stages : s = b[1] /\ s = Head(b) /\ Rank(s) \in 0..2
  BY HeadOK
<1>2. CASE Rank(s) = 0
  <2>1. s = "idle"
    BY <1>2, Ranks
  <2>2. \A r \in PlainReqs : visit[r] \notin {"in", "posted"}
    BY <1>1, <2>1 DEF Ready, InFlight, Reqs
  <2> QED
    BY <1>1, <1>2, <2>2 DEF Level, Shut
<1>3. CASE Rank(s) = 1
  BY <1>1, <1>3, Ranks
<1>4. CASE Rank(s) = 2
  BY <1>1, <1>4 DEF Level, Shut
<1> QED
  BY <1>1, <1>2, <1>3, <1>4

\* What is left after branch b is at most one rank further.
LEMMA NextRanks ==
    ASSUME NEW T \in SUBSET Stretch, NEW b \in T,
           \A d \in T : Level(Rank(d[1])), \A k \in 0..2 : Level(k) => Level(k)',
           Level(IF Rank(b[1]) = 0 THEN 1 ELSE 2)'
    PROVE  \A d \in Onward(T, b) : Level(Rank(d[1]))'
<1> SUFFICES ASSUME NEW d \in Onward(T, b) PROVE Level(Rank(d[1]))'
  OBVIOUS
<1>1. d \in Stretch /\ b \in Stretch
  BY OnwardOK
<1>2. PICK k \in 0..2 : k = Rank(d[1])
  BY <1>1, HeadOK
<1>3. PICK l \in 0..2 : l = Rank(b[1])
  BY <1>1, HeadOK
<1>4. CASE d \in T
  BY <1>2, <1>4
<1>5. CASE k <= l + 1
  BY <1>2, <1>3, <1>5 DEF Level
<1> QED
  BY <1>2, <1>3, <1>4, <1>5, OnwardOK

LEMMA StageDoneStep ==
    ASSUME ShutdownInv, NEW c \in Closers, StageDone(c)
    PROVE  ShutdownInv'
<1>1. PICK b \in closer[c].todo :
        /\ Head(b) \notin Stopping /\ Ready(Head(b)) /\ TornDown(Head(b))
        /\ closer' = [closer EXCEPT ![c].todo = Onward(@, b)]
  BY DEF StageDone
<1>2. PICK x \in Work : x = closer[c] /\ x.at = "work" /\ WorkOK(x) /\ x.todo \in SUBSET Stretch
  BY DEF StageDone, ShutdownInv, ShutdownTypes, Work
<1>3. b \in Stretch /\ Head(b) = b[1] /\ b[1] \in Stages
  BY <1>1, <1>2, HeadOK
<1>4. PICK T \in SUBSET Stretch : T = Onward(x.todo, b)
  BY <1>1, <1>2, OnwardOK
<1>5. PICK w \in Work : /\ w = [x EXCEPT !.todo = T] /\ w.at = "work" /\ w.mode = x.mode
                        /\ w.todo = T /\ w.left = x.left /\ w.reaps = x.reaps
  BY <1>2, <1>4, MadeTodo
<1>6. closer' = [closer EXCEPT ![c] = w]
  <2>1. closer' = [closer EXCEPT ![c] = [x EXCEPT !.todo = T]]
    BY <1>1, <1>2, <1>4
  <2> QED
    BY <1>5, <2>1
<1>7. UNCHANGED <<accepting, visit, bg, proc, hurried>> /\ Shut
  BY <1>2 DEF StageDone, WorkOK
<1>8. Shut' /\ \A k \in 0..2 : Level(k) => Level(k)'
  BY <1>7 DEF Shut, Level
<1>9. ~hurried => Level(IF Rank(b[1]) = 0 THEN 1 ELSE 2)'
  BY <1>1, <1>2, <1>3, <1>7, Reaches DEF WorkOK
<1>10. ASSUME ~hurried', NEW d \in w.todo
       PROVE  /\ Level(Rank(d[1]))'
              /\ d[1] = "drop" => \A j \in Jobs : bg'[j] = "running" => j \in w.left
  <2>1. ~hurried /\ \A e \in x.todo : Level(Rank(e[1]))
    BY <1>2, <1>7, <1>10 DEF WorkOK
  <2>2. Level(Rank(d[1]))'
    BY <1>1, <1>2, <1>4, <1>5, <1>8, <1>9, <1>10, <2>1, NextRanks
  <2>3. d[1] = "drop" => d \in x.todo
    BY <1>1, <1>2, <1>4, <1>5, <1>10, OnwardOK
  <2>4. d \in x.todo /\ d[1] = "drop" => \A j \in Jobs : bg[j] = "running" => j \in x.left
    BY <1>2, <2>1 DEF WorkOK
  <2> QED
    BY <1>5, <1>7, <2>2, <2>3, <2>4
<1>11. w.reaps # {} => \E d \in w.todo : d[1] = "drop"
  <2> SUFFICES ASSUME w.reaps # {} PROVE \E d \in w.todo : d[1] = "drop"
    OBVIOUS
  <2>1. PICK d \in x.todo : d[1] = "drop"
    BY <1>2, <1>5 DEF WorkOK
  <2>2. d # b
    BY <1>1, <1>3, <2>1 DEF Stopping
  <2> QED
    BY <1>1, <1>2, <1>4, <1>5, <2>1, <2>2, OnwardOK
<1>12. WorkOK(w)'
  BY <1>5, <1>8, <1>10, <1>11 DEF WorkOK
<1>13. ~dbOpen' => ~dbOpen \/ hurried' \/ Level(2)'
  <2> SUFFICES ASSUME ~dbOpen', dbOpen, ~hurried' PROVE Level(2)'
    BY DEF ShutdownInv, ShutdownTypes
  <2>1. Head(b) = "db" /\ ~hurried
    BY <1>1, <1>7 DEF TornDown
  <2>2. Rank(b[1]) = 2
    BY <1>3, <2>1, Ranks
  <2> QED
    BY <1>9, <2>1, <2>2
<1>14. /\ agentsUp' \in BOOLEAN /\ kernelUp' \in BOOLEAN /\ dbOpen' \in BOOLEAN
       /\ hurried' \in BOOLEAN /\ accepting' \in BOOLEAN /\ proc' \in {"up", "closing", "gone"}
  BY <1>1, <1>7 DEF TornDown, ShutdownInv, ShutdownTypes
<1> QED
  BY <1>2, <1>5, <1>6, <1>7, <1>8, <1>12, <1>13, <1>14, CalmlyMoves

\* A worker is dropped: its task stops, and is waited for.
LEMMA DropStep ==
    ASSUME ShutdownInv, NEW c \in Closers, closer[c].at = "work", ~Awaiting(c),
           NEW b \in closer[c].todo, Head(b) \in Stopping, NEW j \in Jobs, NEW left \in SUBSET Jobs,
           left = {i \in IF Head(b) = "tasks" THEN Jobs ELSE closer[c].left : bg[i] = "running"},
           j \in left, Drop(c, b, j, left),
           UNCHANGED <<accepting, visit, parts, proc, hurried>>
    PROVE  ShutdownInv'
<1>1. PICK x \in Work : x = closer[c] /\ x.at = "work" /\ WorkOK(x) /\ x.todo \in SUBSET Stretch
  BY DEF ShutdownInv, ShutdownTypes, Work
<1>2. b \in Stretch /\ b[1] = Head(b) /\ Rank(b[1]) = 1
  BY <1>1, HeadOK, Ranks DEF Stopping
<1>3. PICK d \in Stretch : d = <<"drop">> \o Tail(b) /\ d[1] = "drop"
  BY <1>2, DropOK
<1>4. PICK T \in SUBSET Stretch, L \in SUBSET Jobs, R \in SUBSET Jobs :
        T = (x.todo \ {b}) \cup {d} /\ L = left \ {j} /\ R = {j}
  <2>1. (x.todo \ {b}) \cup {d} \in SUBSET Stretch /\ left \ {j} \in SUBSET Jobs /\ {j} \in SUBSET Jobs
    BY <1>1
  <2> QED
    BY <2>1
<1>0. PICK w \in Work : /\ w = RunnerAt(c, T, L, R)
                         /\ w.at = "work" /\ w.todo = T /\ w.left = L /\ w.reaps = R
  BY <1>1, RunnerAtOK
<1>5. closer' = [closer EXCEPT ![c] = w]
  <2>1. closer' = [closer EXCEPT ![c] = RunnerAt(c, T, L, R)]
    BY <1>1, <1>3, <1>4 DEF Drop
  <2> QED
    BY <1>0, <2>1
<1>6. /\ bg' \in [Jobs -> BgStates] /\ bg[j] = "running" /\ bg'[j] = "stopping"
      /\ \A i \in Jobs \ {j} : bg'[i] = bg[i]
  BY DEF Drop, ShutdownInv, ShutdownTypes, BgStates
<1>7. Shut /\ Shut' /\ \A k \in 0..2 : Level(k) => Level(k)'
  BY <1>1, <1>6 DEF WorkOK, Shut, Level
<1>8. ASSUME ~hurried', NEW e \in w.todo
      PROVE  /\ Level(Rank(e[1]))'
             /\ e[1] = "drop" => \A i \in Jobs : bg'[i] = "running" => i \in w.left
  <2>1. /\ ~hurried
        /\ \A f \in x.todo : /\ Level(Rank(f[1]))
                             /\ f[1] = "drop" => \A i \in Jobs : bg[i] = "running" => i \in x.left
    BY <1>1, <1>8 DEF WorkOK
  <2>2. Level(1)
    BY <1>1, <1>2, <2>1
  <2>3. Level(Rank(e[1]))'
    <3>1. CASE e = d
      BY <1>3, <1>7, <2>2, <3>1, Ranks
    <3>2. CASE e # d
      <4>1. e \in x.todo /\ Rank(e[1]) \in 0..2
        BY <1>1, <1>4, <1>0, <1>8, <3>2, HeadOK
      <4> QED
        BY <1>7, <2>1, <4>1
    <3> QED
      BY <3>1, <3>2
  <2>4. \A i \in Jobs : bg[i] = "running" => i \in left
    <3>1. CASE Head(b) = "tasks"
      BY <3>1
    <3>2. CASE Head(b) = "drop"
      BY <1>1, <1>2, <2>1, <3>2
    <3> QED
      BY <3>1, <3>2 DEF Stopping
  <2> QED
    BY <1>4, <1>0, <1>6, <2>3, <2>4
<1>9. WorkOK(w)'
  <2>1. \E e \in w.todo : e[1] = "drop"
    BY <1>3, <1>4, <1>0
  <2> QED
    BY <1>0, <1>7, <1>8, <2>1 DEF WorkOK
<1>10. ASSUME NEW i \in Jobs, bg'[i] = "stopping"
       PROVE  \/ w.at = "work" /\ i \in w.reaps
              \/ bg[i] = "stopping" /\ ~(closer[c].at = "work" /\ i \in closer[c].reaps)
  BY <1>4, <1>0, <1>6, <1>10 DEF Awaiting
<1>11. /\ (Shut => Shut') /\ (hurried => hurried') /\ hurried' \in BOOLEAN /\ accepting' \in BOOLEAN
       /\ agentsUp' \in BOOLEAN /\ kernelUp' \in BOOLEAN /\ dbOpen' \in BOOLEAN /\ dbOpen' = dbOpen
       /\ proc' \in {"up", "closing", "gone"}
       /\ visit' \in [Reqs -> {"out", "in", "posted", "done"}]
       /\ \A p \in PlainReqs : visit'[p] = visit[p]
  BY <1>7 DEF ShutdownInv, ShutdownTypes, parts
<1>12. \A i \in Jobs : bg'[i] = "running" => bg[i] = "running"
  BY <1>6
<1> QED
  BY <1>5, <1>6, <1>9, <1>10, <1>11, <1>12, CloserMoves

\* The stage of the tasks ends, with nobody waited for.
LEMMA LeavesStep ==
    ASSUME ShutdownInv, NEW c \in Closers, closer[c].at = "work", ~Awaiting(c),
           NEW b \in closer[c].todo, Head(b) \in Stopping, Leaves(c, b),
           \/ hurried' = TRUE
           \/ /\ hurried' = hurried
              /\ \A j \in IF Head(b) = "tasks" THEN Jobs ELSE closer[c].left : bg[j] # "running",
           UNCHANGED <<accepting, visit, bg, parts, proc>>
    PROVE  ShutdownInv'
<1>1. PICK x \in Work : x = closer[c] /\ x.at = "work" /\ WorkOK(x) /\ x.todo \in SUBSET Stretch
  BY DEF ShutdownInv, ShutdownTypes, Work
<1>2. b \in Stretch /\ b[1] = Head(b) /\ Rank(b[1]) = 1
  BY <1>1, HeadOK, Ranks DEF Stopping
<1>3. PICK T \in SUBSET Stretch : T = Onward(x.todo, b)
  BY <1>1, OnwardOK
<1>4. PICK L \in SUBSET Jobs : L = {}
  OBVIOUS
<1>0. PICK w \in Work : /\ w = RunnerAt(c, T, L, L)
                         /\ w.at = "work" /\ w.todo = T /\ w.left = {} /\ w.reaps = {}
  BY <1>1, <1>4, RunnerAtOK
<1>5. closer' = [closer EXCEPT ![c] = w]
  <2>1. closer' = [closer EXCEPT ![c] = RunnerAt(c, T, L, L)]
    BY <1>1, <1>3, <1>4 DEF Leaves
  <2> QED
    BY <1>0, <2>1
<1>6. Shut /\ Shut' /\ \A k \in 0..2 : Level(k) => Level(k)'
  BY <1>1 DEF WorkOK, Shut, Level
<1>7. ASSUME ~hurried', NEW e \in w.todo
      PROVE  /\ Level(Rank(e[1]))'
             /\ e[1] = "drop" => \A i \in Jobs : bg'[i] = "running" => i \in w.left
  <2>1. /\ ~hurried
        /\ \A f \in x.todo : /\ Level(Rank(f[1]))
                             /\ f[1] = "drop" => \A i \in Jobs : bg[i] = "running" => i \in x.left
    BY <1>1, <1>7 DEF WorkOK, ShutdownInv, ShutdownTypes
  <2>2. Level(1)
    BY <1>1, <1>2, <2>1
  <2>3. \A i \in Jobs : bg[i] # "running"
    BY <1>1, <1>2, <1>7, <2>1 DEF Stopping
  <2>4. Level(2)'
    BY <2>2, <2>3 DEF Level, Shut
  <2>5. Level(IF Rank(b[1]) = 0 THEN 1 ELSE 2)'
    BY <1>2, <2>4
  <2>6. Level(Rank(e[1]))'
    BY <1>1, <1>3, <1>0, <1>6, <1>7, <2>1, <2>5, NextRanks
  <2> QED
    BY <2>3, <2>6
<1>8. WorkOK(w)'
  BY <1>0, <1>6, <1>7 DEF WorkOK
<1>9. /\ (hurried => hurried') /\ hurried' \in BOOLEAN /\ accepting' \in BOOLEAN
      /\ agentsUp' \in BOOLEAN /\ kernelUp' \in BOOLEAN /\ dbOpen' \in BOOLEAN /\ dbOpen' = dbOpen
      /\ proc' \in {"up", "closing", "gone"} /\ visit' = visit /\ bg' = bg
  BY DEF ShutdownInv, ShutdownTypes, parts
<1>10. \A j \in closer[c].reaps : bg[j] # "stopping"
  BY DEF Awaiting
<1> QED
  BY <1>5, <1>6, <1>8, <1>9, <1>10, CalmlyMoves

LEMMA DropsTasksStep ==
    ASSUME ShutdownInv, NEW c \in Closers, DropsTasks(c)
    PROVE  ShutdownInv'
<1>1. PICK b \in closer[c].todo :
        LET left == {j \in IF Head(b) = "tasks" THEN Jobs ELSE closer[c].left : bg[j] = "running"}
        IN  /\ Head(b) \in Stopping
            /\ \/ \E j \in left : Drop(c, b, j, left)
               \/ left = {} /\ Leaves(c, b) /\ UNCHANGED bg
  BY DEF DropsTasks
<1>2. closer[c] \in Work
  BY DEF ShutdownInv, ShutdownTypes
<1>3. PICK left \in SUBSET Jobs :
        left = {j \in IF Head(b) = "tasks" THEN Jobs ELSE closer[c].left : bg[j] = "running"}
  BY <1>2 DEF Work
<1>4. /\ closer[c].at = "work" /\ ~Awaiting(c) /\ Head(b) \in Stopping
      /\ UNCHANGED <<accepting, visit, parts, proc, hurried>>
  BY <1>1 DEF DropsTasks
<1>5. ASSUME NEW j \in left, Drop(c, b, j, left) PROVE ShutdownInv'
  <2>1. j \in Jobs
    OBVIOUS
  <2> QED
    BY <1>3, <1>4, <1>5, <2>1, DropStep
<1>6. CASE left = {} /\ Leaves(c, b) /\ UNCHANGED bg
  BY <1>3, <1>4, <1>6, LeavesStep
<1> QED
  BY <1>1, <1>3, <1>5, <1>6

LEMMA GivesUpStep ==
    ASSUME ShutdownInv, NEW c \in Closers, StageGivesUp(c)
    PROVE  ShutdownInv'
<1>1. PICK b \in closer[c].todo :
        \/ Head(b) = "drop" /\ ~Awaiting(c) /\ Leaves(c, b)
        \/ Head(b) # "drop" /\ closer' = [closer EXCEPT ![c].todo = Onward(@, b)]
  BY DEF StageGivesUp
<1>2. /\ UNCHANGED <<accepting, visit, bg, parts, proc>> /\ hurried' = TRUE /\ closer[c].at = "work"
  BY DEF StageGivesUp
<1>3. CASE Head(b) = "drop" /\ ~Awaiting(c) /\ Leaves(c, b)
  BY <1>2, <1>3, LeavesStep DEF Stopping
<1>4. CASE Head(b) # "drop" /\ closer' = [closer EXCEPT ![c].todo = Onward(@, b)]
  <2>1. PICK x \in Work : x = closer[c] /\ x.at = "work" /\ WorkOK(x) /\ x.todo \in SUBSET Stretch
    BY <1>2 DEF ShutdownInv, ShutdownTypes, Work
  <2>2. PICK T \in SUBSET Stretch : T = Onward(x.todo, b)
    BY <2>1, OnwardOK
  <2>3. PICK w \in Work : /\ w = [x EXCEPT !.todo = T] /\ w.at = "work" /\ w.mode = x.mode
                          /\ w.todo = T /\ w.left = x.left /\ w.reaps = x.reaps
    BY <2>1, <2>2, MadeTodo
  <2>4. closer' = [closer EXCEPT ![c] = w]
    <3>1. closer' = [closer EXCEPT ![c] = [x EXCEPT !.todo = T]]
      BY <1>4, <2>1, <2>2
    <3> QED
      BY <2>3, <3>1
  <2>5. w.reaps # {} => \E d \in w.todo : d[1] = "drop"
    <3> SUFFICES ASSUME w.reaps # {} PROVE \E d \in w.todo : d[1] = "drop"
      OBVIOUS
    <3>1. PICK d \in x.todo : d[1] = "drop"
      BY <2>1, <2>3 DEF WorkOK
    <3>2. d # b
      BY <1>4, <2>1, <3>1, HeadOK
    <3> QED
      BY <2>1, <2>2, <2>3, <3>1, <3>2, OnwardOK
  <2>6. Shut /\ Shut'
    BY <1>2, <2>1 DEF WorkOK, Shut
  <2>7. WorkOK(w)'
    BY <1>2, <2>3, <2>5, <2>6 DEF WorkOK
  <2>8. /\ (hurried => hurried') /\ hurried' \in BOOLEAN /\ accepting' \in BOOLEAN
        /\ agentsUp' \in BOOLEAN /\ kernelUp' \in BOOLEAN /\ dbOpen' \in BOOLEAN /\ dbOpen' = dbOpen
        /\ proc' \in {"up", "closing", "gone"} /\ visit' = visit /\ bg' = bg
    BY <1>2 DEF ShutdownInv, ShutdownTypes, parts
  <2> QED
    BY <1>2, <2>4, <2>6, <2>7, <2>8, CalmlyMoves
<1> QED
  BY <1>1, <1>3, <1>4

LEMMA FallsBackStep ==
    ASSUME ShutdownInv, NEW s \in Shutdowns, FallsBack(s)
    PROVE  ShutdownInv'
<1>1. PICK m \in Modes : closer' = [closer EXCEPT ![s] = Closing("work", m, Branches(m))]
  BY DEF FallsBack, Modes
<1>2. /\ UNCHANGED <<accepting, visit, bg, parts, proc>> /\ hurried' = TRUE
      /\ closer[s].at = "work" /\ s \in Closers
  BY DEF FallsBack, Closers
<1>3. Branches(m) \in SUBSET Stretch
  BY BranchesOK
<1>4. PICK w \in Work : /\ w = Closing("work", m, Branches(m)) /\ w.at = "work"
                        /\ w.todo = Branches(m) /\ w.reaps = {}
  BY <1>3, ClosingOK
<1>5. Shut' /\ Shut
  BY <1>2 DEF Shut, WorkOK, ShutdownInv
<1>6. WorkOK(w)'
  BY <1>2, <1>4, <1>5 DEF WorkOK
<1>7. /\ (hurried => hurried') /\ hurried' \in BOOLEAN /\ accepting' \in BOOLEAN
      /\ agentsUp' \in BOOLEAN /\ kernelUp' \in BOOLEAN /\ dbOpen' \in BOOLEAN /\ dbOpen' = dbOpen
      /\ proc' \in {"up", "closing", "gone"} /\ visit' = visit /\ bg' = bg
  BY <1>2 DEF ShutdownInv, ShutdownTypes, parts
<1> QED
  BY <1>1, <1>2, <1>4, <1>5, <1>6, <1>7, CalmlyMoves

\* A closer that is over has nothing left to do, and waits for nobody.
LEMMA OverStep ==
    ASSUME ShutdownInv, NEW s \in Closers, NEW w \in Work, w.at = "over", w.todo = {}, w.reaps = {},
           closer[s].reaps = {}, closer' = [closer EXCEPT ![s] = w],
           UNCHANGED <<accepting, visit, bg, parts, hurried>>, proc' \in {proc, "gone"}
    PROVE  ShutdownInv'
<1>1. WorkOK(w)'
  BY DEF WorkOK
<1>2. /\ (Shut => Shut') /\ (hurried => hurried') /\ hurried' \in BOOLEAN /\ accepting' \in BOOLEAN
      /\ agentsUp' \in BOOLEAN /\ kernelUp' \in BOOLEAN /\ dbOpen' \in BOOLEAN /\ dbOpen' = dbOpen
      /\ proc' \in {"up", "closing", "gone"} /\ visit' = visit /\ bg' = bg
  BY DEF ShutdownInv, ShutdownTypes, parts, Shut
<1> QED
  BY <1>1, <1>2, CalmlyMoves

LEMMA EndsStep ==
    ASSUME ShutdownInv,
           \/ \E s \in Shutdowns : TriggerRaises(s) \/ TriggerExits(s)
           \/ ProcessEnds
    PROVE  ShutdownInv'
<1>1. ASSUME NEW s \in Closers
      PROVE  closer[s] \in Work /\ WorkOK(closer[s])
  BY DEF ShutdownInv, ShutdownTypes
<1>2. ASSUME NEW s \in Shutdowns, TriggerRaises(s) PROVE ShutdownInv'
  <2>1. s \in Closers
    BY DEF Closers
  <2>2. PICK x \in Work : x = closer[s] /\ WorkOK(x)
    BY <1>1, <2>1
  <2>3. PICK b \in x.todo : x.todo = {b} /\ Head(b) \in {"agents", "flush"}
    BY <1>2, <2>2 DEF TriggerRaises
  <2>4. b \in Stretch /\ x.mode \in Modes \cup {"none", "lifespan"}
    BY DEF Work
  <2>5. x.reaps = {}
    BY <2>2, <2>3, <2>4, HeadOK DEF WorkOK
  <2>6. PICK w \in Work : /\ w = Closing("over", x.mode, {}) /\ w.at = "over"
                          /\ w.todo = {} /\ w.reaps = {}
    BY <2>4, ClosingOK
  <2>7. closer' = [closer EXCEPT ![s] = w]
    BY <1>2, <2>2, <2>6 DEF TriggerRaises
  <2>8. UNCHANGED <<accepting, visit, bg, parts, hurried>> /\ proc' = proc
    BY <1>2 DEF TriggerRaises
  <2> QED
    BY <2>1, <2>2, <2>5, <2>6, <2>7, <2>8, OverStep
<1>3. ASSUME NEW s \in Closers, closer[s].todo = {}, closer' = [closer EXCEPT ![s].at = "over"],
             UNCHANGED <<accepting, visit, bg, parts, hurried>>, proc' \in {proc, "gone"}
      PROVE  ShutdownInv'
  <2>1. PICK x \in Work : x = closer[s] /\ WorkOK(x)
    BY <1>1
  <2>2. x.reaps = {}
    BY <1>3, <2>1 DEF WorkOK
  <2>3. {} \in SUBSET Stretch /\ {} \in SUBSET Jobs
    OBVIOUS
  <2>4. PICK w \in Work : /\ w = [x EXCEPT !.at = "over"] /\ w.at = "over"
                          /\ w.todo = x.todo /\ w.reaps = x.reaps
    BY <2>1, <2>3, MadeOver
  <2>5. closer' = [closer EXCEPT ![s] = w]
    BY <1>3, <2>1, <2>4
  <2> QED
    BY <1>3, <2>1, <2>2, <2>4, <2>5, OverStep
<1>4. ASSUME NEW s \in Shutdowns, TriggerExits(s) PROVE ShutdownInv'
  <2>1. s \in Closers
    BY DEF Closers
  <2> QED
    BY <1>3, <1>4, <2>1 DEF TriggerExits
<1>5. CASE ProcessEnds
  <2>1. Lifespan \in Closers
    BY DEF Closers
  <2> QED
    BY <1>3, <1>5, <2>1 DEF ProcessEnds
<1> QED
  BY <1>2, <1>4, <1>5

\* The signals.
LEMMA SignalStep ==
    ASSUME ShutdownInv, OsSignal \/ KernelHandles \/ ServerHandles
    PROVE  ShutdownInv'
<1>1. /\ accepting' = accepting /\ visit' = visit /\ bg' = bg /\ dbOpen' = dbOpen
      /\ agentsUp' = agentsUp /\ kernelUp' \in {kernelUp, FALSE} /\ closer' = closer
      /\ hurried' = hurried /\ proc' \in {proc, "closing"}
  BY DEF OsSignal, KernelHandles, ServerHandles, parts
<1>2. ShutdownTypes'
  BY <1>1 DEF ShutdownInv, ShutdownTypes
<1>3. (Shut => Shut') /\ \A k \in 0..2 : Level(k) => Level(k)'
  BY <1>1 DEF Shut, Level
<1>4. NoneStarted /\ NoneCancelled
  BY <1>1 DEF NoneStarted, NoneCancelled
<1> QED
  BY <1>1, <1>2, <1>3, <1>4, LevelsStay

LEMMA LifespanStep ==
    ASSUME ShutdownInv, LifespanEnds
    PROVE  ShutdownInv'
<1>1. Branches("lifespan") \in SUBSET Stretch /\ Lifespan \in Closers
  BY BranchesOK DEF Closers
<1>2. PICK w \in Work : /\ w = Closing("work", "lifespan", Branches("lifespan")) /\ w.at = "work"
                        /\ w.todo = Branches("lifespan") /\ w.reaps = {}
  BY <1>1, ClosingOK
<1>3. /\ UNCHANGED <<accepting, visit, bg, parts, proc, hurried>>
      /\ closer' = [closer EXCEPT ![Lifespan] = w] /\ closer[Lifespan].at = "none"
  BY <1>2 DEF LifespanEnds
<1>4. Shut /\ Shut' /\ Level(1)'
  BY <1>3 DEF LifespanEnds, Shut, Level, InFlight, Reqs
<1>5. WorkOK(w)'
  <2>1. \A b \in w.todo : b[1] = "tasks" /\ Rank(b[1]) = 1
    BY <1>2, BranchesOK, Ranks
  <2> QED
    BY <1>2, <1>4, <2>1 DEF WorkOK
<1>6. closer[Lifespan].reaps = {}
  BY <1>1, <1>3 DEF ShutdownInv, WorkOK
<1>7. /\ (hurried => hurried') /\ hurried' \in BOOLEAN /\ accepting' \in BOOLEAN
      /\ agentsUp' \in BOOLEAN /\ kernelUp' \in BOOLEAN /\ dbOpen' \in BOOLEAN /\ dbOpen' = dbOpen
      /\ proc' \in {"up", "closing", "gone"} /\ visit' = visit /\ bg' = bg
  BY <1>3 DEF ShutdownInv, ShutdownTypes, parts
<1> QED
  BY <1>1, <1>3, <1>4, <1>5, <1>6, <1>7, CalmlyMoves

LEMMA ShutdownStep == ShutdownInv /\ [ShutdownNext]_downVars => ShutdownInv'
<1> SUFFICES ASSUME ShutdownInv, [ShutdownNext]_downVars PROVE ShutdownInv'
  OBVIOUS
<1>1. CASE UNCHANGED downVars
  <2>1. /\ ShutdownTypes' /\ Shut' = Shut /\ \A k \in 0..2 : Level(k) => Level(k)'
    BY <1>1 DEF downVars, ShutdownInv, ShutdownTypes, Shut, Level
  <2>2. closer' = closer /\ hurried' = hurried /\ dbOpen' = dbOpen /\ bg' = bg
    BY <1>1 DEF downVars
  <2> QED
    BY <2>1, <2>2, LevelsStay DEF NoneStarted, NoneCancelled
<1>2. ASSUME NEW c \in Closers, CloserStep(c) PROVE ShutdownInv'
  BY <1>2, StageDoneStep, DropsTasksStep, GivesUpStep, BeginsStep, FallsBackStep, EndsStep
     DEF CloserStep
<1>3. CASE OsSignal \/ ProcessStep
  BY <1>3, SignalStep, LifespanStep, EndsStep DEF ProcessStep
<1> QED
  BY <1>1, <1>2, <1>3, VisitStep, JobStep, PostStep, EndsStep DEF ShutdownNext

\* coreai/drain.py, coreai/task_runner.py and agents/emergency_shutdown.py: whatever the
\* order of requests, background tasks, shutdowns, fallbacks and signals, the engine is
\* closed only when no ordinary request is served and no agent task runs, unless a
\* shutdown was forced or a wait timed out; a task that is cancelled and has not ended is
\* then one that another shutdown, still at work, waits for.
THEOREM QuietCloseAlways == ShutdownSpec => []QuietClose
<1>1. ShutdownInv => QuietClose
  BY DEF ShutdownInv, Reaped, QuietClose, Level, InFlight
<1> QED
  BY <1>1, ShutdownStart, ShutdownStep, PTL DEF ShutdownSpec
=============================================================================
