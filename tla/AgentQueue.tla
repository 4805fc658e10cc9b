----------------------------- MODULE AgentQueue -----------------------------
(***************************************************************************)
(* agents/task_orchestrator.py: the bounded priority queue in front of the *)
(* agents, its dispatch loop, retries, cancellation and result futures.    *)
(*                                                                         *)
(*   item     TaskItem.status and .retries                                 *)
(*   fut      the future in _results                                       *)
(*   waiting  submit() calls suspended because the queue is full           *)
(*   line     _queue, in the order of arrival                              *)
(*   co       the _run_task() coroutine of an item: "new", "exec" (awaits  *)
(*            dispatch_task), "put" (awaits a place in the queue); stop    *)
(*            when it has been cancelled                                   *)
(*   listed   items with an entry in _running_tasks                        *)
(*   calls    done-callbacks of _forget_task that are due                  *)
(*   idle     agents whose status is IDLE                                  *)
(*   mode     "running", "stopping" (stop() awaits the tasks) or "stopped" *)
(***************************************************************************)
EXTENDS Integers, FiniteSets, SequencesExt

CONSTANTS
    Items,
    Urgency,       \* the priority of each item, lower goes first
    QueueAgents,
    QueueSize,     \* MAX_QUEUE_SIZE
    MaxRetries     \* max_retries

ASSUME AgentQueueAssumption ==
    QueueSize \in Nat \ {0} /\ MaxRetries \in Nat \ {0} /\ Urgency \in [Items -> 0..3]

VARIABLES item, fut, waiting, line, co, listed, calls, idle, mode

queueVars == <<item, fut, waiting, line, co, listed, calls, idle, mode>>

NoCo == [at |-> "none", agent |-> "", stop |-> FALSE]

QueueInit ==
    /\ item = [i \in Items |-> [status |-> "absent", retries |-> 0]]
    /\ fut = [i \in Items |-> "none"]
    /\ waiting = {}
    /\ line = << >>
    /\ co = [i \in Items |-> NoCo]
    /\ listed = {}
    /\ calls = [i \in Items |-> 0]
    /\ idle = QueueAgents
    /\ mode = "running"

Full == Len(line) >= QueueSize

\* The coroutine returns: its done-callback is due.
CoEnds(i) ==
    /\ co' = [co EXCEPT ![i] = NoCo]
    /\ calls' = [calls EXCEPT ![i] = @ + 1]

-----------------------------------------------------------------------------
\* submit()
SubmitItem(i) ==
    /\ item[i].status = "absent"
    /\ item' = [item EXCEPT ![i].status = "queued"]
    /\ fut' = [fut EXCEPT ![i] = "pending"]
    /\ IF Full THEN waiting' = waiting \cup {i} /\ UNCHANGED line
               ELSE line' = Append(line, i) /\ UNCHANGED waiting
    /\ UNCHANGED <<co, listed, calls, idle, mode>>

SubmitGoesOn(i) ==
    /\ i \in waiting /\ ~Full
    /\ line' = Append(line, i)
    /\ waiting' = waiting \ {i}
    /\ UNCHANGED <<item, fut, co, listed, calls, idle, mode>>

First == CHOOSE k \in DOMAIN line : \A n \in DOMAIN line \ {k} :
            \/ Urgency[line[k]] < Urgency[line[n]]
            \/ (Urgency[line[k]] = Urgency[line[n]] /\ k < n)

\* One turn of _dispatch_loop(): an item cancelled in the queue is dropped.
Dispatch ==
    /\ mode = "running" /\ idle # {} /\ line # << >>
    /\ LET i == line[First]
       IN  /\ line' = RemoveAt(line, First)
           /\ IF item[i].status = "cancelled"
              THEN UNCHANGED <<co, listed>>
              ELSE /\ \E a \in idle :
                        co' = [co EXCEPT ![i] = [at |-> "new", agent |-> a, stop |-> FALSE]]
                   /\ listed' = listed \cup {i}
    /\ UNCHANGED <<item, fut, waiting, calls, idle, mode>>

\* The first step of _run_task() overwrites the status.
TaskBegins(i) ==
    /\ co[i].at = "new" /\ ~co[i].stop
    /\ item' = [item EXCEPT ![i].status = "running"]
    /\ co' = [co EXCEPT ![i].at = "exec"]
    /\ idle' = idle \ {co[i].agent}
    /\ UNCHANGED <<fut, waiting, line, listed, calls, mode>>

Settle(i, outcome) == fut' = [fut EXCEPT ![i] = IF @ = "pending" THEN outcome ELSE @]

TaskSucceeds(i) ==
    /\ co[i].at = "exec" /\ ~co[i].stop
    /\ IF item[i].status = "cancelled" THEN UNCHANGED <<item, fut>>
       ELSE /\ item' = [item EXCEPT ![i].status = "completed"]
            /\ Settle(i, "result")
    /\ idle' = idle \cup {co[i].agent}
    /\ CoEnds(i)
    /\ UNCHANGED <<waiting, line, listed, mode>>

MayRetry(n) == n < MaxRetries

\* Mutant: the retry does not wait for a place in the queue.
RequeueOrDrop(i) ==
    /\ line' = IF Full THEN line ELSE Append(line, i)
    /\ CoEnds(i)

\* The item goes back to the queue, when there is a place for it.
Requeue(i) ==
    IF Full THEN /\ co' = [co EXCEPT ![i].at = "put"]
                 /\ UNCHANGED <<line, calls>>
            ELSE line' = Append(line, i) /\ CoEnds(i)

\* _handle_failure(), after an exception or a timeout.
TaskFails(i) ==
    LET n == item[i].retries + 1
    IN  /\ co[i].at = "exec" /\ ~co[i].stop
        /\ idle' = idle \cup {co[i].agent}
        /\ \/ /\ item[i].status = "cancelled"
              /\ CoEnds(i)
              /\ UNCHANGED <<item, fut, line>>
           \/ /\ item[i].status # "cancelled" /\ MayRetry(n)
              /\ item' = [item EXCEPT ![i] = [status |-> "queued", retries |-> n]]
              /\ Requeue(i)
              /\ UNCHANGED fut
           \/ /\ item[i].status # "cancelled" /\ ~MayRetry(n)
              /\ item' = [item EXCEPT ![i] = [status |-> "failed", retries |-> n]]
              /\ Settle(i, "error")
              /\ CoEnds(i)
              /\ UNCHANGED line
        /\ UNCHANGED <<waiting, listed, mode>>

RequeueGoesOn(i) ==
    /\ co[i].at = "put" /\ ~co[i].stop /\ ~Full
    /\ line' = Append(line, i)
    /\ CoEnds(i)
    /\ UNCHANGED <<item, fut, waiting, listed, idle, mode>>

\* A cancelled coroutine ends; one that awaits the agent marks its item.
TaskStops(i) ==
    /\ co[i].stop
    /\ item' = IF co[i].at = "exec" THEN [item EXCEPT ![i].status = "cancelled"] ELSE item
    /\ idle' = IF co[i].at = "exec" THEN idle \cup {co[i].agent} ELSE idle
    /\ CoEnds(i)
    /\ UNCHANGED <<fut, waiting, line, listed, mode>>

\* The done-callback drops the entry of the item, whosever it is.
ForgetTask(i) ==
    /\ calls[i] > 0
    /\ calls' = [calls EXCEPT ![i] = @ - 1]
    /\ listed' = listed \ {i}
    /\ UNCHANGED <<item, fut, waiting, line, co, idle, mode>>

StoppedListed(S) ==
    [i \in Items |-> IF i \in S /\ co[i].at # "none" THEN [co[i] EXCEPT !.stop = TRUE]
                     ELSE co[i]]

\* cancel()
CancelItem(i) ==
    /\ item[i].status \in {"queued", "running", "cancelled"}
    /\ item' = [item EXCEPT ![i].status = "cancelled"]
    /\ co' = StoppedListed(listed \cap {i})
    /\ Settle(i, "cancelled")
    /\ UNCHANGED <<waiting, line, listed, calls, idle, mode>>

\* stop() cancels the loop and the listed tasks, and waits for them.
StopQueue ==
    /\ mode = "running"
    /\ mode' = "stopping"
    /\ co' = StoppedListed(listed)
    /\ UNCHANGED <<item, fut, waiting, line, listed, calls, idle>>

QueueStopped ==
    /\ mode = "stopping" /\ \A i \in listed : co[i].at = "none"
    /\ mode' = "stopped"
    /\ listed' = {}
    /\ fut' = [i \in Items |-> IF fut[i] = "pending" THEN "cancelled" ELSE fut[i]]
    /\ UNCHANGED <<item, waiting, line, co, calls, idle>>

QueueNext ==
    \/ \E i \in Items :
          \/ SubmitItem(i) \/ SubmitGoesOn(i) \/ TaskBegins(i) \/ TaskSucceeds(i)
          \/ TaskFails(i) \/ RequeueGoesOn(i) \/ TaskStops(i) \/ ForgetTask(i)
          \/ CancelItem(i)
    \/ Dispatch \/ StopQueue \/ QueueStopped

QueueSpec == QueueInit /\ [][QueueNext]_queueVars

-----------------------------------------------------------------------------
Occurrences(i) == Cardinality({k \in DOMAIN line : line[k] = i})

\* As long as somebody can wait for its future and the loop runs, an item is in
\* exactly one place, the call that submits it, the queue or a coroutine: no retry,
\* full queue or cancellation of another loses it or runs it twice.  A future tells
\* what became of its item, which is not tried more often than max_retries.
AgentQueueSound ==
    \A i \in Items :
        /\ fut[i] = "pending" /\ mode = "running"
           => Occurrences(i) + (IF i \in waiting THEN 1 ELSE 0)
                + (IF co[i].at # "none" THEN 1 ELSE 0) = 1
        /\ fut[i] = "result" => item[i].status = "completed"
        /\ fut[i] = "error" => item[i].status = "failed" /\ item[i].retries = MaxRetries
        /\ item[i].retries <= MaxRetries
=============================================================================
