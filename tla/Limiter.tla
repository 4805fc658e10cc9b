------------------------------ MODULE Limiter ------------------------------
(***************************************************************************)
(* ProviderLimiter of coreai/limiter.py: a concurrency semaphore and two   *)
(* token buckets that every call to one provider passes through.           *)
(*                                                                         *)
(* The clock runs in ticks, and a bucket's units are chosen so that one    *)
(* tick refills a whole number of them.  The code refills a bucket lazily, *)
(* whenever it is touched; refilling at every tick gives the same level at *)
(* every touch, because refill and refund both saturate at the capacity.   *)
(*                                                                         *)
(*   level    request_bucket.tokens, token_bucket.tokens (may go negative: *)
(*            reserve() always deducts, and the debtor sleeps)             *)
(*   free     the semaphore's value                                        *)
(*   queue    callers waiting on the semaphore, which asyncio wakes in     *)
(*            first-in first-out order and never lets a newcomer overtake  *)
(*   active   active_requests                                              *)
(*   acq      where each caller is inside acquire(), and the ticks left of *)
(*            its max_wait and of its sleep                                *)
(***************************************************************************)
EXTENDS Integers, FiniteSets, SequencesExt

CONSTANTS
    Callers,
    Slots,        \* concurrent_requests
    Capacity,     \* [Buckets -> size], requests_per_minute / tokens_per_minute
    Rate,         \* [Buckets -> units refilled per tick]
    Costs,        \* the estimated_tokens callers ask for
    MaxWaits,     \* the max_wait values callers pass; NoLimit is None
    NoLimit

Buckets == {"requests", "tokens"}

ASSUME LimiterAssumption ==
    /\ IsFiniteSet(Callers)
    /\ Slots \in Nat \ {0}
    /\ Capacity \in [Buckets -> Nat \ {0}]
    /\ Rate \in [Buckets -> Nat \ {0}]
    /\ Costs \subseteq Nat
    /\ MaxWaits \subseteq Nat \cup {NoLimit}
    /\ NoLimit \notin Nat

VARIABLES level, free, queue, active, acq

vars == <<level, free, queue, active, acq>>

-----------------------------------------------------------------------------
\* TokenBucket

Least(x, y) == IF x <= y THEN x ELSE y
Most(x, y) == IF x >= y THEN x ELSE y

\* What a caller takes from each bucket: reserve() clamps a request larger
\* than the bucket to the bucket.
Charge(cost) == [k \in Buckets |->
                    Least(IF k = "requests" THEN 1 ELSE cost, Capacity[k])]

\* _refill() over one tick.
Refilled(lv) == [k \in Buckets |-> Least(Capacity[k], lv[k] + Rate[k])]

\* reserve() on both buckets.
Reserved(lv, cost) == [k \in Buckets |-> lv[k] - Charge(cost)[k]]

\* Mutants of refund(): one that gives back more than reserve() took, one that
\* forgets the second bucket.
RefundedUnclamped(lv, cost) ==
    [k \in Buckets |-> Least(Capacity[k],
                             lv[k] + IF k = "requests" THEN 1 ELSE cost)]
RefundedRequestsOnly(lv, cost) ==
    [lv EXCEPT !["requests"] = Least(Capacity["requests"], @ + 1)]

\* refund() on both buckets.
Refunded(lv, cost) ==
    [k \in Buckets |-> Least(Capacity[k], lv[k] + Charge(cost)[k])]

\* Mutant: the wait is rounded down.
TicksForRoundedDown(d, r) == IF d <= 0 THEN 0 ELSE d \div r

\* A debt of d is covered in d / rate, that is in so many whole ticks.
TicksFor(d, r) == IF d <= 0 THEN 0 ELSE (d + r - 1) \div r

\* max(req_wait, tok_wait)
Wait(lv) == Most(TicksFor(-lv["requests"], Rate["requests"]),
                 TicksFor(-lv["tokens"], Rate["tokens"]))

-----------------------------------------------------------------------------
\* at: "out", "queued" (waiting for a slot), "sleeping" (slot and reservation
\* held, debt not yet covered), "in" (acquire() has returned).
\* left: ticks left of max_wait; due: ticks left to sleep.
Acquiring == [at: {"out", "queued", "sleeping", "in"}, cost: Costs \cup {0},
              left: Nat \cup {NoLimit}, due: Nat]

Out == [at |-> "out", cost |-> 0, left |-> NoLimit, due |-> 0]

Holding == {c \in Callers : acq[c].at \in {"sleeping", "in"}}
Inside == {c \in Callers : acq[c].at = "in"}

TypeOK ==
    /\ level \in [Buckets -> Int]
    /\ \A k \in Buckets : level[k] <= Capacity[k]
    /\ free \in 0..Slots
    /\ active \in 0..Slots
    /\ queue \in Seq(Callers)
    /\ acq \in [Callers -> Acquiring]

Init ==
    /\ level = Capacity
    /\ free = Slots
    /\ queue = << >>
    /\ active = 0
    /\ acq = [c \in Callers |-> Out]

\* The clock advances by one tick.
Less(t) == IF t \in Nat \ {0} THEN t - 1 ELSE t

Tick ==
    /\ level' = Refilled(level)
    /\ acq' = [c \in Callers |->
                [at |-> acq[c].at, cost |-> acq[c].cost,
                 left |-> Less(acq[c].left), due |-> Less(acq[c].due)]]
    /\ UNCHANGED <<free, queue, active>>

\* Mutant: the wait is never compared with max_wait.
TooLongNever(wait, left) == FALSE

\* wait > budget, with what is left of max_wait.
TooLong(wait, left) == left # NoLimit /\ wait > left

\* acquire() returns: the caller is in.
Admit(c) ==
    /\ active' = active + 1
    /\ acq' = [acq EXCEPT ![c] = [Out EXCEPT !.at = "in"]]

\* acquire() from the moment the caller holds a slot: reserve in both buckets;
\* give everything back and raise RateLimited if the wait does not fit in
\* max_wait; sleep off the debt; or go straight in.
Reserve(c, cost, left) ==
    LET lv == Reserved(level, cost)
        wait == Wait(lv)
    IN  \/ /\ TooLong(wait, left)
           /\ level' = Refunded(lv, cost)
           /\ acq' = [acq EXCEPT ![c] = Out]
           /\ UNCHANGED <<free, active>>
        \/ /\ ~TooLong(wait, left)
           /\ free' = free - 1
           /\ level' = lv
           /\ IF wait > 0
              THEN /\ acq' = [acq EXCEPT ![c] =
                                [at |-> "sleeping", cost |-> cost,
                                 left |-> left, due |-> wait]]
                   /\ UNCHANGED active
              ELSE Admit(c)

\* acquire() with a slot free and nobody waiting for one.
Enter(c) ==
    /\ acq[c].at = "out"
    /\ free > 0 /\ queue = << >>
    /\ \E cost \in Costs, w \in MaxWaits : Reserve(c, cost, w)
    /\ UNCHANGED queue

\* acquire() with no slot free: refused on the spot when max_wait is zero,
\* and otherwise the caller waits for a slot.
Queue(c) ==
    /\ acq[c].at = "out"
    /\ free = 0 \/ queue # << >>
    /\ \E cost \in Costs, w \in MaxWaits \ {0} :
          acq' = [acq EXCEPT ![c] = [at |-> "queued", cost |-> cost,
                                     left |-> w, due |-> 0]]
    /\ queue' = Append(queue, c)
    /\ UNCHANGED <<level, free, active>>

\* A slot has come free and the first waiter has it.
Dequeue(c) ==
    /\ free > 0 /\ queue # << >> /\ Head(queue) = c
    /\ queue' = Tail(queue)
    /\ Reserve(c, acq[c].cost, acq[c].left)

\* Mutant: a caller that gives up stays in the queue.
LeaveQueueBehind(c) ==
    /\ acq[c].at = "queued"
    /\ acq' = [acq EXCEPT ![c] = Out]
    /\ UNCHANGED <<level, free, queue, active>>

\* The wait for a slot ends without one: wait_for times out at max_wait, or
\* the caller is cancelled.
LeaveQueue(c) ==
    /\ acq[c].at = "queued"
    /\ \E i \in 1..Len(queue) : queue[i] = c /\ queue' = RemoveAt(queue, i)
    /\ acq' = [acq EXCEPT ![c] = Out]
    /\ UNCHANGED <<level, free, active>>

\* The sleep is over.
Wake(c) ==
    /\ acq[c].at = "sleeping"
    /\ acq[c].due = 0
    /\ Admit(c)
    /\ UNCHANGED <<level, free, queue>>

\* Mutant: a cancelled sleeper keeps its slot.
CancelSleepKeepingSlot(c) ==
    /\ acq[c].at = "sleeping"
    /\ level' = Refunded(level, acq[c].cost)
    /\ acq' = [acq EXCEPT ![c] = Out]
    /\ UNCHANGED <<free, queue, active>>

\* The caller is cancelled while it sleeps: `except BaseException` undoes the
\* two reservations and releases the slot.
CancelSleep(c) ==
    /\ acq[c].at = "sleeping"
    /\ level' = Refunded(level, acq[c].cost)
    /\ free' = free + 1
    /\ acq' = [acq EXCEPT ![c] = Out]
    /\ UNCHANGED <<queue, active>>

\* release() at the end of the call.
Release(c) ==
    /\ acq[c].at = "in"
    /\ active > 0
    /\ active' = active - 1
    /\ free' = free + 1
    /\ acq' = [acq EXCEPT ![c] = Out]
    /\ UNCHANGED <<level, queue>>

Step ==
    \E c \in Callers :
        \/ Enter(c)
        \/ Queue(c)
        \/ Dequeue(c)
        \/ LeaveQueue(c)
        \/ Wake(c)
        \/ CancelSleep(c)
        \/ Release(c)

Next == Tick \/ Step

Spec == Init /\ [][Next]_vars

\* Time passes, asyncio runs what is ready, and every admitted call ends.
Fairness ==
    /\ WF_vars(Tick)
    /\ \A c \in Callers : WF_vars(Dequeue(c)) /\ WF_vars(Wake(c)) /\ WF_vars(Release(c))

FairSpec == Spec /\ Fairness

-----------------------------------------------------------------------------
\* Every concurrency slot is free or held by exactly one caller, and
\* active_requests counts the callers acquire() let in: none is lost or handed
\* out twice by a timeout, a refusal or a cancellation half way through.
SlotsConserved ==
    /\ free + Cardinality(Holding) = Slots
    /\ active = Cardinality(Inside)

\* The queue holds exactly the callers waiting on the semaphore, once each.
QueueExact ==
    /\ ToSet(queue) = {c \in Callers : acq[c].at = "queued"}
    /\ IsInjective(queue)

\* No call is kept waiting past its max_wait: a caller goes to sleep only if
\* the debt it has run up, with the wait for a slot before it, fits.
SleepFitsBudget ==
    \A c \in Callers :
        acq[c].at = "sleeping" /\ acq[c].left # NoLimit => acq[c].due <= acq[c].left

\* What acquire() and release() keep exact, together: the slots, the queue for
\* them and the waits begun.
AdmissionExact == SlotsConserved /\ QueueExact /\ SleepFitsBudget

\* The docstring of acquire(): when admission would take too long "nothing is
\* consumed".  A bucket only ever goes down for a caller that is admitted or
\* put to sleep in that step.
NothingConsumedOnRefusal ==
    [][ \A k \in Buckets : level'[k] < level[k] =>
            \E c \in Callers : c \notin Holding /\ c \in Holding' ]_vars

\* Every caller waiting for a slot gets one, or gives up: no one is overtaken
\* for ever, and no slot is left idle while callers wait.
QueueDrains ==
    \A c \in Callers : acq[c].at = "queued" ~> acq[c].at # "queued"
=============================================================================
