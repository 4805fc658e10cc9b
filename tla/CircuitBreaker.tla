--------------------------- MODULE CircuitBreaker ---------------------------
(***************************************************************************)
(* One circuit breaker and the calls it admits.  The breaker's own state   *)
(* is the record b (BreakerOps); calls[c] is where each caller is:         *)
(*                                                                         *)
(*   "idle"   not admitted                                                 *)
(*   "fresh"  admitted while the circuit was CLOSED, and still in the      *)
(*            same closed period                                           *)
(*   "probe"  admitted as a probe, and still in the same half-open period  *)
(*   "stale"  in flight, but the period it was admitted in has ended: its  *)
(*            outcome says nothing about the present period                *)
(*                                                                         *)
(* The code does not keep these labels: calls is a history variable that   *)
(* lets the properties tell a probe from a latecomer.                      *)
(*                                                                         *)
(* This is the promise the breaker is built on: every admitted call is     *)
(* settled by exactly one of record_success, record_failure and release,   *)
(* and nothing else touches the breaker.  RoutingBreakers.tla states that  *)
(* the router keeps it.                                                    *)
(***************************************************************************)
EXTENDS BreakerOps, FiniteSets

CONSTANT Calls   \* concurrent callers of one provider

ASSUME CallsAssumption == IsFiniteSet(Calls)

VARIABLES b, calls

vars == <<b, calls>>

Kinds == {"idle", "fresh", "probe", "stale"}

InFlight == {c \in Calls : calls[c] # "idle"}
Probes == {c \in Calls : calls[c] = "probe"}

TypeOK ==
    /\ b \in Breaker
    /\ calls \in [Calls -> Kinds]

Init ==
    /\ b = NewBreaker
    /\ calls = [c \in Calls |-> "idle"]

\* The labels after the breaker moves to b2: when the circuit state changes
\* a period ends, and whatever is in flight becomes stale.
Relabelled(b2) ==
    [c \in Calls |->
        IF b2.state # b.state /\ calls[c] # "idle" THEN "stale" ELSE calls[c]]

-----------------------------------------------------------------------------
\* The injectable clock.
Tick ==
    /\ b' = Older(b)
    /\ UNCHANGED calls

\* would_allow(), snapshot(): reads that go through the `state` property.
Peek ==
    /\ b' = Observed(b)
    /\ calls' = Relabelled(b')

\* allow() answers True.
Allow(c) ==
    /\ calls[c] = "idle"
    /\ WouldAllow(b)
    /\ b' = Allowed(b)
    /\ calls' = [Relabelled(b') EXCEPT ![c] =
                    IF b'.state = "closed" THEN "fresh" ELSE "probe"]

\* allow() answers False; the caller goes on to another provider.
Refuse(c) ==
    /\ calls[c] = "idle"
    /\ ~WouldAllow(b)
    /\ b' = Allowed(b)
    /\ calls' = Relabelled(b')

Settle(c, b2) ==
    /\ calls[c] # "idle"
    /\ b' = b2
    /\ calls' = [Relabelled(b') EXCEPT ![c] = "idle"]

Succeed(c) == Settle(c, RecordSuccess(b))
Fail(c) == Settle(c, RecordFailure(b))
GiveBack(c) == Settle(c, Release(b))

-----------------------------------------------------------------------------
Next ==
    \/ Tick
    \/ Peek
    \/ \E c \in Calls :
        \/ Allow(c)
        \/ Refuse(c)
        \/ Succeed(c)
        \/ Fail(c)
        \/ GiveBack(c)

Spec == Init /\ [][Next]_vars

\* Time passes, and every admitted call ends one way or another: each await
\* under it is bounded by the per-attempt timeout or the request deadline.
Ends(c) == Succeed(c) \/ Fail(c) \/ GiveBack(c)

FairSpec ==
    /\ Spec
    /\ WF_vars(Tick)
    /\ \A c \in Calls : WF_vars(Ends(c))

-----------------------------------------------------------------------------
\* What the counters mean in each state: a closed circuit is below its
\* threshold, and an open one has no probe slot taken, so the half-open
\* period that follows it starts with every slot free.
BreakerConsistent ==
    /\ b.state = "closed" => b.failures < FailureThreshold
    /\ b.state = "open" => b.probes = 0

\* No slot is lost: every slot _probes_in_flight counts in a half-open period
\* is held by a probe of that period that is still running.  Were one counted
\* for a call that has ended, the breaker would refuse callers for ever, since
\* only a recorded outcome or a release() leaves HALF_OPEN or frees a slot.
NoLostProbeSlot == b.state = "half_open" => b.probes <= Cardinality(Probes)

\* The breaker's fields mean what they say: the counters in each state, and the
\* slots taken.
BreakerSound == BreakerConsistent /\ NoLostProbeSlot

\* An open circuit stays open for the whole of reset_timeout: whatever late
\* results arrive meanwhile, it admits nobody, does not close, and neither a
\* late success nor a late failure moves the end of the window.
OpenWindowHolds ==
    [][ b.state = "open" /\ b.age < ResetTimeout =>
            /\ b'.state = "open"
            /\ b'.age >= b.age
            /\ \A c \in Calls : calls[c] = "idle" => calls'[c] = "idle" ]_vars

\* Time and reads take an open circuit to half open and no further; it closes,
\* or opens, only in a step that records the end of a call it had admitted.
\* (A late outcome that finds the window over passes through HALF_OPEN within
\* the step.)  No peek, tick, refusal or admission opens or closes it.
OnlyOutcomesMoveTheCircuit ==
    [][ b'.state # b.state =>
          \/ b.state = "open" /\ b'.state = "half_open" /\ b.age >= ResetTimeout
          \/ b'.state # "half_open"
             /\ \E c \in Calls : calls[c] # "idle" /\ calls'[c] = "idle" ]_vars

\* A breaker that refuses callers admits one again, however its probes end:
\* the open window elapses and probe slots come back.
AdmitsAgain == []<>WouldAllow(b)

\* The circuit moves when it should: only by outcomes and time, and never into a
\* state in which it refuses for ever.
CircuitMoves == OnlyOutcomesMoveTheCircuit /\ AdmitsAgain

\* The comment in record_success: "only a half-open probe may close it".
OnlyAProbeCloses ==
    [][ b.state # "closed" /\ b'.state = "closed" =>
            \E c \in Calls : calls[c] = "probe" /\ calls'[c] = "idle" ]_vars
=============================================================================
