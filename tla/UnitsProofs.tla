---------------------------- MODULE UnitsProofs -----------------------------
(***************************************************************************)
(* Proofs about parts that stand alone: the circuit breaker, for every     *)
(* threshold, timeout, probe limit and finite set of callers; the kernel's *)
(* scheduler and context windows and the chat pane, for every number of    *)
(* jobs, agents and messages; the books and the response cache of the      *)
(* router, for every finite set of vendors; the keys and their pool, for   *)
(* every finite set of provider names and every number of keys; and the    *)
(* classification of errors with the retries, for every set of exceptions, *)
(* every number of executions and any waits and deadlines.                 *)
(***************************************************************************)
EXTENDS CircuitBreaker, Housekeeping, ChatPane, Answers, Keys, Retrying,
        FiniteSetTheorems, SequenceTheorems, WellFoundedInduction, TLAPS

\* TypeOK with what the counters mean: a probe slot can only be handed out
\* below the limit, and a failure only counted below the threshold.
IInv == TypeOK /\ BreakerConsistent

-----------------------------------------------------------------------------
\* What each method of the breaker does to a well-formed record.  They are
\* the only facts about the record the step proofs use.

Consistent(x) ==
    /\ x \in Breaker
    /\ x.state = "closed" => x.failures < FailureThreshold
    /\ x.state = "open" => x.probes = 0

\* Reading the state property keeps a record consistent, and moves nothing
\* but an open circuit whose window is over.
LEMMA ObservedOK ==
    ASSUME NEW x, Consistent(x)
    PROVE  /\ Consistent(Observed(x))
           /\ ~(x.state = "open" /\ x.age >= ResetTimeout) => Observed(x) = x
           /\ Observed(x).state = "open" => x.state = "open" /\ x.age < ResetTimeout
<1>1. x \in Breaker /\ x.age \in Nat
  BY BreakerAssumption DEF Consistent, Breaker
<1>2. CASE x.state = "open" /\ x.age >= ResetTimeout
  <2>1. Observed(x) = [state |-> "half_open", failures |-> x.failures,
                     age |-> x.age, probes |-> 0]
    BY <1>2 DEF Observed
  <2>2. Observed(x) \in Breaker /\ Observed(x).state = "half_open"
    BY <1>1, <2>1, BreakerAssumption DEF Breaker, CircuitState
  <2> QED
    BY <1>2, <2>2 DEF Consistent
<1>3. CASE ~(x.state = "open" /\ x.age >= ResetTimeout)
  <2>1. Observed(x) = x
    BY <1>3 DEF Observed
  <2> QED
    BY <1>1, <1>3, <2>1, BreakerAssumption
<1> QED
  BY <1>2, <1>3

\* The clock ticking keeps a record consistent.
LEMMA OlderOK ==
    ASSUME NEW x, Consistent(x)
    PROVE  Consistent(Older(x)) /\ Older(x).state = x.state /\ Older(x).age >= x.age
BY BreakerAssumption DEF Consistent, Older, Breaker, CircuitState

\* Giving a slot back keeps a record well formed.
LEMMA FreedOK ==
    ASSUME NEW x, x \in Breaker
    PROVE  /\ Freed(x) \in Breaker
           /\ Freed(x).state = x.state /\ Freed(x).age = x.age
           /\ Freed(x).failures = x.failures
           /\ x.probes = 0 => Freed(x).probes = 0
           /\ x.probes > 0 => Freed(x).probes = x.probes - 1
BY BreakerAssumption DEF Freed, Breaker

\* allow() keeps a record consistent: it never counts past the limit.
LEMMA AllowedOK ==
    ASSUME NEW x, Consistent(x)
    PROVE  Consistent(Allowed(x))
<1>1. Consistent(Observed(x))
  BY ObservedOK
<1> QED
  BY <1>1, BreakerAssumption DEF Allowed, Admits, Consistent, Breaker, CircuitState

\* record_success() keeps a record consistent.
LEMMA RecordSuccessOK ==
    ASSUME NEW x, Consistent(x)
    PROVE  Consistent(RecordSuccess(x))
<1> DEFINE o == Observed(x)
<1>1. Consistent(o)
  BY ObservedOK
<1>2. o \in Breaker /\ Freed(o) \in Breaker /\ o.state \in CircuitState
  BY <1>1, FreedOK DEF Consistent, Breaker
<1>3. ASSUME NEW y \in Breaker PROVE Consistent(Closed(y))
  BY BreakerAssumption DEF Closed, Consistent, Breaker, CircuitState
<1>4. RecordSuccess(x) \in {o, Closed(Freed(o)), Closed(o)}
  BY <1>2 DEF RecordSuccess, CircuitState
<1> QED
  BY <1>1, <1>2, <1>3, <1>4

\* record_failure() keeps a record consistent: the count never passes the
\* threshold, because reaching it opens the circuit.
LEMMA RecordFailureOK ==
    ASSUME NEW x, Consistent(x)
    PROVE  Consistent(RecordFailure(x))
<1> DEFINE o == Observed(x)
           n == o.failures + 1
<1>1. Consistent(o)
  BY ObservedOK
<1>2. RecordFailure(x) =
        CASE o.state = "open" -> o
          [] o.state = "half_open" -> Opened(Freed(o))
          [] o.state = "closed" ->
                IF n >= FailureThreshold
                THEN Opened([o EXCEPT !.failures = n])
                ELSE [o EXCEPT !.failures = n]
  BY DEF RecordFailure
<1>3. o \in Breaker /\ o.state \in CircuitState
  BY <1>1 DEF Consistent, Breaker
<1>4. CASE o.state = "open"
  BY <1>1, <1>2, <1>4
<1>5. CASE o.state = "half_open"
  <2>1. RecordFailure(x) = Opened(Freed(o))
    BY <1>2, <1>5
  <2>2. Freed(o) \in Breaker
    BY <1>3, FreedOK
  <2> QED
    BY <2>1, <2>2, BreakerAssumption DEF Opened, Consistent, Breaker, CircuitState
<1>6. CASE o.state = "closed"
  <2>1. RecordFailure(x) = IF n >= FailureThreshold
                           THEN Opened([o EXCEPT !.failures = n])
                           ELSE [o EXCEPT !.failures = n]
    BY <1>2, <1>6
  <2>2. n \in 0..FailureThreshold
    BY <1>1, <1>6, BreakerAssumption DEF Consistent, Breaker
  <2>3. [o EXCEPT !.failures = n] \in Breaker
    BY <1>3, <2>2 DEF Breaker
  <2> HIDE DEF o, n
  <2> QED
    BY <1>3, <1>6, <2>1, <2>2, <2>3, BreakerAssumption
    DEF Opened, Consistent, Breaker, CircuitState
<1> QED
  BY <1>3, <1>4, <1>5, <1>6 DEF CircuitState

\* release() keeps a record consistent.
LEMMA ReleaseOK ==
    ASSUME NEW x, Consistent(x)
    PROVE  Consistent(Release(x))
BY FreedOK DEF Release, Consistent

-----------------------------------------------------------------------------
\* The labels stay labels whatever happens to the breaker.
LEMMA RelabelledType ==
    ASSUME TypeOK, NEW x
    PROVE  Relabelled(x) \in [Calls -> Kinds]
BY DEF TypeOK, Relabelled, Kinds

\* The inductive invariant is preserved by every step.
LEMMA InductiveStep == IInv /\ [Next]_vars => IInv'
<1> SUFFICES ASSUME IInv, [Next]_vars PROVE IInv'
  OBVIOUS
<1> USE DEF IInv
<1>1. Consistent(b)
  BY DEF TypeOK, BreakerConsistent, Consistent
<1>2. SUFFICES Consistent(b') /\ calls' \in [Calls -> Kinds]
  BY DEF TypeOK, BreakerConsistent, Consistent
<1>3. ASSUME NEW c \in Calls, NEW b2, Consistent(b2), Settle(c, b2)
      PROVE  Consistent(b') /\ calls' \in [Calls -> Kinds]
  BY <1>3, RelabelledType DEF Settle, Kinds
<1>4. CASE Tick
  BY <1>1, <1>4, OlderOK DEF Tick, TypeOK
<1>5. CASE Peek
  BY <1>1, <1>5, ObservedOK, RelabelledType DEF Peek
<1>6. ASSUME NEW c \in Calls, Allow(c) PROVE Consistent(b') /\ calls' \in [Calls -> Kinds]
  <2>1. Consistent(b')
    BY <1>1, <1>6, AllowedOK DEF Allow
  <2>2. calls' \in [Calls -> Kinds]
    BY <1>6, RelabelledType DEF Allow, Kinds
  <2> QED BY <2>1, <2>2
<1>7. ASSUME NEW c \in Calls, Refuse(c) PROVE Consistent(b') /\ calls' \in [Calls -> Kinds]
  BY <1>1, <1>7, AllowedOK, RelabelledType DEF Refuse
<1>8. ASSUME NEW c \in Calls, Succeed(c) PROVE Consistent(b') /\ calls' \in [Calls -> Kinds]
  BY <1>1, <1>3, <1>8, RecordSuccessOK DEF Succeed
<1>9. ASSUME NEW c \in Calls, Fail(c) PROVE Consistent(b') /\ calls' \in [Calls -> Kinds]
  BY <1>1, <1>3, <1>9, RecordFailureOK DEF Fail
<1>10. ASSUME NEW c \in Calls, GiveBack(c) PROVE Consistent(b') /\ calls' \in [Calls -> Kinds]
  BY <1>1, <1>3, <1>10, ReleaseOK DEF GiveBack
<1>11. CASE UNCHANGED vars
  BY <1>1, <1>11 DEF vars, TypeOK
<1> QED
  BY <1>4, <1>5, <1>6, <1>7, <1>8, <1>9, <1>10, <1>11 DEF Next

\* The initial state satisfies the inductive invariant.
LEMMA InductiveInit == Init => IInv
BY BreakerAssumption
DEF Init, IInv, TypeOK, BreakerConsistent, NewBreaker, Breaker, CircuitState, Kinds

\* The breaker's fields keep their types: in particular _probes_in_flight
\* never passes half_open_max_calls nor _failures the threshold.
THEOREM TypeCorrect == Spec => []TypeOK
<1>1. IInv => TypeOK
  BY DEF IInv
<1> QED
  BY <1>1, InductiveInit, InductiveStep, PTL DEF Spec

\* A closed circuit is always below its threshold and an open one always
\* starts its next half-open period with every probe slot free.
THEOREM ConsistentAlways == Spec => []BreakerConsistent
<1>1. IInv => BreakerConsistent
  BY DEF IInv
<1> QED
  BY <1>1, InductiveInit, InductiveStep, PTL DEF Spec

-----------------------------------------------------------------------------
\* Inside the open window no method moves the breaker, and allow() refuses.
LEMMA OpenWindow ==
    ASSUME NEW x, Consistent(x), x.state = "open", x.age < ResetTimeout
    PROVE  /\ Observed(x) = x /\ ~WouldAllow(x) /\ Allowed(x) = x
           /\ RecordSuccess(x) = x /\ RecordFailure(x) = x /\ Release(x) = x
<1>1. ~(x.age >= ResetTimeout)
  BY BreakerAssumption DEF Consistent, Breaker
<1>2. Observed(x) = x
  BY <1>1 DEF Observed
<1> QED
  BY <1>2 DEF WouldAllow, Admits, Allowed, RecordSuccess, RecordFailure, Release

\* No late success or failure ends the open window or moves it, and nobody is
\* admitted before it is over.
THEOREM OpenWindowAlways == Spec => OpenWindowHolds
<1> DEFINE Holds == b.state = "open" /\ b.age < ResetTimeout =>
                      /\ b'.state = "open"
                      /\ b'.age >= b.age
                      /\ \A c \in Calls : calls[c] = "idle" => calls'[c] = "idle"
<1>1. IInv /\ [Next]_vars => [Holds]_vars
  <2> SUFFICES ASSUME IInv, Next, b.state = "open", b.age < ResetTimeout
               PROVE  /\ b'.state = "open"
                      /\ b'.age >= b.age
                      /\ \A c \in Calls : calls[c] = "idle" => calls'[c] = "idle"
    OBVIOUS
  <2>1. Consistent(b) /\ b.age \in Nat
    BY BreakerAssumption DEF IInv, TypeOK, BreakerConsistent, Consistent, Breaker
  <2>2. /\ Observed(b) = b /\ ~WouldAllow(b) /\ Allowed(b) = b
        /\ RecordSuccess(b) = b /\ RecordFailure(b) = b /\ Release(b) = b
    BY <2>1, OpenWindow
  <2>3. ASSUME b' = b PROVE \A c \in Calls : Relabelled(b')[c] = calls[c]
    BY <2>3 DEF Relabelled
  <2>4. ASSUME NEW c \in Calls, Settle(c, b)
        PROVE  b' = b /\ \A d \in Calls : calls[d] = "idle" => calls'[d] = "idle"
    BY <2>3, <2>4 DEF Settle, Relabelled
  <2>5. CASE Tick
    BY <2>1, <2>5, OlderOK DEF Tick
  <2>6. CASE Peek
    BY <2>1, <2>2, <2>3, <2>6 DEF Peek
  <2>7. ASSUME NEW c \in Calls, Allow(c) PROVE FALSE
    BY <2>2, <2>7 DEF Allow
  <2>8. ASSUME NEW c \in Calls, Refuse(c)
        PROVE  b' = b /\ \A d \in Calls : calls[d] = "idle" => calls'[d] = "idle"
    BY <2>2, <2>3, <2>8 DEF Refuse
  <2>9. ASSUME NEW c \in Calls, Succeed(c) \/ Fail(c) \/ GiveBack(c)
        PROVE  b' = b /\ \A d \in Calls : calls[d] = "idle" => calls'[d] = "idle"
    BY <2>2, <2>4, <2>9 DEF Succeed, Fail, GiveBack
  <2> QED
    BY <2>1, <2>5, <2>6, <2>7, <2>8, <2>9 DEF Next
<1> QED
  BY <1>1, InductiveInit, InductiveStep, PTL DEF Spec, OpenWindowHolds

-----------------------------------------------------------------------------
\* Which states of the circuit a method may leave behind.
LEMMA StatesReached ==
    ASSUME NEW x, Consistent(x)
    PROVE  /\ Older(x).state = x.state /\ Release(x).state = x.state
           /\ Observed(x).state # x.state
              => x.state = "open" /\ Observed(x).state = "half_open" /\ x.age >= ResetTimeout
           /\ Allowed(x).state = Observed(x).state
           /\ RecordSuccess(x).state # "half_open" /\ RecordFailure(x).state # "half_open"
<1>1. x \in Breaker /\ Consistent(Observed(x))
  BY ObservedOK DEF Consistent
<1> DEFINE o == Observed(x)
<1>2. o \in Breaker /\ o.state \in {"closed", "open", "half_open"}
  BY <1>1 DEF Consistent, Breaker, CircuitState
<1>3. Older(x).state = x.state
  BY OlderOK
<1>4. Release(x).state = x.state
  BY <1>1, FreedOK DEF Release
<1>5. o.state # x.state => x.state = "open" /\ o.state = "half_open" /\ x.age >= ResetTimeout
  BY DEF Observed
<1>6. Allowed(x).state = o.state
  <2> HIDE DEF o
  <2>1. [o EXCEPT !.probes = o.probes + 1].state = o.state
    BY <1>2 DEF Breaker
  <2> QED
    BY <2>1 DEF Allowed, o
<1>7. RecordSuccess(x).state # "half_open"
  <2>1. CASE o.state = "open"
    BY <2>1 DEF RecordSuccess
  <2>2. CASE o.state = "half_open"
    BY <2>2 DEF RecordSuccess, Closed
  <2>3. CASE o.state = "closed"
    BY <2>3 DEF RecordSuccess, Closed
  <2> QED
    BY <1>2, <2>1, <2>2, <2>3
<1>8. RecordFailure(x).state # "half_open"
  <2>1. CASE o.state = "open"
    BY <2>1 DEF RecordFailure
  <2>2. CASE o.state = "half_open"
    BY <2>2 DEF RecordFailure, Opened
  <2>3. CASE o.state = "closed"
    <3> HIDE DEF o
    <3>1. [o EXCEPT !.failures = o.failures + 1].state = "closed"
      BY <1>2, <2>3 DEF Breaker
    <3> QED
      BY <2>3, <3>1 DEF RecordFailure, Opened, o
  <2> QED
    BY <1>2, <2>1, <2>2, <2>3
<1> QED
  BY <1>3, <1>4, <1>5, <1>6, <1>7, <1>8

\* Only the recorded outcome of a call the breaker had admitted opens or closes the
\* circuit; time and reads take it from open to half open, after the whole window.
THEOREM OutcomesAlways == Spec => OnlyOutcomesMoveTheCircuit
<1> DEFINE Moves == b'.state # b.state =>
                      \/ b.state = "open" /\ b'.state = "half_open" /\ b.age >= ResetTimeout
                      \/ /\ b'.state # "half_open"
                         /\ \E c \in Calls : calls[c] # "idle" /\ calls'[c] = "idle"
<1>1. IInv /\ [Next]_vars => [Moves]_vars
  <2> SUFFICES ASSUME IInv, Next, b'.state # b.state
               PROVE  \/ b.state = "open" /\ b'.state = "half_open" /\ b.age >= ResetTimeout
                      \/ /\ b'.state # "half_open"
                         /\ \E c \in Calls : calls[c] # "idle" /\ calls'[c] = "idle"
    OBVIOUS
  <2>1. Consistent(b)
    BY DEF IInv, TypeOK, BreakerConsistent, Consistent
  <2>2. /\ Older(b).state = b.state /\ Release(b).state = b.state
        /\ Observed(b).state # b.state
           => b.state = "open" /\ Observed(b).state = "half_open" /\ b.age >= ResetTimeout
        /\ Allowed(b).state = Observed(b).state
        /\ RecordSuccess(b).state # "half_open" /\ RecordFailure(b).state # "half_open"
    BY <2>1, StatesReached
  <2>3. CASE Tick \/ Peek
    BY <2>2, <2>3 DEF Tick, Peek
  <2>4. ASSUME NEW c \in Calls, Allow(c) \/ Refuse(c)
        PROVE  b.state = "open" /\ b'.state = "half_open" /\ b.age >= ResetTimeout
    BY <2>2, <2>4 DEF Allow, Refuse
  <2>5. ASSUME NEW c \in Calls, NEW b2, Settle(c, b2), b2.state # "half_open"
        PROVE  b'.state # "half_open" /\ calls[c] # "idle" /\ calls'[c] = "idle"
    BY <2>5 DEF Settle, Relabelled
  <2>6. ASSUME NEW c \in Calls, Succeed(c) \/ Fail(c)
        PROVE  b'.state # "half_open" /\ calls[c] # "idle" /\ calls'[c] = "idle"
    BY <2>2, <2>5, <2>6 DEF Succeed, Fail
  <2>7. ASSUME NEW c \in Calls, GiveBack(c) PROVE FALSE
    BY <2>2, <2>7 DEF GiveBack, Settle
  <2> QED
    BY <2>3, <2>4, <2>6, <2>7 DEF Next
<1> QED
  BY <1>1, InductiveInit, InductiveStep, PTL DEF Spec, OnlyOutcomesMoveTheCircuit

-----------------------------------------------------------------------------
\* How the probe count and the circuit state change together: in a half-open
\* period only admission takes a slot, and only the end of a call frees one.
LEMMA HalfOpenMoves ==
    ASSUME NEW x, Consistent(x)
    PROVE  /\ Older(x).state = x.state /\ Older(x).probes = x.probes
           /\ Observed(x).state = "half_open" /\ x.state # "half_open"
                => Observed(x).probes = 0
           /\ x.state = "half_open" => Observed(x) = x
           /\ RecordSuccess(x).state # "half_open"
           /\ RecordFailure(x).state # "half_open"
           /\ Release(x).state = x.state
           /\ x.state = "half_open" /\ x.probes > 0 => Release(x).probes = x.probes - 1
           /\ x.state = "half_open" /\ x.probes = 0 => Release(x).probes = 0
<1>1. x \in Breaker /\ x.state \in CircuitState /\ Freed(x) \in Breaker
  BY FreedOK DEF Consistent, Breaker
<1>2. Older(x).state = x.state /\ Older(x).probes = x.probes
  BY <1>1 DEF Older, Breaker
<1>3. /\ Observed(x).state = "half_open" /\ x.state # "half_open"
           => Observed(x).probes = 0
      /\ x.state = "half_open" => Observed(x) = x
      /\ Observed(x).state \in CircuitState
  BY <1>1 DEF Observed, CircuitState
<1>4. RecordSuccess(x).state # "half_open"
  BY <1>3 DEF RecordSuccess, Closed, CircuitState
<1>5. RecordFailure(x).state # "half_open"
  <2>1. CASE Observed(x).state = "open"
    BY <2>1 DEF RecordFailure
  <2>2. CASE Observed(x).state = "half_open"
    BY <2>2 DEF RecordFailure, Opened
  <2>3. CASE Observed(x).state = "closed"
    <3> DEFINE o == Observed(x)
               n == o.failures + 1
    <3>1. RecordFailure(x) = IF n >= FailureThreshold
                             THEN Opened([o EXCEPT !.failures = n])
                             ELSE [o EXCEPT !.failures = n]
      BY <2>3 DEF RecordFailure
    <3>2. o \in Breaker
      BY ObservedOK DEF Consistent
    <3>3. [o EXCEPT !.failures = n].state = "closed"
      BY <2>3, <3>2 DEF Breaker
    <3> QED
      BY <3>1, <3>3 DEF Opened
  <2> QED
    BY <1>3, <2>1, <2>2, <2>3 DEF CircuitState
<1>6. /\ Release(x).state = x.state
      /\ x.state = "half_open" /\ x.probes > 0 => Release(x).probes = x.probes - 1
      /\ x.state = "half_open" /\ x.probes = 0 => Release(x).probes = 0
  BY <1>1, FreedOK DEF Release
<1> QED
  BY <1>2, <1>3, <1>4, <1>5, <1>6

\* No probe slot is ever counted for a call that has ended: allow(), the three
\* ways to settle, and the changes of period keep the count within the probes
\* in flight.
THEOREM NoSlotLost == Spec => []NoLostProbeSlot
<1> DEFINE J == IInv /\ NoLostProbeSlot
<1>1. IsFiniteSet(Probes) /\ Cardinality(Probes) \in Nat
  <2>1. Probes \subseteq Calls
    BY DEF Probes
  <2> QED
    BY <2>1, CallsAssumption, FS_Subset, FS_CardinalityType
<1>2. IsFiniteSet(Probes') /\ Cardinality(Probes') \in Nat
  <2>1. Probes' \subseteq Calls
    BY DEF Probes
  <2> QED
    BY <2>1, CallsAssumption, FS_Subset, FS_CardinalityType
<1>3. Init => J
  BY <1>1, InductiveInit DEF Init, NewBreaker, NoLostProbeSlot
<1>4. J /\ [Next]_vars => J'
  <2> SUFFICES ASSUME J, [Next]_vars, b'.state = "half_open"
               PROVE  b'.probes <= Cardinality(Probes')
    BY InductiveStep DEF NoLostProbeSlot
  <2>1. Consistent(b) /\ Consistent(b') /\ TypeOK /\ TypeOK'
        /\ b.probes \in Nat /\ b'.probes \in Nat
    BY InductiveStep, BreakerAssumption
    DEF IInv, TypeOK, BreakerConsistent, Consistent, Breaker
  <2>2. ASSUME b'.state = b.state PROVE \A c \in Calls : Relabelled(b')[c] = calls[c]
    BY <2>2 DEF Relabelled
  <2>3. ASSUME b'.state = b.state, b'.probes = b.probes, calls' = calls
        PROVE  b'.probes <= Cardinality(Probes')
    BY <2>3 DEF NoLostProbeSlot, Probes
  <2>4. ASSUME NEW c \in Calls, calls[c] # "idle", b' = Release(b),
               calls' = [Relabelled(b') EXCEPT ![c] = "idle"]
        PROVE  b'.probes <= Cardinality(Probes')
    <3>1. b.state = "half_open" /\ b'.state = b.state
      BY <2>1, <2>4, HalfOpenMoves
    <3>2. b.probes <= Cardinality(Probes)
      BY <3>1 DEF NoLostProbeSlot
    <3>3. calls' = [calls EXCEPT ![c] = "idle"]
      BY <2>1, <2>2, <2>4, <3>1 DEF TypeOK, Relabelled
    <3>4. Probes' = Probes \ {c}
      BY <3>3, <2>1 DEF Probes, TypeOK
    <3>5. Cardinality(Probes') >= Cardinality(Probes) - 1
      BY <1>1, <3>4, FS_RemoveElement
    <3>6. b'.probes = IF b.probes > 0 THEN b.probes - 1 ELSE 0
      BY <2>1, <2>4, <3>1, HalfOpenMoves
    <3> QED
      BY <1>1, <1>2, <2>1, <3>2, <3>5, <3>6
  <2>5. CASE Tick
    BY <2>1, <2>3, <2>5, HalfOpenMoves DEF Tick
  <2>6. CASE Peek
    <3>1. CASE b.state = "half_open"
      <4>1. b' = b
        BY <2>1, <2>6, <3>1, HalfOpenMoves DEF Peek
      <4>2. calls' = calls
        BY <2>1, <2>6, <4>1 DEF Peek, Relabelled, TypeOK
      <4> QED
        BY <2>3, <4>1, <4>2
    <3>2. CASE b.state # "half_open"
      <4>1. b'.probes = 0
        BY <2>1, <2>6, <3>2, HalfOpenMoves DEF Peek
      <4> QED
        BY <1>2, <4>1
    <3> QED
      BY <3>1, <3>2
  <2>7. ASSUME NEW c \in Calls, Allow(c) PROVE b'.probes <= Cardinality(Probes')
    <3> DEFINE o == Observed(b)
    <3>1. Consistent(o) /\ o.probes \in Nat
      BY <2>1, ObservedOK, BreakerAssumption DEF Consistent, Breaker
    <3>2. o.state = "half_open" /\ b'.probes = o.probes + 1
      <4>1. b' = IF Admits(o) /\ o.state = "half_open"
                 THEN [o EXCEPT !.probes = @ + 1] ELSE o
        BY <2>7 DEF Allow, Allowed
      <4>2. Admits(o)
        BY <2>7 DEF Allow, WouldAllow
      <4>3. o \in Breaker
        BY <3>1 DEF Consistent
      <4>4. [o EXCEPT !.probes = @ + 1].state = o.state
        BY <4>3 DEF Breaker
      <4>5. [o EXCEPT !.probes = @ + 1].probes = o.probes + 1
        BY <4>3 DEF Breaker
      <4> HIDE DEF o
      <4> QED
        BY <4>1, <4>2, <4>4, <4>5
    <3>3. Probes' = {d \in Calls : Relabelled(b')[d] = "probe"} \cup {c}
      BY <2>1, <2>7, RelabelledType DEF Allow, Probes
    <3>4. CASE b.state = "half_open"
      <4>1. o = b
        BY <2>1, <3>4, HalfOpenMoves
      <4>2. Probes' = Probes \cup {c}
        BY <2>2, <3>3, <3>4 DEF Probes
      <4>3. c \notin Probes
        BY <2>7 DEF Allow, Probes
      <4>4. Cardinality(Probes') = Cardinality(Probes) + 1
        BY <1>1, <4>2, <4>3, FS_AddElement
      <4> QED
        BY <1>1, <2>1, <3>2, <3>4, <4>1, <4>4 DEF NoLostProbeSlot
    <3>5. CASE b.state # "half_open"
      <4>1. o.probes = 0
        BY <2>1, <3>2, <3>5, HalfOpenMoves
      <4>2. b'.probes = 1
        BY <3>2, <4>1
      <4>3. {c} \subseteq Probes'
        BY <3>3
      <4>4. Cardinality(Probes') # 0
        BY <1>2, <4>3, FS_EmptySet
      <4> QED
        BY <1>2, <4>2, <4>4
    <3> QED
      BY <3>4, <3>5
  <2>8. ASSUME NEW c \in Calls, Refuse(c) PROVE b'.probes <= Cardinality(Probes')
    <3>1. b' = Observed(b)
      BY <2>8 DEF Refuse, Allowed, WouldAllow
    <3>2. CASE b.state = "half_open"
      <4>1. b' = b
        BY <2>1, <3>1, <3>2, HalfOpenMoves
      <4>2. calls' = calls
        BY <2>1, <2>8, <4>1 DEF Refuse, Relabelled, TypeOK
      <4> QED
        BY <2>3, <4>1, <4>2
    <3>3. CASE b.state # "half_open"
      <4>1. b'.probes = 0
        BY <2>1, <3>1, <3>3, HalfOpenMoves
      <4> QED
        BY <1>2, <4>1
    <3> QED
      BY <3>2, <3>3
  <2>9. ASSUME NEW c \in Calls, Succeed(c) \/ Fail(c) PROVE FALSE
    BY <2>1, <2>9, HalfOpenMoves DEF Succeed, Fail, Settle
  <2>10. ASSUME NEW c \in Calls, GiveBack(c) PROVE b'.probes <= Cardinality(Probes')
    BY <2>4, <2>10 DEF GiveBack, Settle
  <2>11. CASE UNCHANGED vars
    BY <2>3, <2>11 DEF vars
  <2> QED
    BY <2>5, <2>6, <2>7, <2>8, <2>9, <2>10, <2>11 DEF Next
<1>5. J => NoLostProbeSlot
  OBVIOUS
<1> HIDE DEF J
<1> QED
  BY <1>3, <1>4, <1>5, PTL DEF Spec

\* The breaker's state and its count of probe slots are sound together, for any
\* threshold, window, probe limit and any number of callers.
THEOREM SoundAlways == Spec => []BreakerSound
  BY ConsistentAlways, NoSlotLost, PTL DEF BreakerSound

-----------------------------------------------------------------------------
\* A sequence, whatever it is of.
IsSeq(s) == \E S : s \in Seq(S)

LEMMA SeqShape ==
    ASSUME NEW s, IsSeq(s)
    PROVE  Len(s) \in Nat /\ DOMAIN s = 1..Len(s)
BY DEF IsSeq

\* Sequences of anything: adding at the end and taking one out.
LEMMA AppendOK ==
    ASSUME NEW s, IsSeq(s), NEW e
    PROVE  /\ IsSeq(Append(s, e)) /\ Len(Append(s, e)) = Len(s) + 1 /\ Len(s) \in Nat
           /\ Append(s, e)[Len(s) + 1] = e
           /\ \A i \in 1..Len(s) : Append(s, e)[i] = s[i]
<1>1. PICK S : s \in Seq(S)
  BY DEF IsSeq
<1>2. s \in Seq(S \cup {e}) /\ e \in S \cup {e}
  BY <1>1
<1>3. /\ Append(s, e) \in Seq(S \cup {e}) /\ Len(Append(s, e)) = Len(s) + 1 /\ Len(s) \in Nat
      /\ Append(s, e)[Len(s) + 1] = e
      /\ \A i \in 1..Len(s) : Append(s, e)[i] = s[i]
  BY <1>2
<1> QED
  BY <1>3 DEF IsSeq

LEMMA SeqRemoveAt ==
    ASSUME NEW s, IsSeq(s), NEW i \in DOMAIN s
    PROVE  IsSeq(RemoveAt(s, i)) /\ Len(RemoveAt(s, i)) = Len(s) - 1 /\ Len(s) \in Nat
<1>1. PICK S : s \in Seq(S)
  BY DEF IsSeq
<1>2. i \in 1..Len(s) /\ Len(s) \in Nat
  BY <1>1
<1> DEFINE before == SubSeq(s, 1, i - 1)
           after == SubSeq(s, i + 1, Len(s))
<1>3. before \in Seq(S) /\ Len(before) = i - 1
  BY <1>1, <1>2
<1>4. after \in Seq(S) /\ Len(after) = Len(s) - i
  BY <1>1, <1>2
<1>5. RemoveAt(s, i) = before \o after
  BY DEF RemoveAt
<1> HIDE DEF before, after
<1>6. before \o after \in Seq(S) /\ Len(before \o after) = Len(s) - 1
  BY <1>2, <1>3, <1>4
<1> QED
  BY <1>2, <1>5, <1>6 DEF IsSeq

\* A set of numbers has a smallest member.
Less == {ss \in Nat \X Nat : ss[1] < ss[2]}

LEMMA NotLess ==
    ASSUME NEW x \in Nat, NEW y \in Nat, <<y, x>> \notin Less
    PROVE  x <= y
<1>1. <<y, x>> \in Nat \X Nat /\ <<y, x>>[1] = y /\ <<y, x>>[2] = x
  OBVIOUS
<1>2. ~(y < x)
  BY <1>1, Zenon DEF Less
<1> QED
  BY <1>2

LEMMA Smallest ==
    ASSUME NEW S \in SUBSET Nat, S # {}
    PROVE  \E x \in S : \A y \in S : x <= y
<1>1. IsWellFoundedOn(Less, Nat)
  BY NatLessThanWellFounded DEF OpToRel, Less
<1>2. PICK x \in S : \A y \in S : ~(<<y, x>> \in Less)
  BY <1>1, WFMin
<1> QED
  BY <1>2, NotLess

\* Counting one by one: owner x has the numbers 1 to n.
Column(x, n) == {x} \X (1..n)

LEMMA ColumnOK ==
    ASSUME NEW x, NEW n \in Nat
    PROVE  IsFiniteSet(Column(x, n)) /\ Cardinality(Column(x, n)) = n
<1>1. IsFiniteSet({x}) /\ Cardinality({x}) = 1
  BY FS_Singleton
<1>2. IsFiniteSet(1..n) /\ Cardinality(1..n) = n
  BY FS_Interval
<1>3. /\ IsFiniteSet({x} \X (1..n))
      /\ Cardinality({x} \X (1..n)) = Cardinality({x}) * Cardinality(1..n)
  BY <1>1, <1>2, FS_Product
<1> QED
  BY <1>1, <1>2, <1>3 DEF Column

\* The columns of the owners in D, of heights f.
Columns(D, f) == UNION {Column(x, f[x]) : x \in D}

Beside(x, D, E, f, g) == D \ {x} = E \ {x} /\ \A y \in D \ {x} : f[y] = g[y]

\* A new height of one column changes their sum by the difference.
LEMMA ColumnMoves ==
    ASSUME NEW D, NEW E, NEW f, NEW g, NEW x, IsFiniteSet(Columns(D, f)),
           Beside(x, D, E, f, g), NEW m \in Nat, NEW n \in Nat,
           m = (IF x \in D THEN f[x] ELSE 0), n = (IF x \in E THEN g[x] ELSE 0)
    PROVE  /\ IsFiniteSet(Columns(E, g))
           /\ Cardinality(Columns(D, f)) \in Nat
           /\ Cardinality(Columns(E, g)) = Cardinality(Columns(D, f)) - m + n
<1> DEFINE others == UNION {Column(y, f[y]) : y \in D \ {x}}
<1>1. Columns(D, f) = others \cup Column(x, m)
  <2>1. CASE x \in D
    BY <2>1 DEF Columns
  <2>2. CASE x \notin D
    <3>1. D \ {x} = D /\ Column(x, m) = {}
      BY <2>2 DEF Column
    <3> QED
      BY <3>1 DEF Columns
  <2> QED
    BY <2>1, <2>2
<1>2. Columns(E, g) = others \cup Column(x, n)
  <2>0. others = UNION {Column(y, g[y]) : y \in E \ {x}}
    BY DEF Beside
  <2>1. CASE x \in E
    BY <2>0, <2>1 DEF Columns
  <2>2. CASE x \notin E
    <3>1. E \ {x} = E /\ Column(x, n) = {}
      BY <2>2 DEF Column
    <3> QED
      BY <2>0, <3>1 DEF Columns
  <2> QED
    BY <2>1, <2>2
<1>3. others \cap Column(x, m) = {} /\ others \cap Column(x, n) = {}
  BY DEF Column
<1> HIDE DEF others
<1>4. others \in SUBSET Columns(D, f)
  BY <1>1
<1>5. IsFiniteSet(others) /\ Cardinality(others) \in Nat /\ Cardinality(Columns(D, f)) \in Nat
  BY <1>4, FS_Subset, FS_CardinalityType
<1>6. ASSUME NEW k \in Nat, others \cap Column(x, k) = {}
      PROVE  /\ IsFiniteSet(others \cup Column(x, k))
             /\ Cardinality(others \cup Column(x, k)) = Cardinality(others) + k
  <2>1. IsFiniteSet(Column(x, k)) /\ Cardinality(Column(x, k)) = k
    BY ColumnOK
  <2>2. Cardinality(others \cap Column(x, k)) = 0
    BY <1>6, FS_EmptySet
  <2>3. /\ IsFiniteSet(others \cup Column(x, k))
        /\ Cardinality(others \cup Column(x, k))
             = Cardinality(others) + Cardinality(Column(x, k)) - Cardinality(others \cap Column(x, k))
    BY <1>5, <2>1, FS_Union
  <2> QED
    BY <1>5, <2>1, <2>2, <2>3
<1>7. Cardinality(Columns(D, f)) = Cardinality(others) + m
  BY <1>1, <1>3, <1>6
<1>8. IsFiniteSet(Columns(E, g)) /\ Cardinality(Columns(E, g)) = Cardinality(others) + n
  BY <1>2, <1>3, <1>6
<1> QED
  BY <1>5, <1>7, <1>8

-----------------------------------------------------------------------------
\* The scheduler.

JobOK(j) ==
    /\ j = [enabled |-> j.enabled, next |-> j.next, ran |-> j.ran, made |-> j.made]
    /\ j.next \in Int /\ j.ran \in Nat

\* The loop has started no job in the future.
JobsInv ==
    /\ IsSeq(tasks) /\ totals \in Nat /\ broken \in Nat /\ jobNow \in Nat
    /\ started = totals + broken + Len(tasks)
    /\ jobs = [n \in DOMAIN jobs |-> jobs[n]] /\ DOMAIN jobs \subseteq JobNames
    /\ looped = [n \in JobNames |-> looped[n]]
    /\ \A n \in JobNames : looped[n] \in Int /\ looped[n] <= jobNow
    /\ \A n \in DOMAIN jobs : JobOK(jobs[n]) /\ jobs[n].next >= looped[n] + JobInterval
    /\ IsFiniteSet(RunsCounted) /\ Cardinality(RunsCounted) <= totals

Ran == [n \in DOMAIN jobs |-> jobs[n].ran]

LEMMA RunsAre == RunsCounted = Columns(DOMAIN jobs, Ran)
BY DEF RunsCounted, Columns, Column, Ran

\* The facts about runs after a step in which at most one job's changes.
LEMMA RunsMove ==
    ASSUME JobsInv, NEW x, DOMAIN jobs \ {x} = DOMAIN jobs' \ {x},
           \A y \in DOMAIN jobs \ {x} : jobs[y].ran = jobs'[y].ran,
           NEW m \in Nat, NEW n \in Nat,
           m = (IF x \in DOMAIN jobs THEN jobs[x].ran ELSE 0),
           n = (IF x \in DOMAIN jobs' THEN jobs'[x].ran ELSE 0)
    PROVE  /\ IsFiniteSet(RunsCounted')
           /\ Cardinality(RunsCounted) \in Nat
           /\ Cardinality(RunsCounted') = Cardinality(RunsCounted) - m + n
<1> DEFINE D == DOMAIN jobs
           E == DOMAIN jobs'
           f == Ran
           g == [y \in DOMAIN jobs' |-> jobs'[y].ran]
<1>1. RunsCounted = Columns(D, f)
  BY RunsAre
<1>2. RunsCounted' = Columns(E, g)
  BY DEF RunsCounted, Columns, Column
<1>3. Beside(x, D, E, f, g)
  BY DEF Ran, Beside
<1>5. m = (IF x \in D THEN f[x] ELSE 0)
  BY DEF Ran
<1>6. n = (IF x \in E THEN g[x] ELSE 0)
  OBVIOUS
<1>7. IsFiniteSet(Columns(D, f))
  BY <1>1 DEF JobsInv
<1> HIDE DEF D, E, f, g
<1>8. /\ IsFiniteSet(Columns(E, g)) /\ Cardinality(Columns(D, f)) \in Nat
      /\ Cardinality(Columns(E, g)) = Cardinality(Columns(D, f)) - m + n
  BY <1>3, <1>5, <1>6, <1>7, ColumnMoves
<1> QED
  BY <1>1, <1>2, <1>8

\* If the counts of runs stay, so does what they add up to.
LEMMA RunsStay ==
    ASSUME JobsInv, DOMAIN jobs' = DOMAIN jobs,
           \A y \in DOMAIN jobs : jobs[y].ran = jobs'[y].ran
    PROVE  RunsCounted' = RunsCounted
BY DEF RunsCounted

LEMMA JobsStart == JobsInit => JobsInv
<1> SUFFICES ASSUME JobsInit PROVE JobsInv
  OBVIOUS
<1>1. /\ jobs = << >> /\ tasks = << >> /\ totals = 0 /\ started = 0 /\ broken = 0 /\ jobNow = 0
      /\ looped = [n \in JobNames |-> -JobInterval]
  BY DEF JobsInit
<1>2. IsSeq(tasks) /\ Len(tasks) = 0
  <2>1. << >> \in Seq({}) /\ Len(<< >>) = 0
    OBVIOUS
  <2> QED
    BY <1>1, <2>1 DEF IsSeq
<1>3. DOMAIN jobs = {} /\ jobs = [n \in DOMAIN jobs |-> jobs[n]]
  BY <1>1
<1>4. RunsCounted = {}
  BY <1>3 DEF RunsCounted
<1>5. \A n \in JobNames : looped[n] \in Int /\ looped[n] <= jobNow
  BY <1>1, HousekeepingAssumption
<1> QED
  BY <1>1, <1>2, <1>3, <1>4, <1>5, FS_EmptySet DEF JobsInv

\* A job becomes j, at a time the loop has not passed.
LEMMA OneJobMoves ==
    ASSUME JobsInv, NEW x \in DOMAIN jobs, NEW j, JobOK(j), jobs' = [jobs EXCEPT ![x] = j]
    PROVE  /\ jobs' = [n \in DOMAIN jobs' |-> jobs'[n]] /\ DOMAIN jobs' = DOMAIN jobs
           /\ jobs'[x] = j /\ \A n \in DOMAIN jobs : n # x => jobs'[n] = jobs[n]
           /\ \A n \in DOMAIN jobs' : JobOK(jobs'[n])
           /\ IsFiniteSet(RunsCounted')
           /\ Cardinality(RunsCounted') = Cardinality(RunsCounted) - jobs[x].ran + j.ran
           /\ Cardinality(RunsCounted) \in Nat
<1>1. /\ jobs' = [n \in DOMAIN jobs' |-> jobs'[n]] /\ DOMAIN jobs' = DOMAIN jobs
      /\ jobs'[x] = j /\ \A n \in DOMAIN jobs : n # x => jobs'[n] = jobs[n]
  BY DEF JobsInv
<1>2. \A n \in DOMAIN jobs' : JobOK(jobs'[n])
  BY <1>1 DEF JobsInv
<1>3. DOMAIN jobs \ {x} = DOMAIN jobs' \ {x} /\ \A y \in DOMAIN jobs \ {x} : jobs[y].ran = jobs'[y].ran
  BY <1>1
<1>4. jobs[x].ran \in Nat /\ j.ran \in Nat
  BY DEF JobsInv, JobOK
<1>5. /\ jobs[x].ran = (IF x \in DOMAIN jobs THEN jobs[x].ran ELSE 0)
      /\ j.ran = (IF x \in DOMAIN jobs' THEN jobs'[x].ran ELSE 0)
  BY <1>1
<1>6. /\ IsFiniteSet(RunsCounted') /\ Cardinality(RunsCounted) \in Nat
      /\ Cardinality(RunsCounted') = Cardinality(RunsCounted) - jobs[x].ran + j.ran
  BY <1>3, <1>4, <1>5, RunsMove
<1> QED
  BY <1>1, <1>2, <1>6

LEMMA RegisterOK ==
    ASSUME JobsInv, NEW n \in JobNames, NEW atOnce \in BOOLEAN, Register(n, atOnce)
    PROVE  JobsInv'
<1> DEFINE j == [enabled |-> TRUE, next |-> IF atOnce THEN jobNow ELSE jobNow + JobInterval,
                 ran |-> 0, made |-> Made + 1]
<1>1. jobs' = [m \in DOMAIN jobs \cup {n} |-> IF m = n THEN j ELSE jobs[m]]
  BY DEF Register
<1>2. JobOK(j) /\ j.ran = 0 /\ j.next >= 0
  BY HousekeepingAssumption DEF JobOK, JobsInv
<1> HIDE DEF j
<1>3. /\ DOMAIN jobs' = DOMAIN jobs \cup {n} /\ jobs'[n] = j
      /\ \A m \in DOMAIN jobs : m # n => jobs'[m] = jobs[m]
      /\ jobs' = [m \in DOMAIN jobs' |-> jobs'[m]]
  BY <1>1
<1>4. looped' = [looped EXCEPT ![n] = -JobInterval]
      /\ tasks' = tasks /\ totals' = totals /\ started' = started /\ jobNow' = jobNow
      /\ broken' = broken
  BY DEF Register
<1>5. /\ looped' = [m \in JobNames |-> looped'[m]]
      /\ looped'[n] = -JobInterval /\ \A m \in JobNames : m # n => looped'[m] = looped[m]
  BY <1>4 DEF JobsInv
<1>6. \A m \in JobNames : looped'[m] \in Int /\ looped'[m] <= jobNow'
  BY <1>4, <1>5, HousekeepingAssumption DEF JobsInv
<1>7. \A m \in DOMAIN jobs' : JobOK(jobs'[m]) /\ jobs'[m].next >= looped'[m] + JobInterval
  <2> SUFFICES ASSUME NEW m \in DOMAIN jobs'
               PROVE  JobOK(jobs'[m]) /\ jobs'[m].next >= looped'[m] + JobInterval
    OBVIOUS
  <2>1. CASE m = n
    BY <1>2, <1>3, <1>5, <2>1, HousekeepingAssumption
  <2>2. CASE m # n
    BY <1>3, <1>5, <2>2 DEF JobsInv
  <2> QED
    BY <2>1, <2>2
<1>8. PICK k \in Nat : k = (IF n \in DOMAIN jobs THEN jobs[n].ran ELSE 0)
  BY DEF JobsInv, JobOK
<1>9. IsFiniteSet(RunsCounted') /\ Cardinality(RunsCounted') <= totals
  <2>1. DOMAIN jobs \ {n} = DOMAIN jobs' \ {n} /\ \A y \in DOMAIN jobs \ {n} : jobs[y].ran = jobs'[y].ran
    BY <1>3
  <2>2. 0 = (IF n \in DOMAIN jobs' THEN jobs'[n].ran ELSE 0)
    BY <1>2, <1>3
  <2>3. /\ IsFiniteSet(RunsCounted') /\ Cardinality(RunsCounted) \in Nat
        /\ Cardinality(RunsCounted') = Cardinality(RunsCounted) - k + 0
    BY <1>8, <2>1, <2>2, RunsMove
  <2> QED
    BY <2>3 DEF JobsInv
<1> QED
  BY <1>3, <1>4, <1>5, <1>6, <1>7, <1>9 DEF JobsInv

LEMMA UnregisterOK ==
    ASSUME JobsInv, NEW n \in JobNames, Unregister(n)
    PROVE  JobsInv'
<1>1. /\ DOMAIN jobs' = DOMAIN jobs \ {n} /\ n \in DOMAIN jobs
      /\ \A m \in DOMAIN jobs' : jobs'[m] = jobs[m]
      /\ jobs' = [m \in DOMAIN jobs' |-> jobs'[m]]
      /\ tasks' = tasks /\ totals' = totals /\ started' = started /\ jobNow' = jobNow
      /\ broken' = broken
      /\ looped' = looped
  BY DEF Unregister
<1>2. DOMAIN jobs \ {n} = DOMAIN jobs' \ {n} /\ \A y \in DOMAIN jobs \ {n} : jobs[y].ran = jobs'[y].ran
  BY <1>1
<1>3. jobs[n].ran \in Nat /\ jobs[n].ran = (IF n \in DOMAIN jobs THEN jobs[n].ran ELSE 0)
      /\ 0 = (IF n \in DOMAIN jobs' THEN jobs'[n].ran ELSE 0)
  BY <1>1 DEF JobsInv, JobOK
<1>4. /\ IsFiniteSet(RunsCounted') /\ Cardinality(RunsCounted) \in Nat
      /\ Cardinality(RunsCounted') = Cardinality(RunsCounted) - jobs[n].ran + 0
  BY <1>2, <1>3, RunsMove
<1>5. IsFiniteSet(RunsCounted') /\ Cardinality(RunsCounted') <= totals
  BY <1>3, <1>4 DEF JobsInv
<1> QED
  BY <1>1, <1>5 DEF JobsInv

LEMMA SetEnabledOK ==
    ASSUME JobsInv, NEW n \in JobNames, NEW on \in BOOLEAN, SetEnabled(n, on)
    PROVE  JobsInv'
<1> DEFINE j == [jobs[n] EXCEPT !.enabled = on]
<1>1. n \in DOMAIN jobs /\ jobs' = [jobs EXCEPT ![n] = j]
      /\ tasks' = tasks /\ totals' = totals /\ started' = started /\ jobNow' = jobNow
      /\ broken' = broken
      /\ looped' = looped
  BY DEF SetEnabled
<1>2. JobOK(jobs[n])
  BY <1>1 DEF JobsInv
<1>3. JobOK(j) /\ j.next = jobs[n].next /\ j.ran = jobs[n].ran
  BY <1>2 DEF JobOK
<1> HIDE DEF j
<1>4. /\ jobs' = [m \in DOMAIN jobs' |-> jobs'[m]] /\ DOMAIN jobs' = DOMAIN jobs
      /\ jobs'[n] = j /\ \A m \in DOMAIN jobs : m # n => jobs'[m] = jobs[m]
      /\ \A m \in DOMAIN jobs' : JobOK(jobs'[m])
      /\ IsFiniteSet(RunsCounted')
      /\ Cardinality(RunsCounted') = Cardinality(RunsCounted) - jobs[n].ran + j.ran
      /\ Cardinality(RunsCounted) \in Nat
  BY <1>1, <1>3, OneJobMoves
<1>5. \A m \in DOMAIN jobs' : jobs'[m].next = jobs[m].next
  BY <1>3, <1>4
<1>6. jobs[n].ran \in Nat
  BY <1>2 DEF JobOK
<1>7. Cardinality(RunsCounted') <= totals
  BY <1>3, <1>4, <1>6 DEF JobsInv
<1> QED
  BY <1>1, <1>4, <1>5, <1>7 DEF JobsInv

\* A job is started: it is next due an interval from now.
LEMMA StartOK ==
    ASSUME JobsInv, NEW n \in DOMAIN jobs, StartTask(n), totals' = totals, jobNow' = jobNow, broken' = broken,
           looped' = looped \/ looped' = [looped EXCEPT ![n] = jobNow]
    PROVE  JobsInv'
<1> DEFINE j == [jobs[n] EXCEPT !.next = jobNow + JobInterval]
           t == [name |-> n, made |-> jobs[n].made]
<1>1. jobs' = [jobs EXCEPT ![n] = j] /\ tasks' = Append(tasks, t) /\ started' = started + 1
  BY DEF StartTask, Scheduled
<1>2. JobOK(jobs[n]) /\ n \in JobNames
  BY DEF JobsInv
<1>3. JobOK(j) /\ j.next = jobNow + JobInterval /\ j.ran = jobs[n].ran
  <2>1. jobNow + JobInterval \in Int
    BY HousekeepingAssumption DEF JobsInv
  <2> QED
    BY <1>2, <2>1 DEF JobOK
<1> HIDE DEF j, t
<1>4. /\ jobs' = [m \in DOMAIN jobs' |-> jobs'[m]] /\ DOMAIN jobs' = DOMAIN jobs
      /\ jobs'[n] = j /\ \A m \in DOMAIN jobs : m # n => jobs'[m] = jobs[m]
      /\ \A m \in DOMAIN jobs' : JobOK(jobs'[m])
      /\ IsFiniteSet(RunsCounted')
      /\ Cardinality(RunsCounted') = Cardinality(RunsCounted) - jobs[n].ran + j.ran
      /\ Cardinality(RunsCounted) \in Nat
  BY <1>1, <1>3, OneJobMoves
<1>5. IsSeq(tasks') /\ Len(tasks') = Len(tasks) + 1 /\ Len(tasks) \in Nat
  BY <1>1, AppendOK DEF JobsInv
<1>6. looped' = [m \in JobNames |-> looped'[m]]
  <2>1. looped = [m \in JobNames |-> looped[m]]
    BY DEF JobsInv
  <2>2. CASE looped' = looped
    BY <2>1, <2>2
  <2>3. CASE looped' = [looped EXCEPT ![n] = jobNow]
    BY <2>1, <2>3
  <2> QED
    BY <2>2, <2>3
<1>10. \A m \in JobNames : looped'[m] = looped[m] \/ (m = n /\ looped'[m] = jobNow)
  <2>1. looped = [m \in JobNames |-> looped[m]]
    BY DEF JobsInv
  <2>2. CASE looped' = looped
    BY <2>2
  <2>3. CASE looped' = [looped EXCEPT ![n] = jobNow]
    <3>1. ASSUME NEW m \in JobNames PROVE looped'[m] = IF m = n THEN jobNow ELSE looped[m]
      BY <1>2, <2>1, <2>3
    <3> QED
      BY <3>1
  <2> QED
    BY <2>2, <2>3
<1>7. \A m \in JobNames : looped'[m] \in Int /\ looped'[m] <= jobNow'
  BY <1>6, <1>10 DEF JobsInv
<1>8. \A m \in DOMAIN jobs' : jobs'[m].next >= looped'[m] + JobInterval
  <2> SUFFICES ASSUME NEW m \in DOMAIN jobs' PROVE jobs'[m].next >= looped'[m] + JobInterval
    OBVIOUS
  <2>1. m \in JobNames
    BY <1>4 DEF JobsInv
  <2>2. CASE m = n
    BY <1>3, <1>4, <1>7, <2>1, <2>2, HousekeepingAssumption DEF JobsInv
  <2>3. CASE m # n
    BY <1>4, <1>6, <1>10, <2>1, <2>3 DEF JobsInv
  <2> QED
    BY <2>2, <2>3
<1>9. Cardinality(RunsCounted') <= totals /\ started' = totals + broken + Len(tasks')
  <2>1. jobs[n].ran \in Nat
    BY <1>2 DEF JobOK
  <2> QED
    BY <1>1, <1>3, <1>4, <1>5, <2>1 DEF JobsInv
<1> QED
  BY <1>4, <1>5, <1>6, <1>10, <1>7, <1>8, <1>9 DEF JobsInv

LEMMA TaskEndsOK ==
    ASSUME JobsInv, NEW i \in DOMAIN tasks, TaskEnds(i)
    PROVE  JobsInv'
<1> DEFINE x == tasks[i].name
           own == x \in DOMAIN jobs /\ jobs[x].made = tasks[i].made
           j == [jobs[x] EXCEPT !.ran = @ + 1]
<1>1. /\ tasks' = RemoveAt(tasks, i) /\ totals' = totals + 1 /\ started' = started
      /\ broken' = broken /\ jobNow' = jobNow /\ looped' = looped
      /\ jobs' = IF own THEN [jobs EXCEPT ![x] = j] ELSE jobs
  BY DEF TaskEnds
<1>2. IsSeq(tasks') /\ Len(tasks') = Len(tasks) - 1 /\ Len(tasks) \in Nat
  BY <1>1, SeqRemoveAt DEF JobsInv
<1>3. started' = totals' + broken' + Len(tasks') /\ totals' \in Nat /\ broken' \in Nat
  <2>1. started = totals + broken + Len(tasks) /\ totals \in Nat /\ broken \in Nat
    BY DEF JobsInv
  <2>2. totals' = totals + 1 /\ broken' = broken /\ started' = started
    BY <1>1
  <2> HIDE DEF x, own, j
  <2> QED
    BY <1>2, <2>1, <2>2
<1>4. CASE own
  <2>1. x \in DOMAIN jobs /\ JobOK(jobs[x])
    BY <1>4 DEF JobsInv
  <2>2. JobOK(j) /\ j.next = jobs[x].next /\ j.ran = jobs[x].ran + 1 /\ jobs[x].ran \in Nat
    BY <2>1 DEF JobOK
  <2>3. jobs' = [jobs EXCEPT ![x] = j]
    BY <1>1, <1>4
  <2> HIDE DEF j, x, own
  <2>4. /\ jobs' = [m \in DOMAIN jobs' |-> jobs'[m]] /\ DOMAIN jobs' = DOMAIN jobs
        /\ jobs'[x] = j /\ \A m \in DOMAIN jobs : m # x => jobs'[m] = jobs[m]
        /\ \A m \in DOMAIN jobs' : JobOK(jobs'[m])
        /\ IsFiniteSet(RunsCounted')
        /\ Cardinality(RunsCounted') = Cardinality(RunsCounted) - jobs[x].ran + j.ran
        /\ Cardinality(RunsCounted) \in Nat
    <3>1. PICK y \in DOMAIN jobs : y = x
      BY <2>1
    <3>2. jobs' = [jobs EXCEPT ![y] = j]
      BY <2>3, <3>1
    <3>3. /\ jobs' = [m \in DOMAIN jobs' |-> jobs'[m]] /\ DOMAIN jobs' = DOMAIN jobs
          /\ jobs'[y] = j /\ \A m \in DOMAIN jobs : m # y => jobs'[m] = jobs[m]
          /\ \A m \in DOMAIN jobs' : JobOK(jobs'[m])
          /\ IsFiniteSet(RunsCounted')
          /\ Cardinality(RunsCounted') = Cardinality(RunsCounted) - jobs[y].ran + j.ran
          /\ Cardinality(RunsCounted) \in Nat
      BY <2>2, <3>2, OneJobMoves
    <3> QED
      BY <3>1, <3>3
  <2>5. \A m \in DOMAIN jobs' : jobs'[m].next = jobs[m].next
    BY <2>2, <2>4
  <2>6. Cardinality(RunsCounted') <= totals'
    BY <1>1, <2>2, <2>4 DEF JobsInv
  <2> QED
    BY <1>1, <1>2, <1>3, <2>4, <2>5, <2>6 DEF JobsInv
<1>5. CASE ~own
  <2>1. jobs' = jobs
    BY <1>1, <1>5
  <2>2. RunsCounted' = RunsCounted /\ Cardinality(RunsCounted) \in Nat
    BY <2>1, FS_CardinalityType DEF RunsCounted, JobsInv
  <2>3. Cardinality(RunsCounted') <= totals'
    BY <1>1, <2>2 DEF JobsInv
  <2> HIDE DEF own, x, j
  <2> QED
    BY <1>1, <1>2, <1>3, <2>1, <2>2, <2>3 DEF JobsInv
<1> QED
  BY <1>4, <1>5

LEMMA TaskCancelledOK ==
    ASSUME JobsInv, NEW i \in DOMAIN tasks, TaskCancelled(i)
    PROVE  JobsInv'
<1>1. /\ tasks' = RemoveAt(tasks, i) /\ broken' = broken + 1 /\ started' = started
      /\ totals' = totals /\ jobNow' = jobNow /\ looped' = looped /\ jobs' = jobs
  BY DEF TaskCancelled
<1>2. IsSeq(tasks') /\ Len(tasks') = Len(tasks) - 1 /\ Len(tasks) \in Nat
  BY <1>1, SeqRemoveAt DEF JobsInv
<1>3. started' = totals' + broken' + Len(tasks') /\ broken' \in Nat
  <2>1. started = totals + broken + Len(tasks) /\ totals \in Nat /\ broken \in Nat
    BY DEF JobsInv
  <2> QED
    BY <1>1, <1>2, <2>1
<1>4. RunsCounted' = RunsCounted
  BY <1>1 DEF RunsCounted
<1> QED
  BY <1>1, <1>2, <1>3, <1>4 DEF JobsInv

LEMMA JobsStep == JobsInv /\ [JobsNext]_jobVars => JobsInv'
<1> SUFFICES ASSUME JobsInv, [JobsNext]_jobVars PROVE JobsInv'
  OBVIOUS
<1>1. ASSUME UNCHANGED jobs, UNCHANGED tasks, UNCHANGED totals, UNCHANGED started, UNCHANGED broken,
             UNCHANGED looped, jobNow' \in Nat, jobNow' >= jobNow
      PROVE  JobsInv'
  <2>1. RunsCounted' = RunsCounted
    BY <1>1 DEF RunsCounted
  <2>2. \A n \in JobNames : looped'[n] \in Int /\ looped'[n] <= jobNow'
    BY <1>1 DEF JobsInv
  <2> QED
    BY <1>1, <2>1, <2>2 DEF JobsInv
<1>2. CASE StartJobs \/ StopJobs \/ JobTick \/ UNCHANGED jobVars
  <2>1. jobNow \in Nat
    BY DEF JobsInv
  <2> QED
    BY <1>1, <1>2, <2>1 DEF StartJobs, StopJobs, JobTick, jobVars
<1>3. ASSUME NEW n \in JobNames, NEW atOnce \in BOOLEAN, Register(n, atOnce) PROVE JobsInv'
  BY <1>3, RegisterOK
<1>4. ASSUME NEW n \in JobNames, Unregister(n) PROVE JobsInv'
  BY <1>4, UnregisterOK
<1>5. ASSUME NEW n \in JobNames, NEW on \in BOOLEAN, SetEnabled(n, on) PROVE JobsInv'
  BY <1>5, SetEnabledOK
<1>6. ASSUME NEW n \in JobNames, LoopStarts(n) PROVE JobsInv'
  BY <1>6, StartOK DEF LoopStarts
<1>7. ASSUME NEW n \in JobNames, RunNow(n) PROVE JobsInv'
  BY <1>7, StartOK DEF RunNow
<1>8. ASSUME NEW i \in DOMAIN tasks, TaskEnds(i) PROVE JobsInv'
  BY <1>8, TaskEndsOK
<1>9. ASSUME NEW i \in DOMAIN tasks, TaskCancelled(i) PROVE JobsInv'
  BY <1>9, TaskCancelledOK
<1> QED
  BY <1>2, <1>3, <1>4, <1>5, <1>6, <1>7, <1>8, <1>9 DEF JobsNext

\* No run of a scheduled job is lost or counted twice, and none comes early.
LEMMA JobsSoundAlways == JobsSpec => []JobsSound
<1>1. JobsInv => JobsSound
  BY DEF JobsInv, JobsSound
<1> QED
  BY <1>1, JobsStart, JobsStep, PTL DEF JobsSpec

-----------------------------------------------------------------------------
\* The context windows.

\* Messages in the order they were added, none of them after number n.
InOrder(ms, n) ==
    /\ IsSeq(ms)
    /\ \A i \in DOMAIN ms : ms[i].no \in Nat /\ ms[i].no <= n
    /\ \A i, j \in DOMAIN ms : i < j => ms[i].no < ms[j].no

\* What an agent without a system prompt may keep
Bare(ms) == Sized(ms, 0) <= WINDOW_TOKENS \/ Len(ms) <= MIN_KEEP

WindowsInv ==
    /\ added \in Nat /\ trims \in Nat /\ taken \in Nat
    /\ windows = [a \in DOMAIN windows |-> windows[a]]
    /\ \A a \in DOMAIN windows : InOrder(windows[a], added) /\ (a \in prompts \/ Bare(windows[a]))
    /\ IsFiniteSet(MessagesKept) /\ added = trims + taken + Cardinality(MessagesKept)

LEMMA NoMessages == InOrder(<< >>, 0) /\ Len(<< >>) = 0 /\ Bare(<< >>)
<1>1. << >> \in Seq({}) /\ Len(<< >>) = 0 /\ DOMAIN << >> = {}
  OBVIOUS
<1> QED
  BY <1>1, HousekeepingAssumption DEF InOrder, Bare, IsSeq

LEMMA InOrderLater ==
    ASSUME NEW ms, NEW m \in Nat, NEW n \in Nat, InOrder(ms, m), m <= n
    PROVE  InOrder(ms, n)
BY DEF InOrder

\* A message is added at the end.
LEMMA InOrderAppend ==
    ASSUME NEW ms, NEW n \in Nat, InOrder(ms, n), NEW e, e.no = n + 1
    PROVE  InOrder(Append(ms, e), n + 1)
<1>1. PICK S : ms \in Seq(S)
  BY DEF InOrder, IsSeq
<1> DEFINE longer == Append(ms, e)
<1>2. ms \in Seq(S \cup {e}) /\ e \in S \cup {e}
  BY <1>1
<1>3. /\ longer \in Seq(S \cup {e}) /\ Len(longer) = Len(ms) + 1 /\ Len(ms) \in Nat
      /\ longer[Len(ms) + 1] = e /\ \A i \in 1..Len(ms) : longer[i] = ms[i]
  BY <1>2
<1> HIDE DEF longer
<1>4. DOMAIN longer = 1..(Len(ms) + 1) /\ DOMAIN ms = 1..Len(ms)
  BY <1>1, <1>3
<1>5. \A i \in DOMAIN longer : longer[i].no \in Nat /\ longer[i].no <= n + 1
  BY <1>3, <1>4 DEF InOrder
<1>6. ASSUME NEW i \in DOMAIN longer, NEW j \in DOMAIN longer, i < j
      PROVE  longer[i].no < longer[j].no
  <2>1. i \in 1..Len(ms) /\ longer[i] = ms[i] /\ ms[i].no \in Nat /\ ms[i].no <= n
    BY <1>3, <1>4, <1>6 DEF InOrder
  <2>2. CASE j = Len(ms) + 1
    BY <1>3, <2>1, <2>2
  <2>3. CASE j # Len(ms) + 1
    <3>1. j \in 1..Len(ms) /\ longer[j] = ms[j]
      BY <1>3, <1>4, <2>3
    <3> QED
      BY <1>4, <1>6, <2>1, <3>1 DEF InOrder
  <2> QED
    BY <2>2, <2>3
<1>7. IsSeq(longer)
  BY <1>3 DEF IsSeq
<1> QED
  BY <1>5, <1>6, <1>7 DEF InOrder, longer

\* The oldest messages are left out.
LEMMA InOrderTail ==
    ASSUME NEW ms, NEW n \in Nat, InOrder(ms, n), NEW k \in 0..Len(ms)
    PROVE  /\ InOrder(SubSeq(ms, k + 1, Len(ms)), n)
           /\ Len(SubSeq(ms, k + 1, Len(ms))) = Len(ms) - k
<1>1. PICK S : ms \in Seq(S)
  BY DEF InOrder, IsSeq
<1> DEFINE rest == SubSeq(ms, k + 1, Len(ms))
<1>2. /\ rest \in Seq(S) /\ Len(rest) = Len(ms) - k /\ Len(ms) \in Nat
      /\ \A i \in 1..Len(rest) : rest[i] = ms[k + i]
  BY <1>1
<1> HIDE DEF rest
<1>3. DOMAIN rest = 1..(Len(ms) - k) /\ DOMAIN ms = 1..Len(ms)
  BY <1>1, <1>2
<1>4. \A i \in DOMAIN rest : k + i \in DOMAIN ms /\ rest[i] = ms[k + i]
  BY <1>2, <1>3
<1>5. \A i \in DOMAIN rest : rest[i].no \in Nat /\ rest[i].no <= n
  BY <1>4 DEF InOrder
<1>6. ASSUME NEW i \in DOMAIN rest, NEW j \in DOMAIN rest, i < j
      PROVE  rest[i].no < rest[j].no
  <2>1. k + i \in DOMAIN ms /\ k + j \in DOMAIN ms /\ k + i < k + j
    BY <1>2, <1>3, <1>4, <1>6
  <2>2. ms[k + i].no < ms[k + j].no
    BY <2>1 DEF InOrder
  <2> QED
    BY <1>4, <2>2
<1>7. IsSeq(rest)
  BY <1>2 DEF IsSeq
<1> QED
  BY <1>2, <1>5, <1>6, <1>7 DEF InOrder, rest

\* Trimming leaves out the oldest messages until the rest fits.
LEMMA TrimmedOK ==
    ASSUME NEW a, NEW ms, IsSeq(ms)
    PROVE  \E k \in 0..Len(ms) :
              /\ Trimmed(a, ms) = SubSeq(ms, k + 1, Len(ms))
              /\ Fits(a, SubSeq(ms, k + 1, Len(ms)))
<1> DEFINE Rest(k) == SubSeq(ms, k + 1, Len(ms))
           Enough == {k \in 0..Len(ms) : Fits(a, Rest(k))}
           First(k) == Fits(a, Rest(k)) /\ \A j \in 0..(k - 1) : ~Fits(a, Rest(j))
<1>1. Len(ms) \in Nat
  BY SeqShape
<1>2. Len(Rest(Len(ms))) = 0
  <2>1. PICK S : ms \in Seq(S)
    BY DEF IsSeq
  <2> QED
    BY <1>1, <2>1
<1>3. Fits(a, Rest(Len(ms)))
  BY <1>2, HousekeepingAssumption DEF Fits
<1>4. Len(ms) \in Enough /\ Enough \in SUBSET Nat
  BY <1>1, <1>3
<1>5. PICK k \in Enough : \A j \in Enough : k <= j
  BY <1>4, Smallest
<1>6. k \in 0..Len(ms) /\ First(k)
  <2>1. k \in 0..Len(ms) /\ Fits(a, Rest(k))
    BY <1>5
  <2>2. ASSUME NEW j \in 0..(k - 1) PROVE ~Fits(a, Rest(j))
    <3>1. j \in 0..Len(ms) /\ ~(k <= j)
      BY <1>1, <2>1
    <3>2. j \notin Enough
      BY <1>5, <3>1
    <3> QED
      BY <3>1, <3>2
  <2> QED
    BY <2>1, <2>2
<1>7. PICK x \in 0..Len(ms) : x = CHOOSE z \in 0..Len(ms) : First(z)
  BY <1>6
<1>8. First(x)
  BY <1>6, <1>7
<1>9. Trimmed(a, ms) = Rest(x)
  BY <1>7 DEF Trimmed
<1> QED
  BY <1>7, <1>8, <1>9

Kept == [a \in DOMAIN windows |-> Len(windows[a])]

\* One agent's window becomes ms, in a step that adds k messages and where the
\* window held m of them.
LEMMA WindowMoves ==
    ASSUME WindowsInv, NEW a, NEW ms, windows' = WithWindow(a, ms),
           added' \in Nat, added <= added', InOrder(ms, added'), a \in prompts' \/ Bare(ms),
           \A o \in DOMAIN windows : o # a => (o \in prompts => o \in prompts')
    PROVE  /\ windows' = [o \in DOMAIN windows' |-> windows'[o]]
           /\ \A o \in DOMAIN windows' :
                 InOrder(windows'[o], added') /\ (o \in prompts' \/ Bare(windows'[o]))
           /\ IsFiniteSet(MessagesKept') /\ Cardinality(MessagesKept) \in Nat
           /\ Len(WindowOf(a)) \in Nat /\ Len(ms) \in Nat
           /\ Cardinality(MessagesKept') = Cardinality(MessagesKept) - Len(WindowOf(a)) + Len(ms)
<1> DEFINE D == DOMAIN windows
           E == DOMAIN windows'
           f == Kept
           g == [o \in DOMAIN windows' |-> Len(windows'[o])]
           m == Len(WindowOf(a))
           n == Len(ms)
<1>1. /\ windows' = [o \in DOMAIN windows' |-> windows'[o]]
      /\ DOMAIN windows' = DOMAIN windows \cup {a}
  BY DEF WithWindow
<1>2. windows'[a] = ms /\ \A o \in DOMAIN windows : o # a => windows'[o] = windows[o]
  BY DEF WithWindow
<1>3. ASSUME NEW o \in DOMAIN windows'
      PROVE  InOrder(windows'[o], added') /\ (o \in prompts' \/ Bare(windows'[o]))
  <2>1. CASE o = a
    BY <1>2, <2>1
  <2>2. CASE o # a
    <3>1. o \in DOMAIN windows /\ windows'[o] = windows[o]
      BY <1>1, <1>2, <2>2
    <3>2. InOrder(windows[o], added) /\ (o \in prompts \/ Bare(windows[o])) /\ added \in Nat
      BY <3>1 DEF WindowsInv
    <3>3. InOrder(windows[o], added')
      BY <3>2, InOrderLater
    <3> QED
      BY <2>2, <3>1, <3>2, <3>3
  <2> QED
    BY <2>1, <2>2
<1>4. n \in Nat /\ m \in Nat
  <2>1. n \in Nat
    BY SeqShape DEF InOrder
  <2>2. CASE a \in DOMAIN windows
    BY <2>2, SeqShape DEF WindowOf, WindowsInv, InOrder
  <2>3. CASE a \notin DOMAIN windows
    BY <2>3, NoMessages DEF WindowOf
  <2> QED
    BY <2>1, <2>2, <2>3
<1>5. MessagesKept = Columns(D, f)
  BY DEF MessagesKept, Columns, Column, Kept
<1>6. MessagesKept' = Columns(E, g)
  BY DEF MessagesKept, Columns, Column
<1>7. Beside(a, D, E, f, g)
  BY <1>1, <1>2 DEF Beside, Kept
<1>8. m = (IF a \in D THEN f[a] ELSE 0)
  BY NoMessages DEF Kept, WindowOf
<1>9. n = (IF a \in E THEN g[a] ELSE 0)
  BY <1>1, <1>2
<1>10. IsFiniteSet(Columns(D, f))
  BY <1>5 DEF WindowsInv
<1> HIDE DEF D, E, f, g, m, n
<1>11. /\ IsFiniteSet(Columns(E, g)) /\ Cardinality(Columns(D, f)) \in Nat
       /\ Cardinality(Columns(E, g)) = Cardinality(Columns(D, f)) - m + n
  BY <1>4, <1>7, <1>8, <1>9, <1>10, ColumnMoves
<1>12. /\ IsFiniteSet(MessagesKept') /\ Cardinality(MessagesKept) \in Nat
       /\ Cardinality(MessagesKept') = Cardinality(MessagesKept) - m + n
  BY <1>5, <1>6, <1>11
<1> USE DEF m, n
<1> QED
  BY <1>1, <1>3, <1>4, <1>12

LEMMA WindowsStart == WindowsInit => WindowsInv
<1> SUFFICES ASSUME WindowsInit PROVE WindowsInv
  OBVIOUS
<1>1. windows = << >> /\ added = 0 /\ trims = 0 /\ taken = 0 /\ DOMAIN windows = {}
  BY DEF WindowsInit
<1>2. windows = [a \in DOMAIN windows |-> windows[a]]
  BY <1>1
<1>3. MessagesKept = {}
  BY <1>1 DEF MessagesKept
<1> QED
  BY <1>1, <1>2, <1>3, FS_EmptySet DEF WindowsInv

\* The window of any agent, of one that has none too, is in order.
LEMMA WindowOfOK ==
    ASSUME WindowsInv, NEW a
    PROVE  InOrder(WindowOf(a), added) /\ added \in Nat /\ Len(WindowOf(a)) \in Nat
<1>1. CASE a \in DOMAIN windows
  BY <1>1, SeqShape DEF WindowOf, WindowsInv, InOrder
<1>2. CASE a \notin DOMAIN windows
  BY <1>2, NoMessages, InOrderLater DEF WindowOf, WindowsInv
<1> QED
  BY <1>1, <1>2

LEMMA AddMessageOK ==
    ASSUME WindowsInv, NEW a, NEW size, AddMessage(a, size)
    PROVE  WindowsInv'
<1> DEFINE e == [no |-> added + 1, size |-> size]
           longer == Append(WindowOf(a), e)
           rest == Trimmed(a, longer)
           m == Len(WindowOf(a))
<1>1. /\ added' = added + 1 /\ windows' = WithWindow(a, rest)
      /\ trims' = trims + Len(longer) - Len(rest) /\ prompts' = prompts /\ taken' = taken
  BY DEF AddMessage
<1>2. InOrder(WindowOf(a), added) /\ added \in Nat /\ m \in Nat
  BY WindowOfOK
<1>3. e.no = added + 1
  OBVIOUS
<1>4. Len(longer) = m + 1
  BY <1>2, AppendOK DEF InOrder
<1> HIDE DEF e
<1>5. InOrder(longer, added + 1)
  BY <1>2, <1>3, InOrderAppend
<1> HIDE DEF longer, m
<1>6. PICK k \in 0..Len(longer) :
         rest = SubSeq(longer, k + 1, Len(longer)) /\ Fits(a, SubSeq(longer, k + 1, Len(longer)))
  BY <1>5, TrimmedOK DEF InOrder
<1>7. Fits(a, rest)
  BY <1>6
<1>8. added + 1 \in Nat
  BY <1>2
<1>9. InOrder(rest, added + 1) /\ Len(rest) = Len(longer) - k
  BY <1>5, <1>6, <1>8, InOrderTail
<1> HIDE DEF rest
<1>10. a \in prompts' \/ Bare(rest)
  BY <1>1, <1>7 DEF Fits, Tokens, Bare
<1>11. added' \in Nat /\ added <= added' /\ InOrder(rest, added')
  BY <1>1, <1>2, <1>9
<1>12. \A o \in DOMAIN windows : o # a => (o \in prompts => o \in prompts')
  BY <1>1
<1>13. /\ windows' = [o \in DOMAIN windows' |-> windows'[o]]
       /\ \A o \in DOMAIN windows' :
             InOrder(windows'[o], added') /\ (o \in prompts' \/ Bare(windows'[o]))
       /\ IsFiniteSet(MessagesKept') /\ Cardinality(MessagesKept) \in Nat
       /\ Cardinality(MessagesKept') = Cardinality(MessagesKept) - m + Len(rest)
  BY <1>1, <1>10, <1>11, <1>12, WindowMoves DEF m
<1>14. trims' \in Nat /\ taken' \in Nat
       /\ added' = trims' + taken' + Cardinality(MessagesKept')
  <2>1. trims \in Nat /\ taken \in Nat /\ added = trims + taken + Cardinality(MessagesKept)
    BY DEF WindowsInv
  <2>2. k \in 0..(m + 1) /\ Len(rest) = (m + 1) - k /\ trims' = trims + (m + 1) - Len(rest)
    BY <1>1, <1>4, <1>6, <1>9
  <2>3. added' = added + 1 /\ taken' = taken
    BY <1>1
  <2>4. /\ Cardinality(MessagesKept) \in Nat
        /\ Cardinality(MessagesKept') = Cardinality(MessagesKept) - m + Len(rest)
    BY <1>13
  <2> QED
    BY <1>2, <2>1, <2>2, <2>3, <2>4
<1> QED
  BY <1>11, <1>13, <1>14 DEF WindowsInv

LEMMA SetSystemPromptOK ==
    ASSUME WindowsInv, NEW a, SetSystemPrompt(a)
    PROVE  WindowsInv'
<1> DEFINE ms == WindowOf(a)
<1>1. /\ windows' = WithWindow(a, ms) /\ prompts' = prompts \cup {a}
      /\ added' = added /\ trims' = trims /\ taken' = taken
  BY DEF SetSystemPrompt
<1>2. InOrder(ms, added) /\ added \in Nat /\ Len(ms) \in Nat
  BY WindowOfOK
<1>3. added' \in Nat /\ added <= added' /\ InOrder(ms, added')
  BY <1>1, <1>2
<1>4. /\ a \in prompts'
      /\ \A o \in DOMAIN windows : o # a => (o \in prompts => o \in prompts')
  BY <1>1
<1>5. /\ windows' = [o \in DOMAIN windows' |-> windows'[o]]
      /\ \A o \in DOMAIN windows' :
            InOrder(windows'[o], added') /\ (o \in prompts' \/ Bare(windows'[o]))
      /\ IsFiniteSet(MessagesKept') /\ Cardinality(MessagesKept) \in Nat
      /\ Cardinality(MessagesKept') = Cardinality(MessagesKept) - Len(ms) + Len(ms)
  BY <1>1, <1>3, <1>4, WindowMoves
<1> HIDE DEF ms
<1>6. Cardinality(MessagesKept') = Cardinality(MessagesKept)
  BY <1>2, <1>5
<1> QED
  BY <1>1, <1>3, <1>5, <1>6 DEF WindowsInv

LEMMA ClearWindowOK ==
    ASSUME WindowsInv, NEW a, ClearWindow(a)
    PROVE  WindowsInv'
<1> DEFINE ms == WindowOf(a)
<1>1. /\ windows' = WithWindow(a, << >>) /\ taken' = taken + Len(ms)
      /\ prompts' = prompts /\ added' = added /\ trims' = trims
  BY DEF ClearWindow, WindowOf
<1>2. added \in Nat /\ Len(ms) \in Nat
  BY WindowOfOK
<1>3. InOrder(<< >>, 0) /\ Len(<< >>) = 0 /\ Bare(<< >>)
  BY NoMessages
<1>4. added' \in Nat /\ added <= added' /\ InOrder(<< >>, added')
  BY <1>1, <1>2, <1>3, InOrderLater
<1>5. \A o \in DOMAIN windows : o # a => (o \in prompts => o \in prompts')
  BY <1>1
<1>6. /\ windows' = [o \in DOMAIN windows' |-> windows'[o]]
      /\ \A o \in DOMAIN windows' :
            InOrder(windows'[o], added') /\ (o \in prompts' \/ Bare(windows'[o]))
      /\ IsFiniteSet(MessagesKept') /\ Cardinality(MessagesKept) \in Nat
      /\ Cardinality(MessagesKept') = Cardinality(MessagesKept) - Len(ms) + Len(<< >>)
  BY <1>1, <1>3, <1>4, <1>5, WindowMoves
<1> HIDE DEF ms
<1>7. taken' \in Nat /\ added' = trims' + taken' + Cardinality(MessagesKept')
  BY <1>1, <1>2, <1>3, <1>6 DEF WindowsInv
<1> QED
  BY <1>1, <1>4, <1>6, <1>7 DEF WindowsInv

LEMMA DropWindowOK ==
    ASSUME WindowsInv, NEW a, DropWindow(a)
    PROVE  WindowsInv'
<1> DEFINE D == DOMAIN windows
           E == DOMAIN windows'
           f == Kept
           g == [o \in DOMAIN windows' |-> Len(windows'[o])]
           m == Len(windows[a])
<1>1. /\ a \in DOMAIN windows /\ DOMAIN windows' = DOMAIN windows \ {a}
      /\ \A o \in DOMAIN windows' : windows'[o] = windows[o]
      /\ windows' = [o \in DOMAIN windows' |-> windows'[o]]
      /\ taken' = taken + m /\ prompts' = prompts \ {a} /\ added' = added /\ trims' = trims
  BY DEF DropWindow
<1>2. m \in Nat
  BY <1>1, SeqShape DEF WindowsInv, InOrder
<1>3. \A o \in DOMAIN windows' :
          InOrder(windows'[o], added') /\ (o \in prompts' \/ Bare(windows'[o]))
  BY <1>1 DEF WindowsInv
<1>4. MessagesKept = Columns(D, f) /\ IsFiniteSet(MessagesKept)
  BY DEF MessagesKept, Columns, Column, Kept, WindowsInv
<1>5. MessagesKept' = Columns(E, g)
  BY DEF MessagesKept, Columns, Column
<1>6. Beside(a, D, E, f, g)
  BY <1>1 DEF Beside, Kept
<1>7. m = (IF a \in D THEN f[a] ELSE 0) /\ 0 = (IF a \in E THEN g[a] ELSE 0)
  BY <1>1 DEF Kept
<1> HIDE DEF D, E, f, g, m
<1>8. /\ IsFiniteSet(Columns(E, g)) /\ Cardinality(Columns(D, f)) \in Nat
      /\ Cardinality(Columns(E, g)) = Cardinality(Columns(D, f)) - m + 0
  BY <1>2, <1>4, <1>6, <1>7, ColumnMoves
<1>9. taken' \in Nat /\ added' = trims' + taken' + Cardinality(MessagesKept')
  BY <1>1, <1>2, <1>4, <1>5, <1>8 DEF WindowsInv
<1> QED
  BY <1>1, <1>3, <1>5, <1>8, <1>9 DEF WindowsInv

LEMMA WindowsStep == WindowsInv /\ [WindowsNext]_windowVars => WindowsInv'
<1> SUFFICES ASSUME WindowsInv, [WindowsNext]_windowVars PROVE WindowsInv'
  OBVIOUS
<1>1. CASE UNCHANGED windowVars
  BY <1>1 DEF windowVars, WindowsInv, MessagesKept
<1>2. ASSUME NEW a \in WindowOwners, NEW size \in Sizes, AddMessage(a, size) PROVE WindowsInv'
  BY <1>2, AddMessageOK
<1>3. ASSUME NEW a \in WindowOwners, SetSystemPrompt(a) PROVE WindowsInv'
  BY <1>3, SetSystemPromptOK
<1>4. ASSUME NEW a \in WindowOwners, ClearWindow(a) PROVE WindowsInv'
  BY <1>4, ClearWindowOK
<1>5. ASSUME NEW a \in WindowOwners, DropWindow(a) PROVE WindowsInv'
  BY <1>5, DropWindowOK
<1> QED
  BY <1>1, <1>2, <1>3, <1>4, <1>5 DEF WindowsNext

LEMMA WindowsSoundAlways == WindowsSpec => []WindowsSound
<1>1. WindowsInv => WindowsSound
  BY DEF WindowsInv, WindowsSound, InOrder, Bare, Fits, Tokens
<1> QED
  BY <1>1, WindowsStart, WindowsStep, PTL DEF WindowsSpec

\* Nothing is lost: neither a run of a job nor a message of a window.
THEOREM HousekeepingAlways == JobsSpec /\ WindowsSpec => []HousekeepingSound
<1>1. JobsSound /\ WindowsSound <=> HousekeepingSound
  BY DEF HousekeepingSound
<1> QED
  BY <1>1, JobsSoundAlways, WindowsSoundAlways, PTL

-----------------------------------------------------------------------------
\* The chat pane.

\* The first k of a sequence, and of what it was before something was added.
LEMMA PrefixOK ==
    ASSUME NEW s, IsSeq(s), NEW k \in 0..Len(s)
    PROVE  /\ IsSeq(SubSeq(s, 1, k)) /\ Len(SubSeq(s, 1, k)) = k
           /\ \A i \in 1..k : SubSeq(s, 1, k)[i] = s[i]
<1>1. PICK S : s \in Seq(S)
  BY DEF IsSeq
<1>2. k \in Nat /\ k <= Len(s) /\ Len(s) \in Nat
  BY <1>1
<1>3. /\ SubSeq(s, 1, k) \in Seq(S) /\ Len(SubSeq(s, 1, k)) = k
      /\ \A i \in 1..k : SubSeq(s, 1, k)[i] = s[i]
  BY <1>1, <1>2
<1> QED
  BY <1>3 DEF IsSeq

LEMMA SameSeq ==
    ASSUME NEW s, IsSeq(s), NEW t, IsSeq(t), Len(s) = Len(t), \A i \in 1..Len(s) : s[i] = t[i]
    PROVE  s = t
<1>1. PICK S : s \in Seq(S)
  BY DEF IsSeq
<1>2. PICK T : t \in Seq(T)
  BY DEF IsSeq
<1>3. s \in Seq(S \cup T) /\ t \in Seq(S \cup T)
  BY <1>1, <1>2, SeqMonotonic
<1> QED
  BY <1>3, SeqEqual

LEMMA WholePrefix ==
    ASSUME NEW s, IsSeq(s)
    PROVE  SubSeq(s, 1, Len(s)) = s
<1>1. Len(s) \in 0..Len(s)
  BY SeqShape
<1> QED
  BY <1>1, PrefixOK, SameSeq

LEMMA PrefixOfPrefix ==
    ASSUME NEW s, IsSeq(s), NEW k \in 0..Len(s), NEW j \in 0..k
    PROVE  SubSeq(SubSeq(s, 1, k), 1, j) = SubSeq(s, 1, j)
<1> DEFINE t == SubSeq(s, 1, k)
<1>1. IsSeq(t) /\ Len(t) = k /\ (\A i \in 1..k : t[i] = s[i]) /\ Len(s) \in Nat
  BY PrefixOK, SeqShape
<1>2. j \in 0..Len(s) /\ j \in 0..Len(t)
  BY <1>1
<1> HIDE DEF t
<1>3. IsSeq(SubSeq(t, 1, j)) /\ Len(SubSeq(t, 1, j)) = j /\ (\A i \in 1..j : SubSeq(t, 1, j)[i] = t[i])
  BY <1>1, <1>2, PrefixOK
<1>4. IsSeq(SubSeq(s, 1, j)) /\ Len(SubSeq(s, 1, j)) = j /\ (\A i \in 1..j : SubSeq(s, 1, j)[i] = s[i])
  BY <1>2, PrefixOK
<1>5. \A i \in 1..j : SubSeq(t, 1, j)[i] = SubSeq(s, 1, j)[i]
  BY <1>1, <1>3, <1>4
<1>6. SubSeq(t, 1, j) = SubSeq(s, 1, j)
  BY <1>3, <1>4, <1>5, SameSeq
<1> QED
  BY <1>6 DEF t

LEMMA PrefixOfAppend ==
    ASSUME NEW s, IsSeq(s), NEW e, NEW k \in 0..Len(s)
    PROVE  SubSeq(Append(s, e), 1, k) = SubSeq(s, 1, k)
<1> DEFINE t == Append(s, e)
<1>1. /\ IsSeq(t) /\ Len(t) = Len(s) + 1 /\ Len(s) \in Nat
      /\ \A i \in 1..Len(s) : t[i] = s[i]
  BY AppendOK
<1>2. k \in 0..Len(t)
  BY <1>1
<1> HIDE DEF t
<1>3. IsSeq(SubSeq(t, 1, k)) /\ Len(SubSeq(t, 1, k)) = k /\ (\A i \in 1..k : SubSeq(t, 1, k)[i] = t[i])
  BY <1>1, <1>2, PrefixOK
<1>4. IsSeq(SubSeq(s, 1, k)) /\ Len(SubSeq(s, 1, k)) = k /\ (\A i \in 1..k : SubSeq(s, 1, k)[i] = s[i])
  BY PrefixOK
<1>5. \A i \in 1..k : SubSeq(t, 1, k)[i] = SubSeq(s, 1, k)[i]
  BY <1>1, <1>3, <1>4
<1>6. SubSeq(t, 1, k) = SubSeq(s, 1, k)
  BY <1>3, <1>4, <1>5, SameSeq
<1> QED
  BY <1>6 DEF t

\* Replies of a conversation h that answer their question, see ConversationHonest
Follows(h, i) ==
    /\ i > 1 /\ h[i - 1].role = "user" /\ h[i - 1].turn = h[i].turn
    /\ h[i].window = Window(SubSeq(h, 1, i - 1), h[i].turns)
Honest(h) == \A i \in DOMAIN h : h[i].role = "assistant" /\ ~h[i].cleared => Follows(h, i)

LEMMA HonestPrefix ==
    ASSUME NEW h, IsSeq(h), Honest(h), NEW k \in 0..Len(h)
    PROVE  Honest(SubSeq(h, 1, k))
<1> DEFINE t == SubSeq(h, 1, k)
<1>1. IsSeq(t) /\ Len(t) = k /\ (\A i \in 1..k : t[i] = h[i]) /\ Len(h) \in Nat
  BY PrefixOK, SeqShape
<1>2. \A i \in 1..k : SubSeq(t, 1, i - 1) = SubSeq(h, 1, i - 1)
  <2> SUFFICES ASSUME NEW i \in 1..k PROVE SubSeq(t, 1, i - 1) = SubSeq(h, 1, i - 1)
    OBVIOUS
  <2>1. i - 1 \in 0..k
    OBVIOUS
  <2> QED
    BY <2>1, PrefixOfPrefix
<1> HIDE DEF t
<1>3. DOMAIN t = 1..k /\ DOMAIN h = 1..Len(h)
  BY <1>1, SeqShape
<1>4. ASSUME NEW i \in DOMAIN t, t[i].role = "assistant", ~t[i].cleared
      PROVE  Follows(t, i)
  <2>1. i \in DOMAIN h /\ i \in 1..k /\ t[i] = h[i]
    BY <1>1, <1>3
  <2>2. Follows(h, i)
    BY <1>4, <2>1 DEF Honest
  <2>3. i - 1 \in 1..k
    BY <1>3, <2>1, <2>2 DEF Follows
  <2>4. t[i - 1] = h[i - 1] /\ SubSeq(t, 1, i - 1) = SubSeq(h, 1, i - 1)
    BY <1>1, <1>2, <2>1, <2>3
  <2> QED
    BY <2>1, <2>2, <2>4 DEF Follows
<1>5. Honest(t)
  BY <1>4 DEF Honest
<1> QED
  BY <1>5 DEF t

LEMMA HonestAppend ==
    ASSUME NEW h, IsSeq(h), Honest(h), NEW e,
           e.role = "assistant" /\ ~e.cleared =>
              /\ Len(h) > 0 /\ h[Len(h)].role = "user" /\ h[Len(h)].turn = e.turn
              /\ e.window = Window(h, e.turns)
    PROVE  Honest(Append(h, e))
<1> DEFINE t == Append(h, e)
<1>1. /\ IsSeq(t) /\ Len(t) = Len(h) + 1 /\ Len(h) \in Nat
      /\ t[Len(h) + 1] = e /\ \A i \in 1..Len(h) : t[i] = h[i]
  BY AppendOK
<1>2. \A i \in 1..(Len(h) + 1) : SubSeq(t, 1, i - 1) = SubSeq(h, 1, i - 1)
  <2> SUFFICES ASSUME NEW i \in 1..(Len(h) + 1) PROVE SubSeq(t, 1, i - 1) = SubSeq(h, 1, i - 1)
    OBVIOUS
  <2>1. i - 1 \in 0..Len(h)
    BY <1>1
  <2> QED
    BY <2>1, PrefixOfAppend
<1>3. SubSeq(h, 1, Len(h)) = h
  BY WholePrefix
<1> HIDE DEF t
<1>4. DOMAIN t = 1..(Len(h) + 1) /\ DOMAIN h = 1..Len(h)
  BY <1>1, SeqShape
<1>5. ASSUME NEW i \in DOMAIN t, t[i].role = "assistant", ~t[i].cleared
      PROVE  Follows(t, i)
  <2>1. CASE i = Len(h) + 1
    <3>1. t[i] = e /\ i - 1 = Len(h)
      BY <1>1, <2>1
    <3>2. /\ Len(h) > 0 /\ h[Len(h)].role = "user" /\ h[Len(h)].turn = e.turn
          /\ e.window = Window(h, e.turns)
      BY <1>5, <3>1
    <3>3. t[i - 1] = h[Len(h)] /\ SubSeq(t, 1, i - 1) = h
      BY <1>1, <1>2, <1>3, <1>4, <3>1, <3>2
    <3>4. t[i - 1].role = "user" /\ t[i - 1].turn = t[i].turn /\ i > 1
      BY <1>1, <3>1, <3>2, <3>3
    <3>5. t[i].window = Window(SubSeq(t, 1, i - 1), t[i].turns)
      BY <3>1, <3>2, <3>3
    <3> QED
      BY <3>4, <3>5 DEF Follows
  <2>2. CASE i # Len(h) + 1
    <3>1. i \in 1..Len(h) /\ i \in DOMAIN h /\ t[i] = h[i]
      BY <1>1, <1>4, <2>2
    <3>2. Follows(h, i)
      BY <1>5, <3>1 DEF Honest
    <3>3. i - 1 \in 1..Len(h)
      BY <1>1, <3>1, <3>2 DEF Follows
    <3>4. t[i - 1] = h[i - 1] /\ SubSeq(t, 1, i - 1) = SubSeq(h, 1, i - 1)
      BY <1>1, <1>2, <3>1, <3>3
    <3> QED
      BY <3>1, <3>2, <3>4 DEF Follows
  <2> QED
    BY <2>1, <2>2
<1>6. Honest(t)
  BY <1>5 DEF Honest
<1> QED
  BY <1>6 DEF t

\* Cutting a conversation at a place keeps it a conversation.
LEMMA CutAtOK ==
    ASSUME NEW h, IsSeq(h), NEW k \in Nat
    PROVE  /\ IsSeq(CutAt(h, k))
           /\ Honest(h) => Honest(CutAt(h, k))
           /\ k <= Len(h) => Len(CutAt(h, k)) = k /\ CutAt(h, k) = SubSeq(h, 1, k)
<1>0. Len(h) \in Nat
  BY SeqShape
<1>1. CASE k >= Len(h)
  BY <1>0, <1>1, WholePrefix DEF CutAt
<1>2. CASE ~(k >= Len(h))
  <2>1. k \in 0..Len(h) /\ CutAt(h, k) = SubSeq(h, 1, k)
    BY <1>0, <1>2 DEF CutAt
  <2>2. IsSeq(SubSeq(h, 1, k)) /\ Len(SubSeq(h, 1, k)) = k
    BY <2>1, PrefixOK
  <2>3. Honest(h) => Honest(SubSeq(h, 1, k))
    BY <2>1, HonestPrefix
  <2> QED
    BY <2>1, <2>2, <2>3
<1> QED
  BY <1>1, <1>2

\* What is sent of a conversation that ends with a question, at most n turns
\* of it unless n is 0.
LEMMA WindowOK ==
    ASSUME NEW h, IsSeq(h), NEW n \in Nat, Len(h) > 0, h[Len(h)].role = "user"
    PROVE  /\ IsSeq(Window(h, n)) /\ Len(Window(h, n)) > 0
           /\ Window(h, n)[Len(Window(h, n))] = h[Len(h)]
           /\ n > 0 => /\ Window(h, n)[1].role = "user"
                       /\ Len(Window(h, n)) <= 2 * n + 1
<1> DEFINE keep == 2 * n + (IF h # << >> /\ Last(h).role = "user" THEN 1 ELSE 0)
           tail == SubSeq(h, Len(h) - keep + 1, Len(h))
           rest == IF keep >= Len(h) THEN h ELSE tail
           questions == {i \in DOMAIN rest : rest[i].role = "user"}
<1>1. Len(h) \in Nat /\ DOMAIN h = 1..Len(h)
  BY SeqShape
<1>2. CASE n = 0
  <2>1. Window(h, n) = h
    BY <1>2 DEF Window
  <2> QED
    BY <1>1, <1>2, <2>1
<1>3. CASE n # 0
  <2>1. keep = 2 * n + 1
    <3>1. h # << >> /\ Last(h) = h[Len(h)]
      <4>1. Len(<< >>) = 0
        OBVIOUS
      <4> QED
        BY <4>1 DEF Last
    <3> QED
      BY <3>1
  <2>2. /\ IsSeq(rest) /\ Len(rest) \in 1..(2 * n + 1)
        /\ rest[Len(rest)] = h[Len(h)]
    <3>1. CASE keep >= Len(h)
      BY <1>1, <2>1, <3>1
    <3>2. CASE ~(keep >= Len(h))
      <4>1. PICK S : h \in Seq(S)
        BY DEF IsSeq
      <4>2. /\ tail \in Seq(S) /\ Len(tail) = keep
            /\ \A i \in 1..keep : tail[i] = h[Len(h) - keep + i]
        <5> HIDE DEF keep
        <5>1. Len(h) - keep + 1 \in 1..Len(h) /\ keep \in Nat
          BY <1>1, <2>1, <3>2
        <5> QED
          BY <4>1, <5>1
      <4>3. keep \in 1..keep /\ tail[keep] = h[Len(h)]
        <5> HIDE DEF keep, tail
        <5>1. keep \in 1..keep /\ Len(h) - keep + keep = Len(h)
          BY <1>1, <2>1
        <5> QED
          BY <4>2, <5>1
      <4>4. rest = tail
        BY <3>2
      <4> HIDE DEF keep, tail, rest
      <4> QED
        BY <2>1, <4>2, <4>3, <4>4 DEF IsSeq
    <3> QED
      BY <3>1, <3>2
  <2>3. Window(h, n) = IF questions = {} THEN << >> ELSE SubSeq(rest, Min(questions), Len(rest))
    BY <1>3 DEF Window
  <2> HIDE DEF keep, tail, rest
  <2>4. DOMAIN rest = 1..Len(rest) /\ Len(rest) \in Nat
    BY <2>2, SeqShape
  <2>5. Len(rest) \in questions /\ questions \in SUBSET Nat
    BY <2>2, <2>4
  <2>6. PICK x \in questions : \A y \in questions : x <= y
    BY <2>5, Smallest
  <2>7. Min(questions) \in questions
    <3>1. \E z \in questions : \A y \in questions : z <= y
      BY <2>6
    <3> HIDE DEF questions
    <3> QED
      BY <3>1 DEF Min
  <2> DEFINE m == Min(questions)
             w == SubSeq(rest, m, Len(rest))
  <2>8. m \in 1..Len(rest) /\ rest[m].role = "user"
    BY <2>4, <2>7
  <2>9. Window(h, n) = w
    BY <2>3, <2>5
  <2> HIDE DEF m
  <2>10. PICK S : rest \in Seq(S)
    BY <2>2 DEF IsSeq
  <2>11. /\ w \in Seq(S) /\ Len(w) = Len(rest) - m + 1
         /\ \A i \in 1..Len(w) : w[i] = rest[m + i - 1]
    BY <2>4, <2>8, <2>10
  <2> HIDE DEF w
  <2>12. Len(w) \in 1..(2 * n + 1) /\ Len(w) \in 1..Len(w) /\ 1 \in 1..Len(w)
    BY <2>2, <2>4, <2>8, <2>11
  <2>13. w[1] = rest[m] /\ w[Len(w)] = rest[Len(rest)]
    <3>1. w[1] = rest[m + 1 - 1] /\ w[Len(w)] = rest[m + Len(w) - 1]
      BY <2>11, <2>12
    <3>2. m + 1 - 1 = m /\ m + Len(w) - 1 = Len(rest)
      BY <2>4, <2>8, <2>11
    <3> QED
      BY <3>1, <3>2
  <2>14. IsSeq(w) /\ Len(w) > 0 /\ Len(w) <= 2 * n + 1
    BY <2>11, <2>12 DEF IsSeq
  <2> QED
    BY <2>2, <2>8, <2>9, <2>13, <2>14
<1> QED
  BY <1>2, <1>3

\* A question and its context: what the conversation was cut at.
ContextKept(a, h) ==
    /\ IsSeq(a.context) /\ Len(a.context) = a.before /\ a.before <= Len(h)
    /\ SubSeq(h, 1, a.before) = a.context

Writing == {"adding", "asking", "finishing", "gone"}

WorkerShape(w) ==
    /\ w = [at |-> w.at, text |-> w.text, turn |-> w.turn, before |-> w.before,
            window |-> w.window, turns |-> w.turns, cleared |-> w.cleared]
    /\ w.before \in Nat /\ w.turns \in Nat /\ w.cleared \in BOOLEAN

AttemptShape(a) ==
    a = [text |-> a.text, before |-> a.before, context |-> a.context] /\ a.before \in Nat

ChatInv ==
    /\ IsSeq(history) /\ turns \in Nat /\ busy \in BOOLEAN
    /\ WorkerShape(worker) /\ AttemptShape(attempt)
    /\ Honest(history)
    /\ busy <=> worker.at \in Writing
    /\ worker.at = "queued" => ~worker.cleared
    /\ worker.at \in {"adding", "asking"} /\ ~worker.cleared =>
          /\ Len(history) > 0 /\ history[Len(history)].role = "user"
          /\ history[Len(history)].turn = worker.turn
    /\ worker.at = "asking" /\ ~worker.cleared => worker.window = Window(history, worker.turns)
    /\ attempt # NoAttempt => ContextKept(attempt, history)
    /\ worker.at \in Writing /\ attempt # NoAttempt => worker.before = attempt.before

LEMMA ChatStart == ChatInit => ChatInv
<1> SUFFICES ASSUME ChatInit PROVE ChatInv
  OBVIOUS
<1>1. history = << >> /\ busy = FALSE /\ attempt = NoAttempt /\ worker = NoWorker /\ turns \in Nat
  BY ChatPaneAssumption DEF ChatInit
<1>2. IsSeq(<< >>) /\ DOMAIN << >> = {}
  <2>1. << >> \in Seq({})
    OBVIOUS
  <2> QED
    BY <2>1 DEF IsSeq
<1>3. Honest(history)
  BY <1>1, <1>2 DEF Honest
<1>4. worker.at = "idle" /\ WorkerShape(worker)
  BY <1>1 DEF NoWorker, WorkerShape
<1>5. AttemptShape(attempt)
  BY <1>1 DEF NoAttempt, AttemptShape
<1>6. worker.at \notin Writing /\ worker.at # "queued" /\ worker.at # "asking"
      /\ worker.at # "adding"
  BY <1>4 DEF Writing
<1> QED
  BY <1>1, <1>2, <1>3, <1>4, <1>5, <1>6 DEF ChatInv

LEMMA ChatHolds == ChatInv => ChatSound
<1> SUFFICES ASSUME ChatInv PROVE ChatSound
  OBVIOUS
<1>1. ConversationHonest
  BY DEF ChatInv, Honest, Follows, ConversationHonest
<1>2. RetryKeepsContext
  <2> SUFFICES ASSUME attempt # NoAttempt PROVE CutAt(history, attempt.before) = attempt.context
    BY DEF RetryKeepsContext
  <2>1. ContextKept(attempt, history) /\ IsSeq(history) /\ attempt.before \in Nat
    BY DEF ChatInv, AttemptShape
  <2>2. attempt.before <= Len(history)
    BY <2>1 DEF ContextKept
  <2>3. CutAt(history, attempt.before) = SubSeq(history, 1, attempt.before)
    BY <2>1, <2>2, CutAtOK
  <2> QED
    BY <2>1, <2>3 DEF ContextKept
<1>3. WindowEndsWithQuestion
  <2> SUFFICES ASSUME worker.at = "asking", ~worker.cleared
               PROVE  /\ worker.window # << >> /\ Last(worker.window).turn = worker.turn
                      /\ worker.turns > 0 => Head(worker.window).role = "user"
                      /\ worker.turns > 0 => Len(worker.window) <= 2 * worker.turns + 1
    BY DEF WindowEndsWithQuestion
  <2>1. /\ Len(history) > 0 /\ history[Len(history)].role = "user"
        /\ history[Len(history)].turn = worker.turn
        /\ worker.window = Window(history, worker.turns)
        /\ IsSeq(history) /\ worker.turns \in Nat
    BY DEF ChatInv, WorkerShape
  <2> DEFINE w == worker.window
             n == worker.turns
  <2>2. /\ IsSeq(w) /\ Len(w) > 0 /\ w[Len(w)] = history[Len(history)]
        /\ n > 0 => w[1].role = "user" /\ Len(w) <= 2 * n + 1
    BY <2>1, WindowOK
  <2>3. w # << >> /\ Last(w) = w[Len(w)]
    <3>1. Len(<< >>) = 0
      OBVIOUS
    <3> QED
      BY <2>2, <3>1 DEF Last
  <2>4. Head(w) = w[1]
    <3>1. PICK S : w \in Seq(S)
      BY <2>2 DEF IsSeq
    <3> HIDE DEF w
    <3> QED
      BY <3>1, <2>3
  <2> QED
    BY <2>1, <2>2, <2>3, <2>4
<1>4. BusyWhileReplying
  BY DEF ChatInv, Writing, BusyWhileReplying
<1> QED
  BY <1>1, <1>2, <1>3, <1>4 DEF ChatSound

\* The conversation is cut where the question to retry was put.
LEMMA CutKeeps ==
    ASSUME ChatInv, NEW k \in Nat, attempt # NoAttempt => k = attempt.before
    PROVE  /\ IsSeq(CutAt(history, k)) /\ Honest(CutAt(history, k))
           /\ attempt # NoAttempt => ContextKept(attempt, CutAt(history, k))
<1>1. IsSeq(history) /\ Honest(history)
  BY DEF ChatInv
<1>2. IsSeq(CutAt(history, k)) /\ Honest(CutAt(history, k))
  BY <1>1, CutAtOK
<1>3. ASSUME attempt # NoAttempt PROVE ContextKept(attempt, CutAt(history, k))
  <2>1. ContextKept(attempt, history) /\ k = attempt.before
    BY <1>3 DEF ChatInv
  <2>2. Len(CutAt(history, k)) = k /\ CutAt(history, k) = attempt.context
    BY <1>1, <2>1, CutAtOK DEF ContextKept
  <2>3. SubSeq(attempt.context, 1, k) = attempt.context
    BY <2>1, WholePrefix DEF ContextKept
  <2> QED
    BY <2>1, <2>2, <2>3 DEF ContextKept
<1> QED
  BY <1>2, <1>3

\* A step after which no reply is in progress.
LEMMA QuietOK ==
    ASSUME ChatInv, WorkerShape(worker'), worker'.at \in {"idle", "queued"}, ~worker'.cleared,
           busy' = FALSE, attempt' = attempt, turns' = turns,
           IsSeq(history'), Honest(history'),
           attempt # NoAttempt => ContextKept(attempt, history')
    PROVE  ChatInv'
<1>1. worker'.at \notin Writing /\ worker'.at # "asking" /\ worker'.at # "adding"
  BY DEF Writing
<1>2. turns \in Nat /\ AttemptShape(attempt)
  BY DEF ChatInv
<1> QED
  BY <1>1, <1>2 DEF ChatInv

LEMMA FreshWorker == WorkerShape(NoWorker) /\ NoWorker.at = "idle" /\ ~NoWorker.cleared
BY DEF NoWorker, WorkerShape

LEMMA QueuedWorker ==
    ASSUME NEW text, NEW w, w = [NoWorker EXCEPT !.at = "queued", !.text = text]
    PROVE  WorkerShape(w) /\ w.at = "queued" /\ ~w.cleared
<1>1. PICK v : v = NoWorker
  OBVIOUS
<1>2. WorkerShape(v) /\ ~v.cleared
  BY <1>1, FreshWorker
<1>3. w = [v EXCEPT !.at = "queued", !.text = text]
  BY <1>1
<1>4. WorkerShape(w) /\ w.at = "queued" /\ w.cleared = v.cleared
  BY <1>2, <1>3 DEF WorkerShape
<1> QED
  BY <1>2, <1>4

LEMMA HistoryStays ==
    ChatInv => /\ IsSeq(history) /\ Honest(history)
               /\ attempt # NoAttempt => ContextKept(attempt, history)
BY DEF ChatInv

\* A worker that writes has its question where the question to retry was put.
LEMMA WriterPlaced ==
    ASSUME ChatInv, worker.at \in {"adding", "asking", "finishing"}
    PROVE  worker.before \in Nat /\ (attempt # NoAttempt => worker.before = attempt.before)
BY DEF ChatInv, Writing, WorkerShape

LEMMA NotBusy ==
    ASSUME ChatInv, worker.at \notin Writing
    PROVE  busy = FALSE
BY DEF ChatInv

LEMMA SubmitOK == ASSUME ChatInv, NEW text, Submit(text) PROVE ChatInv'
<1>1. worker' = [NoWorker EXCEPT !.at = "queued", !.text = text] /\ busy = FALSE
      /\ history' = history /\ busy' = busy /\ attempt' = attempt /\ turns' = turns
  BY DEF Submit, ChatInv
<1>2. WorkerShape(worker') /\ worker'.at = "queued" /\ ~worker'.cleared
  BY <1>1, QueuedWorker
<1> QED
  BY <1>1, <1>2, HistoryStays, QuietOK

LEMMA SendRefusedOK == ASSUME ChatInv, SendRefused PROVE ChatInv'
<1>1. worker' = NoWorker /\ worker.at = "queued"
      /\ history' = history /\ busy' = busy /\ attempt' = attempt /\ turns' = turns
  BY DEF SendRefused
<1>2. WorkerShape(worker') /\ worker'.at = "idle" /\ ~worker'.cleared
  BY <1>1, FreshWorker
<1>3. busy = FALSE
  BY <1>1, NotBusy DEF Writing
<1> QED
  BY <1>1, <1>2, <1>3, HistoryStays, QuietOK

LEMMA ReplyShownOK == ASSUME ChatInv, ReplyShown PROVE ChatInv'
<1>1. worker' = NoWorker /\ busy' = FALSE
      /\ history' = history /\ attempt' = attempt /\ turns' = turns
  BY DEF ReplyShown
<1>2. WorkerShape(worker') /\ worker'.at = "idle" /\ ~worker'.cleared
  BY <1>1, FreshWorker
<1> QED
  BY <1>1, <1>2, HistoryStays, QuietOK

LEMMA ReplyBreaksOK == ASSUME ChatInv, ReplyBreaks PROVE ChatInv'
<1>1. worker' = NoWorker /\ busy' = FALSE
      /\ history' = history /\ attempt' = attempt /\ turns' = turns
  BY DEF ReplyBreaks
<1>2. WorkerShape(worker') /\ worker'.at = "idle" /\ ~worker'.cleared
  BY <1>1, FreshWorker
<1> QED
  BY <1>1, <1>2, HistoryStays, QuietOK

\* The reply is given up and the question taken back.
LEMMA TakenBackOK ==
    ASSUME ChatInv, worker.at \in {"asking", "finishing"},
           history' = CutAt(history, worker.before), worker' = NoWorker, busy' = FALSE,
           attempt' = attempt, turns' = turns
    PROVE  ChatInv'
<1>1. WorkerShape(worker') /\ worker'.at = "idle" /\ ~worker'.cleared
  BY FreshWorker
<1>2. worker.before \in Nat /\ (attempt # NoAttempt => worker.before = attempt.before)
  BY WriterPlaced
<1>3. IsSeq(history') /\ Honest(history') /\ (attempt # NoAttempt => ContextKept(attempt, history'))
  BY <1>2, CutKeeps
<1> QED
  BY <1>1, <1>3, QuietOK

LEMMA RetryOK == ASSUME ChatInv, Retry PROVE ChatInv'
<1>1. worker' = [NoWorker EXCEPT !.at = "queued", !.text = attempt.text] /\ busy' = FALSE
      /\ history' = CutAt(history, attempt.before) /\ attempt' = attempt /\ turns' = turns
  BY DEF Retry, ChatInv
<1>2. WorkerShape(worker') /\ worker'.at = "queued" /\ ~worker'.cleared
  BY <1>1, QueuedWorker
<1>3. attempt.before \in Nat
  BY DEF ChatInv, AttemptShape
<1>4. IsSeq(history') /\ Honest(history') /\ (attempt # NoAttempt => ContextKept(attempt, history'))
  BY <1>1, <1>3, CutKeeps
<1> QED
  BY <1>1, <1>2, <1>4, QuietOK

LEMMA SendBeginsOK == ASSUME ChatInv, SendBegins PROVE ChatInv'
<1> DEFINE e == [role |-> "user", turn |-> asked', window |-> << >>, turns |-> 0, cleared |-> FALSE]
<1>1. /\ worker.at = "queued" /\ busy' = TRUE /\ turns' = turns
      /\ attempt' = [text |-> worker.text, before |-> Len(history), context |-> history]
      /\ history' = Append(history, e)
      /\ worker' = [worker EXCEPT !.at = "adding", !.turn = asked', !.before = Len(history)]
  BY DEF SendBegins
<1>2. IsSeq(history) /\ Honest(history) /\ turns \in Nat
      /\ WorkerShape(worker) /\ ~worker.cleared
  BY <1>1 DEF ChatInv
<1>3. e.role = "user" /\ e.turn = asked'
  OBVIOUS
<1> HIDE DEF e
<1>4. /\ IsSeq(history') /\ Len(history') = Len(history) + 1 /\ Len(history) \in Nat
      /\ history'[Len(history) + 1] = e
  BY <1>1, <1>2, AppendOK
<1>5. Honest(history')
  BY <1>1, <1>2, <1>3, HonestAppend
<1>6. /\ WorkerShape(worker') /\ worker'.at = "adding" /\ worker'.turn = asked'
      /\ worker'.before = Len(history)
  BY <1>1, <1>2, <1>4 DEF WorkerShape
<1>7. AttemptShape(attempt') /\ attempt'.before = Len(history) /\ attempt'.context = history
  BY <1>1, <1>4 DEF AttemptShape
<1>8. SubSeq(history', 1, Len(history)) = history
  <2>1. Len(history) \in 0..Len(history)
    BY <1>4
  <2>2. SubSeq(history', 1, Len(history)) = SubSeq(history, 1, Len(history))
    BY <1>1, <1>2, <2>1, PrefixOfAppend
  <2> QED
    BY <1>2, <2>2, WholePrefix
<1>9. ContextKept(attempt', history')
  BY <1>2, <1>4, <1>7, <1>8 DEF ContextKept
<1>10. /\ Len(history') > 0 /\ history'[Len(history')].role = "user"
       /\ history'[Len(history')].turn = worker'.turn
  BY <1>3, <1>4, <1>6
<1>11. worker'.at \in Writing /\ worker'.at # "queued" /\ worker'.at # "asking"
  BY <1>6 DEF Writing
<1> QED
  BY <1>1, <1>2, <1>4, <1>5, <1>6, <1>7, <1>9, <1>10, <1>11 DEF ChatInv

LEMMA GenerateOK == ASSUME ChatInv, Generate PROVE ChatInv'
<1>1. /\ worker.at = "adding"
      /\ worker' = [worker EXCEPT !.at = "asking", !.window = Window(history, turns), !.turns = turns]
      /\ history' = history /\ busy' = busy /\ attempt' = attempt /\ turns' = turns
  BY DEF Generate
<1>2. WorkerShape(worker) /\ turns \in Nat
  BY DEF ChatInv
<1>3. /\ WorkerShape(worker') /\ worker'.at = "asking" /\ worker'.window = Window(history, turns)
      /\ worker'.turns = turns /\ worker'.turn = worker.turn /\ worker'.before = worker.before
      /\ worker'.cleared = worker.cleared
  BY <1>1, <1>2 DEF WorkerShape
<1>4. worker.at \in Writing /\ worker'.at \in Writing /\ worker'.at # "queued"
  BY <1>1, <1>3 DEF Writing
<1> QED
  BY <1>1, <1>3, <1>4 DEF ChatInv

LEMMA ReplyEndsOK == ASSUME ChatInv, ReplyEnds PROVE ChatInv'
<1> DEFINE e == [role |-> "assistant", turn |-> worker.turn, window |-> worker.window,
                 turns |-> worker.turns, cleared |-> worker.cleared]
<1>1. /\ worker.at = "asking" /\ busy' = busy /\ turns' = turns /\ attempt' = attempt
      /\ history' = Append(history, e) /\ worker' = [worker EXCEPT !.at = "finishing"]
  BY DEF ReplyEnds
<1>2. /\ IsSeq(history) /\ Honest(history) /\ turns \in Nat /\ WorkerShape(worker)
      /\ AttemptShape(attempt)
  BY DEF ChatInv
<1>3. e.cleared = worker.cleared /\ e.turn = worker.turn /\ e.turns = worker.turns
      /\ e.window = worker.window
  OBVIOUS
<1> HIDE DEF e
<1>4. IsSeq(history') /\ Len(history') = Len(history) + 1 /\ Len(history) \in Nat
  BY <1>1, <1>2, AppendOK
<1>5. e.role = "assistant" /\ ~e.cleared =>
         /\ Len(history) > 0 /\ history[Len(history)].role = "user"
         /\ history[Len(history)].turn = e.turn
         /\ e.window = Window(history, e.turns)
  BY <1>1, <1>3 DEF ChatInv
<1>6. Honest(history')
  BY <1>1, <1>2, <1>5, HonestAppend
<1>7. /\ WorkerShape(worker') /\ worker'.at = "finishing" /\ worker'.before = worker.before
  BY <1>1, <1>2 DEF WorkerShape
<1>8. ASSUME attempt # NoAttempt PROVE ContextKept(attempt, history')
  <2>1. ContextKept(attempt, history) /\ attempt.before \in Nat
    BY <1>8 DEF ChatInv, AttemptShape
  <2>2. attempt.before \in 0..Len(history)
    BY <1>4, <2>1 DEF ContextKept
  <2>3. SubSeq(history', 1, attempt.before) = SubSeq(history, 1, attempt.before)
    BY <1>1, <1>2, <2>2, PrefixOfAppend
  <2> QED
    BY <1>4, <2>1, <2>2, <2>3 DEF ContextKept
<1>9. /\ worker.at \in Writing /\ worker'.at \in Writing /\ worker'.at # "queued"
      /\ worker'.at # "asking" /\ worker'.at # "adding"
  BY <1>1, <1>7 DEF Writing
<1> QED
  BY <1>1, <1>2, <1>4, <1>6, <1>7, <1>8, <1>9 DEF ChatInv

LEMMA StopOK == ASSUME ChatInv, Stop PROVE ChatInv'
<1>0. attempt' = attempt /\ turns' = turns
  BY DEF Stop
<1>1. CASE worker.at = "queued" /\ worker' = NoWorker /\ UNCHANGED <<history, busy>>
  <2>1. WorkerShape(worker') /\ worker'.at = "idle" /\ ~worker'.cleared
    BY <1>1, FreshWorker
  <2>2. busy' = FALSE
    BY <1>1, NotBusy DEF Writing
  <2> QED
    BY <1>0, <1>1, <2>1, <2>2, HistoryStays, QuietOK
<1>2. CASE worker.at = "adding" /\ worker' = [worker EXCEPT !.at = "gone"] /\ UNCHANGED <<history, busy>>
  <2>1. WorkerShape(worker)
    BY DEF ChatInv
  <2>2. WorkerShape(worker') /\ worker'.at = "gone" /\ worker'.before = worker.before
    BY <1>2, <2>1 DEF WorkerShape
  <2>3. /\ worker.at \in Writing /\ worker'.at \in Writing /\ worker'.at # "queued"
        /\ worker'.at # "asking" /\ worker'.at # "adding"
    BY <1>2, <2>2 DEF Writing
  <2> QED
    BY <1>0, <1>2, <2>2, <2>3 DEF ChatInv
<1>3. CASE /\ worker.at \in {"asking", "finishing"} /\ history' = CutAt(history, worker.before)
           /\ worker' = NoWorker /\ busy' = FALSE
  BY <1>0, <1>3, TakenBackOK
<1> QED
  BY <1>1, <1>2, <1>3 DEF Stop

LEMMA ClearOK == ASSUME ChatInv, Clear PROVE ChatInv'
<1>1. /\ history' = << >> /\ attempt' = NoAttempt /\ busy' = busy /\ turns' = turns
      /\ worker' = [worker EXCEPT !.cleared = worker.at \in {"adding", "asking", "finishing"}]
  BY DEF Clear, Forgotten
<1>2. WorkerShape(worker) /\ turns \in Nat
  BY DEF ChatInv
<1>3. /\ WorkerShape(worker') /\ worker'.at = worker.at
      /\ worker'.cleared = (worker.at \in {"adding", "asking", "finishing"})
  BY <1>1, <1>2 DEF WorkerShape
<1>4. IsSeq(history') /\ Honest(history')
  <2>1. << >> \in Seq({}) /\ DOMAIN << >> = {}
    OBVIOUS
  <2> QED
    BY <1>1, <2>1 DEF IsSeq, Honest
<1>5. AttemptShape(attempt')
  BY <1>1 DEF AttemptShape, NoAttempt
<1>6. worker'.at = "queued" => ~worker'.cleared
  BY <1>3
<1>7. worker'.at \in {"adding", "asking"} => worker'.cleared
  BY <1>3
<1>8. worker'.at = "asking" => worker'.at \in {"adding", "asking"}
  OBVIOUS
<1> QED
  BY <1>1, <1>2, <1>3, <1>4, <1>5, <1>6, <1>7, <1>8 DEF ChatInv

LEMMA ChatStep == ChatInv /\ [ChatNext]_chatVars => ChatInv'
<1> SUFFICES ASSUME ChatInv, [ChatNext]_chatVars PROVE ChatInv'
  OBVIOUS
<1>1. ASSUME UNCHANGED <<history, busy, attempt, worker>>, turns' \in Nat PROVE ChatInv'
  BY <1>1 DEF ChatInv
<1>2. CASE UNCHANGED chatVars
  BY <1>1, <1>2 DEF chatVars, ChatInv
<1>3. ASSUME NEW n \in Turns, SetTurns(n) PROVE ChatInv'
  BY <1>1, <1>3, ChatPaneAssumption DEF SetTurns
<1>4. ASSUME NEW m \in Modes, SetMode(m) PROVE ChatInv'
  BY <1>1, <1>4 DEF SetMode, ChatInv
<1>5. CASE ReplyFails
  BY <1>5, TakenBackOK DEF ReplyFails
<1>6. ASSUME NEW text \in {1, 2}, Submit(text) PROVE ChatInv'
  BY <1>6, SubmitOK
<1> QED
  BY <1>2, <1>3, <1>4, <1>5, <1>6, SendRefusedOK, SendBeginsOK, GenerateOK, ReplyEndsOK,
     ReplyShownOK, ReplyBreaksOK, StopOK, ClearOK, RetryOK DEF ChatNext

\* However replies are stopped, retried, cleared or broken off while they are
\* being written, the conversation of a chat pane stays one.
THEOREM ChatAlways == ChatSpec => []ChatSound
BY ChatStart, ChatStep, ChatHolds, PTL DEF ChatSpec

-----------------------------------------------------------------------------
\* The books of the router.

Pairs == {<<p, x>> : p \in Vendors, x \in Labels \cup {"other"}}

\* A counter of labels.
CounterOK(f) ==
    /\ f = [x \in DOMAIN f |-> f[x]] /\ DOMAIN f \subseteq Pairs /\ IsFiniteSet(DOMAIN f)
    /\ \A x \in DOMAIN f : f[x] \in Nat
    /\ \A p \in Vendors : IsFiniteSet(Columns(OfVendor(f, p), f))

LEMMA TotalIs ==
    ASSUME NEW f, NEW p
    PROVE  Total(f, p) = Cardinality(Columns(OfVendor(f, p), f))
BY DEF Total, Columns, Column

\* One more of a label is one more of its provider, and of no other.
LEMMA CountedOK ==
    ASSUME NEW f, CounterOK(f), NEW q \in Vendors, NEW x \in Pairs, x[1] = q
    PROVE  /\ CounterOK(Counted(f, x)) /\ DOMAIN Counted(f, x) = DOMAIN f \cup {x}
           /\ \A p \in Vendors : Total(f, p) \in Nat
           /\ \A p \in Vendors : Total(Counted(f, x), p) = Total(f, p) + (IF p = q THEN 1 ELSE 0)
<1> DEFINE g == Counted(f, x)
<1>1. /\ DOMAIN g = DOMAIN f \cup {x} /\ g = [y \in DOMAIN g |-> g[y]]
      /\ g[x] = (IF x \in DOMAIN f THEN f[x] ELSE 0) + 1
      /\ \A y \in DOMAIN f : y # x => g[y] = f[y] + 0
  BY DEF Counted
<1> HIDE DEF g
<1>2. \A y \in DOMAIN f : f[y] \in Nat
  BY DEF CounterOK
<1>3. \A y \in DOMAIN f : y # x => g[y] = f[y]
  BY <1>1, <1>2
<1>4. \A y \in DOMAIN g : g[y] \in Nat
  BY <1>1, <1>2, <1>3
<1>5. DOMAIN g \subseteq Pairs /\ IsFiniteSet(DOMAIN g)
  BY <1>1, FS_AddElement DEF CounterOK
<1>6. ASSUME NEW p \in Vendors
      PROVE  /\ IsFiniteSet(Columns(OfVendor(g, p), g))
             /\ Cardinality(Columns(OfVendor(f, p), f)) \in Nat
             /\ Cardinality(Columns(OfVendor(g, p), g))
                  = Cardinality(Columns(OfVendor(f, p), f)) + (IF p = q THEN 1 ELSE 0)
  <2> DEFINE D == OfVendor(f, p)
             E == OfVendor(g, p)
  <2>1. IsFiniteSet(Columns(D, f)) /\ Cardinality(Columns(D, f)) \in Nat
    BY FS_CardinalityType DEF CounterOK
  <2>2. CASE p = q
    <3>1. PICK m \in Nat : m = (IF x \in DOMAIN f THEN f[x] ELSE 0)
      BY <1>2
    <3>2. m = (IF x \in D THEN f[x] ELSE 0) /\ m + 1 = (IF x \in E THEN g[x] ELSE 0)
      BY <1>1, <2>2, <3>1 DEF OfVendor
    <3>3. Beside(x, D, E, f, g)
      BY <1>1, <1>3 DEF Beside, OfVendor
    <3> HIDE DEF D, E
    <3>4. /\ IsFiniteSet(Columns(E, g))
          /\ Cardinality(Columns(E, g)) = Cardinality(Columns(D, f)) - m + (m + 1)
      BY <2>1, <3>1, <3>2, <3>3, ColumnMoves
    <3>5. Cardinality(Columns(E, g)) = Cardinality(Columns(D, f)) + 1
      BY <2>1, <3>1, <3>4
    <3> QED
      BY <2>1, <2>2, <3>4, <3>5 DEF D, E
  <2>3. CASE p # q
    <3>1. E = D /\ \A y \in D : g[y] = f[y]
      BY <1>1, <1>3, <2>3 DEF OfVendor
    <3>2. Columns(E, g) = Columns(D, f)
      BY <3>1 DEF Columns
    <3>3. Cardinality(Columns(D, f)) = Cardinality(Columns(D, f)) + 0
      BY <2>1
    <3> QED
      BY <2>1, <2>3, <3>2, <3>3
  <2> QED
    BY <2>2, <2>3
<1>7. CounterOK(g)
  BY <1>1, <1>4, <1>5, <1>6 DEF CounterOK
<1>8. \A p \in Vendors : Total(f, p) \in Nat
                         /\ Total(g, p) = Total(f, p) + (IF p = q THEN 1 ELSE 0)
  BY <1>6, TotalIs
<1> QED
  BY <1>1, <1>7, <1>8 DEF g

\* The labels of a provider that are not the one its models share past the cap
Named(f, p) == {x \in DOMAIN f : x[1] = p /\ x # <<p, "other">>}
Plain(f) == {x \in DOMAIN f : x[2] # "other"}

BilledShape == billed \in [Vendors -> [all: Nat, none: Nat]]

BooksInv ==
    /\ BilledShape /\ CounterOK(models) /\ CounterOK(unpriced)
    /\ \A p \in Vendors : Total(models, p) = billed[p].all /\ Total(unpriced, p) = billed[p].none
    /\ \A p \in Vendors : Cardinality(Named(models, p)) <= MaxModels
    /\ Cardinality(Plain(unpriced)) <= MaxUnpriced

LEMMA BooksHold == BooksInv => BooksBalance
<1> SUFFICES ASSUME BooksInv, NEW p \in Vendors
             PROVE  /\ Total(models, p) = billed[p].all /\ Total(unpriced, p) = billed[p].none
                    /\ Cardinality(OfVendor(models, p)) <= MaxModels + 1
                    /\ Cardinality(DOMAIN unpriced) <= MaxUnpriced + Cardinality(Vendors)
  BY DEF BooksBalance
<1>1. Total(models, p) = billed[p].all /\ Total(unpriced, p) = billed[p].none
  BY DEF BooksInv
<1>2. Cardinality(OfVendor(models, p)) <= MaxModels + 1
  <2>1. IsFiniteSet(Named(models, p))
    <3>1. IsFiniteSet(DOMAIN models) /\ Named(models, p) \in SUBSET DOMAIN models
      BY DEF BooksInv, CounterOK, Named
    <3> QED
      BY <3>1, FS_Subset
  <2>2. /\ IsFiniteSet(Named(models, p) \cup {<<p, "other">>})
        /\ Cardinality(Named(models, p) \cup {<<p, "other">>}) <= Cardinality(Named(models, p)) + 1
    <3>1. Cardinality(Named(models, p)) \in Nat
      BY <2>1, FS_CardinalityType
    <3> DEFINE S == Named(models, p)
               x == <<p, "other">>
    <3> HIDE DEF S, x
    <3>2. IsFiniteSet(S) /\ Cardinality(S) \in Nat
      BY <2>1, <3>1 DEF S
    <3>3. /\ IsFiniteSet(S \cup {x})
          /\ Cardinality(S \cup {x}) = IF x \in S THEN Cardinality(S) ELSE Cardinality(S) + 1
      BY <3>2, FS_AddElement
    <3>4. IsFiniteSet(S \cup {x}) /\ Cardinality(S \cup {x}) <= Cardinality(S) + 1
      BY <3>2, <3>3
    <3> QED
      BY <3>4 DEF S, x
  <2>3. OfVendor(models, p) \in SUBSET (Named(models, p) \cup {<<p, "other">>})
    BY DEF OfVendor, Named
  <2>4. Cardinality(OfVendor(models, p)) <= Cardinality(Named(models, p) \cup {<<p, "other">>})
    BY <2>2, <2>3, FS_Subset
  <2>5. /\ Cardinality(OfVendor(models, p)) \in Nat /\ Cardinality(Named(models, p)) \in Nat
        /\ Cardinality(Named(models, p) \cup {<<p, "other">>}) \in Nat
    BY <2>1, <2>2, <2>3, FS_Subset, FS_CardinalityType
  <2>6. Cardinality(Named(models, p)) <= MaxModels
    BY DEF BooksInv
  <2> QED
    BY <2>2, <2>4, <2>5, <2>6, AnswersAssumption
<1>3. Cardinality(DOMAIN unpriced) <= MaxUnpriced + Cardinality(Vendors)
  <2> DEFINE shared == Vendors \X {"other"}
             all == Plain(unpriced) \cup shared
  <2>1. /\ IsFiniteSet(shared) /\ Cardinality(shared) = Cardinality(Vendors)
        /\ Cardinality(Vendors) \in Nat
    <3>1. IsFiniteSet({"other"}) /\ Cardinality({"other"}) = 1
      BY FS_Singleton
    <3>2. IsFiniteSet(shared) /\ Cardinality(shared) = Cardinality(Vendors) * Cardinality({"other"})
      BY <3>1, AnswersAssumption, FS_Product
    <3>3. Cardinality(Vendors) \in Nat
      BY AnswersAssumption, FS_CardinalityType
    <3> QED
      BY <3>1, <3>2, <3>3
  <2>2. IsFiniteSet(Plain(unpriced))
    <3>1. IsFiniteSet(DOMAIN unpriced) /\ Plain(unpriced) \in SUBSET DOMAIN unpriced
      BY DEF BooksInv, CounterOK, Plain
    <3> QED
      BY <3>1, FS_Subset
  <2>3. DOMAIN unpriced \in SUBSET all
    BY DEF BooksInv, CounterOK, Plain, Pairs
  <2> HIDE DEF shared
  <2>4. /\ IsFiniteSet(all)
        /\ Cardinality(all) = Cardinality(Plain(unpriced)) + Cardinality(shared)
                              - Cardinality(Plain(unpriced) \cap shared)
    BY <2>1, <2>2, FS_Union
  <2>5. /\ Cardinality(Plain(unpriced)) \in Nat
        /\ Cardinality(Plain(unpriced) \cap shared) \in Nat
    <3>1. IsFiniteSet(Plain(unpriced) \cap shared)
      BY <2>2, FS_Intersection
    <3> QED
      BY <2>2, <3>1, FS_CardinalityType
  <2> HIDE DEF all
  <2>6. Cardinality(DOMAIN unpriced) <= Cardinality(all) /\ Cardinality(DOMAIN unpriced) \in Nat
    BY <2>3, <2>4, FS_Subset, FS_CardinalityType
  <2>7. Cardinality(Plain(unpriced)) <= MaxUnpriced
    BY DEF BooksInv
  <2> QED
    BY <2>1, <2>4, <2>5, <2>6, <2>7, AnswersAssumption
<1> QED
  BY <1>1, <1>2, <1>3

LEMMA EntryOK ==
    ASSUME NEW p \in Vendors, NEW m \in Labels
    PROVE  /\ ModelEntry(p, m) \in Pairs /\ ModelEntry(p, m)[1] = p
           /\ UnpricedEntry(p, m) \in Pairs /\ UnpricedEntry(p, m)[1] = p
BY DEF ModelEntry, UnpricedEntry, Pairs

\* Another label where there is room, in a set of labels that is within it.
LEMMA RoomForOne ==
    ASSUME NEW S, NEW T, NEW x, NEW n \in Nat, IsFiniteSet(S), Cardinality(S) <= n,
           T = S \/ (T = S \cup {x} /\ Cardinality(S) < n)
    PROVE  Cardinality(T) <= n
<1>1. Cardinality(S) \in Nat
  BY FS_CardinalityType
<1>2. CASE T = S \cup {x} /\ Cardinality(S) < n
  <2>1. Cardinality(S \cup {x}) = IF x \in S THEN Cardinality(S) ELSE Cardinality(S) + 1
    BY FS_AddElement
  <2> QED
    BY <1>1, <1>2, <2>1
<1> QED
  BY <1>2

LEMMA ModelsOK ==
    ASSUME CounterOK(models), \A q \in Vendors : Cardinality(Named(models, q)) <= MaxModels,
           NEW p \in Vendors, NEW m \in Labels
    PROVE  \A q \in Vendors : Cardinality(Named(Counted(models, ModelEntry(p, m)), q)) <= MaxModels
<1> DEFINE x == ModelEntry(p, m)
           g == Counted(models, x)
<1> SUFFICES ASSUME NEW q \in Vendors PROVE Cardinality(Named(g, q)) <= MaxModels
  OBVIOUS
<1>1. x \in Pairs /\ x[1] = p
  BY EntryOK
<1>2. DOMAIN g = DOMAIN models \cup {x}
  BY <1>1, CountedOK
<1>3. \/ x \in DOMAIN models \/ x = <<p, "other">>
      \/ Cardinality({y \in DOMAIN models : y[1] = p}) < MaxModels
  BY DEF ModelEntry
<1> HIDE DEF x, g
<1>4. IsFiniteSet(DOMAIN models) /\ Named(models, q) \in SUBSET DOMAIN models
  BY DEF CounterOK, Named
<1>5. IsFiniteSet(Named(models, q))
  BY <1>4, FS_Subset
<1>6. CASE Named(g, q) = Named(models, q)
  BY <1>6
<1>7. CASE Named(g, q) # Named(models, q)
  <2>1. q = p /\ Named(g, q) = Named(models, q) \cup {x} /\ x \notin DOMAIN models
        /\ x # <<p, "other">>
    BY <1>1, <1>2, <1>7 DEF Named
  <2>2. {y \in DOMAIN models : y[1] = p} \in SUBSET DOMAIN models
        /\ Named(models, q) \in SUBSET {y \in DOMAIN models : y[1] = p}
    BY <2>1 DEF Named
  <2>3. IsFiniteSet({y \in DOMAIN models : y[1] = p})
        /\ Cardinality(Named(models, q)) <= Cardinality({y \in DOMAIN models : y[1] = p})
    BY <1>4, <2>2, FS_Subset
  <2>4. /\ Cardinality({y \in DOMAIN models : y[1] = p}) \in Nat
        /\ Cardinality(Named(models, q)) \in Nat
    BY <1>5, <2>3, FS_CardinalityType
  <2>5. Cardinality(Named(models, q)) < MaxModels
    BY <1>3, <2>1, <2>3, <2>4, AnswersAssumption
  <2>6. Cardinality(Named(models, q)) <= MaxModels
    OBVIOUS
  <2> QED
    BY <1>5, <2>1, <2>5, <2>6, RoomForOne, AnswersAssumption
<1> QED
  BY <1>6, <1>7

LEMMA UnpricedOK ==
    ASSUME CounterOK(unpriced), Cardinality(Plain(unpriced)) <= MaxUnpriced,
           NEW p \in Vendors, NEW m \in Labels
    PROVE  Cardinality(Plain(Counted(unpriced, UnpricedEntry(p, m)))) <= MaxUnpriced
<1> DEFINE x == UnpricedEntry(p, m)
           g == Counted(unpriced, x)
<1> SUFFICES Cardinality(Plain(g)) <= MaxUnpriced
  OBVIOUS
<1>1. x \in Pairs /\ x[1] = p
  BY EntryOK
<1>2. DOMAIN g = DOMAIN unpriced \cup {x}
  BY <1>1, CountedOK
<1>3. x \in DOMAIN unpriced \/ x = <<p, "other">> \/ Cardinality(DOMAIN unpriced) < MaxUnpriced
  BY DEF UnpricedEntry
<1> HIDE DEF x, g
<1>4. IsFiniteSet(DOMAIN unpriced) /\ Plain(unpriced) \in SUBSET DOMAIN unpriced
  BY DEF CounterOK, Plain
<1>5. /\ IsFiniteSet(Plain(unpriced)) /\ Cardinality(Plain(unpriced)) \in Nat
      /\ Cardinality(DOMAIN unpriced) \in Nat
      /\ Cardinality(Plain(unpriced)) <= Cardinality(DOMAIN unpriced)
  BY <1>4, FS_Subset, FS_CardinalityType
<1>6. CASE Plain(g) = Plain(unpriced)
  BY <1>5, <1>6
<1>7. CASE Plain(g) # Plain(unpriced)
  <2>1. Plain(g) = Plain(unpriced) \cup {x} /\ x \notin DOMAIN unpriced /\ x # <<p, "other">>
    BY <1>2, <1>7 DEF Plain
  <2>2. Cardinality(Plain(unpriced)) < MaxUnpriced
    BY <1>3, <1>5, <2>1, AnswersAssumption
  <2> QED
    BY <1>5, <2>1, <2>2, RoomForOne, AnswersAssumption
<1> QED
  BY <1>6, <1>7

\* A priced or an unpriced answer is written into the books.
LEMMA AnswerBooked ==
    ASSUME BooksInv, NEW p \in Vendors, NEW m \in Labels,
           models' = Counted(models, ModelEntry(p, m)),
           unpriced' = (IF <<p, m>> \in Priced THEN unpriced
                        ELSE Counted(unpriced, UnpricedEntry(p, m))),
           billed' = [billed EXCEPT ![p] =
                        [all |-> @.all + 1,
                         none |-> IF <<p, m>> \in Priced THEN @.none ELSE @.none + 1]]
    PROVE  BooksInv'
<1>1. CounterOK(models) /\ CounterOK(unpriced) /\ BilledShape
  BY DEF BooksInv
<1>2. /\ ModelEntry(p, m) \in Pairs /\ ModelEntry(p, m)[1] = p
      /\ UnpricedEntry(p, m) \in Pairs /\ UnpricedEntry(p, m)[1] = p
  BY EntryOK
<1>3. /\ CounterOK(models')
      /\ \A q \in Vendors : Total(models', q) = Total(models, q) + (IF q = p THEN 1 ELSE 0)
  BY <1>1, <1>2, CountedOK
<1>4. \A q \in Vendors : Cardinality(Named(models', q)) <= MaxModels
  BY <1>1, ModelsOK DEF BooksInv
<1>5. /\ CounterOK(unpriced') /\ Cardinality(Plain(unpriced')) <= MaxUnpriced
      /\ \A q \in Vendors : Total(unpriced', q) = Total(unpriced, q)
                                 + (IF q = p /\ <<p, m>> \notin Priced THEN 1 ELSE 0)
  <2>1. CASE <<p, m>> \in Priced
    <3>1. \A q \in Vendors : Total(unpriced, q) \in Nat
      BY <1>1, <1>2, CountedOK
    <3> QED
      BY <1>1, <2>1, <3>1 DEF BooksInv
  <2>2. CASE <<p, m>> \notin Priced
    <3>1. /\ CounterOK(unpriced')
          /\ \A q \in Vendors : Total(unpriced', q) = Total(unpriced, q) + (IF q = p THEN 1 ELSE 0)
      BY <1>1, <1>2, <2>2, CountedOK
    <3>2. Cardinality(Plain(unpriced')) <= MaxUnpriced
      BY <1>1, <2>2, UnpricedOK DEF BooksInv
    <3> QED
      BY <2>2, <3>1, <3>2
  <2> QED
    BY <2>1, <2>2
<1>6. /\ BilledShape'
      /\ \A q \in Vendors : billed[q].all \in Nat /\ billed[q].none \in Nat
      /\ \A q \in Vendors : billed'[q].all = billed[q].all + (IF q = p THEN 1 ELSE 0)
      /\ \A q \in Vendors : billed'[q].none = billed[q].none
                                 + (IF q = p /\ <<p, m>> \notin Priced THEN 1 ELSE 0)
  <2> DEFINE w == [all |-> billed[p].all + 1,
                   none |-> IF <<p, m>> \in Priced THEN billed[p].none ELSE billed[p].none + 1]
  <2>1. billed' = [billed EXCEPT ![p] = w]
    OBVIOUS
  <2>2. \A q \in Vendors : billed[q] \in [all: Nat, none: Nat]
    BY <1>1 DEF BilledShape
  <2>3. w \in [all: Nat, none: Nat] /\ w.all = billed[p].all + 1
        /\ w.none = billed[p].none + (IF <<p, m>> \notin Priced THEN 1 ELSE 0)
    BY <2>2
  <2> HIDE DEF w
  <2>4. billed'[p] = w /\ \A q \in Vendors : q # p => billed'[q] = billed[q]
    BY <1>1, <2>1 DEF BilledShape
  <2>5. BilledShape'
    BY <1>1, <2>1, <2>3 DEF BilledShape
  <2> QED
    BY <2>2, <2>3, <2>4, <2>5
<1>7. \A q \in Vendors : Total(models', q) = billed'[q].all /\ Total(unpriced', q) = billed'[q].none
  <2> SUFFICES ASSUME NEW q \in Vendors
               PROVE  Total(models', q) = billed'[q].all /\ Total(unpriced', q) = billed'[q].none
    OBVIOUS
  <2>1. Total(models, q) = billed[q].all /\ Total(unpriced, q) = billed[q].none
    BY DEF BooksInv
  <2> QED
    BY <1>3, <1>5, <1>6, <2>1
<1> QED
  BY <1>3, <1>4, <1>5, <1>6, <1>7 DEF BooksInv

LEMMA BooksStart == AnswersInit => BooksInv
<1> SUFFICES ASSUME AnswersInit PROVE BooksInv
  OBVIOUS
<1>1. models = << >> /\ unpriced = << >> /\ billed = [p \in Vendors |-> [all |-> 0, none |-> 0]]
  BY DEF AnswersInit
<1>2. ASSUME NEW f, f = << >>
      PROVE  /\ CounterOK(f) /\ (\A p \in Vendors : Total(f, p) = 0)
             /\ (\A p \in Vendors : Cardinality(Named(f, p)) = 0) /\ Cardinality(Plain(f)) = 0
  <2>1. DOMAIN f = {} /\ f = [x \in DOMAIN f |-> f[x]]
    BY <1>2
  <2>2. /\ \A p \in Vendors : Columns(OfVendor(f, p), f) = {} /\ Named(f, p) = {}
        /\ Plain(f) = {}
    BY <2>1 DEF Columns, OfVendor, Named, Plain
  <2>3. IsFiniteSet({}) /\ Cardinality({}) = 0
    BY FS_EmptySet
  <2> QED
    BY <2>1, <2>2, <2>3, TotalIs DEF CounterOK
<1>3. BilledShape /\ \A p \in Vendors : billed[p].all = 0 /\ billed[p].none = 0
  BY <1>1 DEF BilledShape
<1> QED
  BY <1>1, <1>2, <1>3, AnswersAssumption DEF BooksInv

LEMMA BooksStep == BooksInv /\ [AnswersNext]_ansVars => BooksInv'
<1> SUFFICES ASSUME BooksInv, [AnswersNext]_ansVars PROVE BooksInv'
  OBVIOUS
<1>1. ASSUME models' = models, unpriced' = unpriced, billed' = billed PROVE BooksInv'
  BY <1>1 DEF BooksInv, BilledShape
<1>2. CASE UNCHANGED ansVars
  BY <1>1, <1>2 DEF ansVars
<1>3. ASSUME NEW p \in Vendors, NEW m \in Labels, NEW ttl \in TTLs, AnswerArrives(p, m, ttl)
      PROVE  BooksInv'
  BY <1>3, AnswerBooked DEF AnswerArrives
<1>4. ASSUME NEW p \in Vendors, NEW m \in Labels, StreamSettles(p, m) PROVE BooksInv'
  BY <1>4, AnswerBooked DEF StreamSettles
<1>5. ASSUME NEW p \in Vendors, NEW m \in Labels, Lookup(<<p, m>>) PROVE BooksInv'
  BY <1>1, <1>5 DEF Lookup
<1>6. CASE ClearCache \/ PassTime
  BY <1>1, <1>6 DEF ClearCache, PassTime
<1> QED
  BY <1>2, <1>3, <1>4, <1>5, <1>6 DEF AnswersNext

\* The bounded counters of the router lose no request and keep to their caps.
THEOREM BooksAlways == AnswersSpec => []BooksBalance
BY BooksHold, BooksStart, BooksStep, PTL DEF AnswersSpec

-----------------------------------------------------------------------------
\* The response cache: entries (s) of different keys, each the last answer (tr) of
\* its key.
EntriesOK(s, tr) ==
    /\ \A i, j \in 1..Len(s) : i # j => s[i].k # s[j].k
    /\ \A i \in 1..Len(s) :
          /\ s[i].k \in CacheKeys /\ s[i].v = tr[s[i].k].v
          /\ s[i].exp = tr[s[i].k].exp /\ s[i].exp \in Nat

Has(s, k) == \E i \in 1..Len(s) : s[i].k = k

StoreOK(S) == store \in Seq(S) /\ EntriesOK(store, truth) /\ Len(store) <= MaxEntries

CacheInv ==
    /\ clock \in Nat /\ truth = [k \in CacheKeys |-> truth[k]]
    /\ \E S : StoreOK(S)

\* Taking entries away keeps the others.
LEMMA FewerOK ==
    ASSUME NEW S, NEW s \in Seq(S), NEW tr, EntriesOK(s, tr), NEW I \in SUBSET (1..Len(s)),
           NEW p, p = Picked(s, I)
    PROVE  /\ p \in Seq(S) /\ EntriesOK(p, tr) /\ Len(p) \in Nat /\ Len(p) <= Len(s)
           /\ Len(p) = Len(s) => p = s /\ I = 1..Len(s)
           /\ \A i \in I : Has(p, s[i].k)
           /\ \A k : Has(p, k) => \E i \in I : s[i].k = k
<1>0. p \in Seq(S) /\ PartOf(p, s, I)
  BY PickedPart
<1>1. /\ Len(p) \in Nat /\ Len(p) <= Len(s)
      /\ Len(p) = Len(s) => p = s /\ I = 1..Len(s)
      /\ \A j \in 1..Len(p) : \E i \in I : p[j] = s[i]
      /\ \A i \in I : \E j \in 1..Len(p) : p[j] = s[i]
      /\ \A j, l \in 1..Len(p) : j # l => \E i, m \in I : i # m /\ p[j] = s[i] /\ p[l] = s[m]
  BY <1>0 DEF PartOf
<1>2. ASSUME NEW j \in 1..Len(p), NEW l \in 1..Len(p), j # l PROVE p[j].k # p[l].k
  <2>1. PICK i \in I, m \in I : i # m /\ p[j] = s[i] /\ p[l] = s[m]
    BY <1>1, <1>2
  <2> QED
    BY <2>1 DEF EntriesOK
<1>3. ASSUME NEW j \in 1..Len(p)
      PROVE  /\ p[j].k \in CacheKeys /\ p[j].v = tr[p[j].k].v
             /\ p[j].exp = tr[p[j].k].exp /\ p[j].exp \in Nat
  <2>1. PICK i \in I : p[j] = s[i]
    BY <1>1
  <2>2. /\ s[i].k \in CacheKeys /\ s[i].v = tr[s[i].k].v
        /\ s[i].exp = tr[s[i].k].exp /\ s[i].exp \in Nat
    BY DEF EntriesOK
  <2> QED
    BY <2>1, <2>2
<1>4. EntriesOK(p, tr)
  BY <1>2, <1>3 DEF EntriesOK
<1>5. \A i \in I : Has(p, s[i].k)
  BY <1>1 DEF Has
<1>6. ASSUME NEW k, Has(p, k) PROVE \E i \in I : s[i].k = k
  <2>1. PICK j \in 1..Len(p) : p[j].k = k
    BY <1>6 DEF Has
  <2>2. PICK i \in I : p[j] = s[i]
    BY <1>1
  <2> QED
    BY <2>1, <2>2
<1> QED
  BY <1>0, <1>1, <1>4, <1>5, <1>6

\* Taking away the entry of a key.
LEMMA DroppedOK ==
    ASSUME NEW S, StoreOK(S), NEW k
    PROVE  /\ Dropped(k) \in Seq(S) /\ EntriesOK(Dropped(k), truth) /\ Len(Dropped(k)) \in Nat
           /\ Len(Dropped(k)) <= Len(store) /\ (Len(Dropped(k)) = Len(store) => Dropped(k) = store)
           /\ Has(store, k) => Len(Dropped(k)) < Len(store)
           /\ \A q : Has(Dropped(k), q) <=> Has(store, q) /\ q # k
<1> DEFINE I == {i \in DOMAIN store : store[i].k # k}
<1>1. store \in Seq(S) /\ DOMAIN store = 1..Len(store) /\ Len(store) \in Nat /\ EntriesOK(store, truth)
  BY DEF StoreOK
<1>2. I \in SUBSET (1..Len(store)) /\ \A i \in 1..Len(store) : i \in I <=> store[i].k # k
  BY <1>1
<1>3. PICK p : p = Dropped(k) /\ p = Picked(store, I)
  BY DEF Dropped
<1> HIDE DEF I
<1>4. /\ p \in Seq(S) /\ EntriesOK(p, truth) /\ Len(p) \in Nat /\ Len(p) <= Len(store)
      /\ Len(p) = Len(store) => p = store /\ I = 1..Len(store)
      /\ \A i \in I : Has(p, store[i].k)
      /\ \A q : Has(p, q) => \E i \in I : store[i].k = q
  BY <1>1, <1>2, <1>3, FewerOK
<1>5. ASSUME Has(store, k) PROVE Len(p) < Len(store)
  <2>1. PICK i \in 1..Len(store) : store[i].k = k
    BY <1>5 DEF Has
  <2>2. I # 1..Len(store)
    BY <1>2, <2>1
  <2> QED
    BY <1>1, <1>4, <2>2
<1>6. ASSUME NEW q PROVE Has(p, q) <=> Has(store, q) /\ q # k
  <2>1. ASSUME Has(p, q) PROVE Has(store, q) /\ q # k
    BY <1>2, <1>4, <2>1 DEF Has
  <2>2. ASSUME Has(store, q), q # k PROVE Has(p, q)
    <3>1. PICK i \in 1..Len(store) : store[i].k = q
      BY <2>2 DEF Has
    <3> QED
      BY <1>2, <1>4, <2>2, <3>1
  <2> QED
    BY <2>1, <2>2
<1> QED
  BY <1>3, <1>4, <1>5, <1>6

\* An entry (e) of a key that has none, whose answer alone tells tn from tr
FitsIn(e, s, tr, tn) ==
    /\ EntriesOK(s, tr) /\ e.k \in CacheKeys /\ ~Has(s, e.k)
    /\ e.v = tn[e.k].v /\ e.exp = tn[e.k].exp /\ e.exp \in Nat
    /\ \A q \in CacheKeys : q # e.k => tn[q] = tr[q]

\* The sequence (a) that has it after the others
Joined(a, S, e, s, tn) ==
    /\ a \in Seq(S \cup {e}) /\ EntriesOK(a, tn)
    /\ Len(a) = Len(s) + 1 /\ a[Len(s) + 1] = e
    /\ \A i \in 1..Len(s) : a[i] = s[i]
    /\ \A q : Has(a, q) <=> Has(s, q) \/ q = e.k

LEMMA MoreOK ==
    ASSUME NEW S, NEW s \in Seq(S), NEW tr, NEW tn, NEW e, FitsIn(e, s, tr, tn),
           NEW a, a = Append(s, e)
    PROVE  Joined(a, S, e, s, tn)
<1>0. /\ EntriesOK(s, tr) /\ e.k \in CacheKeys /\ ~Has(s, e.k)
      /\ e.v = tn[e.k].v /\ e.exp = tn[e.k].exp /\ e.exp \in Nat
      /\ \A q \in CacheKeys : q # e.k => tn[q] = tr[q]
  BY DEF FitsIn
<1>1. PICK n \in Nat : n = Len(s)
  OBVIOUS
<1>3. PICK T : T = S \cup {e} /\ s \in Seq(T) /\ e \in T
  <2>1. s \in Seq(S \cup {e})
    OBVIOUS
  <2> QED
    BY <2>1
<1>4. /\ a \in Seq(T) /\ Len(a) = n + 1 /\ a[n + 1] = e
      /\ \A i \in 1..n : a[i] = s[i]
  BY <1>1, <1>3, AppendProperties
<1>5. \A i \in 1..(n + 1) : i \in 1..n \/ i = n + 1
  OBVIOUS
<1>6. \A i \in 1..n : s[i].k # e.k /\ i \in 1..(n + 1) /\ s[i].k \in CacheKeys
  BY <1>0, <1>1 DEF Has, EntriesOK
<1>7. ASSUME NEW i \in 1..(n + 1), NEW j \in 1..(n + 1), i # j PROVE a[i].k # a[j].k
  <2>1. CASE i \in 1..n /\ j \in 1..n
    BY <1>0, <1>1, <1>4, <1>7, <2>1 DEF EntriesOK
  <2>2. CASE i \in 1..n /\ j = n + 1
    BY <1>4, <1>6, <2>2
  <2>3. CASE i = n + 1 /\ j \in 1..n
    BY <1>4, <1>6, <2>3
  <2> QED
    BY <1>5, <1>7, <2>1, <2>2, <2>3
<1>8. ASSUME NEW i \in 1..(n + 1)
      PROVE  /\ a[i].k \in CacheKeys /\ a[i].v = tn[a[i].k].v
             /\ a[i].exp = tn[a[i].k].exp /\ a[i].exp \in Nat
  <2>1. CASE i \in 1..n
    <3>1. /\ s[i].k \in CacheKeys /\ s[i].v = tr[s[i].k].v
          /\ s[i].exp = tr[s[i].k].exp /\ s[i].exp \in Nat
      BY <1>0, <1>1, <2>1 DEF EntriesOK
    <3>2. tn[s[i].k] = tr[s[i].k]
      BY <1>0, <1>6, <2>1
    <3> QED
      BY <1>4, <2>1, <3>1, <3>2
  <2>2. CASE i = n + 1
    BY <1>0, <1>4, <2>2
  <2> QED
    BY <1>5, <2>1, <2>2
<1>9. EntriesOK(a, tn)
  BY <1>4, <1>7, <1>8 DEF EntriesOK
<1>10. \A q : Has(a, q) <=> Has(s, q) \/ q = e.k
  <2>1. n + 1 \in 1..(n + 1)
    OBVIOUS
  <2> QED
    BY <1>1, <1>4, <1>5, <1>6, <2>1 DEF Has
<1> QED
  BY <1>1, <1>3, <1>4, <1>9, <1>10 DEF Joined

\* The last MaxEntries of a sequence
LEMMA FittingOK ==
    ASSUME NEW S, NEW s \in Seq(S)
    PROVE  /\ Len(s) <= MaxEntries => Fitting(s) = s
           /\ Len(s) = MaxEntries + 1 => Fitting(s) = [j \in 1..MaxEntries |-> s[1 + j]]
<1>1. PICK n \in Nat : n = Len(s)
  OBVIOUS
<1>2. MaxEntries \in Nat \ {0} /\ DOMAIN s = 1..n
  BY <1>1, AnswersAssumption
<1>3. PICK I : I = {i \in DOMAIN s : i > Len(s) - MaxEntries} /\ Fitting(s) = Picked(s, I)
  BY DEF Fitting
<1>4. ASSUME n <= MaxEntries PROVE Fitting(s) = s
  <2>1. I = 1..n
    BY <1>1, <1>2, <1>3, <1>4
  <2> QED
    BY <1>1, <1>3, <2>1, PickedAll
<1>5. ASSUME n = MaxEntries + 1 PROVE Fitting(s) = [j \in 1..MaxEntries |-> s[1 + j]]
  <2>1. I = (1 + 1)..n /\ 1 \in 0..n /\ n - 1 = MaxEntries
    BY <1>1, <1>2, <1>3, <1>5
  <2>2. PICK m \in 0..n : m = 1
    BY <2>1
  <2>3. Picked(s, (m + 1)..n) = [j \in 1..(n - m) |-> s[m + j]]
    BY PickedEnd
  <2> QED
    BY <1>3, <2>1, <2>2, <2>3
<1> QED
  BY <1>1, <1>4, <1>5

\* set(): the new entry is kept, and a live one gives way only when all are live and
\* it is the first.
WasSet(t, T, k, tn) ==
    /\ t \in Seq(T) /\ EntriesOK(t, tn) /\ Len(t) <= MaxEntries /\ Has(t, k)
    /\ \A q \in CacheKeys : Has(store, q) /\ ~Has(t, q) /\ clock < truth[q].exp
          => q = Live(store)[1].k /\ Len(Live(t)) = MaxEntries

\* The last answer of each key (tn) once k has a new one
LastAnswers(tn, k, v, ttl) ==
    /\ tn[k].v = v /\ tn[k].exp = clock + ttl
    /\ \A q \in CacheKeys : q # k => tn[q] = truth[q]

LEMMA CacheSetOK ==
    ASSUME NEW S, StoreOK(S), clock \in Nat, NEW k \in CacheKeys, NEW v, NEW ttl \in Nat \ {0},
           NEW t, t = CacheSet(k, v, ttl), NEW tn, LastAnswers(tn, k, v, ttl)
    PROVE  \E T : WasSet(t, T, k, tn)
<1>1. PICK e : e = [k |-> k, v |-> v, exp |-> clock + ttl]
  OBVIOUS
<1>2. e.k = k /\ e.v = v /\ e.exp = clock + ttl /\ e.exp \in Nat /\ clock < e.exp
  BY <1>1
<1>3. /\ e.v = tn[e.k].v /\ e.exp = tn[e.k].exp
      /\ \A q \in CacheKeys : q # e.k => tn[q] = truth[q]
  BY <1>2 DEF LastAnswers
<1>4. /\ store \in Seq(S) /\ Len(store) \in Nat /\ EntriesOK(store, truth)
      /\ Len(store) <= MaxEntries /\ MaxEntries \in Nat \ {0}
  BY AnswersAssumption DEF StoreOK
<1>5. PICK d : d = Dropped(k)
  OBVIOUS
<1>6. /\ d \in Seq(S) /\ EntriesOK(d, truth) /\ Len(d) \in Nat
      /\ Len(d) <= Len(store) /\ (Len(d) = Len(store) => d = store)
      /\ Has(store, k) => Len(d) < Len(store)
      /\ \A q : Has(d, q) <=> Has(store, q) /\ q # k
  BY <1>5, DroppedOK
<1>7. PICK a : a = Append(d, e)
  OBVIOUS
<1>8. PICK T : T = S \cup {e}
  OBVIOUS
<1>80. e.k \in CacheKeys /\ ~Has(d, e.k)
  BY <1>2, <1>6
<1>81. /\ a \in Seq(S \cup {e}) /\ EntriesOK(a, tn)
       /\ Len(a) = Len(d) + 1 /\ a[Len(d) + 1] = e
       /\ \A i \in 1..Len(d) : a[i] = d[i]
       /\ \A q : Has(a, q) <=> Has(d, q) \/ q = e.k
  <2>1. d \in Seq(S) /\ EntriesOK(d, truth)
    BY <1>6
  <2>2. e.v = tn[e.k].v /\ e.exp = tn[e.k].exp /\ e.exp \in Nat
    BY <1>2, <1>3
  <2>3. FitsIn(e, d, truth, tn)
    BY <1>3, <1>80, <2>1, <2>2 DEF FitsIn
  <2>4. Joined(a, S, e, d, tn)
    BY <1>7, <2>1, <2>3, MoreOK
  <2> QED
    BY <2>4 DEF Joined
<1>9. /\ a \in Seq(T) /\ EntriesOK(a, tn)
      /\ Len(a) = Len(d) + 1 /\ a[Len(d) + 1] = e
      /\ \A i \in 1..Len(d) : a[i] = d[i]
      /\ \A q : Has(a, q) <=> Has(d, q) \/ q = k
  BY <1>2, <1>8, <1>81
<1>10. t = IF Len(a) > MaxEntries THEN Fitting(Live(a)) ELSE a
  BY <1>1, <1>5, <1>7 DEF CacheSet
<1>11. PICK n \in Nat : n = Len(a)
  BY <1>6, <1>9
<1>12. DOMAIN a = 1..n /\ Len(a) = n
  BY <1>9, <1>11
<1>13. \A q : Has(store, q) => Has(a, q)
  BY <1>6, <1>9
<1>14. CASE n <= MaxEntries
  <2>1. t = a
    <3>1. ~(Len(a) > MaxEntries)
      BY <1>4, <1>11, <1>14
    <3> QED
      BY <1>10, <3>1
  <2> QED
    BY <1>9, <1>11, <1>13, <1>14, <2>1 DEF WasSet
<1>15. CASE n > MaxEntries
  <2>1. n = MaxEntries + 1 /\ Len(d) = MaxEntries /\ Len(store) = MaxEntries /\ d = store
    BY <1>4, <1>6, <1>9, <1>11, <1>15
  <2>2. PICK I : I = {i \in DOMAIN a : clock < a[i].exp}
    OBVIOUS
  <2>3. I \in SUBSET (1..Len(a)) /\ \A i \in 1..n : i \in I <=> clock < a[i].exp
    BY <1>12, <2>2
  <2>4. PICK p : p = Live(a) /\ p = Picked(a, I)
    BY <2>2 DEF Live
  <2>5. /\ p \in Seq(T) /\ EntriesOK(p, tn) /\ Len(p) \in Nat /\ Len(p) <= n
        /\ Len(p) = n => p = a /\ I = 1..n
        /\ \A i \in I : Has(p, a[i].k)
    <3>1. a \in Seq(T) /\ EntriesOK(a, tn) /\ I \in SUBSET (1..Len(a)) /\ p = Picked(a, I)
      BY <1>9, <2>3, <2>4
    <3>2. /\ p \in Seq(T) /\ EntriesOK(p, tn) /\ Len(p) \in Nat /\ Len(p) <= Len(a)
          /\ Len(p) = Len(a) => p = a /\ I = 1..Len(a)
          /\ \A i \in I : Has(p, a[i].k)
      BY <3>1, FewerOK
    <3> QED
      BY <1>12, <3>2
  <2>6. t = Fitting(p)
    BY <1>10, <1>11, <1>15, <2>4
  <2>7. n \in I /\ a[n] = e
    BY <1>2, <1>9, <2>1, <2>3
  <2>8. CASE Len(p) <= MaxEntries
    <3>1. t = p
      BY <2>5, <2>6, <2>8, FittingOK
    <3>2. Has(t, k)
      BY <1>2, <2>5, <2>7, <3>1
    <3>3. ASSUME NEW q \in CacheKeys, Has(store, q), ~Has(t, q) PROVE ~(clock < truth[q].exp)
      <4>1. PICK i \in 1..Len(store) : store[i].k = q
        BY <3>3 DEF Has
      <4>2. i \in 1..n /\ a[i] = store[i]
        BY <1>4, <1>9, <2>1
      <4>3. i \notin I
        BY <2>5, <3>1, <3>3, <4>1, <4>2
      <4>4. store[i].exp = truth[q].exp
        BY <1>4, <4>1 DEF EntriesOK
      <4> QED
        BY <2>3, <4>2, <4>3, <4>4
    <3> QED
      BY <2>5, <2>8, <3>1, <3>2, <3>3 DEF WasSet
  <2>9. CASE ~(Len(p) <= MaxEntries)
    <3>1. Len(p) = n /\ p = a /\ I = 1..n
      BY <1>4, <2>1, <2>5, <2>9
    <3>2. t = [j \in 1..MaxEntries |-> a[1 + j]]
      BY <1>9, <1>11, <2>1, <2>6, <3>1, FittingOK
    <3>3. \A j \in 1..MaxEntries : 1 + j \in 1..n
      BY <1>4, <2>1
    <3>4. t \in Seq(T) /\ Len(t) = MaxEntries /\ \A j \in 1..MaxEntries : t[j] = a[1 + j]
      <4>1. \A j \in 1..MaxEntries : a[1 + j] \in T
        BY <1>9, <1>11, <3>3
      <4>2. PICK m \in Nat : m = MaxEntries
        BY <1>4
      <4>3. t = [j \in 1..m |-> a[1 + j]] /\ \A j \in 1..m : a[1 + j] \in T
        BY <3>2, <4>1, <4>2
      <4>4. t \in [1..m -> T]
        BY <4>3
      <4>5. t \in Seq(T) /\ Len(t) = m
        BY <4>4
      <4> QED
        BY <4>2, <4>3, <4>5
    <3>5. EntriesOK(t, tn)
      <4>1. ASSUME NEW i \in 1..MaxEntries, NEW j \in 1..MaxEntries, i # j PROVE t[i].k # t[j].k
        <5>1. 1 + i \in 1..n /\ 1 + j \in 1..n /\ 1 + i # 1 + j
          BY <3>3, <4>1
        <5>2. a[1 + i].k # a[1 + j].k
          BY <1>9, <1>12, <5>1 DEF EntriesOK
        <5> QED
          BY <3>4, <5>2
      <4>2. ASSUME NEW j \in 1..MaxEntries
            PROVE  /\ t[j].k \in CacheKeys /\ t[j].v = tn[t[j].k].v
                   /\ t[j].exp = tn[t[j].k].exp /\ t[j].exp \in Nat
        <5>1. PICK i \in 1..n : i = 1 + j
          BY <3>3
        <5>2. /\ a[i].k \in CacheKeys /\ a[i].v = tn[a[i].k].v
              /\ a[i].exp = tn[a[i].k].exp /\ a[i].exp \in Nat
          BY <1>9, <1>12 DEF EntriesOK
        <5> QED
          BY <3>4, <5>1, <5>2
      <4> QED
        BY <3>4, <4>1, <4>2 DEF EntriesOK
    <3>6. Has(t, k)
      <4>1. MaxEntries \in 1..MaxEntries /\ t[MaxEntries] = e
        BY <1>4, <2>1, <2>7, <3>4
      <4> QED
        BY <1>2, <3>4, <4>1 DEF Has
    <3>7. Live(store) = store
      <4>1. PICK J : J = {i \in DOMAIN store : clock < store[i].exp} /\ Live(store) = Picked(store, J)
        BY DEF Live
      <4>2. \A i \in 1..MaxEntries : i \in 1..n /\ a[i] = store[i]
        BY <1>4, <1>9, <2>1
      <4>3. \A i \in 1..MaxEntries : clock < store[i].exp
        BY <2>3, <3>1, <4>2
      <4>4. J = 1..Len(store)
        BY <1>4, <2>1, <4>1, <4>3
      <4> QED
        BY <1>4, <4>1, <4>4, PickedAll
    <3>8. Len(Live(t)) = MaxEntries
      <4>1. PICK J : J = {i \in DOMAIN t : clock < t[i].exp} /\ Live(t) = Picked(t, J)
        BY DEF Live
      <4>2. \A j \in 1..MaxEntries : clock < t[j].exp
        BY <2>3, <3>1, <3>3, <3>4
      <4>3. J = 1..Len(t)
        BY <3>4, <4>1, <4>2
      <4> QED
        BY <3>4, <4>1, <4>3, PickedAll
    <3>9. ASSUME NEW q \in CacheKeys, Has(store, q), ~Has(t, q) PROVE q = Live(store)[1].k
      <4>1. PICK i \in 1..Len(store) : store[i].k = q
        BY <3>9 DEF Has
      <4>2. i \in 1..n /\ a[i] = store[i] /\ i \in 1..MaxEntries
        BY <1>4, <1>9, <2>1
      <4>3. i = 1
        <5>1. SUFFICES ASSUME i # 1 PROVE FALSE
          OBVIOUS
        <5>2. i - 1 \in 1..MaxEntries /\ 1 + (i - 1) = i
          BY <1>4, <4>2, <5>1
        <5>3. t[i - 1].k = q
          BY <3>4, <4>1, <4>2, <5>2
        <5> QED
          BY <3>4, <3>9, <5>2, <5>3 DEF Has
      <4> QED
        BY <3>7, <4>1, <4>3
    <3> QED
      BY <1>4, <3>4, <3>5, <3>6, <3>8, <3>9 DEF WasSet
  <2> QED
    BY <2>8, <2>9
<1> QED
  BY <1>4, <1>11, <1>14, <1>15

-----------------------------------------------------------------------------
\* What a step of the cache may do to the keys.
CacheMove ==
    \A k \in CacheKeys :
        /\ Lookup(k) /\ got' # 0 => got' = truth[k].v /\ clock < truth[k].exp
        /\ truth[k]' \notin {truth[k], NoAnswer} => InStore(k)'
        /\ InStore(k) /\ ~InStore(k)' /\ clock < truth[k].exp
           => \/ store' = << >> \/ truth[k]' = NoAnswer
              \/ (k = Live(store)[1].k /\ Len(Live(store)') = MaxEntries)

LEMMA InStoreHas ==
    ASSUME NEW S, NEW s \in Seq(S), NEW k
    PROVE  (\E i \in DOMAIN s : s[i].k = k) <=> Has(s, k)
<1>1. DOMAIN s = 1..Len(s)
  OBVIOUS
<1> QED
  BY <1>1 DEF Has

\* get(): what it returns, and what it leaves.
LEMMA LookupOK ==
    ASSUME NEW S, StoreOK(S), clock \in Nat, NEW k \in CacheKeys, Lookup(k)
    PROVE  /\ got' # 0 => got' = truth[k].v /\ clock < truth[k].exp
           /\ \E T : store' \in Seq(T) /\ EntriesOK(store', truth) /\ Len(store') <= MaxEntries
           /\ \A q : Has(store, q) /\ ~Has(store', q) => q = k /\ ~(clock < truth[k].exp)
<1>1. /\ store \in Seq(S) /\ DOMAIN store = 1..Len(store) /\ Len(store) \in Nat
      /\ EntriesOK(store, truth) /\ Len(store) <= MaxEntries /\ MaxEntries \in Nat
  BY AnswersAssumption DEF StoreOK
<1>2. PICK hits : hits = {i \in DOMAIN store : store[i].k = k /\ clock < store[i].exp}
  OBVIOUS
<1>3. PICK found : found = store[CHOOSE i \in hits : TRUE]
  OBVIOUS
<1>4. /\ got' = IF hits # {} THEN found.v ELSE 0
      /\ store' = IF hits # {} THEN Append(Dropped(k), found) ELSE Dropped(k)
  BY <1>2, <1>3 DEF Lookup
<1>5. PICK d : d = Dropped(k)
  OBVIOUS
<1>6. /\ d \in Seq(S) /\ EntriesOK(d, truth) /\ Len(d) \in Nat /\ Len(d) <= Len(store)
      /\ Has(store, k) => Len(d) < Len(store)
      /\ \A q : Has(d, q) <=> Has(store, q) /\ q # k
  BY <1>5, DroppedOK
<1>7. CASE hits = {}
  <2>1. got' = 0 /\ store' = d
    BY <1>4, <1>5, <1>7
  <2>2. ASSUME Has(store, k) PROVE ~(clock < truth[k].exp)
    <3>1. PICK i \in 1..Len(store) : store[i].k = k
      BY <2>2 DEF Has
    <3>2. ~(clock < store[i].exp)
      BY <1>1, <1>2, <1>7, <3>1
    <3>3. store[i].exp = truth[k].exp
      BY <1>1, <3>1 DEF EntriesOK
    <3> QED
      BY <3>2, <3>3
  <2> QED
    BY <1>1, <1>6, <2>1, <2>2
<1>8. CASE hits # {}
  <2>1. PICK i \in 1..Len(store) : found = store[i] /\ store[i].k = k /\ clock < store[i].exp
    BY <1>1, <1>2, <1>3, <1>8
  <2>2. /\ found.k = k /\ found.v = truth[k].v /\ found.exp = truth[k].exp /\ found.exp \in Nat
        /\ clock < truth[k].exp
    BY <1>1, <2>1 DEF EntriesOK
  <2>3. Has(store, k)
    BY <2>1 DEF Has
  <2>4. PICK a : a = Append(d, found)
    OBVIOUS
  <2>5. got' = found.v /\ store' = a
    BY <1>4, <1>5, <1>8, <2>4
  <2>6. /\ found.k \in CacheKeys /\ ~Has(d, found.k)
        /\ found.v = truth[found.k].v /\ found.exp = truth[found.k].exp
    BY <1>6, <2>2
  <2>61. FitsIn(found, d, truth, truth)
    BY <1>6, <2>2, <2>6 DEF FitsIn
  <2>62. Joined(a, S, found, d, truth)
    BY <1>6, <2>4, <2>61, MoreOK
  <2>7. /\ a \in Seq(S \cup {found}) /\ EntriesOK(a, truth)
        /\ Len(a) = Len(d) + 1
        /\ \A q : Has(a, q) <=> Has(d, q) \/ q = found.k
    BY <2>62 DEF Joined
  <2>8. Len(a) <= MaxEntries
    BY <1>1, <1>6, <2>3, <2>7
  <2>9. \A q : Has(store, q) => Has(a, q)
    BY <1>6, <2>2, <2>7
  <2> QED
    BY <2>2, <2>5, <2>7, <2>8, <2>9
<1> QED
  BY <1>7, <1>8

\* Each step keeps the invariant, and moves as it may.
LEMMA LookupKeeps ==
    ASSUME CacheInv, NEW p \in CacheKeys, Lookup(p)
    PROVE  CacheInv' /\ CacheMove
<1>1. PICK S : StoreOK(S)
  BY DEF CacheInv
<1>2. clock \in Nat /\ truth = [k \in CacheKeys |-> truth[k]]
  BY DEF CacheInv
<1>3. truth' = truth /\ clock' = clock
  BY DEF Lookup
<1>4. /\ \E T : store' \in Seq(T) /\ EntriesOK(store', truth) /\ Len(store') <= MaxEntries
      /\ \A q : Has(store, q) /\ ~Has(store', q) => q = p /\ ~(clock < truth[p].exp)
  BY <1>1, <1>2, LookupOK
<1>5. PICK T : store' \in Seq(T) /\ EntriesOK(store', truth) /\ Len(store') <= MaxEntries
  BY <1>4
<1>6. CacheInv'
  BY <1>2, <1>3, <1>5 DEF CacheInv, StoreOK
<1>7. ASSUME NEW k \in CacheKeys, Lookup(k), got' # 0 PROVE got' = truth[k].v /\ clock < truth[k].exp
  BY <1>1, <1>2, <1>7, LookupOK
<1>8. ASSUME NEW k \in CacheKeys, InStore(k), ~InStore(k)' PROVE ~(clock < truth[k].exp)
  <2>1. store \in Seq(S)
    BY <1>1 DEF StoreOK
  <2>2. Has(store, k) /\ ~Has(store', k)
    BY <1>5, <1>8, <2>1, InStoreHas DEF InStore
  <2> QED
    BY <1>4, <2>2
<1>9. \A k \in CacheKeys : truth[k]' = truth[k]
  BY <1>3
<1> QED
  BY <1>6, <1>7, <1>8, <1>9 DEF CacheMove

\* A step that is no lookup.
LEMMA OtherMove ==
    ASSUME CacheInv, CacheInv',
           \A k \in CacheKeys : truth[k]' \notin {truth[k], NoAnswer} => InStore(k)',
           \A k \in CacheKeys : InStore(k) /\ ~InStore(k)' /\ clock < truth[k].exp
              => \/ store' = << >> \/ truth[k]' = NoAnswer
                 \/ (k = Live(store)[1].k /\ Len(Live(store)') = MaxEntries)
    PROVE  CacheMove
<1>1. ASSUME NEW k \in CacheKeys, Lookup(k) PROVE CacheMove
  BY <1>1, LookupKeeps
<1>2. CASE \A k \in CacheKeys : ~Lookup(k)
  BY <1>2 DEF CacheMove
<1> QED
  BY <1>1, <1>2

LEMMA AnswerKeeps ==
    ASSUME CacheInv, NEW p \in Vendors, NEW m \in Labels, NEW ttl \in TTLs, AnswerArrives(p, m, ttl)
    PROVE  CacheInv' /\ CacheMove
<1>1. PICK S : StoreOK(S)
  BY DEF CacheInv
<1>2. PICK v : v = Answered + 1
  OBVIOUS
<1>3. PICK k \in CacheKeys : k = <<p, m>>
  BY DEF CacheKeys
<1>4. /\ clock \in Nat /\ truth = [q \in CacheKeys |-> truth[q]] /\ ttl \in Nat /\ clock' = clock
      /\ store' = CacheSet(k, v, ttl)
      /\ truth' = [truth EXCEPT ![k] = IF ttl = 0 THEN NoAnswer ELSE [v |-> v, exp |-> clock + ttl]]
      /\ MaxEntries \in Nat
  BY <1>2, <1>3, AnswersAssumption DEF CacheInv, AnswerArrives
<1>5. store \in Seq(S) /\ EntriesOK(store, truth) /\ Len(store) <= MaxEntries /\ Len(store) \in Nat
  BY <1>1 DEF StoreOK
<1>6. \A q \in CacheKeys : q # k => truth'[q] = truth[q]
  BY <1>4
<1>7. truth' = [q \in CacheKeys |-> truth'[q]]
  BY <1>4
<1>8. CASE ttl = 0
  <2>1. PICK d : d = Dropped(k) /\ store' = d
    BY <1>4, <1>8 DEF CacheSet
  <2>2. /\ d \in Seq(S) /\ EntriesOK(d, truth) /\ Len(d) \in Nat /\ Len(d) <= Len(store)
        /\ \A q : Has(d, q) <=> Has(store, q) /\ q # k
    BY <1>1, <2>1, DroppedOK
  <2>3. EntriesOK(d, truth')
    <3>1. ASSUME NEW i \in 1..Len(d)
          PROVE  /\ d[i].k \in CacheKeys /\ d[i].v = truth'[d[i].k].v
                 /\ d[i].exp = truth'[d[i].k].exp /\ d[i].exp \in Nat
      <4>1. d[i].k # k
        BY <2>2 DEF Has
      <4>2. /\ d[i].k \in CacheKeys /\ d[i].v = truth[d[i].k].v
            /\ d[i].exp = truth[d[i].k].exp /\ d[i].exp \in Nat
        BY <2>2 DEF EntriesOK
      <4> QED
        BY <1>6, <4>1, <4>2
    <3> QED
      BY <2>2, <3>1 DEF EntriesOK
  <2>4. Len(d) <= MaxEntries
    BY <1>4, <1>5, <2>2
  <2>5. CacheInv'
    BY <1>4, <1>7, <2>1, <2>2, <2>3, <2>4 DEF CacheInv, StoreOK
  <2>6. truth'[k] = NoAnswer
    BY <1>4, <1>8
  <2>7. \A q \in CacheKeys : truth[q]' \in {truth[q], NoAnswer}
    BY <1>6, <2>6
  <2>8. ASSUME NEW q \in CacheKeys, InStore(q), ~InStore(q)' PROVE truth[q]' = NoAnswer
    <3>1. Has(store, q) /\ ~Has(d, q)
      BY <1>5, <2>1, <2>2, <2>8, InStoreHas DEF InStore
    <3> QED
      BY <2>2, <2>6, <3>1
  <2> QED
    BY <2>5, <2>7, <2>8, OtherMove
<1>9. CASE ttl # 0
  <2>1. truth' = [truth EXCEPT ![k] = [v |-> v, exp |-> clock + ttl]] /\ ttl \in Nat \ {0}
    BY <1>4, <1>9
  <2>2. PICK t : t = CacheSet(k, v, ttl) /\ store' = t
    BY <1>4
  <2>3. PICK tn : tn = truth'
    OBVIOUS
  <2>31. LastAnswers(tn, k, v, ttl)
    BY <1>4, <1>6, <2>1, <2>3 DEF LastAnswers
  <2>32. clock \in Nat
    BY <1>4
  <2>33. PICK T : WasSet(t, T, k, tn)
    BY <1>1, <2>1, <2>2, <2>31, <2>32, CacheSetOK
  <2>4. /\ t \in Seq(T) /\ EntriesOK(t, tn) /\ Len(t) <= MaxEntries /\ Has(t, k)
        /\ \A q \in CacheKeys : Has(store, q) /\ ~Has(t, q) /\ clock < truth[q].exp
              => q = Live(store)[1].k /\ Len(Live(t)) = MaxEntries
    BY <2>33 DEF WasSet
  <2>5. CacheInv'
    BY <1>4, <1>7, <2>2, <2>3, <2>4 DEF CacheInv, StoreOK
  <2>6. ASSUME NEW q \in CacheKeys, truth[q]' # truth[q] PROVE InStore(q)'
    <3>1. q = k
      BY <1>6, <2>6
    <3>2. (\E i \in DOMAIN t : t[i].k = q)
      BY <2>4, <3>1, InStoreHas
    <3> QED
      BY <2>2, <3>2 DEF InStore
  <2>7. ASSUME NEW q \in CacheKeys, InStore(q), ~InStore(q)', clock < truth[q].exp
        PROVE  q = Live(store)[1].k /\ Len(Live(store)') = MaxEntries
    <3>1. Has(store, q) /\ ~Has(t, q)
      BY <1>5, <2>2, <2>4, <2>7, InStoreHas DEF InStore
    <3>2. q = Live(store)[1].k /\ Len(Live(t)) = MaxEntries
      BY <2>4, <2>7, <3>1
    <3>3. Live(store)' = Live(t)
      BY <1>4, <2>2 DEF Live
    <3> QED
      BY <3>2, <3>3
  <2> QED
    BY <2>5, <2>6, <2>7, OtherMove
<1> QED
  BY <1>8, <1>9

LEMMA CacheStep ==
    ASSUME CacheInv, AnswersNext
    PROVE  CacheInv' /\ CacheMove
<1>1. CASE \E p \in Vendors, m \in Labels, ttl \in TTLs : AnswerArrives(p, m, ttl)
  BY <1>1, AnswerKeeps
<1>2. CASE \E p \in Vendors, m \in Labels : Lookup(<<p, m>>)
  BY <1>2, LookupKeeps DEF CacheKeys
<1>3. CASE (\E p \in Vendors, m \in Labels : StreamSettles(p, m)) \/ PassTime
  <2>1. store' = store /\ truth' = truth /\ clock' \in Nat
    <3>1. CASE \E p \in Vendors, m \in Labels : StreamSettles(p, m)
      <4>1. PICK p \in Vendors, m \in Labels : StreamSettles(p, m)
        BY <3>1
      <4>2. store' = store /\ truth' = truth /\ clock' = clock
        BY <4>1 DEF StreamSettles
      <4> QED
        BY <4>2 DEF CacheInv
    <3>2. CASE PassTime
      <4>1. store' = store /\ truth' = truth /\ clock' = clock + 1
        BY <3>2 DEF PassTime
      <4> QED
        BY <4>1 DEF CacheInv
    <3> QED
      BY <1>3, <3>1, <3>2
  <2>2. CacheInv'
    BY <2>1 DEF CacheInv, StoreOK
  <2>3. \A k \in CacheKeys : truth[k]' = truth[k] /\ (InStore(k) => InStore(k)')
    BY <2>1 DEF InStore
  <2> QED
    BY <2>2, <2>3, OtherMove
<1>4. CASE ClearCache
  <2>1. store' = << >> /\ truth' = truth /\ clock' = clock /\ MaxEntries \in Nat
    BY <1>4, AnswersAssumption DEF ClearCache
  <2>2. CacheInv'
    BY <2>1 DEF CacheInv, StoreOK, EntriesOK
  <2>3. \A k \in CacheKeys : truth[k]' = truth[k]
    BY <2>1
  <2> QED
    BY <2>1, <2>2, <2>3, OtherMove
<1> QED
  BY <1>1, <1>2, <1>3, <1>4 DEF AnswersNext

\* A lookup returns the last answer of its own key, and not after its time; an answer
\* that is to be kept is found; and a live one gives way only when it is the least
\* recently used of more than MaxEntries (MemoryCache).
THEOREM CacheAlwaysHonest == AnswersSpec => CacheHonest
<1>1. AnswersInit => CacheInv
  <2> SUFFICES ASSUME AnswersInit PROVE CacheInv
    OBVIOUS
  <2>1. store = << >> /\ clock = 0 /\ truth = [k \in CacheKeys |-> NoAnswer]
    BY DEF AnswersInit
  <2>2. store \in Seq({}) /\ EntriesOK(store, truth) /\ Len(store) <= MaxEntries
    BY <2>1, AnswersAssumption DEF EntriesOK
  <2> QED
    BY <2>1, <2>2 DEF CacheInv, StoreOK
<1>2. CacheInv /\ [AnswersNext]_ansVars => CacheInv'
  <2>1. CASE AnswersNext
    BY <2>1, CacheStep
  <2>2. CASE UNCHANGED ansVars
    BY <2>2 DEF ansVars, CacheInv, StoreOK
  <2> QED
    BY <2>1, <2>2
<1>3. CacheInv /\ [AnswersNext]_ansVars => [CacheMove]_ansVars
  BY CacheStep
<1> QED
  BY <1>1, <1>2, <1>3, PTL DEF AnswersSpec, CacheHonest, CacheMove

-----------------------------------------------------------------------------
\* The keys.

\* A finite set as a sequence.
LEMMA SetToSeqOK ==
    ASSUME NEW S, IsFiniteSet(S)
    PROVE  SetToSeq(S) \in Seq(S) /\ \A x \in S : \E i \in DOMAIN SetToSeq(S) : SetToSeq(S)[i] = x
<1> DEFINE n == Cardinality(S)
           f == SetToSeq(S)
<1>1. n \in Nat /\ ExistsBijection(1..n, S)
  BY FS_CardinalityType
<1> HIDE DEF n
<1>2. \E g \in [1..n -> S] : IsInjective(g)
  BY <1>1, Zenon DEF ExistsBijection, Bijection, Injection
<1>3. f \in [1..n -> S] /\ IsInjective(f)
  BY <1>2 DEF SetToSeq, n
<1> HIDE DEF f
<1>4. IsFiniteSet(1..n) /\ Cardinality(1..n) = n
  BY <1>1, FS_Interval
<1>5. f \in Injection(1..n, S)
  BY <1>3 DEF Injection
<1>6. f \in Surjection(1..n, S)
  BY <1>4, <1>5, FS_Injection DEF n
<1>7. \A x \in S : \E i \in 1..n : f[i] = x
  BY <1>6 DEF Surjection
<1>8. f \in Seq(S) /\ DOMAIN f = 1..n
  BY <1>1, <1>3
<1> QED
  BY <1>7, <1>8 DEF f

\* Names that are still to be applied, or hold the server of local.yml, or what was loaded
InTodo(n, todo) == \E i \in DOMAIN todo : todo[i] = n
OnTheWay(l, fresh, todo) ==
    /\ todo \in Seq(AllNames)
    /\ \A n \in AllNames : l[n] = {Yml} \/ l[n] = fresh[n] \/ InTodo(n, todo)

Unfinished(c) == reload[c].on

KeysInv ==
    /\ live = [n \in AllNames |-> live[n]]
    /\ reload = [c \in Callers |-> reload[c]]
    /\ ~crossed =>
          /\ \A c, d \in Callers : reload[c].on /\ reload[d].on => c = d
          /\ \A c \in Callers : reload[c].on =>
                /\ reload[c].fresh = Loaded(kept, secret) /\ reload[c].todo # << >>
                /\ OnTheWay(live, reload[c].fresh, reload[c].todo)
          /\ (\A c \in Callers : ~reload[c].on) =>
                /\ \A n \in AllNames : live[n] = {Yml} \/ live[n] = Loaded(kept, secret)[n]
                /\ watch = Watched(live)

LEMMA KeysHold == KeysInv => ReloadConverges
BY DEF KeysInv, ReloadConverges, Settled

LEMMA KeysStart == KeysInit => KeysInv
<1> SUFFICES ASSUME KeysInit PROVE KeysInv
  OBVIOUS
<1>1. /\ kept = {} /\ secret = 1 /\ live = AtStart({}, 1) /\ watch = Watched(AtStart({}, 1))
      /\ reload = [c \in Callers |-> NoReload]
  BY DEF KeysInit
<1>2. /\ live = [n \in AllNames |-> live[n]]
      /\ \A n \in AllNames : live[n] = {Yml} \/ live[n] = Loaded(kept, secret)[n]
  BY <1>1 DEF AtStart
<1>3. reload = [c \in Callers |-> reload[c]] /\ \A c \in Callers : ~reload[c].on
  BY <1>1 DEF NoReload
<1> QED
  BY <1>1, <1>2, <1>3 DEF KeysInv

\* Applying names until one has to be refreshed: every name that is not on the
\* list any more is as it should be.
LEMMA AppliedOK ==
    ASSUME NEW l, NEW fresh, NEW todo, OnTheWay(l, fresh, todo)
    PROVE  /\ OnTheWay(Applied(l, fresh, todo).live, fresh, Applied(l, fresh, todo).todo)
           /\ Applied(l, fresh, todo).live = [n \in AllNames |-> Applied(l, fresh, todo).live[n]]
<1> DEFINE stops == {i \in DOMAIN todo : todo[i] \in Servers /\ Differs(l, fresh, todo[i])}
           first == CHOOSE i \in stops : \A j \in stops : i <= j
           upto == IF stops = {} THEN Len(todo) ELSE first - 1
           now == {todo[i] : i \in 1..upto}
           al == [n \in AllNames |-> IF n \in now /\ Differs(l, fresh, n) THEN fresh[n] ELSE l[n]]
           rest == SubSeq(todo, upto + 1, Len(todo))
<1>1. todo \in Seq(AllNames) /\ Len(todo) \in Nat /\ DOMAIN todo = 1..Len(todo)
  BY DEF OnTheWay
<1>2. Applied(l, fresh, todo) = [live |-> al, todo |-> rest]
  BY DEF Applied
<1>3. upto \in 0..Len(todo)
  <2>1. CASE stops = {}
    BY <1>1, <2>1
  <2>2. CASE stops # {}
    <3>1. stops \in SUBSET Nat /\ stops \in SUBSET (1..Len(todo))
      BY <1>1
    <3>2. \E i \in stops : \A j \in stops : i <= j
      <4> HIDE DEF stops
      <4> QED
        BY <2>2, <3>1, Smallest
    <3>3. first \in stops
      <4> HIDE DEF stops
      <4> QED
        BY <3>2
    <3> HIDE DEF first, stops
    <3> QED
      BY <1>1, <2>2, <3>1, <3>3
  <2> QED
    BY <2>1, <2>2
<1> HIDE DEF upto, stops, first
<1>4. rest \in Seq(AllNames) /\ Len(rest) = Len(todo) - upto
      /\ DOMAIN rest = 1..Len(rest) /\ \A i \in 1..Len(rest) : rest[i] = todo[upto + i]
  <2>1. todo \in Seq(AllNames) /\ Len(todo) \in Nat /\ upto \in Nat /\ upto <= Len(todo)
    BY <1>1, <1>3
  <2>2. upto + 1 \in 1..(Len(todo) + 1) /\ Len(todo) \in upto..Len(todo)
    BY <2>1
  <2>3. rest \in Seq(AllNames)
    BY <2>1, <2>2, SubSeqProperties
  <2>4. Len(rest) = Len(todo) - upto
    BY <2>1, <2>2
  <2>5. \A i \in 1..Len(rest) : rest[i] = todo[upto + i]
    BY <2>1, <2>2, <2>4
  <2> QED
    BY <2>3, <2>4, <2>5
<1> HIDE DEF rest
<1>5. ASSUME NEW n \in AllNames PROVE al[n] = {Yml} \/ al[n] = fresh[n] \/ InTodo(n, rest)
  <2>1. CASE n \in now
    BY <2>1 DEF Differs
  <2>2. CASE n \notin now
    <3>1. al[n] = l[n]
      BY <2>2
    <3>2. CASE InTodo(n, todo)
      <4>1. PICK i \in DOMAIN todo : todo[i] = n
        BY <3>2 DEF InTodo
      <4>2. i \in 1..Len(todo) /\ ~(i <= upto)
        BY <1>1, <1>3, <2>2, <4>1
      <4>3. i - upto \in 1..Len(rest) /\ upto + (i - upto) = i
        BY <1>1, <1>3, <1>4, <4>2
      <4>4. rest[i - upto] = n
        BY <1>4, <4>1, <4>3
      <4> QED
        BY <1>4, <4>3, <4>4 DEF InTodo
    <3>3. CASE ~InTodo(n, todo)
      BY <3>1, <3>3 DEF OnTheWay
    <3> QED
      BY <3>2, <3>3
  <2> QED
    BY <2>1, <2>2
<1>6. al = [n \in AllNames |-> al[n]]
  OBVIOUS
<1> HIDE DEF al
<1> QED
  BY <1>2, <1>4, <1>5, <1>6 DEF OnTheWay

\* A part of a reload that is alone.
LEMMA StepOK ==
    ASSUME reload = [c \in Callers |-> reload[c]],
           NEW c \in Callers, NEW l, NEW todo, NEW fresh, Step(c, l, fresh, todo),
           fresh = Loaded(kept', secret'), OnTheWay(l, fresh, todo),
           \A d \in Callers : d # c => ~reload[d].on
    PROVE  KeysInv'
<1> DEFINE a == Applied(l, fresh, todo)
           r == IF a.todo = << >> THEN NoReload
                ELSE [on |-> TRUE, fresh |-> fresh, todo |-> a.todo]
<1>1. /\ live' = a.live /\ reload' = [reload EXCEPT ![c] = r]
      /\ watch' = (IF a.todo = << >> THEN Watched(a.live) ELSE watch)
  BY DEF Step
<1>2. OnTheWay(a.live, fresh, a.todo) /\ a.live = [n \in AllNames |-> a.live[n]]
  BY AppliedOK
<1>3. IF a.todo = << >> THEN ~r.on ELSE r.on /\ r.fresh = fresh /\ r.todo = a.todo
  BY DEF NoReload
<1> HIDE DEF a, r
<1>4. /\ reload' = [d \in Callers |-> reload'[d]] /\ reload'[c] = r
      /\ \A d \in Callers : d # c => reload'[d] = reload[d]
  BY <1>1
<1>5. \A d, e \in Callers : reload'[d].on /\ reload'[e].on => d = e
  BY <1>4
<1>6. \A d \in Callers : reload'[d].on =>
         /\ reload'[d].fresh = Loaded(kept', secret') /\ reload'[d].todo # << >>
         /\ OnTheWay(live', reload'[d].fresh, reload'[d].todo)
  <2> SUFFICES ASSUME NEW d \in Callers, reload'[d].on
               PROVE  /\ reload'[d].fresh = Loaded(kept', secret') /\ reload'[d].todo # << >>
                      /\ OnTheWay(live', reload'[d].fresh, reload'[d].todo)
    OBVIOUS
  <2>1. d = c /\ r.on
    BY <1>4
  <2> QED
    BY <1>1, <1>2, <1>3, <1>4, <2>1
<1>7. ASSUME \A d \in Callers : ~reload'[d].on
      PROVE  /\ \A n \in AllNames : live'[n] = {Yml} \/ live'[n] = Loaded(kept', secret')[n]
             /\ watch' = Watched(live')
  <2>1. a.todo = << >>
    BY <1>3, <1>4, <1>7
  <2>2. \A n \in AllNames : ~InTodo(n, a.todo)
    BY <2>1 DEF InTodo
  <2> QED
    BY <1>1, <1>2, <2>1, <2>2 DEF OnTheWay
<1> QED
  BY <1>1, <1>2, <1>4, <1>5, <1>6, <1>7 DEF KeysInv

\* A reload that crosses another: nothing is said until the next one.
LEMMA StepShape ==
    ASSUME reload = [c \in Callers |-> reload[c]],
           NEW c \in Callers, NEW l, NEW todo, NEW fresh, Step(c, l, fresh, todo), crossed'
    PROVE  KeysInv'
<1> DEFINE a == Applied(l, fresh, todo)
           r == IF a.todo = << >> THEN NoReload
                ELSE [on |-> TRUE, fresh |-> fresh, todo |-> a.todo]
<1>1. live' = a.live /\ reload' = [reload EXCEPT ![c] = r]
  BY DEF Step
<1>2. live' = [n \in AllNames |-> live'[n]]
  BY <1>1 DEF Applied
<1> HIDE DEF r, a
<1>3. reload' = [d \in Callers |-> reload'[d]]
  BY <1>1
<1> QED
  BY <1>2, <1>3 DEF KeysInv

LEMMA BeginReloadOK ==
    ASSUME KeysInv, NEW c \in Callers, BeginReload(c), secret' = secret
    PROVE  KeysInv'
<1> DEFINE fresh == Loaded(kept', secret)
           names == {n \in AllNames : fresh[n] # {}}
           s == SetToSeq(names \ Servers)
           t == SetToSeq(names \cap Servers)
           l == DroppedUnwanted(live, fresh)
<1>1. /\ ~reload[c].on /\ crossed' = \E d \in Callers : reload[d].on
      /\ Step(c, l, fresh, s \o t)
  BY DEF BeginReload
<1>2. reload = [d \in Callers |-> reload[d]]
  BY DEF KeysInv
<1>3. CASE crossed'
  <2> HIDE DEF l, fresh, s, t
  <2> QED
    BY <1>1, <1>2, <1>3, StepShape
<1>4. CASE ~crossed'
  <2>1. names \ Servers \in SUBSET AllNames /\ names \cap Servers \in SUBSET AllNames
    OBVIOUS
  <2>2. IsFiniteSet(names \ Servers) /\ IsFiniteSet(names \cap Servers)
    BY <2>1, FS_Subset, KeysAssumption
  <2>3. /\ s \in Seq(names \ Servers) /\ \A x \in names \ Servers : \E i \in DOMAIN s : s[i] = x
        /\ t \in Seq(names \cap Servers) /\ \A x \in names \cap Servers : \E i \in DOMAIN t : t[i] = x
    BY <2>2, SetToSeqOK
  <2> HIDE DEF s, t
  <2>4. s \in Seq(AllNames) /\ t \in Seq(AllNames)
    BY <2>3, SeqMonotonic
  <2>5. /\ s \o t \in Seq(AllNames) /\ DOMAIN s = 1..Len(s) /\ DOMAIN t = 1..Len(t)
        /\ DOMAIN (s \o t) = 1..(Len(s) + Len(t)) /\ Len(s) \in Nat /\ Len(t) \in Nat
        /\ \A i \in 1..(Len(s) + Len(t)) : (s \o t)[i] = IF i <= Len(s) THEN s[i] ELSE t[i - Len(s)]
    BY <2>4, ConcatProperties, LenProperties
  <2>6. ASSUME NEW n \in names PROVE InTodo(n, s \o t)
    <3>1. CASE n \notin Servers
      <4>1. PICK i \in 1..Len(s) : s[i] = n
        BY <2>3, <2>5, <3>1
      <4>2. i \in 1..(Len(s) + Len(t)) /\ (s \o t)[i] = n
        BY <2>5, <4>1
      <4> QED
        BY <2>5, <4>2 DEF InTodo
    <3>2. CASE n \in Servers
      <4>1. PICK i \in 1..Len(t) : t[i] = n
        BY <2>3, <2>5, <3>2
      <4>2. Len(s) + i \in 1..(Len(s) + Len(t)) /\ ~(Len(s) + i <= Len(s)) /\ Len(s) + i - Len(s) = i
        BY <2>5, <4>1
      <4>3. (s \o t)[Len(s) + i] = n
        BY <2>5, <4>1, <4>2
      <4> QED
        BY <2>5, <4>2, <4>3 DEF InTodo
    <3> QED
      BY <3>1, <3>2
  <2>7. ASSUME NEW n \in AllNames PROVE l[n] = {Yml} \/ l[n] = fresh[n] \/ InTodo(n, s \o t)
    <3>1. CASE n \in names
      BY <2>6, <3>1
    <3>2. CASE n \notin names
      <4>1. fresh[n] = {} /\ l[n] = (IF live[n] # {Yml} /\ fresh[n] = {} THEN {} ELSE live[n])
        BY <3>2 DEF DroppedUnwanted
      <4> QED
        BY <4>1
    <3> QED
      BY <3>1, <3>2
  <2>8. OnTheWay(l, fresh, s \o t)
    BY <2>5, <2>7 DEF OnTheWay
  <2>9. fresh = Loaded(kept', secret')
    OBVIOUS
  <2> HIDE DEF l, fresh
  <2> QED
    BY <1>1, <1>2, <1>4, <2>8, <2>9, StepOK
<1> QED
  BY <1>3, <1>4

LEMMA RefreshedOK ==
    ASSUME KeysInv, NEW c \in Callers, Refreshed(c)
    PROVE  KeysInv'
<1> DEFINE todo == reload[c].todo
           fresh == reload[c].fresh
           n == Head(todo)
           l == [live EXCEPT ![n] = fresh[n]]
<1>1. /\ reload[c].on /\ Step(c, l, fresh, Tail(todo))
      /\ kept' = kept /\ secret' = secret /\ crossed' = crossed
  BY DEF Refreshed
<1>2. reload = [d \in Callers |-> reload[d]] /\ live = [m \in AllNames |-> live[m]]
  BY DEF KeysInv
<1>3. CASE crossed
  <2> HIDE DEF l, fresh, todo
  <2> QED
    BY <1>1, <1>2, <1>3, StepShape
<1>4. CASE ~crossed
  <2>1. /\ \A d \in Callers : reload[d].on => d = c
        /\ fresh = Loaded(kept, secret) /\ todo # << >> /\ OnTheWay(live, fresh, todo)
    BY <1>1, <1>4 DEF KeysInv
  <2> HIDE DEF fresh, todo
  <2>2. todo \in Seq(AllNames)
    BY <2>1 DEF OnTheWay
  <2>3. /\ Tail(todo) \in Seq(AllNames) /\ Len(Tail(todo)) = Len(todo) - 1
        /\ n = todo[1] /\ n \in AllNames /\ Len(todo) \in Nat \ {0}
        /\ DOMAIN todo = 1..Len(todo) /\ DOMAIN Tail(todo) = 1..(Len(todo) - 1)
        /\ \A i \in 1..(Len(todo) - 1) : Tail(todo)[i] = todo[i + 1]
    BY <2>1, <2>2
  <2> HIDE DEF n
  <2>4. l[n] = fresh[n] /\ \A m \in AllNames : m # n => l[m] = live[m]
    BY <1>2, <2>3
  <2> HIDE DEF l
  <2>5. ASSUME NEW m \in AllNames, m # n, InTodo(m, todo) PROVE InTodo(m, Tail(todo))
    <3>1. PICK i \in 1..Len(todo) : todo[i] = m
      BY <2>3, <2>5 DEF InTodo
    <3>2. i # 1 /\ i - 1 \in 1..(Len(todo) - 1) /\ (i - 1) + 1 = i
      BY <2>3, <2>5, <3>1
    <3> QED
      BY <2>3, <3>1, <3>2 DEF InTodo
  <2>6. OnTheWay(l, fresh, Tail(todo))
    BY <2>1, <2>3, <2>4, <2>5 DEF OnTheWay
  <2>7. \A d \in Callers : d # c => ~reload[d].on
    BY <2>1
  <2>8. fresh = Loaded(kept', secret')
    BY <1>1, <2>1
  <2> QED
    BY <1>1, <1>2, <2>6, <2>7, <2>8, StepOK
<1> QED
  BY <1>3, <1>4

LEMMA RestartOK ==
    ASSUME NEW s, RestartGateway(s)
    PROVE  KeysInv'
<1>1. /\ kept' = kept /\ secret' = s /\ live' = AtStart(kept, s) /\ watch' = Watched(AtStart(kept, s))
      /\ reload' = [c \in Callers |-> NoReload]
  BY DEF RestartGateway
<1>2. /\ live' = [n \in AllNames |-> live'[n]]
      /\ \A n \in AllNames : live'[n] = {Yml} \/ live'[n] = Loaded(kept', secret')[n]
  BY <1>1 DEF AtStart
<1>3. reload' = [c \in Callers |-> reload'[c]] /\ \A c \in Callers : ~reload'[c].on
  BY <1>1 DEF NoReload
<1> QED
  BY <1>1, <1>2, <1>3 DEF KeysInv

LEMMA KeysStep == KeysInv /\ [KeysNext]_keyVars => KeysInv'
<1> SUFFICES ASSUME KeysInv, [KeysNext]_keyVars PROVE KeysInv'
  OBVIOUS
<1>1. CASE UNCHANGED keyVars
  BY <1>1 DEF keyVars, KeysInv
<1>2. ASSUME NEW c \in Callers, Refreshed(c) PROVE KeysInv'
  BY <1>2, RefreshedOK
<1>3. ASSUME NEW c \in Callers, NEW k \in KeyIds, AddKey(c, k) \/ DeleteKey(c, k) PROVE KeysInv'
  BY <1>3, BeginReloadOK DEF AddKey, DeleteKey
<1>4. ASSUME NEW s \in 1..MaxSecret, RestartGateway(s) PROVE KeysInv'
  BY <1>4, RestartOK
<1> QED
  BY <1>1, <1>2, <1>3, <1>4 DEF KeysNext

\* A reload that is not crossed by another ends with the keys that are kept.
LEMMA ReloadConvergesAlways == KeysSpec => []ReloadConverges
BY KeysHold, KeysStart, KeysStep, PTL DEF KeysSpec

-----------------------------------------------------------------------------
\* The pool of keys.

IsIn(x, s) == \E i \in DOMAIN s : s[i] = x

LEMMA Modulo ==
    ASSUME NEW k \in Nat \ {0}, NEW m \in 0..(k - 1)
    PROVE  m % k = m /\ (m + k) % k = m
OBVIOUS

LEMMA ModuloType ==
    ASSUME NEW k \in Nat \ {0}, NEW x \in Nat
    PROVE  x % k \in 0..(k - 1)
OBVIOUS

\* The order of a request has no key twice parked: every key that is awake, or every key.
LEMMA OrderOK ==
    ASSUME turn \in Members
    PROVE  /\ Order \in Seq(Members) /\ Order # << >>
           /\ \A m \in Members : parked[m] <= poolNow => IsIn(m, Order)
           /\ {m \in Members : parked[m] <= poolNow} = {} => \A m \in Members : IsIn(m, Order)
<1> DEFINE K == KeyCount
           all == [i \in 1..K |-> (turn + i - 1) % K]
           awake == {i \in 1..K : parked[all[i]] <= poolNow}
<1>1. K \in Nat \ {0} /\ turn \in 0..(K - 1)
  BY PoolAssumption DEF Members
<1>2. \A i \in 1..K : all[i] \in Members
  <2> SUFFICES ASSUME NEW i \in 1..K PROVE (turn + i - 1) % K \in Members
    OBVIOUS
  <2>1. turn + i - 1 \in Nat
    BY <1>1
  <2> QED
    BY <1>1, <2>1, ModuloType DEF Members
<1>3. all \in Seq(Members) /\ Len(all) = K /\ DOMAIN all = 1..K
  BY <1>1, <1>2
<1>4. ASSUME NEW m \in Members PROVE \E i \in 1..K : all[i] = m
  <2>0. m \in 0..(K - 1)
    BY DEF Members
  <2>1. CASE m >= turn
    <3>1. m - turn + 1 \in 1..K /\ turn + (m - turn + 1) - 1 = m /\ m % K = m
      BY <1>1, <2>0, <2>1, Modulo
    <3> QED
      BY <3>1
  <2>2. CASE ~(m >= turn)
    <3>1. /\ m - turn + K + 1 \in 1..K /\ turn + (m - turn + K + 1) - 1 = m + K
          /\ (m + K) % K = m
      BY <1>1, <2>0, <2>2, Modulo
    <3> QED
      BY <3>1
  <2> QED
    BY <2>1, <2>2
<1>5. Order = IF awake = {} THEN all ELSE Picked(all, awake)
  BY DEF Order
<1> HIDE DEF all
<1>6. IsFiniteSet(awake) /\ awake \in SUBSET Int
  <2>1. IsFiniteSet(1..K)
    BY <1>1, FS_Interval
  <2>2. awake \subseteq 1..K /\ awake \in SUBSET Int
    BY <1>1
  <2> HIDE DEF awake
  <2>3. IsFiniteSet(awake)
    BY <2>1, <2>2, FS_Subset
  <2> QED
    BY <2>2, <2>3
<1>7. CASE awake = {}
  <2>1. Order = all
    BY <1>5, <1>7
  <2>2. all # << >>
    <3>1. Len(<< >>) = 0
      OBVIOUS
    <3> QED
      BY <1>1, <1>3, <3>1
  <2>3. \A m \in Members : IsIn(m, all)
    BY <1>3, <1>4 DEF IsIn
  <2> QED
    BY <1>3, <2>1, <2>2, <2>3
<1>8. CASE awake # {}
  <2> DEFINE n == Cardinality(awake)
             p == Picked(all, awake)
  <2>1. /\ p \in Seq({all[i] : i \in awake}) /\ Len(p) = n /\ n \in Nat /\ DOMAIN p = 1..n
        /\ \A i \in awake : \E j \in 1..n : p[j] = all[i]
    <3> HIDE DEF awake
    <3>1. all \in Seq(Members) /\ awake \subseteq Int /\ IsFiniteSet(awake)
      BY <1>3, <1>6
    <3>2. Picked(all, awake) \in Seq({all[i] : i \in awake})
      BY <3>1, PickedOK
    <3>3. Len(Picked(all, awake)) = Cardinality(awake) /\ Cardinality(awake) \in Nat
      BY <3>1, PickedOK
    <3>4. DOMAIN Picked(all, awake) = 1..Cardinality(awake)
      BY <3>1, PickedOK
    <3>5. \A i \in awake : \E j \in 1..Cardinality(awake) : Picked(all, awake)[j] = all[i]
      <4> SUFFICES ASSUME NEW i \in awake
                   PROVE  \E j \in 1..Cardinality(awake) : Picked(all, awake)[j] = all[i]
        OBVIOUS
      <4>1. PICK j : j = Earlier(awake, i) + 1
        OBVIOUS
      <4>2. j \in 1..Cardinality(awake) /\ NthPlace(awake, j) = i
        BY <3>1, <4>1, NthPlaceOK
      <4>3. Picked(all, awake)[j] = all[NthPlace(awake, j)]
        BY <4>2 DEF Picked
      <4> QED
        BY <4>2, <4>3
    <3> QED
      BY <3>2, <3>3, <3>4, <3>5
  <2>2. n # 0
    BY <1>6, <1>8, FS_EmptySet
  <2> HIDE DEF n, p
  <2>3. {all[i] : i \in awake} \subseteq Members
    BY <1>2
  <2>4. p \in Seq(Members)
    BY <2>1, <2>3, SeqMonotonic
  <2>5. p # << >>
    <3>1. Len(<< >>) = 0
      OBVIOUS
    <3> QED
      BY <2>1, <2>2, <3>1
  <2>6. ASSUME NEW m \in Members, parked[m] <= poolNow PROVE IsIn(m, p)
    <3>1. PICK i \in 1..K : all[i] = m
      BY <1>4
    <3>2. i \in awake
      BY <2>6, <3>1
    <3> QED
      BY <2>1, <3>1, <3>2 DEF IsIn
  <2>7. {m \in Members : parked[m] <= poolNow} # {}
    BY <1>2, <1>8
  <2> QED
    BY <1>5, <1>8, <2>4, <2>5, <2>6, <2>7 DEF p
<1> QED
  BY <1>7, <1>8

UseShape(u) == u = [at |-> u.at, left |-> u.left, stream |-> u.stream, begun |-> u.begun]

\* A request has been refused by the keys `by` and has those of `left` before it.
Tried(by, liv, left) ==
    /\ \A m \in liv : m \in by \/ IsIn(m, left)
    /\ liv = {} => \A m \in Members : m \in by \/ IsIn(m, left)

PoolFor(r) ==
    /\ UseShape(use[r]) /\ refusals[r] = [by |-> refusals[r].by, live |-> refusals[r].live]
    /\ refusals[r].by \subseteq Members /\ refusals[r].live \subseteq Members
    /\ use[r].at = "calling" =>
          /\ use[r].left \in Seq(Members) /\ use[r].left # << >>
          /\ Tried(refusals[r].by, refusals[r].live, use[r].left)
    /\ use[r].at = "refused" => Tried(refusals[r].by, refusals[r].live, << >>)
    /\ use[r].at = "none" => refusals[r].by = {}

PoolInv ==
    /\ turn \in Members
    /\ use = [r \in Uses |-> use[r]] /\ refusals = [r \in Uses |-> refusals[r]]
    /\ \A r \in Uses : PoolFor(r)

\* What an assignment to a field of such a record leaves.
LEMMA UseBegun ==
    ASSUME NEW v, UseShape(v), NEW u, u = [v EXCEPT !.begun = TRUE]
    PROVE  UseShape(u) /\ u.at = v.at /\ u.left = v.left
BY DEF UseShape

LEMMA UseAt ==
    ASSUME NEW v, UseShape(v), NEW a, NEW u, u = [v EXCEPT !.at = a]
    PROVE  UseShape(u) /\ u.at = a
BY DEF UseShape

LEMMA RefusedBy ==
    ASSUME NEW g, g = [by |-> g.by, live |-> g.live], NEW more, NEW f, f = [g EXCEPT !.by = more]
    PROVE  f = [by |-> f.by, live |-> f.live] /\ f.by = more /\ f.live = g.live
OBVIOUS

LEMMA PoolHolds == PoolInv => PoolTriesAll
<1> SUFFICES ASSUME PoolInv, NEW r \in Uses
             PROVE  /\ use[r].at = "calling" => use[r].left # << >>
                    /\ use[r].at = "refused" =>
                          /\ refusals[r].live \subseteq refusals[r].by
                          /\ refusals[r].live = {} => refusals[r].by = Members
  BY DEF PoolTriesAll
<1>1. \A x : ~IsIn(x, << >>)
  BY DEF IsIn
<1> QED
  BY <1>1 DEF PoolInv, PoolFor, Tried

\* One request goes on, and the others stay.
LEMMA OneUse ==
    ASSUME PoolInv, NEW r \in Uses, turn' \in Members,
           use' = [q \in Uses |-> use'[q]], refusals' = [q \in Uses |-> refusals'[q]],
           \A q \in Uses : q # r => use'[q] = use[q] /\ refusals'[q] = refusals[q],
           PoolFor(r)'
    PROVE  PoolInv'
<1>1. ASSUME NEW q \in Uses PROVE PoolFor(q)'
  <2>1. CASE q = r
    BY <2>1
  <2>2. CASE q # r
    <3>1. PoolFor(q) /\ use'[q] = use[q] /\ refusals'[q] = refusals[q]
      BY <2>2 DEF PoolInv
    <3> QED
      BY <3>1 DEF PoolFor
  <2> QED
    BY <2>1, <2>2
<1> QED
  BY <1>1 DEF PoolInv

LEMMA PoolStart == PoolInit => PoolInv
<1> SUFFICES ASSUME PoolInit PROVE PoolInv
  OBVIOUS
<1>1. /\ turn = 0 /\ use = [r \in Uses |-> NoUse]
      /\ refusals = [r \in Uses |-> [by |-> {}, live |-> {}]]
  BY DEF PoolInit
<1>2. turn \in Members
  BY <1>1, PoolAssumption DEF Members
<1>3. UseShape(NoUse) /\ NoUse.at = "none"
  BY DEF UseShape, NoUse
<1>4. \A r \in Uses : use[r] = NoUse /\ refusals[r].by = {} /\ refusals[r].live = {}
                      /\ refusals[r] = [by |-> refusals[r].by, live |-> refusals[r].live]
  BY <1>1
<1> QED
  BY <1>1, <1>2, <1>3, <1>4 DEF PoolInv, PoolFor

LEMMA UsePoolOK == ASSUME PoolInv, NEW r \in Uses, NEW stream, UsePool(r, stream) PROVE PoolInv'
<1> DEFINE u == [at |-> "calling", left |-> Order, stream |-> stream, begun |-> FALSE]
           liv == {i \in Members : parked[i] <= poolNow}
<1>1. /\ use[r].at = "none" /\ use' = [use EXCEPT ![r] = u] /\ turn' = (turn + 1) % KeyCount
      /\ refusals' = [refusals EXCEPT ![r].live = liv]
  BY DEF UsePool
<1>2. /\ use = [q \in Uses |-> use[q]] /\ refusals = [q \in Uses |-> refusals[q]]
      /\ turn \in Members /\ refusals[r].by = {}
      /\ refusals[r] = [by |-> refusals[r].by, live |-> refusals[r].live]
  BY <1>1 DEF PoolInv, PoolFor
<1>3. turn' \in Members
  BY <1>1, <1>2, ModuloType, PoolAssumption DEF Members
<1>4. /\ Order \in Seq(Members) /\ Order # << >>
      /\ \A m \in Members : parked[m] <= poolNow => IsIn(m, Order)
      /\ liv = {} => \A m \in Members : IsIn(m, Order)
  BY <1>2, OrderOK
<1>5. UseShape(u) /\ u.at = "calling" /\ u.left = Order
  BY DEF UseShape
<1>6. Tried({}, liv, Order)
  BY <1>4 DEF Tried
<1>7. liv \subseteq Members
  OBVIOUS
<1> HIDE DEF u, liv
<1>8. /\ use' = [q \in Uses |-> use'[q]] /\ use'[r] = u
      /\ \A q \in Uses : q # r => use'[q] = use[q]
  BY <1>1, <1>2
<1>9. /\ refusals' = [q \in Uses |-> refusals'[q]]
      /\ refusals'[r].by = {} /\ refusals'[r].live = liv
      /\ refusals'[r] = [by |-> refusals'[r].by, live |-> refusals'[r].live]
      /\ \A q \in Uses : q # r => refusals'[q] = refusals[q]
  BY <1>1, <1>2
<1>10. PoolFor(r)'
  BY <1>4, <1>5, <1>6, <1>7, <1>8, <1>9 DEF PoolFor
<1> QED
  BY <1>3, <1>8, <1>9, <1>10, OneUse

\* A request goes on without a refusal.
LEMMA SameRefusals ==
    ASSUME PoolInv, NEW r \in Uses, use[r].at = "calling", refusals' = refusals, turn' = turn,
           NEW u, use' = [use EXCEPT ![r] = u], UseShape(u),
           u.at = "calling" => u.left = use[r].left, u.at # "refused", u.at # "none"
    PROVE  PoolInv'
<1>1. /\ use = [q \in Uses |-> use[q]] /\ refusals = [q \in Uses |-> refusals[q]]
      /\ turn \in Members
  BY DEF PoolInv
<1>2. /\ use' = [q \in Uses |-> use'[q]] /\ use'[r] = u
      /\ \A q \in Uses : q # r => use'[q] = use[q]
  BY <1>1
<1>3. PoolFor(r)'
  BY <1>2 DEF PoolInv, PoolFor
<1> QED
  BY <1>1, <1>2, <1>3, OneUse

LEMMA KeyRefusesOK == ASSUME PoolInv, NEW r \in Uses, KeyRefuses(r) PROVE PoolInv'
<1> DEFINE left == use[r].left
           i == Head(left)
<1>v. PICK v, tl, a : v = use[r] /\ tl = Tail(left) /\ a = AfterRefusal(r)
  OBVIOUS
<1>u. PICK u : u = [v EXCEPT !.left = tl, !.at = a]
  OBVIOUS
<1>f. PICK f : f = [refusals[r] EXCEPT !.by = refusals[r].by \union {i}]
  OBVIOUS
<1>1. /\ use[r].at = "calling" /\ use' = [use EXCEPT ![r] = u] /\ turn' = turn
      /\ refusals' = [refusals EXCEPT ![r] = f]
  BY <1>u, <1>f, <1>v DEF KeyRefuses, Calling
<1>2. /\ use = [q \in Uses |-> use[q]] /\ refusals = [q \in Uses |-> refusals[q]]
      /\ turn \in Members /\ PoolFor(r)
  BY DEF PoolInv, PoolFor
<1>3. /\ left \in Seq(Members) /\ left # << >> /\ UseShape(use[r])
      /\ Tried(refusals[r].by, refusals[r].live, left)
      /\ refusals[r] = [by |-> refusals[r].by, live |-> refusals[r].live]
      /\ refusals[r].by \subseteq Members /\ refusals[r].live \subseteq Members
  BY <1>1, <1>2 DEF PoolFor
<1>4. /\ UseShape(u) /\ u.left = Tail(left) /\ u.at = AfterRefusal(r)
  <2>1. UseShape(v)
    BY <1>v, <1>3
  <2>2. u = [at |-> a, left |-> tl, stream |-> v.stream, begun |-> v.begun]
    BY <1>u, <2>1 DEF UseShape
  <2>3. UseShape(u) /\ u.left = tl /\ u.at = a
    BY <2>2 DEF UseShape
  <2> QED
    BY <1>v, <2>3
<1>5. /\ f = [by |-> f.by, live |-> f.live] /\ f.by = refusals[r].by \union {i}
      /\ f.live = refusals[r].live
  BY <1>f, <1>3, RefusedBy
<1>6. AfterRefusal(r) = IF Len(left) = 1 THEN "refused" ELSE "calling"
  BY DEF AfterRefusal
<1> HIDE DEF left
<1>7. /\ i = left[1] /\ i \in Members /\ Tail(left) \in Seq(Members) /\ Len(left) \in Nat \ {0}
      /\ Len(Tail(left)) = Len(left) - 1 /\ DOMAIN left = 1..Len(left)
      /\ DOMAIN Tail(left) = 1..(Len(left) - 1)
      /\ \A j \in 1..(Len(left) - 1) : Tail(left)[j] = left[j + 1]
  BY <1>3
<1> HIDE DEF i
<1>8. ASSUME NEW m, IsIn(m, left) PROVE m = i \/ IsIn(m, Tail(left))
  <2>1. PICK j \in 1..Len(left) : left[j] = m
    BY <1>7, <1>8 DEF IsIn
  <2>2. CASE j = 1
    BY <1>7, <2>1, <2>2
  <2>3. CASE j # 1
    <3>1. j - 1 \in 1..(Len(left) - 1) /\ (j - 1) + 1 = j
      BY <1>7, <2>3
    <3> QED
      BY <1>7, <2>1, <3>1 DEF IsIn
  <2> QED
    BY <2>2, <2>3
<1>9. Tried(f.by, f.live, Tail(left))
  BY <1>3, <1>5, <1>8 DEF Tried
<1>10. CASE Len(left) = 1
  <2>1. Tail(left) = << >>
    BY <1>7, <1>10
  <2>2. u.at = "refused" /\ Tried(f.by, f.live, << >>)
    BY <1>4, <1>6, <1>9, <1>10, <2>1
  <2> QED
    <3>1. /\ use' = [q \in Uses |-> use'[q]] /\ use'[r] = u
          /\ \A q \in Uses : q # r => use'[q] = use[q]
      BY <1>1, <1>2
    <3>2. /\ refusals' = [q \in Uses |-> refusals'[q]] /\ refusals'[r] = f
          /\ \A q \in Uses : q # r => refusals'[q] = refusals[q]
      BY <1>1, <1>2
    <3>3. PoolFor(r)'
      BY <1>3, <1>4, <1>5, <1>7, <2>2, <3>1, <3>2 DEF PoolFor
    <3> QED
      BY <1>1, <1>2, <3>1, <3>2, <3>3, OneUse
<1>11. CASE Len(left) # 1
  <2>1. Tail(left) # << >>
    <3>1. Len(<< >>) = 0 /\ Len(left) - 1 # 0
      BY <1>7, <1>11
    <3> QED
      BY <1>7, <3>1
  <2>2. u.at = "calling"
    BY <1>4, <1>6, <1>11
  <2> QED
    <3>1. /\ use' = [q \in Uses |-> use'[q]] /\ use'[r] = u
          /\ \A q \in Uses : q # r => use'[q] = use[q]
      BY <1>1, <1>2
    <3>2. /\ refusals' = [q \in Uses |-> refusals'[q]] /\ refusals'[r] = f
          /\ \A q \in Uses : q # r => refusals'[q] = refusals[q]
      BY <1>1, <1>2
    <3>3. PoolFor(r)'
      BY <1>3, <1>4, <1>5, <1>7, <1>9, <2>1, <2>2, <3>1, <3>2 DEF PoolFor
    <3> QED
      BY <1>1, <1>2, <3>1, <3>2, <3>3, OneUse
<1> QED
  BY <1>10, <1>11

LEMMA PoolStep == PoolInv /\ [PoolNext]_poolVars => PoolInv'
<1> SUFFICES ASSUME PoolInv, [PoolNext]_poolVars PROVE PoolInv'
  OBVIOUS
<1>1. CASE PoolTick \/ UNCHANGED poolVars
  BY <1>1 DEF PoolTick, poolVars, PoolInv, PoolFor
<1>2. \A r \in Uses : UseShape(use[r])
  BY DEF PoolInv, PoolFor
<1>3. ASSUME NEW r \in Uses, FirstChunk(r) PROVE PoolInv'
  <2>0. PICK u : u = [use[r] EXCEPT !.begun = TRUE]
    OBVIOUS
  <2>1. /\ use[r].at = "calling" /\ refusals' = refusals /\ turn' = turn
        /\ use' = [use EXCEPT ![r] = u]
    BY <2>0, <1>3 DEF FirstChunk, Calling
  <2>2. UseShape(u) /\ u.at = use[r].at /\ u.left = use[r].left
    BY <1>2, <2>0, UseBegun
  <2> QED
    BY <2>1, <2>2, SameRefusals
<1>4. ASSUME NEW r \in Uses, KeyAnswers(r) PROVE PoolInv'
  <2>0. PICK u : u = [use[r] EXCEPT !.at = "answered"]
    OBVIOUS
  <2>1. /\ use[r].at = "calling" /\ refusals' = refusals /\ turn' = turn
        /\ use' = [use EXCEPT ![r] = u]
    BY <2>0, <1>4 DEF KeyAnswers, Calling
  <2>2. UseShape(u) /\ u.at = "answered"
    BY <1>2, <2>0, UseAt
  <2> QED
    BY <2>1, <2>2, SameRefusals
<1>5. ASSUME NEW r \in Uses, RaiseUnchanged(r) PROVE PoolInv'
  <2>0. PICK u : u = [use[r] EXCEPT !.at = "raised"]
    OBVIOUS
  <2>1. /\ use[r].at = "calling" /\ refusals' = refusals /\ turn' = turn
        /\ use' = [use EXCEPT ![r] = u]
    BY <2>0, <1>5 DEF RaiseUnchanged, Calling
  <2>2. UseShape(u) /\ u.at = "raised"
    BY <1>2, <2>0, UseAt
  <2> QED
    BY <2>1, <2>2, SameRefusals
<1> QED
  BY <1>1, <1>3, <1>4, <1>5, KeyRefusesOK, UsePoolOK DEF PoolNext

\* A pool gives up on a request only when every key that could have served it
\* has refused it.
LEMMA PoolTriesAllAlways == PoolSpec => []PoolTriesAll
BY PoolHolds, PoolStart, PoolStep, PTL DEF PoolSpec

-----------------------------------------------------------------------------
\* The keys that are kept are the keys in use, whatever handlers run at one time,
\* and a pool gives a request up only when none of its keys is left to try.
THEOREM KeysAlways == KeysSpec /\ PoolSpec => []KeysSound
BY ReloadConvergesAlways, PoolTriesAllAlways, PTL DEF KeysSound

-----------------------------------------------------------------------------
\* What classify() makes of an exception, and what a retry may do about it.

\* The least member of a set is its minimum.
LEMMA LeastIs ==
    ASSUME NEW S \in SUBSET Int, NEW x \in S, \A y \in S : x <= y
    PROVE  Min(S) = x
<1>1. \A z \in S : (\A y \in S : z <= y) => z = x
  OBVIOUS
<1> QED
  BY <1>1 DEF Min

\* The words of a message, in the order they are looked for.
LEMMA WordsAre ==
    /\ DOMAIN WordKinds = 1..5
    /\ WordKinds[1][1] = "overloaded" /\ WordKinds[1][2] = "overloaded"
    /\ WordKinds[2][1] = "quota" /\ WordKinds[2][2] = "quota"
    /\ WordKinds[3][1] = "rate limit" /\ WordKinds[3][2] = "rate_limit"
    /\ WordKinds[4][1] = "timed out" /\ WordKinds[4][2] = "timeout"
    /\ WordKinds[5][1] = "connection" /\ WordKinds[5][2] = "connection"
BY DEF WordKinds

LEMMA KindByWordsOK ==
    ASSUME NEW e, e.words \subseteq Words
    PROVE  /\ KindByWords(e) \in ErrorKind
           /\ KindByWords(e) \in RETRYABLE
                <=> "overloaded" \in e.words \/ (e.words # {} /\ "quota" \notin e.words)
<1>1. PICK F : F = {i \in DOMAIN WordKinds : WordKinds[i][1] \in e.words}
  OBVIOUS
<1>2. KindByWords(e) = IF F = {} THEN "unknown" ELSE WordKinds[Min(F)][2]
  BY <1>1 DEF KindByWords
<1>0. PICK W : W = WordKinds /\ DOMAIN W = 1..5
  BY WordsAre
<1>10. F = {i \in 1..5 : W[i][1] \in e.words}
  BY <1>0, <1>1
<1>3. F \in SUBSET Int /\ \A i \in F : i \in 1..5
  BY <1>10
<1>4. /\ 1 \in F <=> "overloaded" \in e.words
      /\ 2 \in F <=> "quota" \in e.words
      /\ 3 \in F <=> "rate limit" \in e.words
      /\ 4 \in F <=> "timed out" \in e.words
      /\ 5 \in F <=> "connection" \in e.words
  <2>1. W[1][1] = "overloaded" /\ W[2][1] = "quota" /\ W[3][1] = "rate limit"
        /\ W[4][1] = "timed out" /\ W[5][1] = "connection"
    BY <1>0, WordsAre
  <2>2. \A i \in 1..5 : i \in F <=> W[i][1] \in e.words
    BY <1>10
  <2>3. /\ 1 \in F <=> W[1][1] \in e.words
        /\ 2 \in F <=> W[2][1] \in e.words
        /\ 3 \in F <=> W[3][1] \in e.words
        /\ 4 \in F <=> W[4][1] \in e.words
        /\ 5 \in F <=> W[5][1] \in e.words
    <3>1. 1 \in 1..5 /\ 2 \in 1..5 /\ 3 \in 1..5 /\ 4 \in 1..5 /\ 5 \in 1..5
      OBVIOUS
    <3> QED
      BY <2>2, <3>1
  <2> QED
    BY <2>1, <2>3, Zenon
<1>5. CASE F = {}
  <2>1. e.words = {}
    BY <1>4, <1>5 DEF Words
  <2> QED
    BY <1>2, <1>5, <2>1 DEF ErrorKind, RETRYABLE
<1>6. CASE F # {}
  <2>1. e.words # {}
    BY <1>1, <1>6
  <2>2. KindByWords(e) = WordKinds[Min(F)][2]
    BY <1>2, <1>6
  <2>3. CASE 1 \in F
    <3>1. Min(F) = 1
      BY <1>3, <2>3, LeastIs
    <3> QED
      BY <1>4, <2>2, <2>3, <3>1, WordsAre DEF ErrorKind, RETRYABLE
  <2>4. CASE 1 \notin F /\ 2 \in F
    <3>1. \A i \in F : 2 <= i
      BY <1>3, <2>4
    <3>2. Min(F) = 2
      BY <1>3, <2>4, <3>1, LeastIs
    <3> QED
      BY <1>4, <2>2, <2>4, <3>2, WordsAre DEF ErrorKind, RETRYABLE
  <2>5. CASE 1 \notin F /\ 2 \notin F /\ 3 \in F
    <3>1. \A i \in F : 3 <= i
      BY <1>3, <2>5
    <3>2. Min(F) = 3
      BY <1>3, <2>5, <3>1, LeastIs
    <3> QED
      BY <1>4, <2>1, <2>2, <2>5, <3>2, WordsAre DEF ErrorKind, RETRYABLE
  <2>6. CASE 1 \notin F /\ 2 \notin F /\ 3 \notin F /\ 4 \in F
    <3>1. \A i \in F : 4 <= i
      BY <1>3, <2>6
    <3>2. Min(F) = 4
      BY <1>3, <2>6, <3>1, LeastIs
    <3> QED
      BY <1>4, <2>1, <2>2, <2>6, <3>2, WordsAre DEF ErrorKind, RETRYABLE
  <2>7. CASE 1 \notin F /\ 2 \notin F /\ 3 \notin F /\ 4 \notin F
    <3>1. \A i \in F : 5 <= i
      BY <1>3, <2>7
    <3>2. 5 \in F
      <4>1. PICK i \in F : i \in 1..5
        BY <1>3, <1>6
      <4> QED
        BY <2>7, <4>1
    <3>3. Min(F) = 5
      BY <1>3, <3>1, <3>2, LeastIs
    <3> QED
      BY <1>4, <2>1, <2>2, <2>7, <3>3, WordsAre DEF ErrorKind, RETRYABLE
  <2> QED
    BY <2>3, <2>4, <2>5, <2>6, <2>7
<1> QED
  BY <1>5, <1>6

\* The kind of an error that carries a status
LEMMA KindByStatusOK ==
    ASSUME NEW e, NEW s \in 100..599
    PROVE  /\ KindByStatus(e, s) \in ErrorKind
           /\ KindByStatus(e, s) \in RETRYABLE
                <=> (s = 429 /\ "quota" \notin e.words) \/ s = 408 \/ s \in 500..599
<1> DEFINE k == KindByStatus(e, s)
<1>1. CASE s = 429
  <2>1. k = IF "quota" \in e.words THEN "quota" ELSE "rate_limit"
    BY <1>1 DEF KindByStatus
  <2> QED
    BY <1>1, <2>1 DEF ErrorKind, RETRYABLE
<1>2. CASE s = 402
  <2>1. k = "quota"
    BY <1>2 DEF KindByStatus
  <2> QED
    BY <1>2, <2>1 DEF ErrorKind, RETRYABLE
<1>3. CASE s \in {503, 529}
  <2>1. k = "overloaded"
    BY <1>3 DEF KindByStatus
  <2> QED
    BY <1>3, <2>1 DEF ErrorKind, RETRYABLE
<1>4. CASE s = 408
  <2>1. k = "timeout"
    BY <1>4 DEF KindByStatus
  <2> QED
    BY <1>4, <2>1 DEF ErrorKind, RETRYABLE
<1>5. CASE s >= 500 /\ s \notin {503, 529}
  <2>1. k = "server_error"
    BY <1>5 DEF KindByStatus
  <2> QED
    BY <1>5, <2>1 DEF ErrorKind, RETRYABLE
<1>6. CASE s \in {401, 403}
  <2>1. k = "auth"
    BY <1>6 DEF KindByStatus
  <2> QED
    BY <1>6, <2>1 DEF ErrorKind, RETRYABLE
<1>7. CASE s \in 400..499 /\ s \notin {401, 402, 403, 408, 429}
  <2>1. k = "bad_request"
    BY <1>7 DEF KindByStatus
  <2> QED
    BY <1>7, <2>1 DEF ErrorKind, RETRYABLE
<1>8. CASE s < 400
  <2>1. k = "unknown"
    BY <1>8 DEF KindByStatus
  <2> QED
    BY <1>8, <2>1 DEF ErrorKind, RETRYABLE
<1> QED
  BY <1>1, <1>2, <1>3, <1>4, <1>5, <1>6, <1>7, <1>8

LEMMA ClassifyOK ==
    ASSUME NEW e, ExceptionOK(e)
    PROVE  /\ Classify(e).kind \in ErrorKind /\ (Classify(e).kind \in RETRYABLE <=> SaysRetry(e))
           /\ Classify(e).status \in Nat /\ Classify(e).after \in Int
<1>1. Classify(e).kind = KindOfError(e) /\ Classify(e).status = StatusOf(e)
  BY DEF Classify
<1>2. /\ e.class \in {"provider", "deadline", "circuit_open", "rate_limit"}
      /\ e.status \in Nat /\ e.type \in {"other", "timeout", "connection"}
      /\ e.words \subseteq Words
      /\ e.asks \subseteq Int /\ \A d, c \in e.asks : d = c
  BY DEF ExceptionOK
<1>3. StatusOf(e) \in Nat /\ (StatusOf(e) # 0 => StatusOf(e) = e.status /\ e.status \in 100..599)
  BY <1>2 DEF StatusOf
<1>4. RetryAfterOf(e) \in Int
  <2>1. CASE e.asks = {}
    BY <2>1 DEF RetryAfterOf
  <2>2. CASE e.asks # {}
    <3>1. PICK d \in Int : e.asks = {d}
      BY <1>2, <2>2
    <3>2. Max({0} \cup e.asks) \in {0, d}
      <4>1. \E x \in {0, d} : \A y \in {0, d} : x >= y
        OBVIOUS
      <4> QED
        BY <3>1, <4>1 DEF Max
    <3> QED
      BY <2>2, <3>2 DEF RetryAfterOf
  <2> QED
    BY <2>1, <2>2
<1>5. Classify(e).after \in Int
  BY <1>4 DEF Classify
<1>6. KindOfError(e) \in ErrorKind /\ (KindOfError(e) \in RETRYABLE <=> SaysRetry(e))
  <2>1. CASE e.class # "provider"
    <3>1. KindOfError(e) = e.class
      BY <2>1 DEF KindOfError
    <3> QED
      BY <1>2, <2>1, <3>1 DEF ErrorKind, RETRYABLE, SaysRetry
  <2>2. CASE e.class = "provider" /\ StatusOf(e) # 0
    <3>1. KindOfError(e) = KindByStatus(e, e.status)
      BY <1>3, <2>2 DEF KindOfError
    <3>2. SaysRetry(e) <=> (e.status = 429 /\ "quota" \notin e.words) \/ e.status = 408 \/ e.status \in 500..599
      BY <2>2 DEF SaysRetry
    <3> QED
      BY <1>3, <2>2, <3>1, <3>2, KindByStatusOK
  <2>3. CASE e.class = "provider" /\ StatusOf(e) = 0 /\ e.type # "other"
    <3>1. KindOfError(e) = e.type
      BY <2>3 DEF KindOfError
    <3> QED
      BY <1>2, <2>3, <3>1 DEF ErrorKind, RETRYABLE, SaysRetry
  <2>4. CASE e.class = "provider" /\ StatusOf(e) = 0 /\ e.type = "other"
    <3>1. KindOfError(e) = KindByWords(e)
      BY <2>4 DEF KindOfError
    <3>2. SaysRetry(e) <=> "overloaded" \in e.words \/ (e.words # {} /\ "quota" \notin e.words)
      BY <2>4 DEF SaysRetry
    <3> QED
      BY <1>2, <3>1, <3>2, KindByWordsOK
  <2> QED
    BY <2>1, <2>2, <2>3, <2>4
<1> QED
  BY <1>1, <1>3, <1>5, <1>6

-----------------------------------------------------------------------------
\* The executions.

ExecutionPlaces == {"idle", "calling", "sleeping", "done", "failed"}
Attempts == [at : ExecutionPlaces, n : Nat, until : Int, end : Int, asked : Int]

AttemptOK(a, now) ==
    /\ a \in Attempts /\ a.n <= MaxAttempts
    /\ a.at = "idle" => a.n = 0
    /\ a.at # "idle" => a.n > 0
    /\ a.at = "sleeping" => a.n < MaxAttempts /\ a.asked <= a.until /\ (a.end = -1 \/ a.until < a.end)
    /\ a.at = "calling" /\ a.n > 1 => now >= a.asked

Repeated == [x \in Executions |-> Repeats(attempts[x])]
Failed == {x \in Executions : attempts[x].at = "failed"}

\* A counter whose units can be counted
TallyOK(f) ==
    /\ f = [x \in DOMAIN f |-> f[x]] /\ \A x \in DOMAIN f : f[x] \in Nat
    /\ IsFiniteSet(Columns(DOMAIN f, f))

RetryInv ==
    /\ retryNow \in Nat
    /\ attempts = [x \in Executions |-> attempts[x]]
    /\ \A x \in Executions : AttemptOK(attempts[x], retryNow)
    /\ TallyOK(retried) /\ DOMAIN retried = RETRYABLE
    /\ TallyOK(byStatus) /\ TallyOK(Repeated)
    /\ TotalOf(retried) = TotalOf(Repeated) /\ TotalOf(byStatus) <= TotalOf(retried)
    /\ IsFiniteSet(Failed) /\ failures = Cardinality(Failed)

LEMMA TotalOfIs == ASSUME NEW f PROVE TotalOf(f) = Cardinality(Columns(DOMAIN f, f))
BY DEF TotalOf, Columns, Column

LEMMA TotalOfNat == ASSUME NEW f, TallyOK(f) PROVE TotalOf(f) \in Nat
BY TotalOfIs, FS_CardinalityType DEF TallyOK

\* One label of a counter goes up.
Raised(f, g, x, c) ==
    /\ g = [y \in DOMAIN g |-> g[y]] /\ x \in DOMAIN g
    /\ DOMAIN f = DOMAIN g \/ DOMAIN f = DOMAIN g \ {x}
    /\ g[x] = (IF x \in DOMAIN f THEN f[x] ELSE 0) + c
    /\ \A y \in DOMAIN f : y # x => g[y] = f[y]

LEMMA TallyMoves ==
    ASSUME NEW f, NEW g, NEW x, NEW c \in Nat, TallyOK(f), Raised(f, g, x, c)
    PROVE  TallyOK(g) /\ TotalOf(g) = TotalOf(f) + c
<1>0. /\ g = [y \in DOMAIN g |-> g[y]] /\ x \in DOMAIN g
      /\ DOMAIN f = DOMAIN g \/ DOMAIN f = DOMAIN g \ {x}
      /\ g[x] = (IF x \in DOMAIN f THEN f[x] ELSE 0) + c
      /\ \A y \in DOMAIN f : y # x => g[y] = f[y]
  BY DEF Raised
<1>1. PICK m \in Nat : m = (IF x \in DOMAIN f THEN f[x] ELSE 0)
  BY DEF TallyOK
<1>2. PICK n \in Nat : n = m + c
  OBVIOUS
<1>3. n = (IF x \in DOMAIN g THEN g[x] ELSE 0) /\ g[x] = n
  BY <1>0, <1>1, <1>2
<1>4. Beside(x, DOMAIN f, DOMAIN g, f, g)
  BY <1>0 DEF Beside
<1>5. /\ IsFiniteSet(Columns(DOMAIN g, g)) /\ Cardinality(Columns(DOMAIN f, f)) \in Nat
      /\ Cardinality(Columns(DOMAIN g, g)) = Cardinality(Columns(DOMAIN f, f)) - m + n
  BY <1>1, <1>3, <1>4, ColumnMoves DEF TallyOK
<1>6. \A y \in DOMAIN g : g[y] \in Nat
  <2>1. \A y \in DOMAIN f : f[y] \in Nat
    BY DEF TallyOK
  <2> QED
    BY <1>0, <1>3, <2>1
<1>7. TallyOK(g)
  BY <1>0, <1>5, <1>6 DEF TallyOK
<1>8. PICK u \in Nat : u = Cardinality(Columns(DOMAIN f, f))
  BY <1>5
<1>9. Cardinality(Columns(DOMAIN g, g)) = u + c
  BY <1>2, <1>5, <1>8
<1> QED
  BY <1>7, <1>8, <1>9, TotalOfIs

LEMMA RetryHolds == RetryInv => RetrySound
<1> SUFFICES ASSUME RetryInv PROVE RetrySound
  OBVIOUS
<1>1. ClassifiedAsDocumented
  <2> SUFFICES ASSUME NEW e \in Exceptions
               PROVE  /\ Classify(e).kind \in ErrorKind
                      /\ Classify(e).kind \in RETRYABLE <=> SaysRetry(e)
                      /\ Classify(e).kind \in RETRYABLE => Classify(e).kind \in FAILOVER \cap BREAKER_COUNTED
    BY DEF ClassifiedAsDocumented
  <2>1. ExceptionOK(e)
    BY RetryingAssumption
  <2> QED
    BY <2>1, ClassifyOK DEF FAILOVER, BREAKER_COUNTED
<1>2. TotalOf(retried) = TotalOf([x \in Executions |-> Repeats(attempts[x])]) /\ TotalOf(byStatus) <= TotalOf(retried)
  BY DEF RetryInv, Repeated
<1>3. failures = Cardinality({x \in Executions : attempts[x].at = "failed"})
  BY DEF RetryInv, Failed
<1>4. ASSUME NEW x \in Executions
      PROVE  LET a == attempts[x]
             IN  /\ a.n <= MaxAttempts
                 /\ a.at = "sleeping" => a.end = -1 \/ a.until < a.end
                 /\ a.at = "calling" /\ a.n > 1 => retryNow >= a.asked
  BY <1>4 DEF RetryInv, AttemptOK
<1> QED
  BY <1>1, <1>2, <1>3, <1>4 DEF RetrySound, RetriesCounted

LEMMA RetryStart == RetryingInit => RetryInv
<1> SUFFICES ASSUME RetryingInit PROVE RetryInv
  OBVIOUS
<1>1. /\ retryNow = 0 /\ attempts = [x \in Executions |-> NoExecution]
      /\ retried = [k \in RETRYABLE |-> 0] /\ byStatus = << >> /\ failures = 0
  BY DEF RetryingInit
<1>2. \A x \in Executions : attempts[x] = NoExecution
  BY <1>1
<1>3. AttemptOK(NoExecution, retryNow)
  BY RetryingAssumption DEF NoExecution, AttemptOK, Attempts, ExecutionPlaces
<1>4. Repeats(NoExecution) = 0
  BY DEF Repeats, NoExecution
<1>5. ASSUME NEW f, NEW D, f = [x \in D |-> 0] PROVE TallyOK(f) /\ TotalOf(f) = 0
  <2>1. DOMAIN f = D /\ \A x \in D : f[x] = 0
    BY <1>5
  <2>2. \A x \in D : Column(x, f[x]) = {}
    BY <2>1 DEF Column
  <2>3. Columns(DOMAIN f, f) = {}
    BY <2>1, <2>2 DEF Columns
  <2> QED
    BY <1>5, <2>1, <2>3, FS_EmptySet, TotalOfIs DEF TallyOK
<1>6. byStatus = [x \in {} |-> 0]
  <2>1. DOMAIN byStatus = {}
    BY <1>1
  <2> QED
    BY <1>1, <2>1
<1>7. Repeated = [x \in Executions |-> 0]
  BY <1>2, <1>4 DEF Repeated
<1>8. Failed = {}
  BY <1>2 DEF Failed, NoExecution
<1>9. /\ TallyOK(retried) /\ TotalOf(retried) = 0 /\ TallyOK(byStatus) /\ TotalOf(byStatus) = 0
      /\ TallyOK(Repeated) /\ TotalOf(Repeated) = 0
  BY <1>1, <1>5, <1>6, <1>7
<1> QED
  BY <1>1, <1>2, <1>3, <1>8, <1>9, FS_EmptySet DEF RetryInv

\* What a step of one execution keeps, that repeats it c times more and counts this as often.
LEMMA OneExecution ==
    ASSUME RetryInv, NEW x \in Executions, NEW nx, attempts' = [attempts EXCEPT ![x] = nx],
           retryNow' = retryNow, AttemptOK(nx, retryNow),
           NEW c \in Nat, Repeats(nx) = Repeats(attempts[x]) + c,
           TallyOK(retried') /\ DOMAIN retried' = RETRYABLE /\ TotalOf(retried') = TotalOf(retried) + c,
           TallyOK(byStatus') /\ TotalOf(byStatus') <= TotalOf(byStatus) + c,
           \/ nx.at # "failed" /\ attempts[x].at # "failed" /\ failures' = failures
           \/ nx.at = "failed" /\ attempts[x].at # "failed" /\ failures' = failures + 1
    PROVE  RetryInv'
<1>1. /\ attempts = [y \in Executions |-> attempts[y]] /\ retryNow \in Nat
      /\ \A y \in Executions : AttemptOK(attempts[y], retryNow)
      /\ TallyOK(retried) /\ TallyOK(byStatus) /\ TallyOK(Repeated)
      /\ TotalOf(retried) = TotalOf(Repeated) /\ TotalOf(byStatus) <= TotalOf(retried)
      /\ IsFiniteSet(Failed) /\ failures = Cardinality(Failed)
  BY DEF RetryInv
<1>2. /\ attempts' = [y \in Executions |-> attempts'[y]] /\ attempts'[x] = nx
      /\ \A y \in Executions : y # x => attempts'[y] = attempts[y]
  BY <1>1
<1>3. \A y \in Executions : AttemptOK(attempts'[y], retryNow')
  BY <1>1, <1>2
<1>4. PICK f : f = Repeated
  OBVIOUS
<1>5. PICK g : g = Repeated'
  OBVIOUS
<1>6. /\ DOMAIN f = Executions /\ DOMAIN g = Executions /\ g = [y \in DOMAIN g |-> g[y]]
      /\ f[x] = Repeats(attempts[x]) /\ g[x] = Repeats(nx)
      /\ \A y \in Executions : y # x => g[y] = f[y]
  <2>1. f = [y \in Executions |-> Repeats(attempts[y])]
    BY <1>4 DEF Repeated
  <2>2. g = [y \in Executions |-> Repeats(attempts'[y])]
    BY <1>5 DEF Repeated
  <2> QED
    BY <1>2, <2>1, <2>2
<1>7. TallyOK(g) /\ TotalOf(g) = TotalOf(f) + c
  <2>1. TallyOK(f)
    BY <1>1, <1>4
  <2>2. g[x] = (IF x \in DOMAIN f THEN f[x] ELSE 0) + c
    BY <1>6
  <2>3. Raised(f, g, x, c)
    BY <1>6, <2>2 DEF Raised
  <2> QED
    BY <2>1, <2>3, TallyMoves
<1>8. TotalOf(retried') = TotalOf(g) /\ TotalOf(byStatus') <= TotalOf(retried')
  <2>1. TotalOf(retried) \in Nat /\ TotalOf(byStatus) \in Nat /\ TotalOf(f) \in Nat /\ TotalOf(byStatus') \in Nat
    BY <1>1, <1>4, TotalOfNat
  <2> QED
    BY <1>1, <1>4, <1>7, <2>1
<1>9. IsFiniteSet(Failed') /\ failures' = Cardinality(Failed')
  <2>1. CASE nx.at # "failed" /\ attempts[x].at # "failed" /\ failures' = failures
    <3>1. Failed' = Failed
      BY <1>2, <2>1 DEF Failed
    <3> QED
      BY <1>1, <2>1, <3>1
  <2>2. CASE nx.at = "failed" /\ attempts[x].at # "failed" /\ failures' = failures + 1
    <3>1. Failed' = Failed \cup {x} /\ x \notin Failed
      BY <1>2, <2>2 DEF Failed
    <3>2. IsFiniteSet(Failed \cup {x}) /\ Cardinality(Failed \cup {x}) = Cardinality(Failed) + 1
      BY <1>1, <3>1, FS_AddElement
    <3> QED
      BY <1>1, <2>2, <3>1, <3>2
  <2> QED
    BY <2>1, <2>2
<1> QED
  BY <1>1, <1>2, <1>3, <1>5, <1>7, <1>8, <1>9 DEF RetryInv

\* The same, when nothing is counted.
LEMMA QuietExecution ==
    ASSUME RetryInv, NEW x \in Executions, NEW nx, attempts' = [attempts EXCEPT ![x] = nx],
           AttemptOK(nx, retryNow), Repeats(nx) = Repeats(attempts[x]),
           UNCHANGED <<retryNow, retried, byStatus>>,
           \/ nx.at # "failed" /\ attempts[x].at # "failed" /\ failures' = failures
           \/ nx.at = "failed" /\ attempts[x].at # "failed" /\ failures' = failures + 1
    PROVE  RetryInv'
<1>1. PICK c \in Nat : c = 0
  OBVIOUS
<1>2. retryNow' = retryNow /\ retried' = retried /\ byStatus' = byStatus
  OBVIOUS
<1>3. AttemptOK(attempts[x], retryNow) /\ TallyOK(retried) /\ DOMAIN retried = RETRYABLE /\ TallyOK(byStatus)
  BY DEF RetryInv
<1>4. Repeats(attempts[x]) \in Nat
  BY <1>3 DEF AttemptOK, Attempts, Repeats
<1>5. Repeats(nx) = Repeats(attempts[x]) + c
  BY <1>1, <1>4
<1>6. TotalOf(retried) \in Nat /\ TotalOf(byStatus) \in Nat
  BY <1>3, TotalOfNat
<1>7. TallyOK(retried') /\ DOMAIN retried' = RETRYABLE /\ TotalOf(retried') = TotalOf(retried) + c
  BY <1>1, <1>2, <1>3, <1>6
<1>8. TallyOK(byStatus') /\ TotalOf(byStatus') <= TotalOf(byStatus) + c
  BY <1>1, <1>2, <1>3, <1>6
<1> QED
  BY <1>2, <1>5, <1>7, <1>8, OneExecution

\* One more retry is counted under its kind, and its status if it has one.
LEMMA CountedRetryOK ==
    ASSUME RetryInv, NEW info, info.kind \in RETRYABLE, info.status \in Nat, CountedRetry(info)
    PROVE  /\ TallyOK(retried') /\ DOMAIN retried' = RETRYABLE /\ TotalOf(retried') = TotalOf(retried) + 1
           /\ TallyOK(byStatus') /\ TotalOf(byStatus') <= TotalOf(byStatus) + 1
<1>1. TallyOK(retried) /\ DOMAIN retried = RETRYABLE /\ TallyOK(byStatus)
  BY DEF RetryInv
<1>2. TotalOf(retried) \in Nat /\ TotalOf(byStatus) \in Nat
  BY <1>1, TotalOfNat
<1>3. TallyOK(retried') /\ DOMAIN retried' = RETRYABLE /\ TotalOf(retried') = TotalOf(retried) + 1
  <2>1. PICK k \in RETRYABLE : k = info.kind
    OBVIOUS
  <2>2. PICK g : g = [retried EXCEPT ![k] = @ + 1] /\ g = retried'
    BY <2>1 DEF CountedRetry
  <2>3. /\ DOMAIN g = RETRYABLE /\ g = [y \in DOMAIN g |-> g[y]] /\ g[k] = retried[k] + 1
        /\ \A y \in DOMAIN retried : y # k => g[y] = retried[y]
    <3>1. retried = [y \in RETRYABLE |-> retried[y]]
      BY <1>1 DEF TallyOK
    <3> QED
      BY <2>2, <3>1
  <2>4. g[k] = (IF k \in DOMAIN retried THEN retried[k] ELSE 0) + 1
    BY <1>1, <2>3
  <2>5. k \in DOMAIN g /\ DOMAIN retried = DOMAIN g
    BY <1>1, <2>3
  <2>6. TallyOK(g) /\ TotalOf(g) = TotalOf(retried) + 1
    <3>1. Raised(retried, g, k, 1)
      BY <2>3, <2>4, <2>5 DEF Raised
    <3> QED
      BY <1>1, <3>1, TallyMoves
  <2> QED
    BY <2>2, <2>3, <2>6
<1>4. TallyOK(byStatus') /\ TotalOf(byStatus') <= TotalOf(byStatus) + 1
  <2>1. CASE info.status = 0
    <3>1. byStatus' = byStatus
      BY <2>1 DEF CountedRetry
    <3> QED
      BY <1>1, <1>2, <3>1
  <2>2. CASE info.status # 0
    <3>1. PICK k : k = info.status
      OBVIOUS
    <3>2. PICK f : f = byStatus
      OBVIOUS
    <3>3. PICK g : g = byStatus' /\ g = [s \in DOMAIN f \cup {k} |->
                     (IF s \in DOMAIN f THEN f[s] ELSE 0) + (IF s = k THEN 1 ELSE 0)]
      BY <2>2, <3>1, <3>2 DEF CountedRetry
    <3>4. \A s \in DOMAIN f : f[s] \in Nat
      BY <1>1, <3>2 DEF TallyOK
    <3>5. DOMAIN g = DOMAIN f \cup {k} /\ g = [y \in DOMAIN g |-> g[y]]
      BY <3>3
    <3>6. g[k] = (IF k \in DOMAIN f THEN f[k] ELSE 0) + 1
      BY <3>3
    <3>7. \A s \in DOMAIN f : s # k => g[s] = f[s]
      <4> SUFFICES ASSUME NEW s \in DOMAIN f, s # k PROVE g[s] = f[s]
        OBVIOUS
      <4>1. g[s] = f[s] + 0
        BY <3>3
      <4> QED
        BY <3>4, <4>1
    <3>8. k \in DOMAIN g /\ (DOMAIN f = DOMAIN g \/ DOMAIN f = DOMAIN g \ {k})
      BY <3>5
    <3>9. TallyOK(g) /\ TotalOf(g) = TotalOf(f) + 1
      <4>1. Raised(f, g, k, 1)
        BY <3>5, <3>6, <3>7, <3>8 DEF Raised
      <4> QED
        BY <1>1, <3>2, <4>1, TallyMoves
    <3> QED
      BY <1>2, <3>2, <3>3, <3>9
  <2> QED
    BY <2>1, <2>2
<1> QED
  BY <1>3, <1>4

\* The fields of an execution
AttemptIs(a) ==
    /\ a = [at |-> a.at, n |-> a.n, until |-> a.until, end |-> a.end, asked |-> a.asked]
    /\ a.n \in Nat /\ a.until \in Int /\ a.end \in Int /\ a.asked \in Int

LEMMA AttemptsAre == ASSUME NEW a \in Attempts PROVE AttemptIs(a)
BY DEF Attempts, AttemptIs

LEMMA RetryStep == RetryInv /\ [RetryingNext]_retryVars => RetryInv'
<1> SUFFICES ASSUME RetryInv, [RetryingNext]_retryVars PROVE RetryInv'
  OBVIOUS
<1>0. ASSUME NEW x \in Executions PROVE AttemptIs(attempts[x]) /\ AttemptOK(attempts[x], retryNow)
  <2>1. AttemptOK(attempts[x], retryNow)
    BY DEF RetryInv
  <2>2. attempts[x] \in Attempts
    BY <2>1 DEF AttemptOK
  <2>3. AttemptIs(attempts[x])
    BY <2>2, AttemptsAre
  <2> QED
    BY <2>1, <2>3
<1>now. retryNow \in Nat /\ MaxAttempts \in Nat
  BY RetryingAssumption DEF RetryInv
<1>1. ASSUME NEW x \in Executions, NEW end \in Deadlines, Execute(x, end) PROVE RetryInv'
  <2>1. PICK nx : nx = [at |-> "calling", n |-> 1, until |-> 0, end |-> end, asked |-> 0]
    OBVIOUS
  <2>2. [NoExecution EXCEPT !.at = "calling", !.n = 1, !.end = end] = nx
    <3>1. PICK g : g = [NoExecution EXCEPT !.at = "calling", !.n = 1, !.end = end]
      OBVIOUS
    <3>2. NoExecution \in Attempts
      BY DEF NoExecution, Attempts, ExecutionPlaces
    <3>3. g = [at |-> "calling", n |-> 1, until |-> NoExecution.until, end |-> end, asked |-> NoExecution.asked]
      BY <3>1, <3>2 DEF Attempts
    <3>4. NoExecution.until = 0 /\ NoExecution.asked = 0
      BY DEF NoExecution
    <3> QED
      BY <2>1, <3>1, <3>3, <3>4
  <2>3. /\ attempts[x].at = "idle" /\ attempts' = [attempts EXCEPT ![x] = nx]
        /\ UNCHANGED <<retryNow, retried, byStatus, failures>>
    BY <1>1, <2>2 DEF Execute
  <2>4. end \in Int
    BY RetryingAssumption
  <2>5. AttemptOK(nx, retryNow)
    <3>1. nx \in Attempts
      BY <2>1, <2>4 DEF Attempts, ExecutionPlaces
    <3>2. MaxAttempts >= 1
      BY RetryingAssumption
    <3> QED
      BY <2>1, <3>1, <3>2 DEF AttemptOK
  <2>6. Repeats(nx) = Repeats(attempts[x])
    <3>1. attempts[x].n = 0
      BY <1>0, <2>3 DEF AttemptOK
    <3>2. Repeats(attempts[x]) = 0
      BY <2>3, <3>1 DEF Repeats
    <3> QED
      BY <2>1, <3>2 DEF Repeats
  <2>7. nx.at # "failed" /\ attempts[x].at # "failed" /\ failures' = failures
    BY <2>1, <2>3
  <2> QED
    BY <2>3, <2>5, <2>6, <2>7, QuietExecution
<1>2. ASSUME NEW x \in Executions, ExecutionReturns(x) PROVE RetryInv'
  <2>1. PICK a : a = attempts[x]
    OBVIOUS
  <2>0. AttemptIs(a) /\ AttemptOK(a, retryNow)
    BY <1>0, <2>1
  <2>2. PICK nx : nx = [at |-> "done", n |-> a.n, until |-> a.until, end |-> a.end, asked |-> a.asked]
    OBVIOUS
  <2>3. nx = [a EXCEPT !.at = "done"]
    BY <2>0, <2>2 DEF AttemptIs
  <2>4. /\ a.at = "calling" /\ attempts' = [attempts EXCEPT ![x] = nx]
        /\ UNCHANGED <<retryNow, retried, byStatus, failures>>
    BY <1>2, <2>1, <2>3 DEF ExecutionReturns
  <2>5. AttemptOK(nx, retryNow)
    BY <2>0, <2>2, <2>4 DEF AttemptOK, AttemptIs, Attempts, ExecutionPlaces
  <2>6. Repeats(nx) = Repeats(a)
    BY <2>2, <2>4 DEF Repeats
  <2> QED
    BY <2>1, <2>2, <2>4, <2>5, <2>6, QuietExecution
<1>3. ASSUME NEW x \in Executions, NEW e \in Failures, AttemptRepeats(x, e) PROVE RetryInv'
  <2>1. PICK a : a = attempts[x]
    OBVIOUS
  <2>0. AttemptIs(a) /\ AttemptOK(a, retryNow)
    BY <1>0, <2>1
  <2>2. PICK info : info = Classify(e)
    OBVIOUS
  <2>3. ExceptionOK(e)
    BY RetryingAssumption
  <2>4. info.status \in Nat /\ info.after \in Int
    BY <2>2, <2>3, ClassifyOK
  <2>5. PICK w \in Waits(a.n, info) :
          /\ FitsDeadline(a, w)
          /\ attempts' = [attempts EXCEPT ![x] =
                 [a EXCEPT !.at = "sleeping", !.until = retryNow + w,
                           !.asked = IF info.after > 0 THEN retryNow + info.after ELSE 0]]
    BY <1>3, <2>1, <2>2 DEF AttemptRepeats
  <2>6. /\ a.at = "calling" /\ info.kind \in RETRYABLE /\ a.n < MaxAttempts
        /\ CountedRetry(info) /\ retryNow' = retryNow /\ failures' = failures
    BY <1>3, <2>1, <2>2 DEF AttemptRepeats
  <2>7. w \in Nat /\ (info.after >= 0 => w = info.after)
    BY <2>4, <2>5, RetryingAssumption DEF Waits
  <2>8. PICK u \in Nat : u = retryNow + w
    BY <1>now, <2>7
  <2>9. PICK k \in Nat : k = IF info.after > 0 THEN retryNow + info.after ELSE 0
    BY <1>now, <2>4
  <2>10. PICK nx : nx = [at |-> "sleeping", n |-> a.n, until |-> u, end |-> a.end, asked |-> k]
    OBVIOUS
  <2>11. attempts' = [attempts EXCEPT ![x] = nx]
    <3>1. nx = [a EXCEPT !.at = "sleeping", !.until = u, !.asked = k]
      <4>1. PICK g : g = [a EXCEPT !.at = "sleeping", !.until = u, !.asked = k]
        OBVIOUS
      <4>2. a \in Attempts
        BY <2>0 DEF AttemptOK
      <4>3. g = [at |-> "sleeping", n |-> a.n, until |-> u, end |-> a.end, asked |-> k]
        BY <4>1, <4>2 DEF Attempts
      <4> QED
        BY <2>10, <4>1, <4>3
    <3> QED
      BY <2>5, <2>8, <2>9, <3>1
  <2>12. k <= u
    BY <1>now, <2>4, <2>7, <2>8, <2>9
  <2>13. a.end = -1 \/ u < a.end
    <3>1. PICK r : r = Max({0, a.end - retryNow})
      OBVIOUS
    <3>2. a.end - retryNow \in Int /\ a.end \in Int
      BY <1>now, <2>0 DEF AttemptIs
    <3>3. r \in {0, a.end - retryNow}
      <4>1. \E y \in {0, a.end - retryNow} : \A z \in {0, a.end - retryNow} : y >= z
        BY <3>2
      <4> QED
        BY <3>1, <4>1 DEF Max
    <3>4. a.end = -1 \/ w < r
      BY <2>5, <3>1 DEF FitsDeadline, Remaining
    <3> QED
      BY <1>now, <2>7, <2>8, <3>2, <3>3, <3>4
  <2>14. AttemptOK(nx, retryNow)
    <3>1. a.n \in Nat /\ a.end \in Int /\ a.n > 0
      BY <2>0, <2>6 DEF AttemptOK, AttemptIs
    <3>2. nx \in Attempts
      BY <2>10, <3>1 DEF Attempts, ExecutionPlaces
    <3> QED
      BY <1>now, <2>6, <2>10, <2>12, <2>13, <3>1, <3>2 DEF AttemptOK
  <2>15. Repeats(nx) = Repeats(a) + 1
    <3>1. a.n \in Nat /\ a.n > 0
      BY <2>0, <2>6 DEF AttemptOK, AttemptIs
    <3> QED
      BY <2>6, <2>10, <3>1 DEF Repeats
  <2>16. /\ TallyOK(retried') /\ DOMAIN retried' = RETRYABLE /\ TotalOf(retried') = TotalOf(retried) + 1
         /\ TallyOK(byStatus') /\ TotalOf(byStatus') <= TotalOf(byStatus) + 1
    BY <2>4, <2>6, CountedRetryOK
  <2>17. nx.at # "failed" /\ a.at # "failed" /\ failures' = failures
    BY <2>6, <2>10
  <2>18. PICK c \in Nat : c = 1
    OBVIOUS
  <2>19. Repeats(nx) = Repeats(a) + c
    BY <2>15, <2>18
  <2>20. TallyOK(retried') /\ DOMAIN retried' = RETRYABLE /\ TotalOf(retried') = TotalOf(retried) + c
    BY <2>16, <2>18
  <2>21. TallyOK(byStatus') /\ TotalOf(byStatus') <= TotalOf(byStatus) + c
    BY <2>16, <2>18
  <2> QED
    BY <2>1, <2>6, <2>11, <2>14, <2>17, <2>19, <2>20, <2>21, OneExecution
<1>4. ASSUME NEW x \in Executions, NEW e \in Failures, AttemptRaises(x, e) PROVE RetryInv'
  <2>1. PICK a : a = attempts[x]
    OBVIOUS
  <2>0. AttemptIs(a) /\ AttemptOK(a, retryNow)
    BY <1>0, <2>1
  <2>2. PICK nx : nx = [at |-> "failed", n |-> a.n, until |-> a.until, end |-> a.end, asked |-> a.asked]
    OBVIOUS
  <2>3. nx = [a EXCEPT !.at = "failed"]
    BY <2>0, <2>2 DEF AttemptIs
  <2>4. /\ a.at = "calling" /\ attempts' = [attempts EXCEPT ![x] = nx] /\ failures' = failures + 1
        /\ UNCHANGED <<retryNow, retried, byStatus>>
    BY <1>4, <2>1, <2>3 DEF AttemptRaises
  <2>5. AttemptOK(nx, retryNow)
    BY <2>0, <2>2, <2>4 DEF AttemptOK, AttemptIs, Attempts, ExecutionPlaces
  <2>6. Repeats(nx) = Repeats(a)
    BY <2>2, <2>4 DEF Repeats
  <2>7. nx.at = "failed" /\ a.at # "failed"
    BY <2>2, <2>4
  <2> QED
    BY <2>1, <2>4, <2>5, <2>6, <2>7, QuietExecution
<1>5. ASSUME NEW x \in Executions, WakeUp(x) PROVE RetryInv'
  <2>1. PICK a : a = attempts[x]
    OBVIOUS
  <2>0. AttemptIs(a) /\ AttemptOK(a, retryNow)
    BY <1>0, <2>1
  <2>2. PICK m \in Nat : m = a.n + 1
    BY <2>0 DEF AttemptIs
  <2>3. PICK nx : nx = [at |-> "calling", n |-> m, until |-> a.until, end |-> a.end, asked |-> a.asked]
    OBVIOUS
  <2>4. nx = [a EXCEPT !.at = "calling", !.n = m]
    <3>1. PICK g : g = [a EXCEPT !.at = "calling", !.n = m]
      OBVIOUS
    <3>2. a \in Attempts
      BY <2>0 DEF AttemptOK
    <3>3. g = [at |-> "calling", n |-> m, until |-> a.until, end |-> a.end, asked |-> a.asked]
      BY <3>1, <3>2 DEF Attempts
    <3> QED
      BY <2>3, <3>1, <3>3
  <2>5. /\ a.at = "sleeping" /\ retryNow >= a.until /\ attempts' = [attempts EXCEPT ![x] = nx]
        /\ UNCHANGED <<retryNow, retried, byStatus, failures>>
    BY <1>5, <2>1, <2>2, <2>4 DEF WakeUp
  <2>6. AttemptOK(a, retryNow) /\ a.n \in Nat /\ a.until \in Int /\ a.end \in Int /\ a.asked \in Int
        /\ retryNow \in Nat /\ MaxAttempts \in Nat
    BY <1>now, <2>0 DEF AttemptIs
  <2>7. a.n < MaxAttempts /\ a.asked <= a.until /\ a.n > 0
    BY <2>5, <2>6 DEF AttemptOK
  <2>8. m <= MaxAttempts /\ m > 1 /\ retryNow >= a.asked
    BY <2>2, <2>5, <2>6, <2>7
  <2>9. AttemptOK(nx, retryNow)
    BY <2>3, <2>6, <2>8 DEF AttemptOK, Attempts, ExecutionPlaces
  <2>10. Repeats(nx) = Repeats(a)
    BY <2>2, <2>3, <2>5, <2>6 DEF Repeats
  <2>11. nx.at # "failed" /\ a.at # "failed" /\ failures' = failures
    BY <2>3, <2>5
  <2> QED
    BY <2>1, <2>5, <2>9, <2>10, <2>11, QuietExecution
<1>6. CASE RetryTick
  <2>1. retryNow' = retryNow + 1 /\ UNCHANGED <<attempts, retried, byStatus, failures>> /\ retryNow \in Nat
    BY <1>6 DEF RetryTick, RetryInv
  <2>2. \A x \in Executions : AttemptOK(attempts[x], retryNow')
    <3> SUFFICES ASSUME NEW x \in Executions PROVE AttemptOK(attempts[x], retryNow')
      OBVIOUS
    <3>1. AttemptOK(attempts[x], retryNow) /\ attempts[x].asked \in Int
      BY <1>0 DEF AttemptIs
    <3> QED
      BY <2>1, <3>1 DEF AttemptOK
  <2>3. Repeated' = Repeated /\ Failed' = Failed
    BY <2>1 DEF Repeated, Failed
  <2> QED
    BY <2>1, <2>2, <2>3 DEF RetryInv
<1>7. CASE UNCHANGED retryVars
  <2>1. UNCHANGED <<retryNow, attempts, retried, byStatus, failures>>
    BY <1>7 DEF retryVars
  <2>2. Repeated' = Repeated /\ Failed' = Failed
    BY <2>1 DEF Repeated, Failed
  <2> QED
    BY <2>1, <2>2 DEF RetryInv
<1> QED
  BY <1>1, <1>2, <1>3, <1>4, <1>5, <1>6, <1>7 DEF RetryingNext

\* Every exception is classified as the documentation says, and every execution keeps
\* to its attempts, its deadline and the delay asked for, each retry counted once
\* (classify(), run_with_retry(), RetryManager).
THEOREM RetryAlways == RetryingSpec => []RetrySound
BY RetryStart, RetryStep, RetryHolds, PTL DEF RetryingSpec
=============================================================================
