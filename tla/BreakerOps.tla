----------------------------- MODULE BreakerOps -----------------------------
(***************************************************************************)
(* The per-provider circuit breaker of coreai/circuit_breaker.py as pure   *)
(* operators on a breaker record.  CircuitBreaker.tla is the breaker on    *)
(* its own, with its callers; Routing.tla holds one record per provider.   *)
(*                                                                         *)
(*   state     _state                                                      *)
(*   failures  _failures                                                   *)
(*   age       clock() - _opened_at, saturated at reset_timeout: the code  *)
(*             only ever compares the difference with reset_timeout        *)
(*   probes    _probes_in_flight                                           *)
(*                                                                         *)
(* total_opened, the name and the on_change notification are not modelled: *)
(* nothing in the breaker reads them.                                      *)
(***************************************************************************)
EXTENDS Integers

CONSTANTS
    FailureThreshold,   \* failure_threshold
    ResetTimeout,       \* reset_timeout, in clock ticks
    HalfOpenMaxCalls    \* half_open_max_calls

\* __init__ refuses a threshold below 1; the other two are plain settings
\* that RoutingConfig gives positive values (30.0 s and 1).
ASSUME BreakerAssumption ==
    /\ FailureThreshold \in Nat \ {0}
    /\ ResetTimeout \in Nat \ {0}
    /\ HalfOpenMaxCalls \in Nat \ {0}

CircuitState == {"closed", "open", "half_open"}

Breaker == [state: CircuitState, failures: 0..FailureThreshold,
            age: 0..ResetTimeout, probes: 0..HalfOpenMaxCalls]

NewBreaker == [state |-> "closed", failures |-> 0, age |-> 0, probes |-> 0]

\* The clock advances by one tick.
Older(b) == [b EXCEPT !.age = IF @ < ResetTimeout THEN @ + 1 ELSE @]

\* Mutant: an expired window closes the circuit outright.
ObservedClosing(b) ==
    IF b.state = "open" /\ b.age >= ResetTimeout
    THEN [state |-> "closed", failures |-> 0, age |-> b.age, probes |-> 0]
    ELSE b

\* The `state` property: reading it is what moves OPEN to HALF_OPEN.
Observed(b) ==
    IF b.state = "open" /\ b.age >= ResetTimeout
    THEN [state |-> "half_open", failures |-> b.failures, age |-> b.age,
          probes |-> 0]
    ELSE b

\* would_allow() and the answer of allow(), on a breaker just observed.
Admits(b) ==
    \/ b.state = "closed"
    \/ b.state = "half_open" /\ b.probes < HalfOpenMaxCalls

WouldAllow(b) == Admits(Observed(b))

\* allow(): an admitted call takes a probe slot if the circuit is half open.
Allowed(b) ==
    LET o == Observed(b)
    IN  IF Admits(o) /\ o.state = "half_open"
        THEN [o EXCEPT !.probes = @ + 1]
        ELSE o

\* max(0, _probes_in_flight - 1)
Freed(b) == [b EXCEPT !.probes = IF @ > 0 THEN @ - 1 ELSE 0]

\* Mutant: opening does not reset the probe count.
OpenedKeepingProbes(b) ==
    [state |-> "open", failures |-> b.failures, age |-> 0, probes |-> b.probes]

\* _open(): the window starts now and no probe slot is taken.
Opened(b) ==
    [state |-> "open", failures |-> b.failures, age |-> 0, probes |-> 0]

\* record_success() outside OPEN.
Closed(b) ==
    [state |-> "closed", failures |-> 0, age |-> b.age, probes |-> b.probes]

\* Mutant: the early return for a late success is missing.
RecordSuccessAlways(b) == Closed(Freed(Observed(b)))

RecordSuccess(b) ==
    LET o == Observed(b)
    IN  CASE o.state = "open" -> o
          [] o.state = "half_open" -> Closed(Freed(o))
          [] o.state = "closed" -> Closed(o)

RecordFailure(b) ==
    LET o == Observed(b)
        n == o.failures + 1
    IN  CASE o.state = "open" -> o
          [] o.state = "half_open" -> Opened(Freed(o))
          [] o.state = "closed" ->
                IF n >= FailureThreshold
                THEN Opened([o EXCEPT !.failures = n])
                ELSE [o EXCEPT !.failures = n]

\* Mutant: release() does nothing.
ReleaseNothing(b) == b

\* release() reads _state itself, so it never moves OPEN to HALF_OPEN.
Release(b) == IF b.state = "half_open" THEN Freed(b) ELSE b

\* retry_after(): seconds until a probe may be admitted, None unless open.
NoRetryAfter == -1
RetryAfter(b) == IF b.state = "open" THEN ResetTimeout - b.age ELSE NoRetryAfter
=============================================================================
