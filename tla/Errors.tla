------------------------------- MODULE Errors -------------------------------
(***************************************************************************)
(* coreai/errors.py: the kinds of failure a provider call can end with,    *)
(* and the three questions retry, failover and the circuit breaker ask     *)
(* about them.                                                             *)
(***************************************************************************)

ErrorKind == {"rate_limit", "overloaded", "server_error", "timeout",
              "connection", "auth", "quota", "bad_request", "deadline",
              "circuit_open", "unknown"}

\* Transient: the same call may succeed if repeated shortly.
RETRYABLE == {"rate_limit", "overloaded", "server_error", "timeout",
              "connection"}

\* Provider-side problem: another provider may well succeed.
FAILOVER == RETRYABLE \cup {"auth", "quota", "circuit_open"}

\* Counts against a provider's circuit breaker.
BREAKER_COUNTED == RETRYABLE \cup {"auth", "quota"}
=============================================================================
