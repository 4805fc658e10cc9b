------------------------------ MODULE Retrying ------------------------------
(***************************************************************************)
(* coreai/retry.py in full, with the classification of coreai/errors.py:   *)
(* what is retried, how long a retry waits, and what RetryManager counts.  *)
(*                                                                         *)
(*   retryNow   the time                                                   *)
(*   attempts   the calls of RetryManager.execute() in progress            *)
(*   retried    retries_by_kind                                            *)
(*   byStatus   retries_by_status                                          *)
(*   failures   total_failures                                             *)
(*                                                                         *)
(* total_retries counts with retries_by_kind and is their sum here.  An    *)
(* exception is described by what classify() looks at: its own class, the  *)
(* status it carries, the kind its type suggests, the words in its message *)
(* and the delay it asks for.                                              *)
(***************************************************************************)
EXTENDS Errors, Integers, Sequences, FiniteSets, FiniteSetsExt

CONSTANTS
    Exceptions,       \* the exceptions classify() is asked about
    Failures,         \* the ones the calls in progress may end with
    Executions,       \* concurrent calls of execute()
    MaxAttempts, BaseWait, MaxWait, ExponentialBase,
    Jitter,           \* whether waits are jittered
    Deadlines,        \* when an execution's deadline ends, -1 for none
    MaxRetryNow       \* bound: the time

\* What the message of an exception may say, as far as classify() reads it
Words == {"overloaded", "quota", "rate limit", "timed out", "connection"}

\* Only one delay is read, from the exception or from its headers.
ExceptionOK(e) ==
    /\ e.class \in {"provider", "deadline", "circuit_open", "rate_limit"}
    /\ e.status \in Nat /\ e.type \in {"other", "timeout", "connection"}
    /\ e.words \subseteq Words
    /\ e.asks \subseteq Int /\ \A d, c \in e.asks : d = c

ASSUME RetryingAssumption ==
    /\ \A e \in Exceptions : ExceptionOK(e)
    /\ Failures \subseteq Exceptions /\ Deadlines \subseteq Int
    /\ MaxAttempts \in Nat \ {0} /\ BaseWait \in Nat /\ MaxWait \in Nat
    /\ ExponentialBase \in Nat \ {0} /\ Jitter \in BOOLEAN /\ MaxRetryNow \in Nat

VARIABLES retryNow, attempts, retried, byStatus, failures

retryVars == <<retryNow, attempts, retried, byStatus, failures>>

-----------------------------------------------------------------------------
\* errors.py

\* status_of(): a status outside 100..599 is none.
StatusOf(e) == IF e.status \in 100..599 THEN e.status ELSE 0

\* _retry_after_of(): a delay is never negative; -1 stands for none.
RetryAfterOf(e) == IF e.asks = {} THEN -1 ELSE Max({0} \cup e.asks)

\* Mutant: 402 is taken for any other client error that may go away.
KindByStatusNoPayment(e, s) ==
    CASE s = 429 \/ s = 402 -> IF "quota" \in e.words THEN "quota" ELSE "rate_limit"
      [] s \in {503, 529} -> "overloaded"
      [] s = 408 -> "timeout"
      [] s >= 500 -> "server_error"
      [] s \in {401, 403} -> "auth"
      [] s \in 400..499 /\ s \notin {401, 402, 403, 408, 429} -> "bad_request"
      [] OTHER -> "unknown"

\* classify(), for an exception that carries a status
KindByStatus(e, s) ==
    CASE s = 429 -> IF "quota" \in e.words THEN "quota" ELSE "rate_limit"
      [] s = 402 -> "quota"
      [] s \in {503, 529} -> "overloaded"
      [] s = 408 -> "timeout"
      [] s >= 500 /\ s \notin {503, 529} -> "server_error"
      [] s \in {401, 403} -> "auth"
      [] s \in 400..499 /\ s \notin {401, 402, 403, 408, 429} -> "bad_request"
      [] OTHER -> "unknown"

\* The words of a message, as a last resort, in the order they are looked for.
WordKinds == <<<<"overloaded", "overloaded">>, <<"quota", "quota">>, <<"rate limit", "rate_limit">>,
               <<"timed out", "timeout">>, <<"connection", "connection">>>>
KindByWords(e) ==
    LET found == {i \in DOMAIN WordKinds : WordKinds[i][1] \in e.words}
    IN  IF found = {} THEN "unknown" ELSE WordKinds[Min(found)][2]

KindOfError(e) ==
    IF e.class # "provider" THEN e.class
    ELSE IF StatusOf(e) # 0 THEN KindByStatus(e, StatusOf(e))
    ELSE IF e.type # "other" THEN e.type
    ELSE KindByWords(e)

\* The delay is not kept for our own deadline and for a quota found in the words.
Classify(e) ==
    LET kind == KindOfError(e)
    IN  [kind |-> kind, status |-> StatusOf(e),
         after |-> IF kind = "deadline" \/ (kind = "quota" /\ StatusOf(e) = 0)
                   THEN -1 ELSE RetryAfterOf(e)]

-----------------------------------------------------------------------------
\* compute_wait(): the waits before retry number n, none if the provider asks
\* for more than MaxWait.  "Equal jitter" leaves at least half of the backoff.
Backoff(n) == Min({BaseWait * ExponentialBase ^ (n - 1), MaxWait})
Waits(n, info) ==
    IF info.after >= 0 THEN {info.after} \cap 0..MaxWait
    ELSE {w \in 0..Backoff(n) : IF Jitter THEN 2 * w >= Backoff(n) ELSE w = Backoff(n)}

NoExecution == [at |-> "idle", n |-> 0, until |-> 0, end |-> -1, asked |-> 0]

RetryingInit ==
    /\ retryNow = 0
    /\ attempts = [x \in Executions |-> NoExecution]
    /\ retried = [k \in RETRYABLE |-> 0]
    /\ byStatus = << >>
    /\ failures = 0

\* execute(): the first attempt goes out.
Execute(x, end) ==
    /\ attempts[x].at = "idle"
    /\ attempts' = [attempts EXCEPT ![x] = [NoExecution EXCEPT !.at = "calling", !.n = 1, !.end = end]]
    /\ UNCHANGED <<retryNow, retried, byStatus, failures>>

ExecutionReturns(x) ==
    /\ attempts[x].at = "calling"
    /\ attempts' = [attempts EXCEPT ![x] = [@ EXCEPT !.at = "done"]]
    /\ UNCHANGED <<retryNow, retried, byStatus, failures>>

\* deadline.remaining()
Remaining(a) == Max({0, a.end - retryNow})
FitsDeadline(a, w) == a.end = -1 \/ w < Remaining(a)

\* note(): an attempt that will be repeated is counted once.
CountedRetry(info) ==
    /\ retried' = [retried EXCEPT ![info.kind] = @ + 1]
    /\ byStatus' = IF info.status = 0 THEN byStatus
                   ELSE [s \in DOMAIN byStatus \cup {info.status} |->
                            (IF s \in DOMAIN byStatus THEN byStatus[s] ELSE 0)
                            + (IF s = info.status THEN 1 ELSE 0)]

\* An attempt fails and is repeated after a wait.
AttemptRepeats(x, e) ==
    LET a == attempts[x]
        info == Classify(e)
    IN  /\ a.at = "calling"
        /\ info.kind \in RETRYABLE /\ a.n < MaxAttempts
        /\ \E w \in Waits(a.n, info) :
              /\ FitsDeadline(a, w)
              /\ attempts' = [attempts EXCEPT ![x] =
                     [a EXCEPT !.at = "sleeping", !.until = retryNow + w,
                               !.asked = IF info.after > 0 THEN retryNow + info.after ELSE 0]]
        /\ CountedRetry(info)
        /\ UNCHANGED <<retryNow, failures>>

\* An attempt fails for good.
AttemptRaises(x, e) ==
    LET a == attempts[x]
        info == Classify(e)
    IN  /\ a.at = "calling"
        /\ \/ info.kind \notin RETRYABLE \/ a.n >= MaxAttempts
           \/ Waits(a.n, info) = {}
           \/ \E w \in Waits(a.n, info) : ~FitsDeadline(a, w)
        /\ attempts' = [attempts EXCEPT ![x].at = "failed"]
        /\ failures' = failures + 1
        /\ UNCHANGED <<retryNow, retried, byStatus>>

\* The sleep is over, on time or later.
WakeUp(x) ==
    LET a == attempts[x]
    IN  /\ a.at = "sleeping" /\ retryNow >= a.until
        /\ attempts' = [attempts EXCEPT ![x] = [a EXCEPT !.at = "calling", !.n = @ + 1]]
        /\ UNCHANGED <<retryNow, retried, byStatus, failures>>

RetryTick ==
    /\ retryNow < MaxRetryNow
    /\ retryNow' = retryNow + 1
    /\ UNCHANGED <<attempts, retried, byStatus, failures>>

RetryingNext ==
    \/ \E x \in Executions :
          \/ \E end \in Deadlines : Execute(x, end)
          \/ ExecutionReturns(x)
          \/ \E e \in Failures : AttemptRepeats(x, e) \/ AttemptRaises(x, e)
          \/ WakeUp(x)
    \/ RetryTick

RetryingSpec == RetryingInit /\ [][RetryingNext]_retryVars

-----------------------------------------------------------------------------
\* What the module's documentation says is retried, in its own terms: rate
\* limits, overload (429/503/529), 5xx, timeouts and connection errors; bad
\* requests, auth and quota errors fail immediately.
SaysRetry(e) ==
    \/ e.class = "rate_limit"
    \/ /\ e.class = "provider" /\ StatusOf(e) # 0
       /\ \/ e.status = 429 /\ "quota" \notin e.words
          \/ e.status = 408
          \/ e.status \in 500..599
    \/ /\ e.class = "provider" /\ StatusOf(e) = 0
       /\ \/ e.type \in {"timeout", "connection"}
          \/ e.type = "other" /\ "overloaded" \in e.words
          \/ e.type = "other" /\ e.words # {} /\ "quota" \notin e.words

\* classify() and RETRYABLE agree with that for every exception, and with
\* the other two sets: what may be retried may also be failed over and counts
\* against the breaker.
ClassifiedAsDocumented ==
    \A e \in Exceptions :
        /\ Classify(e).kind \in ErrorKind
        /\ Classify(e).kind \in RETRYABLE <=> SaysRetry(e)
        /\ Classify(e).kind \in RETRYABLE => Classify(e).kind \in FAILOVER \cap BREAKER_COUNTED

\* The sum of f, counted one by one
TotalOf(f) == Cardinality(UNION {{x} \X (1..f[x]) : x \in DOMAIN f})

\* How often an execution has been repeated, or will be when it wakes up
Repeats(a) == IF a.at = "sleeping" THEN a.n ELSE IF a.n = 0 THEN 0 ELSE a.n - 1

\* No execution makes more than MaxAttempts calls, sleeps past its deadline or
\* repeats a call before the time the provider asked for, and each retry of
\* each execution is counted once (run_with_retry(), note()).
RetriesCounted ==
    /\ \A x \in Executions :
          LET a == attempts[x]
          IN  /\ a.n <= MaxAttempts
              /\ a.at = "sleeping" => a.end = -1 \/ a.until < a.end
              /\ a.at = "calling" /\ a.n > 1 => retryNow >= a.asked
    /\ TotalOf(retried) = TotalOf([x \in Executions |-> Repeats(attempts[x])])
    /\ TotalOf(byStatus) <= TotalOf(retried)
    /\ failures = Cardinality({x \in Executions : attempts[x].at = "failed"})

\* What is retried is what the documentation of retry.py says, and it is retried
\* within the attempts, the deadline and the delay asked for.
RetrySound == ClassifiedAsDocumented /\ RetriesCounted
=============================================================================
