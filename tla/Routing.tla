------------------------------ MODULE Routing ------------------------------
(***************************************************************************)
(* The router of coreai/router.py: requests that are planned over several  *)
(* providers, tried in order with retries, failover and hedging, each call *)
(* admitted by the provider's circuit breaker and rate limiter.            *)
(*                                                                         *)
(* One action is what runs between two awaits of one asyncio task.         *)
(*                                                                         *)
(*   present, regs   whether a provider is registered, and how many times  *)
(*                   it has been: drop_provider and set_provider replace   *)
(*                   its breaker, limiter and statistics                   *)
(*   breaker         self.breakers[p] (BreakerOps)                         *)
(*   active          self.limiter.limiters[p].active_requests              *)
(*   req             the _route, _stream or embed coroutine of a request   *)
(*   legs            its _call_provider coroutines: the first, and the     *)
(*                   hedge launched beside it                              *)
(*   tried           history: what became of each planned provider         *)
(*                                                                         *)
(* Abstracted: the order in which a strategy ranks the providers (any      *)
(* order), the screening of candidates by model limits and budgets (any    *)
(* non-empty part of the plan), the token buckets (Limiter.tla; here       *)
(* acquire() may refuse at any time), the content of the cache (any lookup *)
(* may hit).  There is no policy store, so a plan names a provider once.   *)
(***************************************************************************)
EXTENDS BreakerOps, Errors, FiniteSets, SequencesExt

CONSTANTS
    Providers,
    Routes,            \* requests that go through route()
    Streams,           \* through stream()
    Embeds,            \* through embed()
    ProviderErrors,    \* the kinds of failure a provider answers with
    MaxAttempts,       \* max_retry_attempts
    FailoverAttempts,  \* max_attempts_before_failover
    Concurrent,        \* concurrent_requests of every provider
    DeadlineTicks,     \* deadline_seconds
    Hedging,           \* hedge_after_seconds is set
    Droppable,         \* the providers drop_provider may be called on
    MaxRegs,           \* bound: registrations of one provider
    None

Requests == Routes \cup Streams \cup Embeds

ASSUME RoutingAssumption ==
    /\ IsFiniteSet(Providers) /\ IsFiniteSet(Requests)
    /\ Routes \cap Streams = {} /\ Routes \cap Embeds = {} /\ Streams \cap Embeds = {}
    /\ ProviderErrors \subseteq ErrorKind \ {"deadline", "circuit_open"}
    /\ MaxAttempts \in Nat \ {0} /\ FailoverAttempts \in Nat \ {0}
    /\ Concurrent \in Nat \ {0}
    /\ DeadlineTicks \in Nat
    /\ Hedging \in BOOLEAN
    /\ Droppable \subseteq Providers /\ MaxRegs \in Nat \ {0}
    /\ None \notin Providers \cup ErrorKind

VARIABLES present, regs, breaker, active, req, legs, tried

registry == <<present, regs>>
vars == <<present, regs, breaker, active, req, legs, tried>>

\* "start"   the task exists, _call_provider has not begun
\* "admit"   waiting in limiter.acquire()
\* "call"    waiting for the provider (or, for a stream, for its next chunk)
\* "backoff" sleeping before a retry
\* "embed"   waiting for the provider's embeddings
\* "ok", "failed"  a hedging leg that has ended and is not yet collected
LegAt == {"none", "start", "admit", "call", "backoff", "embed", "ok", "failed"}
Leg == [at: LegAt, prov: Providers \cup {None}, reg: 0..MaxRegs,
        tries: 0..MaxAttempts, max: 0..MaxAttempts, err: ErrorKind \cup {None}]
NoLeg == [at |-> "none", prov |-> None, reg |-> 0, tries |-> 0, max |-> 0,
          err |-> None]

\* "new", "planned" (at the cache lookup), "calling" (awaiting its one leg),
\* "hedge_wait" (asyncio.wait on the first leg, up to the hedge delay),
\* "racing" (both legs), "streaming" (the first chunk is out),
\* "saving" (at the cache write), "done".
ReqAt == {"new", "planned", "calling", "hedge_wait", "racing", "streaming",
          "saving", "done"}

\* How a request ends.  "unavailable" is AllProvidersUnavailable (or, for a
\* plan of one, the provider's own error); "gone" is the KeyError or
\* ValueError of a provider that is no longer registered.
Outcome == {"ok", "cached", "unavailable", "cancelled", "gone"} \cup ErrorKind

Req == [at: ReqAt, plan: Seq(Providers), ix: Nat, skip: SUBSET Providers,
        left: 0..DeadlineTicks, by: Providers \cup {None},
        result: Outcome \cup {None}]

NewReq == [at |-> "new", plan |-> << >>, ix |-> 1, skip |-> {},
           left |-> DeadlineTicks, by |-> None, result |-> None]

TypeOK ==
    /\ present \in [Providers -> BOOLEAN]
    /\ regs \in [Providers -> 0..MaxRegs]
    /\ breaker \in [Providers -> Breaker]
    /\ active \in [Providers -> 0..Concurrent]
    /\ req \in [Requests -> Req]
    /\ legs \in [Requests -> [1..2 -> Leg]]
    /\ tried \in [Requests -> [Providers -> {"no", "called", "refused"}]]

\* A provider that may be dropped may also be registered late.
Init ==
    /\ present \in [Providers -> BOOLEAN]
    /\ \A p \in Providers \ Droppable : present[p]
    /\ regs = [p \in Providers |-> IF present[p] THEN 1 ELSE 0]
    /\ breaker = [p \in Providers |-> NewBreaker]
    /\ active = [p \in Providers |-> 0]
    /\ req = [r \in Requests |-> NewReq]
    /\ legs = [r \in Requests |-> [i \in 1..2 |-> NoLeg]]
    /\ tried = [r \in Requests |-> [p \in Providers |-> "no"]]

-----------------------------------------------------------------------------
\* Shared pieces

\* The objects the leg captured when it began are still the registered ones.
Current(l) == present[l.prov] /\ regs[l.prov] = l.reg

\* The captured breaker of leg l becomes x; one that was dropped is garbage.
Captured(l, x) == IF Current(l) THEN [breaker EXCEPT ![l.prov] = x] ELSE breaker

\* self.breakers[name].release(): whatever breaker has the name now.
ReleasedByName(p) ==
    IF present[p] THEN [breaker EXCEPT ![p] = Release(@)] ELSE breaker

\* self.limiter.release(name): whatever limiter has the name now.
Freeing(p, a) == IF present[p] /\ a[p] > 0 THEN [a EXCEPT ![p] = @ - 1] ELSE a

\* A leg that has a slot of its provider's limiter.
HasSlot(l) == l.at \in {"call", "backoff"}

\* A leg the breaker has admitted and that has not settled with it yet.
Unsettled(l) == l.at \in {"start", "admit", "call", "backoff", "embed"}

\* Deadline.expired(), and clamp() leaving nothing.
ExpiredNever(r) == FALSE   \* Mutant: the deadline is not looked at.
Expired(r) == req[r].left = 0

\* The semaphore of the limiter the leg waits in has a slot for it.
SlotFree(l) == Current(l) => active[l.prov] < Concurrent

\* The providers not to try again once p is launched as a hedge.
SkipUnchanged(r, p) == req[r].skip  \* Mutant: the hedge is not remembered.
SkipWith(r, p) == req[r].skip \cup {p}

\* The request after p's breaker has refused the hedge: it waits for its first
\* leg alone, and p is left for failover.
UnhedgedSkipping(r, p) ==  \* Mutant: p is marked as used before it is asked.
    [req[r] EXCEPT !.at = "calling", !.skip = @ \cup {p}]
Unhedged(r, p) == [req[r] EXCEPT !.at = "calling"]

\* Mutant: cancellation forgets the limiter.
CancelledActiveKept(l, a) == a

\* A leg cancelled where it stands: _admit releases the breaker by name,
\* _call_provider the breaker it captured and its limiter slot; embed has no
\* clause for it.
CancelledBreakers(l, B) ==
    IF \/ l.at = "admit" /\ present[l.prov]
       \/ HasSlot(l) /\ Current(l)
    THEN [B EXCEPT ![l.prov] = Release(@)]
    ELSE B
CancelledActive(l, a) == IF HasSlot(l) THEN Freeing(l.prov, a) ELSE a

\* Mutant: an error that is not the provider's fault leaves its slot taken.
AfterErrorUnreleased(l, k) ==
    IF k \in BREAKER_COUNTED THEN Captured(l, RecordFailure(breaker[l.prov])) ELSE breaker

\* The breaker after a call on leg l has failed with kind k.  _record_error
\* comes first and raises KeyError if the provider was dropped meanwhile.
AfterError(l, k) ==
    Captured(l, IF k \in BREAKER_COUNTED
                THEN RecordFailure(breaker[l.prov])
                ELSE Release(breaker[l.prov]))
ErrorSeen(l, k) == IF present[l.prov] THEN k ELSE "unknown"

Finish(r, outcome) ==
    req' = [req EXCEPT ![r] = [@ EXCEPT !.at = "done", !.result = outcome]]

\* Mutant: the second leg is forgotten.
ClearFirstLeg(r) == legs' = [legs EXCEPT ![r][1] = NoLeg]

ClearLegs(r) == legs' = [legs EXCEPT ![r] = [i \in 1..2 |-> NoLeg]]

\* The candidates of r from index i on that the loop will not pass over.
Stops(r, B, i) ==
    {k \in i..Len(req[r].plan) :
        /\ req[r].plan[k] \notin req[r].skip
        /\ present[req[r].plan[k]] => WouldAllow(B[req[r].plan[k]])}

\* Where the loop stops, and whom it has asked in vain before.
Place(r, B, i) ==
    IF Stops(r, B, i) = {} THEN Len(req[r].plan) + 1 ELSE Min(Stops(r, B, i))
Refused(r, B, i) ==
    {req[r].plan[k] : k \in i..(Place(r, B, i) - 1)} \ req[r].skip

\* A call to p: with somewhere left to fail over to, fewer attempts are made.
NewLeg(r, p, last) ==
    [at |-> IF r \in Embeds THEN "embed" ELSE "start", prov |-> p, reg |-> regs[p],
     tries |-> 0, err |-> None,
     max |-> IF last \/ MaxAttempts < FailoverAttempts
             THEN MaxAttempts ELSE FailoverAttempts]

\* The candidate loop of _route, _stream and embed from index i, with the
\* breakers as in B: pass over the providers already tried as a hedge, call
\* allow() on the others in turn, and begin a call on the first that admits
\* it.  Nothing is awaited in between.
Proceed(r, B, i) ==
    LET n == Len(req[r].plan)
        j == Place(r, B, i)
        p == req[r].plan[j]
        refused == Refused(r, B, i)
        Bs == [q \in Providers |-> IF q \in refused THEN Allowed(B[q]) ELSE B[q]]
        told == [q \in Providers |-> IF q \in refused THEN "refused" ELSE tried[r][q]]
        hedged == /\ Hedging /\ r \in Routes
                  /\ j < n /\ req[r].plan[j + 1] \notin req[r].skip
    IN  \/ /\ j > n
           /\ Finish(r, "unavailable")
           /\ ClearLegs(r)
           /\ breaker' = Bs
           /\ tried' = [tried EXCEPT ![r] = told]
        \/ /\ j <= n /\ ~present[p]
           /\ Finish(r, "gone")
           /\ ClearLegs(r)
           /\ breaker' = Bs
           /\ tried' = [tried EXCEPT ![r] = told]
        \/ /\ j <= n /\ present[p]
           /\ breaker' = [Bs EXCEPT ![p] = Allowed(@)]
           /\ req' = [req EXCEPT ![r] = [@ EXCEPT !.ix = j,
                          !.at = IF hedged THEN "hedge_wait" ELSE "calling"]]
           /\ legs' = [legs EXCEPT ![r] = <<
                NewLeg(r, p, j = n), NoLeg>>]
           /\ tried' = [tried EXCEPT ![r] = [told EXCEPT ![p] = "called"]]

\* The `except Exception` clauses of the loop: a deadline, or a failure that
\* another provider would share, ends the request; any other moves it on.
Handle(r, B, k) ==
    IF k = "deadline" \/ k \notin FAILOVER
    THEN /\ Finish(r, k)
         /\ ClearLegs(r)
         /\ breaker' = B
         /\ UNCHANGED tried
    ELSE Proceed(r, B, req[r].ix + 1)

\* Mutant: the exception of a leg that is a task is lost.
LegFailsSilently(r, i, B, k) ==
    IF req[r].at = "calling"
    THEN Handle(r, B, k)
    ELSE /\ legs' = [legs EXCEPT ![r][i] = NoLeg]
         /\ breaker' = B
         /\ UNCHANGED <<req, tried>>

\* Leg i of r has failed with kind k, leaving the breakers as in B.  A leg
\* that is awaited directly raises into the loop; one that is a task of its
\* own waits to be collected, and nobody collects the leg of a request that
\* is done.
LegFails(r, i, B, k) ==
    IF req[r].at = "calling"
    THEN Handle(r, B, k)
    ELSE /\ legs' = [legs EXCEPT ![r][i] =
                        IF req[r].at = "done" THEN NoLeg
                        ELSE [@ EXCEPT !.at = "failed", !.err = k]]
         /\ breaker' = B
         /\ UNCHANGED <<req, tried>>

\* A completion has been returned by provider p.
Answered(r, p) ==
    req' = [req EXCEPT ![r] = [@ EXCEPT !.at = "saving", !.by = p]]

-----------------------------------------------------------------------------
\* Planning

\* _screen: would_allow() on every provider, then any order of any part of
\* the healthy ones; or the one provider the caller pinned, healthy or not.
Plan(r) ==
    /\ req[r].at = "new"
    /\ LET seen == [p \in Providers |->
                        IF present[p] THEN Observed(breaker[p]) ELSE breaker[p]]
           healthy == {p \in Providers : present[p] /\ WouldAllow(breaker[p])}
           usable == {p \in Providers : present[p]}
       IN  \/ /\ breaker' = seen
              /\ healthy = {}
              /\ r \notin Embeds
              /\ Finish(r, "unavailable")
           \/ /\ breaker' = seen
              /\ r \notin Embeds
              /\ \E s \in UNION {SetToSeqs(S) : S \in (SUBSET healthy) \ {{}}} :
                    req' = [req EXCEPT ![r] = [@ EXCEPT !.at = "planned", !.plan = s]]
           \/ /\ UNCHANGED breaker
              /\ \E s \in IF r \in Embeds
                          THEN UNION {SetToSeqs(S) : S \in (SUBSET usable) \ {{}}}
                          ELSE {<<p>> : p \in usable} :
                    req' = [req EXCEPT ![r] = [@ EXCEPT !.at = "planned", !.plan = s]]
    /\ UNCHANGED <<registry, active, legs, tried>>

CacheHit(r) ==
    /\ req[r].at = "planned" /\ r \in Routes
    /\ Finish(r, "cached")
    /\ UNCHANGED <<registry, breaker, active, legs, tried>>

\* A miss, or no cache: into the candidate loop.  (Streams and embeddings get
\* here without an await; letting others run at this point adds behaviours.)
Begin(r) ==
    /\ req[r].at = "planned"
    /\ Proceed(r, breaker, 1)
    /\ UNCHANGED <<registry, active>>

-----------------------------------------------------------------------------
\* Calling one provider (_call_provider_untraced, _open_stream)

\* The call begins: it captures the provider's objects and, unless the
\* deadline has passed, asks the limiter for a slot.
Start(r, i) ==
    LET l == legs[r][i]
    IN  /\ l.at = "start"
        /\ IF ~present[l.prov]
           THEN LegFails(r, i, breaker, "unknown")
           ELSE IF Expired(r)
           THEN LegFails(r, i, ReleasedByName(l.prov), "deadline")
           ELSE /\ legs' = [legs EXCEPT ![r][i] =
                                [@ EXCEPT !.at = "admit", !.reg = regs[l.prov]]]
                /\ UNCHANGED <<breaker, req, tried>>
        /\ UNCHANGED <<registry, active>>

\* acquire() returns and the first attempt goes out, if there is time left.
Admitted(r, i) ==
    LET l == legs[r][i]
    IN  /\ l.at = "admit"
        /\ SlotFree(l)
        /\ IF Expired(r)
           THEN /\ LegFails(r, i, Captured(l, Release(breaker[l.prov])),
                            ErrorSeen(l, "deadline"))
                /\ UNCHANGED active
           ELSE /\ legs' = [legs EXCEPT ![r][i] = [@ EXCEPT !.at = "call", !.tries = 1]]
                /\ active' = IF Current(l) THEN [active EXCEPT ![l.prov] = @ + 1]
                             ELSE active
                /\ UNCHANGED <<breaker, req, tried>>
        /\ UNCHANGED registry

\* acquire() raises RateLimited.
RateLimited(r, i) ==
    LET l == legs[r][i]
    IN  /\ l.at = "admit"
        /\ LegFails(r, i, ReleasedByName(l.prov), ErrorSeen(l, "rate_limit"))
        /\ UNCHANGED <<registry, active>>

\* provider.complete() returns.
CallSucceeds(r, i) ==
    LET l == legs[r][i]
    IN  /\ l.at = "call" /\ r \in Routes
        /\ breaker' = Captured(l, RecordSuccess(breaker[l.prov]))
        /\ active' = Freeing(l.prov, active)
        /\ \/ /\ req[r].at = "calling"
              /\ Answered(r, l.prov)
              /\ ClearLegs(r)
           \/ /\ req[r].at # "calling"
              /\ legs' = [legs EXCEPT ![r][i] = IF req[r].at = "done" THEN NoLeg
                                                ELSE [@ EXCEPT !.at = "ok"]]
              /\ UNCHANGED req
        /\ UNCHANGED <<registry, tried>>

\* An attempt fails, with the deadline's error once that has passed.
AttemptErrors(r) == ProviderErrors \cup IF Expired(r) THEN {"deadline"} ELSE {}

\* run_with_retry sleeps before another attempt.
BackOff(r, i) ==
    LET l == legs[r][i]
    IN  /\ l.at = "call" /\ req[r].at # "streaming"
        /\ l.tries < l.max /\ ~Expired(r)
        /\ ProviderErrors \cap RETRYABLE # {}
        /\ legs' = [legs EXCEPT ![r][i].at = "backoff"]
        /\ UNCHANGED <<registry, breaker, active, req, tried>>

\* run_with_retry gives up: the error is not retryable, attempts have run out,
\* or the wait (a provider may ask for any Retry-After) does not fit.
CallFails(r, i) ==
    LET l == legs[r][i]
    IN  /\ l.at = "call" /\ req[r].at # "streaming"
        /\ \E k \in AttemptErrors(r) :
              LegFails(r, i, AfterError(l, k), ErrorSeen(l, k))
        /\ active' = Freeing(l.prov, active)
        /\ UNCHANGED registry

\* The backoff is over: another attempt, if there is time left for one.
Retry(r, i) ==
    LET l == legs[r][i]
    IN  /\ l.at = "backoff"
        /\ IF Expired(r)
           THEN /\ LegFails(r, i, AfterError(l, "deadline"), ErrorSeen(l, "deadline"))
                /\ active' = Freeing(l.prov, active)
           ELSE /\ legs' = [legs EXCEPT ![r][i] =
                                [@ EXCEPT !.at = "call", !.tries = l.tries + 1]]
                /\ UNCHANGED <<breaker, active, req, tried>>
        /\ UNCHANGED registry

-----------------------------------------------------------------------------
\* Hedging (_call_hedged)

\* The first leg is still running after the delay: launch the partner beside
\* it if its breaker allows, and otherwise keep waiting for the first.
Hedge(r) ==
    LET p == req[r].plan[req[r].ix + 1]
    IN  /\ req[r].at = "hedge_wait"
        /\ legs[r][1].at \in {"admit", "call", "backoff"}
        /\ \/ /\ ~present[p]
              /\ Finish(r, "gone")
              /\ UNCHANGED <<breaker, legs, tried>>
           \/ /\ present[p]
              /\ breaker' = [breaker EXCEPT ![p] = Allowed(@)]
              /\ IF WouldAllow(breaker[p])
                 THEN /\ req' = [req EXCEPT ![r] =
                                    [@ EXCEPT !.at = "racing", !.skip = SkipWith(r, p)]]
                      /\ legs' = [legs EXCEPT ![r][2] =
                            NewLeg(r, p, req[r].ix + 1 = Len(req[r].plan))]
                      /\ tried' = [tried EXCEPT ![r][p] = "called"]
                 ELSE /\ req' = [req EXCEPT ![r] = Unhedged(r, p)]
                      /\ UNCHANGED <<legs, tried>>
        /\ UNCHANGED <<registry, active>>

\* The first leg ended within the delay.
FirstReturns(r) ==
    /\ req[r].at = "hedge_wait"
    /\ \/ /\ legs[r][1].at = "ok"
          /\ Answered(r, legs[r][1].prov)
          /\ ClearLegs(r)
          /\ UNCHANGED <<breaker, tried>>
       \/ /\ legs[r][1].at = "failed"
          /\ Handle(r, breaker, legs[r][1].err)
    /\ UNCHANGED <<registry, active>>

\* One leg has succeeded: the other is cancelled.
RaceWon(r, i) ==
    LET other == legs[r][3 - i]
    IN  /\ req[r].at = "racing"
        /\ legs[r][i].at = "ok" /\ other.at # "start"
        /\ breaker' = CancelledBreakers(other, breaker)
        /\ active' = CancelledActive(other, active)
        /\ Answered(r, legs[r][i].prov)
        /\ ClearLegs(r)
        /\ UNCHANGED <<registry, tried>>

\* Both legs have failed: HedgeFailure, judged by the first leg's error unless
\* either was the deadline's.
RaceLost(r) ==
    LET k == legs[r][1].err
    IN  /\ req[r].at = "racing"
        /\ \A i \in 1..2 : legs[r][i].at = "failed"
        /\ IF \E i \in 1..2 : legs[r][i].err = "deadline"
           THEN /\ Finish(r, k)
                /\ ClearLegs(r)
                /\ UNCHANGED <<breaker, tried>>
           ELSE Handle(r, breaker, k)
        /\ UNCHANGED <<registry, active>>

-----------------------------------------------------------------------------
\* The end of a completion, streams, embeddings

\* After the cache write, _record_success files the answer under its
\* provider's statistics.
Save(r) ==
    /\ req[r].at = "saving"
    /\ Finish(r, IF present[req[r].by] THEN "ok" ELSE "gone")
    /\ UNCHANGED <<registry, breaker, active, legs, tried>>

\* The stream's first chunk arrives.
OpenStream(r) ==
    LET l == legs[r][1]
    IN  /\ r \in Streams /\ req[r].at = "calling" /\ l.at = "call"
        /\ IF present[l.prov]
           THEN /\ req' = [req EXCEPT ![r].at = "streaming"]
                /\ UNCHANGED legs
           ELSE Finish(r, "gone") /\ ClearLegs(r)
        /\ UNCHANGED <<registry, breaker, active, tried>>

\* The stream ends, well or with an error, and is never failed over.
StreamEnds(r) ==
    LET l == legs[r][1]
    IN  /\ req[r].at = "streaming"
        /\ \/ /\ breaker' = Captured(l, RecordSuccess(breaker[l.prov]))
              /\ Finish(r, IF present[l.prov] THEN "ok" ELSE "gone")
           \/ \E k \in ProviderErrors :
                /\ breaker' = AfterError(l, k)
                /\ Finish(r, ErrorSeen(l, k))
        /\ active' = Freeing(l.prov, active)
        /\ ClearLegs(r)
        /\ UNCHANGED <<registry, tried>>

\* embed() settles with whatever breaker has the name now.
EmbedEnds(r) ==
    LET p == legs[r][1].prov
    IN  /\ legs[r][1].at = "embed"
        /\ \/ /\ ~present[p]
              /\ Finish(r, "gone")
              /\ ClearLegs(r)
              /\ UNCHANGED <<breaker, tried>>
           \/ /\ present[p]
              /\ breaker' = [breaker EXCEPT ![p] = RecordSuccess(@)]
              /\ Finish(r, "ok")
              /\ ClearLegs(r)
              /\ UNCHANGED tried
           \/ /\ present[p]
              /\ \E k \in ProviderErrors :
                    Handle(r, [breaker EXCEPT ![p] = IF k \in BREAKER_COUNTED
                                                     THEN RecordFailure(@)
                                                     ELSE Release(@)], k)
        /\ UNCHANGED <<registry, active>>

-----------------------------------------------------------------------------
\* The caller goes away: the request's task is cancelled at whatever await it
\* is at.  In the first wait of a hedge the leg is not cancelled with it.
Cancel(r) ==
    /\ req[r].at \notin {"new", "done"}
    /\ req[r].at \in {"calling", "racing"} => \A i \in 1..2 : legs[r][i].at # "start"
    /\ Finish(r, "cancelled")
    /\ IF req[r].at = "hedge_wait"
       THEN /\ legs' = [legs EXCEPT ![r][1] = IF Unsettled(@) THEN @ ELSE NoLeg]
            /\ UNCHANGED <<breaker, active>>
       ELSE /\ ClearLegs(r)
            /\ breaker' = CancelledBreakers(legs[r][2],
                              CancelledBreakers(legs[r][1], breaker))
            /\ active' = CancelledActive(legs[r][2],
                             CancelledActive(legs[r][1], active))
    /\ UNCHANGED <<registry, tried>>

\* drop_provider and, for a name that is not registered, set_provider.
DropProvider(p) ==
    /\ p \in Droppable /\ present[p]
    /\ present' = [present EXCEPT ![p] = FALSE]
    /\ breaker' = [breaker EXCEPT ![p] = NewBreaker]
    /\ active' = [active EXCEPT ![p] = 0]
    /\ UNCHANGED <<regs, req, legs, tried>>

SetProvider(p) ==
    /\ ~present[p] /\ regs[p] < MaxRegs
    /\ present' = [present EXCEPT ![p] = TRUE]
    /\ regs' = [regs EXCEPT ![p] = @ + 1]
    /\ breaker' = [breaker EXCEPT ![p] = NewBreaker]
    /\ active' = [active EXCEPT ![p] = 0]
    /\ UNCHANGED <<req, legs, tried>>

\* The clock: breakers age and deadlines run down.
Running(r) ==
    \/ req[r].at \notin {"new", "done"}
    \/ \E i \in 1..2 : Unsettled(legs[r][i])

Tick ==
    /\ breaker' = [p \in Providers |-> Older(breaker[p])]
    /\ req' = [r \in Requests |->
                IF Running(r) /\ req[r].left > 0
                THEN [req[r] EXCEPT !.left = @ - 1] ELSE req[r]]
    /\ UNCHANGED <<registry, active, legs, tried>>

-----------------------------------------------------------------------------
LegStep(r, i) ==
    \/ Start(r, i)
    \/ Admitted(r, i)
    \/ RateLimited(r, i)
    \/ CallSucceeds(r, i)
    \/ BackOff(r, i)
    \/ CallFails(r, i)
    \/ Retry(r, i)

ReqStep(r) ==
    \/ CacheHit(r)
    \/ Begin(r)
    \/ Hedge(r)
    \/ FirstReturns(r)
    \/ \E i \in 1..2 : RaceWon(r, i)
    \/ RaceLost(r)
    \/ Save(r)
    \/ OpenStream(r)
    \/ StreamEnds(r)
    \/ EmbedEnds(r)

Next ==
    \/ Tick
    \/ \E r \in Requests :
        \/ Plan(r)
        \/ ReqStep(r)
        \/ \E i \in 1..2 : LegStep(r, i)
        \/ Cancel(r)
    \/ \E p \in Providers : DropProvider(p) \/ SetProvider(p)

Spec == Init /\ [][Next]_vars

\* asyncio runs what is ready, time passes, and every wait is bounded: an
\* attempt by its timeout, acquire() and a backoff by the deadline, a stream
\* by its idle timeout.  A wait on the provider that could end in several ways
\* ends in one of them.
FairSpec ==
    /\ Spec
    /\ WF_vars(Tick)
    /\ \A r \in Requests :
        /\ WF_vars(ReqStep(r))
        /\ \A i \in 1..2 : WF_vars(LegStep(r, i))

-----------------------------------------------------------------------------
LegIds == Requests \X (1..2)
LegOf(x) == legs[x[1]][x[2]]

\* The calls that hold a slot of the limiter now registered for p.
HoldersOf(p) ==
    {x \in LegIds : HasSlot(LegOf(x)) /\ LegOf(x).prov = p /\ Current(LegOf(x))}

\* active_requests of a provider's first limiter is the number of calls that
\* hold one of its slots, on every path of a call: refusal, retry, failure,
\* hedge won or lost, cancellation, stream.  It is the first one's because
\* release() goes by name: after a provider was dropped and registered again,
\* a call left from before gives back a slot of the new limiter.
SlotsMatch ==
    \A p \in Providers : present[p] /\ regs[p] = 1 => active[p] = Cardinality(HoldersOf(p))

\* A probe slot counted by a half-open breaker belongs to a call that will
\* still settle with it: no path out of a call forgets the breaker.  (allow():
\* "Every True must be followed by record_success/failure.")
ProbesAccounted ==
    \A p \in Providers : present[p] /\ breaker[p].state = "half_open" =>
        breaker[p].probes <= Cardinality({x \in LegIds :
            Unsettled(LegOf(x)) /\ LegOf(x).prov = p})

\* A request that ends because every provider is unavailable has called each
\* provider of its plan or been refused by its breaker: failover, refusals and
\* the hedging skip set never pass over one that was not tried.
UnavailableMeansAllTried ==
    \A r \in Requests : req[r].at = "done" /\ req[r].result = "unavailable" =>
        \A p \in ToSet(req[r].plan) : tried[r][p] # "no"

\* A call begins in this step: the loop has moved on, or the leg is a new one.
Begins(r, i) ==
    /\ legs'[r][i].at \in {"start", "embed"}
    /\ legs'[r][i] # legs[r][i] \/ req'[r].ix # req[r].ix

\* No request calls the same provider a second time once it has given up on
\* it, as a hedge or in the loop: retries stay inside one call.
NoSecondCall ==
    [][ \A r \in Requests, i \in 1..2 :
          Begins(r, i) => tried[r][legs'[r][i].prov] # "called" ]_vars

\* No attempt goes out once the request's deadline has passed: not after a
\* wait for the limiter, not after a backoff.
NoAttemptPastDeadline ==
    [][ \A r \in Requests, i \in 1..2 :
          legs'[r][i].at = "call" /\ legs[r][i].tries < legs'[r][i].tries =>
            req[r].left > 0 ]_vars

\* What a request sends out: no provider again once it is given up, and nothing
\* after the deadline.
AttemptsAllowed == NoSecondCall /\ NoAttemptPastDeadline

\* A request that has ended has left nothing running: the loser of a race is
\* cancelled with its slots given back.  The exception is a request cancelled,
\* or failed by a dropped partner, in the first wait of a hedge.
NothingLeftRunning ==
    \A r \in Requests : req[r].at = "done" /\ req[r].result \notin {"cancelled", "gone"} =>
        \A i \in 1..2 : legs[r][i] = NoLeg

\* No path of a request leaks: neither a slot of a limiter nor a call of its own.
NothingLeaks == SlotsMatch /\ NothingLeftRunning

\* Every request that has been planned ends.
RequestsEnd == \A r \in Requests : req[r].at = "planned" ~> req[r].at = "done"
=============================================================================
