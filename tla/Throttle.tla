------------------------------ MODULE Throttle ------------------------------
(***************************************************************************)
(* The sliding windows that count requests: RateLimitMiddleware of         *)
(* api/middleware.py, and the operators it shares with the tools' registry *)
(* (Tools.tla).  Times are natural numbers and do not go back.             *)
(*                                                                         *)
(*   thrNow     the time                                                   *)
(*   windows    _windows: the requests remembered of each client           *)
(*   lastSweep  _last_sweep; below zero, so long ago that a sweep is due   *)
(*   passed     history: when each client's requests were let through      *)
(***************************************************************************)
EXTENDS Integers, FiniteSets, SequencesExt, Functions

CONSTANTS
    Clients,      \* the client keys: of an API key, a bearer token or an address
    Rpm,          \* requests in a minute
    Minute,       \* 60 seconds
    MaxClients,
    MaxThrNow     \* bound: the time

ASSUME ThrottleAssumption ==
    /\ Rpm \in Nat \ {0} /\ Minute \in Nat \ {0} /\ MaxClients \in Nat \ {0}
    /\ MaxThrNow \in Nat

VARIABLES thrNow, windows, lastSweep, passed

thrVars == <<thrNow, windows, lastSweep, passed>>

ThrottleInit ==
    /\ thrNow = 0
    /\ windows = << >>
    /\ lastSweep = -Minute
    /\ passed = [c \in Clients |-> << >>]

-----------------------------------------------------------------------------
\* How many of a window are dropped at its head: those before the first request
\* of the last minute.
Dropped(w, now) == Min({k \in 0..Len(w) : k = Len(w) \/ w[k + 1] > now - Minute})
Recent(w, now) == SubSeq(w, Dropped(w, now) + 1, Len(w))

\* A window whose last request is a minute old.
Stale(w, now) == w = << >> \/ Last(w) <= now - Minute

WithKey(f, k, w) == [x \in DOMAIN f \cup {k} |-> IF x = k THEN w ELSE f[x]]
WindowOf(f, k) == IF k \in DOMAIN f THEN f[k] ELSE << >>

\* Mutant: a client is dropped when its first request is a minute old.
SweptEarly(f, now) ==
    Restrict(f, {k \in DOMAIN f : ~(f[k] = << >> \/ Head(f[k]) <= now - Minute)})

Swept(f, now) == Restrict(f, {k \in DOMAIN f : ~Stale(f[k], now)})

-----------------------------------------------------------------------------
SweepDue == thrNow - lastSweep >= Minute
Known == IF SweepDue THEN Swept(windows, thrNow) ELSE windows

\* A client that is not known finds the table full: refused.
HasPlace(c) == c \in DOMAIN Known \/ Cardinality(DOMAIN Known) < MaxClients
Held(c) == Recent(WindowOf(Known, c), thrNow)

\* dispatch() and _check_rate_limit(), let through.
PassRequest(c) ==
    /\ HasPlace(c) /\ Len(Held(c)) < Rpm
    /\ windows' = WithKey(Known, c, Append(Held(c), thrNow))
    /\ lastSweep' = IF SweepDue THEN thrNow ELSE lastSweep
    /\ passed' = [passed EXCEPT ![c] = Append(@, thrNow)]
    /\ UNCHANGED thrNow

\* Refused with a 429; the table may have been swept, and the window shortened.
RefuseRequest(c) ==
    /\ ~HasPlace(c) \/ Len(Held(c)) >= Rpm
    /\ windows' = IF HasPlace(c) THEN WithKey(Known, c, Held(c)) ELSE Known
    /\ lastSweep' = IF SweepDue THEN thrNow ELSE lastSweep
    /\ UNCHANGED <<thrNow, passed>>

ThrottleTick ==
    /\ thrNow < MaxThrNow
    /\ thrNow' = thrNow + 1
    /\ UNCHANGED <<windows, lastSweep, passed>>

ThrottleNext ==
    \/ \E c \in Clients : PassRequest(c) \/ RefuseRequest(c)
    \/ ThrottleTick

ThrottleSpec == ThrottleInit /\ [][ThrottleNext]_thrVars

-----------------------------------------------------------------------------
Spaced(times, n) ==
    \A j \in DOMAIN times : j + n \in DOMAIN times => times[j + n] - times[j] >= Minute

\* However the table is swept and whatever place a client loses and gets again,
\* no client has more than Rpm requests let through in any 60 seconds, and the
\* table keeps to its bound.
MinuteHeld ==
    /\ \A c \in Clients : Spaced(passed[c], Rpm)
    /\ Cardinality(DOMAIN windows) <= MaxClients
=============================================================================
