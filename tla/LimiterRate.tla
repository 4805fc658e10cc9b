---------------------------- MODULE LimiterRate ----------------------------
(***************************************************************************)
(* The limiter with a meter beside it: for each bucket, how much more may  *)
(* be admitted before the provider's rate is exceeded.  The code keeps no  *)
(* such figure (total_requests and total_waits are statistics).  The meter *)
(* starts at a full bucket, grows with time as the bucket does and falls   *)
(* by what each admitted call was charged.                                 *)
(*                                                                         *)
(* Headroom beyond what one full bucket and the slots' reservations can    *)
(* ever use is cut off.  That makes the state finite without a bound on    *)
(* time, and the properties only stronger: admissions are measured over    *)
(* every recent period and not only from the start.                        *)
(***************************************************************************)
EXTENDS Limiter

VARIABLE headroom

rateVars == <<vars, headroom>>

Brim(k) == Capacity[k] + Slots * (IF k = "requests" THEN 1 ELSE Capacity[k])

\* What caller c, let in by this step, was charged in bucket k: what it took
\* now, or had reserved before it slept.
Charged(c, k) == IF acq[c].at = "sleeping" THEN Charge(acq[c].cost)[k]
                 ELSE level[k] - level'[k]

RateInit == Init /\ headroom = Capacity

TickMetered ==
    /\ Tick
    /\ headroom' = [k \in Buckets |-> Least(Brim(k), headroom[k] + Rate[k])]

StepMetered ==
    /\ Step
    /\ \/ Inside' \subseteq Inside /\ UNCHANGED headroom
       \/ \E c \in Inside' \ Inside :
             headroom' = [k \in Buckets |-> headroom[k] - Charged(c, k)]

RateSpec == RateInit /\ [][TickMetered \/ StepMetered]_rateVars

FairRateSpec == RateSpec /\ Fairness

\* What the two buckets are for: the calls admitted cost no more than a full
\* bucket and what time has refilled since, however reservations, refunds,
\* refusals and cancellations interleave.
RateHeld == \A k \in Buckets : headroom[k] >= 0

\* What sleepers have reserved in bucket k, unit by unit.
Sleepers == {c \in Callers : acq[c].at = "sleeping"}
ReservedUnits(k) ==
    {u \in Sleepers \X (1..Capacity[k]) : u[2] <= Charge(acq[u[1]].cost)[k]}

\* The account behind it: what is in the bucket and what sleepers have
\* reserved never exceed what may still be admitted.  A refund can lose tokens
\* at the brim, and can never mint any.
NoTokenMinted ==
    \A k \in Buckets : level[k] + Cardinality(ReservedUnits(k)) <= headroom[k]

\* The rate of a provider, and the account that keeps it.
RateExact == RateHeld /\ NoTokenMinted
=============================================================================
