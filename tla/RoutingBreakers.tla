-------------------------- MODULE RoutingBreakers --------------------------
(***************************************************************************)
(* Routing seen from one circuit breaker.  The history variable label      *)
(* gives every leg the label CircuitBreaker gives its callers: admitted by *)
(* a closed circuit, as a probe, or in a period that has since ended.      *)
(* With it, what the router does to the breaker of a provider is a         *)
(* behaviour of CircuitBreaker: every admitted call is settled once, on    *)
(* every path, and by nobody else.  Completions and streams keep to it;    *)
(* an embedding that is cancelled does not.                                *)
(***************************************************************************)
EXTENDS Routing

CONSTANT Watched   \* the provider looked at; any one that stays registered

ASSUME WatchedAssumption == Watched \in Providers \ Droppable

VARIABLE label

Started(x) ==
    Unsettled(LegOf(x)') /\ (~Unsettled(LegOf(x)) \/ LegOf(x)'.prov # LegOf(x).prov)

LabelInit == Init /\ label = [x \in LegIds |-> "idle"]

LabelNext ==
    label' = [x \in LegIds |->
        LET p == LegOf(x)'.prov
        IN  IF ~Unsettled(LegOf(x)') THEN "idle"
            ELSE IF Started(x)
            THEN IF breaker'[p].state = "closed" THEN "fresh" ELSE "probe"
            ELSE IF breaker'[p].state # breaker[p].state THEN "stale"
            ELSE label[x]]

LabelledSpec == LabelInit /\ [][Next /\ LabelNext]_<<vars, label>>

\* The breaker of Watched, with the legs that call it as its callers.
CB == INSTANCE CircuitBreaker WITH
        b <- breaker[Watched],
        calls <- [x \in LegIds |->
                    IF LegOf(x).prov = Watched THEN label[x] ELSE "idle"],
        Calls <- LegIds

\* Refinement: the router drives the breaker of a provider as CircuitBreaker
\* says its callers do: record_success, record_failure or release exactly once
\* per admission, whatever mixture of retry, failover, hedging, streaming and
\* cancellation a call goes through.
BreakerRefined == CB!Spec
=============================================================================
