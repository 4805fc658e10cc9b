------------------------------- MODULE Tools -------------------------------
(***************************************************************************)
(* Calls of destructive tools: tools/registry.py, the approval store of    *)
(* tools/approvals.py, and the two ways to them, the gateway's tool loop   *)
(* (tools/executor.py) and the MCP server (tools/mcp.py).                  *)
(*                                                                         *)
(*   toolNow    the time                                                   *)
(*   items      ApprovalStore._items: ids are numbered as they are opened, *)
(*              so the order of the ids is the order in the dictionary     *)
(*   issued     how many approvals were ever opened                        *)
(*   hits       ToolRegistry._hits                                         *)
(*   granted    history: how often each call was approved                  *)
(*   ran        history: how often each call's handler was started         *)
(*   starts     history: when handlers were started for each caller        *)
(*                                                                         *)
(* A request stands for caller, tool and arguments, the fingerprint of an  *)
(* approval.  From the call to the handler's first await nothing is        *)
(* suspended.  A call that is refused for its name, its caller's grants,   *)
(* its permission or its arguments is refused before any state is touched  *)
(* and is left out.                                                        *)
(***************************************************************************)
EXTENDS Throttle

CONSTANTS
    Requests,
    CallerOf,       \* the caller of each request
    TTL,            \* ttl_s
    MaxItems,       \* max_items
    MaxRateKeys,    \* MAX_RATE_LIMIT_KEYS
    RatePerMinute,
    MaxIssued,      \* bound: approvals
    MaxToolNow      \* bound: the time

ASSUME ToolsAssumption ==
    /\ TTL \in Nat \ {0} /\ MaxItems \in Nat \ {0} /\ RatePerMinute \in Nat \ {0}
    /\ MaxRateKeys \in Nat \ {0} /\ MaxIssued \in Nat /\ MaxToolNow \in Nat

VARIABLES toolNow, items, issued, hits, granted, ran, starts

toolVars == <<toolNow, items, issued, hits, granted, ran, starts>>

Callers == {CallerOf[q] : q \in Requests}

ToolsInit ==
    /\ toolNow = 0
    /\ items = << >>
    /\ issued = 0
    /\ hits = << >>
    /\ granted = [q \in Requests |-> 0]
    /\ ran = [q \in Requests |-> 0]
    /\ starts = [c \in Callers |-> << >>]

-----------------------------------------------------------------------------
\* ApprovalStore

\* _sweep()
Alive == Restrict(items, {a \in DOMAIN items : toolNow - items[a].created < TTL})

Matches(s, q, status) == {a \in DOMAIN s : s[a].req = q /\ s[a].status \in status}

\* request(): an approval that is open already, or a new one, for which the
\* oldest that is denied or used may have to go.
Closed(s) == {a \in DOMAIN s : s[a].status \in {"denied", "used"}}
Roomy(s) ==
    IF Cardinality(DOMAIN s) >= MaxItems /\ Closed(s) # {}
    THEN Restrict(s, DOMAIN s \ {Min(Closed(s))}) ELSE s
Open(q) == [req |-> q, created |-> toolNow, status |-> "pending"]

\* Mutant: an approval stays approved when it is used.
ConsumedNot(s, q) == s

\* consume(): the first approval of exactly this call is spent.
Consumed(s, q) == [s EXCEPT ![Min(Matches(s, q, {"approved"}))].status = "used"]

-----------------------------------------------------------------------------
\* _check_rate(): the windows, purged only when they are at their limit.
RateKeys(c) ==
    IF c \notin DOMAIN hits /\ Cardinality(DOMAIN hits) >= MaxRateKeys
    THEN Swept(hits, toolNow) ELSE hits
RatePlace(c) == c \in DOMAIN RateKeys(c) \/ Cardinality(DOMAIN RateKeys(c)) < MaxRateKeys
RateHits(c) == Recent(WindowOf(RateKeys(c), c), toolNow)
RateOk(c) == RatePlace(c) /\ Len(RateHits(c)) < RatePerMinute

IsApproved(q) == Matches(Alive, q, {"approved"}) # {}

\* The call is approved: the approval is spent and the handler starts.
RunTool(q) ==
    LET c == CallerOf[q]
    IN  /\ IsApproved(q) /\ RateOk(c)
        /\ items' = Consumed(Alive, q)
        /\ hits' = WithKey(RateKeys(c), c, Append(RateHits(c), toolNow))
        /\ ran' = [ran EXCEPT ![q] = @ + 1]
        /\ starts' = [starts EXCEPT ![c] = Append(@, toolNow)]
        /\ UNCHANGED <<toolNow, issued, granted>>

\* The approval is spent and the rate refuses the call.
RateRefuses(q) ==
    LET c == CallerOf[q]
    IN  /\ IsApproved(q) /\ ~RateOk(c)
        /\ items' = Consumed(Alive, q)
        /\ hits' = IF RatePlace(c) THEN WithKey(RateKeys(c), c, RateHits(c)) ELSE RateKeys(c)
        /\ UNCHANGED <<toolNow, issued, granted, ran, starts>>

\* The call is not approved: its caller is told the id of an open approval.
AskApproval(q) ==
    LET old == Matches(Alive, q, {"pending"})
        s == Roomy(Alive)
    IN  /\ ~IsApproved(q) /\ issued < MaxIssued
        /\ IF old = {} /\ Cardinality(DOMAIN s) < MaxItems
           THEN items' = WithKey(s, issued + 1, Open(q)) /\ issued' = issued + 1
           ELSE /\ items' = IF old = {} THEN s ELSE Alive
                /\ UNCHANGED issued
        /\ UNCHANGED <<toolNow, hits, granted, ran, starts>>

\* decide_approval(): once for an approval, while it is there.
Decide(a, approve) ==
    /\ a \in DOMAIN Alive /\ Alive[a].status = "pending"
    /\ items' = [Alive EXCEPT ![a].status = IF approve THEN "approved" ELSE "denied"]
    /\ granted' = IF approve THEN [granted EXCEPT ![Alive[a].req] = @ + 1] ELSE granted
    /\ UNCHANGED <<toolNow, issued, hits, ran, starts>>

\* pending_approvals(), or a decision that comes too late, sweeps the store.
SweepApprovals ==
    /\ Alive # items
    /\ items' = Alive
    /\ UNCHANGED <<toolNow, issued, hits, granted, ran, starts>>

ToolTick ==
    /\ toolNow < MaxToolNow
    /\ toolNow' = toolNow + 1
    /\ UNCHANGED <<items, issued, hits, granted, ran, starts>>

ToolsNext ==
    \/ \E q \in Requests : RunTool(q) \/ RateRefuses(q) \/ AskApproval(q)
    \/ \E a \in 1..MaxIssued, approve \in BOOLEAN : Decide(a, approve)
    \/ SweepApprovals
    \/ ToolTick

ToolsSpec == ToolsInit /\ [][ToolsNext]_toolVars

-----------------------------------------------------------------------------
\* A destructive call runs no more often than a human has approved exactly that
\* call, through expiry, re-use and eviction of approvals and on either way to
\* the registry; and no caller starts a tool more often than its rate in any 60
\* seconds, although windows are purged when there are too many.
ToolRunsAllowed ==
    /\ \A q \in Requests : ran[q] <= granted[q]
    /\ \A c \in Callers : Spaced(starts[c], RatePerMinute)
=============================================================================
