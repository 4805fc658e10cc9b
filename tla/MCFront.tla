------------------------------ MODULE MCFront ------------------------------
(***************************************************************************)
(* The parts that meet the outside, each on a small instance: the HTTP     *)
(* handlers with their budgets, the request throttle, the tools and their  *)
(* approvals, the client of remote tools, and the two message protocols.   *)
(* They share no variable, so a behaviour is about one of them, chosen in  *)
(* the initial state, and the variables of the others keep their values.   *)
(***************************************************************************)
EXTENDS Gateway, McpClient, AgentProtocol

CONSTANTS
    s1, s2,                           \* Gateway: the subjects
    q1, q2, x, y, k1, k2, k3,         \* Tools, Throttle, McpClient
    n1, n2,                           \* SecureProtocol: the nodes
    a, b, task, answer, once, beat,   \* AgentProtocol: agents and envelopes
    Foci                              \* the components to check

VARIABLE focus

-----------------------------------------------------------------------------
Jwt == [kind |-> "jwt", signed |-> TRUE, stored |-> FALSE, active |-> FALSE,
        expired |-> FALSE, scopes |-> {"completions:write"}, subject |-> s1]
Key == [kind |-> "key", signed |-> FALSE, stored |-> TRUE, active |-> TRUE,
        expired |-> FALSE, scopes |-> {"admin"}, subject |-> s2]
MCCredentials == {Jwt, Key, [Jwt EXCEPT !.expired = TRUE], [Key EXCEPT !.active = FALSE],
                  [Key EXCEPT !.scopes = {}]}

Body(api, kind) ==
    [api |-> api, kind |-> kind, refusedField |-> FALSE, single |-> TRUE, format |-> TRUE,
     tools |-> TRUE, turns |-> TRUE, large |-> FALSE, givesTools |-> FALSE,
     modelAllowed |-> TRUE, blocked |-> FALSE]
MCBodies == {Body("chat", "chat"), Body("chat", "tools"), Body("chat", "stream"),
             [Body("chat", "stream") EXCEPT !.givesTools = TRUE],
             Body("messages", "plain"),
             [Body("messages", "stream") EXCEPT !.givesTools = TRUE],
             [Body("chat", "chat") EXCEPT !.blocked = TRUE],
             [Body("chat", "chat") EXCEPT !.turns = FALSE]}
MCSubjects == {s1, s2}

MCCallerOf == q1 :> x @@ q2 :> y
Offer(n) == [name |-> n, named |-> TRUE, schema |-> TRUE]
MCOffered == {Offer("read"), [Offer("odd") EXCEPT !.schema = FALSE]}
MCToolOf == [c \in RemoteCalls |-> "read"]

MCSkew == n1 :> 0 @@ n2 :> 1

\* A task and its answer, an exactly-once message and a broadcast.
MCSender == task :> a @@ answer :> b @@ once :> a @@ beat :> a
MCRecipient == task :> b @@ answer :> a @@ once :> b @@ beat :> Everybody
MCMode == task :> "at_least_once" @@ answer :> "at_least_once"
          @@ once :> "exactly_once" @@ beat :> "exactly_once"
MCReplyTo == answer :> task

-----------------------------------------------------------------------------
Init ==
    /\ focus \in Foci
    /\ GatewayInit /\ ThrottleInit /\ ToolsInit /\ McpInit /\ StpInit /\ DapInit

Rest ==
    /\ UNCHANGED focus
    /\ IF focus = "gateway" THEN TRUE ELSE UNCHANGED gateVars
    /\ IF focus = "throttle" THEN TRUE ELSE UNCHANGED thrVars
    /\ IF focus = "tools" THEN TRUE ELSE UNCHANGED toolVars
    /\ IF focus = "mcp" THEN TRUE ELSE UNCHANGED mcpVars
    /\ IF focus = "stp" THEN TRUE ELSE UNCHANGED stpVars
    /\ IF focus = "dap" THEN TRUE ELSE UNCHANGED dapVars

Next ==
    \/ focus = "gateway" /\ GatewayNext /\ Rest
    \/ focus = "throttle" /\ ThrottleNext /\ Rest
    \/ focus = "tools" /\ ToolsNext /\ Rest
    \/ focus = "mcp" /\ McpNext /\ Rest
    \/ focus = "stp" /\ StpNext /\ Rest
    \/ focus = "dap" /\ DapNext /\ Rest

Spec == Init /\ [][Next]_<<gateVars, thrVars, toolVars, mcpVars, stpVars, dapVars, focus>>

=============================================================================
