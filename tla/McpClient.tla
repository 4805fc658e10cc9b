----------------------------- MODULE McpClient -----------------------------
(***************************************************************************)
(* The MCP client of tools/mcp_client.py with a server in a child process: *)
(* calls that share one pipe, a process that dies, reconnection and the    *)
(* retry of what provably was not sent.                                    *)
(*                                                                         *)
(*   proc       the number of the child process and whether it is alive    *)
(*   pipe       the calls written to the process and not taken up by it    *)
(*   answers    the calls it has answered                                  *)
(*   sendLock, reLock   StdioTransport._lock, McpClient._reconnect_lock    *)
(*   rpc        the calls of tools/call: where each is suspended, the      *)
(*              process it has picked, its attempt and whether it may try  *)
(*              again                                                      *)
(*   done       history: how often the server has carried out each call    *)
(*                                                                         *)
(* The ids of requests are never used twice, so a reply that nobody waits  *)
(* for is skipped.  With an HTTP server there is no lock and no process;   *)
(* ConnectError takes the place of the broken pipe.                        *)
(*                                                                         *)
(* The registry, with its approvals and rates, calls a remote tool like    *)
(* any other: this module goes on where Tools ends.                        *)
(***************************************************************************)
EXTENDS Tools

CONSTANTS
    RemoteCalls,
    Offered, Allow,      \* the tools a server lists, and the configured ones
    ToolOf,              \* the tool of each call
    MaxProcs             \* bound: processes

NoOne == "nobody"

ASSUME McpAssumption == MaxProcs \in Nat \ {0} /\ NoOne \notin RemoteCalls

VARIABLES proc, pipe, answers, sendLock, reLock, rpc, done

mcpVars == <<proc, pipe, answers, sendLock, reLock, rpc, done>>

NoRpc == [at |-> "none", proc |-> 0, attempt |-> 1, safe |-> FALSE]

\* register_remote_tools(): well named, with a valid schema and allowed.
Registered == {s.name : s \in {s \in Offered : s.named /\ s.schema /\ ("*" \in Allow \/ s.name \in Allow)}}

McpInit ==
    /\ proc = [n |-> 1, up |-> TRUE]
    /\ pipe = {}
    /\ answers = {}
    /\ sendLock = NoOne
    /\ reLock = NoOne
    /\ rpc = [c \in RemoteCalls |-> NoRpc]
    /\ done = [c \in RemoteCalls |-> 0]

IsUp(n) == proc.up /\ proc.n = n
At(c, place) == [rpc EXCEPT ![c].at = place]

\* _rpc(): a failed attempt.  A second one is final; after the first the client
\* reconnects, and tries again if the request was not sent.
Failed(c, sent) ==
    [rpc EXCEPT ![c].at = IF rpc[c].attempt = 2 THEN "over" ELSE "lost",
                ![c].safe = ~sent]

\* send() looks at the process before it waits for the lock.
CallRemote(c) ==
    /\ rpc[c].at = "none" /\ ToolOf[c] \in Registered
    /\ rpc' = [rpc EXCEPT ![c] = [at |-> IF proc.up THEN "lock" ELSE "lost", proc |-> proc.n,
                                  attempt |-> 1, safe |-> ~proc.up]]
    /\ UNCHANGED <<proc, pipe, answers, sendLock, reLock, done>>

\* The lock is free: the request is written, to the process picked before.
WriteRequest(c) ==
    /\ rpc[c].at = "lock" /\ sendLock = NoOne
    /\ IF IsUp(rpc[c].proc)
       THEN rpc' = At(c, "reply") /\ sendLock' = c /\ pipe' = pipe \cup {c}
       ELSE rpc' = Failed(c, FALSE) /\ UNCHANGED <<sendLock, pipe>>
    /\ UNCHANGED <<proc, answers, reLock, done>>

ServerRuns(c) ==
    /\ proc.up /\ c \in pipe
    /\ pipe' = pipe \ {c}
    /\ answers' = answers \cup {c}
    /\ done' = [done EXCEPT ![c] = @ + 1]
    /\ UNCHANGED <<proc, sendLock, reLock, rpc>>

ReadReply(c) ==
    /\ rpc[c].at = "reply" /\ c \in answers
    /\ answers' = answers \ {c}
    /\ rpc' = At(c, "over")
    /\ sendLock' = NoOne
    /\ UNCHANGED <<proc, pipe, reLock, done>>

\* readline() returns nothing: the process is gone.
ReadEnd(c) ==
    /\ rpc[c].at = "reply" /\ ~IsUp(rpc[c].proc) /\ c \notin answers
    /\ rpc' = Failed(c, TRUE)
    /\ sendLock' = NoOne
    /\ UNCHANGED <<proc, pipe, answers, reLock, done>>

\* wait_for() gives up, in the queue for the lock or in wait for the reply; or
\* the tool's own time limit does.
RpcTimeout(c) ==
    /\ rpc[c].at \in {"lock", "reply"}
    /\ rpc' = At(c, "over")
    /\ sendLock' = IF rpc[c].at = "reply" THEN NoOne ELSE sendLock
    /\ UNCHANGED <<proc, pipe, answers, reLock, done>>

ServerDies ==
    /\ proc.up
    /\ proc' = [proc EXCEPT !.up = FALSE]
    /\ pipe' = {}
    /\ UNCHANGED <<answers, sendLock, reLock, rpc, done>>

\* _reconnect(): whatever process there is now is closed, and a new one started.
Reconnect(c) ==
    /\ rpc[c].at = "lost" /\ reLock = NoOne
    /\ reLock' = c
    /\ rpc' = At(c, "closing")
    /\ UNCHANGED <<proc, pipe, answers, sendLock, done>>

CloseServer(c) ==
    /\ rpc[c].at = "closing"
    /\ proc' = [proc EXCEPT !.up = FALSE]
    /\ pipe' = {}
    /\ rpc' = At(c, "starting")
    /\ UNCHANGED <<answers, sendLock, reLock, done>>

StartServer(c) ==
    /\ rpc[c].at = "starting" /\ proc.n < MaxProcs
    /\ proc' = [n |-> proc.n + 1, up |-> TRUE]
    /\ answers' = {}
    /\ rpc' = At(c, "initialize")
    /\ UNCHANGED <<pipe, sendLock, reLock, done>>

\* Mutant: every call is made again after a reconnection.
ReconnectedAlways(c) ==
    [rpc EXCEPT ![c] = [at |-> "lock", proc |-> proc.n, attempt |-> 2, safe |-> rpc[c].safe]]

\* Connected again: the call is made a second time or given up.
Reconnected(c) ==
    IF rpc[c].safe
    THEN [rpc EXCEPT ![c] = [at |-> "lock", proc |-> proc.n, attempt |-> 2, safe |-> TRUE]]
    ELSE At(c, "over")

\* The initialize request goes through the same lock.
Initialized(c) ==
    /\ rpc[c].at = "initialize" /\ sendLock = NoOne /\ proc.up
    /\ rpc' = Reconnected(c)
    /\ reLock' = NoOne
    /\ UNCHANGED <<proc, pipe, answers, sendLock, done>>

\* The process cannot be started, dies first or does not answer in time.
InitializeFails(c) ==
    /\ rpc[c].at \in {"starting", "initialize"}
    /\ rpc' = At(c, "over")
    /\ reLock' = NoOne
    /\ UNCHANGED <<proc, pipe, answers, sendLock, done>>

McpNext ==
    \/ \E c \in RemoteCalls :
          \/ CallRemote(c) \/ WriteRequest(c) \/ ServerRuns(c) \/ ReadReply(c) \/ ReadEnd(c)
          \/ RpcTimeout(c) \/ Reconnect(c) \/ CloseServer(c) \/ StartServer(c)
          \/ Initialized(c) \/ InitializeFails(c)
    \/ ServerDies

McpSpec == McpInit /\ [][McpNext]_mcpVars

-----------------------------------------------------------------------------
\* Whenever the process dies, and whoever reconnects under the others' feet, a
\* remote tool runs at most once for a call: what may have been sent is not sent
\* again.  The pipe is read only by the call that holds its lock.
RemoteOnce ==
    /\ \A c \in RemoteCalls : done[c] <= 1
    /\ \A c \in RemoteCalls : rpc[c].at = "reply" <=> sendLock = c

\* Tools, here and at the other end of a pipe: a destructive call runs no more
\* often than it was approved, a caller keeps to its rate, and a remote tool runs
\* at most once for a call although its server dies and is started again.
ToolCallsSound == ToolRunsAllowed /\ RemoteOnce
=============================================================================
