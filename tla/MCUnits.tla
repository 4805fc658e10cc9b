------------------------------ MODULE MCUnits ------------------------------
(***************************************************************************)
(* The components that stand on their own, each on a small instance: the   *)
(* circuit breaker, retrying, the translation of messages, a local server, *)
(* workflows, the stores of what users and the gateway leave behind, the   *)
(* kernel's helpers and the chat pane.  They share no variable, so a       *)
(* behaviour is about one of them, chosen in the initial state, and the    *)
(* variables of the others keep their values.                              *)
(***************************************************************************)
EXTENDS CircuitBreaker, Retrying, Messages, Workflows, Knowledge, Ledger,
        Housekeeping, ChatPane

CONSTANT Foci    \* the components to check

VARIABLE focus

-----------------------------------------------------------------------------
\* Retrying: every way an exception is classified; a few that calls end with.
Provider(s, y, w, a) == [class |-> "provider", status |-> s, type |-> y, words |-> w, asks |-> a]
MCFailures == {Provider(429, "other", {}, {2}), Provider(503, "other", {}, {5}),
               Provider(0, "timeout", {}, {}), Provider(400, "other", {}, {})}
MCExceptions ==
    MCFailures
    \cup {[Provider(0, "other", {}, {}) EXCEPT !.class = c] : c \in {"deadline", "circuit_open", "rate_limit"}}
    \cup {Provider(s, "other", w, {}) : s \in {429, 503}, w \in {{}, {"quota"}}}
    \cup {Provider(s, "other", {}, {}) : s \in {99, 200, 401, 402, 403, 408, 500, 529}}
    \cup {Provider(0, y, w, {}) : y \in {"other", "timeout", "connection"},
             w \in {{}, {"quota"}, {"overloaded", "quota"}, {"rate limit"}, {"timed out"}, {"connection"}}}
MCDeadlines == {-1, 3}

\* Messages: text, an image, a link; answers with and without text and calls.
MCUserSays == {[text |-> TRUE, images |-> "none"], [text |-> FALSE, images |-> "data"],
               [text |-> TRUE, images |-> "url"]}
MCRawAnswers == {[text |-> TRUE, names |-> << >>], [text |-> FALSE, names |-> << >>],
                 [text |-> TRUE, names |-> <<"t">>], [text |-> FALSE, names |-> <<"u", "t">>]}
MCChunks == {<<1, -1, "none">>, <<-1, 2, "stop">>, <<3, 3, "none">>, <<-1, -1, "none">>}

\* Workflows: two that parse, and files that do not.
Draft(i, t, p) == [id |-> i, tool |-> t, prompt |-> p]
MCDrafts ==
    { <<Draft("a", "none", TRUE), Draft("b", "get", FALSE), Draft("c", "wipe", FALSE)>>,
      <<Draft("a", "none", TRUE), Draft("b", "none", TRUE), Draft("c", "none", TRUE)>>,
      <<Draft("a", "get", FALSE), Draft("a", "none", TRUE)>>,
      <<Draft("input", "none", TRUE)>>, << >>, <<Draft("x", "none", FALSE)>> }
MCGranted == [ann |-> {"get", "wipe"}, bob |-> {"get", "wipe"}, cy |-> {"get"}]

\* Knowledge: paragraphs below, at and above the size of a chunk.
MCTexts == {<<2>>, <<5, 1>>, <<1, 2, 7>>}

-----------------------------------------------------------------------------
UnitsInit ==
    /\ focus \in Foci
    /\ Init /\ RetryingInit /\ MessagesInit /\ ProvInit /\ WorkflowsInit
    /\ MemoryInit /\ RagInit /\ FeedbackInit /\ UsageInit /\ AuditInit /\ BackupInit
    /\ JobsInit /\ WindowsInit /\ ChatInit
    /\ focus # "server" => models = {} /\ configured = ""
    /\ focus # "workflows" => Len(plan) = 3 /\ plan[2].kind = "tool"
    /\ focus # "usage" => usageClock = 0
    /\ focus # "backup" => target = [f \in Stores |-> NoFile]
    /\ focus # "chat" => turns = 0 /\ mode = "chat"

Rest ==
    /\ UNCHANGED focus
    /\ IF focus = "breaker" THEN TRUE ELSE UNCHANGED vars
    /\ IF focus = "retrying" THEN TRUE ELSE UNCHANGED retryVars
    /\ IF focus = "messages" THEN TRUE ELSE UNCHANGED messageVars
    /\ IF focus = "server" THEN TRUE ELSE UNCHANGED provVars
    /\ IF focus = "workflows" THEN TRUE ELSE UNCHANGED wfVars
    /\ IF focus = "memory" THEN TRUE ELSE UNCHANGED memVars
    /\ IF focus = "rag" THEN TRUE ELSE UNCHANGED ragVars
    /\ IF focus = "feedback" THEN TRUE ELSE UNCHANGED fbVars
    /\ IF focus = "usage" THEN TRUE ELSE UNCHANGED usageVars
    /\ IF focus = "audit" THEN TRUE ELSE UNCHANGED auditVars
    /\ IF focus = "backup" THEN TRUE ELSE UNCHANGED backVars
    /\ IF focus = "jobs" THEN TRUE ELSE UNCHANGED jobVars
    /\ IF focus = "windows" THEN TRUE ELSE UNCHANGED windowVars
    /\ IF focus = "chat" THEN TRUE ELSE UNCHANGED chatVars

UnitsNext ==
    \/ focus = "breaker" /\ Next /\ Rest
    \/ focus = "retrying" /\ RetryingNext /\ Rest
    \/ focus = "messages" /\ MessagesNext /\ Rest
    \/ focus = "server" /\ ProvNext /\ Rest
    \/ focus = "workflows" /\ WorkflowsNext /\ Rest
    \/ focus = "memory" /\ MemoryNext /\ Rest
    \/ focus = "rag" /\ RagNext /\ Rest
    \/ focus = "feedback" /\ FeedbackNext /\ Rest
    \/ focus = "usage" /\ UsageNext /\ Rest
    \/ focus = "audit" /\ AuditNext /\ Rest
    \/ focus = "backup" /\ BackupNext /\ Rest
    \/ focus = "jobs" /\ JobsNext /\ Rest
    \/ focus = "windows" /\ WindowsNext /\ Rest
    \/ focus = "chat" /\ ChatNext /\ Rest

\* As in CircuitBreaker!FairSpec.
BreakerFair ==
    /\ WF_vars(focus = "breaker" /\ Tick)
    /\ \A c \in Calls : WF_vars(focus = "breaker" /\ Ends(c))

UnitsSpec ==
    /\ UnitsInit
    /\ [][UnitsNext]_<<vars, retryVars, messageVars, provVars, wfVars, memVars, ragVars, fbVars,
                       usageVars, auditVars, backVars, jobVars, windowVars, chatVars, focus>>
    /\ BreakerFair

-----------------------------------------------------------------------------
\* What a provider's adapter says and counts: every dialect carries the whole
\* conversation, and a local server's counters are those of its calls, however
\* they ended.
ProvidersSound == DialectsAgree /\ ProviderCallsSound
=============================================================================
