---------------------------- MODULE MCServices ----------------------------
(***************************************************************************)
(* The services behind the handlers, each on a small instance.  They share *)
(* no variable, so a behaviour is about one of them, chosen in the initial *)
(* state, and the variables of the others keep their values.               *)
(***************************************************************************)
EXTENDS Planning, Answers, AgentQueue, LocalRuntime, Keys, Training, Migrations,
        Context, Triggers

CONSTANT Foci    \* the components to check

VARIABLE focus

-----------------------------------------------------------------------------
\* Planning: two cloud providers and a local server, one policy of each kind.

MCLocal == {"own"}
MCProviders == {"a", "b", "own"}
MCCatalogue == [ma |-> "a", mb |-> "b"]
MCListed == [own |-> {"mo"}]
MCDefault == [a |-> "ma", b |-> "mb", own |-> "mo"]
MCProfile ==
    [ma |-> [tools |-> TRUE, vision |-> TRUE, streaming |-> TRUE, window |-> 3, output |-> 1],
     mb |-> [tools |-> FALSE, vision |-> FALSE, streaming |-> TRUE, window |-> 1, output |-> 0]]
MCTooled == {"a", "b", "own"}
MCSighted == {"a", "own"}
MCOwnCaps == [mo |-> [tools |-> FALSE, vision |-> TRUE, window |-> 2]]
MCCost == [a |-> 3, b |-> 1, own |-> 0]
MCWeights == [cost |-> 1, latency |-> 1, health |-> 1]
MCSettings ==
    [strategy : {"cheapest", "fastest", "balanced", "round_robin", "fallback"}, failover : {TRUE}]
    \cup {[strategy |-> "balanced", failover |-> FALSE]}

AnyPolicy == [name |-> "any", strategy |-> "balanced", weights |-> [cost |-> 2, latency |-> 1],
              ceiling |-> 0, chain |-> << >>, fallback |-> None, provider |-> None,
              model |-> None, allow |-> None, deny |-> {}]
MCPolicies ==
    { [AnyPolicy EXCEPT !.name = "quick", !.strategy = "fastest", !.ceiling = 1, !.deny = {"a"}],
      [AnyPolicy EXCEPT !.name = "turns", !.strategy = "round_robin", !.allow = {"a", "b"}],
      [AnyPolicy EXCEPT !.name = "chain", !.strategy = "fallback", !.chain = <<"b", "own">>],
      [AnyPolicy EXCEPT !.name = "pin", !.strategy = "explicit", !.provider = "b",
                        !.chain = <<"own", "a">>],
      [AnyPolicy EXCEPT !.name = "models", !.strategy = "cheapest", !.model = "ma",
                        !.fallback = "mx", !.ceiling = 1],
      [AnyPolicy EXCEPT !.name = "same", !.fallback = "ma"] }

AnyRequest == [model |-> None, preferred |-> None, policy |-> None, private |-> FALSE,
               difficulty |-> None, tools |-> FALSE, stream |-> FALSE, images |-> FALSE,
               size |-> 1, out |-> 0]
PlanRequests ==
    { AnyRequest,
      [AnyRequest EXCEPT !.private = TRUE, !.out = 1],
      [AnyRequest EXCEPT !.out = 2],
      [AnyRequest EXCEPT !.difficulty = "easy", !.images = TRUE],
      [AnyRequest EXCEPT !.difficulty = "hard", !.size = 2],
      [AnyRequest EXCEPT !.model = "mb", !.policy = [AnyPolicy EXCEPT !.deny = {"b"}]],
      [AnyRequest EXCEPT !.model = "mx"],
      [AnyRequest EXCEPT !.model = "mo", !.private = TRUE],
      [AnyRequest EXCEPT !.preferred = "a", !.private = TRUE],
      [AnyRequest EXCEPT !.preferred = "b", !.stream = TRUE],
      WithTools(AnyRequest) }
    \cup {[AnyRequest EXCEPT !.policy = q, !.private = (q.name = "chain")] : q \in MCPolicies}
MCWorkloads == {PlanRequests, {}}

-----------------------------------------------------------------------------
\* PolicyStore: bodies that are valid, name an unknown provider, or are refused.

Plain == [strategy |-> "balanced", weights |-> Absent, ceiling |-> Absent, hedge |-> Absent,
          chain |-> << >>, allow |-> Absent, deny |-> {}, provider |-> Absent]
MCBodies == {Plain, [Plain EXCEPT !.strategy = "fallback", !.chain = <<"p">>],
             [Plain EXCEPT !.deny = {"x"}]}

\* AgentQueue, Keys, Migrations, Training and Triggers
Completion(m) == [model |-> m, embeds |-> FALSE]
Embedding(m) == [model |-> m, embeds |-> TRUE]
MCScripts ==
    { [asks |-> <<Completion("g"), Completion("h"), Embedding("g")>>, restarts |-> 0],
      [asks |-> <<Completion("g"), Completion("g")>>, restarts |-> 2] }
MCUrgency == [j1 |-> 1, j2 |-> 0]
MCNameOf == [k1 |-> "a", k2 |-> "a", k3 |-> "s1", k4 |-> "s2"]
MCRelease == [old |-> 1, new |-> 3, new2 |-> 3]
MCDatasets == [valid : {TRUE}, supported : {TRUE}, small : {TRUE}, cheap : BOOLEAN]
MCPriced == {<<"v", "m1">>}
MCKind == [a |-> "interval", b |-> "event", c |-> "webhook"]
MCListens == [a |-> "", b |-> "run.finished", c |-> ""]
MCWants == [hook |-> {"budget.warning", "budget.exceeded"}]

-----------------------------------------------------------------------------
Init ==
    /\ focus \in Foci
    /\ PlanningInit /\ PolicyInit /\ AnswersInit /\ QueueInit /\ LocalInit /\ DownloadInit
    /\ KeysInit /\ PoolInit /\ TrainingInit /\ MigrationsInit /\ ContextInit
    /\ TriggersInit
    /\ wanted = IF focus = "planning" THEN PlanRequests ELSE {}
    /\ focus # "planning" => setting = [strategy |-> "balanced", failover |-> TRUE]
    /\ focus # "policies" => file.at = 0
    /\ focus # "local" => limit = 2

Rest ==
    /\ UNCHANGED focus
    /\ IF focus = "planning" THEN TRUE ELSE UNCHANGED planVars
    /\ IF focus = "policies" THEN TRUE ELSE UNCHANGED polVars
    /\ IF focus = "answers" THEN TRUE ELSE UNCHANGED ansVars
    /\ IF focus = "queue" THEN TRUE ELSE UNCHANGED queueVars
    /\ IF focus = "local" THEN TRUE ELSE UNCHANGED localVars
    /\ IF focus = "downloads" THEN TRUE ELSE UNCHANGED dlVars
    /\ IF focus = "keys" THEN TRUE ELSE UNCHANGED keyVars
    /\ IF focus = "pool" THEN TRUE ELSE UNCHANGED poolVars
    /\ IF focus = "training" THEN TRUE ELSE UNCHANGED trainVars
    /\ IF focus = "migrations" THEN TRUE ELSE UNCHANGED migVars
    /\ IF focus = "context" THEN TRUE ELSE UNCHANGED ctxVars
    /\ IF focus = "triggers" THEN TRUE ELSE UNCHANGED trVars

Next ==
    \/ focus = "planning" /\ PlanningNext /\ Rest
    \/ focus = "policies" /\ PolicyNext /\ Rest
    \/ focus = "answers" /\ AnswersNext /\ Rest
    \/ focus = "queue" /\ QueueNext /\ Rest
    \/ focus = "local" /\ LocalNext /\ Rest
    \/ focus = "downloads" /\ DownloadNext /\ Rest
    \/ focus = "keys" /\ KeysNext /\ Rest
    \/ focus = "pool" /\ PoolNext /\ Rest
    \/ focus = "training" /\ TrainingNext /\ Rest
    \/ focus = "migrations" /\ MigrationsNext /\ Rest
    \/ focus = "context" /\ ContextNext /\ Rest
    \/ focus = "triggers" /\ TriggersNext /\ Rest

Spec ==
    Init /\ [][Next]_<<planVars, polVars, ansVars, queueVars, localVars, dlVars, keyVars,
                       poolVars, trainVars, migVars, ctxVars, trVars, focus>>

-----------------------------------------------------------------------------
\* A plan holds only providers that may serve the request and leaves out none
\* that could, also under a policy; and the policies in force are those of the
\* file with the edits made at run time, through every reload.
PoliciesKept == PlanKeepsItsWord /\ EditsSurvive
=============================================================================
