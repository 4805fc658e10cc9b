------------------------------ MODULE Planning ------------------------------
(***************************************************************************)
(* Which providers a request is sent to, and in which order: the planning  *)
(* half of coreai/router.py, with the policies of coreai/policy.py.        *)
(* Routing.tla models what happens along a plan, and lets the plan be any  *)
(* order; here it is computed.                                             *)
(*                                                                         *)
(*   registry   Router.providers, a dict in the order of registration      *)
(*   open       the providers whose breaker would not allow a call         *)
(*   lat        provider_stats[name]["latency_ms_history"]                 *)
(*   sick       the providers whose health score is low                    *)
(*   over       the models the model gate refuses (BudgetExceeded)         *)
(*   away       the local servers that are down or have a full queue       *)
(*   rr, prr    _rr_index and _policy_rr, modulo Wheel                     *)
(*   setting    the strategy and the failover switch of RoutingConfig      *)
(*   wanted     the requests that clients make                             *)
(*                                                                         *)
(* A plan is a sequence of [p, m]: a provider and the model it should use, *)
(* None for its default.  Scores are integers: the code's fractions        *)
(* multiplied by both of their denominators.  Abstracted: the text of      *)
(* errors and of explain()'s trace, the decay of a health score (a         *)
(* provider is sick or not).                                               *)
(***************************************************************************)
EXTENDS Integers, FiniteSets, TLC, SequencesExt, Functions

CONSTANTS
    Providers, Local,  \* all of them, and the self-hosted ones
    Catalogue,         \* the owner of each catalogued model
    Listed,            \* the models a local server lists
    Default,           \* default_model of each provider
    Profile,           \* what each catalogued model can do, output 0 for no limit
    Tooled, Sighted,   \* providers that support tools, and images
    OwnCaps,           \* what each local model can do, window 0 for no limit
    Cost,              \* estimate_cost() of each provider
    Latencies,         \* bound: the latencies observed
    HistorySize,       \* _LATENCY_HISTORY_SIZE
    MinSamples,        \* _MIN_SAMPLES
    ColdLatency,       \* the latency of a provider without history
    Weights,           \* cost, latency and health weights of RoutingConfig
    Settings,          \* the strategies of RoutingConfig, with and without failover
    Policies,          \* the policies a request may name
    Workloads,         \* bound: the sets of requests that clients may make
    Wheel,             \* a multiple of every number of providers
    None,              \* no model, no provider, no policy
    MaxUnusual         \* bound: see Unusual

ASSUME PlanningAssumption ==
    /\ Local \subseteq Providers /\ Tooled \cup Sighted \subseteq Providers
    /\ Cost \in [Providers -> Nat] /\ Latencies \subseteq Nat
    /\ HistorySize \in Nat \ {0} /\ MinSamples \in Nat /\ ColdLatency \in Nat
    /\ \A n \in 1..Cardinality(Providers) : Wheel % n = 0

VARIABLES registry, open, lat, sick, over, away, rr, prr, setting, wanted

planVars == <<registry, open, lat, sick, over, away, rr, prr, setting, wanted>>

PlanningInit ==
    /\ registry = SetToSeq(Providers)
    /\ open = {} /\ sick = {} /\ over = {} /\ away = {}
    /\ lat = [p \in Providers |-> << >>]
    /\ rr = 0 /\ prr = [q \in Policies |-> 0]
    /\ setting \in Settings
    /\ wanted \in Workloads

-----------------------------------------------------------------------------
\* Scores

\* sorted(): stable, so equal keys keep their order.
Ranked(seq, key) ==
    LET before(i, j) == key[seq[i]] < key[seq[j]] \/ (key[seq[i]] = key[seq[j]] /\ i < j)
        rank == SortSeq([i \in DOMAIN seq |-> i], before)
    IN  [i \in DOMAIN seq |-> seq[rank[i]]]

\* _p50_latency(): the median, or none.
P50(p, none) ==
    IF lat[p] = << >> THEN none ELSE SortSeq(lat[p], <)[1 + Len(lat[p]) \div 2]

\* max() or 1.0, so that nothing is divided by zero.
Top(f) == LET top == CHOOSE v \in Range(f) : \A w \in Range(f) : v >= w
          IN  IF top = 0 THEN 1 ELSE top

\* _balanced_scores()
Scores(names, w) ==
    LET S == Range(names)
        delay == [p \in S |-> P50(p, ColdLatency)]
        cost == [p \in S |-> Cost[p]]
    IN  [p \in S |-> w.cost * cost[p] * Top(delay) + w.latency * delay[p] * Top(cost)
                     + (IF p \in sick THEN Weights.health * Top(cost) * Top(delay) ELSE 0)]

\* _failover_order()
FailoverOrder(names) ==
    IF setting.strategy = "fallback" \/ Len(names) < 2 THEN names
    ELSE Ranked(names, Scores(names, Weights))

-----------------------------------------------------------------------------
\* _select_provider() and the strategies.  Turns() says that a choice advances
\* _rr_index.

UnderSampled(names) == SelectSeq(names, LAMBDA p : Len(lat[p]) < MinSamples)

Turns(names) ==
    \/ setting.strategy = "round_robin"
    \/ setting.strategy = "fastest" /\ UnderSampled(names) # << >>

SelectFastest(names) ==
    LET under == UnderSampled(names)
    IN  IF under # << >> THEN under[(rr % Len(under)) + 1]
        ELSE Ranked(names, [p \in Range(names) |-> P50(p, 0)])[1]

SelectProvider(names) ==
    CASE setting.strategy = "cheapest"    -> Ranked(names, Cost)[1]
      [] setting.strategy = "fastest"     -> SelectFastest(names)
      [] setting.strategy = "balanced"    -> Ranked(names, Scores(names, Weights))[1]
      [] setting.strategy = "round_robin" -> names[(rr % Len(names)) + 1]
      [] setting.strategy = "fallback"    -> names[1]

-----------------------------------------------------------------------------
\* Policies

\* Policy.permits()
Permits(q, p) == p \notin q.deny /\ (q.allow = None \/ p \in q.allow)

\* An explicit policy without a chain pins its one provider.
InChain(q, p) ==
    \/ q.strategy \notin {"fallback", "explicit"}
    \/ q.strategy = "fallback" /\ q.chain = << >>
    \/ p = q.provider \/ p \in Range(q.chain)

\* The first loop of _plan_with_policy().
Allowed(q) == SelectSeq(registry, LAMBDA p : Permits(q, p) /\ InChain(q, p))

Eligible(q) == SelectSeq(Allowed(q), LAMBDA p : p \notin open)

Without(seq, S) == SelectSeq(seq, LAMBDA x : x \notin S)

Within(seq, S) == SelectSeq(seq, LAMBDA x : x \in S)

\* The providers within latency_ceiling_ms first; the others stay behind them.
UnderCeiling(q, ranked) ==
    IF q.ceiling = 0 THEN ranked
    ELSE LET in == {p \in Range(ranked) : P50(p, 0) <= q.ceiling}
         IN  Within(ranked, in) \o Without(ranked, in)

\* _rank_for_policy()
RankForPolicy(q, names) ==
    LET w == IF q.strategy = "cheapest" THEN [cost |-> 1, latency |-> 0] ELSE q.weights
        k == prr[q] % Len(names)
    IN  CASE q.strategy = "fallback"    -> Within(q.chain, Range(names))
          [] q.strategy = "round_robin" -> SubSeq(names, k + 1, Len(names)) \o SubSeq(names, 1, k)
          [] q.strategy = "fastest"     ->
                UnderCeiling(q, Ranked(names, [p \in Range(names) |-> P50(p, ColdLatency)]))
          [] OTHER -> UnderCeiling(q, Ranked(names, Scores(names, w)))

\* _owner_of(): the catalogue, then the local servers that list the model.
OwnerOf(m) ==
    LET servers == Within(registry, {p \in Local : m \in Listed[p]})
    IN  CASE m \in DOMAIN Catalogue -> Catalogue[m]
          [] m # None /\ m \notin DOMAIN Catalogue /\ servers # << >> -> servers[1]
          [] OTHER -> None

\* _apply_policy_models(): the owner of the policy's model first, and that of its
\* fallback model second, which may be the same provider again.
Unordered(q) == q.strategy \notin {"explicit", "fallback"}

OwnerFirst(q, order, names, o) ==
    IF Unordered(q) /\ o \in Range(names) THEN <<o>> \o Without(order, {o}) ELSE order

FallbackSecond(q, order, names, f) ==
    IF /\ setting.failover /\ order # << >> /\ f \in Range(names)
       /\ f = order[1] \/ Unordered(q)
    THEN <<order[1], f>> \o Without(Tail(order), {f})
    ELSE order

ApplyPolicyModels(q, order, names) ==
    FallbackSecond(q, OwnerFirst(q, order, names, OwnerOf(q.model)), names, OwnerOf(q.fallback))

\* _policy_models()
PolicyModels(q, order) ==
    [i \in DOMAIN order |->
        LET aimed == IF i = 1 THEN q.model ELSE q.fallback
        IN  [p |-> order[i],
             m |-> IF OwnerOf(aimed) \in {None, order[i]} THEN aimed ELSE None]]

\* An explicit policy puts its provider in front, a chain follows the first.
PinnedFirst(q, ranked, names) ==
    IF q.strategy = "explicit" /\ q.provider \in Range(names)
    THEN <<q.provider>> \o Without(ranked, {q.provider}) ELSE ranked

ChainBehind(q, ranked, names) ==
    IF q.chain # << >> /\ q.strategy # "fallback"
    THEN <<ranked[1]>> \o Within(Without(q.chain, {ranked[1]}), Range(names))
    ELSE ranked

UnlessSingle(r, order) ==
    IF r.model # None \/ ~setting.failover THEN SubSeq(order, 1, 1) ELSE order

WithModels(r, q, order, names) ==
    IF r.model = None THEN ApplyPolicyModels(q, order, names) ELSE order

\* The order of _plan_with_policy() among its eligible providers.
PolicyOrder(r, q, names) ==
    UnlessSingle(r, WithModels(r, q,
        ChainBehind(q, PinnedFirst(q, RankForPolicy(q, names), names), names), names))

-----------------------------------------------------------------------------
\* Plans

Refused == [ok |-> FALSE, order |-> << >>]
Planned(order) == [ok |-> TRUE, order |-> order]
For(order, m) == [i \in DOMAIN order |-> [p |-> order[i], m |-> m]]

\* A provider that the request pins: a model of another one is refused.
PlanPinned(r) ==
    IF r.preferred \notin Range(registry) \/ OwnerOf(r.model) \notin {None, r.preferred}
    THEN Refused ELSE Planned(For(<<r.preferred>>, r.model))

\* An explicit model is served by the provider that owns it.
PlanOwned(r, owner) ==
    IF \/ owner \notin Range(registry) \/ owner \in open
       \/ (r.policy # None /\ ~Permits(r.policy, owner))
    THEN Refused ELSE Planned(For(<<owner>>, r.model))

\* _plan_with_policy(), and the models that go with it.
ModelsFor(r, q, order) ==
    IF r.model # None THEN For(order, r.model) ELSE PolicyModels(q, order)

PlanAmong(r, q, names) ==
    IF names = << >> THEN Refused ELSE Planned(ModelsFor(r, q, PolicyOrder(r, q, names)))

PlanPolicy(r, q) == PlanAmong(r, q, Eligible(q))

Healthy == SelectSeq(registry, LAMBDA p : p \notin open)

\* _candidates_no_side_effects(), and the end of _plan_any(): without a policy the
\* strategy picks the first and the others follow, unless a model is named.
StartingWith(r, primary) ==
    IF ~setting.failover \/ r.model # None THEN <<primary>>
    ELSE <<primary>> \o FailoverOrder(Without(Healthy, {primary}))

DefaultOrder(r) == StartingWith(r, SelectProvider(Healthy))

PlanDefault(r) ==
    IF Healthy = << >> THEN Refused ELSE Planned(For(DefaultOrder(r), r.model))

\* _plan_any()
PlanFor(r, owner) ==
    CASE r.preferred # None -> PlanPinned(r)
      [] r.preferred = None /\ owner # None -> PlanOwned(r, owner)
      [] r.preferred = None /\ owner = None /\ r.policy # None -> PlanPolicy(r, r.policy)
      [] OTHER -> PlanDefault(r)

PlanAny(r) == PlanFor(r, OwnerOf(r.model))

\* _apply_difficulty(): a stable reorder.
ApplyDifficulty(order, difficulty) ==
    LET lead == {c \in Range(order) : (c.p \in Local) = (difficulty = "easy")}
    IN  IF difficulty = None THEN order ELSE Within(order, lead) \o Without(order, lead)

\* Mutant: privacy only keeps the local servers in front.
LocalOnlyFirst(order) ==
    LET mine == {c \in Range(order) : c.p \in Local}
    IN  IF mine = {} THEN Refused ELSE Planned(Within(order, mine) \o Without(order, mine))

\* A private request is only ever sent to local servers.
LocalOnly(order) ==
    LET mine == {c \in Range(order) : c.p \in Local}
    IN  IF mine = {} THEN Refused ELSE Planned(Within(order, mine))

\* _plan()
Directed(r, plan) ==
    IF ~plan.ok THEN plan
    ELSE IF r.private THEN LocalOnly(plan.order)
    ELSE IF r.preferred = None THEN Planned(ApplyDifficulty(plan.order, r.difficulty))
    ELSE plan

Plan(r) == Directed(r, PlanAny(r))

ModelOf(c) == IF c.m # None THEN c.m ELSE Default[c.p]

\* capability_problem() of a local server: nothing is assumed of a model that has
\* no capabilities configured.
HasRoom(r, limit) == limit = 0 \/ r.size + r.out <= limit
NoCaps == [tools |-> FALSE, vision |-> FALSE, window |-> 0]
HookAllows(r, c) ==
    LET caps == IF ModelOf(c) \in DOMAIN OwnCaps THEN OwnCaps[ModelOf(c)] ELSE NoCaps
    IN  /\ c.p \notin away
        /\ r.tools => caps.tools
        /\ r.images => caps.vision
        /\ HasRoom(r, caps.window)

ProfileAllows(r, profile) ==
    /\ r.images => profile.vision
    /\ r.tools => profile.tools
    /\ r.size + r.out <= profile.window
    /\ profile.output = 0 \/ r.out <= profile.output
    /\ r.stream => profile.streaming

\* _model_problem(): unknown models are not blocked.
CanServe(r, c) ==
    /\ r.images => c.p \in Sighted
    /\ r.tools => ~r.stream /\ c.p \in Tooled
    /\ c.p \in Local => HookAllows(r, c)
    /\ ModelOf(c) \in DOMAIN Profile => ProfileAllows(r, Profile[ModelOf(c)])

\* _admit_model()
Admitted(c) == ModelOf(c) \notin over

\* _screen(): a pinned candidate, or the only one, must do; of several, those that
\* cannot serve the request or are over their budget are skipped.
Screened(r, plan) ==
    LET good == {c \in Range(plan.order) : CanServe(r, c) /\ Admitted(c)}
        alone == r.preferred # None \/ r.model # None \/ Len(plan.order) = 1
    IN  IF \/ ~plan.ok \/ good = {}
           \/ (alone /\ good # Range(plan.order))
        THEN Refused ELSE Planned(Within(plan.order, good))

Screen(r) == Screened(r, Plan(r))

\* can_offer_tools(): the plan of a request with tools is asked for.
WithTools(r) == [r EXCEPT !.tools = TRUE, !.stream = FALSE]

\* explain(): the order it answers with.
Explain(r) ==
    CASE r.preferred # None ->
            IF r.preferred \in Range(registry) THEN Planned(<<r.preferred>>) ELSE Refused
      [] r.preferred = None /\ r.policy # None ->
            IF Eligible(r.policy) = << >> THEN Refused
            ELSE Planned(PolicyOrder(r, r.policy, Eligible(r.policy)))
      [] OTHER -> IF Healthy = << >> THEN Refused ELSE Planned(DefaultOrder(r))

-----------------------------------------------------------------------------
\* Steps

\* What making a plan changes: a round-robin position.
Advance(r) ==
    LET owned == r.preferred # None \/ OwnerOf(r.model) # None
        q == r.policy
    IN  /\ prr' = IF /\ ~owned /\ q # None
                     /\ q.strategy = "round_robin" /\ Eligible(q) # << >>
                  THEN [prr EXCEPT ![q] = (@ + 1) % Wheel] ELSE prr
        /\ rr' = IF ~owned /\ q = None /\ Healthy # << >> /\ Turns(Healthy)
                 THEN (rr + 1) % Wheel ELSE rr

\* A request is planned and screened.
RouteRequest(r) ==
    /\ Advance(r)
    /\ UNCHANGED <<registry, open, lat, sick, over, away, setting, wanted>>

\* _record_success(): the history is bounded.
RecordSuccess(p, ms) ==
    /\ p \in Range(registry)
    /\ lat' = [lat EXCEPT ![p] =
                 IF Len(@) = HistorySize THEN Append(Tail(@), ms) ELSE Append(@, ms)]
    /\ sick' = sick \ {p}
    /\ UNCHANGED <<registry, open, over, away, rr, prr, setting, wanted>>

\* _record_error()
RecordError(p) ==
    /\ p \in Range(registry)
    /\ sick' = sick \cup {p}
    /\ UNCHANGED <<registry, open, lat, over, away, rr, prr, setting, wanted>>

\* A breaker opens, or its window ends.
BreakerMoves(p) ==
    /\ p \in Range(registry)
    /\ open' = IF p \in open THEN open \ {p} ELSE open \cup {p}
    /\ UNCHANGED <<registry, lat, sick, over, away, rr, prr, setting, wanted>>

\* A model reaches its cap, or its window ends.
BudgetMoves(m) ==
    /\ over' = IF m \in over THEN over \ {m} ELSE over \cup {m}
    /\ UNCHANGED <<registry, open, lat, sick, away, rr, prr, setting, wanted>>

\* A local server goes down or comes up, its queue fills up or has room again.
ServerMoves(p) ==
    /\ p \in Range(registry)
    /\ away' = IF p \in away THEN away \ {p} ELSE away \cup {p}
    /\ UNCHANGED <<registry, open, lat, sick, over, rr, prr, setting, wanted>>

\* set_provider() of a new name, and drop_provider(): its tables start afresh.
SetProvider(p) ==
    /\ p \notin Range(registry)
    /\ registry' = Append(registry, p)
    /\ UNCHANGED <<open, lat, sick, over, away, rr, prr, setting, wanted>>

DropProvider(p) ==
    /\ p \in Range(registry)
    /\ registry' = Without(registry, {p})
    /\ open' = open \ {p} /\ sick' = sick \ {p} /\ away' = away \ {p}
    /\ lat' = [lat EXCEPT ![p] = << >>]
    /\ UNCHANGED <<over, rr, prr, setting, wanted>>

\* How far a state is from the initial one: open, sick, away, measured and missing
\* providers, refused models, round robins under way.
Unusual ==
    Cardinality(open) + Cardinality(sick) + Cardinality(over) + Cardinality(away)
    + Cardinality({p \in Providers : lat[p] # << >>}) + Cardinality(Providers \ Range(registry))
    + Cardinality({q \in Policies : prr[q] # 0}) + (IF rr = 0 THEN 0 ELSE 1)

PlanningNext ==
    /\ \/ \E r \in wanted : RouteRequest(r)
       \/ \E p \in Providers : \/ RecordError(p) \/ BreakerMoves(p)
                               \/ SetProvider(p) \/ DropProvider(p)
                               \/ \E ms \in Latencies : RecordSuccess(p, ms)
       \/ \E p \in Local : ServerMoves(p)
       \/ \E m \in {Default[p] : p \in Providers} : BudgetMoves(m)
    /\ Unusual' <= MaxUnusual

-----------------------------------------------------------------------------
NamesOf(order) == [i \in DOMAIN order |-> order[i].p]

\* Who may serve a request, as the docs say it: the pinned provider, the owner of
\* the model, or whom the policy allows and whose breaker is not open.
MayServe(r, p) ==
    /\ p \in Range(registry)
    /\ r.private => p \in Local
    /\ CASE r.preferred # None -> p = r.preferred
         [] r.preferred = None /\ OwnerOf(r.model) # None -> p = OwnerOf(r.model)
         [] OTHER -> TRUE
    /\ r.preferred = None => p \notin open /\ (r.policy # None => Permits(r.policy, p))

GoesRight(r, order) ==
    LET reach == {p \in Providers : MayServe(r, p) /\ CanServe(r, [p |-> p, m |-> None])
                                     /\ Admitted([p |-> p, m |-> None])}
    IN  /\ \A i \in DOMAIN order : MayServe(r, order[i].p) /\ CanServe(r, order[i])
        /\ IsInjective(order)
        /\ (/\ setting.failover /\ r.model = None /\ r.preferred = None
            /\ r.policy # None => r.policy.chain = << >> /\ r.policy.strategy # "explicit"
                                  /\ r.policy.model = None /\ r.policy.fallback = None)
           => reach = Range(NamesOf(order))

SameOrder(told, plan) == told.ok = plan.ok /\ told.order = NamesOf(plan.order)

\* A request only ever goes to providers that may serve it, no candidate comes
\* twice, and a plan that may fail over leaves no provider out that could have
\* served the request.  "Dry run: say where *request* would go": explain() answers
\* what would be planned, of a request that names no model and is neither private
\* nor graded (it does not look at these).
PlanKeepsItsWord ==
    \A r \in wanted :
        /\ GoesRight(r, Screen(r).order)
        /\ r.model = None /\ ~r.private /\ r.difficulty = None => SameOrder(Explain(r), Plan(r))

-----------------------------------------------------------------------------
(***************************************************************************)
(* PolicyStore of coreai/policy.py: the policies of a file that is read    *)
(* again when it changes, with the edits of administrators over them.      *)
(*                                                                         *)
(*   file        the file: its modification time and what it says, a       *)
(*               policy for each of some names                             *)
(*   seen        _mtime                                                    *)
(*   due         the clock has reached _next_check                         *)
(*   base        _set, the policies of the last good file                  *)
(*   edits, removed, effective                                             *)
(*               _edits, _removed and _effective                           *)
(*   asked       history: the last edit of each name ("set" or "removed")  *)
(*                                                                         *)
(* Abstracted: YAML, the text of problems, the audit callback.             *)
(***************************************************************************)

CONSTANTS
    Names,         \* the names of policies
    PolicyBodies,  \* what a body may say
    Known,         \* known_providers
    STRATEGIES,
    Absent,        \* no file, no value, no edit
    MaxWrites      \* bound: changes of the file

VARIABLES file, seen, due, base, edits, removed, effective, asked

polVars == <<file, seen, due, base, edits, removed, effective, asked>>

Mappings == UNION {[S -> PolicyBodies] : S \in SUBSET Names}

\* parse_policies() on one body: everything it reports as a problem.
ValidPolicy(b) ==
    /\ b.strategy \in STRATEGIES
    /\ b.weights # Absent => /\ b.weights.cost >= 0 /\ b.weights.latency >= 0
                             /\ b.weights.cost + b.weights.latency > 0
    /\ b.ceiling # Absent => b.ceiling > 0
    /\ b.hedge # Absent => b.hedge > 0
    /\ IsInjective(b.chain)
    /\ b.allow # Absent => b.allow \cap b.deny = {}
    /\ b.strategy = "explicit" => b.provider # Absent
    /\ b.strategy = "fallback" => b.chain # << >>

\* check_provider(): only names that are registered.
KnownOnly(b) ==
    Range(b.chain) \cup b.deny \cup (IF b.allow = Absent THEN {} ELSE b.allow)
    \cup (IF b.provider = Absent THEN {} ELSE {b.provider}) \subseteq Known

\* load_policies(): the file is taken as a whole, or not at all.
Loadable(text) == text # << >> /\ \A n \in DOMAIN text : ValidPolicy(text[n]) /\ KnownOnly(text[n])

\* Mutant: the names removed at runtime come back with the next file.
MergedForgetting(b, e, r) == [n \in DOMAIN e \cup DOMAIN b |->
                                 IF n \in DOMAIN e THEN e[n] ELSE b[n]]

\* _merge()
Merged(b, e, r) == [n \in DOMAIN e \cup (DOMAIN b \ r) |->
                       IF n \in DOMAIN e THEN e[n] ELSE b[n]]

PolicyInit ==
    /\ file \in [at : {1}, text : Mappings] \cup {[at |-> 0, text |-> << >>]}
    /\ seen = file.at
    /\ due = FALSE
    /\ base = IF Loadable(file.text) THEN file.text ELSE << >>
    /\ edits = << >> /\ removed = {}
    /\ effective = Merged(base, edits, removed)
    /\ asked = [n \in Names |-> Absent]

-----------------------------------------------------------------------------
\* Somebody writes the file; two writes may fall within the granularity of mtime.
WriteFile(text, tick) ==
    /\ file.at + tick <= MaxWrites
    /\ file' = [at |-> IF file.at = 0 THEN 1 ELSE file.at + tick, text |-> text]
    /\ UNCHANGED <<seen, due, base, edits, removed, effective, asked>>

Elapse ==
    /\ ~due
    /\ due' = TRUE
    /\ UNCHANGED <<file, seen, base, edits, removed, effective, asked>>

\* current() once the interval is over: _load() looks at the file, and keeps the
\* previous policies when the new ones are bad.
Reload ==
    /\ due
    /\ due' = FALSE
    /\ seen' = IF file.at = 0 THEN seen ELSE file.at
    /\ base' = IF file.at \notin {0, seen} /\ Loadable(file.text) THEN file.text ELSE base
    /\ effective' = Merged(base', edits, removed)
    /\ UNCHANGED <<file, edits, removed, asked>>

\* set_policy(): refused with every problem, or in force from now on.
SetPolicy(n, b) ==
    /\ ValidPolicy(b) /\ KnownOnly(b)
    /\ edits' = [x \in DOMAIN edits \cup {n} |-> IF x = n THEN b ELSE edits[x]]
    /\ removed' = removed \ {n}
    /\ effective' = Merged(base, edits', removed')
    /\ asked' = [asked EXCEPT ![n] = "set"]
    /\ UNCHANGED <<file, seen, due, base>>

\* remove_policy()
RemovePolicy(n) ==
    /\ edits' = Restrict(edits, DOMAIN edits \ {n})
    /\ removed' = IF n \in DOMAIN base THEN removed \cup {n} ELSE removed
    /\ effective' = Merged(base, edits', removed')
    /\ asked' = [asked EXCEPT ![n] = IF n \in DOMAIN base THEN "removed" ELSE @]
    /\ UNCHANGED <<file, seen, due, base>>

PolicyNext ==
    \/ \E text \in Mappings, tick \in {0, 1} : WriteFile(text, tick)
    \/ Elapse \/ Reload
    \/ \E n \in Names : RemovePolicy(n) \/ \E b \in PolicyBodies : SetPolicy(n, b)

-----------------------------------------------------------------------------
\* "an edited name overrides the file's policy with the same name, a removed name
\* is hidden, and both survive later file reloads"; and nothing that does not
\* validate is ever in force.
EditsSurvive ==
    /\ \A n \in Names : /\ n \in DOMAIN edits => n \in DOMAIN effective /\ effective[n] = edits[n]
                        /\ asked[n] = "removed" /\ n \notin DOMAIN edits => n \notin DOMAIN effective
    /\ \A n \in DOMAIN effective : ValidPolicy(effective[n]) /\ KnownOnly(effective[n])
=============================================================================
