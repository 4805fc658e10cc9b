------------------------------ MODULE Answers ------------------------------
(***************************************************************************)
(* What the router keeps of an answer: the cache of coreai/cache.py, the   *)
(* counters per model of coreai/router.py and the unpriced models of       *)
(* coreai/pricing.py.                                                      *)
(*                                                                         *)
(*   store      MemoryCache.store, least recently used first               *)
(*   truth      history: the last answer of each key and when it expires   *)
(*   got        what the last lookup returned                              *)
(*   clock      the clock                                                  *)
(*   models     Router.model_stats: requests counted for each label        *)
(*   unpriced   PriceTable.unpriced: the uses of each label                *)
(*   billed     history: the answers recorded for each provider, and those *)
(*              of them that had no price                                  *)
(*                                                                         *)
(* A key stands for the provider, the model, the messages and the options  *)
(* that _make_key() hashes.  An answer is the number of the call that gave *)
(* it.  Abstracted: tokens, latencies and rates.                           *)
(***************************************************************************)
EXTENDS Integers, FiniteSets, Functions, SequencesExt, Selections

CONSTANTS
    Vendors,       \* the providers
    Labels,        \* the models they answer with
    Priced,        \* the pairs of them with a price of their own
    TTLs,          \* cache_ttl_seconds, 0 for no caching
    MaxEntries,    \* max_entries
    MaxModels,     \* _MAX_MODELS_PER_PROVIDER
    MaxUnpriced,   \* _MAX_UNPRICED_TRACKED
    MaxAnswers,    \* bound: answers
    MaxTime        \* bound: the clock

ASSUME AnswersAssumption ==
    /\ IsFiniteSet(Vendors) /\ MaxModels \in Nat /\ MaxUnpriced \in Nat
    /\ TTLs \subseteq Nat /\ MaxEntries \in Nat \ {0}

VARIABLES store, truth, got, clock, models, unpriced, billed

ansVars == <<store, truth, got, clock, models, unpriced, billed>>

CacheKeys == Vendors \X Labels
NoAnswer == [v |-> 0, exp |-> 0]
Answered == FoldSet(LAMBDA p, n : n + billed[p].all, 0, Vendors)

AnswersInit ==
    /\ store = << >> /\ got = 0 /\ clock = 0
    /\ truth = [k \in CacheKeys |-> NoAnswer]
    /\ models = << >> /\ unpriced = << >>
    /\ billed = [p \in Vendors |-> [all |-> 0, none |-> 0]]

-----------------------------------------------------------------------------
\* MemoryCache

Dropped(k) == Picked(store, {i \in DOMAIN store : store[i].k # k})

Live(s) == Picked(s, {i \in DOMAIN s : clock < s[i].exp})

Fitting(s) == Picked(s, {i \in DOMAIN s : i > Len(s) - MaxEntries})

\* Mutant: the entry that was added last makes room.
CacheSetEvictingNewest(k, v, ttl) ==
    LET all == Append(Dropped(k), [k |-> k, v |-> v, exp |-> clock + ttl])
    IN  IF ttl = 0 THEN Dropped(k)
        ELSE IF Len(all) > MaxEntries THEN SubSeq(all, 1, MaxEntries) ELSE all

\* set(): at the limit the expired entries go first, then the least recently used.
CacheSet(k, v, ttl) ==
    LET all == Append(Dropped(k), [k |-> k, v |-> v, exp |-> clock + ttl])
    IN  IF ttl = 0 THEN Dropped(k)
        ELSE IF Len(all) > MaxEntries THEN Fitting(Live(all)) ELSE all

\* get(): an expired entry is removed, a live one becomes the most recently used.
Lookup(k) ==
    LET hits == {i \in DOMAIN store : store[i].k = k /\ clock < store[i].exp}
        found == store[CHOOSE i \in hits : TRUE]
    IN  /\ got' = IF hits # {} THEN found.v ELSE 0
        /\ store' = IF hits # {} THEN Append(Dropped(k), found) ELSE Dropped(k)
        /\ UNCHANGED <<truth, clock, models, unpriced, billed>>

ClearCache ==
    /\ store # << >>
    /\ store' = << >> /\ got' = 0
    /\ UNCHANGED <<truth, clock, models, unpriced, billed>>

-----------------------------------------------------------------------------
\* Counters whose labels are bounded

\* Mutant: a label that is already there starts again.
CountedAnew(f, label) == [x \in DOMAIN f \cup {label} |-> IF x = label THEN 1 ELSE f[x]]

Counted(f, label) == [x \in DOMAIN f \cup {label} |->
                         (IF x \in DOMAIN f THEN f[x] ELSE 0) + (IF x = label THEN 1 ELSE 0)]

\* _model_entry(): past the cap of a provider, its other models share a label.
ModelEntry(p, m) ==
    IF \/ <<p, m>> \in DOMAIN models
       \/ Cardinality({x \in DOMAIN models : x[1] = p}) < MaxModels
    THEN <<p, m>> ELSE <<p, "other">>

\* _note_unpriced(): past the cap of the table, the models of a provider do.
UnpricedEntry(p, m) ==
    IF <<p, m>> \in DOMAIN unpriced \/ Cardinality(DOMAIN unpriced) < MaxUnpriced
    THEN <<p, m>> ELSE <<p, "other">>

\* A provider has answered: PriceTable.cost(), _record_success() with
\* _record_usage(), and _cache_response().
AnswerArrives(p, m, ttl) ==
    LET v == Answered + 1
    IN  /\ v <= MaxAnswers
        /\ models' = Counted(models, ModelEntry(p, m))
        /\ unpriced' = IF <<p, m>> \in Priced THEN unpriced
                       ELSE Counted(unpriced, UnpricedEntry(p, m))
        /\ billed' = [billed EXCEPT ![p] =
                        [all |-> @.all + 1,
                         none |-> IF <<p, m>> \in Priced THEN @.none ELSE @.none + 1]]
        /\ store' = CacheSet(<<p, m>>, v, ttl)
        /\ truth' = [truth EXCEPT ![<<p, m>>] =
                        IF ttl = 0 THEN NoAnswer ELSE [v |-> v, exp |-> clock + ttl]]
        /\ got' = 0
        /\ UNCHANGED clock

\* _settle_stream(): priced and recorded, never cached.
StreamSettles(p, m) ==
    /\ Answered < MaxAnswers
    /\ models' = Counted(models, ModelEntry(p, m))
    /\ unpriced' = IF <<p, m>> \in Priced THEN unpriced
                   ELSE Counted(unpriced, UnpricedEntry(p, m))
    /\ billed' = [billed EXCEPT ![p] =
                    [all |-> @.all + 1,
                     none |-> IF <<p, m>> \in Priced THEN @.none ELSE @.none + 1]]
    /\ UNCHANGED <<store, truth, got, clock>>

PassTime ==
    /\ clock < MaxTime
    /\ clock' = clock + 1
    /\ UNCHANGED <<store, truth, got, models, unpriced, billed>>

AnswersNext ==
    \/ \E p \in Vendors, m \in Labels : \/ \E ttl \in TTLs : AnswerArrives(p, m, ttl)
                                        \/ StreamSettles(p, m)
                                        \/ Lookup(<<p, m>>)
    \/ ClearCache \/ PassTime

AnswersSpec == AnswersInit /\ [][AnswersNext]_ansVars

-----------------------------------------------------------------------------
InStore(k) == \E i \in DOMAIN store : store[i].k = k

\* A lookup returns the last answer of its own key, and not after its time; an
\* answer that is to be kept is found; and a live one gives way only when it is the
\* least recently used of more than MaxEntries.
CacheHonest ==
    [][\A k \in CacheKeys :
          /\ Lookup(k) /\ got' # 0 => got' = truth[k].v /\ clock < truth[k].exp
          /\ truth[k]' \notin {truth[k], NoAnswer} => InStore(k)'
          /\ InStore(k) /\ ~InStore(k)' /\ clock < truth[k].exp
             => \/ store' = << >> \/ truth[k]' = NoAnswer
                \/ (k = Live(store)[1].k /\ Len(Live(store)') = MaxEntries)]_ansVars

\* The counts of a provider's labels, one by one
OfVendor(f, p) == {x \in DOMAIN f : x[1] = p}
Total(f, p) == Cardinality(UNION {{x} \X (1..f[x]) : x \in OfVendor(f, p)})

\* The counters keep at most one label more than their cap (per provider), and
\* lose no request for it.
BooksBalance ==
    \A p \in Vendors :
        /\ Total(models, p) = billed[p].all /\ Total(unpriced, p) = billed[p].none
        /\ Cardinality(OfVendor(models, p)) <= MaxModels + 1
        /\ Cardinality(DOMAIN unpriced) <= MaxUnpriced + Cardinality(Vendors)
=============================================================================
