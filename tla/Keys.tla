-------------------------------- MODULE Keys --------------------------------
(***************************************************************************)
(* Provider keys managed at runtime: the key store of coreai/keystore.py,  *)
(* the handlers of api/keys_api.py, and load_providers() as far as it      *)
(* turns keys into providers (providers/__init__.py).                      *)
(*                                                                         *)
(*   kept      the entries of the key file                                 *)
(*   secret    the secret the process was started with                     *)
(*   live      Router.providers: the keys behind each name, {} for none;   *)
(*             {Yml} is a server of config/local.yml, which is not managed *)
(*   reload    the calls of reload_providers(): what they have loaded, and *)
(*             the names they have still to apply                          *)
(*   watch     the local servers that monitor_local() probes               *)
(*   crossed   history: since the last reload that began alone, another    *)
(*             one has begun during it                                     *)
(*                                                                         *)
(* An entry has a key (its id), the name of the provider it belongs to,    *)
(* and the secret it was encrypted with.  reload_providers() is suspended  *)
(* only while it refreshes the models of a local server.  Abstracted: the  *)
(* validation of labels and URLs, masking, the rows of listings.           *)
(***************************************************************************)
EXTENDS Integers, FiniteSets, SequencesExt, Sequences, Selections

CONSTANTS
    KeyIds,        \* bound: keys that may be added
    NameOf,        \* the provider name of each key
    Servers,       \* the names of local servers
    EnvNames,      \* the names with a key in the environment
    YmlNames,      \* the names in config/local.yml
    Callers,       \* bound: handlers that run at one time
    MaxSecret      \* bound: secrets

Env == "env"
Yml == "yml"
AllNames == {NameOf[k] : k \in KeyIds} \cup EnvNames \cup YmlNames

ASSUME KeysAssumption == IsFiniteSet(AllNames)

VARIABLES kept, secret, live, reload, watch, crossed

keyVars == <<kept, secret, live, reload, watch, crossed>>

NoReload == [on |-> FALSE, fresh |-> [n \in AllNames |-> {}], todo |-> << >>]

\* load_providers() without local.yml: keys that cannot be decrypted are skipped.
Loaded(K, s) ==
    [n \in AllNames |-> {e.k : e \in {x \in K : NameOf[x.k] = n /\ x.sealed = s}}
                        \cup (IF n \in EnvNames THEN {Env} ELSE {})]

\* At startup the servers of local.yml come last.
AtStart(K, s) == [n \in AllNames |-> IF Loaded(K, s)[n] = {} /\ n \in YmlNames THEN {Yml}
                                     ELSE Loaded(K, s)[n]]

Watched(l) == {n \in Servers \cap AllNames : l[n] # {}}

KeysInit ==
    /\ kept = {} /\ secret = 1 /\ crossed = FALSE
    /\ live = AtStart({}, 1)
    /\ watch = Watched(AtStart({}, 1))
    /\ reload = [c \in Callers |-> NoReload]

-----------------------------------------------------------------------------
\* reload_providers()

\* A name whose provider must be replaced.
Differs(l, fresh, n) == l[n] # {Yml} /\ l[n] # fresh[n]

\* Apply names in order up to the first one that has to be refreshed: that is where
\* the handler is suspended.
Applied(l, fresh, todo) ==
    LET stops == {i \in DOMAIN todo : todo[i] \in Servers /\ Differs(l, fresh, todo[i])}
        upto == IF stops = {} THEN Len(todo) ELSE (CHOOSE i \in stops : \A j \in stops : i <= j) - 1
        now == {todo[i] : i \in 1..upto}
    IN  [live |-> [n \in AllNames |-> IF n \in now /\ Differs(l, fresh, n) THEN fresh[n] ELSE l[n]],
         todo |-> SubSeq(todo, upto + 1, Len(todo))]

\* Mutant: nothing is dropped.
DroppedUnwantedNone(l, fresh) == l

\* Managed providers that are no longer wanted are dropped first.
DroppedUnwanted(l, fresh) == [n \in AllNames |-> IF l[n] # {Yml} /\ fresh[n] = {} THEN {} ELSE l[n]]

Step(c, l, fresh, todo) ==
    LET a == Applied(l, fresh, todo)
    IN  /\ live' = a.live
        /\ reload' = [reload EXCEPT ![c] = IF a.todo = << >> THEN NoReload
                                           ELSE [on |-> TRUE, fresh |-> fresh, todo |-> a.todo]]
        /\ watch' = IF a.todo = << >> THEN Watched(a.live) ELSE watch

BeginReload(c) ==
    LET fresh == Loaded(kept', secret)
        names == {n \in AllNames : fresh[n] # {}}
    IN  /\ ~reload[c].on
        /\ crossed' = \E d \in Callers : reload[d].on
        /\ Step(c, DroppedUnwanted(live, fresh), fresh, SetToSeq(names \ Servers) \o SetToSeq(names \cap Servers))

\* refresh_models() returns, with or without an answer: the provider is set.
Refreshed(c) ==
    LET n == Head(reload[c].todo)
        fresh == reload[c].fresh
    IN  /\ reload[c].on
        /\ Step(c, [live EXCEPT ![n] = fresh[n]], fresh, Tail(reload[c].todo))
        /\ UNCHANGED <<kept, secret, crossed>>

-----------------------------------------------------------------------------
\* add_key(): refused when a server of that name exists; the file is replaced as a
\* whole, and the router is told.
AddKey(c, k) ==
    /\ \A e \in kept : e.k # k /\ (NameOf[k] \in Servers => NameOf[e.k] # NameOf[k])
    /\ kept' = kept \cup {[k |-> k, sealed |-> secret]}
    /\ BeginReload(c)
    /\ UNCHANGED secret

\* delete_key()
DeleteKey(c, k) ==
    /\ \E e \in kept : e.k = k
    /\ kept' = {e \in kept : e.k # k}
    /\ BeginReload(c)
    /\ UNCHANGED secret

\* The gateway is started again, perhaps with another secret.
RestartGateway(s) ==
    /\ secret' = s
    /\ live' = AtStart(kept, s)
    /\ watch' = Watched(AtStart(kept, s))
    /\ reload' = [c \in Callers |-> NoReload]
    /\ crossed' = FALSE
    /\ UNCHANGED kept

KeysNext ==
    \/ \E c \in Callers : \/ Refreshed(c)
                          \/ \E k \in KeyIds : AddKey(c, k) \/ DeleteKey(c, k)
    \/ \E s \in 1..MaxSecret : RestartGateway(s)

KeysSpec == KeysInit /\ [][KeysNext]_keyVars

-----------------------------------------------------------------------------
Settled == \A c \in Callers : ~reload[c].on

\* When no reload is under way, and the last ones did not cross, the router has
\* exactly the providers of the readable keys, with those of the environment and of
\* local.yml, and its local servers are probed.
ReloadConverges ==
    Settled /\ ~crossed =>
        /\ \A n \in AllNames : live[n] # {Yml} => live[n] = Loaded(kept, secret)[n]
        /\ watch = Watched(live)

\* "Keys are stored encrypted (coreai/keystore.py), applied to the running router
\* immediately": a key that was deleted serves no request once the handlers are done.
DeletedKeysAreGone ==
    Settled => \A n \in AllNames : live[n] \subseteq {e.k : e \in kept} \cup {Env, Yml}

-----------------------------------------------------------------------------
(***************************************************************************)
(* Several API keys behind one provider name: KeyPoolProvider of           *)
(* providers/pool.py.  complete(), embed() and stream() walk the same      *)
(* list, made by _order() when the request begins; a stream differs in     *)
(* that an error after its first chunk is always raised.  A key answers as *)
(* it likes: the service behind it is external.                            *)
(***************************************************************************)

CONSTANTS
    Uses,          \* bound: requests
    KeyCount,      \* the number of members
    Cooldown,      \* cooldown_s
    MaxPoolTime    \* bound: clock

ASSUME PoolAssumption == KeyCount \in Nat \ {0} /\ Cooldown \in Nat /\ MaxPoolTime \in Nat

VARIABLES
    poolNow,
    parked,    \* _parked: until when
    turn,      \* _next
    use,       \* per request: where it is, the keys before it, a stream begun
    refusals   \* history: the keys that refused each request, and those it had

poolVars == <<poolNow, parked, turn, use, refusals>>

Members == 0..(KeyCount - 1)

NoUse == [at |-> "none", left |-> << >>, stream |-> FALSE, begun |-> FALSE]

PoolInit ==
    /\ poolNow = 0
    /\ parked = [i \in Members |-> 0]
    /\ turn = 0
    /\ use = [r \in Uses |-> NoUse]
    /\ refusals = [r \in Uses |-> [by |-> {}, live |-> {}]]

\* Mutant: a key that is parked is left out even when all of them are.
OrderLive ==
    LET all == [i \in 1..KeyCount |-> (turn + i - 1) % KeyCount]
    IN  Picked(all, {i \in 1..KeyCount : parked[all[i]] <= poolNow})

\* KeyPoolProvider._order: from the next key on, those that are not parked, or
\* all of them when all are.
Order ==
    LET all   == [i \in 1..KeyCount |-> (turn + i - 1) % KeyCount]
        awake == {i \in 1..KeyCount : parked[all[i]] <= poolNow}
    IN  IF awake = {} THEN all ELSE Picked(all, awake)

\* complete(), embed() or stream() begins.
UsePool(r, stream) ==
    /\ use[r].at = "none"
    /\ use' = [use EXCEPT ![r] = [at |-> "calling", left |-> Order,
                                  stream |-> stream, begun |-> FALSE]]
    /\ turn' = (turn + 1) % KeyCount
    /\ refusals' = [refusals EXCEPT ![r].live = {i \in Members : parked[i] <= poolNow}]
    /\ UNCHANGED <<poolNow, parked>>

Calling(r) == use[r].at = "calling"

FirstChunk(r) ==
    /\ Calling(r) /\ use[r].stream /\ ~use[r].begun
    /\ use' = [use EXCEPT ![r].begun = TRUE]
    /\ UNCHANGED <<poolNow, parked, turn, refusals>>

KeyAnswers(r) ==
    /\ Calling(r)
    /\ use' = [use EXCEPT ![r].at = "answered"]
    /\ UNCHANGED <<poolNow, parked, turn, refusals>>

\* Not an error of the key, or one after the first chunk: raised unchanged.
RaiseUnchanged(r) ==
    /\ Calling(r)
    /\ use' = [use EXCEPT ![r].at = "raised"]
    /\ UNCHANGED <<poolNow, parked, turn, refusals>>

\* The loop ends with the last error, or goes on with the next key.
AfterRefusal(r) == IF Len(use[r].left) = 1 THEN "refused" ELSE "calling"

\* An auth, quota or rate-limit error: _park(), then the next key.
KeyRefuses(r) ==
    /\ Calling(r) /\ ~use[r].begun
    /\ LET i == Head(use[r].left)
       IN  /\ parked' = [parked EXCEPT ![i] = poolNow + Cooldown]
           /\ use' = [use EXCEPT ![r].left = Tail(@), ![r].at = AfterRefusal(r)]
           /\ refusals' = [refusals EXCEPT ![r].by = @ \union {i}]
    /\ UNCHANGED <<poolNow, turn>>

PoolTick ==
    /\ poolNow < MaxPoolTime
    /\ poolNow' = poolNow + 1
    /\ UNCHANGED <<parked, turn, use, refusals>>

PoolNext ==
    \/ PoolTick
    \/ \E r \in Uses : \/ FirstChunk(r) \/ KeyAnswers(r)
                       \/ RaiseUnchanged(r) \/ KeyRefuses(r)
                       \/ \E stream \in BOOLEAN : UsePool(r, stream)

PoolSpec == PoolInit /\ [][PoolNext]_poolVars

-----------------------------------------------------------------------------
\* "One exhausted key does not fail the request while another still works": a
\* request that ends with a key's refusal was refused by every key that was not
\* parked when it began, by every key at all if none was free, whatever other
\* requests parked meanwhile; and none runs out of keys with nothing tried.
PoolTriesAll ==
    \A r \in Uses :
        /\ use[r].at = "calling" => use[r].left # << >>
        /\ use[r].at = "refused" =>
              /\ refusals[r].live \subseteq refusals[r].by
              /\ refusals[r].live = {} => refusals[r].by = Members

\* The keys that are kept are the keys in use: a reload ends with the providers
\* of the readable keys, and a request is refused only once every key of the
\* pool that was not parked has been tried.
KeysSound == ReloadConverges /\ PoolTriesAll
=============================================================================
