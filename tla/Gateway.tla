------------------------------ MODULE Gateway ------------------------------
(***************************************************************************)
(* What a completion costs its caller: the handlers of api/routes.py,      *)
(* openai_compat.py and anthropic_compat.py from authentication to the     *)
(* last byte, the budgets of coreai/budgets.py and the ledger of           *)
(* coreai/usage.py.                                                        *)
(*                                                                         *)
(*   call      the requests: where the handler is suspended, what the      *)
(*             providers billed for it so far                              *)
(*   usage     BudgetManager._usage, least recently used first             *)
(*   limits    the limits of each subject, as set or by default            *)
(*   win       the number of the current window                            *)
(*   ledger, charged                                                       *)
(*             all that was ever recorded in the ledger and in the budgets *)
(*   peak      history: the most calls of a subject that were ever between *)
(*             their check and their record at one time                    *)
(*   counted, forgotten                                                    *)
(*             history, of the current window and the present limits: the  *)
(*             requests of a subject that were counted, and how many of    *)
(*             them went with an entry that was dropped from the table     *)
(*                                                                         *)
(* A handler is suspended while it awaits the router ("route"), a tool     *)
(* ("tool"), and around the chunks of a stream ("opened", "sending").      *)
(* A unit of cost is what one answer of a provider costs; tokens are       *)
(* treated like cost.  Abstracted: the router (Routing.tla), the text of   *)
(* messages and errors, alerts, the retention of the ledger.               *)
(***************************************************************************)
EXTENDS Integers, FiniteSets, SequencesExt

CONSTANTS
    MaxCalls,      \* bound: requests
    Subjects,
    Credentials,   \* what a request may present
    Bodies,        \* the requests that may be made
    Model,         \* the model that has a cap of its own
    MaxTracked,    \* max_subjects
    DefaultCap,    \* max_requests of a subject
    ModelCap,      \* max_cost of the model
    NewCap,        \* the cap an administrator may set
    MaxSteps,      \* max_steps of the tool loop
    MaxWindow      \* bound: windows

ASSUME GatewayAssumption ==
    /\ MaxCalls \in Nat /\ \A cred \in Credentials : cred.subject \in Subjects
    /\ MaxTracked \in Nat \ {0} /\ DefaultCap \in Nat /\ NewCap \in Nat
    /\ ModelCap \in Nat /\ MaxSteps \in Nat /\ MaxWindow \in Nat /\ Model \notin Subjects

VARIABLES call, usage, limits, win, ledger, charged, peak, counted, forgotten

past == <<counted, forgotten>>
gateVars == <<call, usage, limits, win, ledger, charged, peak, past>>

Calls == 1..MaxCalls

NoCall == [at |-> "none", subject |-> Model, kind |-> "", model |-> FALSE,
           paid |-> 0, steps |-> 0]
Nothing == [n |-> 0, cost |-> 0]

GatewayInit ==
    /\ call = [c \in Calls |-> NoCall]
    /\ usage = << >>
    /\ limits = [s \in Subjects |-> DefaultCap]
    /\ win = 0
    /\ ledger = [s \in Subjects |-> Nothing]
    /\ charged = [s \in Subjects |-> Nothing]
    /\ peak = [s \in Subjects |-> 0]
    /\ counted = [s \in Subjects |-> 0] /\ forgotten = [s \in Subjects |-> 0]

-----------------------------------------------------------------------------
\* decode_token(): a JWT; _validate_api_key_against_db(): an API key that is stored,
\* active and not expired.
SignedToken(cred) == cred.kind = "jwt" /\ cred.signed /\ ~cred.expired
StoredKey(cred) == cred.kind \in {"key", "bearer"} /\ cred.stored /\ cred.active /\ ~cred.expired

\* get_auth_context(), and require_scope(): the scope covers the call.
Authenticated(cred) == SignedToken(cred) \/ StoredKey(cred)
Authorized(cred, scope) == Authenticated(cred) /\ cred.scopes \cap {scope, "admin"} # {}

\* What is refused with a 400 before anything else.  The fields and the messages of
\* a request, its tools, the format it asks for, and the size of its images.
ToolsWellFormed(body) == body.tools
FormatSupported(body) == body.format
ImagesFit(body) == ~body.large
TurnsConvert(body) == ~body.refusedField /\ body.single /\ body.turns

\* _convert() of the Messages API refuses tools with stream=true besides.
MessagesConvert(body) == ~(body.kind = "stream" /\ body.givesTools)

Convertible(body) ==
    /\ TurnsConvert(body) /\ ToolsWellFormed(body) /\ FormatSupported(body) /\ ImagesFit(body)
    /\ body.api = "messages" => MessagesConvert(body)

\* _filter_input() and the models a key may use, in the chat API.
Permitted(body) == body.api = "chat" => body.modelAllowed /\ ~body.blocked

\* The handler that serves a request.
Handler(body) ==
    IF body.api = "chat" /\ body.kind = "stream" /\ body.givesTools THEN "chat" ELSE body.kind

-----------------------------------------------------------------------------
\* BudgetManager

\* A key has one entry at most.
Without(u, key) ==
    IF \E e \in ToSet(u) : e.key = key
    THEN RemoveAt(u, CHOOSE i \in DOMAIN u : u[i].key = key) ELSE u

\* The entry of a key, if there is one of the current window.
Found(u, key) == {e \in ToSet(u) : e.key = key /\ e.win = win}

\* _current(): the entry of a key in the current window becomes the most recently
\* used; the least recently used ones are dropped.
Current(u, key) ==
    LET fresh == [key |-> key, win |-> win, n |-> 0, cost |-> 0]
        found == Found(u, key)
        entry == IF found = {} THEN fresh ELSE CHOOSE e \in found : TRUE
        all == Append(Without(u, key), entry)
    IN  IF Len(all) > MaxTracked THEN SubSeq(all, 1 + Len(all) - MaxTracked, Len(all))
        ELSE all

\* record(), record_model() and add_usage(): n requests and their cost.
Charge(u, key, n, cost) ==
    LET v == Current(u, key)
        e == v[Len(v)]
    IN  [v EXCEPT ![Len(v)] = [key |-> key, win |-> win, n |-> e.n + n, cost |-> e.cost + cost]]

\* The requests of subject s that table u has counted, those that have gone on the
\* way from u to v, and the history of a step by way of u to v.
Counted(u, s) == IF Found(u, s) = {} THEN 0 ELSE (CHOOSE e \in Found(u, s) : TRUE).n
Lost(u, v, s) == IF \E e \in ToSet(v) : e.key = s THEN 0 ELSE Counted(u, s)
Drops(u, v) ==
    forgotten' = [s \in Subjects |-> forgotten[s] + Lost(usage, u, s) + Lost(u, v, s)]

\* Mutant: a subject at its cap gets one more request.
ExceededLate(u, key) ==
    LET e == Last(Current(u, key))
    IN  IF key = Model THEN e.cost >= ModelCap ELSE e.n > limits[key]

\* _check(): a request would be one too many, or the cost has reached its cap.
Exceeded(u, key) ==
    LET e == Last(Current(u, key))
    IN  IF key = Model THEN e.cost >= ModelCap ELSE e.n + 1 > limits[key]

-----------------------------------------------------------------------------
\* The calls

\* Calls are numbered in the order they arrive.
Arrives(c) == call[c].at = "none" /\ \A d \in Calls : d < c => call[d].at # "none"

Waiting(s) == {c \in Calls : call[c].subject = s /\ call[c].at \in {"route", "tool"}}

\* The handler has answered, or raised what becomes a 4xx or 5xx.
EndCall(c) == call' = [call EXCEPT ![c] = [NoCall EXCEPT !.at = "done"]]

\* The handler awaits something else; what the call has cost and the steps it made.
Awaits(c, at, paid, steps) ==
    LET k == call[c]
    IN  call' = [call EXCEPT ![c] =
           [at |-> at, subject |-> k.subject, kind |-> k.kind, model |-> k.model,
            paid |-> paid, steps |-> steps]]

\* Refused before the budgets are looked at.
Refuse(c) ==
    /\ Arrives(c)
    /\ \E cred \in Credentials, body \in Bodies :
          /\ \/ ~Authorized(cred, "completions:write")
             \/ ~Convertible(body) \/ ~Permitted(body)
          /\ EndCall(c)
    /\ UNCHANGED <<usage, limits, win, ledger, charged, peak, past>>

\* _budget_check(): the subject, then the model the request names or the router
\* picks; the call is suspended in the router.
Begin(c) ==
    /\ Arrives(c)
    /\ \E cred \in Credentials, body \in Bodies, m \in BOOLEAN :
          LET s == cred.subject
              u == Current(usage, s)
          IN  /\ Authorized(cred, "completions:write")
              /\ Convertible(body) /\ Permitted(body)
              /\ usage' = IF ~Exceeded(usage, s) /\ m THEN Current(u, Model) ELSE u
              /\ Drops(u, usage')
              /\ IF Exceeded(usage, s) \/ (m /\ Exceeded(u, Model))
                 THEN EndCall(c) /\ UNCHANGED peak
                 ELSE /\ call' = [call EXCEPT ![c] =
                            [at |-> "route", subject |-> s, kind |-> Handler(body),
                             model |-> m, paid |-> 0, steps |-> 0]]
                      /\ LET k == Cardinality(Waiting(s)) + 1
                         IN  peak' = [peak EXCEPT ![s] = IF k > @ THEN k ELSE @]
    /\ UNCHANGED <<limits, win, ledger, charged, counted>>

\* _budget_record() and _ledger_record(): everything the call cost, once.
Book(c, cost) ==
    LET k == call[c]
        u == Charge(usage, k.subject, 1, cost)
    IN  /\ usage' = IF k.model THEN Charge(u, Model, 1, cost) ELSE u
        /\ Drops(u, usage')
        /\ counted' = [counted EXCEPT ![k.subject] = @ + 1]
        /\ charged' = [charged EXCEPT ![k.subject] = [n |-> @.n + 1, cost |-> @.cost + cost]]
        /\ ledger' = [ledger EXCEPT ![k.subject] = [n |-> @.n + 1, cost |-> @.cost + cost]]
        /\ EndCall(c)

\* The answer is good for the handler.
Answered(c) ==
    /\ call[c].at = "route" /\ call[c].kind # "stream"
    /\ Book(c, call[c].paid + 1)
    /\ UNCHANGED <<limits, win, peak>>

\* _route_validated() asks once more when the answer does not fit the schema.
SchemaRetry(c) ==
    /\ call[c].at = "route" /\ call[c].kind = "chat" /\ call[c].paid = 0
    /\ Awaits(c, "route", 1, call[c].steps)
    /\ UNCHANGED <<usage, limits, win, ledger, charged, peak, past>>

\* The answer is paid for and withheld: it does not fit the schema the second
\* time, or _filter_output() blocks it.
Withheld(c) ==
    /\ call[c].at = "route" /\ call[c].kind \in {"chat", "tools"}
    /\ EndCall(c)
    /\ UNCHANGED <<usage, limits, win, ledger, charged, peak, past>>

\* run_tool_loop(): the model asks for a tool, while steps are left.
AsksForTool(c) ==
    /\ call[c].at = "route" /\ call[c].kind = "tools" /\ call[c].steps < MaxSteps
    /\ Awaits(c, "tool", call[c].paid + 1, call[c].steps)
    /\ UNCHANGED <<usage, limits, win, ledger, charged, peak, past>>

\* The tool has run, or failed; the router is asked again.
ToolReturns(c) ==
    /\ call[c].at = "tool"
    /\ Awaits(c, "route", call[c].paid, call[c].steps + 1)
    /\ UNCHANGED <<usage, limits, win, ledger, charged, peak, past>>

\* A destructive tool that nobody has approved: 409.
NeedsApproval(c) ==
    /\ call[c].at = "tool"
    /\ EndCall(c)
    /\ UNCHANGED <<usage, limits, win, ledger, charged, peak, past>>

\* The router raises, or its model gate does.
RouteRaises(c) ==
    /\ call[c].at = "route"
    /\ EndCall(c)
    /\ UNCHANGED <<usage, limits, win, ledger, charged, peak, past>>

\* The first chunk of a stream: the request is counted now.
Opened(c) ==
    LET s == call[c].subject
        u == Charge(usage, s, 1, 0)
    IN  /\ call[c].at = "route" /\ call[c].kind = "stream"
        /\ usage' = u /\ Drops(u, u)
        /\ counted' = [counted EXCEPT ![s] = @ + 1]
        /\ charged' = [charged EXCEPT ![s].n = @ + 1]
        /\ Awaits(c, "opened", 1, call[c].steps)
        /\ UNCHANGED <<limits, win, ledger, peak>>

StartSending(c) ==
    /\ call[c].at = "opened"
    /\ Awaits(c, "sending", call[c].paid, call[c].steps)
    /\ UNCHANGED <<usage, limits, win, ledger, charged, peak, past>>

\* The client is gone before _generate() has taken its first step.
NeverSent(c) ==
    /\ call[c].at = "opened"
    /\ Awaits(c, "lost", call[c].paid, call[c].steps)
    /\ UNCHANGED <<usage, limits, win, ledger, charged, peak, past>>

\* Mutant: the end of a stream counts the request a second time.
StreamEndsCounted(c) ==
    LET k == call[c]
        u == Charge(usage, k.subject, 1, k.paid)
    IN  /\ k.at = "sending"
        /\ usage' = IF k.model THEN Charge(u, Model, 1, k.paid) ELSE u
        /\ Drops(u, usage')
        /\ counted' = [counted EXCEPT ![k.subject] = @ + 1]
        /\ charged' = [charged EXCEPT ![k.subject] = [n |-> @.n + 1, cost |-> @.cost + k.paid]]
        /\ ledger' = [ledger EXCEPT ![k.subject] = [n |-> @.n + 1, cost |-> @.cost + k.paid]]
        /\ EndCall(c)
        /\ UNCHANGED <<limits, win, peak>>

\* The end of a stream, an error in it, or a client that leaves: _generate()'s
\* finally clause adds the cost, and writes the row of the ledger.
StreamEnds(c) ==
    LET k == call[c]
        u == Charge(usage, k.subject, 0, k.paid)
    IN  /\ k.at = "sending"
        /\ usage' = IF k.model THEN Charge(u, Model, 1, k.paid) ELSE u
        /\ Drops(u, usage')
        /\ charged' = [charged EXCEPT ![k.subject].cost = @ + k.paid]
        /\ ledger' = [ledger EXCEPT ![k.subject] = [n |-> @.n + 1, cost |-> @.cost + k.paid]]
        /\ EndCall(c)
        /\ UNCHANGED <<limits, win, peak, counted>>

-----------------------------------------------------------------------------
\* set_budget() and remove_budget(): new limits start with no usage.
SetLimits(s, cap) ==
    /\ limits[s] # cap
    /\ limits' = [limits EXCEPT ![s] = cap]
    /\ usage' = Without(usage, s)
    /\ counted' = [counted EXCEPT ![s] = 0] /\ forgotten' = [forgotten EXCEPT ![s] = 0]
    /\ UNCHANGED <<call, win, ledger, charged, peak>>

\* get_usage() and get_budget_status() read through _current().
ReadUsage(s) ==
    /\ usage' = Current(usage, s)
    /\ Drops(usage', usage')
    /\ UNCHANGED <<call, limits, win, ledger, charged, peak, counted>>

NextWindow ==
    /\ win < MaxWindow
    /\ win' = win + 1
    /\ counted' = [s \in Subjects |-> 0] /\ forgotten' = [s \in Subjects |-> 0]
    /\ UNCHANGED <<call, usage, limits, ledger, charged, peak>>

GatewayNext ==
    \/ \E c \in Calls :
          \/ Refuse(c) \/ Begin(c) \/ Answered(c) \/ SchemaRetry(c) \/ Withheld(c)
          \/ AsksForTool(c) \/ ToolReturns(c) \/ NeedsApproval(c) \/ RouteRaises(c)
          \/ Opened(c) \/ StartSending(c) \/ NeverSent(c) \/ StreamEnds(c)
    \/ \E s \in Subjects : \/ SetLimits(s, NewCap) \/ SetLimits(s, DefaultCap)
                           \/ ReadUsage(s)
    \/ NextWindow

GatewaySpec == GatewayInit /\ [][GatewayNext]_gateVars

-----------------------------------------------------------------------------
\* What a cap leaves beside the request that is let through last; a cap of 0 lets
\* none through.
Spare(s) == IF limits[s] = 0 THEN 0 ELSE limits[s] - 1

\* Limits are checked before a call and usage is recorded after it: in a window a
\* subject gets past its cap by no more than the calls it had in flight at one time,
\* and what its entries had counted when they were dropped from the table, whichever
\* window a call began in and whenever its limits changed.  A cap of 0 blocks all but
\* what was in flight when it was set.
OvershootBounded ==
    \A s \in Subjects :
        /\ \A e \in ToSet(usage) : e.key = s => e.n <= Spare(s) + peak[s]
        /\ counted[s] <= Spare(s) + peak[s] + forgotten[s]

\* Streams that were counted when they opened and have no row in the ledger yet.
Unbooked(s) ==
    {c \in Calls : call[c].subject = s /\ call[c].at \in {"opened", "sending", "lost"}}

\* The budgets and the ledger are written by different code and at different
\* times, and agree: on the cost always, and on the requests but for the streams
\* that have not ended.
AccountsAgree ==
    \A s \in Subjects :
        /\ charged[s].cost = ledger[s].cost
        /\ charged[s].n = ledger[s].n + Cardinality(Unbooked(s))

\* What the handlers of the chat APIs leave behind: a subject passes its cap by no
\* more than its calls in flight and what the table has forgotten of it, and budgets
\* and ledger tell the same story.
BudgetsSound == OvershootBounded /\ AccountsAgree
=============================================================================
