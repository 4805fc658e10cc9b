------------------------------ MODULE Messages ------------------------------
(***************************************************************************)
(* The conversation a request carries, and its translation to and from the *)
(* dialects of the providers (providers/base.py, anthropic.py, gemini.py,  *)
(* openai.py and the adapters written after it).                           *)
(*                                                                         *)
(*   conv    the messages of the conversation, a sequence of               *)
(*           [role, text, calls, answers, images]                          *)
(*   issued  the number of answers with tool calls given so far            *)
(*                                                                         *)
(* text says whether the content is not empty, calls are [id, name], and   *)
(* images are none, inline data or a link.  A wire message is [role,       *)
(* parts, list], where a part [kind, of, id, name] comes from message of.  *)
(* The conversation grows as the gateway's tool loop and its clients grow  *)
(* it: each call of an answer gets its result before anything else is      *)
(* said, and each turn may be answered by another provider.                *)
(***************************************************************************)
EXTENDS Integers, Sequences, FiniteSets, SequencesExt

CONSTANTS
    UserSays,       \* what a user may say: [text, images]
    RawAnswers,     \* what a service may answer: [text, names of tools called]
    MaxMessages     \* bound: messages of a conversation

ASSUME MessagesAssumption == MaxMessages \in Nat

VARIABLES conv, issued

messageVars == <<conv, issued>>

Message(role) == [role |-> role, text |-> TRUE, calls |-> << >>, answers |-> <<0, 0>>, images |-> "none"]
NoId == <<0, 0>>

-----------------------------------------------------------------------------
\* base.py

\* validate_conversation()
Valid(ms) ==
    LET rest == SelectSeq(ms, LAMBDA m : m.role # "system")
    IN  /\ rest # << >>
        /\ rest[1].role = "user" /\ Last(rest).role \in {"user", "tool"}
        /\ \A i \in DOMAIN rest : rest[i].role = "tool" => rest[i].answers # NoId

\* split_system(): the messages with their places, the system ones taken out.
Numbered(ms) == [i \in DOMAIN ms |-> [m |-> ms[i], of |-> i]]
SystemOf(ms) == SelectSeq(Numbered(ms), LAMBDA p : p.m.role = "system" /\ p.m.text)
RestOf(ms) == SelectSeq(Numbered(ms), LAMBDA p : p.m.role # "system")

Part(kind, p) == [kind |-> kind, of |-> p.of, id |-> NoId, name |-> ""]
TextPart(p) == IF p.m.text THEN <<Part("text", p)>> ELSE << >>
ImageParts(p) == IF p.m.images = "none" THEN << >> ELSE <<Part("image", p)>>
CallParts(p) == [i \in DOMAIN p.m.calls |->
                   [Part("call", p) EXCEPT !.id = p.m.calls[i].id, !.name = p.m.calls[i].name]]
ResultPart(p, name) == [Part("result", p) EXCEPT !.id = p.m.answers, !.name = name]
Wire(role, parts, list) == [role |-> role, parts |-> parts, list |-> list]

\* openai_messages(): one wire message for each, the text of one with images
\* before them.
OpenAIMessage(p) ==
    IF p.m.role = "tool" THEN Wire("tool", <<ResultPart(p, "")>>, FALSE)
    ELSE IF p.m.role = "assistant" /\ p.m.calls # << >>
         THEN Wire("assistant", TextPart(p) \o CallParts(p), TRUE)
    ELSE IF p.m.images # "none" THEN Wire(p.m.role, TextPart(p) \o ImageParts(p), TRUE)
    ELSE Wire(p.m.role, <<Part("text", p)>>, FALSE)
OpenAIWire(ms) == [i \in DOMAIN RestOf(ms) |-> OpenAIMessage(RestOf(ms)[i])]

-----------------------------------------------------------------------------
\* AnthropicProvider._build_messages(): results of one turn share a message.
AddToLast(ws, part) == Append(Front(ws), [Last(ws) EXCEPT !.parts = Append(@, part)])

\* Mutant: each result is a message of its own.
AnthropicAddOneEach(ws, p) ==
    IF p.m.role = "tool" THEN Append(ws, Wire("user", <<ResultPart(p, "")>>, TRUE))
    ELSE IF p.m.role = "assistant" /\ p.m.calls # << >>
         THEN Append(ws, Wire("assistant", TextPart(p) \o CallParts(p), TRUE))
    ELSE IF p.m.images # "none" THEN Append(ws, Wire(p.m.role, ImageParts(p) \o TextPart(p), TRUE))
    ELSE Append(ws, Wire(p.m.role, <<Part("text", p)>>, FALSE))

AnthropicAdd(ws, p) ==
    IF p.m.role = "tool"
    THEN IF ws # << >> /\ Last(ws).role = "user" /\ Last(ws).list
         THEN AddToLast(ws, ResultPart(p, ""))
         ELSE Append(ws, Wire("user", <<ResultPart(p, "")>>, TRUE))
    ELSE IF p.m.role = "assistant" /\ p.m.calls # << >>
         THEN Append(ws, Wire("assistant", TextPart(p) \o CallParts(p), TRUE))
    ELSE IF p.m.images # "none" THEN Append(ws, Wire(p.m.role, ImageParts(p) \o TextPart(p), TRUE))
    ELSE Append(ws, Wire(p.m.role, <<Part("text", p)>>, FALSE))
AnthropicWire(ms) == FoldLeft(AnthropicAdd, << >>, RestOf(ms))

\* GeminiProvider._build_messages(): a result carries the name its id had last.
NameFor(ms, p) ==
    LET calls == {<<i, j>> \in (1..(p.of - 1)) \X (1..2) :
                    j \in DOMAIN ms[i].calls /\ ms[i].calls[j].id = p.m.answers}
        last == CHOOSE c \in calls : \A d \in calls : d[1] < c[1] \/ (d[1] = c[1] /\ d[2] <= c[2])
    IN  IF calls = {} THEN "tool" ELSE ms[last[1]].calls[last[2]].name
GeminiAdd(ws, p, name) ==
    LET role == IF p.m.role = "assistant" THEN "model" ELSE "user"
        parts == ImageParts(p)
    IN  IF p.m.role = "tool"
        THEN IF ws # << >> /\ Last(ws).role = "user" /\ Last(Last(ws).parts).kind = "result"
             THEN AddToLast(ws, ResultPart(p, name))
             ELSE Append(ws, Wire("user", <<ResultPart(p, name)>>, TRUE))
        ELSE IF p.m.calls # << >> /\ p.m.role = "assistant"
             THEN Append(ws, Wire(role, TextPart(p) \o CallParts(p), TRUE))
        ELSE Append(ws, Wire(role, IF p.m.text \/ parts = << >> THEN Append(parts, Part("text", p))
                                   ELSE parts, TRUE))
GeminiWire(ms) == FoldLeft(LAMBDA ws, p : GeminiAdd(ws, p, NameFor(ms, p)), << >>, RestOf(ms))

\* _blob(): a link is refused.
GeminiTakes(ms) == \A i \in DOMAIN ms : ms[i].images # "url"

-----------------------------------------------------------------------------
\* What an answer [text, names] of the service becomes.  The ids of the calls
\* are the service's, unique, except Gemini's, which the adapter makes up from
\* their place in the answer.
Refused == Message("system")
OpenAIAnswer(a) ==
    [Message("assistant") EXCEPT !.text = a.text,
        !.calls = [i \in DOMAIN a.names |-> [id |-> <<issued + 1, i>>, name |-> a.names[i]]]]
DeepSeekAnswer(a) == OpenAIAnswer(a)
GrokAnswer(a) == OpenAIAnswer(a)
AnthropicAnswer(a) == IF ~a.text /\ a.names = << >> THEN Refused ELSE OpenAIAnswer(a)
GeminiAnswer(a) ==
    [Message("assistant") EXCEPT !.text = a.text /\ a.names = << >>,
        !.calls = [i \in DOMAIN a.names |-> [id |-> <<0, i>>, name |-> a.names[i]]]]

Answered(provider, a) ==
    CASE provider = "openai" -> OpenAIAnswer(a)
      [] provider = "deepseek" -> DeepSeekAnswer(a)
      [] provider = "grok" -> GrokAnswer(a)
      [] provider = "anthropic" -> AnthropicAnswer(a)
      [] provider = "gemini" -> GeminiAnswer(a)

-----------------------------------------------------------------------------
MessagesInit == conv = << >> /\ issued = 0

Pending(ms) ==
    LET lastCall == {i \in DOMAIN ms : ms[i].calls # << >>}
        at == CHOOSE i \in lastCall : \A j \in lastCall : j <= i
    IN  IF lastCall = {} THEN << >>
        ELSE SubSeq(ms[at].calls, Len(ms) - at + 1, Len(ms[at].calls))

Grow(m) == Len(conv) < MaxMessages /\ conv' = Append(conv, m)

Say(role, text, images) ==
    /\ Pending(conv) = << >>
    /\ Grow([Message(role) EXCEPT !.text = text, !.images = images])
    /\ UNCHANGED issued

\* A result for the next call that has none
ToolResult ==
    /\ Pending(conv) # << >>
    /\ Grow([Message("tool") EXCEPT !.answers = Head(Pending(conv)).id])
    /\ UNCHANGED issued

\* complete(): the conversation is checked and sent, the answer translated.
Complete(provider, a) ==
    LET m == Answered(provider, a)
    IN  /\ Valid(conv) /\ Pending(conv) = << >>
        /\ provider = "gemini" => GeminiTakes(conv)
        /\ m # Refused
        /\ Grow(m)
        /\ issued' = IF m.calls = << >> THEN issued ELSE issued + 1

MessagesNext ==
    \/ \E u \in UserSays : Say("user", u.text, u.images)
    \/ Say("system", TRUE, "none")
    \/ ToolResult
    \/ \E p \in {"openai", "deepseek", "grok", "anthropic", "gemini"}, a \in RawAnswers : Complete(p, a)

-----------------------------------------------------------------------------
\* The parts that stand for a message, whatever the dialect
PartsOf(p) ==
    IF p.m.role = "tool" THEN {<<"result", p.of, p.m.answers>>}
    ELSE IF p.m.calls # << >>
         THEN {<<"call", p.of, p.m.calls[i].id>> : i \in DOMAIN p.m.calls}
              \cup {<<"text", p.of, NoId>> : t \in {TRUE} \cap {p.m.text}}
    ELSE {<<"image", p.of, NoId>> : t \in {TRUE} \cap {p.m.images # "none"}}
         \cup {<<"text", p.of, NoId>> : t \in {TRUE} \cap {p.m.text \/ p.m.images = "none"}}
Flat(ws) == FlattenSeq([i \in DOMAIN ws |-> ws[i].parts])

\* No dialect loses, repeats or reorders anything that was said.
NothingLost(ws) ==
    LET flat == Flat(ws)
    IN  /\ {<<flat[i].kind, flat[i].of, flat[i].id>> : i \in DOMAIN flat}
             = UNION {PartsOf(RestOf(conv)[i]) : i \in DOMAIN RestOf(conv)}
        /\ \A i, j \in DOMAIN flat : i < j =>
              flat[i].of <= flat[j].of /\ flat[i] # flat[j]

\* An answer that calls tools is followed by one message with the result of
\* each of its calls, in order.
ResultsTogether(ws) ==
    \A i \in DOMAIN ws :
        LET calls == SelectSeq(ws[i].parts, LAMBDA p : p.kind = "call")
        IN  calls # << >> =>
              /\ i < Len(ws) /\ ws[i + 1].role = "user"
              /\ [j \in DOMAIN calls |-> calls[j].id]
                   = [j \in DOMAIN ws[i + 1].parts |-> ws[i + 1].parts[j].id]

\* Whatever the providers of the earlier turns were, each request that may be
\* sent says in each dialect what the conversation says, the results of one
\* turn in one message where the dialect asks for it, and Gemini's results
\* carry the names of the calls they answer (_build_messages() of each
\* adapter, openai_messages()).
DialectsAgree ==
    Valid(conv) /\ Pending(conv) = << >> =>
        /\ NothingLost(OpenAIWire(conv))
        /\ NothingLost(AnthropicWire(conv))
        /\ NothingLost(GeminiWire(conv))
        /\ ResultsTogether(AnthropicWire(conv))
        /\ ResultsTogether(GeminiWire(conv))
        /\ LET ws == GeminiWire(conv)
           IN  \A i \in DOMAIN ws : \A j \in DOMAIN ws[i].parts :
                  ws[i].parts[j].kind = "result" =>
                      ws[i].parts[j].name = SelectSeq(ws[i - 1].parts, LAMBDA p : p.kind = "call")[j].name

-----------------------------------------------------------------------------
(***************************************************************************)
(* A local model server as the router sees it (providers/local.py), and    *)
(* the usage a stream reports (StreamUsage of providers/base.py, filled in *)
(* the same way by every adapter written after OpenAI's).                  *)
(*                                                                         *)
(*   serverUp    up: what the last probe said                              *)
(*   inflight    inflight                                                  *)
(*   models      models                                                    *)
(*   configured   the default_model of the configuration, "" for none      *)
(*   defaultModel default_model, "" while none is known                    *)
(*   provCalls   the calls of the router: where each is, what it has       *)
(*               reported and what it was told                             *)
(*   tracked     total_requests                                            *)
(*                                                                         *)
(* A call is planned (capability_problem() found nothing), then open       *)
(* (complete() or stream() is inside its try), then over.                  *)
(***************************************************************************)

CONSTANTS
    ProvCalls,       \* the router's calls
    MaxQueue,        \* max_queue, 0 for unlimited
    ServerModels,    \* the models the server may announce
    Unlisted,        \* a model that a configuration names and no server announces
    Chunks,          \* chunks: <<input, output, finish>>, -1 for no count
    Reports          \* bound: reports of a stream

ASSUME ProviderCallsAssumption == MaxQueue \in Nat /\ Reports \in Nat

VARIABLES serverUp, inflight, models, configured, defaultModel, provCalls, tracked

provVars == <<serverUp, inflight, models, configured, defaultModel, provCalls, tracked>>

NoCall == [at |-> "idle", stream |-> FALSE, input |-> 0, output |-> 0, reported |-> FALSE,
           finish |-> "none", reports |-> << >>]

\* sorted(models)[0], or none
FirstOf(found) == IF found = {} THEN "" ELSE CHOOSE m \in found : TRUE

ProvInit ==
    /\ serverUp = TRUE /\ inflight = 0 /\ tracked = 0
    /\ models \in SUBSET ServerModels
    /\ configured \in ServerModels \cup {"", Unlisted}
    /\ defaultModel = IF configured # "" THEN configured ELSE FirstOf(models)
    /\ provCalls = [c \in ProvCalls |-> NoCall]

\* capability_problem(): the server is up and not busy.
NoProblem == serverUp /\ (MaxQueue = 0 \/ inflight < MaxQueue)

\* The router plans a call; it is made later.
PlanCall(c, stream) ==
    /\ provCalls[c].at = "idle" /\ NoProblem
    /\ provCalls' = [provCalls EXCEPT ![c] = [@ EXCEPT !.at = "planned", !.stream = stream]]
    /\ UNCHANGED <<serverUp, inflight, models, configured, defaultModel, tracked>>

\* complete() and stream() as far as the first await; _need_model()
OpenCall(c) ==
    /\ provCalls[c].at = "planned"
    /\ \/ /\ defaultModel # ""
          /\ inflight' = inflight + 1
          /\ provCalls' = [provCalls EXCEPT ![c].at = "open"]
       \/ /\ defaultModel = ""
          /\ provCalls' = [provCalls EXCEPT ![c].at = "failed"]
          /\ UNCHANGED inflight
    /\ UNCHANGED <<serverUp, models, configured, defaultModel, tracked>>

\* complete() returns: the result is counted.
CallReturns(c) ==
    /\ provCalls[c].at = "open" /\ ~provCalls[c].stream
    /\ inflight' = inflight - 1
    /\ tracked' = tracked + 1
    /\ provCalls' = [provCalls EXCEPT ![c].at = "done"]
    /\ UNCHANGED <<serverUp, models, configured, defaultModel>>

\* The stream ends, its reader closes it, or the call fails or is cancelled.
\* Mutant: only a failure takes the call off the count.
GivesBackOnFailure(c, how) == IF how = "failed" THEN inflight - 1 ELSE inflight
GivesBack(c, how) == inflight - 1

CallEnds(c, how) ==
    /\ provCalls[c].at = "open"
    /\ how = "done" => provCalls[c].stream
    /\ inflight' = GivesBack(c, how)
    /\ provCalls' = [provCalls EXCEPT ![c].at = how]
    /\ UNCHANGED <<serverUp, models, configured, defaultModel, tracked>>

\* StreamUsage.report(): a count that is missing leaves the one before it.
Reported(u, i, o) ==
    IF i = -1 /\ o = -1 THEN u
    ELSE [u EXCEPT !.input = IF i = -1 THEN @ ELSE i, !.output = IF o = -1 THEN @ ELSE o,
                   !.reported = TRUE]

\* A chunk of the stream, with or without counts and a finish reason
Chunk(c, chunk) ==
    LET u == provCalls[c]
    IN  /\ u.at = "open" /\ u.stream /\ Len(u.reports) < Reports
        /\ provCalls' = [provCalls EXCEPT ![c] =
               [Reported(u, chunk[1], chunk[2]) EXCEPT !.reports = Append(@, chunk),
                                         !.finish = IF chunk[3] = "none" THEN @ ELSE chunk[3]]]
        /\ UNCHANGED <<serverUp, inflight, models, configured, defaultModel, tracked>>

\* probe() succeeds or fails; refresh_models() is a probe that leaves up alone.
ProbeAnswers(found) ==
    /\ serverUp' = TRUE
    /\ models' = models \cup found
    /\ defaultModel' = IF defaultModel = "" THEN FirstOf(found) ELSE defaultModel
    /\ UNCHANGED <<inflight, configured, provCalls, tracked>>

ProbeFails ==
    /\ serverUp /\ serverUp' = FALSE
    /\ UNCHANGED <<inflight, models, configured, defaultModel, provCalls, tracked>>

RefreshModels(found) ==
    /\ models' = models \cup found
    /\ defaultModel' = IF defaultModel = "" THEN FirstOf(found) ELSE defaultModel
    /\ UNCHANGED <<serverUp, inflight, configured, provCalls, tracked>>

ProvNext ==
    \/ \E c \in ProvCalls :
          \/ \E stream \in BOOLEAN : PlanCall(c, stream)
          \/ OpenCall(c) \/ CallReturns(c)
          \/ \E how \in {"done", "closed", "failed"} : CallEnds(c, how)
          \/ \E chunk \in Chunks : Chunk(c, chunk)
    \/ \E found \in SUBSET ServerModels : ProbeAnswers(found) \/ RefreshModels(found)
    \/ ProbeFails

-----------------------------------------------------------------------------
\* However calls end, by a result, a failure or a reader who goes away,
\* inflight counts the ones inside their try, so that a server that is done
\* with its calls is never taken for busy (complete(), stream()).
InflightCounts == inflight = Cardinality({c \in ProvCalls : provCalls[c].at = "open"})

\* A stream's usage is the last count of each kind that was reported.
UsageIsLast ==
    \A c \in ProvCalls :
        LET u == provCalls[c]
            said(k) == {n \in DOMAIN u.reports : u.reports[n][k] # -1}
            lastOf(k) == IF said(k) = {} THEN 0
                         ELSE u.reports[CHOOSE n \in said(k) : \A m \in said(k) : m <= n][k]
        IN  /\ u.input = lastOf(1) /\ u.output = lastOf(2)
            /\ u.reported <=> said(1) \cup said(2) # {}

\* Results counted are results returned; a server with a model has a default,
\* the configured one, listed or not, or else one of its models.
ProviderCallsSound ==
    /\ InflightCounts /\ UsageIsLast
    /\ tracked = Cardinality({c \in ProvCalls : provCalls[c].at = "done" /\ ~provCalls[c].stream})
    /\ configured # "" => defaultModel = configured
    /\ configured = "" => defaultModel \in models \/ (models = {} /\ defaultModel = "")
=============================================================================
