--------------------------- MODULE AgentProtocol ---------------------------
(***************************************************************************)
(* The message router of protocols/distributed_agent.py: agents that come  *)
(* and go, bounded queues of sealed envelopes, acknowledgements and the    *)
(* de-duplication of exactly-once messages.                                *)
(*                                                                         *)
(*   dapNow     the time, in seconds                                       *)
(*   life       how often each agent was registered                        *)
(*   there      the registered agents                                      *)
(*   queues     the queue of each registration, which outlives it          *)
(*   sessions   the session of each registration                           *)
(*   hops       hop_count of each envelope                                 *)
(*   coro       the calls of send(), and how they have ended               *)
(*   acks       _pending_acks: for each envelope the coroutine whose       *)
(*              future is registered                                       *)
(*   marked     _delivered                                                 *)
(*   seenBy     history: how often each agent has opened each envelope     *)
(*                                                                         *)
(* send() runs without interruption but for queue.put() on a full queue    *)
(* ("put") and the wait for the acknowledgement ("ack").  Envelopes are    *)
(* model values with a sender, a recipient and a delivery mode; payloads   *)
(* and checksums (which nothing verifies) are left out; sequence numbers   *)
(* do not come to their limit.                                             *)
(***************************************************************************)
EXTENDS SecureProtocol, SequencesExt

CONSTANTS
    Peers,              \* the agents
    Envelopes,
    Sender, Recipient, Mode,    \* of each envelope
    Everybody,          \* the recipient of a broadcast
    ReplyTo,            \* the envelopes that answer another, and which
    MaxSends,           \* bound: calls of send()
    QUEUE_SIZE, MAX_ROUTING_HOPS, TTL_S,
    MaxLives,           \* bound: registrations of an agent
    MaxNow              \* bound: the time

ASSUME DapAssumption ==
    /\ Sender \in [Envelopes -> Peers] /\ Recipient \in [Envelopes -> Peers \cup {Everybody}]
    /\ Mode \in [Envelopes -> {"at_most_once", "at_least_once", "exactly_once"}]
    /\ Everybody \notin Peers /\ DOMAIN ReplyTo \subseteq Envelopes
    /\ QUEUE_SIZE \in Nat \ {0} /\ MAX_ROUTING_HOPS \in Nat /\ TTL_S \in Nat
    /\ MaxSends \in Nat /\ MaxLives \in Nat /\ MaxNow \in Nat

\* make_reply(): whom the question was for answers it.  No coroutine is Nobody.
ASSUME ReplyAssumption ==
    /\ \A e \in DOMAIN ReplyTo : ReplyTo[e] \in Envelopes /\ Sender[e] = Recipient[ReplyTo[e]]
    /\ Everybody \notin 1..MaxSends

VARIABLES dapNow, life, there, queues, sessions, hops, coro, acks, marked, seenBy

dapVars == <<dapNow, life, there, queues, sessions, hops, coro, acks, marked, seenBy>>

Coroutines == 1..MaxSends
Lives == Peers \X (1..MaxLives)
Free == [at |-> "free", env |-> Everybody, box |-> << >>, item |-> << >>]
Nobody == Everybody

DapInit ==
    /\ dapNow = 0
    /\ life = [a \in Peers |-> 0]
    /\ there = {}
    /\ queues = [l \in Lives |-> << >>]
    /\ sessions = [l \in Lives |-> NoSession]
    /\ hops = [e \in Envelopes |-> 0]
    /\ coro = [c \in Coroutines |-> Free]
    /\ acks = [e \in Envelopes |-> Nobody]
    /\ marked = {}
    /\ seenBy = [a \in Peers |-> [e \in Envelopes |-> 0]]

-----------------------------------------------------------------------------
Box(a) == <<a, life[a]>>

\* register_agent(): a new queue and a session with keys of its own.
Register(a) ==
    /\ a \notin there /\ life[a] < MaxLives
    /\ life' = [life EXCEPT ![a] = @ + 1]
    /\ there' = there \cup {a}
    /\ sessions' = [sessions EXCEPT ![<<a, life[a] + 1>>] = NewSession(<<a, life[a] + 1>>)]
    /\ UNCHANGED <<dapNow, queues, hops, coro, acks, marked, seenBy>>

Deregister(a) ==
    /\ a \in there
    /\ there' = there \ {a}
    /\ UNCHANGED <<dapNow, life, queues, sessions, hops, coro, acks, marked, seenBy>>

-----------------------------------------------------------------------------
\* send()

IsFull(l) == Len(queues[l]) >= QUEUE_SIZE

\* Calls are numbered in the order they begin.
Idle(c) == coro[c].at = "free" /\ \A d \in Coroutines : d < c => coro[d].at # "free"

\* is_expired: a task is made at time 0 and may be sent again much later; an
\* answer is new.
IsExpired(e) == e \notin DOMAIN ReplyTo /\ dapNow > TTL_S
Looping(e) == hops[e] >= MAX_ROUTING_HOPS
Duplicate(e) == Mode[e] = "exactly_once" /\ e \in marked
Passes(e) == ~IsExpired(e) /\ ~Looping(e)

Marked(e) == IF Mode[e] = "exactly_once" THEN marked \cup {e} ELSE marked

\* The agent that answers a task has opened it, and acknowledges it once its
\* answer was sent: send_result().
MaySend(e) ==
    e \in DOMAIN ReplyTo => hops[e] = 0 /\ seenBy[Sender[e]][ReplyTo[e]] > 0

\* acknowledge(): the future that is registered is resolved; nobody may be
\* waiting for it any more.
Acknowledged(e, co) ==
    [c \in Coroutines |-> IF c = acks[e] /\ co[c].at = "ack"
                          THEN [co[c] EXCEPT !.at = "acked"] ELSE co[c]]
Acking(e) == IF e \in DOMAIN ReplyTo THEN {ReplyTo[e]} ELSE {}

Over(c, e, how) == [coro EXCEPT ![c] = [Free EXCEPT !.at = how, !.env = e]]

\* send() returns; of an answer, send_result() then acknowledges the question.
Returns(c, e, how) ==
    /\ coro' = IF e \in DOMAIN ReplyTo THEN Acknowledged(ReplyTo[e], Over(c, e, how))
               ELSE Over(c, e, how)
    /\ acks' = [q \in Envelopes |-> IF q \in Acking(e) THEN Nobody ELSE acks[q]]

\* The envelope is expired: send() returns.
Expire(c, e) ==
    /\ Idle(c) /\ MaySend(e) /\ IsExpired(e)
    /\ Returns(c, e, "dropped")
    /\ UNCHANGED <<dapNow, life, there, queues, sessions, hops, marked, seenBy>>

\* It has gone through too many hops: send() raises.
Loop(c, e) ==
    /\ Idle(c) /\ MaySend(e) /\ ~IsExpired(e) /\ Looping(e)
    /\ coro' = Over(c, e, "raised")
    /\ UNCHANGED <<dapNow, life, there, queues, sessions, hops, acks, marked, seenBy>>

\* A duplicate, or a recipient that is not registered: send() returns.
Lose(c, e) ==
    /\ Idle(c) /\ MaySend(e) /\ Passes(e)
    /\ Recipient[e] # Everybody
    /\ Duplicate(e) \/ Recipient[e] \notin there
    /\ hops' = [hops EXCEPT ![e] = @ + 1]
    /\ marked' = Marked(e)
    /\ Returns(c, e, "dropped")
    /\ UNCHANGED <<dapNow, life, there, queues, sessions, seenBy>>

\* _unicast() seals the envelope, before it waits for room in the queue.
Unicast(c, e) ==
    LET l == Box(Recipient[e])
        item == Sealed(sessions[l], dapNow, e)
    IN  /\ Idle(c) /\ MaySend(e) /\ Passes(e) /\ ~Duplicate(e)
        /\ Recipient[e] \in there
        /\ hops' = [hops EXCEPT ![e] = @ + 1]
        /\ marked' = Marked(e)
        /\ sessions' = [sessions EXCEPT ![l] = Numbered(@)]
        /\ coro' = [coro EXCEPT ![c] = [at |-> "put", env |-> e, box |-> l, item |-> item]]
        /\ UNCHANGED <<dapNow, life, there, queues, acks, seenBy>>

\* Mutant: an at-least-once message is taken for acknowledged when it is queued.
PutConfirmed(c) ==
    LET k == coro[c]
    IN  /\ k.at = "put" /\ ~IsFull(k.box)
        /\ queues' = [queues EXCEPT ![k.box] = Append(@, k.item)]
        /\ Returns(c, k.env, "confirmed")
        /\ UNCHANGED <<dapNow, life, there, sessions, hops, marked, seenBy>>

\* There is room in the queue that was looked up when send() began.
Put(c) ==
    LET k == coro[c]
    IN  /\ k.at = "put" /\ ~IsFull(k.box)
        /\ queues' = [queues EXCEPT ![k.box] = Append(@, k.item)]
        /\ IF Mode[k.env] = "at_least_once"
           THEN /\ acks' = [acks EXCEPT ![k.env] = c]
                /\ coro' = [coro EXCEPT ![c].at = "ack"]
           ELSE Returns(c, k.env, "sent")
        /\ UNCHANGED <<dapNow, life, there, sessions, hops, marked, seenBy>>

\* No acknowledgement in time: AckTimeoutError.  The entry of the envelope is
\* dropped, whosever it is.
AckTimeout(c) ==
    LET k == coro[c]
    IN  /\ k.at = "ack"
        /\ coro' = Over(c, k.env, "raised")
        /\ acks' = [acks EXCEPT ![k.env] = Nobody]
        /\ UNCHANGED <<dapNow, life, there, queues, sessions, hops, marked, seenBy>>

\* The caller is cancelled where it waits; its entry stays.
CancelSend(c) ==
    /\ coro[c].at \in {"put", "ack", "acked"}
    /\ coro' = Over(c, coro[c].env, "raised")
    /\ UNCHANGED <<dapNow, life, there, queues, sessions, hops, acks, marked, seenBy>>

AckArrives(c) ==
    /\ coro[c].at = "acked"
    /\ Returns(c, coro[c].env, "confirmed")
    /\ UNCHANGED <<dapNow, life, there, queues, sessions, hops, marked, seenBy>>

\* _broadcast(): every other agent that has room, without waiting.
Broadcast(c, e) ==
    LET to == {l \in Lives : l[1] \in there \ {Sender[e]} /\ l = Box(l[1])}
    IN  /\ Idle(c) /\ MaySend(e) /\ Passes(e) /\ Recipient[e] = Everybody
        /\ hops' = [hops EXCEPT ![e] = @ + 1]
        /\ marked' = Marked(e)
        /\ IF Duplicate(e) THEN UNCHANGED <<queues, sessions>>
           ELSE /\ sessions' = [l \in Lives |-> IF l \in to THEN Numbered(sessions[l]) ELSE sessions[l]]
                /\ queues' = [l \in Lives |-> IF l \in to /\ ~IsFull(l)
                                THEN Append(queues[l], Sealed(sessions[l], dapNow, e))
                                ELSE queues[l]]
        /\ Returns(c, e, "sent")
        /\ UNCHANGED <<dapNow, life, there, seenBy>>

-----------------------------------------------------------------------------
\* unseal(): the session of the queue's registration accepts the item.
Unseals(l, f) == Opens(sessions[l], f, dapNow)

\* receive(): an item that cannot be unsealed is gone.
Receive(a) ==
    LET l == Box(a)
        f == Head(queues[l])
    IN  /\ a \in there /\ queues[l] # << >>
        /\ queues' = [queues EXCEPT ![l] = Tail(@)]
        /\ IF Unseals(l, f)
           THEN /\ sessions' = [sessions EXCEPT ![l] = Received(@, f, dapNow)]
                /\ seenBy' = [seenBy EXCEPT ![a][f.body] = @ + 1]
           ELSE UNCHANGED <<sessions, seenBy>>
        /\ UNCHANGED <<dapNow, life, there, hops, coro, acks, marked>>

\* The agent that asked acknowledges the answer it has opened, with the router's
\* acknowledge(): nothing in the protocol does it.
AcknowledgeReply(e) ==
    /\ e \in DOMAIN ReplyTo /\ seenBy[Recipient[e]][e] > 0 /\ acks[e] # Nobody
    /\ coro' = Acknowledged(e, coro)
    /\ acks' = [acks EXCEPT ![e] = Nobody]
    /\ UNCHANGED <<dapNow, life, there, queues, sessions, hops, marked, seenBy>>

DapTick ==
    /\ dapNow < MaxNow
    /\ dapNow' = dapNow + 1
    /\ UNCHANGED <<life, there, queues, sessions, hops, coro, acks, marked, seenBy>>

DapNext ==
    \/ \E a \in Peers : Register(a) \/ Deregister(a) \/ Receive(a)
    \/ \E c \in Coroutines, e \in Envelopes :
          \/ Expire(c, e) \/ Loop(c, e) \/ Lose(c, e) \/ Broadcast(c, e)
          \/ (Recipient[e] # Everybody /\ Unicast(c, e))
    \/ \E c \in Coroutines : Put(c) \/ AckTimeout(c) \/ CancelSend(c) \/ AckArrives(c)
    \/ \E e \in Envelopes : AcknowledgeReply(e)
    \/ DapTick

DapSpec == DapInit /\ [][DapNext]_dapVars

-----------------------------------------------------------------------------
\* However often a message is sent again, by however many callers, and however agents
\* come and go, an agent opens an exactly-once message at most once: "deduped".  It may
\* never open it.  Nothing retransmits, and nothing awaits an acknowledgement of it: it
\* is marked as delivered when it is sent, also to an agent that is not registered.
OpenedOnce ==
    \A e \in Envelopes : Mode[e] = "exactly_once" => \A a \in Peers : seenBy[a][e] <= 1

\* A send() that waited for an acknowledgement and returned was for a message that its
\* recipient has opened.
ConfirmedWasOpened ==
    \A e \in Envelopes, c \in Coroutines :
        coro[c].at = "confirmed" /\ coro[c].env = e => seenBy[Recipient[e]][e] > 0

\* The two message protocols under a network that repeats and delays: a frame passes
\* the replay guard once, an exactly-once message is opened at most once, and an
\* acknowledgement is of a message that was opened.
ProtocolsSound == FrameOnce /\ OpenedOnce /\ ConfirmedWasOpened
=============================================================================
