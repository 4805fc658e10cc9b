--------------------------- MODULE SecureProtocol ---------------------------
(***************************************************************************)
(* The sessions of protocols/secure_protocol.py: SecureSession with its    *)
(* FrameCodec and ReplayGuard, as operators on a session's record.  A key  *)
(* stands for the MAC key of a session, and a frame carries the key it was *)
(* sealed with: decode() accepts it under that key and no other.  Seconds  *)
(* are natural numbers.                                                    *)
(***************************************************************************)
EXTENDS Integers, FiniteSets

CONSTANTS
    REPLAY_WINDOW_S,
    MaxSeq           \* 2^32 - 1 in the code: the sequence number's field

ASSUME SessionAssumption == REPLAY_WINDOW_S \in Nat /\ MaxSeq \in Nat

NewSession(key) == [key |-> key, seq |-> 0, seen |-> {}, open |-> TRUE]
NoSession == [key |-> << >>, seq |-> 0, seen |-> {}, open |-> FALSE]

\* send(): the number is taken first, and a number too large for its field
\* raises in header_bytes().
Numbered(s) == [s EXCEPT !.seq = @ + 1]
Sealable(s) == s.open /\ s.seq < MaxSeq
Sealed(s, now, body) == [key |-> s.key, seq |-> s.seq + 1, ts |-> now, body |-> body]

Distance(a, b) == IF a > b THEN a - b ELSE b - a

\* ReplayGuard.check()
InWindow(now, ts) == Distance(now, ts) <= REPLAY_WINDOW_S
Unseen(s, f) == \A e \in s.seen : e.seq # f.seq

\* Mutant: a frame is forgotten a second before it is too old to be accepted.
KeptShort(seen, now) == {e \in seen : e.ts > now - REPLAY_WINDOW_S + 1}

Kept(seen, now) == {e \in seen : e.ts > now - REPLAY_WINDOW_S}

\* receive(): the MAC, then the window, then the numbers seen.
Opens(s, f, now) == s.open /\ f.key = s.key /\ InWindow(now, f.ts) /\ Unseen(s, f)
Received(s, f, now) ==
    [s EXCEPT !.seen = Kept(@, now) \cup {[seq |-> f.seq, ts |-> f.ts]}]

Shut(s) == [s EXCEPT !.open = FALSE]

-----------------------------------------------------------------------------
(***************************************************************************)
(* Two nodes of the secure transport protocol: STPHandshake and the        *)
(* sessions it leads to, over a network that loses, repeats and reorders.  *)
(*                                                                         *)
(*   clock     the time; a node's clock is ahead of it by Skew[n]          *)
(*   hand      each node's STPHandshake                                    *)
(*   sess      each node's SecureSession                                   *)
(*   wire      every hello, finish and frame ever sent                     *)
(*   opened    history: the bodies each node has received                  *)
(*   again     history: the frames received a second time, with their age  *)
(*                                                                         *)
(* A nonce is a number that is used once.  The keys that are derived are a *)
(* function of the two nonces (the secret is shared and does not change);  *)
(* the session's id is drawn anew by each node.                            *)
(***************************************************************************)

CONSTANTS
    Initiator, Responder,
    Skew,            \* how far each node's clock is ahead
    MaxHellos,       \* bound: hellos
    MaxFrames,       \* bound: frames of a session
    MaxClock         \* bound: the clock

ASSUME StpAssumption ==
    /\ Initiator # Responder
    /\ Skew \in [{Initiator, Responder} -> Nat]
    /\ MaxHellos \in Nat /\ MaxFrames \in Nat /\ MaxClock \in Nat

VARIABLES clock, hand, sess, wire, opened, again

stpVars == <<clock, hand, sess, wire, opened, again>>

Nodes == {Initiator, Responder}
Peer(n) == IF n = Initiator THEN Responder ELSE Initiator
Local(n) == clock + Skew[n]

NoHello == [type |-> "hello", from |-> 0, nonce |-> 0, ts |-> 0]
NoKeys == [i |-> 0, r |-> 0, sid |-> 0]
NewHandshake == [mine |-> NoHello, theirs |-> NoHello, keys |-> NoKeys, verified |-> "unknown"]

StpInit ==
    /\ clock = 0
    /\ hand = [n \in Nodes |-> NewHandshake]
    /\ sess = [n \in Nodes |-> NoSession]
    /\ wire = {}
    /\ opened = [n \in Nodes |-> {}]
    /\ again = {}

Hellos == {m \in wire : m.type = "hello"}

\* A new STPHandshake, and its build_hello().
BuildHello(n) ==
    LET hello == [type |-> "hello", from |-> n, nonce |-> Cardinality(Hellos) + 1,
                  ts |-> Local(n)]
    IN  /\ Cardinality(Hellos) < MaxHellos
        /\ hand' = [hand EXCEPT ![n] = [NewHandshake EXCEPT !.mine = hello]]
        /\ wire' = wire \cup {hello}
        /\ UNCHANGED <<clock, sess, opened, again>>

ReceiveHello(n) ==
    \E hello \in Hellos :
        /\ hello.from = Peer(n)
        /\ hand[n].mine # NoHello /\ hand[n].keys = NoKeys
        /\ InWindow(Local(n), hello.ts)
        /\ hand' = [hand EXCEPT ![n].theirs = hello]
        /\ UNCHANGED <<clock, sess, wire, opened, again>>

\* derive_keys(): the initiator's nonce first, whoever derives.
DeriveKeys(n) ==
    LET h == hand[n]
        i == IF n = Initiator THEN h.mine.nonce ELSE h.theirs.nonce
        r == IF n = Initiator THEN h.theirs.nonce ELSE h.mine.nonce
    IN  /\ h.mine # NoHello /\ h.theirs # NoHello /\ h.keys = NoKeys
        /\ hand' = [hand EXCEPT ![n].keys = [i |-> i, r |-> r, sid |-> n]]
        /\ UNCHANGED <<clock, sess, wire, opened, again>>

\* The MAC of a finish covers the sender's name and its own session's id.
BuildFinish(n) ==
    /\ hand[n].keys # NoKeys
    /\ wire' = wire \cup {[type |-> "finish", from |-> n, keys |-> hand[n].keys]}
    /\ UNCHANGED <<clock, hand, sess, opened, again>>

\* verify_finish() computes the tag with the receiver's keys and session's id.
VerifyFinish(n) ==
    \E m \in wire :
        /\ m.type = "finish" /\ m.from = Peer(n)
        /\ hand' = [hand EXCEPT ![n].verified =
                        IF hand[n].keys = m.keys THEN "yes" ELSE "no"]
        /\ UNCHANGED <<clock, sess, wire, opened, again>>

\* SecureSession(node_id, keys), once for the keys that were derived.
Establish(n) ==
    LET k == hand[n].keys
    IN  /\ k # NoKeys /\ sess[n].key # <<k.i, k.r>>
        /\ sess' = [sess EXCEPT ![n] = NewSession(<<k.i, k.r>>)]
        /\ UNCHANGED <<clock, hand, wire, opened, again>>

\* send(); a sequence number that does not fit is used up and nothing is sent.
SendFrame(n) ==
    /\ sess[n].open /\ sess[n].seq < MaxFrames
    /\ sess' = [sess EXCEPT ![n] = Numbered(@)]
    /\ wire' = IF Sealable(sess[n])
               THEN wire \cup {[type |-> "frame", from |-> n,
                                frame |-> Sealed(sess[n], Local(n), n)]}
               ELSE wire
    /\ UNCHANGED <<clock, hand, opened, again>>

\* receive(), of any frame of the peer that was ever sent.
ReceiveFrame(n) ==
    \E m \in wire :
        /\ m.type = "frame" /\ m.from = Peer(n)
        /\ Opens(sess[n], m.frame, Local(n))
        /\ sess' = [sess EXCEPT ![n] = Received(@, m.frame, Local(n))]
        /\ opened' = [opened EXCEPT ![n] = @ \cup {m.frame}]
        /\ again' = IF m.frame \in opened[n]
                    THEN again \cup {Distance(Local(n), m.frame.ts)} ELSE again
        /\ UNCHANGED <<clock, hand, wire>>

CloseSession(n) ==
    /\ sess[n].open
    /\ sess' = [sess EXCEPT ![n] = Shut(@)]
    /\ UNCHANGED <<clock, hand, wire, opened, again>>

StpTick ==
    /\ clock < MaxClock
    /\ clock' = clock + 1
    /\ UNCHANGED <<hand, sess, wire, opened, again>>

StpNext ==
    \/ \E n \in Nodes :
          \/ BuildHello(n) \/ ReceiveHello(n) \/ DeriveKeys(n) \/ BuildFinish(n)
          \/ VerifyFinish(n) \/ Establish(n) \/ SendFrame(n) \/ ReceiveFrame(n)
          \/ CloseSession(n)
    \/ StpTick

StpSpec == StpInit /\ [][StpNext]_stpVars

-----------------------------------------------------------------------------
\* Whatever the network repeats, ReplayGuard lets a frame through once.  The one
\* exception is a frame whose age is exactly the window: it may be forgotten by
\* the eviction that another frame causes and is not too old yet, for check()
\* rejects what is older than the window and forgets what is as old.
FrameOnce == again \subseteq {REPLAY_WINDOW_S}
=============================================================================
