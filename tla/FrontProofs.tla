---------------------------- MODULE FrontProofs ----------------------------
(***************************************************************************)
(* Theorems about what serves the clients and the agents: the request      *)
(* throttle, the approvals and rates of the registry of tools, the client  *)
(* of remote tools, the budgets and the ledger, and the two protocols      *)
(* between agents.                                                         *)
(***************************************************************************)
EXTENDS McpClient, AgentProtocol, Gateway, FiniteSetTheorems, SequenceTheorems,
        WellFoundedInduction, TLAPS

-----------------------------------------------------------------------------
\* McpClient: a remote tool runs at most once for a call.

RpcPlaces == {"none", "lock", "reply", "lost", "closing", "starting", "initialize", "over"}

Rpcs == [at : RpcPlaces, proc : Nat, attempt : {1, 2}, safe : BOOLEAN]

McpTypeOK ==
    /\ proc \in [n : Nat, up : BOOLEAN]
    /\ pipe \subseteq RemoteCalls /\ answers \subseteq RemoteCalls
    /\ sendLock \in RemoteCalls \cup {NoOne}
    /\ rpc \in [RemoteCalls -> Rpcs]
    /\ done \in [RemoteCalls -> Nat]

\* The calls that may still be written to the pipe.
MayBeSent(c) ==
    \/ rpc[c].at \in {"none", "lock"}
    \/ rpc[c].at \in {"lost", "closing", "starting", "initialize"} /\ rpc[c].safe = TRUE

\* What may still be written was not written before; what is in the pipe was not
\* carried out before.
SentOnce ==
    \A c \in RemoteCalls :
        /\ MayBeSent(c) => c \notin pipe /\ done[c] = 0
        /\ c \in pipe => done[c] = 0

RemoteInv == McpTypeOK /\ SentOnce /\ RemoteOnce

LEMMA RemoteStart == McpInit => RemoteInv
  BY McpAssumption DEF McpInit, RemoteInv, McpTypeOK, SentOnce, RemoteOnce, MayBeSent, NoRpc,
     Rpcs, RpcPlaces, NoOne

\* The records that a step of a call makes of the one it had.
LEMMA FailedRpc ==
    ASSUME NEW r \in Rpcs, NEW p \in RpcPlaces, NEW b \in BOOLEAN
    PROVE  /\ [r EXCEPT !.at = p, !.safe = b] \in Rpcs
           /\ [r EXCEPT !.at = p, !.safe = b].at = p
           /\ [r EXCEPT !.at = p, !.safe = b].safe = b
  BY DEF Rpcs

\* A step that changes one call only keeps the invariant if the call may be sent
\* afterwards only if it could be before.
LEMMA OneCallMoves ==
    ASSUME RemoteInv, NEW c \in RemoteCalls, NEW r \in Rpcs,
           rpc' = [rpc EXCEPT ![c] = r], rpc[c].at # "reply", r.at # "reply",
           r.at \in {"none", "lock"} \/ r.safe = TRUE => MayBeSent(c),
           UNCHANGED <<proc, pipe, answers, sendLock, done>>
    PROVE  RemoteInv'
<1>1. rpc' \in [RemoteCalls -> Rpcs] /\ rpc'[c] = r /\ \A d \in RemoteCalls \ {c} : rpc'[d] = rpc[d]
  BY DEF RemoteInv, McpTypeOK
<1> QED
  BY <1>1 DEF RemoteInv, McpTypeOK, SentOnce, RemoteOnce, MayBeSent

LEMMA CallRemoteStep ==
    ASSUME RemoteInv, NEW c \in RemoteCalls, CallRemote(c)
    PROVE  RemoteInv'
<1> DEFINE r == [at |-> IF proc.up THEN "lock" ELSE "lost", proc |-> proc.n,
                 attempt |-> 1, safe |-> ~proc.up]
<1>1. r \in Rpcs /\ r.at # "reply"
  BY DEF Rpcs, RpcPlaces, RemoteInv, McpTypeOK
<1>2. rpc' = [rpc EXCEPT ![c] = r]
  BY DEF CallRemote
<1>3. rpc[c].at = "none" /\ UNCHANGED <<proc, pipe, answers, sendLock, reLock, done>>
  BY DEF CallRemote
<1> HIDE DEF r
<1> QED
  BY <1>1, <1>2, <1>3, OneCallMoves DEF MayBeSent

LEMMA ReadEndStep ==
    ASSUME RemoteInv, NEW c \in RemoteCalls, ReadEnd(c)
    PROVE  RemoteInv'
<1> DEFINE p == IF rpc[c].attempt = 2 THEN "over" ELSE "lost"
           r == [rpc[c] EXCEPT !.at = p, !.safe = FALSE]
<1>1. (~TRUE) = FALSE
  OBVIOUS
<1>2. rpc' = [rpc EXCEPT ![c] = r]
  BY <1>1 DEF ReadEnd, Failed
<1>3. rpc[c] \in Rpcs /\ p \in RpcPlaces /\ p # "reply"
  BY DEF RemoteInv, McpTypeOK, RpcPlaces
<1>4. r \in Rpcs /\ r.at = p /\ r.safe = FALSE
  BY <1>3, FailedRpc, Zenon
<1>5. p \in {"lost", "over"}
  OBVIOUS
<1> HIDE DEF r, p
<1>6. rpc' \in [RemoteCalls -> Rpcs] /\ rpc'[c] = r /\ \A d \in RemoteCalls \ {c} : rpc'[d] = rpc[d]
  BY <1>2, <1>4 DEF RemoteInv, McpTypeOK
<1>7. /\ rpc[c].at = "reply" /\ sendLock' = NoOne
      /\ UNCHANGED <<proc, pipe, answers, reLock, done>>
  BY DEF ReadEnd
<1> QED
  BY <1>4, <1>5, <1>6, <1>7, McpAssumption
  DEF RemoteInv, McpTypeOK, SentOnce, RemoteOnce, MayBeSent

LEMMA InitializedStep ==
    ASSUME RemoteInv, NEW c \in RemoteCalls, Initialized(c)
    PROVE  RemoteInv'
<1>1. CASE rpc[c].safe
  <2> DEFINE r == [at |-> "lock", proc |-> proc.n, attempt |-> 2, safe |-> TRUE]
  <2>1. rpc' = [rpc EXCEPT ![c] = r]
    BY <1>1 DEF Initialized, Reconnected
  <2>2. rpc[c] \in Rpcs
    BY DEF RemoteInv, McpTypeOK
  <2>3. r \in Rpcs /\ r.at = "lock"
    BY DEF RemoteInv, McpTypeOK, Rpcs, RpcPlaces
  <2> HIDE DEF r
  <2>4. rpc[c].safe = TRUE
    BY <1>1, <2>2 DEF Rpcs
  <2>5. rpc[c].at = "initialize" /\ UNCHANGED <<proc, pipe, answers, sendLock, done>>
    BY DEF Initialized
  <2> QED
    BY <2>1, <2>3, <2>4, <2>5, OneCallMoves DEF MayBeSent
<1>2. CASE ~rpc[c].safe
  BY <1>2 DEF Initialized, Reconnected, At, RemoteInv, McpTypeOK, SentOnce, RemoteOnce,
     MayBeSent, Rpcs, RpcPlaces
<1> QED
  BY <1>1, <1>2

LEMMA RemoteStep == RemoteInv /\ [McpNext]_mcpVars => RemoteInv'
<1> SUFFICES ASSUME RemoteInv, [McpNext]_mcpVars PROVE RemoteInv'
  OBVIOUS
<1> USE McpAssumption DEF RemoteInv, McpTypeOK, SentOnce, RemoteOnce, MayBeSent, Rpcs, RpcPlaces
<1>1. ASSUME NEW c \in RemoteCalls, CallRemote(c) PROVE RemoteInv'
  BY <1>1, CallRemoteStep
<1>2. ASSUME NEW c \in RemoteCalls, WriteRequest(c) PROVE RemoteInv'
  BY <1>2 DEF WriteRequest, At, Failed
<1>3. ASSUME NEW c \in RemoteCalls, ServerRuns(c) PROVE RemoteInv'
  BY <1>3 DEF ServerRuns
<1>4. ASSUME NEW c \in RemoteCalls, ReadReply(c) PROVE RemoteInv'
  BY <1>4 DEF ReadReply, At
<1>5. ASSUME NEW c \in RemoteCalls, ReadEnd(c) PROVE RemoteInv'
  BY <1>5, ReadEndStep
<1>6. ASSUME NEW c \in RemoteCalls, RpcTimeout(c) PROVE RemoteInv'
  BY <1>6 DEF RpcTimeout, At
<1>7. ASSUME NEW c \in RemoteCalls, Reconnect(c) PROVE RemoteInv'
  BY <1>7 DEF Reconnect, At
<1>8. ASSUME NEW c \in RemoteCalls, CloseServer(c) PROVE RemoteInv'
  BY <1>8 DEF CloseServer, At
<1>9. ASSUME NEW c \in RemoteCalls, StartServer(c) PROVE RemoteInv'
  BY <1>9 DEF StartServer, At
<1>10. ASSUME NEW c \in RemoteCalls, Initialized(c) PROVE RemoteInv'
  BY <1>10, InitializedStep
<1>11. ASSUME NEW c \in RemoteCalls, InitializeFails(c) PROVE RemoteInv'
  BY <1>11 DEF InitializeFails, At
<1>12. CASE ServerDies
  BY <1>12 DEF ServerDies
<1>13. CASE UNCHANGED mcpVars
  BY <1>13 DEF mcpVars
<1> QED
  BY <1>1, <1>2, <1>3, <1>4, <1>5, <1>6, <1>7, <1>8, <1>9, <1>10, <1>11, <1>12, <1>13
  DEF McpNext

\* tools/mcp_client.py, _rpc(): a request that may have been sent is not sent
\* again, so a remote tool runs at most once for a call, for any number of
\* calls, processes and deaths; and only the holder of the lock reads the pipe.
THEOREM RemoteOnceAlways == McpSpec => []RemoteOnce
<1>1. RemoteInv => RemoteOnce
  BY DEF RemoteInv
<1> QED
  BY <1>1, RemoteStart, RemoteStep, PTL DEF McpSpec

-----------------------------------------------------------------------------
\* Every set of numbers has a least one.
LEMMA Least ==
    ASSUME NEW S \in SUBSET Nat, S # {}
    PROVE  \E j \in S : \A k \in S : j <= k
<1> DEFINE R == OpToRel(<, Nat)
<1>1. IsWellFoundedOn(R, Nat)
  BY NatLessThanWellFounded
<1>2. \A x, y \in Nat : y < x => <<y, x>> \in R
  BY DEF OpToRel
<1> HIDE DEF R
<1>3. \E x \in S : \A y \in S : ~(<<y, x>> \in R)
  BY <1>1, WFMin
<1>4. PICK x \in S : \A y \in S : ~(<<y, x>> \in R)
  BY <1>3
<1>5. \A y \in S : ~(y < x)
  BY <1>2, <1>4
<1> QED
  BY <1>5

LEMMA MinOfNumbers ==
    ASSUME NEW S \in SUBSET Nat, S # {}
    PROVE  Min(S) \in S /\ \A k \in S : Min(S) <= k
  BY Least DEF Min

-----------------------------------------------------------------------------
\* Sliding windows.  A window w remembers the end of the history h of what was
\* let through, and all that it does not remember is a minute old.
Remembers(h, a, w, b, now) ==
    /\ h \in [1..a -> Nat] /\ w \in [1..b -> Nat] /\ b <= a
    /\ \A i, j \in 1..a : i <= j => h[i] <= h[j]
    /\ \A j \in 1..a : h[j] <= now
    /\ \A j \in 1..b : w[j] = h[(a - b) + j]
    /\ \A j \in 1..(a - b) : h[j] <= now - Minute

WindowOK(h, w, now) ==
    /\ h \in Seq(Nat) /\ w \in Seq(Nat)
    /\ Remembers(h, Len(h), w, Len(w), now)

LEMMA WindowLengths ==
    ASSUME NEW h, NEW w, NEW now \in Nat, WindowOK(h, w, now)
    PROVE  /\ h \in Seq(Nat) /\ w \in Seq(Nat)
           /\ \E a, b \in Nat : a = Len(h) /\ b = Len(w) /\ Remembers(h, a, w, b, now)
  BY DEF WindowOK

LEMMA WindowEmpty ==
    ASSUME NEW now \in Nat
    PROVE  WindowOK(<< >>, << >>, now)
  BY DEF WindowOK, Remembers

LEMMA WindowLater ==
    ASSUME NEW h, NEW w, NEW now \in Nat, WindowOK(h, w, now), NEW later \in Nat, now <= later
    PROVE  WindowOK(h, w, later)
  BY ThrottleAssumption DEF WindowOK, Remembers

\* What is dropped at the head of a window is a minute old.
LEMMA DroppedOld ==
    ASSUME NEW w \in Seq(Nat), NEW now \in Nat
    PROVE  /\ Dropped(w, now) \in 0..Len(w)
           /\ \A k \in 1..Dropped(w, now) : w[k] <= now - Minute
<1> DEFINE S == {k \in 0..Len(w) : k = Len(w) \/ w[k + 1] > now - Minute}
<1>1. S \subseteq Nat /\ Len(w) \in S
  OBVIOUS
<1>2. Min(S) \in S /\ \A k \in S : Min(S) <= k
  BY <1>1, MinOfNumbers
<1>3. ASSUME NEW k \in 1..Min(S) PROVE w[k] <= now - Minute
  <2>1. k - 1 \in 0..Len(w) /\ k - 1 < Min(S) /\ k - 1 # Len(w)
    BY <1>2
  <2>2. k - 1 \notin S
    BY <1>2, <2>1
  <2>3. ~(w[(k - 1) + 1] > now - Minute)
    BY <2>1, <2>2
  <2>4. (k - 1) + 1 = k /\ w[k] \in Nat
    BY <2>1
  <2> QED
    BY <2>3, <2>4, ThrottleAssumption
<1> QED
  BY <1>2, <1>3 DEF Dropped

LEMMA WindowRecent ==
    ASSUME NEW h, NEW w, NEW now \in Nat, WindowOK(h, w, now)
    PROVE  WindowOK(h, Recent(w, now), now)
<1>1. PICK a, b \in Nat : a = Len(h) /\ b = Len(w) /\ Remembers(h, a, w, b, now)
  BY WindowLengths
<1>2. h \in Seq(Nat) /\ w \in Seq(Nat)
  BY WindowLengths
<1>3. PICK d \in 0..b : d = Dropped(w, now) /\ \A k \in 1..d : w[k] <= now - Minute
  BY <1>1, <1>2, DroppedOld
<1> DEFINE r == SubSeq(w, d + 1, b)
<1>4. Recent(w, now) = r
  BY <1>1, <1>3 DEF Recent
<1>5. PICK e \in Nat : e = b - d
  BY <1>3
<1>6. r \in Seq(Nat) /\ Len(r) = e /\ \A j \in 1..e : r[j] = w[d + j]
  <2>1. d + 1 \in Int /\ b \in Int /\ \A j \in (d + 1) .. b : w[j] \in Nat
    BY <1>1, <1>2, <1>3
  <2>2. /\ r \in Seq(Nat)
        /\ Len(r) = IF d + 1 <= b THEN b - (d + 1) + 1 ELSE 0
        /\ \A j \in 1 .. b - (d + 1) + 1 : r[j] = w[(d + 1) + j - 1]
    BY <2>1, SubSeqProperties
  <2>3. b - (d + 1) + 1 = e /\ \A j \in 1..e : (d + 1) + j - 1 = d + j
    BY <1>3, <1>5
  <2> QED
    BY <1>3, <1>5, <2>2, <2>3
<1> HIDE DEF r
<1>7. r \in [1..e -> Nat]
  BY <1>6, <1>5, LenProperties
<1>8. Remembers(h, a, r, e, now)
  <2>1. ASSUME NEW j \in 1..e PROVE r[j] = h[(a - e) + j]
    <3>1. d + j \in 1..b /\ (a - b) + (d + j) = (a - e) + j
      BY <1>3, <1>5
    <3> QED
      BY <1>1, <1>6, <1>5, <3>1 DEF Remembers
  <2>2. ASSUME NEW j \in 1..(a - e) PROVE h[j] <= now - Minute
    <3>1. CASE j <= a - b
      BY <1>1, <3>1 DEF Remembers
    <3>2. CASE j > a - b
      <4> DEFINE k == j - (a - b)
      <4>1. k \in 1..d /\ k \in 1..b /\ (a - b) + k = j
        <5>1. b <= a
          BY <1>1 DEF Remembers
        <5> QED
          BY <1>3, <1>5, <3>2, <5>1
      <4> HIDE DEF k
      <4>2. w[k] = h[(a - b) + k] /\ w[k] <= now - Minute
        BY <1>1, <1>3, <4>1 DEF Remembers
      <4> QED
        BY <4>1, <4>2
    <3> QED
      BY <3>1, <3>2
  <2> QED
    BY <1>1, <1>3, <1>7, <1>5, <2>1, <2>2 DEF Remembers
<1> QED
  BY <1>1, <1>2, <1>4, <1>6, <1>5, <1>8 DEF WindowOK

LEMMA WindowAppend ==
    ASSUME NEW h, NEW w, NEW now \in Nat, WindowOK(h, w, now)
    PROVE  WindowOK(Append(h, now), Append(w, now), now)
<1>1. PICK a, b \in Nat : a = Len(h) /\ b = Len(w) /\ Remembers(h, a, w, b, now)
  BY WindowLengths
<1>2. h \in Seq(Nat) /\ w \in Seq(Nat)
  BY WindowLengths
<1> DEFINE g == Append(h, now)
           v == Append(w, now)
<1>3. /\ g \in Seq(Nat) /\ Len(g) = a + 1 /\ g[a + 1] = now
      /\ \A j \in 1..a : g[j] = h[j]
  BY <1>1, <1>2
<1>4. /\ v \in Seq(Nat) /\ Len(v) = b + 1 /\ v[b + 1] = now
      /\ \A j \in 1..b : v[j] = w[j]
  BY <1>1, <1>2
<1> HIDE DEF g, v
<1>5. g \in [1..(a + 1) -> Nat] /\ v \in [1..(b + 1) -> Nat]
  BY <1>3, <1>4
<1>6. Remembers(g, a + 1, v, b + 1, now)
  <2>1. ASSUME NEW i \in 1..(a + 1), NEW j \in 1..(a + 1), i <= j PROVE g[i] <= g[j]
    <3>1. CASE j \in 1..a
      <4>1. i \in 1..a /\ h[i] <= h[j]
        BY <1>1, <2>1, <3>1 DEF Remembers
      <4> QED
        BY <1>3, <3>1, <4>1
    <3>2. CASE j = a + 1
      <4>1. \A k \in 1..a : g[k] <= now
        BY <1>1, <1>3 DEF Remembers
      <4> QED
        BY <1>3, <3>2, <4>1
    <3> QED
      BY <3>1, <3>2
  <2>2. \A j \in 1..(a + 1) : g[j] <= now
    BY <1>1, <1>3 DEF Remembers
  <2>3. ASSUME NEW j \in 1..(b + 1) PROVE v[j] = g[((a + 1) - (b + 1)) + j]
    <3>1. ((a + 1) - (b + 1)) + j = (a - b) + j /\ b <= a
      BY <1>1 DEF Remembers
    <3>2. CASE j \in 1..b
      <4>1. (a - b) + j \in 1..a
        BY <3>1, <3>2
      <4> QED
        BY <1>1, <1>3, <1>4, <3>1, <3>2, <4>1 DEF Remembers
    <3>3. CASE j = b + 1
      <4>1. (a - b) + j = a + 1
        BY <3>3
      <4> QED
        BY <1>3, <1>4, <3>1, <3>3, <4>1
    <3> QED
      BY <3>2, <3>3
  <2>4. ASSUME NEW j \in 1..((a + 1) - (b + 1)) PROVE g[j] <= now - Minute
    <3>1. j \in 1..(a - b) /\ j \in 1..a
      BY <1>1 DEF Remembers
    <3> QED
      BY <1>1, <1>3, <3>1 DEF Remembers
  <2> QED
    BY <1>1, <1>5, <2>1, <2>2, <2>3, <2>4 DEF Remembers
<1> QED
  BY <1>3, <1>4, <1>6 DEF WindowOK, g, v

LEMMA WindowSpaced ==
    ASSUME NEW h, NEW w, NEW now \in Nat, NEW n \in Nat, WindowOK(h, w, now), Spaced(h, n),
           Len(w) < n
    PROVE  Spaced(Append(h, now), n)
<1>1. PICK a, b \in Nat : a = Len(h) /\ b = Len(w) /\ Remembers(h, a, w, b, now)
  BY WindowLengths
<1>2. h \in Seq(Nat)
  BY WindowLengths
<1> DEFINE g == Append(h, now)
<1>3. /\ g \in Seq(Nat) /\ Len(g) = a + 1 /\ g[a + 1] = now
      /\ \A j \in 1..a : g[j] = h[j]
  BY <1>1, <1>2
<1> HIDE DEF g
<1>4. ASSUME NEW j \in 1..(a + 1), j + n \in 1..(a + 1) PROVE g[j + n] - g[j] >= Minute
  <2>1. CASE j + n <= a
    <3>1. j \in 1..a /\ j + n \in 1..a /\ DOMAIN h = 1..a
      BY <1>1, <1>4, <2>1 DEF Remembers
    <3>2. h[j + n] - h[j] >= Minute
      BY <3>1 DEF Spaced
    <3> QED
      BY <1>3, <3>1, <3>2
  <2>2. CASE j + n = a + 1
    <3>1. j \in 1..(a - b) /\ j \in 1..a /\ g[j + n] = now
      BY <1>1, <1>3, <2>2 DEF Remembers
    <3>2. h[j] <= now - Minute /\ g[j] = h[j] /\ h[j] \in Nat
      BY <1>1, <1>3, <3>1 DEF Remembers
    <3> QED
      BY <3>1, <3>2, ThrottleAssumption
  <2> QED
    BY <1>4, <2>1, <2>2
<1>5. DOMAIN g = 1..(a + 1)
  BY <1>3
<1> QED
  BY <1>4, <1>5 DEF Spaced, g

\* A window that is dropped as a whole.
LEMMA WindowStale ==
    ASSUME NEW h, NEW w, NEW now \in Nat, WindowOK(h, w, now), Stale(w, now)
    PROVE  WindowOK(h, << >>, now)
<1>1. PICK a, b \in Nat : a = Len(h) /\ b = Len(w) /\ Remembers(h, a, w, b, now)
  BY WindowLengths
<1>2. h \in Seq(Nat) /\ w \in Seq(Nat)
  BY WindowLengths
<1>3. ASSUME NEW j \in 1..a PROVE h[j] <= now - Minute
  <2>1. CASE b = 0
    BY <1>1, <2>1 DEF Remembers
  <2>2. CASE b > 0
    <3>1. w[b] <= now - Minute /\ b \in 1..b /\ (a - b) + b = a
      BY <1>1, <1>2, <2>2 DEF Stale, Last
    <3>2. w[b] = h[a] /\ a \in 1..a /\ h[j] <= h[a] /\ h[j] \in Nat /\ h[a] \in Nat
      BY <1>1, <3>1 DEF Remembers
    <3> QED
      BY <3>1, <3>2, ThrottleAssumption
  <2> QED
    BY <2>1, <2>2
<1>4. Remembers(h, a, << >>, 0, now)
  BY <1>1, <1>3 DEF Remembers
<1> QED
  BY <1>1, <1>2, <1>4 DEF WindowOK

\* The tables of windows.
LEMMA WindowOfSwept ==
    ASSUME NEW f, NEW c, NEW h, NEW now \in Nat, WindowOK(h, WindowOf(f, c), now)
    PROVE  WindowOK(h, WindowOf(Swept(f, now), c), now)
<1>1. DOMAIN Swept(f, now) = {k \in DOMAIN f : ~Stale(f[k], now)}
  BY DEF Swept, Restrict
<1>2. CASE c \in DOMAIN f /\ Stale(f[c], now)
  <2>1. WindowOf(f, c) = f[c] /\ WindowOf(Swept(f, now), c) = << >>
    BY <1>1, <1>2 DEF WindowOf
  <2> QED
    BY <1>2, <2>1, WindowStale
<1>3. CASE c \in DOMAIN f /\ ~Stale(f[c], now)
  BY <1>1, <1>3 DEF WindowOf, Swept, Restrict
<1>4. CASE c \notin DOMAIN f
  BY <1>1, <1>4 DEF WindowOf
<1> QED
  BY <1>2, <1>3, <1>4

LEMMA WindowOfWithKey ==
    ASSUME NEW f, NEW k, NEW w, NEW c
    PROVE  WindowOf(WithKey(f, k, w), c) = IF c = k THEN w ELSE WindowOf(f, c)
  BY DEF WindowOf, WithKey

LEMMA SweptSize ==
    ASSUME NEW f, NEW now, IsFiniteSet(DOMAIN f)
    PROVE  /\ IsFiniteSet(DOMAIN Swept(f, now))
           /\ Cardinality(DOMAIN Swept(f, now)) <= Cardinality(DOMAIN f)
<1>1. DOMAIN Swept(f, now) \subseteq DOMAIN f
  BY DEF Swept, Restrict
<1> QED
  BY <1>1, FS_Subset

LEMMA WithKeySize ==
    ASSUME NEW f, NEW k, NEW w, NEW n \in Nat, IsFiniteSet(DOMAIN f),
           Cardinality(DOMAIN f) <= n, k \in DOMAIN f \/ Cardinality(DOMAIN f) < n
    PROVE  /\ IsFiniteSet(DOMAIN WithKey(f, k, w))
           /\ Cardinality(DOMAIN WithKey(f, k, w)) <= n
<1>1. DOMAIN WithKey(f, k, w) = DOMAIN f \cup {k}
  BY DEF WithKey
<1>2. CASE k \in DOMAIN f
  <2>1. DOMAIN f \cup {k} = DOMAIN f
    BY <1>2
  <2> QED
    BY <1>1, <2>1
<1>3. CASE k \notin DOMAIN f
  BY <1>1, <1>3, FS_AddElement, FS_CardinalityType
<1> QED
  BY <1>2, <1>3

-----------------------------------------------------------------------------
\* Throttle: every client's window holds what was let through in the last minute.
ThrottleInv ==
    /\ thrNow \in Nat
    /\ IsFiniteSet(DOMAIN windows) /\ Cardinality(DOMAIN windows) <= MaxClients
    /\ DOMAIN passed = Clients
    /\ \A c \in Clients :
          WindowOK(passed[c], WindowOf(windows, c), thrNow) /\ Spaced(passed[c], Rpm)

\* The table that a request finds after the sweep.
LEMMA KnownOK ==
    ASSUME ThrottleInv
    PROVE  /\ IsFiniteSet(DOMAIN Known) /\ Cardinality(DOMAIN Known) <= MaxClients
           /\ \A c \in Clients : /\ WindowOK(passed[c], WindowOf(Known, c), thrNow)
                                 /\ WindowOK(passed[c], Held(c), thrNow)
<1>1. IsFiniteSet(DOMAIN windows) /\ Cardinality(DOMAIN windows) \in Nat /\ thrNow \in Nat
  BY FS_CardinalityType DEF ThrottleInv
<1>2. IsFiniteSet(DOMAIN Known) /\ Cardinality(DOMAIN Known) <= MaxClients
  <2>1. CASE SweepDue
    <3>1. Cardinality(DOMAIN Swept(windows, thrNow)) \in Nat
      BY <1>1, SweptSize, FS_CardinalityType
    <3> QED
      BY <1>1, <2>1, <3>1, SweptSize, ThrottleAssumption DEF Known, ThrottleInv
  <2>2. CASE ~SweepDue
    BY <2>2 DEF Known, ThrottleInv
  <2> QED
    BY <2>1, <2>2
<1>3. ASSUME NEW c \in Clients PROVE WindowOK(passed[c], WindowOf(Known, c), thrNow)
  BY <1>1, WindowOfSwept DEF Known, ThrottleInv
<1>4. ASSUME NEW c \in Clients PROVE WindowOK(passed[c], Held(c), thrNow)
  BY <1>1, <1>3, WindowRecent DEF Held
<1> QED
  BY <1>2, <1>3, <1>4

LEMMA ThrottleStep == ThrottleInv /\ [ThrottleNext]_thrVars => ThrottleInv'
<1> SUFFICES ASSUME ThrottleInv, [ThrottleNext]_thrVars PROVE ThrottleInv'
  OBVIOUS
<1>1. ASSUME NEW c \in Clients, PassRequest(c) PROVE ThrottleInv'
  <2>1. /\ HasPlace(c) /\ Len(Held(c)) < Rpm
        /\ windows' = WithKey(Known, c, Append(Held(c), thrNow))
        /\ passed' = [passed EXCEPT ![c] = Append(@, thrNow)]
        /\ thrNow' = thrNow
    BY <1>1 DEF PassRequest
  <2>2. IsFiniteSet(DOMAIN windows') /\ Cardinality(DOMAIN windows') <= MaxClients
    BY <2>1, KnownOK, WithKeySize, ThrottleAssumption DEF HasPlace
  <2>3. ASSUME NEW d \in Clients
        PROVE  WindowOK(passed'[d], WindowOf(windows', d), thrNow) /\ Spaced(passed'[d], Rpm)
    <3>1. CASE d = c
      <4>1. passed'[d] = Append(passed[c], thrNow)
        BY <2>1, <3>1 DEF ThrottleInv
      <4>2. WindowOf(windows', d) = Append(Held(c), thrNow)
        <5> DEFINE v == Append(Held(c), thrNow)
        <5>1. windows' = WithKey(Known, c, v)
          BY <2>1
        <5> HIDE DEF v
        <5>2. WindowOf(windows', d) = v
          BY <3>1, <5>1, WindowOfWithKey
        <5> QED
          BY <5>2 DEF v
      <4>3. WindowOK(passed[c], Held(c), thrNow) /\ Spaced(passed[c], Rpm) /\ thrNow \in Nat
        BY KnownOK DEF ThrottleInv
      <4> QED
        BY <2>1, <4>1, <4>2, <4>3, WindowAppend, WindowSpaced, ThrottleAssumption
    <3>2. CASE d # c
      <4>1. passed'[d] = passed[d] /\ WindowOf(windows', d) = WindowOf(Known, d)
        BY <2>1, <3>2, WindowOfWithKey DEF ThrottleInv
      <4> QED
        BY <4>1, KnownOK DEF ThrottleInv
    <3> QED
      BY <3>1, <3>2
  <2> QED
    BY <2>1, <2>2, <2>3 DEF ThrottleInv
<1>2. ASSUME NEW c \in Clients, RefuseRequest(c) PROVE ThrottleInv'
  <2>1. /\ windows' = IF HasPlace(c) THEN WithKey(Known, c, Held(c)) ELSE Known
        /\ UNCHANGED <<thrNow, passed>>
    BY <1>2 DEF RefuseRequest
  <2>2. IsFiniteSet(DOMAIN windows') /\ Cardinality(DOMAIN windows') <= MaxClients
    BY <2>1, KnownOK, WithKeySize, ThrottleAssumption DEF HasPlace
  <2>3. ASSUME NEW d \in Clients PROVE WindowOK(passed[d], WindowOf(windows', d), thrNow)
    <3>1. WindowOf(windows', d) \in {Held(d), WindowOf(Known, d)}
      BY <2>1, WindowOfWithKey
    <3> QED
      BY <3>1, KnownOK
  <2> QED
    BY <2>1, <2>2, <2>3 DEF ThrottleInv
<1>3. CASE ThrottleTick
  <2>1. thrNow' = thrNow + 1 /\ UNCHANGED <<windows, passed>> /\ thrNow \in Nat
    BY <1>3 DEF ThrottleTick, ThrottleInv
  <2>2. ASSUME NEW c \in Clients PROVE WindowOK(passed[c], WindowOf(windows, c), thrNow + 1)
    BY <2>1, WindowLater DEF ThrottleInv
  <2> QED
    BY <2>1, <2>2 DEF ThrottleInv
<1>4. CASE UNCHANGED thrVars
  BY <1>4 DEF thrVars, ThrottleInv
<1> QED
  BY <1>1, <1>2, <1>3, <1>4 DEF ThrottleNext

LEMMA ThrottleStart == ThrottleInit => ThrottleInv
<1> SUFFICES ASSUME ThrottleInit PROVE ThrottleInv
  OBVIOUS
<1>1. IsFiniteSet(DOMAIN windows) /\ Cardinality(DOMAIN windows) = 0
  BY FS_EmptySet DEF ThrottleInit
<1>2. ASSUME NEW c \in Clients PROVE passed[c] = << >> /\ WindowOf(windows, c) = << >>
  BY DEF ThrottleInit, WindowOf
<1>3. Spaced(<< >>, Rpm)
  BY DEF Spaced
<1> QED
  BY <1>1, <1>2, <1>3, WindowEmpty, ThrottleAssumption DEF ThrottleInit, ThrottleInv

\* api/middleware.py, RateLimitMiddleware: whatever the sweeps drop and however
\* full the table is, no client has more than Rpm requests let through in any
\* minute, and the table keeps to its bound, for any numbers of clients, requests
\* and places.
THEOREM MinuteHeldAlways == ThrottleSpec => []MinuteHeld
<1>1. ThrottleInv => MinuteHeld
  BY DEF ThrottleInv, MinuteHeld
<1> QED
  BY <1>1, ThrottleStart, ThrottleStep, PTL DEF ThrottleSpec

-----------------------------------------------------------------------------
\* Tools: what may still be run was approved and has not been run.
Approvals == [req : Requests, created : Nat, status : {"pending", "approved", "denied", "used"}]
Approved(s, q) == Matches(s, q, {"approved"})

ItemsOK(s) ==
    /\ DOMAIN s \subseteq 1..issued
    /\ s \in [DOMAIN s -> Approvals]
    /\ \A q \in Requests : ran[q] + Cardinality(Approved(s, q)) <= granted[q]

RatesOK ==
    /\ DOMAIN starts = Callers
    /\ \A c \in Callers :
          WindowOK(starts[c], WindowOf(hits, c), toolNow) /\ Spaced(starts[c], RatePerMinute)

CountsOK ==
    /\ toolNow \in Nat /\ issued \in Nat
    /\ ran \in [Requests -> Nat] /\ granted \in [Requests -> Nat]

ToolsInv == CountsOK /\ ItemsOK(items) /\ RatesOK

LEMMA ApprovedFinite ==
    ASSUME NEW s, NEW q, issued \in Nat, DOMAIN s \subseteq 1..issued
    PROVE  IsFiniteSet(Approved(s, q)) /\ Cardinality(Approved(s, q)) \in Nat
<1>1. IsFiniteSet(1..issued)
  BY FS_Interval
<1>2. Approved(s, q) \subseteq 1..issued
  BY DEF Approved, Matches
<1> QED
  BY <1>1, <1>2, FS_Subset, FS_CardinalityType

\* Approvals that expire or are evicted take no right to run with them.
LEMMA ItemsRestrict ==
    ASSUME CountsOK, NEW s, ItemsOK(s), NEW T \in SUBSET DOMAIN s
    PROVE  ItemsOK(Restrict(s, T))
<1> DEFINE r == Restrict(s, T)
<1>1. DOMAIN r = T /\ r \in [T -> Approvals] /\ \A a \in T : r[a] = s[a]
  BY DEF Restrict, ItemsOK
<1>2. T \subseteq 1..issued /\ DOMAIN s \subseteq 1..issued /\ issued \in Nat
  BY DEF ItemsOK, CountsOK
<1>3. ASSUME NEW q \in Requests PROVE ran[q] + Cardinality(Approved(r, q)) <= granted[q]
  <2>1. Approved(r, q) \subseteq Approved(s, q)
    BY <1>1 DEF Approved, Matches
  <2>2. /\ Cardinality(Approved(r, q)) \in Nat /\ Cardinality(Approved(s, q)) \in Nat
        /\ Cardinality(Approved(r, q)) <= Cardinality(Approved(s, q))
    BY <1>1, <1>2, <2>1, ApprovedFinite, FS_Subset
  <2> QED
    BY <2>2 DEF ItemsOK, CountsOK
<1> QED
  BY <1>1, <1>2, <1>3 DEF ItemsOK

LEMMA AliveOK ==
    ASSUME ToolsInv
    PROVE  ItemsOK(Alive)
  BY ItemsRestrict DEF Alive, ToolsInv

LEMMA StatusSet ==
    ASSUME NEW r \in Approvals, NEW st \in {"pending", "approved", "denied", "used"}
    PROVE  /\ [r EXCEPT !.status = st] \in Approvals
           /\ [r EXCEPT !.status = st].status = st /\ [r EXCEPT !.status = st].req = r.req
  BY DEF Approvals

\* An approval that is consumed leaves room for one run.
LEMMA ConsumedOK ==
    ASSUME CountsOK, NEW s, ItemsOK(s), NEW q \in Requests, Approved(s, q) # {}
    PROVE  /\ DOMAIN Consumed(s, q) \subseteq 1..issued
           /\ Consumed(s, q) \in [DOMAIN Consumed(s, q) -> Approvals]
           /\ ran[q] + 1 + Cardinality(Approved(Consumed(s, q), q)) <= granted[q]
           /\ \A p \in Requests : p # q => Approved(Consumed(s, q), p) = Approved(s, p)
<1> DEFINE M == Approved(s, q)
           t == Consumed(s, q)
<1>1. M \subseteq DOMAIN s /\ DOMAIN s \subseteq 1..issued /\ issued \in Nat
  BY DEF Approved, Matches, ItemsOK, CountsOK
<1>2. PICK m \in M : m = Min(M)
  BY <1>1, MinOfNumbers
<1>3. t = [s EXCEPT ![m].status = "used"] /\ m \in DOMAIN s
  BY <1>1, <1>2 DEF Consumed, Approved
<1>4. /\ DOMAIN t = DOMAIN s /\ \A a \in DOMAIN s \ {m} : t[a] = s[a]
      /\ t[m].status = "used" /\ t \in [DOMAIN s -> Approvals]
  <2>1. s[m] \in Approvals /\ s \in [DOMAIN s -> Approvals]
    BY <1>3 DEF ItemsOK
  <2>2. t = [s EXCEPT ![m] = [s[m] EXCEPT !.status = "used"]]
    BY <1>3
  <2>3. "used" \in {"pending", "approved", "denied", "used"}
    OBVIOUS
  <2>4. PICK x \in Approvals : x = [s[m] EXCEPT !.status = "used"] /\ x.status = "used"
    BY <2>1, <2>3, StatusSet, Zenon
  <2>5. t = [s EXCEPT ![m] = x]
    BY <2>2, <2>4, Zenon
  <2> HIDE DEF t
  <2> QED
    BY <1>3, <2>1, <2>4, <2>5
<1> HIDE DEF t
<1>5. Approved(t, q) = M \ {m}
  BY <1>2, <1>3, <1>4 DEF Approved, Matches
<1>6. ASSUME NEW p \in Requests, p # q PROVE Approved(t, p) = Approved(s, p)
  <2>1. s[m].req = q
    BY <1>2 DEF Approved, Matches
  <2> QED
    BY <1>3, <1>4, <1>6, <2>1 DEF Approved, Matches
<1>7. Cardinality(Approved(t, q)) = Cardinality(M) - 1 /\ Cardinality(M) \in Nat
  <2>1. IsFiniteSet(M) /\ Cardinality(M) \in Nat
    BY <1>1, ApprovedFinite
  <2> HIDE DEF M
  <2> QED
    BY <1>2, <1>5, <2>1, FS_RemoveElement
<1>8. ran[q] + 1 + Cardinality(Approved(t, q)) <= granted[q]
  BY <1>7 DEF ItemsOK, CountsOK
<1> QED
  BY <1>1, <1>4, <1>6, <1>8 DEF t

\* The table that a call finds after the purge, and its window.
LEMMA RateKeysOK ==
    ASSUME ToolsInv, NEW c \in Callers
    PROVE  /\ \A d \in Callers : WindowOK(starts[d], WindowOf(RateKeys(c), d), toolNow)
           /\ WindowOK(starts[c], RateHits(c), toolNow)
<1>1. toolNow \in Nat
  BY DEF ToolsInv, CountsOK
<1>2. ASSUME NEW d \in Callers PROVE WindowOK(starts[d], WindowOf(RateKeys(c), d), toolNow)
  BY <1>1, WindowOfSwept DEF RateKeys, ToolsInv, RatesOK
<1> QED
  BY <1>1, <1>2, WindowRecent DEF RateHits

LEMMA RunToolStep ==
    ASSUME ToolsInv, NEW q \in Requests, RunTool(q)
    PROVE  ToolsInv'
<1> DEFINE c == CallerOf[q]
<1>1. /\ Approved(Alive, q) # {} /\ Len(RateHits(c)) < RatePerMinute
      /\ items' = Consumed(Alive, q)
      /\ hits' = WithKey(RateKeys(c), c, Append(RateHits(c), toolNow))
      /\ ran' = [ran EXCEPT ![q] = @ + 1]
      /\ starts' = [starts EXCEPT ![c] = Append(@, toolNow)]
      /\ UNCHANGED <<toolNow, issued, granted>>
  BY DEF RunTool, IsApproved, RateOk, Approved
<1>2. c \in Callers /\ CountsOK /\ RatesOK /\ toolNow \in Nat
  BY DEF Callers, ToolsInv, CountsOK
<1> HIDE DEF c
<1>3. CountsOK'
  BY <1>1, <1>2 DEF CountsOK
<1>4. ItemsOK(items)'
  <2>1. ItemsOK(Alive)
    BY AliveOK
  <2>2. /\ DOMAIN items' \subseteq 1..issued /\ items' \in [DOMAIN items' -> Approvals]
        /\ ran[q] + 1 + Cardinality(Approved(items', q)) <= granted[q]
        /\ \A p \in Requests : p # q => Approved(items', p) = Approved(Alive, p)
    BY <1>1, <1>2, <2>1, ConsumedOK
  <2>3. ASSUME NEW p \in Requests PROVE ran'[p] + Cardinality(Approved(items', p)) <= granted[p]
    <3>1. CASE p = q
      BY <1>1, <1>2, <2>2, <3>1 DEF CountsOK
    <3>2. CASE p # q
      BY <1>1, <1>2, <2>1, <2>2, <3>2 DEF CountsOK, ItemsOK
    <3> QED
      BY <3>1, <3>2
  <2> QED
    BY <1>1, <2>2, <2>3 DEF ItemsOK, Approved, Matches
<1>5. ASSUME NEW d \in Callers
      PROVE  /\ WindowOK(starts'[d], WindowOf(hits', d), toolNow)
             /\ Spaced(starts'[d], RatePerMinute)
  <2>1. CASE d = c
    <3> DEFINE v == Append(RateHits(c), toolNow)
    <3>1. starts'[d] = Append(starts[c], toolNow)
      BY <1>1, <1>2, <2>1 DEF RatesOK
    <3>2. hits' = WithKey(RateKeys(c), c, v)
      BY <1>1
    <3> HIDE DEF v
    <3>3. WindowOf(hits', d) = v
      BY <2>1, <3>2, WindowOfWithKey
    <3>4. WindowOK(starts[c], RateHits(c), toolNow) /\ Spaced(starts[c], RatePerMinute)
      BY <1>2, RateKeysOK DEF RatesOK
    <3> QED
      BY <1>1, <1>2, <3>1, <3>3, <3>4, WindowAppend, WindowSpaced, ToolsAssumption DEF v
  <2>2. CASE d # c
    <3>1. starts'[d] = starts[d] /\ WindowOf(hits', d) = WindowOf(RateKeys(c), d)
      BY <1>1, <1>2, <2>2, WindowOfWithKey DEF RatesOK
    <3> QED
      BY <1>2, <3>1, RateKeysOK DEF RatesOK
  <2> QED
    BY <2>1, <2>2
<1>6. RatesOK'
  BY <1>1, <1>2, <1>5 DEF RatesOK, Callers
<1> QED
  BY <1>3, <1>4, <1>6 DEF ToolsInv

LEMMA RateRefusesStep ==
    ASSUME ToolsInv, NEW q \in Requests, RateRefuses(q)
    PROVE  ToolsInv'
<1> DEFINE c == CallerOf[q]
<1>1. /\ Approved(Alive, q) # {}
      /\ items' = Consumed(Alive, q)
      /\ hits' = IF RatePlace(c) THEN WithKey(RateKeys(c), c, RateHits(c)) ELSE RateKeys(c)
      /\ UNCHANGED <<toolNow, issued, granted, ran, starts>>
  BY DEF RateRefuses, IsApproved, Approved
<1>2. c \in Callers /\ CountsOK /\ RatesOK
  BY DEF Callers, ToolsInv
<1> HIDE DEF c
<1>3. ItemsOK(Alive)
  BY AliveOK
<1>4. /\ DOMAIN items' \subseteq 1..issued /\ items' \in [DOMAIN items' -> Approvals]
      /\ ran[q] + 1 + Cardinality(Approved(items', q)) <= granted[q]
      /\ \A p \in Requests : p # q => Approved(items', p) = Approved(Alive, p)
  BY <1>1, <1>2, <1>3, ConsumedOK
<1>5. ASSUME NEW p \in Requests PROVE ran[p] + Cardinality(Approved(items', p)) <= granted[p]
  <2>1. CASE p = q
    <3>1. Cardinality(Approved(items', q)) \in Nat
      BY <1>2, <1>4, ApprovedFinite DEF CountsOK
    <3> QED
      BY <1>2, <1>4, <2>1, <3>1 DEF CountsOK
  <2>2. CASE p # q
    BY <1>3, <1>4, <2>2 DEF ItemsOK
  <2> QED
    BY <2>1, <2>2
<1>6. ASSUME NEW d \in Callers PROVE WindowOK(starts[d], WindowOf(hits', d), toolNow)
  <2>1. \/ WindowOf(hits', d) = WindowOf(RateKeys(c), d)
        \/ d = c /\ WindowOf(hits', d) = RateHits(c)
    BY <1>1, WindowOfWithKey
  <2> QED
    BY <1>2, <2>1, RateKeysOK
<1> QED
  BY <1>1, <1>2, <1>4, <1>5, <1>6 DEF ToolsInv, CountsOK, ItemsOK, RatesOK, Callers, Approved, Matches

\* The other steps of the store leave the runs and the rates alone.
LEMMA ItemsStep ==
    ASSUME ToolsInv, UNCHANGED <<toolNow, hits, ran, starts>>, CountsOK', ItemsOK(items)'
    PROVE  ToolsInv'
  BY DEF ToolsInv, RatesOK, Callers

LEMMA AskApprovalStep ==
    ASSUME ToolsInv, NEW q \in Requests, AskApproval(q)
    PROVE  ToolsInv'
<1> DEFINE s == Roomy(Alive)
<1>1. UNCHANGED <<toolNow, hits, granted, ran, starts>> /\ CountsOK
  BY DEF AskApproval, ToolsInv
<1>2. ItemsOK(Alive)
  BY AliveOK
<1>3. ItemsOK(s)
  BY <1>1, <1>2, ItemsRestrict DEF Roomy
<1>4. CASE items' \in {s, Alive} /\ issued' = issued
  <2>1. ItemsOK(items')
    BY <1>2, <1>3, <1>4
  <2> QED
    BY <1>1, <1>4, <2>1, ItemsStep DEF CountsOK, ItemsOK, Approved, Matches
<1>5. CASE items' = WithKey(s, issued + 1, Open(q)) /\ issued' = issued + 1
  <2> HIDE DEF s
  <2>1. DOMAIN s \subseteq 1..issued /\ s \in [DOMAIN s -> Approvals] /\ issued \in Nat
    BY <1>1, <1>3 DEF ItemsOK, CountsOK
  <2>2. Open(q) \in Approvals /\ Open(q).status = "pending"
    BY <1>1 DEF Open, Approvals, CountsOK
  <2>3. /\ DOMAIN items' = DOMAIN s \cup {issued + 1} /\ issued + 1 \notin DOMAIN s
        /\ items'[issued + 1] = Open(q) /\ \A a \in DOMAIN s : items'[a] = s[a]
        /\ items' \in [DOMAIN items' -> Approvals]
    BY <1>5, <2>1, <2>2 DEF WithKey
  <2>4. ASSUME NEW p \in Requests PROVE Approved(items', p) = Approved(s, p)
    BY <2>2, <2>3 DEF Approved, Matches
  <2>5. DOMAIN items' \subseteq 1..issued'
    BY <1>5, <2>1, <2>3
  <2>6. ItemsOK(items)'
    BY <1>1, <1>3, <2>3, <2>4, <2>5 DEF ItemsOK, Approved, Matches
  <2> QED
    BY <1>1, <1>5, <2>1, <2>6, ItemsStep DEF CountsOK
<1> QED
  BY <1>4, <1>5 DEF AskApproval

LEMMA DecideStep ==
    ASSUME ToolsInv, NEW a, NEW approve \in BOOLEAN, Decide(a, approve)
    PROVE  ToolsInv'
<1> DEFINE s == Alive
<1>1. /\ a \in DOMAIN s /\ s[a].status = "pending"
      /\ items' = [s EXCEPT ![a].status = IF approve THEN "approved" ELSE "denied"]
      /\ granted' = IF approve THEN [granted EXCEPT ![s[a].req] = @ + 1] ELSE granted
      /\ UNCHANGED <<toolNow, issued, hits, ran, starts>>
  BY DEF Decide
<1>2. ItemsOK(s) /\ CountsOK
  BY AliveOK DEF ToolsInv
<1> HIDE DEF s
<1>3. PICK st \in {"approved", "denied"} :
        /\ items' = [s EXCEPT ![a].status = st]
        /\ st = "approved" => granted' = [granted EXCEPT ![s[a].req] = @ + 1]
        /\ st = "denied" => granted' = granted
  BY <1>1
<1>4. s[a] \in Approvals /\ s \in [DOMAIN s -> Approvals] /\ DOMAIN s \subseteq 1..issued
  BY <1>1, <1>2 DEF ItemsOK
<1>5. PICK x \in Approvals : x = [s[a] EXCEPT !.status = st] /\ x.status = st /\ x.req = s[a].req
  <2>1. st \in {"pending", "approved", "denied", "used"}
    OBVIOUS
  <2>2. /\ [s[a] EXCEPT !.status = st] \in Approvals
        /\ [s[a] EXCEPT !.status = st].status = st /\ [s[a] EXCEPT !.status = st].req = s[a].req
    BY <1>4, <2>1, StatusSet, Zenon
  <2> QED
    BY <2>2, Zenon
<1>6. items' = [s EXCEPT ![a] = x]
  BY <1>3, <1>5, Zenon
<1>7. /\ DOMAIN items' = DOMAIN s /\ items' \in [DOMAIN s -> Approvals] /\ items'[a] = x
      /\ \A b \in DOMAIN s \ {a} : items'[b] = s[b]
  BY <1>1, <1>4, <1>5, <1>6
<1>8. x.req \in Requests /\ granted' \in [Requests -> Nat]
  BY <1>2, <1>3, <1>5 DEF Approvals, CountsOK
<1>9. ASSUME NEW p \in Requests PROVE ran[p] + Cardinality(Approved(items', p)) <= granted'[p]
  <2>1. IsFiniteSet(Approved(s, p)) /\ Cardinality(Approved(s, p)) \in Nat
    BY <1>2, <1>4, ApprovedFinite DEF CountsOK
  <2>2. CASE st = "approved" /\ p = x.req
    <3>1. Approved(items', p) = Approved(s, p) \cup {a} /\ a \notin Approved(s, p)
      BY <1>1, <1>5, <1>7, <2>2 DEF Approved, Matches
    <3>2. Cardinality(Approved(items', p)) = Cardinality(Approved(s, p)) + 1
      BY <2>1, <3>1, FS_AddElement
    <3>3. granted'[p] = granted[p] + 1
      BY <1>2, <1>3, <1>5, <2>2 DEF CountsOK
    <3> QED
      BY <1>2, <2>1, <3>2, <3>3 DEF ItemsOK, CountsOK
  <2>3. CASE ~(st = "approved" /\ p = x.req)
    <3>1. Approved(items', p) = Approved(s, p)
      BY <1>1, <1>5, <1>7, <2>3 DEF Approved, Matches
    <3>2. granted'[p] = granted[p]
      BY <1>2, <1>3, <1>5, <2>3 DEF CountsOK
    <3> QED
      BY <1>2, <3>1, <3>2 DEF ItemsOK
  <2> QED
    BY <2>2, <2>3
<1>10. ItemsOK(items)'
  BY <1>1, <1>4, <1>7, <1>9 DEF ItemsOK, Approved, Matches
<1> QED
  BY <1>1, <1>2, <1>8, <1>10, ItemsStep DEF CountsOK

LEMMA ToolsStep == ToolsInv /\ [ToolsNext]_toolVars => ToolsInv'
<1> SUFFICES ASSUME ToolsInv, [ToolsNext]_toolVars PROVE ToolsInv'
  OBVIOUS
<1>1. CASE SweepApprovals
  <2>1. items' = Alive /\ UNCHANGED <<toolNow, issued, hits, granted, ran, starts>>
    BY <1>1 DEF SweepApprovals
  <2>2. ItemsOK(items')
    BY <2>1, AliveOK
  <2> QED
    BY <2>1, <2>2, ItemsStep DEF ToolsInv, CountsOK, ItemsOK, Approved, Matches
<1>2. CASE ToolTick
  <2>1. toolNow' = toolNow + 1 /\ UNCHANGED <<items, issued, hits, granted, ran, starts>>
    BY <1>2 DEF ToolTick
  <2>2. toolNow \in Nat
    BY DEF ToolsInv, CountsOK
  <2>3. ASSUME NEW c \in Callers PROVE WindowOK(starts[c], WindowOf(hits, c), toolNow + 1)
    BY <2>2, WindowLater DEF ToolsInv, RatesOK
  <2>4. RatesOK'
    BY <2>1, <2>3 DEF ToolsInv, RatesOK, Callers
  <2> QED
    BY <2>1, <2>2, <2>4 DEF ToolsInv, CountsOK, ItemsOK, Approved, Matches
<1>3. CASE UNCHANGED toolVars
  BY <1>3 DEF toolVars, ToolsInv, CountsOK, ItemsOK, RatesOK, Callers, Approved, Matches
<1> QED
  BY <1>1, <1>2, <1>3, RunToolStep, RateRefusesStep, AskApprovalStep, DecideStep DEF ToolsNext

LEMMA ToolsStart == ToolsInit => ToolsInv
<1> SUFFICES ASSUME ToolsInit PROVE ToolsInv
  OBVIOUS
<1>1. \A q \in Requests : Approved(items, q) = {}
  BY DEF ToolsInit, Approved, Matches
<1>2. ASSUME NEW c \in Callers PROVE starts[c] = << >> /\ WindowOf(hits, c) = << >>
  BY DEF ToolsInit, WindowOf
<1>3. Spaced(<< >>, RatePerMinute)
  BY DEF Spaced
<1>4. RatesOK
  BY <1>2, <1>3, WindowEmpty DEF ToolsInit, RatesOK
<1>5. Cardinality({}) = 0
  BY FS_EmptySet
<1>6. ItemsOK(items)
  BY <1>1, <1>5 DEF ToolsInit, ItemsOK
<1> QED
  BY <1>4, <1>6 DEF ToolsInit, ToolsInv, CountsOK

\* tools/registry.py and tools/approvals.py: a destructive call runs no more often
\* than a human approved exactly that call, and no caller runs a tool more often
\* than its rate in any minute, for any sizes of the store and of the table of
\* windows and whatever expires, is evicted or is purged.
THEOREM ToolRunsAllowedAlways == ToolsSpec => []ToolRunsAllowed
<1>1. ToolsInv => ToolRunsAllowed
  <2> SUFFICES ASSUME ToolsInv, NEW q \in Requests PROVE ran[q] <= granted[q]
    BY DEF ToolsInv, RatesOK, ToolRunsAllowed
  <2>1. Cardinality(Approved(items, q)) \in Nat
    BY ApprovedFinite DEF ToolsInv, CountsOK, ItemsOK
  <2> QED
    BY <2>1 DEF ToolsInv, CountsOK, ItemsOK
<1> QED
  BY <1>1, ToolsStart, ToolsStep, PTL DEF ToolsSpec

\* The two together: what the registry allows and what the client of a remote
\* server sends, whichever way their steps interleave.
THEOREM ToolCallsAlways == ToolsSpec /\ McpSpec => []ToolCallsSound
<1>1. ToolRunsAllowed /\ RemoteOnce => ToolCallsSound
  BY DEF ToolCallsSound
<1> QED
  BY <1>1, ToolRunsAllowedAlways, RemoteOnceAlways, PTL

-----------------------------------------------------------------------------
\* Gateway: the table of budgets, and the two accounts of what was used.

Rows == [key : Subjects \cup {Model}, win : Nat, n : Nat, cost : Nat]
Sums == [n : Nat, cost : Nat]
CallPlaces == {"none", "route", "tool", "opened", "sending", "lost", "done"}
CallKinds == {"", "chat"} \cup {body.kind : body \in Bodies}
CallRecs == [at : CallPlaces, subject : Subjects \cup {Model}, kind : CallKinds,
             model : BOOLEAN, paid : Nat, steps : Nat]

\* A sequence of entries, of which no two are of one key.
Table(u) ==
    /\ u \in Seq(Rows)
    /\ \A i, j \in 1..Len(u) : u[i].key = u[j].key => i = j

\* No entry of subject s counts more than room[s].
Within(u, room) == \A i \in 1..Len(u) : u[i].key \in Subjects => u[i].n <= room[u[i].key]

\* What v has is in u, but for entries of key.
Subtable(v, u, key) == \A i \in 1..Len(v) : v[i].key # key => \E j \in 1..Len(u) : v[i] = u[j]

LEMMA RemovedAt ==
    ASSUME NEW S, NEW s \in Seq(S), NEW k \in 1..Len(s)
    PROVE  /\ RemoveAt(s, k) \in Seq(S) /\ Len(RemoveAt(s, k)) = Len(s) - 1
           /\ \A j \in 1..(Len(s) - 1) : RemoveAt(s, k)[j] = IF j < k THEN s[j] ELSE s[j + 1]
<1> DEFINE before == SubSeq(s, 1, k - 1)
           after == SubSeq(s, k + 1, Len(s))
           t == before \o after
<1>1. /\ before \in Seq(S) /\ Len(before) = k - 1
      /\ \A j \in 1..(k - 1) : before[j] = s[j]
  OBVIOUS
<1>2. /\ after \in Seq(S) /\ Len(after) = Len(s) - k
      /\ \A j \in 1..(Len(s) - k) : after[j] = s[k + j]
  OBVIOUS
<1> HIDE DEF before, after
<1>3. t \in Seq(S) /\ Len(t) = Len(s) - 1
  BY <1>1, <1>2
<1>4. ASSUME NEW j \in 1..(Len(s) - 1) PROVE t[j] = IF j < k THEN s[j] ELSE s[j + 1]
  <2>1. CASE j < k
    BY <1>1, <1>2, <1>3, <2>1
  <2>2. CASE ~(j < k)
    <3>1. t[j] = after[j - (k - 1)] /\ j - (k - 1) \in 1..(Len(s) - k)
      BY <1>1, <1>2, <1>3, <2>2
    <3>2. k + (j - (k - 1)) = j + 1
      OBVIOUS
    <3> QED
      BY <1>2, <2>2, <3>1, <3>2
  <2> QED
    BY <2>1, <2>2
<1>5. RemoveAt(s, k) = t
  BY DEF RemoveAt, before, after
<1> HIDE DEF t
<1> QED
  BY <1>3, <1>4, <1>5

LEMMA WithoutOK ==
    ASSUME NEW u, Table(u), NEW key
    PROVE  LET v == Without(u, key)
           IN  /\ Table(v) /\ Subtable(v, u, key)
               /\ \A i \in 1..Len(v) : v[i].key # key
               /\ \A j \in 1..Len(u) : u[j].key # key => \E i \in 1..Len(v) : v[i] = u[j]
<1> DEFINE v == Without(u, key)
<1>1. u \in Seq(Rows) /\ Len(u) \in Nat /\ DOMAIN u = 1..Len(u)
  BY DEF Table
<1>2. ToSet(u) = {u[i] : i \in 1..Len(u)}
  BY <1>1 DEF ToSet
<1>3. CASE ~ \E i \in 1..Len(u) : u[i].key = key
  <2>1. v = u
    BY <1>2, <1>3 DEF Without
  <2> QED
    BY <1>3, <2>1 DEF Subtable
<1>4. CASE \E i \in 1..Len(u) : u[i].key = key
  <2>1. PICK k \in 1..Len(u) : k = CHOOSE i \in DOMAIN u : u[i].key = key
    BY <1>1, <1>4
  <2>2. u[k].key = key
    BY <1>1, <1>4, <2>1
  <2>3. v = RemoveAt(u, k)
    BY <1>2, <1>4, <2>1 DEF Without
  <2>4. /\ v \in Seq(Rows) /\ Len(v) = Len(u) - 1
        /\ \A j \in 1..(Len(u) - 1) : v[j] = IF j < k THEN u[j] ELSE u[j + 1]
    BY <1>1, <2>3, RemovedAt
  <2> HIDE DEF v
  <2>9. \A j \in 1..Len(v) : \E i \in 1..Len(u) :
            v[j] = u[i] /\ i = (IF j < k THEN j ELSE j + 1) /\ i # k
    BY <1>1, <2>4
  <2>10. \A i, j \in 1..Len(v) : v[i].key = v[j].key => i = j
    BY <1>1, <2>4, <2>9 DEF Table
  <2>11. \A i \in 1..Len(v) : v[i].key # key
    BY <2>2, <2>9 DEF Table
  <2>12. ASSUME NEW j \in 1..Len(u), u[j].key # key PROVE \E i \in 1..Len(v) : v[i] = u[j]
    <3>1. j # k
      BY <2>2, <2>12
    <3>2. CASE j < k
      <4>1. j \in 1..(Len(u) - 1) /\ v[j] = u[j]
        BY <1>1, <2>4, <3>2
      <4> QED
        BY <2>4, <4>1
    <3>3. CASE ~(j < k)
      <4>1. j - 1 \in 1..(Len(u) - 1) /\ ~(j - 1 < k) /\ (j - 1) + 1 = j
        BY <1>1, <3>1, <3>3
      <4>2. v[j - 1] = u[j]
        BY <2>4, <4>1
      <4> QED
        BY <2>4, <4>1, <4>2
    <3> QED
      BY <3>2, <3>3
  <2> QED
    BY <2>4, <2>9, <2>10, <2>11, <2>12 DEF Table, Subtable, v
<1> QED
  BY <1>3, <1>4

\* The entry of a key becomes the last of the table, and it is one that was there or a
\* new one.
LEMMA CurrentOK ==
    ASSUME NEW u, Table(u), win \in Nat, NEW key \in Subjects \cup {Model}
    PROVE  LET v == Current(u, key)
           IN  /\ Table(v) /\ Subtable(v, u, key) /\ Len(v) \in Nat \ {0}
               /\ v[Len(v)].key = key /\ v[Len(v)].win = win
               /\ \/ \E j \in 1..Len(u) : v[Len(v)] = u[j]
                  \/ /\ v[Len(v)].n = 0
                     /\ \A j \in 1..Len(u) : ~(u[j].key = key /\ u[j].win = win)
<1> DEFINE fresh == [key |-> key, win |-> win, n |-> 0, cost |-> 0]
           found == {e \in ToSet(u) : e.key = key /\ e.win = win}
           entry == IF found = {} THEN fresh ELSE CHOOSE e \in found : TRUE
           w == Without(u, key)
           all == Append(w, entry)
           v == IF Len(all) > MaxTracked THEN SubSeq(all, 1 + Len(all) - MaxTracked, Len(all)) ELSE all
<1>1. Current(u, key) = v
  BY DEF Current, Found
<1>2. /\ Table(w) /\ Subtable(w, u, key)
      /\ \A i \in 1..Len(w) : w[i].key # key
  BY WithoutOK
<1>3. u \in Seq(Rows) /\ ToSet(u) = {u[i] : i \in 1..Len(u)}
  BY DEF Table, ToSet
<1>4. /\ entry \in Rows /\ entry.key = key /\ entry.win = win
      /\ \/ \E j \in 1..Len(u) : entry = u[j]
         \/ entry.n = 0 /\ \A j \in 1..Len(u) : ~(u[j].key = key /\ u[j].win = win)
  <2>1. CASE found = {}
    <3>1. \A j \in 1..Len(u) : ~(u[j].key = key /\ u[j].win = win)
      BY <1>3, <2>1
    <3> QED
      BY <2>1, <3>1 DEF Rows
  <2>2. CASE found # {}
    <3>1. entry \in found
      BY <2>2
    <3> HIDE DEF entry
    <3>2. PICK j \in 1..Len(u) : entry = u[j]
      BY <1>3, <3>1
    <3>3. u[j] \in Rows /\ entry.key = key /\ entry.win = win
      BY <1>3, <3>1
    <3> QED
      BY <3>2, <3>3
  <2> QED
    BY <2>1, <2>2
<1> HIDE DEF w, entry
<1>5. /\ w \in Seq(Rows) /\ Len(w) \in Nat /\ all \in Seq(Rows) /\ Len(all) = Len(w) + 1
      /\ all[Len(w) + 1] = entry /\ \A i \in 1..Len(w) : all[i] = w[i]
  BY <1>2, <1>4 DEF Table
<1> HIDE DEF all
<1>6. ASSUME NEW i \in 1..Len(all)
      PROVE  (i = Len(all) /\ all[i] = entry) \/ (i \in 1..Len(w) /\ all[i] = w[i])
  <2>1. CASE i = Len(w) + 1
    <3>1. i = Len(all)
      BY <1>5, <2>1
    <3>2. all[i] = entry
      BY <1>5, <2>1
    <3> QED
      BY <3>1, <3>2
  <2>2. CASE i # Len(w) + 1
    <3>1. i \in 1..Len(w)
      BY <1>5, <2>2
    <3> QED
      BY <1>5, <3>1
  <2> QED
    BY <2>1, <2>2
<1>7. Table(all) /\ Subtable(all, u, key)
  <2>1. \A i, j \in 1..Len(all) : all[i].key = all[j].key => i = j
    BY <1>2, <1>4, <1>6 DEF Table
  <2>2. Subtable(all, u, key)
    <3> SUFFICES ASSUME NEW i \in 1..Len(all), all[i].key # key
                 PROVE  \E j \in 1..Len(u) : all[i] = u[j]
      BY DEF Subtable
    <3>1. i \in 1..Len(w) /\ all[i] = w[i]
      BY <1>4, <1>6
    <3> QED
      BY <1>2, <3>1 DEF Subtable
  <2> QED
    BY <1>5, <2>1, <2>2 DEF Table
<1>8. all[Len(all)] = entry
  BY <1>5
<1>9. CASE Len(all) > MaxTracked
  <2>1. MaxTracked \in Nat \ {0} /\ Len(all) \in Nat /\ all \in Seq(Rows)
    BY <1>5, GatewayAssumption
  <2>2. /\ v \in Seq(Rows) /\ Len(v) = MaxTracked
        /\ \A i \in 1..MaxTracked : v[i] = all[i + (Len(all) - MaxTracked)]
    BY <1>9, <2>1
  <2> DEFINE d == Len(all) - MaxTracked
  <2>3. \A i \in 1..MaxTracked : i + d \in 1..Len(all) /\ v[i] = all[i + d]
    BY <1>9, <2>1, <2>2
  <2>4. MaxTracked + d = Len(all) /\ d \in Nat
    BY <1>9, <2>1
  <2> HIDE DEF v, d
  <2>5. v[Len(v)] = all[Len(all)]
    BY <2>1, <2>2, <2>3, <2>4
  <2>6. \A i, j \in 1..Len(v) : v[i].key = v[j].key => i = j
    <3> SUFFICES ASSUME NEW i \in 1..Len(v), NEW j \in 1..Len(v), v[i].key = v[j].key
                 PROVE  i = j
      OBVIOUS
    <3>1. i + d = j + d
      <4>1. i + d \in 1..Len(all) /\ v[i] = all[i + d]
        BY <2>2, <2>3
      <4>2. j + d \in 1..Len(all) /\ v[j] = all[j + d]
        BY <2>2, <2>3
      <4> QED
        BY <1>7, <4>1, <4>2 DEF Table
    <3> QED
      BY <2>1, <2>2, <2>4, <3>1
  <2>7. Subtable(v, u, key)
    BY <1>7, <2>2, <2>3 DEF Subtable
  <2> QED
    BY <1>1, <1>4, <1>8, <2>1, <2>2, <2>5, <2>6, <2>7 DEF Table
<1>10. CASE ~(Len(all) > MaxTracked)
  BY <1>1, <1>4, <1>5, <1>7, <1>8, <1>10
<1> QED
  BY <1>9, <1>10

\* Room in the table as a function of the subjects.
Rooms == [Subjects -> Nat]

LEMMA CurrentWithin ==
    ASSUME NEW u, Table(u), win \in Nat, NEW key \in Subjects \cup {Model},
           NEW room \in Rooms, Within(u, room)
    PROVE  Within(Current(u, key), room)
<1> DEFINE v == Current(u, key)
<1>1. /\ Table(v) /\ Subtable(v, u, key) /\ Len(v) \in Nat \ {0} /\ v[Len(v)].key = key
      /\ v[Len(v)].n = 0 \/ \E j \in 1..Len(u) : v[Len(v)] = u[j]
  BY CurrentOK
<1> HIDE DEF v
<1>2. ASSUME NEW i \in 1..Len(v), v[i].key \in Subjects PROVE v[i].n <= room[v[i].key]
  <2>1. CASE v[i].key # key
    <3>1. PICK j \in 1..Len(u) : v[i] = u[j]
      BY <1>1, <2>1 DEF Subtable
    <3> QED
      BY <1>2, <3>1 DEF Within
  <2>2. CASE v[i].key = key
    <3>1. i = Len(v)
      BY <1>1, <2>2 DEF Table
    <3>2. CASE v[i].n = 0
      BY <1>2, <3>2 DEF Rooms
    <3>3. CASE \E j \in 1..Len(u) : v[i] = u[j]
      BY <1>2, <3>3 DEF Within
    <3> QED
      BY <1>1, <3>1, <3>2, <3>3
  <2> QED
    BY <2>1, <2>2
<1> QED
  BY <1>2 DEF Within, v

\* A charge of n needs room for n more of its key.
LEMMA ChargeOK ==
    ASSUME NEW u, Table(u), win \in Nat, NEW key \in Subjects \cup {Model},
           NEW n \in Nat, NEW cost \in Nat, NEW room \in Rooms, NEW more \in Rooms,
           Within(u, room),
           \A s \in Subjects : room[s] + (IF s = key THEN n ELSE 0) <= more[s]
    PROVE  Table(Charge(u, key, n, cost)) /\ Within(Charge(u, key, n, cost), more)
<1> DEFINE v == Current(u, key)
           z == Len(v)
<1>1. Table(v) /\ z \in Nat \ {0} /\ v[z].key = key
  BY CurrentOK
<1>2. Within(v, room)
  BY CurrentWithin
<1>3. Charge(u, key, n, cost) =
          [v EXCEPT ![z] = [key |-> key, win |-> win, n |-> v[z].n + n, cost |-> v[z].cost + cost]]
  BY DEF Charge
<1> HIDE DEF v
<1>4. v \in Seq(Rows) /\ z \in 1..z /\ DOMAIN v = 1..z
  BY <1>1 DEF Table
<1>5. v[z] \in Rows
  BY <1>4
<1>6. PICK r \in Rows :
        r = [key |-> key, win |-> win, n |-> v[z].n + n, cost |-> v[z].cost + cost]
  <2>1. v[z].n + n \in Nat /\ v[z].cost + cost \in Nat
    BY <1>5 DEF Rows
  <2> QED
    BY <2>1 DEF Rows
<1>8. PICK w : w = [v EXCEPT ![z] = r]
  OBVIOUS
<1>9. w \in Seq(Rows) /\ Len(w) = z /\ \A i \in 1..z : w[i] = IF i = z THEN r ELSE v[i]
  BY <1>4, <1>8
<1>10. r.key = key /\ r.n = v[z].n + n
  BY <1>1, <1>6
<1>11. Table(w)
  BY <1>1, <1>9, <1>10 DEF Table
<1>12. ASSUME NEW i \in 1..Len(w), w[i].key \in Subjects PROVE w[i].n <= more[w[i].key]
  <2> DEFINE s == w[i].key
  <2>1. /\ v[i] \in Rows /\ v[i].n \in Nat /\ v[i].key = s
        /\ v[i].n <= room[s] /\ room[s] \in Nat /\ more[s] \in Nat
        /\ room[s] + (IF s = key THEN n ELSE 0) <= more[s]
    <3>1. i \in 1..z /\ v[i] \in Rows /\ v[i].key = s
      <4>1. i \in 1..z /\ v[i] \in Rows
        BY <1>4, <1>9, <1>12
      <4>2. CASE i = z
        BY <1>1, <1>9, <1>10, <4>1, <4>2
      <4>3. CASE i # z
        BY <1>9, <4>1, <4>3
      <4> QED
        BY <4>1, <4>2, <4>3
    <3>2. v[i].n \in Nat /\ v[i].n <= room[s]
      BY <1>2, <1>12, <3>1 DEF Within, Rows
    <3> QED
      BY <1>12, <3>1, <3>2 DEF Rooms
  <2>2. CASE i = z
    BY <1>9, <1>10, <1>12, <2>1, <2>2
  <2>3. CASE i # z
    <3>1. w[i] = v[i]
      BY <1>9, <1>12, <2>3
    <3> QED
      BY <2>1, <3>1
  <2> QED
    BY <2>2, <2>3
<1>13. Within(w, more)
  BY <1>12 DEF Within
<1> QED
  BY <1>3, <1>6, <1>8, <1>11, <1>13

-----------------------------------------------------------------------------
Waits(k, s) == k.subject = s /\ k.at \in {"route", "tool"}
Streams(k, s) == k.subject = s /\ k.at \in {"opened", "sending", "lost"}

GateTypes ==
    /\ call \in [Calls -> CallRecs]
    /\ \A c \in Calls : call[c].at \notin {"none", "done"} => call[c].subject \in Subjects
    /\ win \in Nat
    /\ limits \in [Subjects -> Nat] /\ peak \in [Subjects -> Nat]
    /\ ledger \in [Subjects -> Sums] /\ charged \in [Subjects -> Sums]

\* How far a subject may get with what it has in flight.
Room(s) == Spare(s) + peak[s] - Cardinality(Waiting(s))

PeakOK == \A s \in Subjects : Cardinality(Waiting(s)) <= peak[s]

GatewayInv ==
    /\ GateTypes /\ Table(usage) /\ PeakOK
    /\ Within(usage, [s \in Subjects |-> Room(s)])
    /\ AccountsAgree

LEMMA SpareOK ==
    ASSUME NEW s, limits[s] \in Nat
    PROVE  Spare(s) \in Nat /\ \A n \in Nat : n + 1 <= limits[s] => n <= Spare(s)
  BY DEF Spare

LEMMA CallsFinite == \A S \in SUBSET Calls : IsFiniteSet(S) /\ Cardinality(S) \in Nat
<1>1. IsFiniteSet(Calls)
  BY FS_Interval, GatewayAssumption DEF Calls
<1> QED
  BY <1>1, FS_Subset, FS_CardinalityType

\* One member comes or goes.
LEMMA OneComesOrGoes ==
    ASSUME NEW S \in SUBSET Calls, NEW T \in SUBSET Calls, NEW c \in Calls, S \ {c} = T \ {c}
    PROVE  Cardinality(T) = Cardinality(S) - (IF c \in S THEN 1 ELSE 0) + (IF c \in T THEN 1 ELSE 0)
<1>1. IsFiniteSet(S) /\ IsFiniteSet(T) /\ Cardinality(S) \in Nat /\ Cardinality(T) \in Nat
  BY CallsFinite
<1>2. Cardinality(S \ {c}) = Cardinality(S) - (IF c \in S THEN 1 ELSE 0)
  <2>1. CASE c \in S
    BY <1>1, <2>1, FS_RemoveElement
  <2>2. CASE c \notin S
    <3>1. S \ {c} = S
      BY <2>2
    <3> QED
      BY <1>1, <2>2, <3>1
  <2> QED
    BY <2>1, <2>2
<1>3. Cardinality(T \ {c}) = Cardinality(T) - (IF c \in T THEN 1 ELSE 0)
  <2>1. CASE c \in T
    BY <1>1, <2>1, FS_RemoveElement
  <2>2. CASE c \notin T
    <3>1. T \ {c} = T
      BY <2>2
    <3> QED
      BY <1>1, <2>2, <3>1
  <2> QED
    BY <2>1, <2>2
<1> QED
  BY <1>1, <1>2, <1>3

\* What a step of one call does to the counts of its subjects.
LEMMA CallMoves ==
    ASSUME GatewayInv, NEW c \in Calls, NEW k \in CallRecs, call' = [call EXCEPT ![c] = k],
           NEW s \in Subjects
    PROVE  /\ Cardinality(Waiting(s)) \in Nat /\ Cardinality(Waiting(s)') \in Nat
           /\ Cardinality(Unbooked(s)) \in Nat /\ Cardinality(Unbooked(s)') \in Nat
           /\ Cardinality(Waiting(s)') = Cardinality(Waiting(s))
                 - (IF Waits(call[c], s) THEN 1 ELSE 0) + (IF Waits(k, s) THEN 1 ELSE 0)
           /\ Cardinality(Unbooked(s)') = Cardinality(Unbooked(s))
                 - (IF Streams(call[c], s) THEN 1 ELSE 0) + (IF Streams(k, s) THEN 1 ELSE 0)
<1>1. /\ call'[c] = k /\ \A d \in Calls \ {c} : call'[d] = call[d]
  BY DEF GatewayInv, GateTypes
<1> DEFINE W == Waiting(s)
           X == Waiting(s)'
           U == Unbooked(s)
           V == Unbooked(s)'
<1>2. /\ W \in SUBSET Calls /\ X \in SUBSET Calls /\ W \ {c} = X \ {c}
      /\ (c \in W <=> Waits(call[c], s)) /\ (c \in X <=> Waits(k, s))
  BY <1>1 DEF Waiting, Waits
<1>3. /\ U \in SUBSET Calls /\ V \in SUBSET Calls /\ U \ {c} = V \ {c}
      /\ (c \in U <=> Streams(call[c], s)) /\ (c \in V <=> Streams(k, s))
  BY <1>1 DEF Unbooked, Streams
<1> HIDE DEF W, X, U, V
<1>4. Cardinality(X) = Cardinality(W) - (IF Waits(call[c], s) THEN 1 ELSE 0) + (IF Waits(k, s) THEN 1 ELSE 0)
  BY <1>2, OneComesOrGoes
<1>5. Cardinality(V) = Cardinality(U) - (IF Streams(call[c], s) THEN 1 ELSE 0) + (IF Streams(k, s) THEN 1 ELSE 0)
  BY <1>3, OneComesOrGoes
<1>6. /\ Cardinality(W) \in Nat /\ Cardinality(X) \in Nat
      /\ Cardinality(U) \in Nat /\ Cardinality(V) \in Nat
  BY <1>2, <1>3, CallsFinite
<1> QED
  BY <1>4, <1>5, <1>6 DEF W, X, U, V

LEMMA RoomOK ==
    ASSUME GatewayInv
    PROVE  [s \in Subjects |-> Room(s)] \in Rooms
<1>1. ASSUME NEW s \in Subjects PROVE Room(s) \in Nat
  <2>1. Waiting(s) \in SUBSET Calls
    BY DEF Waiting
  <2>2. Cardinality(Waiting(s)) \in Nat
    BY <2>1, CallsFinite
  <2>3. Spare(s) \in Nat /\ peak[s] \in Nat /\ Cardinality(Waiting(s)) <= peak[s]
    BY SpareOK DEF GatewayInv, GateTypes, PeakOK
  <2> QED
    BY <2>2, <2>3 DEF Room
<1> QED
  BY <1>1 DEF Rooms

\* A step that leaves the calls where they are.
LEMMA TableStep ==
    ASSUME GatewayInv, UNCHANGED <<call, peak, ledger, charged>>, win' \in Nat,
           limits' \in [Subjects -> Nat], Table(usage'),
           Within(usage', [s \in Subjects |-> Room(s)'])
    PROVE  GatewayInv'
<1>1. \A s \in Subjects : Waiting(s)' = Waiting(s) /\ Unbooked(s)' = Unbooked(s)
  BY DEF Waiting, Unbooked
<1>2. GateTypes'
  BY DEF GatewayInv, GateTypes
<1>3. PeakOK'
  BY <1>1 DEF GatewayInv, PeakOK
<1>4. AccountsAgree'
  BY <1>1 DEF GatewayInv, AccountsAgree
<1>5. Table(usage)' /\ Within(usage, [s \in Subjects |-> Room(s)])'
  BY DEF Table, Within
<1> QED
  BY <1>2, <1>3, <1>4, <1>5 DEF GatewayInv

\* A step of a call that books nothing and waits no more than before.
LEMMA CallGoesOn ==
    ASSUME GatewayInv, NEW c \in Calls, NEW k \in CallRecs, call' = [call EXCEPT ![c] = k],
           k.at \notin {"none", "done"} => k.subject \in Subjects,
           \A s \in Subjects : (Waits(k, s) => Waits(call[c], s)) /\ (Streams(k, s) <=> Streams(call[c], s)),
           UNCHANGED <<limits, win, ledger, charged, peak>>,
           Table(usage'), Within(usage', [s \in Subjects |-> Room(s)])
    PROVE  GatewayInv'
<1>1. GateTypes'
  BY DEF GatewayInv, GateTypes
<1>2. ASSUME NEW s \in Subjects
      PROVE  /\ Cardinality(Waiting(s)') <= peak'[s] /\ Room(s)' >= Room(s)
             /\ Cardinality(Unbooked(s)') = Cardinality(Unbooked(s))
             /\ Room(s) \in Int /\ Room(s)' \in Int
  <2>1. /\ Cardinality(Waiting(s)) \in Nat /\ Cardinality(Waiting(s)') \in Nat
        /\ Cardinality(Unbooked(s)) \in Nat /\ Cardinality(Unbooked(s)') \in Nat
        /\ Cardinality(Waiting(s)') = Cardinality(Waiting(s))
              - (IF Waits(call[c], s) THEN 1 ELSE 0) + (IF Waits(k, s) THEN 1 ELSE 0)
        /\ Cardinality(Unbooked(s)') = Cardinality(Unbooked(s))
              - (IF Streams(call[c], s) THEN 1 ELSE 0) + (IF Streams(k, s) THEN 1 ELSE 0)
    BY CallMoves
  <2>2. Cardinality(Waiting(s)') <= Cardinality(Waiting(s))
    BY <2>1
  <2>3. Spare(s) \in Nat /\ peak[s] \in Nat /\ Cardinality(Waiting(s)) <= peak[s]
    BY SpareOK DEF GatewayInv, GateTypes, PeakOK
  <2>4. Cardinality(Unbooked(s)') = Cardinality(Unbooked(s))
    BY <2>1
  <2>5. Room(s)' = Spare(s) + peak[s] - Cardinality(Waiting(s)')
    BY DEF Room, Spare
  <2> QED
    BY <2>1, <2>2, <2>3, <2>4, <2>5 DEF Room
<1>3. PeakOK'
  BY <1>2 DEF PeakOK
<1>4. AccountsAgree'
  BY <1>2 DEF GatewayInv, AccountsAgree
<1>5. Within(usage', [s \in Subjects |-> Room(s)'])
  <2>1. PICK v \in Seq(Rows) : v = usage'
    BY DEF Table
  <2>2. ASSUME NEW i \in 1..Len(v), NEW s \in Subjects, v[i].key = s
        PROVE  v[i].n <= Room(s)'
    <3>1. v[i].n <= Room(s)
      BY <2>1, <2>2 DEF Within
    <3>2. Room(s)' >= Room(s) /\ Room(s) \in Int /\ Room(s)' \in Int
      BY <1>2
    <3>3. v[i] \in Rows
      BY <2>1
    <3>4. v[i].n \in Nat
      BY <3>3 DEF Rows
    <3> QED
      BY <3>1, <3>2, <3>4
  <2> QED
    BY <2>1, <2>2 DEF Within
<1>6. Table(usage)' /\ Within(usage, [s \in Subjects |-> Room(s)])'
  BY <1>5 DEF Table, Within
<1> QED
  BY <1>1, <1>3, <1>4, <1>6 DEF GatewayInv

DoneCall == [NoCall EXCEPT !.at = "done"]

LEMMA DoneOK == DoneCall \in CallRecs /\ DoneCall.at = "done"
  BY DEF DoneCall, NoCall, CallRecs, CallPlaces, CallKinds

\* A call awaits something else.
LEMMA AwaitsOK ==
    ASSUME GatewayInv, NEW c \in Calls, NEW at \in CallPlaces, NEW paid \in Nat,
           NEW steps \in Nat, Awaits(c, at, paid, steps)
    PROVE  \E k \in CallRecs : /\ call' = [call EXCEPT ![c] = k]
                               /\ k.at = at /\ k.subject = call[c].subject
<1>1. PICK r \in CallRecs : r = call[c]
  BY DEF GatewayInv, GateTypes
<1>2. PICK k : k = [at |-> at, subject |-> r.subject, kind |-> r.kind, model |-> r.model,
                    paid |-> paid, steps |-> steps]
  OBVIOUS
<1>3. k \in CallRecs /\ k.at = at /\ k.subject = r.subject
  BY <1>2 DEF CallRecs
<1>4. call' = [call EXCEPT ![c] = k]
  BY <1>1, <1>2 DEF Awaits
<1> QED
  BY <1>1, <1>3, <1>4

LEMMA UsageStays ==
    ASSUME GatewayInv, usage' = usage
    PROVE  Table(usage') /\ Within(usage', [s \in Subjects |-> Room(s)])
  BY DEF GatewayInv

\* A call ends of which nothing is booked.
LEMMA EndsUnbooked ==
    ASSUME GatewayInv, NEW c \in Calls, EndCall(c), call[c].at \in {"none", "route", "tool"},
           UNCHANGED <<limits, win, ledger, charged, peak>>,
           Table(usage'), Within(usage', [s \in Subjects |-> Room(s)])
    PROVE  GatewayInv'
<1>1. DoneCall \in CallRecs /\ DoneCall.at = "done"
  BY DoneOK
<1>2. call' = [call EXCEPT ![c] = DoneCall]
  BY DEF EndCall, DoneCall
<1>3. \A s \in Subjects : (Waits(DoneCall, s) => Waits(call[c], s))
                          /\ (Streams(DoneCall, s) <=> Streams(call[c], s))
  BY <1>1 DEF Waits, Streams
<1>4. DoneCall.at \notin {"none", "done"} => DoneCall.subject \in Subjects
  BY <1>1
<1> QED
  BY <1>1, <1>2, <1>3, <1>4, CallGoesOn

LEMMA PlainEnds ==
    ASSUME GatewayInv, NEW c \in Calls,
           Refuse(c) \/ Withheld(c) \/ NeedsApproval(c) \/ RouteRaises(c)
    PROVE  GatewayInv'
<1>1. /\ EndCall(c) /\ call[c].at \in {"none", "route", "tool"}
      /\ UNCHANGED <<usage, limits, win, ledger, charged, peak>>
  BY DEF Refuse, Withheld, NeedsApproval, RouteRaises, Arrives
<1>2. Table(usage') /\ Within(usage', [s \in Subjects |-> Room(s)])
  BY <1>1, UsageStays
<1> QED
  BY <1>1, <1>2, EndsUnbooked

\* A call goes on without leaving the budgets or the ledger anything to record.
LEMMA GoesOn ==
    ASSUME GatewayInv, NEW c \in Calls,
           \/ SchemaRetry(c) \/ AsksForTool(c) \/ ToolReturns(c)
           \/ StartSending(c) \/ NeverSent(c)
    PROVE  GatewayInv'
<1>2. /\ call[c].paid \in Nat /\ call[c].steps \in Nat
      /\ call[c].paid + 1 \in Nat /\ call[c].steps + 1 \in Nat
      /\ "route" \in CallPlaces /\ "tool" \in CallPlaces
      /\ "sending" \in CallPlaces /\ "lost" \in CallPlaces
  BY DEF GatewayInv, GateTypes, CallRecs, CallPlaces
<1>3. PICK k \in CallRecs :
        /\ call' = [call EXCEPT ![c] = k] /\ k.subject = call[c].subject
        /\ \/ k.at \in {"route", "tool"} /\ call[c].at \in {"route", "tool"}
           \/ k.at \in {"sending", "lost"} /\ call[c].at = "opened"
  <2>1. CASE SchemaRetry(c)
    <3>1. Awaits(c, "route", 1, call[c].steps) /\ call[c].at = "route"
      BY <2>1 DEF SchemaRetry
    <3>2. PICK k \in CallRecs : /\ call' = [call EXCEPT ![c] = k]
                               /\ k.at = "route" /\ k.subject = call[c].subject
      BY <1>2, <3>1, AwaitsOK
    <3> QED
      BY <3>1, <3>2
  <2>2. CASE AsksForTool(c)
    <3>1. Awaits(c, "tool", call[c].paid + 1, call[c].steps) /\ call[c].at = "route"
      BY <2>2 DEF AsksForTool
    <3>2. PICK k \in CallRecs : /\ call' = [call EXCEPT ![c] = k]
                               /\ k.at = "tool" /\ k.subject = call[c].subject
      BY <1>2, <3>1, AwaitsOK
    <3> QED
      BY <3>1, <3>2
  <2>3. CASE ToolReturns(c)
    <3>1. Awaits(c, "route", call[c].paid, call[c].steps + 1) /\ call[c].at = "tool"
      BY <2>3 DEF ToolReturns
    <3>2. PICK k \in CallRecs : /\ call' = [call EXCEPT ![c] = k]
                               /\ k.at = "route" /\ k.subject = call[c].subject
      BY <1>2, <3>1, AwaitsOK
    <3> QED
      BY <3>1, <3>2
  <2>4. CASE StartSending(c)
    <3>1. Awaits(c, "sending", call[c].paid, call[c].steps) /\ call[c].at = "opened"
      BY <2>4 DEF StartSending
    <3>2. PICK k \in CallRecs : /\ call' = [call EXCEPT ![c] = k]
                               /\ k.at = "sending" /\ k.subject = call[c].subject
      BY <1>2, <3>1, AwaitsOK
    <3> QED
      BY <3>1, <3>2
  <2>5. CASE NeverSent(c)
    <3>1. Awaits(c, "lost", call[c].paid, call[c].steps) /\ call[c].at = "opened"
      BY <2>5 DEF NeverSent
    <3>2. PICK k \in CallRecs : /\ call' = [call EXCEPT ![c] = k]
                               /\ k.at = "lost" /\ k.subject = call[c].subject
      BY <1>2, <3>1, AwaitsOK
    <3> QED
      BY <3>1, <3>2
  <2> QED
    BY <2>1, <2>2, <2>3, <2>4, <2>5
<1>4. UNCHANGED <<usage, limits, win, ledger, charged, peak>>
  BY DEF SchemaRetry, AsksForTool, ToolReturns, StartSending, NeverSent
<1>5. Table(usage') /\ Within(usage', [s \in Subjects |-> Room(s)])
  BY <1>4, UsageStays
<1>6. \A s \in Subjects : (Waits(k, s) => Waits(call[c], s)) /\ (Streams(k, s) <=> Streams(call[c], s))
  BY <1>3 DEF Waits, Streams
<1>7. k.subject \in Subjects
  BY <1>3 DEF GatewayInv, GateTypes
<1>8. UNCHANGED <<limits, win, ledger, charged, peak>> /\ call' = [call EXCEPT ![c] = k]
  BY <1>3, <1>4
<1> QED
  BY <1>5, <1>6, <1>7, <1>8, CallGoesOn

-----------------------------------------------------------------------------
\* What a call cost is booked: n requests of those that wait are counted.
LEMMA BookStep ==
    ASSUME GatewayInv, NEW c \in Calls, NEW k \in CallRecs, call' = [call EXCEPT ![c] = k],
           NEW s \in Subjects, call[c].subject = s, call[c].at \notin {"none", "done"},
           k.at \in {"done", "opened"}, k.at = "opened" => k.subject = s,
           NEW n \in {0, 1}, n = (IF Waits(call[c], s) THEN 1 ELSE 0),
           NEW cost \in Nat, NEW shared \in BOOLEAN, NEW m \in Nat,
           usage' = IF shared THEN Charge(Charge(usage, s, n, cost), Model, m, cost)
                    ELSE Charge(usage, s, n, cost),
           NEW x \in Sums, NEW y \in Sums,
           charged' = [charged EXCEPT ![s] = x], ledger' = [ledger EXCEPT ![s] = y],
           x.cost = y.cost,
           x.n - y.n = charged[s].n - ledger[s].n
               - (IF Streams(call[c], s) THEN 1 ELSE 0) + (IF k.at = "opened" THEN 1 ELSE 0),
           UNCHANGED <<limits, win, peak>>
    PROVE  GatewayInv'
<1>1. GateTypes'
  BY DEF GatewayInv, GateTypes
<1> DEFINE room == [t \in Subjects |-> Room(t)]
           more == [t \in Subjects |-> Room(t)']
<1>2. ASSUME NEW t \in Subjects
      PROVE  /\ Cardinality(Waiting(t)') <= peak'[t] /\ Room(t)' \in Nat
             /\ Room(t)' = Room(t) + (IF t = s THEN n ELSE 0)
             /\ Cardinality(Unbooked(t)) \in Nat /\ Cardinality(Unbooked(t)') \in Nat
             /\ Cardinality(Unbooked(t)') = Cardinality(Unbooked(t))
                  - (IF t = s /\ Streams(call[c], s) THEN 1 ELSE 0)
                  + (IF t = s /\ k.at = "opened" THEN 1 ELSE 0)
  <2>1. /\ Cardinality(Waiting(t)) \in Nat /\ Cardinality(Waiting(t)') \in Nat
        /\ Cardinality(Unbooked(t)) \in Nat /\ Cardinality(Unbooked(t)') \in Nat
        /\ Cardinality(Waiting(t)') = Cardinality(Waiting(t))
              - (IF Waits(call[c], t) THEN 1 ELSE 0) + (IF Waits(k, t) THEN 1 ELSE 0)
        /\ Cardinality(Unbooked(t)') = Cardinality(Unbooked(t))
              - (IF Streams(call[c], t) THEN 1 ELSE 0) + (IF Streams(k, t) THEN 1 ELSE 0)
    BY CallMoves
  <2>2. /\ ~Waits(k, t) /\ (Streams(k, t) <=> t = s /\ k.at = "opened")
        /\ (Waits(call[c], t) <=> t = s /\ Waits(call[c], s))
        /\ (Streams(call[c], t) <=> t = s /\ Streams(call[c], s))
    BY DEF Waits, Streams
  <2>3. Spare(t) \in Nat /\ peak[t] \in Nat /\ Cardinality(Waiting(t)) <= peak[t]
    BY SpareOK DEF GatewayInv, GateTypes, PeakOK
  <2>4. Cardinality(Waiting(t)') = Cardinality(Waiting(t)) - (IF t = s THEN n ELSE 0)
    BY <2>1, <2>2
  <2>5. Cardinality(Unbooked(t)') = Cardinality(Unbooked(t))
                  - (IF t = s /\ Streams(call[c], s) THEN 1 ELSE 0)
                  + (IF t = s /\ k.at = "opened" THEN 1 ELSE 0)
    BY <2>1, <2>2
  <2>6. Room(t)' = Spare(t) + peak[t] - Cardinality(Waiting(t)')
    BY DEF Room, Spare
  <2>7. Cardinality(Waiting(t)') <= peak[t]
    BY <2>1, <2>3, <2>4
  <2> QED
    BY <2>1, <2>3, <2>4, <2>5, <2>6, <2>7 DEF Room
<1>3. PeakOK'
  BY <1>2 DEF PeakOK
<1>4. AccountsAgree'
  <2>1. /\ charged'[s] = x /\ ledger'[s] = y
        /\ \A t \in Subjects \ {s} : charged'[t] = charged[t] /\ ledger'[t] = ledger[t]
    BY DEF GatewayInv, GateTypes
  <2>2. \A t \in Subjects : charged[t].n \in Nat /\ ledger[t].n \in Nat
    BY DEF GatewayInv, GateTypes, Sums
  <2>3. x.n \in Nat /\ y.n \in Nat
    BY DEF Sums
  <2>4. charged[s].n = ledger[s].n + Cardinality(Unbooked(s))
    BY DEF GatewayInv, AccountsAgree
  <2>5. x.n = y.n + Cardinality(Unbooked(s)')
    BY <1>2, <2>2, <2>3, <2>4
  <2>6. \A t \in Subjects \ {s} : Cardinality(Unbooked(t)') = Cardinality(Unbooked(t))
    BY <1>2
  <2> QED
    BY <2>1, <2>5, <2>6 DEF GatewayInv, AccountsAgree
<1>5. room \in Rooms /\ more \in Rooms
  BY <1>2, RoomOK DEF Rooms
<1>6. \A t \in Subjects : room[t] + (IF t = s THEN n ELSE 0) <= more[t]
  BY <1>2, <1>5 DEF Rooms
<1>7. Table(usage) /\ win \in Nat /\ Within(usage, room) /\ n \in Nat
      /\ s \in Subjects \cup {Model} /\ Model \in Subjects \cup {Model}
  BY DEF GatewayInv, GateTypes
<1> HIDE DEF room, more
<1>8. PICK u : u = Charge(usage, s, n, cost) /\ Table(u) /\ Within(u, more)
  BY <1>5, <1>6, <1>7, ChargeOK
<1>9. Table(Charge(u, Model, m, cost)) /\ Within(Charge(u, Model, m, cost), more)
  <2>1. \A t \in Subjects : more[t] + (IF t = Model THEN m ELSE 0) <= more[t]
    BY <1>5, GatewayAssumption DEF Rooms
  <2> QED
    BY <1>5, <1>7, <1>8, <2>1, ChargeOK
<1>10. Table(usage') /\ Within(usage', more)
  BY <1>8, <1>9
<1>11. Table(usage)' /\ Within(usage, [t \in Subjects |-> Room(t)])'
  BY <1>10 DEF Table, Within, more
<1> QED
  BY <1>1, <1>3, <1>4, <1>11 DEF GatewayInv

-----------------------------------------------------------------------------
\* A request that was refused for its budget.
LEMMA BeginRefused ==
    ASSUME GatewayInv, NEW c \in Calls, call[c].at = "none", EndCall(c),
           NEW s \in Subjects,
           usage' \in {Current(usage, s), Current(Current(usage, s), Model)},
           UNCHANGED <<limits, win, ledger, charged, peak>>
    PROVE  GatewayInv'
<1> DEFINE room == [t \in Subjects |-> Room(t)]
<1>1. /\ Table(usage) /\ Within(usage, room) /\ room \in Rooms /\ win \in Nat
      /\ s \in Subjects \cup {Model} /\ Model \in Subjects \cup {Model}
  BY RoomOK DEF GatewayInv, GateTypes
<1> HIDE DEF room
<1>2. PICK u : u = Current(usage, s) /\ Table(u) /\ Within(u, room)
  BY <1>1, CurrentOK, CurrentWithin
<1>3. Table(Current(u, Model)) /\ Within(Current(u, Model), room)
  BY <1>1, <1>2, CurrentOK, CurrentWithin
<1>4. Table(usage') /\ Within(usage', room)
  BY <1>2, <1>3
<1>5. Table(usage') /\ Within(usage', [t \in Subjects |-> Room(t)])
  BY <1>4 DEF room
<1>6. call[c].at \in {"none", "route", "tool"}
  OBVIOUS
<1> QED
  BY <1>5, <1>6, EndsUnbooked

\* A request that is let through, to a subject below its cap.
LEMMA BeginAccepted ==
    ASSUME GatewayInv, NEW c \in Calls, call[c].at = "none", NEW s \in Subjects,
           NEW k \in CallRecs, call' = [call EXCEPT ![c] = k], k.at = "route", k.subject = s,
           NEW u, u = Current(usage, s), u[Len(u)].n + 1 <= limits[s],
           usage' \in {u, Current(u, Model)},
           peak' = [peak EXCEPT ![s] = IF Cardinality(Waiting(s)) + 1 > peak[s]
                                       THEN Cardinality(Waiting(s)) + 1 ELSE peak[s]],
           UNCHANGED <<limits, win, ledger, charged>>
    PROVE  GatewayInv'
<1> DEFINE room == [t \in Subjects |-> Room(t)]
           more == [t \in Subjects |-> Room(t)']
<1>1. ASSUME NEW t \in Subjects
      PROVE  /\ Cardinality(Waiting(t)') <= peak'[t] /\ peak'[t] \in Nat
             /\ Cardinality(Unbooked(t)') = Cardinality(Unbooked(t))
             /\ Room(t)' \in Nat /\ Room(t)' >= (IF t = s THEN Spare(s) ELSE Room(t))
  <2>1. /\ Cardinality(Waiting(t)) \in Nat /\ Cardinality(Waiting(t)') \in Nat
        /\ Cardinality(Unbooked(t)) \in Nat /\ Cardinality(Unbooked(t)') \in Nat
        /\ Cardinality(Waiting(t)') = Cardinality(Waiting(t))
              - (IF Waits(call[c], t) THEN 1 ELSE 0) + (IF Waits(k, t) THEN 1 ELSE 0)
        /\ Cardinality(Unbooked(t)') = Cardinality(Unbooked(t))
              - (IF Streams(call[c], t) THEN 1 ELSE 0) + (IF Streams(k, t) THEN 1 ELSE 0)
    BY CallMoves
  <2>2. ~Waits(call[c], t) /\ ~Streams(call[c], t) /\ ~Streams(k, t) /\ (Waits(k, t) <=> t = s)
    BY DEF Waits, Streams
  <2>3. Spare(t) \in Nat /\ peak[t] \in Nat /\ Cardinality(Waiting(t)) <= peak[t]
    BY SpareOK DEF GatewayInv, GateTypes, PeakOK
  <2>4. Cardinality(Waiting(t)') = Cardinality(Waiting(t)) + (IF t = s THEN 1 ELSE 0)
    BY <2>1, <2>2
  <2>5. Cardinality(Unbooked(t)') = Cardinality(Unbooked(t))
    BY <2>1, <2>2
  <2>6. peak'[t] = IF t = s /\ Cardinality(Waiting(t)) + 1 > peak[t]
                   THEN Cardinality(Waiting(t)) + 1 ELSE peak[t]
    BY DEF GatewayInv, GateTypes
  <2>7. Room(t)' = Spare(t) + peak'[t] - Cardinality(Waiting(t)')
    BY DEF Room, Spare
  <2>8. Cardinality(Waiting(t)') <= peak'[t] /\ peak'[t] \in Nat
    BY <2>1, <2>3, <2>4, <2>6
  <2>9. Room(t)' \in Nat /\ Room(t)' >= Spare(t)
    BY <2>1, <2>3, <2>7, <2>8
  <2>10. CASE t = s
    BY <2>5, <2>8, <2>9, <2>10
  <2>11. CASE t # s
    <3>1. peak'[t] = peak[t] /\ Cardinality(Waiting(t)') = Cardinality(Waiting(t))
      BY <2>1, <2>4, <2>6, <2>11
    <3>2. Room(t) = Spare(t) + peak[t] - Cardinality(Waiting(t))
      BY DEF Room, Spare
    <3>3. Room(t)' = Room(t)
      BY <2>7, <3>1, <3>2
    <3> QED
      BY <2>5, <2>8, <2>9, <2>11, <3>3
  <2> QED
    BY <2>10, <2>11
<1>2. GateTypes'
  <2>1. peak' \in [Subjects -> Nat]
    BY <1>1 DEF GatewayInv, GateTypes
  <2> QED
    BY <2>1 DEF GatewayInv, GateTypes
<1>3. PeakOK'
  BY <1>1 DEF PeakOK
<1>4. AccountsAgree'
  BY <1>1 DEF GatewayInv, AccountsAgree
<1>5. /\ Table(usage) /\ Within(usage, room) /\ room \in Rooms /\ win \in Nat
      /\ s \in Subjects \cup {Model} /\ Model \in Subjects \cup {Model} /\ more \in Rooms
  BY <1>1, RoomOK DEF GatewayInv, GateTypes, Rooms
<1>6. Table(u) /\ Within(u, room) /\ Len(u) \in Nat \ {0} /\ u[Len(u)].key = s
  <2> HIDE DEF room
  <2> QED
    BY <1>5, CurrentOK, CurrentWithin
<1>7. Within(u, more)
  <2> SUFFICES ASSUME NEW i \in 1..Len(u), u[i].key \in Subjects
               PROVE  u[i].n <= more[u[i].key]
    BY DEF Within
  <2>1. u[i] \in Rows
    BY <1>6 DEF Table
  <2>2. u[i].n \in Nat
    BY <2>1 DEF Rows
  <2>3. PICK t \in Subjects : t = u[i].key
    OBVIOUS
  <2>4. CASE t = s
    <3>1. i = Len(u)
      <4>1. Len(u) \in 1..Len(u) /\ u[i].key = u[Len(u)].key
        BY <1>6, <2>3, <2>4
      <4> QED
        BY <1>6, <4>1 DEF Table
    <3>2. limits[s] \in Nat /\ Room(s)' \in Nat /\ Room(s)' >= Spare(s)
      BY <1>1 DEF GatewayInv, GateTypes
    <3>3. u[i].n + 1 <= limits[s]
      BY <3>1
    <3>4. u[i].n <= Room(s)'
      BY <2>2, <3>2, <3>3, SpareOK
    <3> QED
      BY <2>3, <2>4, <3>4
  <2>5. CASE t # s
    <3>1. u[i].n <= Room(t)
      BY <1>6, <2>3 DEF Within
    <3>2. Room(t)' \in Nat /\ Room(t)' >= Room(t)
      BY <1>1, <2>5
    <3>3. Room(t) \in Nat
      BY <1>5 DEF Rooms
    <3>4. u[i].n <= Room(t)'
      BY <2>2, <3>1, <3>2, <3>3
    <3> QED
      BY <2>3, <3>4
  <2> QED
    BY <2>4, <2>5
<1> HIDE DEF room, more
<1>8. Table(Current(u, Model)) /\ Within(Current(u, Model), more)
  BY <1>5, <1>6, <1>7, CurrentOK, CurrentWithin
<1>9. Table(usage') /\ Within(usage', more)
  BY <1>6, <1>7, <1>8
<1>10. Table(usage)' /\ Within(usage, [t \in Subjects |-> Room(t)])'
  BY <1>9 DEF Table, Within, more
<1> QED
  BY <1>2, <1>3, <1>4, <1>10 DEF GatewayInv

LEMMA BeginOK ==
    ASSUME GatewayInv, NEW c \in Calls, Begin(c)
    PROVE  GatewayInv'
<1>1. PICK cred \in Credentials, body \in Bodies, m \in BOOLEAN :
          LET s == cred.subject
              u == Current(usage, s)
          IN  /\ usage' = IF ~Exceeded(usage, s) /\ m THEN Current(u, Model) ELSE u
              /\ IF Exceeded(usage, s) \/ (m /\ Exceeded(u, Model))
                 THEN EndCall(c) /\ UNCHANGED peak
                 ELSE /\ call' = [call EXCEPT ![c] =
                            [at |-> "route", subject |-> s, kind |-> Handler(body),
                             model |-> m, paid |-> 0, steps |-> 0]]
                      /\ LET k == Cardinality(Waiting(s)) + 1
                         IN  peak' = [peak EXCEPT ![s] = IF k > @ THEN k ELSE @]
  BY DEF Begin
<1>2. call[c].at = "none" /\ UNCHANGED <<limits, win, ledger, charged>>
  BY DEF Begin, Arrives
<1>3. PICK s \in Subjects : s = cred.subject
  BY GatewayAssumption
<1>4. PICK u : u = Current(usage, s)
  OBVIOUS
<1>5. usage' \in {u, Current(u, Model)}
  BY <1>1, <1>3, <1>4
<1>6. CASE Exceeded(usage, s) \/ (m /\ Exceeded(u, Model))
  <2>1. EndCall(c) /\ UNCHANGED peak
    BY <1>1, <1>3, <1>4, <1>6
  <2>2. UNCHANGED <<limits, win, ledger, charged, peak>>
    BY <1>2, <2>1
  <2>3. usage' \in {Current(usage, s), Current(Current(usage, s), Model)}
    BY <1>4, <1>5
  <2> QED
    BY <1>2, <2>1, <2>2, <2>3, BeginRefused
<1>7. CASE ~(Exceeded(usage, s) \/ (m /\ Exceeded(u, Model)))
  <2>1. PICK k : k = [at |-> "route", subject |-> s, kind |-> Handler(body),
                      model |-> m, paid |-> 0, steps |-> 0]
    OBVIOUS
  <2>2. k \in CallRecs /\ k.at = "route" /\ k.subject = s
    <3>1. Handler(body) \in CallKinds
      BY DEF Handler, CallKinds
    <3> QED
      BY <2>1, <3>1 DEF CallRecs, CallPlaces
  <2>3. call' = [call EXCEPT ![c] = k]
    BY <1>1, <1>3, <1>4, <1>7, <2>1
  <2>4. peak' = [peak EXCEPT ![s] = IF Cardinality(Waiting(s)) + 1 > peak[s]
                                    THEN Cardinality(Waiting(s)) + 1 ELSE peak[s]]
    BY <1>1, <1>3, <1>4, <1>7
  <2>5. u[Len(u)].n + 1 <= limits[s]
    <3>1. Table(u) /\ Len(u) \in Nat \ {0}
      BY <1>3, <1>4, CurrentOK DEF GatewayInv, GateTypes
    <3>2. u[Len(u)] \in Rows
      BY <3>1 DEF Table
    <3>3. u[Len(u)].n \in Nat /\ limits[s] \in Nat
      BY <3>2 DEF Rows, GatewayInv, GateTypes
    <3>4. ~(u[Len(u)].n + 1 > limits[s])
      BY <1>4, <1>7, GatewayAssumption DEF Exceeded, Last
    <3> QED
      BY <3>3, <3>4
  <2> QED
    BY <1>2, <1>4, <1>5, <2>2, <2>3, <2>4, <2>5, BeginAccepted
<1> QED
  BY <1>6, <1>7

\* Both accounts have counted the same cost.
LEMMA SumsOK ==
    ASSUME GatewayInv, NEW s \in Subjects
    PROVE  /\ charged[s] \in Sums /\ ledger[s] \in Sums /\ charged[s].cost = ledger[s].cost
           /\ charged[s].n \in Nat /\ charged[s].cost \in Nat /\ ledger[s].n \in Nat
  BY DEF GatewayInv, GateTypes, AccountsAgree, Sums

LEMMA SumMade ==
    ASSUME NEW n \in Nat, NEW cost \in Nat
    PROVE  \E x \in Sums : x = [n |-> n, cost |-> cost]
  BY DEF Sums

LEMMA AnsweredOK ==
    ASSUME GatewayInv, NEW c \in Calls, Answered(c)
    PROVE  GatewayInv'
<1>1. PICK s \in Subjects : s = call[c].subject
  BY DEF GatewayInv, GateTypes, Answered
<1>2. PICK cost \in Nat : cost = call[c].paid + 1
  BY DEF GatewayInv, GateTypes, CallRecs
<1>3. /\ call[c].at = "route" /\ Book(c, cost) /\ UNCHANGED <<limits, win, peak>>
  BY <1>2 DEF Answered
<1>4. DoneCall \in CallRecs /\ DoneCall.at = "done" /\ call' = [call EXCEPT ![c] = DoneCall]
  BY <1>3, DoneOK DEF Book, EndCall, DoneCall
<1>5. /\ charged[s].cost = ledger[s].cost
      /\ charged[s].n \in Nat /\ charged[s].cost \in Nat /\ ledger[s].n \in Nat
  BY SumsOK
<1>6. PICK x \in Sums : x = [n |-> charged[s].n + 1, cost |-> charged[s].cost + cost]
  <2>1. charged[s].n + 1 \in Nat /\ charged[s].cost + cost \in Nat
    BY <1>5
  <2> QED
    BY <2>1, SumMade
<1>7. PICK y \in Sums : y = [n |-> ledger[s].n + 1, cost |-> ledger[s].cost + cost]
  <2>1. ledger[s].n + 1 \in Nat /\ ledger[s].cost + cost \in Nat
    BY <1>5
  <2> QED
    BY <2>1, SumMade
<1>8. charged' = [charged EXCEPT ![s] = x] /\ ledger' = [ledger EXCEPT ![s] = y]
  BY <1>1, <1>3, <1>6, <1>7 DEF Book
<1>9. PICK shared \in BOOLEAN : shared = call[c].model
  BY DEF GatewayInv, GateTypes, CallRecs
<1>10. usage' = IF shared THEN Charge(Charge(usage, s, 1, cost), Model, 1, cost)
                ELSE Charge(usage, s, 1, cost)
  BY <1>1, <1>3, <1>9 DEF Book
<1>11. 1 = (IF Waits(call[c], s) THEN 1 ELSE 0) /\ ~Streams(call[c], s)
  BY <1>1, <1>3 DEF Waits, Streams
<1>12. x.cost = y.cost
  BY <1>5, <1>6, <1>7
<1>13. x.n - y.n = charged[s].n - ledger[s].n
               - (IF Streams(call[c], s) THEN 1 ELSE 0) + (IF DoneCall.at = "opened" THEN 1 ELSE 0)
  BY <1>4, <1>5, <1>6, <1>7, <1>11
<1>14. call[c].at \notin {"none", "done"} /\ call[c].subject = s
  BY <1>1, <1>3
<1>15. DoneCall.at \in {"done", "opened"} /\ (DoneCall.at = "opened" => DoneCall.subject = s)
  BY <1>4
<1>16. 1 \in {0, 1} /\ 1 \in Nat /\ 1 = (IF Waits(call[c], s) THEN 1 ELSE 0)
  BY <1>11
<1> QED
  BY <1>3, <1>4, <1>8, <1>10, <1>12, <1>13, <1>14, <1>15, <1>16, BookStep

LEMMA OpenedOK ==
    ASSUME GatewayInv, NEW c \in Calls, Opened(c)
    PROVE  GatewayInv'
<1>1. PICK s \in Subjects : s = call[c].subject
  BY DEF GatewayInv, GateTypes, Opened
<1>2. /\ call[c].at = "route" /\ Awaits(c, "opened", 1, call[c].steps)
      /\ UNCHANGED <<limits, win, ledger, peak>>
  BY DEF Opened
<1>3. PICK k \in CallRecs : /\ call' = [call EXCEPT ![c] = k]
                            /\ k.at = "opened" /\ k.subject = call[c].subject
  <2>1. "opened" \in CallPlaces /\ 1 \in Nat /\ call[c].steps \in Nat
    BY DEF GatewayInv, GateTypes, CallRecs, CallPlaces
  <2> QED
    BY <1>2, <2>1, AwaitsOK
<1>4. /\ charged[s].cost = ledger[s].cost /\ charged[s] \in Sums /\ ledger[s] \in Sums
      /\ charged[s].n \in Nat /\ charged[s].cost \in Nat /\ ledger[s].n \in Nat
  BY SumsOK
<1>5. PICK x \in Sums : x = [n |-> charged[s].n + 1, cost |-> charged[s].cost]
  <2>1. charged[s].n + 1 \in Nat /\ charged[s].cost \in Nat
    BY <1>4
  <2> QED
    BY <2>1, SumMade
<1>6. PICK y \in Sums : y = ledger[s]
  BY <1>4
<1>7. charged' = [charged EXCEPT ![s] = x]
  <2>1. charged' = [charged EXCEPT ![s].n = charged[s].n + 1]
    BY <1>1 DEF Opened
  <2>2. x = [charged[s] EXCEPT !.n = charged[s].n + 1]
    BY <1>4, <1>5 DEF Sums
  <2> QED
    BY <2>1, <2>2
<1>8. ledger' = [ledger EXCEPT ![s] = y]
  BY <1>2, <1>6 DEF GatewayInv, GateTypes
<1>9. usage' = IF FALSE THEN Charge(Charge(usage, s, 1, 0), Model, 1, 0)
               ELSE Charge(usage, s, 1, 0)
  BY <1>1 DEF Opened
<1>10. 1 = (IF Waits(call[c], s) THEN 1 ELSE 0) /\ ~Streams(call[c], s)
  BY <1>1, <1>2 DEF Waits, Streams
<1>11. x.cost = y.cost
  BY <1>4, <1>5, <1>6
<1>12. x.n - y.n = charged[s].n - ledger[s].n
               - (IF Streams(call[c], s) THEN 1 ELSE 0) + (IF k.at = "opened" THEN 1 ELSE 0)
  BY <1>3, <1>4, <1>5, <1>6, <1>10
<1>13. call[c].at \notin {"none", "done"} /\ call[c].subject = s
  BY <1>1, <1>2
<1>14. k.at \in {"done", "opened"} /\ (k.at = "opened" => k.subject = s)
  BY <1>1, <1>3
<1>15. 1 \in {0, 1} /\ 1 \in Nat /\ 0 \in Nat /\ FALSE \in BOOLEAN
       /\ 1 = (IF Waits(call[c], s) THEN 1 ELSE 0)
  BY <1>10
<1>16. UNCHANGED <<limits, win, peak>> /\ call' = [call EXCEPT ![c] = k]
  BY <1>2, <1>3
<1> QED
  BY <1>7, <1>8, <1>9, <1>11, <1>12, <1>13, <1>14, <1>15, <1>16, BookStep

LEMMA StreamEndsOK ==
    ASSUME GatewayInv, NEW c \in Calls, StreamEnds(c)
    PROVE  GatewayInv'
<1>1. PICK s \in Subjects : s = call[c].subject
  BY DEF GatewayInv, GateTypes, StreamEnds
<1>2. PICK cost \in Nat : cost = call[c].paid
  BY DEF GatewayInv, GateTypes, CallRecs
<1>3. call[c].at = "sending" /\ EndCall(c) /\ UNCHANGED <<limits, win, peak>>
  BY DEF StreamEnds
<1>4. DoneCall \in CallRecs /\ DoneCall.at = "done" /\ call' = [call EXCEPT ![c] = DoneCall]
  BY <1>3, DoneOK DEF EndCall, DoneCall
<1>5. /\ charged[s].cost = ledger[s].cost /\ charged[s] \in Sums
      /\ charged[s].n \in Nat /\ charged[s].cost \in Nat /\ ledger[s].n \in Nat
  BY SumsOK
<1>6. PICK x \in Sums : x = [n |-> charged[s].n, cost |-> charged[s].cost + cost]
  <2>1. charged[s].n \in Nat /\ charged[s].cost + cost \in Nat
    BY <1>5
  <2> QED
    BY <2>1, SumMade
<1>7. PICK y \in Sums : y = [n |-> ledger[s].n + 1, cost |-> ledger[s].cost + cost]
  <2>1. ledger[s].n + 1 \in Nat /\ ledger[s].cost + cost \in Nat
    BY <1>5
  <2> QED
    BY <2>1, SumMade
<1>8. charged' = [charged EXCEPT ![s] = x]
  <2>1. charged' = [charged EXCEPT ![s].cost = charged[s].cost + cost]
    BY <1>1, <1>2 DEF StreamEnds
  <2>2. x = [charged[s] EXCEPT !.cost = charged[s].cost + cost]
    BY <1>5, <1>6 DEF Sums
  <2> QED
    BY <2>1, <2>2
<1>9. ledger' = [ledger EXCEPT ![s] = y]
  BY <1>1, <1>2, <1>7 DEF StreamEnds
<1>10. PICK shared \in BOOLEAN : shared = call[c].model
  BY DEF GatewayInv, GateTypes, CallRecs
<1>11. usage' = IF shared THEN Charge(Charge(usage, s, 0, cost), Model, 1, cost)
                ELSE Charge(usage, s, 0, cost)
  BY <1>1, <1>2, <1>10 DEF StreamEnds
<1>12. 0 = (IF Waits(call[c], s) THEN 1 ELSE 0) /\ Streams(call[c], s)
  BY <1>1, <1>3 DEF Waits, Streams
<1>13. x.cost = y.cost
  BY <1>5, <1>6, <1>7
<1>14. x.n - y.n = charged[s].n - ledger[s].n
               - (IF Streams(call[c], s) THEN 1 ELSE 0) + (IF DoneCall.at = "opened" THEN 1 ELSE 0)
  BY <1>4, <1>5, <1>6, <1>7, <1>12
<1>15. call[c].at \notin {"none", "done"} /\ call[c].subject = s
  BY <1>1, <1>3
<1>16. DoneCall.at \in {"done", "opened"} /\ (DoneCall.at = "opened" => DoneCall.subject = s)
  BY <1>4
<1>17. 0 \in {0, 1} /\ 1 \in Nat /\ 0 = (IF Waits(call[c], s) THEN 1 ELSE 0)
  BY <1>12
<1> QED
  BY <1>3, <1>4, <1>8, <1>9, <1>11, <1>13, <1>14, <1>15, <1>16, <1>17, BookStep

-----------------------------------------------------------------------------
LEMMA SetLimitsOK ==
    ASSUME GatewayInv, NEW s \in Subjects, NEW cap \in Nat, SetLimits(s, cap)
    PROVE  GatewayInv'
<1>1. /\ UNCHANGED <<call, peak, ledger, charged, win>> /\ usage' = Without(usage, s)
      /\ limits' = [limits EXCEPT ![s] = cap]
  BY DEF SetLimits
<1>2. PICK v : v = Without(usage, s)
  OBVIOUS
<1>3. Table(v) /\ Subtable(v, usage, s) /\ \A i \in 1..Len(v) : v[i].key # s
  BY <1>2, WithoutOK DEF GatewayInv
<1>4. \A t \in Subjects \ {s} : Room(t)' = Room(t)
  BY <1>1 DEF Room, Spare, Waiting, GatewayInv, GateTypes
<1>5. Within(v, [t \in Subjects |-> Room(t)'])
  <2> SUFFICES ASSUME NEW i \in 1..Len(v), NEW t \in Subjects, v[i].key = t
               PROVE  v[i].n <= Room(t)'
    BY DEF Within
  <2>1. t # s
    BY <1>3
  <2>2. PICK j \in 1..Len(usage) : v[i] = usage[j]
    BY <1>3, <2>1 DEF Subtable
  <2>3. usage[j].n <= Room(t)
    BY <2>2 DEF GatewayInv, Within
  <2> QED
    BY <1>4, <2>1, <2>2, <2>3
<1>6. win' \in Nat /\ limits' \in [Subjects -> Nat]
  BY <1>1 DEF GatewayInv, GateTypes
<1>7. Table(usage') /\ Within(usage', [t \in Subjects |-> Room(t)'])
  BY <1>1, <1>2, <1>3, <1>5
<1>8. UNCHANGED <<call, peak, ledger, charged>>
  BY <1>1
<1> QED
  BY <1>6, <1>7, <1>8, TableStep

LEMMA WindowAndUsageOK ==
    ASSUME GatewayInv, (\E s \in Subjects : ReadUsage(s)) \/ NextWindow
    PROVE  GatewayInv'
<1>1. UNCHANGED <<call, peak, ledger, charged>> /\ limits' = limits
  BY DEF ReadUsage, NextWindow
<1>2. \A t \in Subjects : Room(t)' = Room(t)
  BY <1>1 DEF Room, Spare, Waiting
<1> DEFINE room == [t \in Subjects |-> Room(t)]
<1>3. Table(usage) /\ Within(usage, room) /\ room \in Rooms /\ win \in Nat
  BY RoomOK DEF GatewayInv, GateTypes
<1>4. room = [t \in Subjects |-> Room(t)']
  BY <1>2
<1> HIDE DEF room
<1>5. Table(usage') /\ Within(usage', room)
  <2>1. CASE \E s \in Subjects : ReadUsage(s)
    <3>1. PICK s \in Subjects : usage' = Current(usage, s)
      BY <2>1 DEF ReadUsage
    <3> QED
      BY <1>3, <3>1, CurrentOK, CurrentWithin
  <2>2. CASE NextWindow
    BY <1>3, <2>2 DEF NextWindow
  <2> QED
    BY <2>1, <2>2
<1>6. win' \in Nat
  BY <1>3 DEF ReadUsage, NextWindow
<1>7. limits' \in [Subjects -> Nat]
  BY <1>1 DEF GatewayInv, GateTypes
<1>8. Table(usage') /\ Within(usage', [t \in Subjects |-> Room(t)'])
  BY <1>4, <1>5
<1> QED
  BY <1>1, <1>6, <1>7, <1>8, TableStep

LEMMA GatewayStarts == GatewayInit => GatewayInv
<1> SUFFICES ASSUME GatewayInit PROVE GatewayInv
  OBVIOUS
<1>1. NoCall \in CallRecs /\ NoCall.at = "none"
  BY DEF NoCall, CallRecs, CallPlaces, CallKinds
<1>2. Nothing \in Sums /\ Nothing.n = 0
  BY DEF Nothing, Sums
<1>3. GateTypes
  BY <1>1, <1>2, GatewayAssumption DEF GatewayInit, GateTypes
<1>4. \A s \in Subjects : Waiting(s) = {} /\ Unbooked(s) = {}
  BY <1>1 DEF GatewayInit, Waiting, Unbooked
<1>5. \A s \in Subjects : Cardinality(Waiting(s)) = 0 /\ Cardinality(Unbooked(s)) = 0
  BY <1>4, FS_EmptySet
<1>6. Table(usage) /\ Within(usage, [s \in Subjects |-> Room(s)])
  BY DEF GatewayInit, Table, Within
<1>7. PeakOK
  <2>1. \A s \in Subjects : peak[s] = 0
    BY DEF GatewayInit
  <2> QED
    BY <1>5, <2>1 DEF PeakOK
<1>8. AccountsAgree
  <2>1. \A s \in Subjects : charged[s] = Nothing /\ ledger[s] = Nothing
    BY DEF GatewayInit
  <2> QED
    BY <1>2, <1>5, <2>1 DEF AccountsAgree
<1> QED
  BY <1>3, <1>6, <1>7, <1>8 DEF GatewayInv

LEMMA GatewaySteps == GatewayInv /\ [GatewayNext]_gateVars => GatewayInv'
<1> SUFFICES ASSUME GatewayInv, [GatewayNext]_gateVars PROVE GatewayInv'
  OBVIOUS
<1>1. CASE UNCHANGED gateVars
  <2>1. \A s \in Subjects : Waiting(s)' = Waiting(s) /\ Unbooked(s)' = Unbooked(s)
                            /\ Room(s)' = Room(s)
    BY <1>1 DEF gateVars, Waiting, Unbooked, Room, Spare
  <2>2. [s \in Subjects |-> Room(s)'] = [s \in Subjects |-> Room(s)]
    BY <2>1
  <2>3. UNCHANGED <<call, peak, ledger, charged>> /\ win' \in Nat
        /\ limits' \in [Subjects -> Nat]
    BY <1>1 DEF gateVars, GatewayInv, GateTypes
  <2>4. Table(usage') /\ Within(usage', [s \in Subjects |-> Room(s)'])
    BY <1>1, <2>2 DEF gateVars, GatewayInv
  <2> QED
    BY <2>3, <2>4, TableStep
<1>2. CASE \E c \in Calls : Refuse(c) \/ Withheld(c) \/ NeedsApproval(c) \/ RouteRaises(c)
  BY <1>2, PlainEnds
<1>3. CASE \E c \in Calls : \/ SchemaRetry(c) \/ AsksForTool(c) \/ ToolReturns(c)
                            \/ StartSending(c) \/ NeverSent(c)
  BY <1>3, GoesOn
<1>4. CASE \E c \in Calls : Begin(c)
  BY <1>4, BeginOK
<1>5. CASE \E c \in Calls : Answered(c)
  BY <1>5, AnsweredOK
<1>6. CASE \E c \in Calls : Opened(c)
  BY <1>6, OpenedOK
<1>7. CASE \E c \in Calls : StreamEnds(c)
  BY <1>7, StreamEndsOK
<1>8. CASE \E s \in Subjects : SetLimits(s, NewCap) \/ SetLimits(s, DefaultCap)
  <2>1. NewCap \in Nat /\ DefaultCap \in Nat
    BY GatewayAssumption
  <2> QED
    BY <1>8, <2>1, SetLimitsOK
<1>9. CASE (\E s \in Subjects : ReadUsage(s)) \/ NextWindow
  BY <1>9, WindowAndUsageOK
<1> QED
  BY <1>1, <1>2, <1>3, <1>4, <1>5, <1>6, <1>7, <1>8, <1>9 DEF GatewayNext

-----------------------------------------------------------------------------
\* What was counted in the current window is in the entry of the subject, or forgotten.
CountsInv ==
    /\ counted \in [Subjects -> Nat] /\ forgotten \in [Subjects -> Nat]
    /\ \A i \in 1..Len(usage) : usage[i].win <= win
    /\ \A s \in Subjects : counted[s] = forgotten[s] + Counted(usage, s)

\* v is u after its entry of key has counted n requests, and become the last one.
Moves(u, v, key, n) ==
    /\ Table(v) /\ Subtable(v, u, key) /\ Len(v) \in Nat \ {0}
    /\ v[Len(v)].key = key /\ v[Len(v)].win = win
    /\ \/ \E j \in 1..Len(u) : u[j].key = key /\ u[j].win = win /\ v[Len(v)].n = u[j].n + n
       \/ v[Len(v)].n = n /\ \A j \in 1..Len(u) : ~(u[j].key = key /\ u[j].win = win)

LEMMA CurrentMoves ==
    ASSUME NEW u, Table(u), win \in Nat, NEW key \in Subjects \cup {Model}
    PROVE  Moves(u, Current(u, key), key, 0)
<1>1. PICK v : v = Current(u, key)
  OBVIOUS
<1>2. /\ Table(v) /\ Subtable(v, u, key) /\ Len(v) \in Nat \ {0}
      /\ v[Len(v)].key = key /\ v[Len(v)].win = win
      /\ \/ \E j \in 1..Len(u) : v[Len(v)] = u[j]
         \/ /\ v[Len(v)].n = 0
            /\ \A j \in 1..Len(u) : ~(u[j].key = key /\ u[j].win = win)
  BY <1>1, CurrentOK
<1>3. ASSUME NEW j \in 1..Len(u), v[Len(v)] = u[j]
      PROVE  u[j].key = key /\ u[j].win = win /\ v[Len(v)].n = u[j].n + 0
  <2>1. u[j] \in Rows
    BY DEF Table
  <2>2. u[j].n \in Nat
    BY <2>1 DEF Rows
  <2> QED
    BY <1>2, <1>3, <2>2
<1> QED
  BY <1>1, <1>2, <1>3 DEF Moves

LEMMA ChargeMoves ==
    ASSUME NEW u, Table(u), win \in Nat, NEW key \in Subjects \cup {Model},
           NEW n \in Nat, NEW cost \in Nat
    PROVE  Moves(u, Charge(u, key, n, cost), key, n)
<1>1. PICK v : v = Current(u, key)
  OBVIOUS
<1>2. PICK z : z = Len(v)
  OBVIOUS
<1>3. /\ Table(v) /\ Subtable(v, u, key) /\ z \in Nat \ {0}
      /\ v[z].key = key /\ v[z].win = win
      /\ \/ \E j \in 1..Len(u) : v[z] = u[j]
         \/ v[z].n = 0 /\ \A j \in 1..Len(u) : ~(u[j].key = key /\ u[j].win = win)
  BY <1>1, <1>2, CurrentOK
<1>4. v \in Seq(Rows) /\ z \in 1..z /\ v[z] \in Rows
  BY <1>2, <1>3 DEF Table
<1>5. PICK r \in Rows :
        r = [key |-> key, win |-> win, n |-> v[z].n + n, cost |-> v[z].cost + cost]
  <2>1. v[z].n \in Nat /\ v[z].cost \in Nat
    <3>1. v[z] \in Rows
      BY <1>4
    <3> QED
      BY <3>1 DEF Rows
  <2>2. v[z].n + n \in Nat /\ v[z].cost + cost \in Nat
    BY <2>1
  <2> QED
    BY <2>2 DEF Rows
<1>6. r.key = key /\ r.win = win /\ r.n = v[z].n + n
  BY <1>5
<1>7. PICK w : w = [v EXCEPT ![z] = r]
  OBVIOUS
<1>8. w \in Seq(Rows) /\ Len(w) = z /\ \A i \in 1..z : w[i] = IF i = z THEN r ELSE v[i]
  BY <1>2, <1>4, <1>7
<1>9. Charge(u, key, n, cost) = w
  BY <1>1, <1>2, <1>5, <1>7 DEF Charge
<1>10. Table(w)
  BY <1>2, <1>3, <1>6, <1>8 DEF Table
<1>11. Subtable(w, u, key)
  BY <1>2, <1>3, <1>6, <1>8 DEF Subtable
<1>12. w[z] = r
  BY <1>4, <1>8
<1>13. ASSUME NEW j \in 1..Len(u), v[z] = u[j]
       PROVE  u[j].key = key /\ u[j].win = win /\ r.n = u[j].n + n
  BY <1>3, <1>6, <1>13
<1>14. v[z].n = 0 => r.n = n
  BY <1>6
<1> QED
  BY <1>3, <1>6, <1>8, <1>9, <1>10, <1>11, <1>12, <1>13, <1>14 DEF Moves

LEMMA CountedOK ==
    ASSUME NEW u, Table(u), NEW s
    PROVE  /\ Counted(u, s) \in Nat
           /\ \A i \in 1..Len(u) : u[i].key = s /\ u[i].win = win => Counted(u, s) = u[i].n
           /\ (\A i \in 1..Len(u) : ~(u[i].key = s /\ u[i].win = win)) => Counted(u, s) = 0
<1>1. u \in Seq(Rows) /\ ToSet(u) = {u[i] : i \in 1..Len(u)}
  BY DEF Table, ToSet
<1>2. CASE Found(u, s) = {}
  <2>1. \A i \in 1..Len(u) : ~(u[i].key = s /\ u[i].win = win)
    BY <1>1, <1>2 DEF Found
  <2> QED
    BY <1>2, <2>1 DEF Counted
<1>3. CASE Found(u, s) # {}
  <2>1. PICK e \in Found(u, s) : e = CHOOSE f \in Found(u, s) : TRUE
    BY <1>3
  <2>2. Counted(u, s) = e.n
    BY <1>3, <2>1 DEF Counted
  <2>3. PICK k \in 1..Len(u) : e = u[k] /\ u[k].key = s /\ u[k].win = win
    BY <1>1, <2>1 DEF Found
  <2>4. u[k] \in Rows
    BY <1>1
  <2>5. e.n \in Nat
    BY <2>3, <2>4 DEF Rows
  <2>6. \A i \in 1..Len(u) : u[i].key = s => i = k
    BY <2>3 DEF Table
  <2> QED
    BY <2>2, <2>3, <2>5, <2>6
<1> QED
  BY <1>2, <1>3

LEMMA LostOK ==
    ASSUME NEW u, NEW v, Table(u), Table(v), NEW s
    PROVE  /\ Lost(u, v, s) \in Nat
           /\ (\E i \in 1..Len(v) : v[i].key = s) => Lost(u, v, s) = 0
           /\ (\A i \in 1..Len(v) : v[i].key # s) => Lost(u, v, s) = Counted(u, s)
<1>1. ToSet(v) = {v[i] : i \in 1..Len(v)}
  BY DEF Table, ToSet
<1>2. Counted(u, s) \in Nat
  BY CountedOK
<1> QED
  BY <1>1, <1>2 DEF Lost

\* A move counts its requests, and forgets those of the entries that go.
LEMMA MovesCounts ==
    ASSUME NEW u, Table(u), win \in Nat, NEW v, NEW key, NEW n \in Nat, Moves(u, v, key, n),
           \A i \in 1..Len(u) : u[i].win <= win
    PROVE  /\ \A t : Counted(v, t) + Lost(u, v, t) = Counted(u, t) + (IF t = key THEN n ELSE 0)
           /\ \A i \in 1..Len(v) : v[i].win <= win
<1>1. PICK z : z = Len(v)
  OBVIOUS
<1>2. /\ Table(v) /\ Subtable(v, u, key) /\ z \in 1..Len(v) /\ v[z].key = key /\ v[z].win = win
      /\ \/ \E j \in 1..Len(u) : u[j].key = key /\ u[j].win = win /\ v[z].n = u[j].n + n
         \/ v[z].n = n /\ \A j \in 1..Len(u) : ~(u[j].key = key /\ u[j].win = win)
  BY <1>1 DEF Moves
<1>3. ASSUME NEW t
      PROVE  Counted(v, t) + Lost(u, v, t) = Counted(u, t) + (IF t = key THEN n ELSE 0)
  <2>0. /\ Counted(u, t) \in Nat
        /\ \A i \in 1..Len(u) : u[i].key = t /\ u[i].win = win => Counted(u, t) = u[i].n
        /\ (\A i \in 1..Len(u) : ~(u[i].key = t /\ u[i].win = win)) => Counted(u, t) = 0
    BY CountedOK
  <2>1. /\ Counted(v, t) \in Nat /\ Lost(u, v, t) \in Nat
        /\ \A i \in 1..Len(v) : v[i].key = t /\ v[i].win = win => Counted(v, t) = v[i].n
        /\ (\A i \in 1..Len(v) : ~(v[i].key = t /\ v[i].win = win)) => Counted(v, t) = 0
    BY <1>2, CountedOK, LostOK
  <2>2. /\ (\E i \in 1..Len(v) : v[i].key = t) => Lost(u, v, t) = 0
        /\ (\A i \in 1..Len(v) : v[i].key # t) => Lost(u, v, t) = Counted(u, t)
    BY <1>2, LostOK
  <2>3. CASE t = key
    <3>1. Counted(v, t) = v[z].n /\ Lost(u, v, t) = 0
      BY <1>2, <2>1, <2>2, <2>3
    <3>2. v[z].n = Counted(u, t) + n
      BY <1>2, <2>0, <2>1, <2>3
    <3> QED
      BY <2>0, <2>1, <2>3, <3>1, <3>2
  <2>4. CASE t # key /\ \E i \in 1..Len(v) : v[i].key = t
    <3>1. PICK i \in 1..Len(v) : v[i].key = t
      BY <2>4
    <3>2. PICK j \in 1..Len(u) : v[i] = u[j]
      BY <1>2, <2>4, <3>1 DEF Subtable
    <3>3. Lost(u, v, t) = 0
      BY <2>2, <3>1
    <3>4. CASE v[i].win = win
      <4>1. Counted(v, t) = v[i].n /\ Counted(u, t) = u[j].n
        BY <2>0, <2>1, <3>1, <3>2, <3>4
      <4> QED
        BY <2>0, <2>1, <2>4, <3>2, <3>3, <4>1
    <3>5. CASE v[i].win # win
      <4>1. /\ \A k \in 1..Len(v) : v[k].key = t => k = i
            /\ \A k \in 1..Len(u) : u[k].key = t => k = j
        BY <1>2, <3>1, <3>2 DEF Table
      <4>2. Counted(v, t) = 0 /\ Counted(u, t) = 0
        BY <2>0, <2>1, <3>2, <3>5, <4>1
      <4> QED
        BY <2>4, <3>3, <4>2
    <3> QED
      BY <3>4, <3>5
  <2>5. CASE t # key /\ \A i \in 1..Len(v) : v[i].key # t
    BY <2>0, <2>1, <2>2, <2>5
  <2> QED
    BY <2>3, <2>4, <2>5
<1>4. ASSUME NEW i \in 1..Len(v) PROVE v[i].win <= win
  <2>1. CASE v[i].key = key
    <3>1. i = z
      BY <1>2, <2>1 DEF Table
    <3> QED
      BY <1>2, <3>1
  <2>2. CASE v[i].key # key
    BY <1>2, <2>2 DEF Subtable
  <2> QED
    BY <2>1, <2>2
<1> QED
  BY <1>3, <1>4

\* A step by way of u: n requests of subject s are counted, then those of the model.
LEMMA CountsMove ==
    ASSUME GatewayInv, CountsInv, win' = win, NEW s \in Subjects, NEW n \in Nat,
           NEW u, Moves(usage, u, s, n), Drops(u, usage'),
           usage' = u \/ \E m \in Nat : Moves(u, usage', Model, m),
           counted' = [counted EXCEPT ![s] = counted[s] + n]
    PROVE  CountsInv'
<1>1. /\ Table(usage) /\ win \in Nat /\ counted \in [Subjects -> Nat]
      /\ forgotten \in [Subjects -> Nat] /\ \A i \in 1..Len(usage) : usage[i].win <= win
  BY DEF GatewayInv, GateTypes, CountsInv
<1>2. /\ \A t : Counted(u, t) + Lost(usage, u, t) = Counted(usage, t) + (IF t = s THEN n ELSE 0)
      /\ \A i \in 1..Len(u) : u[i].win <= win
  BY <1>1, MovesCounts
<1>3. Table(u)
  BY DEF Moves
<1>4. PICK v : v = usage'
  OBVIOUS
<1>5. /\ Table(v) /\ \A i \in 1..Len(v) : v[i].win <= win
      /\ \A t \in Subjects : Counted(v, t) + Lost(u, v, t) = Counted(u, t)
  <2>1. CASE v = u
    <3>1. ASSUME NEW t \in Subjects PROVE Counted(v, t) + Lost(u, v, t) = Counted(u, t)
      <4>1. Lost(u, u, t) = 0 /\ Counted(u, t) \in Nat
        <5>1. CASE \E i \in 1..Len(u) : u[i].key = t
          BY <1>3, <5>1, LostOK, CountedOK
        <5>2. CASE \A i \in 1..Len(u) : u[i].key # t
          BY <1>3, <5>2, LostOK, CountedOK
        <5> QED
          BY <5>1, <5>2
      <4> QED
        BY <2>1, <4>1
    <3> QED
      BY <1>2, <1>3, <2>1, <3>1
  <2>2. CASE \E m \in Nat : Moves(u, v, Model, m)
    <3>1. PICK m \in Nat : Moves(u, v, Model, m)
      BY <2>2
    <3>2. /\ \A t : Counted(v, t) + Lost(u, v, t) = Counted(u, t) + (IF t = Model THEN m ELSE 0)
          /\ \A i \in 1..Len(v) : v[i].win <= win
      BY <1>1, <1>2, <1>3, <3>1, MovesCounts
    <3>3. Table(v)
      BY <3>1 DEF Moves
    <3>4. ASSUME NEW t \in Subjects PROVE Counted(v, t) + Lost(u, v, t) = Counted(u, t)
      <4>1. t # Model /\ Counted(u, t) \in Nat
        BY <1>3, GatewayAssumption, CountedOK
      <4> QED
        BY <3>2, <4>1
    <3> QED
      BY <3>2, <3>3, <3>4
  <2> QED
    BY <1>4, <2>1, <2>2
<1>6. ASSUME NEW t \in Subjects
      PROVE  /\ counted'[t] \in Nat /\ forgotten'[t] \in Nat
             /\ counted'[t] = forgotten'[t] + Counted(v, t)
  <2>1. counted'[t] = counted[t] + (IF t = s THEN n ELSE 0)
    BY <1>1
  <2>2. forgotten'[t] = forgotten[t] + Lost(usage, u, t) + Lost(u, v, t)
    BY <1>4 DEF Drops
  <2>3. /\ Lost(usage, u, t) \in Nat /\ Lost(u, v, t) \in Nat /\ Counted(u, t) \in Nat
        /\ Counted(v, t) \in Nat /\ Counted(usage, t) \in Nat
    BY <1>1, <1>3, <1>5, LostOK, CountedOK
  <2>4. counted[t] = forgotten[t] + Counted(usage, t) /\ counted[t] \in Nat /\ forgotten[t] \in Nat
    BY <1>1 DEF CountsInv
  <2>5. Counted(u, t) + Lost(usage, u, t) = Counted(usage, t) + (IF t = s THEN n ELSE 0)
    BY <1>2
  <2>6. Counted(v, t) + Lost(u, v, t) = Counted(u, t)
    BY <1>5
  <2> QED
    BY <2>1, <2>2, <2>3, <2>4, <2>5, <2>6
<1>7. counted' \in [Subjects -> Nat] /\ forgotten' \in [Subjects -> Nat]
  <2>1. /\ counted' = [t \in Subjects |-> counted'[t]]
        /\ forgotten' = [t \in Subjects |-> forgotten'[t]]
    BY <1>1 DEF Drops
  <2> QED
    BY <1>6, <2>1
<1>8. \A t : Counted(usage, t)' = Counted(v, t)
  BY <1>4 DEF Counted, Found
<1>9. \A i \in 1..Len(usage') : usage'[i].win <= win'
  BY <1>4, <1>5
<1>10. \A t \in Subjects : counted'[t] = forgotten'[t] + Counted(usage, t)'
  BY <1>6, <1>8
<1> QED
  BY <1>7, <1>9, <1>10 DEF CountsInv

\* A step that counts nothing and leaves the table alone.
LEMMA CountsStay ==
    ASSUME CountsInv, UNCHANGED <<usage, win, past>>
    PROVE  CountsInv'
<1>1. usage' = usage /\ win' = win /\ counted' = counted /\ forgotten' = forgotten
  BY DEF past
<1>2. \A s : Counted(usage, s)' = Counted(usage, s)
  BY <1>1 DEF Counted, Found
<1> QED
  BY <1>1, <1>2 DEF CountsInv

\* The table is only read, for a subject and perhaps for the model.
LEMMA CountsRead ==
    ASSUME GatewayInv, CountsInv, win' = win, NEW s \in Subjects,
           NEW u, u = Current(usage, s), usage' \in {u, Current(u, Model)}, Drops(u, usage'),
           counted' = counted
    PROVE  CountsInv'
<1>1. Table(usage) /\ win \in Nat /\ counted \in [Subjects -> Nat]
  BY DEF GatewayInv, GateTypes, CountsInv
<1>2. Moves(usage, u, s, 0)
  BY <1>1, CurrentMoves
<1>3. Table(u)
  BY <1>2 DEF Moves
<1>4. Moves(u, Current(u, Model), Model, 0)
  BY <1>1, <1>3, CurrentMoves
<1>5. counted' = [counted EXCEPT ![s] = counted[s] + 0]
  BY <1>1
<1> QED
  BY <1>2, <1>4, <1>5, CountsMove

\* n requests of a subject are counted, and what they cost is charged to the model.
LEMMA CountsCharged ==
    ASSUME GatewayInv, CountsInv, win' = win, NEW s \in Subjects, NEW n \in Nat, NEW cost \in Nat,
           NEW u, u = Charge(usage, s, n, cost), usage' \in {u, Charge(u, Model, 1, cost)},
           Drops(u, usage'), counted' = [counted EXCEPT ![s] = counted[s] + n]
    PROVE  CountsInv'
<1>1. Table(usage) /\ win \in Nat
  BY DEF GatewayInv, GateTypes
<1>2. Moves(usage, u, s, n)
  BY <1>1, ChargeMoves
<1>3. Table(u)
  BY <1>2 DEF Moves
<1>4. Moves(u, Charge(u, Model, 1, cost), Model, 1)
  BY <1>1, <1>3, ChargeMoves
<1> QED
  BY <1>2, <1>4, CountsMove

LEMMA CountsBegin ==
    ASSUME GatewayInv, CountsInv, NEW c \in Calls, Begin(c)
    PROVE  CountsInv'
<1>1. PICK cred \in Credentials, m \in BOOLEAN :
        LET u == Current(usage, cred.subject)
        IN  /\ usage' = IF ~Exceeded(usage, cred.subject) /\ m THEN Current(u, Model) ELSE u
            /\ Drops(u, usage')
  BY DEF Begin
<1>2. PICK s \in Subjects : s = cred.subject
  BY GatewayAssumption
<1>3. PICK u : u = Current(usage, s)
  OBVIOUS
<1>4. usage' \in {u, Current(u, Model)} /\ Drops(u, usage')
  BY <1>1, <1>2, <1>3
<1>5. win' = win /\ counted' = counted
  BY DEF Begin
<1> QED
  BY <1>3, <1>4, <1>5, CountsRead

LEMMA CountsAnswered ==
    ASSUME GatewayInv, CountsInv, NEW c \in Calls, Answered(c)
    PROVE  CountsInv'
<1>1. PICK s \in Subjects : s = call[c].subject
  BY DEF GatewayInv, GateTypes, Answered
<1>2. PICK cost \in Nat : cost = call[c].paid + 1
  BY DEF GatewayInv, GateTypes, CallRecs
<1>3. PICK u : u = Charge(usage, s, 1, cost)
  OBVIOUS
<1>4. Book(c, cost) /\ win' = win
  BY <1>2 DEF Answered
<1>5. usage' \in {u, Charge(u, Model, 1, cost)} /\ Drops(u, usage')
  BY <1>1, <1>3, <1>4 DEF Book
<1>6. counted' = [counted EXCEPT ![s] = counted[s] + 1]
  BY <1>1, <1>4 DEF Book
<1>7. 1 \in Nat
  OBVIOUS
<1> QED
  BY <1>3, <1>4, <1>5, <1>6, <1>7, CountsCharged

LEMMA CountsOpened ==
    ASSUME GatewayInv, CountsInv, NEW c \in Calls, Opened(c)
    PROVE  CountsInv'
<1>1. PICK s \in Subjects : s = call[c].subject
  BY DEF GatewayInv, GateTypes, Opened
<1>2. PICK u : u = Charge(usage, s, 1, 0)
  OBVIOUS
<1>3. /\ usage' = u /\ Drops(u, usage') /\ win' = win
      /\ counted' = [counted EXCEPT ![s] = counted[s] + 1]
  BY <1>1, <1>2 DEF Opened
<1>4. 1 \in Nat /\ 0 \in Nat /\ usage' \in {u, Charge(u, Model, 1, 0)}
  BY <1>3
<1> QED
  BY <1>2, <1>3, <1>4, CountsCharged

LEMMA CountsStreamEnds ==
    ASSUME GatewayInv, CountsInv, NEW c \in Calls, StreamEnds(c)
    PROVE  CountsInv'
<1>1. PICK s \in Subjects : s = call[c].subject
  BY DEF GatewayInv, GateTypes, StreamEnds
<1>2. PICK cost \in Nat : cost = call[c].paid
  BY DEF GatewayInv, GateTypes, CallRecs
<1>3. PICK u : u = Charge(usage, s, 0, cost)
  OBVIOUS
<1>4. usage' \in {u, Charge(u, Model, 1, cost)} /\ Drops(u, usage') /\ win' = win /\ counted' = counted
  BY <1>1, <1>2, <1>3 DEF StreamEnds
<1>5. counted' = [counted EXCEPT ![s] = counted[s] + 0] /\ 0 \in Nat
  BY <1>4 DEF CountsInv
<1> QED
  BY <1>3, <1>4, <1>5, CountsCharged

LEMMA CountsSetLimits ==
    ASSUME GatewayInv, CountsInv, NEW s \in Subjects, NEW cap, SetLimits(s, cap)
    PROVE  CountsInv'
<1>1. PICK v : v = Without(usage, s)
  OBVIOUS
<1>2. /\ usage' = v /\ win' = win /\ counted' = [counted EXCEPT ![s] = 0]
      /\ forgotten' = [forgotten EXCEPT ![s] = 0]
  BY <1>1 DEF SetLimits
<1>3. /\ Table(usage) /\ counted \in [Subjects -> Nat] /\ forgotten \in [Subjects -> Nat]
      /\ \A i \in 1..Len(usage) : usage[i].win <= win
      /\ \A t \in Subjects : counted[t] = forgotten[t] + Counted(usage, t)
  BY DEF GatewayInv, CountsInv
<1>4. /\ Table(v) /\ Subtable(v, usage, s) /\ \A i \in 1..Len(v) : v[i].key # s
      /\ \A j \in 1..Len(usage) : usage[j].key # s => \E i \in 1..Len(v) : v[i] = usage[j]
  BY <1>1, <1>3, WithoutOK
<1>5. \A t : Counted(usage, t)' = Counted(v, t)
  BY <1>2 DEF Counted, Found
<1>6. Counted(v, s) = 0
  BY <1>4, CountedOK
<1>7. ASSUME NEW t \in Subjects, t # s PROVE Counted(v, t) = Counted(usage, t)
  <2>1. /\ \A i \in 1..Len(usage) : usage[i].key = t /\ usage[i].win = win
                                    => Counted(usage, t) = usage[i].n
        /\ (\A i \in 1..Len(usage) : ~(usage[i].key = t /\ usage[i].win = win)) => Counted(usage, t) = 0
    BY <1>3, CountedOK
  <2>2. /\ \A i \in 1..Len(v) : v[i].key = t /\ v[i].win = win => Counted(v, t) = v[i].n
        /\ (\A i \in 1..Len(v) : ~(v[i].key = t /\ v[i].win = win)) => Counted(v, t) = 0
    BY <1>4, CountedOK
  <2>3. CASE \E j \in 1..Len(usage) : usage[j].key = t /\ usage[j].win = win
    <3>1. PICK j \in 1..Len(usage) : usage[j].key = t /\ usage[j].win = win
      BY <2>3
    <3>2. PICK i \in 1..Len(v) : v[i] = usage[j]
      BY <1>4, <1>7, <3>1
    <3> QED
      BY <2>1, <2>2, <3>1, <3>2
  <2>4. CASE \A j \in 1..Len(usage) : ~(usage[j].key = t /\ usage[j].win = win)
    <3>1. \A i \in 1..Len(v) : ~(v[i].key = t /\ v[i].win = win)
      BY <1>4, <1>7, <2>4 DEF Subtable
    <3> QED
      BY <2>1, <2>2, <2>4, <3>1
  <2> QED
    BY <2>3, <2>4
<1>8. \A i \in 1..Len(v) : v[i].win <= win
  BY <1>3, <1>4 DEF Subtable
<1>9. ASSUME NEW t \in Subjects PROVE counted'[t] = forgotten'[t] + Counted(usage, t)'
  <2>1. CASE t = s
    BY <1>2, <1>3, <1>5, <1>6, <2>1
  <2>2. CASE t # s
    BY <1>2, <1>3, <1>5, <1>7, <2>2
  <2> QED
    BY <2>1, <2>2
<1>10. counted' \in [Subjects -> Nat] /\ forgotten' \in [Subjects -> Nat]
  BY <1>2, <1>3
<1> QED
  BY <1>2, <1>8, <1>9, <1>10 DEF CountsInv

LEMMA CountsReadUsage ==
    ASSUME GatewayInv, CountsInv, NEW s \in Subjects, ReadUsage(s)
    PROVE  CountsInv'
<1>1. PICK u : u = Current(usage, s)
  OBVIOUS
<1>2. usage' = u /\ Drops(u, usage') /\ win' = win /\ counted' = counted
  BY <1>1 DEF ReadUsage
<1> QED
  BY <1>1, <1>2, CountsRead

LEMMA CountsNextWindow ==
    ASSUME GatewayInv, CountsInv, NextWindow
    PROVE  CountsInv'
<1>1. PICK v : v = usage
  OBVIOUS
<1>2. /\ usage' = v /\ win' = win + 1 /\ win \in Nat /\ Table(v)
      /\ \A i \in 1..Len(v) : v[i] \in Rows /\ v[i].win <= win
  BY <1>1 DEF NextWindow, GatewayInv, GateTypes, CountsInv, Table
<1>3. \A i \in 1..Len(v) : v[i].win \in Nat
  BY <1>2 DEF Rows
<1>4. \A i \in 1..Len(v) : v[i].win <= win' /\ v[i].win # win'
  BY <1>2, <1>3
<1>5. ASSUME NEW s PROVE Counted(usage, s)' = 0
  <2>1. ToSet(v) = {v[i] : i \in 1..Len(v)}
    BY <1>2 DEF Table, ToSet
  <2>2. {e \in ToSet(v) : e.key = s /\ e.win = win'} = {}
    BY <1>4, <2>1
  <2>3. Found(usage, s)' = {}
    BY <1>2, <2>2 DEF Found
  <2> QED
    BY <2>3 DEF Counted
<1>6. /\ counted' = [s \in Subjects |-> 0] /\ forgotten' = [s \in Subjects |-> 0]
  BY DEF NextWindow
<1> QED
  BY <1>2, <1>4, <1>5, <1>6 DEF CountsInv

LEMMA CountsStart == GatewayInit => CountsInv
<1> SUFFICES ASSUME GatewayInit PROVE CountsInv
  OBVIOUS
<1>1. Table(usage) /\ Len(usage) = 0
  BY DEF GatewayInit, Table
<1>2. \A s \in Subjects : Counted(usage, s) = 0
  BY <1>1, CountedOK
<1> QED
  BY <1>1, <1>2 DEF GatewayInit, CountsInv

LEMMA CountsSteps == GatewayInv /\ CountsInv /\ [GatewayNext]_gateVars => CountsInv'
<1> SUFFICES ASSUME GatewayInv, CountsInv, [GatewayNext]_gateVars PROVE CountsInv'
  OBVIOUS
<1>1. CASE UNCHANGED gateVars
  BY <1>1, CountsStay DEF gateVars
<1>2. CASE \E c \in Calls : Refuse(c) \/ Withheld(c) \/ NeedsApproval(c) \/ RouteRaises(c)
  BY <1>2, CountsStay DEF Refuse, Withheld, NeedsApproval, RouteRaises
<1>3. CASE \E c \in Calls : \/ SchemaRetry(c) \/ AsksForTool(c) \/ ToolReturns(c)
                            \/ StartSending(c) \/ NeverSent(c)
  BY <1>3, CountsStay DEF SchemaRetry, AsksForTool, ToolReturns, StartSending, NeverSent
<1>4. CASE \E c \in Calls : Begin(c)
  BY <1>4, CountsBegin
<1>5. CASE \E c \in Calls : Answered(c)
  BY <1>5, CountsAnswered
<1>6. CASE \E c \in Calls : Opened(c)
  BY <1>6, CountsOpened
<1>7. CASE \E c \in Calls : StreamEnds(c)
  BY <1>7, CountsStreamEnds
<1>8. CASE \E s \in Subjects : SetLimits(s, NewCap) \/ SetLimits(s, DefaultCap)
  BY <1>8, CountsSetLimits
<1>9. CASE \E s \in Subjects : ReadUsage(s)
  BY <1>9, CountsReadUsage
<1>10. CASE NextWindow
  BY <1>10, CountsNextWindow
<1> QED
  BY <1>1, <1>2, <1>3, <1>4, <1>5, <1>6, <1>7, <1>8, <1>9, <1>10 DEF GatewayNext

\* In a window a subject exceeds its cap by no more than what it had in flight and what
\* the table has forgotten of it, and the two accounts of what was used agree.
THEOREM BudgetsAlways == GatewaySpec => []BudgetsSound
<1>1. GatewayInv /\ CountsInv => BudgetsSound
  <2> SUFFICES ASSUME GatewayInv, CountsInv PROVE OvershootBounded /\ AccountsAgree
    BY DEF BudgetsSound
  <2>1. AccountsAgree
    BY DEF GatewayInv
  <2>2. ASSUME NEW s \in Subjects
        PROVE  /\ \A e \in ToSet(usage) : e.key = s => e.n <= Spare(s) + peak[s]
               /\ counted[s] <= Spare(s) + peak[s] + forgotten[s]
    <3>1. Waiting(s) \in SUBSET Calls
      BY DEF Waiting
    <3>2. Cardinality(Waiting(s)) \in Nat
      BY <3>1, CallsFinite
    <3>3. Spare(s) \in Nat /\ peak[s] \in Nat
      BY SpareOK DEF GatewayInv, GateTypes
    <3>4. \A i \in 1..Len(usage) : usage[i].key = s => usage[i].n <= Spare(s) + peak[s]
      <4> SUFFICES ASSUME NEW i \in 1..Len(usage), usage[i].key = s
                   PROVE  usage[i].n <= Spare(s) + peak[s]
        OBVIOUS
      <4>1. usage[i] \in Rows
        BY DEF GatewayInv, Table
      <4>2. usage[i].n \in Nat /\ usage[i].n <= Room(s)
        BY <4>1 DEF GatewayInv, Within, Rows
      <4> QED
        BY <3>2, <3>3, <4>2 DEF Room
    <3>5. ToSet(usage) = {usage[i] : i \in 1..Len(usage)} /\ Table(usage)
      BY DEF GatewayInv, Table, ToSet
    <3>6. Counted(usage, s) \in Nat /\ Counted(usage, s) <= Spare(s) + peak[s]
      <4>1. CASE \E i \in 1..Len(usage) : usage[i].key = s /\ usage[i].win = win
        BY <3>4, <3>5, <4>1, CountedOK
      <4>2. CASE \A i \in 1..Len(usage) : ~(usage[i].key = s /\ usage[i].win = win)
        <5>1. Counted(usage, s) = 0
          BY <3>5, <4>2, CountedOK
        <5> QED
          BY <3>3, <5>1
      <4> QED
        BY <4>1, <4>2
    <3>7. counted[s] = forgotten[s] + Counted(usage, s) /\ forgotten[s] \in Nat
      BY DEF CountsInv
    <3> QED
      BY <3>3, <3>4, <3>5, <3>6, <3>7
  <2> QED
    BY <2>1, <2>2 DEF OvershootBounded
<1>2. GatewayInit => GatewayInv /\ CountsInv
  BY GatewayStarts, CountsStart
<1>3. GatewayInv /\ CountsInv /\ [GatewayNext]_gateVars => (GatewayInv /\ CountsInv)'
  BY GatewaySteps, CountsSteps
<1> QED
  BY <1>1, <1>2, <1>3, PTL DEF GatewaySpec

-----------------------------------------------------------------------------
\* SecureProtocol: the replay guard lets a frame through once.

HelloRecs == [type : {"hello"}, from : Nodes \cup {0}, nonce : Nat, ts : Nat]
KeyRecs == [i : Nat, r : Nat, sid : Nodes \cup {0}]
Hands == [mine : HelloRecs, theirs : HelloRecs, keys : KeyRecs, verified : {"unknown", "yes", "no"}]
KeyPairs == Nat \X Nat
Entries == [seq : Nat, ts : Nat]
StpSessions == [key : KeyPairs \cup {<< >>}, seq : Nat, seen : SUBSET Entries, open : BOOLEAN]
StpFrames == [key : KeyPairs, seq : Nat, ts : Nat, body : Nodes]

StpTypes ==
    /\ clock \in Nat /\ IsFiniteSet(Hellos)
    /\ hand \in [Nodes -> Hands]
    /\ sess \in [Nodes -> StpSessions]
    /\ opened \in [Nodes -> SUBSET StpFrames]
    /\ \A n \in Nodes : sess[n].open => sess[n].key \in KeyPairs
    /\ \A m \in wire : m.type = "frame" => m.frame \in StpFrames
    /\ Hellos \subseteq HelloRecs

\* The nonce that node n contributed to a key.
Own(n, key) == IF n = Initiator THEN key[1] ELSE key[2]

\* A hello's nonce was not used before.
FreshNonces ==
    /\ \A m \in Hellos : m.nonce <= Cardinality(Hellos)
    /\ \A n \in Nodes : hand[n].mine.nonce <= Cardinality(Hellos)

\* The keys of a handshake are made with its nonce.
DerivedOK(n) ==
    LET h == hand[n]
    IN  /\ h.mine = NoHello \/ h.mine.nonce > 0
        /\ h.keys = NoKeys \/ Own(n, <<h.keys.i, h.keys.r>>) = h.mine.nonce

\* A session is under the keys of the node's last handshake, or of an earlier one.
SessionOK(n) ==
    sess[n].key \in KeyPairs =>
        /\ Own(n, sess[n].key) <= hand[n].mine.nonce
        /\ Own(n, sess[n].key) = hand[n].mine.nonce =>
               sess[n].key = <<hand[n].keys.i, hand[n].keys.r>>

\* A frame that was opened is remembered by the session, or is as old as the window,
\* or was for an earlier session.
RememberedOK(n) ==
    \A f \in opened[n] :
        /\ sess[n].key \in KeyPairs
        /\ \/ /\ f.key = sess[n].key
              /\ [seq |-> f.seq, ts |-> f.ts] \in sess[n].seen
                    \/ f.ts + REPLAY_WINDOW_S <= Local(n)
           \/ Own(n, f.key) < Own(n, sess[n].key)

StpInv ==
    /\ StpTypes /\ FreshNonces
    /\ \A n \in Nodes : DerivedOK(n) /\ SessionOK(n) /\ RememberedOK(n)
    /\ FrameOnce

LEMMA StpStart == StpInit => StpInv
<1> SUFFICES ASSUME StpInit PROVE StpInv
  OBVIOUS
<1>1. Hellos = {}
  BY DEF StpInit, Hellos
<1>2. NewHandshake \in Hands /\ NewHandshake.mine = NoHello /\ NewHandshake.keys = NoKeys
      /\ NewHandshake.mine.nonce = 0
  BY DEF NewHandshake, Hands, HelloRecs, KeyRecs, NoHello, NoKeys
<1>3. NoSession \in StpSessions /\ ~NoSession.open /\ NoSession.key = << >>
  BY DEF NoSession, StpSessions, Entries
<1>4. << >> \notin KeyPairs
  BY DEF KeyPairs
<1>5. IsFiniteSet(Hellos) /\ Cardinality(Hellos) = 0
  BY <1>1, FS_EmptySet
<1>6. StpTypes
  BY <1>1, <1>2, <1>3, <1>5 DEF StpInit, StpTypes
<1>7. FreshNonces
  BY <1>1, <1>2, <1>5 DEF StpInit, FreshNonces
<1> QED
  BY <1>2, <1>3, <1>4, <1>6, <1>7
     DEF StpInit, StpInv, DerivedOK, SessionOK, RememberedOK, FrameOnce

\* A step that sends no hello.
LEMMA SameHellos ==
    ASSUME NEW W, \A m \in W : m.type # "hello", wire' = wire \cup W
    PROVE  Hellos' = Hellos
  BY DEF Hellos

LEMMA BuildHelloStep ==
    ASSUME StpInv, NEW n \in Nodes, BuildHello(n)
    PROVE  StpInv'
<1> DEFINE k == Cardinality(Hellos)
           hello == [type |-> "hello", from |-> n, nonce |-> k + 1, ts |-> Local(n)]
           h == [NewHandshake EXCEPT !.mine = hello]
<1>1. /\ hand' = [hand EXCEPT ![n] = h] /\ wire' = wire \cup {hello}
      /\ clock' = clock /\ sess' = sess /\ opened' = opened /\ again' = again
  BY DEF BuildHello
<1>2. k \in Nat /\ Local(n) \in Nat
  BY FS_CardinalityType, StpAssumption DEF StpInv, StpTypes, Local, Nodes
<1>3. hello \in HelloRecs /\ hello.nonce = k + 1 /\ hello.type = "hello"
  BY <1>2 DEF HelloRecs
<1>4. hello \notin Hellos
  BY <1>2, <1>3 DEF StpInv, FreshNonces
<1>5. Hellos' = Hellos \cup {hello}
  BY <1>1, <1>3 DEF Hellos
<1>6. IsFiniteSet(Hellos') /\ Cardinality(Hellos') = k + 1
  BY <1>4, <1>5, FS_AddElement DEF StpInv, StpTypes
<1>7. h \in Hands /\ h.mine = hello /\ h.keys = NoKeys
  BY <1>3 DEF NewHandshake, Hands, HelloRecs, NoHello, NoKeys, KeyRecs
<1> HIDE DEF k, hello, h
<1>8. /\ hand' \in [Nodes -> Hands] /\ hand'[n] = h
      /\ \A d \in Nodes \ {n} : hand'[d] = hand[d]
  BY <1>1, <1>7 DEF StpInv, StpTypes
<1>9. StpTypes'
  <2>1. \A m \in wire' : m.type = "frame" => m.frame \in StpFrames
    BY <1>1, <1>3 DEF StpInv, StpTypes
  <2>2. Hellos' \subseteq HelloRecs
    BY <1>3, <1>5 DEF StpInv, StpTypes
  <2> QED
    BY <1>1, <1>6, <1>8, <2>1, <2>2 DEF StpInv, StpTypes
<1>10. FreshNonces'
  <2>1. \A m \in Hellos' : m.nonce <= k + 1
    BY <1>2, <1>3, <1>5 DEF StpInv, StpTypes, FreshNonces, HelloRecs, k
  <2>2. \A d \in Nodes : hand'[d].mine.nonce <= k + 1
    <3>1. \A d \in Nodes : hand[d].mine.nonce <= k /\ hand[d].mine.nonce \in Nat
      BY DEF StpInv, StpTypes, FreshNonces, Hands, HelloRecs, k
    <3> QED
      BY <1>2, <1>3, <1>7, <1>8, <3>1
  <2> QED
    BY <1>6, <2>1, <2>2 DEF FreshNonces
<1>11. DerivedOK(n)' /\ SessionOK(n)'
  <2>1. DerivedOK(n)'
    BY <1>2, <1>3, <1>7, <1>8 DEF DerivedOK
  <2>2. ASSUME sess[n].key \in KeyPairs
        PROVE  Own(n, sess[n].key) < k + 1
    <3>1. Own(n, sess[n].key) <= hand[n].mine.nonce /\ hand[n].mine.nonce <= k
      BY <2>2 DEF StpInv, SessionOK, FreshNonces, k
    <3>2. Own(n, sess[n].key) \in Nat /\ hand[n].mine.nonce \in Nat
      BY <2>2 DEF Own, KeyPairs, StpInv, StpTypes, Hands, HelloRecs
    <3> QED
      BY <1>2, <3>1, <3>2
  <2>3. ASSUME sess[n].key \in KeyPairs PROVE Own(n, sess[n].key) \in Nat
    BY <2>3 DEF Own, KeyPairs
  <2> QED
    BY <1>1, <1>2, <1>3, <1>7, <1>8, <2>1, <2>2, <2>3 DEF SessionOK
<1>12. \A d \in Nodes \ {n} : DerivedOK(d)' /\ SessionOK(d)'
  BY <1>1, <1>8 DEF StpInv, DerivedOK, SessionOK
<1>13. \A d \in Nodes : RememberedOK(d)'
  BY <1>1 DEF StpInv, RememberedOK, Local
<1> QED
  BY <1>1, <1>9, <1>10, <1>11, <1>12, <1>13 DEF StpInv, FrameOnce

\* A step of a handshake that keeps its own hello, and its keys if it has some.
LEMMA HandMoves ==
    ASSUME StpInv, NEW n \in Nodes, NEW h \in Hands, hand' = [hand EXCEPT ![n] = h],
           h.mine = hand[n].mine,
           h.keys = hand[n].keys \/
               /\ hand[n].keys = NoKeys /\ h.mine # NoHello
               /\ Own(n, <<h.keys.i, h.keys.r>>) = h.mine.nonce,
           UNCHANGED <<clock, sess, wire, opened, again>>
    PROVE  StpInv'
<1>1. /\ hand' \in [Nodes -> Hands] /\ hand'[n] = h
      /\ \A d \in Nodes \ {n} : hand'[d] = hand[d]
  BY DEF StpInv, StpTypes
<1>2. Hellos' = Hellos
  BY DEF Hellos
<1>3. StpTypes'
  BY <1>1, <1>2 DEF StpInv, StpTypes
<1>4. FreshNonces'
  BY <1>1, <1>2 DEF StpInv, FreshNonces
<1>5. DerivedOK(n) /\ SessionOK(n)
  BY DEF StpInv
<1>6. DerivedOK(n)' /\ SessionOK(n)'
  <2>1. CASE h.keys = hand[n].keys
    BY <1>1, <1>5, <2>1 DEF DerivedOK, SessionOK
  <2>2. CASE /\ hand[n].keys = NoKeys /\ h.mine # NoHello
             /\ Own(n, <<h.keys.i, h.keys.r>>) = h.mine.nonce
    <3>1. DerivedOK(n)'
      BY <1>1, <1>5, <2>2 DEF DerivedOK
    <3>2. h.mine.nonce > 0 /\ h.mine.nonce \in Nat
      BY <1>5, <2>2 DEF DerivedOK, Hands, HelloRecs
    <3>3. Own(n, <<0, 0>>) = 0
      BY DEF Own
    <3>4. sess[n].key \in KeyPairs => Own(n, sess[n].key) # hand[n].mine.nonce
      BY <1>5, <2>2, <3>2, <3>3 DEF SessionOK, NoKeys
    <3> QED
      BY <1>1, <1>5, <3>1, <3>4 DEF SessionOK
  <2> QED
    BY <2>1, <2>2
<1>7. \A d \in Nodes \ {n} : DerivedOK(d)' /\ SessionOK(d)'
  BY <1>1 DEF StpInv, DerivedOK, SessionOK
<1>8. \A d \in Nodes : RememberedOK(d)'
  BY DEF StpInv, RememberedOK, Local
<1> QED
  BY <1>3, <1>4, <1>6, <1>7, <1>8 DEF StpInv, FrameOnce

LEMMA ReceiveHelloStep ==
    ASSUME StpInv, NEW n \in Nodes, ReceiveHello(n)
    PROVE  StpInv'
<1>1. PICK hello \in Hellos : hand' = [hand EXCEPT ![n].theirs = hello]
  BY DEF ReceiveHello
<1>2. hello \in HelloRecs /\ hand[n] \in Hands
  BY DEF StpInv, StpTypes
<1>3. PICK h \in Hands : h = [hand[n] EXCEPT !.theirs = hello]
  BY <1>2 DEF Hands
<1>4. h.mine = hand[n].mine /\ h.keys = hand[n].keys
  BY <1>2, <1>3 DEF Hands
<1>5. hand' = [hand EXCEPT ![n] = h]
  BY <1>1, <1>3
<1>6. UNCHANGED <<clock, sess, wire, opened, again>>
  BY DEF ReceiveHello
<1> QED
  BY <1>4, <1>5, <1>6, HandMoves

LEMMA DeriveKeysStep ==
    ASSUME StpInv, NEW n \in Nodes, DeriveKeys(n)
    PROVE  StpInv'
<1>1. PICK k : /\ k = [i |-> IF n = Initiator THEN hand[n].mine.nonce ELSE hand[n].theirs.nonce,
                       r |-> IF n = Initiator THEN hand[n].theirs.nonce ELSE hand[n].mine.nonce,
                       sid |-> n]
               /\ hand' = [hand EXCEPT ![n].keys = k]
  BY DEF DeriveKeys
<1>2. hand[n] \in Hands /\ hand[n].mine # NoHello /\ hand[n].keys = NoKeys
  BY DEF StpInv, StpTypes, DeriveKeys
<1>3. hand[n].mine.nonce \in Nat /\ hand[n].theirs.nonce \in Nat
  BY <1>2 DEF Hands, HelloRecs
<1>4. k \in KeyRecs /\ Own(n, <<k.i, k.r>>) = hand[n].mine.nonce
  BY <1>1, <1>3 DEF KeyRecs, Own
<1>5. PICK h \in Hands : h = [hand[n] EXCEPT !.keys = k]
  BY <1>2, <1>4 DEF Hands
<1>6. h.mine = hand[n].mine /\ h.keys = k
  BY <1>2, <1>5 DEF Hands
<1>7. hand' = [hand EXCEPT ![n] = h]
  BY <1>1, <1>5
<1>8. UNCHANGED <<clock, sess, wire, opened, again>>
  BY DEF DeriveKeys
<1>9. /\ hand[n].keys = NoKeys /\ h.mine # NoHello
      /\ Own(n, <<h.keys.i, h.keys.r>>) = h.mine.nonce
  BY <1>2, <1>4, <1>6
<1> QED
  BY <1>6, <1>7, <1>8, <1>9, HandMoves

LEMMA VerifyFinishStep ==
    ASSUME StpInv, NEW n \in Nodes, VerifyFinish(n)
    PROVE  StpInv'
<1>1. PICK v \in {"yes", "no"} : hand' = [hand EXCEPT ![n].verified = v]
  BY DEF VerifyFinish
<1>2. hand[n] \in Hands
  BY DEF StpInv, StpTypes
<1>3. PICK h \in Hands : h = [hand[n] EXCEPT !.verified = v]
  BY <1>2 DEF Hands
<1>4. h.mine = hand[n].mine /\ h.keys = hand[n].keys
  BY <1>2, <1>3 DEF Hands
<1>5. hand' = [hand EXCEPT ![n] = h]
  BY <1>1, <1>3
<1>6. UNCHANGED <<clock, sess, wire, opened, again>>
  BY DEF VerifyFinish
<1> QED
  BY <1>4, <1>5, <1>6, HandMoves

\* A step of a session, and what it sends.
LEMMA SessionMoves ==
    ASSUME StpInv, NEW n \in Nodes, NEW s \in StpSessions, sess' = [sess EXCEPT ![n] = s],
           s.open => s.key \in KeyPairs,
           wire \subseteq wire', \A m \in wire' \ wire : m.type = "frame" /\ m.frame \in StpFrames,
           opened' \in [Nodes -> SUBSET StpFrames],
           \A d \in Nodes \ {n} : opened'[d] = opened[d],
           SessionOK(n)', RememberedOK(n)', FrameOnce',
           clock' = clock, hand' = hand
    PROVE  StpInv'
<1>1. /\ sess' \in [Nodes -> StpSessions] /\ sess'[n] = s
      /\ \A d \in Nodes \ {n} : sess'[d] = sess[d]
  BY DEF StpInv, StpTypes
<1>2. Hellos' = Hellos
  BY DEF Hellos
<1>3. StpTypes'
  BY <1>1, <1>2 DEF StpInv, StpTypes
<1>4. FreshNonces'
  BY <1>1, <1>2 DEF StpInv, FreshNonces
<1>5. \A d \in Nodes : DerivedOK(d)'
  BY DEF StpInv, DerivedOK
<1>6. \A d \in Nodes \ {n} : SessionOK(d)' /\ RememberedOK(d)'
  BY <1>1 DEF StpInv, SessionOK, RememberedOK, Local
<1> QED
  BY <1>3, <1>4, <1>5, <1>6 DEF StpInv

\* A step of a session that forgets nothing.
LEMMA SessionGoesOn ==
    ASSUME StpInv, NEW n \in Nodes, NEW s \in StpSessions, sess' = [sess EXCEPT ![n] = s],
           s.key = sess[n].key, s.seen = sess[n].seen, s.open => sess[n].open,
           wire \subseteq wire', \A m \in wire' \ wire : m.type = "frame" /\ m.frame \in StpFrames,
           UNCHANGED <<clock, hand, opened, again>>
    PROVE  StpInv'
<1>1. sess'[n] = s
  BY DEF StpInv, StpTypes
<1>2. SessionOK(n) /\ RememberedOK(n)
  BY DEF StpInv
<1>3. s.open => s.key \in KeyPairs
  BY DEF StpInv, StpTypes
<1>4. SessionOK(n)'
  BY <1>1, <1>2 DEF SessionOK
<1>5. RememberedOK(n)'
  BY <1>1, <1>2 DEF RememberedOK, Local
<1>6. FrameOnce'
  BY DEF StpInv, FrameOnce
<1>7. opened' \in [Nodes -> SUBSET StpFrames] /\ \A d \in Nodes \ {n} : opened'[d] = opened[d]
  BY DEF StpInv, StpTypes
<1>8. clock' = clock /\ hand' = hand
  OBVIOUS
<1> QED
  BY <1>3, <1>4, <1>5, <1>6, <1>7, <1>8, SessionMoves

LEMMA SendFrameStep ==
    ASSUME StpInv, NEW n \in Nodes, SendFrame(n)
    PROVE  StpInv'
<1> DEFINE f == [type |-> "frame", from |-> n, frame |-> Sealed(sess[n], Local(n), n)]
           W == IF Sealable(sess[n]) THEN {f} ELSE {}
<1>1. wire' = wire \cup W /\ sess' = [sess EXCEPT ![n] = Numbered(sess[n])]
      /\ UNCHANGED <<clock, hand, opened, again>>
  BY DEF SendFrame
<1>2. sess[n] \in StpSessions /\ (sess[n].open => sess[n].key \in KeyPairs)
      /\ Local(n) \in Nat
  BY StpAssumption DEF StpInv, StpTypes, Local, Nodes
<1>3. wire \subseteq wire' /\ \A m \in wire' \ wire : m.type = "frame" /\ m.frame \in StpFrames
  BY <1>1, <1>2 DEF Sealable, Sealed, StpFrames, StpSessions
<1>4. PICK s \in StpSessions : s = [sess[n] EXCEPT !.seq = sess[n].seq + 1]
  <2>1. sess[n].seq + 1 \in Nat
    BY <1>2 DEF StpSessions
  <2> QED
    BY <1>2, <2>1 DEF StpSessions
<1>5. s.key = sess[n].key /\ s.seen = sess[n].seen /\ s.open = sess[n].open
  BY <1>2, <1>4 DEF StpSessions
<1>6. sess' = [sess EXCEPT ![n] = s]
  BY <1>1, <1>4 DEF Numbered
<1> HIDE DEF W
<1> QED
  BY <1>1, <1>3, <1>5, <1>6, SessionGoesOn

LEMMA CloseSessionStep ==
    ASSUME StpInv, NEW n \in Nodes, CloseSession(n)
    PROVE  StpInv'
<1>1. sess[n] \in StpSessions /\ sess[n].open
  BY DEF StpInv, StpTypes, CloseSession
<1>2. PICK s \in StpSessions : s = [sess[n] EXCEPT !.open = FALSE]
  BY <1>1 DEF StpSessions
<1>3. s.key = sess[n].key /\ s.seen = sess[n].seen
  BY <1>1, <1>2 DEF StpSessions
<1>4. sess' = [sess EXCEPT ![n] = s]
  BY <1>2 DEF CloseSession, Shut
<1>5. wire \subseteq wire' /\ \A m \in wire' \ wire : m.type = "frame" /\ m.frame \in StpFrames
  BY DEF CloseSession
<1>6. UNCHANGED <<clock, hand, opened, again>>
  BY DEF CloseSession
<1> QED
  BY <1>1, <1>3, <1>4, <1>5, <1>6, SessionGoesOn

LEMMA BuildFinishStep ==
    ASSUME StpInv, NEW n \in Nodes, BuildFinish(n)
    PROVE  StpInv'
<1>1. PICK m : m.type = "finish" /\ wire' = wire \cup {m}
               /\ UNCHANGED <<clock, hand, sess, opened, again>>
  BY DEF BuildFinish
<1>2. Hellos' = Hellos
  BY <1>1 DEF Hellos
<1>3. StpTypes'
  BY <1>1, <1>2 DEF StpInv, StpTypes
<1> QED
  BY <1>1, <1>2, <1>3
     DEF StpInv, FreshNonces, DerivedOK, SessionOK, RememberedOK, FrameOnce, Local

\* A session under new keys: what was opened before was under earlier ones.
LEMMA EstablishStep ==
    ASSUME StpInv, NEW n \in Nodes, Establish(n)
    PROVE  StpInv'
<1> DEFINE key == <<hand[n].keys.i, hand[n].keys.r>>
<1>1. /\ hand[n].keys # NoKeys /\ sess[n].key # key
      /\ sess' = [sess EXCEPT ![n] = NewSession(key)]
      /\ UNCHANGED <<clock, hand, wire, opened, again>>
  BY DEF Establish
<1>2. hand[n] \in Hands /\ sess[n] \in StpSessions
  BY DEF StpInv, StpTypes
<1>3. key \in KeyPairs
  BY <1>2 DEF Hands, KeyRecs, KeyPairs
<1>4. PICK s \in StpSessions : s = [key |-> key, seq |-> 0, seen |-> {}, open |-> TRUE]
  BY <1>3 DEF StpSessions
<1>5. s.key = key /\ sess' = [sess EXCEPT ![n] = s]
  BY <1>1, <1>4 DEF NewSession
<1>6. sess'[n] = s
  BY <1>5 DEF StpInv, StpTypes
<1>7. Own(n, key) = hand[n].mine.nonce
  BY <1>1 DEF StpInv, DerivedOK
<1> HIDE DEF key
<1>8. SessionOK(n)'
  BY <1>1, <1>2, <1>5, <1>6, <1>7 DEF SessionOK, key, Hands, HelloRecs
<1>9. RememberedOK(n)'
  <2> SUFFICES ASSUME NEW f \in opened[n] PROVE Own(n, f.key) < Own(n, key)
    BY <1>1, <1>3, <1>5, <1>6 DEF RememberedOK
  <2>1. sess[n].key \in KeyPairs
    BY DEF StpInv, RememberedOK
  <2>2. Own(n, sess[n].key) < Own(n, key)
    <3>1. Own(n, sess[n].key) \in Nat /\ Own(n, key) \in Nat
      BY <1>3, <2>1 DEF Own, KeyPairs
    <3>2. Own(n, sess[n].key) <= Own(n, key) /\ Own(n, sess[n].key) # Own(n, key)
      BY <1>1, <1>7, <2>1 DEF StpInv, SessionOK, key
    <3> QED
      BY <3>1, <3>2
  <2>3. f.key = sess[n].key \/ Own(n, f.key) < Own(n, sess[n].key)
    BY DEF StpInv, RememberedOK
  <2>4. f.key \in KeyPairs
    BY DEF StpInv, StpTypes, StpFrames
  <2>5. Own(n, f.key) \in Nat /\ Own(n, sess[n].key) \in Nat /\ Own(n, key) \in Nat
    BY <1>3, <2>1, <2>4 DEF Own, KeyPairs
  <2> QED
    BY <2>2, <2>3, <2>5
<1>10. wire \subseteq wire' /\ \A m \in wire' \ wire : m.type = "frame" /\ m.frame \in StpFrames
  BY <1>1
<1>11. FrameOnce' /\ opened' \in [Nodes -> SUBSET StpFrames]
       /\ \A d \in Nodes \ {n} : opened'[d] = opened[d]
  BY <1>1 DEF StpInv, StpTypes, FrameOnce
<1>12. s.open => s.key \in KeyPairs
  BY <1>3, <1>5
<1>13. clock' = clock /\ hand' = hand
  BY <1>1
<1> QED
  BY <1>5, <1>8, <1>9, <1>10, <1>11, <1>12, <1>13, SessionMoves

LEMMA ReceiveFrameStep ==
    ASSUME StpInv, NEW n \in Nodes, ReceiveFrame(n)
    PROVE  StpInv'
<1>1. PICK m \in wire :
        /\ m.type = "frame" /\ Opens(sess[n], m.frame, Local(n))
        /\ sess' = [sess EXCEPT ![n] = Received(@, m.frame, Local(n))]
        /\ opened' = [opened EXCEPT ![n] = @ \cup {m.frame}]
        /\ again' = IF m.frame \in opened[n]
                    THEN again \cup {Distance(Local(n), m.frame.ts)} ELSE again
  BY DEF ReceiveFrame
<1>2. PICK f \in StpFrames : f = m.frame
  BY <1>1 DEF StpInv, StpTypes
<1>3. PICK now \in Nat : now = Local(n)
  BY StpAssumption DEF StpInv, StpTypes, Local, Nodes
<1>4. sess[n] \in StpSessions /\ sess[n].open /\ sess[n].key \in KeyPairs /\ f.key = sess[n].key
      /\ InWindow(now, f.ts) /\ Unseen(sess[n], f)
  BY <1>1, <1>2, <1>3 DEF StpInv, StpTypes, Opens
<1>5. UNCHANGED <<clock, hand, wire>>
  BY DEF ReceiveFrame
<1> DEFINE mark(g) == [seq |-> g.seq, ts |-> g.ts]
           seen == Kept(sess[n].seen, now) \cup {mark(f)}
<1>6. mark(f) \in Entries /\ seen \in SUBSET Entries
  BY <1>2, <1>4 DEF StpFrames, Entries, Kept, StpSessions
<1>7. PICK s \in StpSessions : s = [sess[n] EXCEPT !.seen = seen]
  BY <1>4, <1>6 DEF StpSessions
<1>8. s.key = sess[n].key /\ s.open = sess[n].open /\ s.seen = seen
  BY <1>4, <1>7 DEF StpSessions
<1>9. sess' = [sess EXCEPT ![n] = s]
  BY <1>1, <1>2, <1>3, <1>7 DEF Received
<1>10. sess'[n] = s
  BY <1>9 DEF StpInv, StpTypes
<1>11. /\ opened' \in [Nodes -> SUBSET StpFrames] /\ opened'[n] = opened[n] \cup {f}
       /\ \A d \in Nodes \ {n} : opened'[d] = opened[d]
  BY <1>1, <1>2 DEF StpInv, StpTypes
<1>12. SessionOK(n)'
  BY <1>5, <1>8, <1>10 DEF StpInv, SessionOK
<1>13. RememberedOK(n)'
  <2> SUFFICES ASSUME NEW g \in opened'[n]
               PROVE  \/ g.key = s.key /\ (mark(g) \in s.seen \/ g.ts + REPLAY_WINDOW_S <= now)
                      \/ Own(n, g.key) < Own(n, s.key)
    BY <1>3, <1>4, <1>5, <1>8, <1>10 DEF RememberedOK, Local
  <2>1. CASE g = f
    BY <1>4, <1>8, <2>1
  <2>2. CASE g \in opened[n] /\ Own(n, g.key) < Own(n, sess[n].key)
    BY <1>8, <2>2
  <2>3. CASE g \in opened[n] /\ g.key = sess[n].key /\ mark(g) \in sess[n].seen
    <3>1. g.ts \in Nat /\ mark(g).ts = g.ts
      BY <2>3 DEF StpInv, StpTypes, StpFrames
    <3>2. mark(g) \in seen \/ ~(g.ts > now - REPLAY_WINDOW_S)
      BY <2>3, <3>1 DEF Kept
    <3> QED
      BY <1>8, <2>3, <3>1, <3>2, SessionAssumption
  <2>4. CASE g \in opened[n] /\ g.key = sess[n].key /\ g.ts + REPLAY_WINDOW_S <= now
    BY <1>8, <2>4
  <2> QED
    BY <1>3, <1>11, <2>1, <2>2, <2>3, <2>4 DEF StpInv, RememberedOK
<1>14. FrameOnce'
  <2>1. CASE f \notin opened[n]
    BY <1>1, <1>2, <2>1 DEF StpInv, FrameOnce
  <2>2. CASE f \in opened[n]
    <3>1. ~(Own(n, f.key) < Own(n, sess[n].key))
      BY <1>4 DEF Own, KeyPairs
    <3>2. mark(f).seq = f.seq
      OBVIOUS
    <3>3. mark(f) \notin sess[n].seen
      BY <1>4, <3>2 DEF Unseen
    <3>4. f.ts + REPLAY_WINDOW_S <= now
      BY <1>3, <2>2, <3>1, <3>3 DEF StpInv, RememberedOK
    <3>5. f.ts \in Nat /\ REPLAY_WINDOW_S \in Nat
      BY SessionAssumption DEF StpFrames
    <3>6. Distance(now, f.ts) = REPLAY_WINDOW_S
      BY <1>4, <3>4, <3>5 DEF InWindow, Distance
    <3> QED
      BY <1>1, <1>2, <1>3, <2>2, <3>6 DEF StpInv, FrameOnce
  <2> QED
    BY <2>1, <2>2
<1>15. wire \subseteq wire' /\ \A x \in wire' \ wire : x.type = "frame" /\ x.frame \in StpFrames
  BY <1>5
<1>16. s.open => s.key \in KeyPairs
  BY <1>4, <1>8
<1>17. clock' = clock /\ hand' = hand
  BY <1>5
<1> QED
  BY <1>9, <1>11, <1>12, <1>13, <1>14, <1>15, <1>16, <1>17, SessionMoves

LEMMA StpTickStep == StpInv /\ StpTick => StpInv'
<1> SUFFICES ASSUME StpInv, StpTick PROVE StpInv'
  OBVIOUS
<1>1. clock' = clock + 1 /\ UNCHANGED <<hand, sess, wire, opened, again>>
  BY DEF StpTick
<1>2. Hellos' = Hellos
  BY <1>1 DEF Hellos
<1>3. StpTypes'
  BY <1>1, <1>2 DEF StpInv, StpTypes
<1>4. \A n \in Nodes : RememberedOK(n)'
  <2> SUFFICES ASSUME NEW n \in Nodes, NEW f \in opened[n],
                      f.ts + REPLAY_WINDOW_S <= Local(n)
               PROVE  f.ts + REPLAY_WINDOW_S <= Local(n)'
    BY <1>1 DEF StpInv, RememberedOK
  <2> QED
    BY <1>1, StpAssumption, SessionAssumption DEF Local, Nodes, StpInv, StpTypes, StpFrames
<1> QED
  BY <1>1, <1>2, <1>3, <1>4 DEF StpInv, FreshNonces, DerivedOK, SessionOK, FrameOnce

LEMMA StpSteps == StpInv /\ [StpNext]_stpVars => StpInv'
<1> SUFFICES ASSUME StpInv, [StpNext]_stpVars PROVE StpInv'
  OBVIOUS
<1>1. CASE UNCHANGED stpVars
  <2>1. UNCHANGED <<clock, hand, sess, wire, opened, again>>
    BY <1>1 DEF stpVars
  <2>2. Hellos' = Hellos
    BY <2>1 DEF Hellos
  <2>3. StpTypes'
    BY <2>1, <2>2 DEF StpInv, StpTypes
  <2> QED
    BY <2>1, <2>2, <2>3
       DEF StpInv, FreshNonces, DerivedOK, SessionOK, RememberedOK, FrameOnce, Local
<1>2. CASE StpTick
  BY <1>2, StpTickStep
<1>3. ASSUME NEW n \in Nodes,
             \/ BuildHello(n) \/ ReceiveHello(n) \/ DeriveKeys(n) \/ BuildFinish(n)
             \/ VerifyFinish(n) \/ Establish(n) \/ SendFrame(n) \/ ReceiveFrame(n)
             \/ CloseSession(n)
      PROVE  StpInv'
  BY <1>3, BuildHelloStep, ReceiveHelloStep, DeriveKeysStep, BuildFinishStep, VerifyFinishStep,
     EstablishStep, SendFrameStep, ReceiveFrameStep, CloseSessionStep
<1> QED
  BY <1>1, <1>2, <1>3 DEF StpNext

\* A frame that the network repeats passes ReplayGuard.check() once, but for one
\* exactly as old as the window; a peer that connects again gets keys that no frame
\* was sealed with before.
THEOREM FrameOnceAlways == StpSpec => []FrameOnce
<1>1. StpInit => StpInv
  BY StpStart
<1>2. StpInv /\ [StpNext]_stpVars => StpInv'
  BY StpSteps
<1>3. StpInv => FrameOnce
  BY DEF StpInv
<1> QED
  BY <1>1, <1>2, <1>3, PTL DEF StpSpec

-----------------------------------------------------------------------------
\* AgentProtocol: the delivery modes.

LifeKeys == Lives \cup {<< >>}
DapSessions == [key : LifeKeys, seq : Nat, seen : SUBSET Entries, open : BOOLEAN]
Items == [key : LifeKeys, seq : Nat, ts : Nat, body : Envelopes]
SendEnds == {"dropped", "raised", "sent", "confirmed"}
Coros == [at : {"free", "put", "ack", "acked"} \cup SendEnds, env : Envelopes \cup {Everybody},
          box : LifeKeys, item : Items \cup {<< >>}]

DapTypes ==
    /\ dapNow \in Nat
    /\ life \in [Peers -> Nat]
    /\ \A a \in Peers : life[a] <= MaxLives
    /\ there \subseteq Peers /\ \A a \in there : life[a] > 0
    /\ queues \in [Lives -> Seq(Items)]
    /\ sessions \in [Lives -> DapSessions]
    /\ coro \in [Coroutines -> Coros]
    /\ seenBy \in [Peers -> [Envelopes -> Nat]]

\* A send(), and what it knows its recipient to have opened.
CoroOK(k) ==
    /\ k.at \in {"put", "ack", "acked", "confirmed"} => k.env \in Envelopes /\ Recipient[k.env] \in Peers
    /\ k.at = "put" => k.box \in Lives /\ k.box[1] = Recipient[k.env]
                       /\ k.item \in Items /\ k.item.body = k.env
    /\ k.at \in {"acked", "confirmed"} => seenBy[Recipient[k.env]][k.env] > 0
    /\ k.at \in {"put", "ack", "acked"} /\ k.env \in DOMAIN ReplyTo
           => seenBy[Sender[k.env]][ReplyTo[k.env]] > 0

\* A future that is registered is that of a send() of its envelope.
AcksOK ==
    /\ acks \in [Envelopes -> Coroutines \cup {Nobody}]
    /\ \A e \in Envelopes : acks[e] \in Coroutines =>
          coro[acks[e]].env = e /\ coro[acks[e]].at # "free"

Putting(c, e) == coro[c].at = "put" /\ coro[c].env = e
Queued(l, i, e) == i \in 1..Len(queues[l]) /\ queues[l][i].body = e

\* One copy of an envelope for each agent, until it is opened.
OneCopy(e) ==
    /\ \A a \in Peers : seenBy[a][e] <= 1
    /\ e \notin marked => /\ \A a \in Peers : seenBy[a][e] = 0
                          /\ \A c \in Coroutines : ~Putting(c, e)
                          /\ \A l \in Lives : \A i \in Nat : ~Queued(l, i, e)
    /\ \A l, m \in Lives : \A i, j \in Nat :
          Queued(l, i, e) /\ Queued(m, j, e) /\ l[1] = m[1] => l = m /\ i = j
    /\ \A l \in Lives : \A i \in Nat : Queued(l, i, e) => seenBy[l[1]][e] = 0
    /\ \A l \in Lives : \A i \in Nat : \A c \in Coroutines :
          Queued(l, i, e) /\ Putting(c, e) => l[1] # Recipient[e]
    /\ \A c, d \in Coroutines : Putting(c, e) /\ Putting(d, e) => c = d
    /\ \A c \in Coroutines : Putting(c, e) => seenBy[Recipient[e]][e] = 0

Exact == {e \in Envelopes : Mode[e] = "exactly_once"}

DapInv ==
    /\ DapTypes /\ AcksOK
    /\ \A c \in Coroutines : CoroOK(coro[c])
    /\ \A e \in Exact : OneCopy(e)

LEMMA DapStart == DapInit => DapInv
<1> SUFFICES ASSUME DapInit PROVE DapInv
  OBVIOUS
<1>1. Free \in Coros /\ Free.at = "free"
  BY DEF Free, Coros, LifeKeys
<1>2. NoSession \in DapSessions
  BY DEF NoSession, DapSessions, LifeKeys, Entries
<1>3. DapTypes
  BY <1>1, <1>2, DapAssumption DEF DapInit, DapTypes
<1>4. AcksOK
  BY ReplyAssumption DEF DapInit, AcksOK, Nobody, Coroutines
<1>5. \A c \in Coroutines : CoroOK(coro[c])
  BY <1>1 DEF DapInit, CoroOK
<1>6. \A e \in Exact : OneCopy(e)
  <2>1. \A c \in Coroutines : coro[c].at = "free"
    BY <1>1 DEF DapInit
  <2>2. \A l \in Lives : Len(queues[l]) = 0
    BY DEF DapInit
  <2>3. \A a \in Peers, e \in Envelopes : seenBy[a][e] = 0
    BY DEF DapInit
  <2>4. \A l \in Lives : \A i \in Nat, e \in Envelopes : ~Queued(l, i, e)
    BY <2>2 DEF Queued
  <2> QED
    BY <2>1, <2>3, <2>4 DEF OneCopy, Exact, Putting
<1> QED
  BY <1>3, <1>4, <1>5, <1>6 DEF DapInv

-----------------------------------------------------------------------------
\* A step that opens nothing, queues nothing and makes no send() put anything.
LEMMA OneCopyStays ==
    ASSUME DapInv, UNCHANGED <<queues, seenBy>>, marked \subseteq marked',
           \A c \in Coroutines, e \in Envelopes : Putting(c, e)' => Putting(c, e)
    PROVE  \A e \in Exact : OneCopy(e)'
<1> SUFFICES ASSUME NEW e \in Exact PROVE OneCopy(e)'
  OBVIOUS
<1>1. OneCopy(e) /\ e \in Envelopes
  BY DEF DapInv, Exact
<1>2. \A l \in Lives : \A i \in Nat : Queued(l, i, e)' <=> Queued(l, i, e)
  BY DEF Queued
<1>3. \A c \in Coroutines : Putting(c, e)' => Putting(c, e)
  BY <1>1
<1>4. UNCHANGED seenBy /\ (e \notin marked' => e \notin marked)
  OBVIOUS
<1> HIDE DEF Queued, Putting
<1> QED
  BY <1>1, <1>2, <1>3, <1>4 DEF OneCopy

\* What send() returns with changes its own record, and that of a call that waits for
\* the envelope it acknowledges.
LEMMA CoroEnds ==
    ASSUME DapInv, NEW c \in Coroutines, NEW e \in Envelopes, NEW how \in SendEnds,
           how = "confirmed" => Recipient[e] \in Peers /\ seenBy[Recipient[e]][e] > 0
    PROVE  /\ Over(c, e, how) \in [Coroutines -> Coros]
           /\ Over(c, e, how)[c].at = how /\ Over(c, e, how)[c].env = e
           /\ \A d \in Coroutines \ {c} : Over(c, e, how)[d] = coro[d]
           /\ CoroOK(Over(c, e, how)[c])
<1>1. PICK k \in Coros : k = [Free EXCEPT !.at = how, !.env = e]
  BY DEF Free, Coros, LifeKeys
<1>2. k.at = how /\ k.env = e
  BY <1>1 DEF Free
<1>3. Over(c, e, how) = [coro EXCEPT ![c] = k]
  BY <1>1 DEF Over
<1>4. CoroOK(k)
  BY <1>2 DEF CoroOK, SendEnds
<1> QED
  BY <1>2, <1>3, <1>4 DEF DapInv, DapTypes

LEMMA AckKeeps ==
    ASSUME DapInv, NEW q \in Envelopes, NEW co \in [Coroutines -> Coros],
           \A d \in Coroutines : CoroOK(co[d]),
           acks[q] \in Coroutines => co[acks[q]].env = q,
           Recipient[q] \in Peers => seenBy[Recipient[q]][q] > 0
    PROVE  LET new == Acknowledged(q, co)
           IN  /\ new \in [Coroutines -> Coros]
               /\ \A d \in Coroutines : CoroOK(new[d]) /\ new[d].env = co[d].env
                                        /\ (new[d].at = "put" => co[d].at = "put")
                                        /\ (new[d].at = "free" <=> co[d].at = "free")
<1> DEFINE new == Acknowledged(q, co)
<1>1. ASSUME NEW d \in Coroutines
      PROVE  /\ new[d] \in Coros /\ CoroOK(new[d]) /\ new[d].env = co[d].env
             /\ new[d].at = "put" => co[d].at = "put"
             /\ new[d].at = "free" <=> co[d].at = "free"
  <2>1. CASE d = acks[q] /\ co[d].at = "ack"
    <3>1. PICK k \in Coros : k = [co[d] EXCEPT !.at = "acked"]
      BY DEF Coros
    <3>2. k.at = "acked" /\ k.env = co[d].env
      BY <3>1 DEF Coros
    <3>3. new[d] = k
      BY <2>1, <3>1 DEF Acknowledged
    <3>4. CoroOK(k)
      BY <2>1, <3>2 DEF CoroOK
    <3> QED
      BY <2>1, <3>2, <3>3, <3>4
  <2>2. CASE ~(d = acks[q] /\ co[d].at = "ack")
    <3>1. new[d] = co[d]
      BY <2>2 DEF Acknowledged
    <3> QED
      BY <3>1
  <2> QED
    BY <2>1, <2>2
<1>2. new = [d \in Coroutines |-> new[d]]
  BY DEF Acknowledged
<1> QED
  BY <1>1, <1>2

\* A send() ends, of which nobody waits for the end.
LEMMA OverKeeps ==
    ASSUME DapInv, NEW c \in Coroutines, NEW e \in Envelopes, NEW how \in SendEnds,
           how = "confirmed" => Recipient[e] \in Peers /\ seenBy[Recipient[e]][e] > 0,
           coro[c].at = "free" \/ coro[c].env = e
    PROVE  /\ Over(c, e, how) \in [Coroutines -> Coros]
           /\ \A d \in Coroutines : /\ CoroOK(Over(c, e, how)[d])
                                    /\ Over(c, e, how)[d].at = "put" =>
                                         d # c /\ Over(c, e, how)[d] = coro[d]
           /\ \A q \in Envelopes : acks[q] \in Coroutines =>
                 Over(c, e, how)[acks[q]].env = q /\ Over(c, e, how)[acks[q]].at # "free"
<1> DEFINE co == Over(c, e, how)
<1>1. /\ co \in [Coroutines -> Coros] /\ co[c].at = how /\ co[c].env = e
      /\ \A d \in Coroutines \ {c} : co[d] = coro[d]
      /\ CoroOK(co[c])
  BY CoroEnds
<1>2. how # "put" /\ how # "free"
  BY DEF SendEnds
<1> HIDE DEF co
<1>3. \A d \in Coroutines : CoroOK(co[d]) /\ (co[d].at = "put" => d # c /\ co[d] = coro[d])
  BY <1>1, <1>2 DEF DapInv
<1>4. \A q \in Envelopes : acks[q] \in Coroutines => co[acks[q]].env = q /\ co[acks[q]].at # "free"
  BY <1>1, <1>2 DEF DapInv, AcksOK
<1> QED
  BY <1>1, <1>3, <1>4 DEF co

\* A step after which no send() has more to put than before.
LEMMA EndStep ==
    ASSUME DapInv, coro' \in [Coroutines -> Coros],
           \A d \in Coroutines : CoroOK(coro'[d]),
           \A d \in Coroutines : coro'[d].at = "put" => coro'[d] = coro[d],
           AcksOK', marked \subseteq marked',
           UNCHANGED <<dapNow, life, there, queues, sessions, seenBy>>
    PROVE  DapInv'
<1>1. DapTypes'
  BY DEF DapInv, DapTypes
<1>2. \A d \in Coroutines : CoroOK(coro[d])'
  BY DEF CoroOK
<1>3. \A d \in Coroutines, e \in Envelopes : Putting(d, e)' => Putting(d, e)
  BY DEF Putting
<1>4. UNCHANGED <<queues, seenBy>>
  OBVIOUS
<1>5. \A e \in Exact : OneCopy(e)'
  BY <1>3, <1>4, OneCopyStays
<1> QED
  BY <1>1, <1>2, <1>5 DEF DapInv

\* send() returns, and send_result() acknowledges what was answered.
LEMMA ReturnsKeeps ==
    ASSUME DapInv, NEW c \in Coroutines, NEW e \in Envelopes, NEW how \in SendEnds,
           how = "confirmed" => Recipient[e] \in Peers /\ seenBy[Recipient[e]][e] > 0,
           coro[c].at = "free" \/ coro[c].env = e,
           e \in DOMAIN ReplyTo => seenBy[Sender[e]][ReplyTo[e]] > 0,
           Returns(c, e, how)
    PROVE  /\ coro' \in [Coroutines -> Coros] /\ AcksOK'
           /\ \A d \in Coroutines : CoroOK(coro'[d])
           /\ \A d \in Coroutines : coro'[d].at = "put" => d # c /\ coro'[d] = coro[d]
<1> DEFINE co == Over(c, e, how)
<1>1. /\ co \in [Coroutines -> Coros]
      /\ \A d \in Coroutines : CoroOK(co[d]) /\ (co[d].at = "put" => d # c /\ co[d] = coro[d])
      /\ \A q \in Envelopes : acks[q] \in Coroutines => co[acks[q]].env = q /\ co[acks[q]].at # "free"
  BY OverKeeps
<1>2. \A q \in Envelopes : acks'[q] \in Coroutines => acks'[q] = acks[q]
  BY ReplyAssumption DEF Returns, Nobody, Coroutines
<1>5. acks' \in [Envelopes -> Coroutines \cup {Nobody}]
  BY DEF Returns, DapInv, AcksOK
<1>3. CASE e \notin DOMAIN ReplyTo
  <2>1. coro' = co
    BY <1>3 DEF Returns
  <2> HIDE DEF co
  <2>2. AcksOK'
    BY <1>1, <1>2, <1>5, <2>1 DEF AcksOK
  <2> QED
    BY <1>1, <2>1, <2>2
<1>4. CASE e \in DOMAIN ReplyTo
  <2> DEFINE q == ReplyTo[e]
             new == Acknowledged(q, co)
  <2>1. coro' = new
    BY <1>4 DEF Returns
  <2>2. q \in Envelopes /\ Sender[e] = Recipient[q] /\ seenBy[Recipient[q]][q] > 0
    BY <1>4, ReplyAssumption
  <2> HIDE DEF co, q
  <2>3. \A d \in Coroutines : CoroOK(co[d])
    BY <1>1
  <2>4. acks[q] \in Coroutines => co[acks[q]].env = q
    BY <1>1, <2>2
  <2>5. /\ new \in [Coroutines -> Coros]
        /\ \A d \in Coroutines : CoroOK(new[d]) /\ new[d].env = co[d].env
                                 /\ (new[d].at = "put" => co[d].at = "put")
                                 /\ (new[d].at = "free" <=> co[d].at = "free")
    BY <1>1, <2>2, <2>3, <2>4, AckKeeps
  <2>6. \A d \in Coroutines : new[d].at = "put" => new[d] = co[d]
    BY DEF Acknowledged
  <2> HIDE DEF new
  <2>7. AcksOK'
    BY <1>1, <1>2, <1>5, <2>1, <2>5 DEF AcksOK
  <2> QED
    BY <1>1, <2>1, <2>5, <2>6, <2>7
<1> QED
  BY <1>3, <1>4

\* What a call that begins may rely on.
LEMMA Begins ==
    ASSUME NEW c, NEW e, Idle(c), MaySend(e)
    PROVE  coro[c].at = "free" /\ (e \in DOMAIN ReplyTo => seenBy[Sender[e]][ReplyTo[e]] > 0)
  BY DEF Idle, MaySend

LEMMA DropsStep ==
    ASSUME DapInv, NEW c \in Coroutines, NEW e \in Envelopes, Expire(c, e) \/ Lose(c, e)
    PROVE  DapInv'
<1>1. /\ Idle(c) /\ MaySend(e) /\ Returns(c, e, "dropped") /\ marked \subseteq marked'
      /\ UNCHANGED <<dapNow, life, there, queues, sessions, seenBy>>
  BY DEF Expire, Lose, Marked
<1>2. coro[c].at = "free" /\ (e \in DOMAIN ReplyTo => seenBy[Sender[e]][ReplyTo[e]] > 0)
  BY <1>1, Begins
<1>3. "dropped" \in SendEnds /\ "dropped" # "confirmed"
  BY DEF SendEnds
<1>4. /\ coro' \in [Coroutines -> Coros] /\ AcksOK'
      /\ \A d \in Coroutines : CoroOK(coro'[d])
      /\ \A d \in Coroutines : coro'[d].at = "put" => d # c /\ coro'[d] = coro[d]
  BY <1>1, <1>2, <1>3, ReturnsKeeps
<1> QED
  BY <1>1, <1>4, EndStep

LEMMA AckArrivesStep ==
    ASSUME DapInv, NEW c \in Coroutines, AckArrives(c)
    PROVE  DapInv'
<1>1. PICK e : e = coro[c].env
  OBVIOUS
<1>2. /\ coro[c].at = "acked" /\ Returns(c, e, "confirmed")
      /\ UNCHANGED <<dapNow, life, there, queues, sessions, seenBy, marked>>
  BY <1>1 DEF AckArrives
<1>3. CoroOK(coro[c])
  BY DEF DapInv
<1>4. /\ e \in Envelopes /\ Recipient[e] \in Peers /\ seenBy[Recipient[e]][e] > 0
      /\ (e \in DOMAIN ReplyTo => seenBy[Sender[e]][ReplyTo[e]] > 0)
  BY <1>1, <1>2, <1>3 DEF CoroOK
<1>5. "confirmed" \in SendEnds
  BY DEF SendEnds
<1>6. /\ coro' \in [Coroutines -> Coros] /\ AcksOK'
      /\ \A d \in Coroutines : CoroOK(coro'[d])
      /\ \A d \in Coroutines : coro'[d].at = "put" => d # c /\ coro'[d] = coro[d]
  BY <1>1, <1>2, <1>4, <1>5, ReturnsKeeps
<1> QED
  BY <1>2, <1>6, EndStep

LEMMA RaisesStep ==
    ASSUME DapInv, NEW c \in Coroutines,
           AckTimeout(c) \/ CancelSend(c) \/ (\E e \in Envelopes : Loop(c, e))
    PROVE  DapInv'
<1>1. PICK e \in Envelopes :
        /\ coro[c].at = "free" \/ coro[c].env = e
        /\ coro' = Over(c, e, "raised")
        /\ acks' = acks \/ acks' = [acks EXCEPT ![e] = Nobody]
  <2>1. CASE \E e \in Envelopes : Loop(c, e)
    BY <2>1 DEF Loop, Idle
  <2>2. CASE AckTimeout(c) \/ CancelSend(c)
    <3>1. coro[c].env \in Envelopes
      BY <2>2 DEF AckTimeout, CancelSend, DapInv, CoroOK
    <3> QED
      BY <2>2, <3>1 DEF AckTimeout, CancelSend
  <2> QED
    BY <2>1, <2>2
<1>2. UNCHANGED <<dapNow, life, there, queues, sessions, seenBy, marked>>
  BY DEF AckTimeout, CancelSend, Loop
<1>3. "raised" \in SendEnds /\ "raised" # "confirmed"
  BY DEF SendEnds
<1>4. /\ coro' \in [Coroutines -> Coros]
      /\ \A d \in Coroutines : CoroOK(coro'[d]) /\ (coro'[d].at = "put" => d # c /\ coro'[d] = coro[d])
      /\ \A q \in Envelopes : acks[q] \in Coroutines => coro'[acks[q]].env = q /\ coro'[acks[q]].at # "free"
  BY <1>1, <1>3, OverKeeps
<1>5. \A q \in Envelopes : acks'[q] \in Coroutines => acks'[q] = acks[q]
  <2>1. CASE acks' = acks
    BY <2>1
  <2>2. CASE acks' = [acks EXCEPT ![e] = Nobody]
    BY <2>2, ReplyAssumption DEF Nobody, Coroutines, DapInv, AcksOK
  <2> QED
    BY <1>1, <2>1, <2>2
<1>7. acks' \in [Envelopes -> Coroutines \cup {Nobody}]
  BY <1>1 DEF DapInv, AcksOK
<1>6. AcksOK'
  BY <1>4, <1>5, <1>7 DEF AcksOK
<1> QED
  BY <1>2, <1>4, <1>6, EndStep

LEMMA AcknowledgeReplyStep ==
    ASSUME DapInv, NEW e \in Envelopes, AcknowledgeReply(e)
    PROVE  DapInv'
<1>1. /\ coro' = Acknowledged(e, coro) /\ acks' = [acks EXCEPT ![e] = Nobody]
      /\ seenBy[Recipient[e]][e] > 0
      /\ UNCHANGED <<dapNow, life, there, queues, sessions, seenBy, marked>>
  BY DEF AcknowledgeReply
<1>2. coro \in [Coroutines -> Coros] /\ \A d \in Coroutines : CoroOK(coro[d])
  BY DEF DapInv, DapTypes
<1>3. acks[e] \in Coroutines => coro[acks[e]].env = e
  BY DEF DapInv, AcksOK
<1>4. /\ coro' \in [Coroutines -> Coros]
      /\ \A d \in Coroutines : CoroOK(coro'[d]) /\ coro'[d].env = coro[d].env
                               /\ (coro'[d].at = "put" => coro[d].at = "put")
                               /\ (coro'[d].at = "free" <=> coro[d].at = "free")
  BY <1>1, <1>2, <1>3, AckKeeps
<1>5. \A d \in Coroutines : coro'[d].at = "put" => coro'[d] = coro[d]
  BY <1>1 DEF Acknowledged
<1>6. \A q \in Envelopes : acks'[q] \in Coroutines => acks'[q] = acks[q]
  BY <1>1, ReplyAssumption DEF Nobody, Coroutines, DapInv, AcksOK
<1>7. AcksOK'
  <2>1. acks' \in [Envelopes -> Coroutines \cup {Nobody}]
    BY <1>1 DEF DapInv, AcksOK
  <2> QED
    BY <1>4, <1>6, <2>1 DEF DapInv, AcksOK
<1> QED
  BY <1>1, <1>4, <1>5, <1>7, EndStep

\* The registration an agent has is one of those that are kept.
LEMMA BoxOK ==
    ASSUME DapInv, NEW a \in there
    PROVE  Box(a) \in Lives /\ Box(a)[1] = a
  BY DapAssumption DEF DapInv, DapTypes, Box, Lives

LEMMA NumberedOK ==
    ASSUME NEW s \in DapSessions
    PROVE  Numbered(s) \in DapSessions
<1>1. s.seq + 1 \in Nat
  BY DEF DapSessions
<1> QED
  BY <1>1 DEF DapSessions, Numbered

LEMMA SealedOK ==
    ASSUME DapInv, NEW l \in Lives, NEW e \in Envelopes
    PROVE  Sealed(sessions[l], dapNow, e) \in Items /\ Sealed(sessions[l], dapNow, e).body = e
  BY DEF DapInv, DapTypes, Sealed, Items, DapSessions

LEMMA RegisterStep ==
    ASSUME DapInv, NEW a \in Peers, Register(a) \/ Deregister(a)
    PROVE  DapInv'
<1>1. UNCHANGED <<dapNow, queues, hops, coro, acks, marked, seenBy>>
  BY DEF Register, Deregister
<1>2. /\ life' \in [Peers -> Nat] /\ \A b \in Peers : life'[b] <= MaxLives
      /\ there' \subseteq Peers /\ \A b \in there' : life'[b] > 0
  <2>1. CASE Register(a)
    <3>1. life' = [life EXCEPT ![a] = life[a] + 1] /\ there' = there \cup {a}
          /\ life[a] + 1 \in Nat /\ life[a] + 1 <= MaxLives
      BY <2>1, DapAssumption DEF Register, DapInv, DapTypes
    <3> QED
      BY <3>1 DEF DapInv, DapTypes
  <2>2. CASE Deregister(a)
    BY <2>2 DEF Deregister, DapInv, DapTypes
  <2> QED
    BY <2>1, <2>2
<1>3. sessions' \in [Lives -> DapSessions]
  <2>1. CASE Register(a)
    <3>1. <<a, life[a] + 1>> \in Lives
      BY <2>1, DapAssumption DEF Register, DapInv, DapTypes, Lives
    <3>2. NewSession(<<a, life[a] + 1>>) \in DapSessions
      BY <3>1 DEF NewSession, DapSessions, LifeKeys, Entries
    <3> QED
      BY <2>1, <3>1, <3>2 DEF Register, DapInv, DapTypes
  <2>2. CASE Deregister(a)
    BY <2>2 DEF Deregister, DapInv, DapTypes
  <2> QED
    BY <2>1, <2>2
<1>4. DapTypes'
  BY <1>1, <1>2, <1>3 DEF DapInv, DapTypes
<1>5. AcksOK' /\ \A c \in Coroutines : CoroOK(coro[c])'
  BY <1>1 DEF DapInv, AcksOK, CoroOK
<1>6. \A c \in Coroutines, e \in Envelopes : Putting(c, e)' => Putting(c, e)
  BY <1>1 DEF Putting
<1>7. \A e \in Exact : OneCopy(e)'
  BY <1>1, <1>6, OneCopyStays
<1> QED
  BY <1>4, <1>5, <1>7 DEF DapInv

LEMMA DapTickStep == DapInv /\ DapTick => DapInv'
<1> SUFFICES ASSUME DapInv, DapTick PROVE DapInv'
  OBVIOUS
<1>1. dapNow' = dapNow + 1
      /\ UNCHANGED <<life, there, queues, sessions, hops, coro, acks, marked, seenBy>>
  BY DEF DapTick
<1>2. DapTypes'
  BY <1>1 DEF DapInv, DapTypes
<1>3. AcksOK' /\ \A c \in Coroutines : CoroOK(coro[c])'
  BY <1>1 DEF DapInv, AcksOK, CoroOK
<1>4. \A c \in Coroutines, e \in Envelopes : Putting(c, e)' => Putting(c, e)
  BY <1>1 DEF Putting
<1>5. \A e \in Exact : OneCopy(e)'
  BY <1>1, <1>4, OneCopyStays
<1> QED
  BY <1>2, <1>3, <1>5 DEF DapInv

LEMMA UnicastStep ==
    ASSUME DapInv, NEW c \in Coroutines, NEW e \in Envelopes, Recipient[e] # Everybody,
           Unicast(c, e)
    PROVE  DapInv'
<1> DEFINE l == Box(Recipient[e])
           item == Sealed(sessions[l], dapNow, e)
<1>1. /\ Idle(c) /\ MaySend(e) /\ ~Duplicate(e) /\ Recipient[e] \in there
      /\ marked' = Marked(e)
      /\ sessions' = [sessions EXCEPT ![l] = Numbered(sessions[l])]
      /\ coro' = [coro EXCEPT ![c] = [at |-> "put", env |-> e, box |-> l, item |-> item]]
      /\ UNCHANGED <<dapNow, life, there, queues, acks, seenBy>>
  BY DEF Unicast
<1>2. coro[c].at = "free" /\ (e \in DOMAIN ReplyTo => seenBy[Sender[e]][ReplyTo[e]] > 0)
  BY <1>1, Begins
<1>3. l \in Lives /\ l[1] = Recipient[e] /\ Recipient[e] \in Peers
  BY <1>1, BoxOK DEF DapInv, DapTypes
<1> HIDE DEF l
<1>4. item \in Items /\ item.body = e
  BY <1>3, SealedOK
<1>5. PICK k \in Coros : k = [at |-> "put", env |-> e, box |-> l, item |-> item]
  BY <1>3, <1>4 DEF Coros, LifeKeys
<1>6. k.at = "put" /\ k.env = e /\ k.box = l /\ k.item = item
  BY <1>5
<1> HIDE DEF item
<1>7. /\ coro' \in [Coroutines -> Coros] /\ coro'[c] = k
      /\ \A d \in Coroutines \ {c} : coro'[d] = coro[d]
  BY <1>1, <1>5 DEF DapInv, DapTypes
<1>8. sessions' \in [Lives -> DapSessions]
  BY <1>1, <1>3, NumberedOK DEF DapInv, DapTypes
<1>9. DapTypes'
  BY <1>1, <1>7, <1>8 DEF DapInv, DapTypes
<1>10. AcksOK'
  BY <1>1, <1>2, <1>6, <1>7 DEF DapInv, AcksOK
<1>11. \A d \in Coroutines : CoroOK(coro[d])'
  <2>1. CoroOK(k)
    BY <1>2, <1>3, <1>4, <1>6 DEF CoroOK
  <2> QED
    BY <1>1, <1>7, <2>1 DEF DapInv, CoroOK
<1>12. ASSUME NEW x \in Exact PROVE OneCopy(x)'
  <2>1. OneCopy(x) /\ x \in Envelopes /\ Mode[x] = "exactly_once"
    BY DEF DapInv, Exact
  <2>2. \A m \in Lives : \A i \in Nat : Queued(m, i, x)' <=> Queued(m, i, x)
    BY <1>1 DEF Queued
  <2>3. \A d \in Coroutines : Putting(d, x)' <=> IF d = c THEN x = e ELSE Putting(d, x)
    BY <1>6, <1>7 DEF Putting
  <2>4. CASE x = e
    <3>1. e \notin marked /\ e \in marked'
      BY <1>1, <2>1, <2>4 DEF Duplicate, Marked
    <3> HIDE DEF Queued, Putting
    <3> QED
      BY <1>1, <1>3, <2>1, <2>2, <2>3, <2>4, <3>1 DEF OneCopy
  <2>5. CASE x # e
    <3>1. \A d \in Coroutines : Putting(d, x)' => Putting(d, x)
      BY <1>2, <2>3, <2>5
    <3>2. x \notin marked' => x \notin marked
      BY <1>1 DEF Marked
    <3> HIDE DEF Queued, Putting
    <3> QED
      BY <1>1, <2>1, <2>2, <3>1, <3>2 DEF OneCopy
  <2> QED
    BY <2>4, <2>5
<1> QED
  BY <1>9, <1>10, <1>11, <1>12 DEF DapInv

\* An item is put at the end of a queue by each of the calls' items at most once.
LEMMA AppendQueued ==
    ASSUME NEW q \in Seq(Items), NEW item \in Items
    PROVE  /\ Append(q, item) \in Seq(Items) /\ Len(q) \in Nat
           /\ \A i \in Nat, x \in Envelopes :
                 i \in 1..Len(Append(q, item)) /\ Append(q, item)[i].body = x <=>
                     \/ i \in 1..Len(q) /\ q[i].body = x
                     \/ i = Len(q) + 1 /\ item.body = x
<1>1. /\ Append(q, item) \in Seq(Items) /\ Len(q) \in Nat /\ Len(Append(q, item)) = Len(q) + 1
      /\ \A i \in 1..Len(q) : Append(q, item)[i] = q[i]
      /\ Append(q, item)[Len(q) + 1] = item
  OBVIOUS
<1>2. \A i \in Nat : i \in 1..(Len(q) + 1) <=> i \in 1..Len(q) \/ i = Len(q) + 1
  BY <1>1
<1>3. Len(q) + 1 \notin 1..Len(q)
  BY <1>1
<1> QED
  BY <1>1, <1>2, <1>3

LEMMA PutStep ==
    ASSUME DapInv, NEW c \in Coroutines, Put(c)
    PROVE  DapInv'
<1>1. PICK k \in Coros : k = coro[c]
  BY DEF DapInv, DapTypes
<1>2. PICK e : e = k.env
  OBVIOUS
<1>3. k.at = "put" /\ CoroOK(k)
  BY <1>1 DEF Put, DapInv
<1>4. /\ e \in Envelopes /\ Recipient[e] \in Peers /\ k.box \in Lives /\ k.box[1] = Recipient[e]
      /\ k.item \in Items /\ k.item.body = e
      /\ (e \in DOMAIN ReplyTo => seenBy[Sender[e]][ReplyTo[e]] > 0)
  BY <1>2, <1>3 DEF CoroOK
<1>5. PICK l \in Lives, item \in Items : l = k.box /\ item = k.item
  BY <1>4
<1>6. /\ queues' = [queues EXCEPT ![l] = Append(queues[l], item)]
      /\ UNCHANGED <<dapNow, life, there, sessions, marked, seenBy>>
  BY <1>1, <1>5 DEF Put
<1>7. /\ coro' \in [Coroutines -> Coros] /\ AcksOK'
      /\ \A d \in Coroutines : CoroOK(coro'[d])
      /\ \A d \in Coroutines : coro'[d].at = "put" => d # c /\ coro'[d] = coro[d]
  <2>1. CASE Mode[e] = "at_least_once"
    <3>1. acks' = [acks EXCEPT ![e] = c] /\ coro' = [coro EXCEPT ![c].at = "ack"]
      BY <1>1, <1>2, <2>1 DEF Put
    <3>2. PICK r \in Coros : r = [k EXCEPT !.at = "ack"]
      BY DEF Coros
    <3>3. r.at = "ack" /\ r.env = e
      BY <1>2, <3>2 DEF Coros
    <3>4. CoroOK(r)
      BY <1>4, <3>3 DEF CoroOK
    <3>5. coro' = [coro EXCEPT ![c] = r]
      BY <1>1, <3>1, <3>2
    <3>6. /\ coro' \in [Coroutines -> Coros] /\ coro'[c] = r
          /\ \A d \in Coroutines \ {c} : coro'[d] = coro[d]
      BY <3>5 DEF DapInv, DapTypes
    <3>7. AcksOK'
      <4>1. acks' \in [Envelopes -> Coroutines \cup {Nobody}]
        BY <3>1 DEF DapInv, AcksOK
      <4>2. acks'[e] = c /\ \A x \in Envelopes \ {e} : acks'[x] = acks[x]
        BY <1>4, <3>1 DEF DapInv, AcksOK
      <4>3. \A x \in Envelopes : acks[x] = c => x = e
        BY <1>1, <1>2 DEF DapInv, AcksOK
      <4> QED
        BY <3>3, <3>6, <4>1, <4>2, <4>3 DEF DapInv, AcksOK
    <3> QED
      BY <3>3, <3>4, <3>6, <3>7 DEF DapInv
  <2>2. CASE Mode[e] # "at_least_once"
    <3>1. Returns(c, e, "sent")
      BY <1>1, <1>2, <2>2 DEF Put
    <3>2. "sent" \in SendEnds /\ "sent" # "confirmed" /\ coro[c].env = e
      BY <1>1, <1>2 DEF SendEnds
    <3> QED
      BY <1>4, <3>1, <3>2, ReturnsKeeps
  <2> QED
    BY <2>1, <2>2
<1>8. queues[l] \in Seq(Items)
  BY DEF DapInv, DapTypes
<1>9. /\ queues' \in [Lives -> Seq(Items)] /\ queues'[l] = Append(queues[l], item)
      /\ \A m \in Lives \ {l} : queues'[m] = queues[m]
  BY <1>6, <1>8, AppendQueued DEF DapInv, DapTypes
<1>10. DapTypes'
  BY <1>6, <1>7, <1>9 DEF DapInv, DapTypes
<1>11. \A d \in Coroutines : CoroOK(coro[d])'
  BY <1>6, <1>7 DEF CoroOK
<1>12. ASSUME NEW x \in Exact PROVE OneCopy(x)'
  <2>1. OneCopy(x) /\ x \in Envelopes
    BY DEF DapInv, Exact
  <2>2. \A m \in Lives : \A i \in Nat :
          Queued(m, i, x)' <=> Queued(m, i, x) \/ (m = l /\ i = Len(queues[l]) + 1 /\ e = x)
    <3>1. \A i \in Nat : Queued(l, i, x)' <=> Queued(l, i, x) \/ (i = Len(queues[l]) + 1 /\ e = x)
      BY <1>4, <1>5, <1>8, <1>9, <2>1, AppendQueued DEF Queued
    <3>2. \A m \in Lives \ {l} : \A i \in Nat : Queued(m, i, x)' <=> Queued(m, i, x)
      BY <1>9 DEF Queued
    <3> QED
      BY <3>1, <3>2
  <2>3. \A d \in Coroutines : Putting(d, x)' => Putting(d, x) /\ d # c
    BY <1>7 DEF Putting
  <2>4. Putting(c, e)
    BY <1>1, <1>2, <1>3 DEF Putting
  <2>5. marked' = marked /\ seenBy' = seenBy
    BY <1>6
  <2>6. l[1] = Recipient[e] /\ Recipient[e] \in Peers
    BY <1>4, <1>5
  <2> HIDE DEF Queued, Putting
  <2>7. CASE x = e
    BY <2>1, <2>2, <2>3, <2>4, <2>5, <2>6, <2>7 DEF OneCopy
  <2>8. CASE x # e
    BY <2>1, <2>2, <2>3, <2>5, <2>8 DEF OneCopy
  <2> QED
    BY <2>7, <2>8
<1> QED
  BY <1>7, <1>10, <1>11, <1>12 DEF DapInv

LEMMA BroadcastStep ==
    ASSUME DapInv, NEW c \in Coroutines, NEW e \in Envelopes, Broadcast(c, e)
    PROVE  DapInv'
<1> DEFINE to == {l \in Lives : l[1] \in there \ {Sender[e]} /\ l = Box(l[1])}
           gets(l) == ~Duplicate(e) /\ l \in to /\ ~IsFull(l)
           item(l) == Sealed(sessions[l], dapNow, e)
<1>1. /\ Idle(c) /\ MaySend(e) /\ Returns(c, e, "sent") /\ marked' = Marked(e)
      /\ UNCHANGED <<dapNow, life, there, seenBy>>
  BY DEF Broadcast
<1>2. coro[c].at = "free" /\ (e \in DOMAIN ReplyTo => seenBy[Sender[e]][ReplyTo[e]] > 0)
  BY <1>1, Begins
<1>3. "sent" \in SendEnds /\ "sent" # "confirmed"
  BY DEF SendEnds
<1>4. /\ coro' \in [Coroutines -> Coros] /\ AcksOK'
      /\ \A d \in Coroutines : CoroOK(coro'[d])
      /\ \A d \in Coroutines : coro'[d].at = "put" => d # c /\ coro'[d] = coro[d]
  BY <1>1, <1>2, <1>3, ReturnsKeeps
<1>5. /\ queues \in [Lives -> Seq(Items)] /\ sessions \in [Lives -> DapSessions]
      /\ \A l \in Lives : item(l) \in Items /\ item(l).body = e
  BY SealedOK DEF DapInv, DapTypes
<1>6. sessions' \in [Lives -> DapSessions]
  BY <1>5, NumberedOK DEF Broadcast
<1>7. /\ queues' = IF Duplicate(e) THEN queues
                   ELSE [l \in Lives |-> IF gets(l) THEN Append(queues[l], item(l)) ELSE queues[l]]
  BY DEF Broadcast
<1>8. \A l, m \in to : l[1] = m[1] => l = m
  OBVIOUS
<1> HIDE DEF item
<1>9. /\ queues' \in [Lives -> Seq(Items)]
      /\ \A l \in Lives : queues'[l] = IF gets(l) THEN Append(queues[l], item(l)) ELSE queues[l]
  BY <1>5, <1>7, AppendQueued
<1>10. DapTypes'
  BY <1>1, <1>4, <1>6, <1>9 DEF DapInv, DapTypes
<1>11. \A d \in Coroutines : CoroOK(coro[d])'
  BY <1>1, <1>4 DEF CoroOK
<1>12. ASSUME NEW x \in Exact PROVE OneCopy(x)'
  <2>1. OneCopy(x) /\ x \in Envelopes /\ Mode[x] = "exactly_once"
    BY DEF DapInv, Exact
  <2>2. ASSUME NEW m \in Lives, NEW i \in Nat
        PROVE  Queued(m, i, x)' <=> Queued(m, i, x) \/ (gets(m) /\ i = Len(queues[m]) + 1 /\ e = x)
    <3>1. queues[m] \in Seq(Items) /\ item(m) \in Items /\ item(m).body = e
      BY <1>5
    <3>2. CASE gets(m)
      <4>1. queues'[m] = Append(queues[m], item(m))
        BY <1>9, <3>2
      <4> QED
        BY <2>1, <3>1, <3>2, <4>1, AppendQueued DEF Queued
    <3>3. CASE ~gets(m)
      BY <1>9, <3>3 DEF Queued
    <3> QED
      BY <3>2, <3>3
  <2>3. \A d \in Coroutines : Putting(d, x)' => Putting(d, x)
    BY <1>4 DEF Putting
  <2>4. seenBy' = seenBy /\ marked \subseteq marked' /\ (x = e => x \in marked')
    BY <1>1, <2>1 DEF Marked
  <2>5. x = e => x \notin marked \/ \A m \in Lives : ~gets(m)
    BY <2>1 DEF Duplicate
  <2>6. \A l, m \in Lives : gets(l) /\ gets(m) /\ l[1] = m[1] => l = m
    BY <1>8
  <2>7. \A l \in Lives : l[1] \in Peers
    BY DEF Lives
  <2> HIDE DEF Queued, Putting, gets, to
  <2>8. CASE x = e /\ x \notin marked
    BY <2>1, <2>2, <2>3, <2>4, <2>6, <2>7, <2>8 DEF OneCopy
  <2>9. CASE x # e \/ x \in marked
    <3>1. \A m \in Lives : \A i \in Nat : Queued(m, i, x)' <=> Queued(m, i, x)
      BY <2>2, <2>5, <2>9
    <3> QED
      BY <2>1, <2>3, <2>4, <3>1 DEF OneCopy
  <2> QED
    BY <2>8, <2>9
<1> QED
  BY <1>4, <1>10, <1>11, <1>12 DEF DapInv

LEMMA ReceiveStep ==
    ASSUME DapInv, NEW a \in Peers, Receive(a)
    PROVE  DapInv'
<1>1. PICK l \in Lives : l = Box(a) /\ l[1] = a
  BY BoxOK DEF Receive
<1>2. /\ queues[l] # << >> /\ queues[l] \in Seq(Items)
      /\ queues' = [queues EXCEPT ![l] = Tail(queues[l])]
      /\ UNCHANGED <<dapNow, life, there, coro, acks, marked>>
  BY <1>1 DEF Receive, DapInv, DapTypes
<1>3. PICK f \in Items : f = Head(queues[l]) /\ f = queues[l][1]
  BY <1>2
<1>4. /\ Len(queues[l]) \in Nat /\ Len(queues[l]) >= 1 /\ Tail(queues[l]) \in Seq(Items)
      /\ Len(Tail(queues[l])) = Len(queues[l]) - 1
      /\ \A i \in 1..(Len(queues[l]) - 1) : Tail(queues[l])[i] = queues[l][i + 1]
  BY <1>2
<1>5. /\ queues' \in [Lives -> Seq(Items)] /\ queues'[l] = Tail(queues[l])
      /\ \A m \in Lives \ {l} : queues'[m] = queues[m]
  BY <1>2, <1>4 DEF DapInv, DapTypes
<1>6. PICK b \in Envelopes : b = f.body
  BY DEF Items
<1>7. \/ UNCHANGED <<sessions, seenBy>>
      \/ /\ sessions' = [sessions EXCEPT ![l] = Received(sessions[l], f, dapNow)]
         /\ seenBy' = [seenBy EXCEPT ![a][b] = seenBy[a][b] + 1]
  BY <1>1, <1>3, <1>6 DEF Receive
<1>8. sessions' \in [Lives -> DapSessions]
  <2>1. [seq |-> f.seq, ts |-> f.ts] \in Entries
    BY DEF Items, Entries
  <2>2. sessions[l] \in DapSessions
    BY DEF DapInv, DapTypes
  <2>3. Kept(sessions[l].seen, dapNow) \cup {[seq |-> f.seq, ts |-> f.ts]} \in SUBSET Entries
    BY <2>1, <2>2 DEF Kept, DapSessions
  <2>4. Received(sessions[l], f, dapNow) \in DapSessions
    BY <2>2, <2>3 DEF Received, DapSessions
  <2> QED
    BY <1>7, <2>4 DEF DapInv, DapTypes
<1>9. /\ seenBy' \in [Peers -> [Envelopes -> Nat]]
      /\ \A p \in Peers, e \in Envelopes :
            \/ seenBy'[p][e] = seenBy[p][e]
            \/ p = a /\ e = b /\ seenBy'[p][e] = seenBy[p][e] + 1
  <2>1. CASE UNCHANGED <<sessions, seenBy>>
    BY <2>1 DEF DapInv, DapTypes
  <2>2. CASE seenBy' = [seenBy EXCEPT ![a][b] = seenBy[a][b] + 1]
    <3>1. seenBy[a][b] + 1 \in Nat
      BY DEF DapInv, DapTypes
    <3> QED
      BY <2>2, <3>1 DEF DapInv, DapTypes
  <2> QED
    BY <1>7, <2>1, <2>2
<1>10. DapTypes'
  BY <1>2, <1>5, <1>8, <1>9 DEF DapInv, DapTypes
<1>11. AcksOK'
  BY <1>2 DEF DapInv, AcksOK
<1>12. ASSUME NEW d \in Coroutines PROVE CoroOK(coro[d])'
  <2>1. coro[d] \in Coros /\ coro'[d] = coro[d] /\ CoroOK(coro[d])
    BY <1>2 DEF DapInv, DapTypes
  <2>2. \A p \in Peers, e \in Envelopes : seenBy[p][e] > 0 => seenBy'[p][e] > 0
    <3>1. \A p \in Peers, e \in Envelopes : seenBy[p][e] \in Nat
      BY DEF DapInv, DapTypes
    <3> QED
      BY <1>9, <3>1
  <2>3. \A e \in DOMAIN ReplyTo : e \in Envelopes /\ ReplyTo[e] \in Envelopes /\ Sender[e] \in Peers
    BY DapAssumption, ReplyAssumption
  <2> QED
    BY <2>1, <2>2, <2>3 DEF CoroOK
<1>13. ASSUME NEW x \in Exact PROVE OneCopy(x)'
  <2>1. OneCopy(x) /\ x \in Envelopes
    BY DEF DapInv, Exact
  <2>2. \A i \in Nat : Queued(l, i, x)' => i + 1 \in Nat /\ Queued(l, i + 1, x) /\ i + 1 # 1
    BY <1>4, <1>5 DEF Queued
  <2>3. \A m \in Lives \ {l} : \A i \in Nat : Queued(m, i, x)' => Queued(m, i, x)
    BY <1>5 DEF Queued
  <2>4. x = b => Queued(l, 1, x)
    BY <1>3, <1>4, <1>6 DEF Queued
  <2>5. \A c \in Coroutines : Putting(c, x)' <=> Putting(c, x)
    BY <1>2 DEF Putting
  <2>6. marked' = marked
    BY <1>2
  <2>7. \A p \in Peers : seenBy[p][x] \in Nat /\
            (seenBy'[p][x] = seenBy[p][x] \/ (p = a /\ x = b /\ seenBy'[p][x] = seenBy[p][x] + 1))
    BY <1>9, <2>1 DEF DapInv, DapTypes
  <2>8. \A m \in Lives : m[1] \in Peers
    BY DEF Lives
  <2> HIDE DEF Queued, Putting
  <2>9. CASE x = b
    <3>1. \A m \in Lives : \A i \in Nat : Queued(m, i, x)' => m[1] # a
      BY <1>1, <2>1, <2>2, <2>3, <2>4, <2>9 DEF OneCopy
    <3>2. \A m \in Lives : \A i \in Nat : Queued(m, i, x)' => m # l /\ Queued(m, i, x)
      BY <1>1, <2>3, <3>1
    <3>3. seenBy[a][x] = 0 /\ x \in marked
      BY <1>1, <2>1, <2>4, <2>9 DEF OneCopy
    <3>4. \A c \in Coroutines : Putting(c, x) => Recipient[x] # a
      BY <1>1, <2>1, <2>4, <2>9 DEF OneCopy
    <3>5. \A c \in Coroutines : Putting(c, x) => Recipient[x] \in Peers
      BY DEF Putting, DapInv, CoroOK
    <3> QED
      BY <2>1, <2>5, <2>6, <2>7, <2>8, <3>1, <3>2, <3>3, <3>4, <3>5 DEF OneCopy
  <2>10. CASE x # b
    <3>1. \A p \in Peers : seenBy'[p][x] = seenBy[p][x]
      BY <2>7, <2>10
    <3>2. \A c \in Coroutines : Putting(c, x) => Recipient[x] \in Peers
      BY DEF Putting, DapInv, CoroOK
    <3>3. \A m \in Lives : \A i \in Nat : Queued(m, i, x)' =>
             \E j \in Nat : Queued(m, j, x) /\ j = IF m = l THEN i + 1 ELSE i
      BY <2>2, <2>3
    <3> QED
      BY <2>1, <2>5, <2>6, <2>8, <3>1, <3>2, <3>3 DEF OneCopy
  <2> QED
    BY <2>9, <2>10
<1> QED
  BY <1>10, <1>11, <1>12, <1>13 DEF DapInv

LEMMA DapSteps == DapInv /\ [DapNext]_dapVars => DapInv'
<1> SUFFICES ASSUME DapInv, [DapNext]_dapVars PROVE DapInv'
  OBVIOUS
<1>1. CASE UNCHANGED dapVars
  <2>1. UNCHANGED <<dapNow, life, there, queues, sessions, hops, coro, acks, marked, seenBy>>
    BY <1>1 DEF dapVars
  <2>2. DapTypes' /\ AcksOK' /\ \A c \in Coroutines : CoroOK(coro[c])'
    BY <2>1 DEF DapInv, DapTypes, AcksOK, CoroOK
  <2>3. \A c \in Coroutines, e \in Envelopes : Putting(c, e)' => Putting(c, e)
    BY <2>1 DEF Putting
  <2>4. \A e \in Exact : OneCopy(e)'
    BY <2>1, <2>3, OneCopyStays
  <2> QED
    BY <2>2, <2>4 DEF DapInv
<1>2. ASSUME NEW a \in Peers, Register(a) \/ Deregister(a) \/ Receive(a) PROVE DapInv'
  BY <1>2, RegisterStep, ReceiveStep
<1>3. ASSUME NEW c \in Coroutines, NEW e \in Envelopes,
             \/ Expire(c, e) \/ Loop(c, e) \/ Lose(c, e) \/ Broadcast(c, e)
             \/ (Recipient[e] # Everybody /\ Unicast(c, e))
      PROVE  DapInv'
  BY <1>3, DropsStep, RaisesStep, BroadcastStep, UnicastStep
<1>4. ASSUME NEW c \in Coroutines, Put(c) \/ AckTimeout(c) \/ CancelSend(c) \/ AckArrives(c)
      PROVE  DapInv'
  BY <1>4, PutStep, RaisesStep, AckArrivesStep
<1>5. ASSUME NEW e \in Envelopes, AcknowledgeReply(e) PROVE DapInv'
  BY <1>5, AcknowledgeReplyStep
<1>6. CASE DapTick
  BY <1>6, DapTickStep
<1> QED
  BY <1>1, <1>2, <1>3, <1>4, <1>5, <1>6 DEF DapNext

\* An agent opens an exactly-once message at most once, and what was acknowledged was
\* opened, for any agents, envelopes and callers, however often a message is sent again
\* and however agents come and go.
THEOREM DeliveriesAlways == DapSpec => [](OpenedOnce /\ ConfirmedWasOpened)
<1>1. DapInit => DapInv
  BY DapStart
<1>2. DapInv /\ [DapNext]_dapVars => DapInv'
  BY DapSteps
<1>3. DapInv => OpenedOnce /\ ConfirmedWasOpened
  BY DEF DapInv, OpenedOnce, ConfirmedWasOpened, OneCopy, Exact, CoroOK
<1> QED
  BY <1>1, <1>2, <1>3, PTL DEF DapSpec

\* The two protocols together, as the run of the front end checks them.
THEOREM ProtocolsAlways == StpSpec /\ DapSpec => []ProtocolsSound
<1>1. FrameOnce /\ OpenedOnce /\ ConfirmedWasOpened => ProtocolsSound
  BY DEF ProtocolsSound
<1> QED
  BY <1>1, FrameOnceAlways, DeliveriesAlways, PTL
=============================================================================
