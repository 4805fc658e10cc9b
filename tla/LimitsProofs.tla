---------------------------- MODULE LimitsProofs ----------------------------
(***************************************************************************)
(* Theorems about what must stay within its limits.  First the calls that  *)
(* are let through to a provider (Limiter, LimiterRate), for any finite    *)
(* set of callers, any number of slots and any bucket sizes and rates.     *)
(* Then what users and the gateway leave behind (Knowledge, Ledger):       *)
(* memories, ratings, documents, the ledger of usage, the audit log and    *)
(* backups, each for every value of its limits.                            *)
(***************************************************************************)
EXTENDS LimiterRate, Ledger, FiniteSetTheorems, SequenceTheorems, WellFoundedInduction, TLAPS

-----------------------------------------------------------------------------
\* The buckets' arithmetic.

Level == {lv \in [Buckets -> Int] : \A k \in Buckets : lv[k] <= Capacity[k]}

\* A caller is charged something between nothing and a full bucket.
LEMMA ChargeOK ==
    ASSUME NEW cost \in Nat
    PROVE  /\ Charge(cost) \in [Buckets -> Nat]
           /\ \A k \in Buckets : Charge(cost)[k] <= Capacity[k]
BY LimiterAssumption DEF Charge, Least, Buckets

\* A reservation only lowers the buckets.
LEMMA ReservedOK ==
    ASSUME NEW lv \in Level, NEW cost \in Nat
    PROVE  Reserved(lv, cost) \in Level
BY ChargeOK, LimiterAssumption DEF Reserved, Level

\* A refund leaves the buckets within their size, never lowers one, and undoes
\* a reservation made in the same step exactly.
LEMMA RefundedOK ==
    ASSUME NEW lv \in Level, NEW cost \in Nat
    PROVE  /\ Refunded(lv, cost) \in Level
           /\ \A k \in Buckets : Refunded(lv, cost)[k] >= lv[k]
           /\ Refunded(Reserved(lv, cost), cost) = lv
<1> DEFINE ch == Charge(cost)
<1>1. ch \in [Buckets -> Nat] /\ \A k \in Buckets : ch[k] <= Capacity[k]
  BY ChargeOK
<1> HIDE DEF ch
<1>2. lv \in [Buckets -> Int] /\ \A k \in Buckets : lv[k] <= Capacity[k] /\ Capacity[k] \in Int
  BY LimiterAssumption DEF Level
<1>3. /\ Refunded(lv, cost) = [k \in Buckets |-> Least(Capacity[k], lv[k] + ch[k])]
      /\ Refunded(Reserved(lv, cost), cost)
            = [k \in Buckets |-> Least(Capacity[k], (lv[k] - ch[k]) + ch[k])]
  BY DEF Refunded, Reserved, ch
<1>4. ASSUME NEW k \in Buckets
      PROVE  /\ Least(Capacity[k], lv[k] + ch[k]) \in Int
             /\ Least(Capacity[k], lv[k] + ch[k]) <= Capacity[k]
             /\ Least(Capacity[k], lv[k] + ch[k]) >= lv[k]
             /\ Least(Capacity[k], (lv[k] - ch[k]) + ch[k]) = lv[k]
  BY <1>1, <1>2 DEF Least
<1>5. /\ Refunded(lv, cost) \in Level
      /\ \A k \in Buckets : Refunded(lv, cost)[k] >= lv[k]
  BY <1>3, <1>4 DEF Level
<1>6. Refunded(Reserved(lv, cost), cost) = lv
  BY <1>2, <1>3, <1>4
<1> QED
  BY <1>5, <1>6

\* Time fills the buckets up and never past the brim.
LEMMA RefilledOK ==
    ASSUME NEW lv \in Level
    PROVE  /\ Refilled(lv) \in Level
           /\ \A k \in Buckets : Refilled(lv)[k] >= lv[k]
BY LimiterAssumption DEF Refilled, Least, Level

\* A wait is a number of ticks.
LEMMA WaitOK ==
    ASSUME NEW lv \in Level
    PROVE  Wait(lv) \in Nat
<1>1. ASSUME NEW d \in Int, NEW r \in Nat \ {0} PROVE TicksFor(d, r) \in Nat
  BY DEF TicksFor
<1>2. \A k \in Buckets : TicksFor(-lv[k], Rate[k]) \in Nat
  BY <1>1, LimiterAssumption DEF Level
<1> QED
  BY <1>2 DEF Wait, Most, Buckets

-----------------------------------------------------------------------------
\* The semaphore's queue.

\* A caller that joins the queue is its last, and the others keep their places.
LEMMA AppendOK ==
    ASSUME NEW S, NEW s \in Seq(S), NEW c \in S, IsInjective(s), c \notin ToSet(s)
    PROVE  /\ Append(s, c) \in Seq(S)
           /\ IsInjective(Append(s, c))
           /\ ToSet(Append(s, c)) = ToSet(s) \cup {c}
BY DEF IsInjective, ToSet

\* t is s without its i-th element.
Without(s, i, t) ==
    /\ Len(t) = Len(s) - 1
    /\ \A j \in 1..Len(t) : t[j] = IF j < i THEN s[j] ELSE s[j + 1]

\* Closing the gap at place i loses what stood there and nothing else.
LEMMA GapClosed ==
    ASSUME NEW S, NEW s \in Seq(S), NEW t \in Seq(S), NEW i \in 1..Len(s),
           IsInjective(s), Without(s, i, t)
    PROVE  IsInjective(t) /\ ToSet(t) = ToSet(s) \ {s[i]}
<1>1. /\ DOMAIN s = 1..Len(s) /\ DOMAIN t = 1..Len(t)
      /\ Len(s) \in Nat /\ Len(t) \in Nat /\ Len(t) = Len(s) - 1
      /\ \A j \in 1..Len(t) : t[j] = IF j < i THEN s[j] ELSE s[j + 1]
  BY DEF Without
<1>2. \A j, k \in 1..Len(s) : s[j] = s[k] => j = k
  BY <1>1 DEF IsInjective
<1>3. IsInjective(t)
  <2> SUFFICES ASSUME NEW j \in 1..Len(t), NEW k \in 1..Len(t), t[j] = t[k]
               PROVE  j = k
    BY <1>1 DEF IsInjective
  <2> QED
    BY <1>1, <1>2
<1>4. ASSUME NEW j \in 1..Len(t) PROVE \E k \in 1..Len(s) : k # i /\ t[j] = s[k]
  <2>1. CASE j < i
    BY <1>1, <2>1
  <2>2. CASE ~(j < i)
    BY <1>1, <2>2
  <2> QED
    BY <2>1, <2>2
<1>5. ASSUME NEW k \in 1..Len(s), k # i PROVE \E j \in 1..Len(t) : t[j] = s[k]
  <2>1. CASE k < i
    BY <1>1, <2>1
  <2>2. CASE k > i
    <3>1. k - 1 \in 1..Len(t) /\ ~(k - 1 < i) /\ (k - 1) + 1 = k
      BY <1>1, <2>2
    <3> QED
      BY <1>1, <3>1
  <2> QED
    BY <1>1, <1>5, <2>1, <2>2
<1>6. ToSet(t) \subseteq ToSet(s) \ {s[i]}
  BY <1>1, <1>2, <1>4 DEF ToSet
<1>7. ToSet(s) \ {s[i]} \subseteq ToSet(t)
  <2> SUFFICES ASSUME NEW v \in ToSet(s), v # s[i] PROVE v \in ToSet(t)
    OBVIOUS
  <2>1. PICK k \in 1..Len(s) : s[k] = v
    BY <1>1 DEF ToSet
  <2>2. PICK j \in 1..Len(t) : t[j] = s[k]
    BY <1>5, <2>1
  <2> QED
    BY <1>1, <2>1, <2>2 DEF ToSet
<1> QED
  BY <1>3, <1>6, <1>7

\* Serving the first caller removes it and no other.
LEMMA TailOK ==
    ASSUME NEW S, NEW s \in Seq(S), s # << >>, IsInjective(s)
    PROVE  /\ Head(s) \in ToSet(s)
           /\ Tail(s) \in Seq(S)
           /\ IsInjective(Tail(s))
           /\ ToSet(Tail(s)) = ToSet(s) \ {Head(s)}
<1>1. /\ 1 \in 1..Len(s) /\ Head(s) = s[1] /\ DOMAIN s = 1..Len(s)
      /\ Tail(s) \in Seq(S) /\ Len(Tail(s)) = Len(s) - 1
      /\ \A j \in 1..Len(Tail(s)) : Tail(s)[j] = s[j + 1] /\ ~(j < 1)
  OBVIOUS
<1> DEFINE t == Tail(s)
<1>2. Without(s, 1, t)
  BY <1>1 DEF Without
<1>3. t \in Seq(S)
  BY <1>1
<1> HIDE DEF t
<1>4. IsInjective(t) /\ ToSet(t) = ToSet(s) \ {s[1]}
  BY <1>1, <1>2, <1>3, GapClosed
<1> QED
  BY <1>1, <1>4 DEF ToSet, t

\* The places of a sequence put behind another.
LEMMA ConcatIs ==
    ASSUME NEW S, NEW a \in Seq(S), NEW b \in Seq(S)
    PROVE  /\ a \o b \in Seq(S)
           /\ Len(a) \in Nat /\ Len(b) \in Nat /\ Len(a \o b) = Len(a) + Len(b)
           /\ \A i \in 1..Len(a) : (a \o b)[i] = a[i]
           /\ \A i \in Nat : Len(a) < i /\ i <= Len(a) + Len(b) => (a \o b)[i] = b[i - Len(a)]
<1>1. PICK y \in Nat : y = Len(a)
  OBVIOUS
<1>2. PICK z \in Nat : z = Len(b)
  OBVIOUS
<1>3. /\ a \o b \in Seq(S) /\ Len(a \o b) = y + z
      /\ \A i \in 1..(y + z) : (a \o b)[i] = IF i <= y THEN a[i] ELSE b[i - y]
  BY <1>1, <1>2
<1>4. \A i \in 1..y : (a \o b)[i] = a[i]
  BY <1>3
<1>5. \A i \in Nat : y < i /\ i <= y + z => (a \o b)[i] = b[i - y]
  BY <1>3
<1> QED
  BY <1>1, <1>2, <1>3, <1>4, <1>5

\* A caller that gives up leaves the queue, and no other does.
LEMMA RemoveAtOK ==
    ASSUME NEW S, NEW s \in Seq(S), NEW i \in 1..Len(s), IsInjective(s)
    PROVE  /\ RemoveAt(s, i) \in Seq(S)
           /\ IsInjective(RemoveAt(s, i))
           /\ ToSet(RemoveAt(s, i)) = ToSet(s) \ {s[i]}
<1> DEFINE ahead == SubSeq(s, 1, i - 1)
           behind == SubSeq(s, i + 1, Len(s))
           t == ahead \o behind
<1>1. /\ ahead \in Seq(S) /\ Len(ahead) = i - 1
      /\ \A j \in 1..(i - 1) : ahead[j] = s[j]
  OBVIOUS
<1>2. /\ behind \in Seq(S) /\ Len(behind) = Len(s) - i
      /\ \A j \in 1..(Len(s) - i) : behind[j] = s[i + j]
  OBVIOUS
<1> HIDE DEF ahead, behind
<1>3. t \in Seq(S) /\ Len(t) = Len(s) - 1
  <2>1. t \in Seq(S) /\ Len(t) = Len(ahead) + Len(behind)
    BY <1>1, <1>2, ConcatIs
  <2>2. PICK n \in Nat : n = Len(s)
    OBVIOUS
  <2>3. Len(ahead) + Len(behind) = n - 1
    BY <1>1, <1>2, <2>2
  <2> QED
    BY <2>1, <2>2, <2>3
<1>4. ASSUME NEW j \in 1..Len(t) PROVE t[j] = IF j < i THEN s[j] ELSE s[j + 1]
  <2>1. CASE j < i
    BY <1>1, <1>2, <1>3, <2>1
  <2>2. CASE ~(j < i)
    <3>1. t[j] = behind[j - (i - 1)] /\ j - (i - 1) \in 1..(Len(s) - i)
      BY <1>1, <1>2, <1>3, <2>2
    <3>2. i + (j - (i - 1)) = j + 1
      BY <1>3
    <3> QED
      BY <1>2, <2>2, <3>1, <3>2
  <2> QED
    BY <2>1, <2>2
<1>5. RemoveAt(s, i) = t
  BY DEF RemoveAt, ahead, behind
<1> HIDE DEF t
<1>6. Without(s, i, t)
  BY <1>3, <1>4 DEF Without
<1>7. IsInjective(t) /\ ToSet(t) = ToSet(s) \ {s[i]}
  BY <1>3, <1>6, GapClosed
<1> QED
  BY <1>3, <1>5, <1>7

-----------------------------------------------------------------------------
\* The slots.

Holds(a) == a.at \in {"sleeping", "in"}

\* When one caller moves, the numbers of callers holding a slot, and of those
\* inside, change by that caller alone.
LEMMA OneMoves ==
    ASSUME TypeOK, NEW c \in Callers, NEW a \in Acquiring, acq' = [acq EXCEPT ![c] = a]
    PROVE  /\ Cardinality(Holding) \in Nat /\ Cardinality(Inside) \in Nat
           /\ Cardinality(Holding) >= Cardinality(Inside)
           /\ Cardinality(Holding') >= Cardinality(Inside')
           /\ Cardinality(Holding') = Cardinality(Holding)
                + (IF Holds(a) THEN 1 ELSE 0) - (IF Holds(acq[c]) THEN 1 ELSE 0)
           /\ Cardinality(Inside') = Cardinality(Inside)
                + (IF a.at = "in" THEN 1 ELSE 0) - (IF acq[c].at = "in" THEN 1 ELSE 0)
<1>1. /\ Holding' = IF Holds(a) THEN Holding \cup {c} ELSE Holding \ {c}
      /\ Inside' = IF a.at = "in" THEN Inside \cup {c} ELSE Inside \ {c}
      /\ c \in Holding <=> Holds(acq[c])
      /\ c \in Inside <=> acq[c].at = "in"
  BY DEF TypeOK, Holding, Inside, Holds
<1>2. /\ IsFiniteSet(Holding) /\ IsFiniteSet(Inside)
      /\ IsFiniteSet(Holding') /\ IsFiniteSet(Inside')
      /\ Inside \subseteq Holding /\ Inside' \subseteq Holding'
  <2>1. /\ Holding \subseteq Callers /\ Inside \subseteq Callers
        /\ Holding' \subseteq Callers /\ Inside' \subseteq Callers
        /\ Inside \subseteq Holding /\ Inside' \subseteq Holding'
    BY DEF Holding, Inside
  <2> QED
    BY <2>1, FS_Subset, LimiterAssumption
<1>3. /\ Cardinality(Holding) \in Nat /\ Cardinality(Inside) \in Nat
      /\ Cardinality(Holding) >= Cardinality(Inside)
      /\ Cardinality(Holding') >= Cardinality(Inside')
  <2>1. /\ Cardinality(Holding) \in Nat /\ Cardinality(Inside) \in Nat
        /\ Cardinality(Holding') \in Nat /\ Cardinality(Inside') \in Nat
    BY <1>2, FS_CardinalityType
  <2>2. /\ Cardinality(Inside) <= Cardinality(Holding)
        /\ Cardinality(Inside') <= Cardinality(Holding')
    BY <1>2, FS_Subset
  <2> QED
    BY <2>1, <2>2
<1>4. Cardinality(Holding') = Cardinality(Holding)
        + (IF Holds(a) THEN 1 ELSE 0) - (IF Holds(acq[c]) THEN 1 ELSE 0)
  BY <1>1, <1>2, <1>3, FS_AddElement, FS_RemoveElement
<1>5. Cardinality(Inside') = Cardinality(Inside)
        + (IF a.at = "in" THEN 1 ELSE 0) - (IF acq[c].at = "in" THEN 1 ELSE 0)
  BY <1>1, <1>2, <1>3, FS_AddElement, FS_RemoveElement
<1> QED
  BY <1>3, <1>4, <1>5

-----------------------------------------------------------------------------
\* Slots and queue determine each other's steps, so they are proved together:
\* the caller that takes the free slot is one that waits, and holds none.
IInv == TypeOK /\ SlotsConserved /\ QueueExact

\* What a caller is charged or estimated is a natural number.
LEMMA CostsAreNats ==
    ASSUME TypeOK, NEW c \in Callers
    PROVE  acq[c] \in Acquiring /\ acq[c].cost \in Nat /\ level \in Level
<1>1. acq[c] \in Acquiring /\ level \in Level
  BY DEF TypeOK, Level
<1>2. acq[c].cost \in Costs \cup {0}
  BY <1>1 DEF Acquiring
<1>3. \A n \in Costs : n \in Nat
  BY LimiterAssumption
<1>4. acq[c].cost \in Nat
  BY <1>2, <1>3
<1> QED
  BY <1>1, <1>4

\* free and active_requests follow caller c to a.
Counted(c, a) ==
    /\ free' = free + (IF Holds(acq[c]) THEN 1 ELSE 0) - (IF Holds(a) THEN 1 ELSE 0)
    /\ active' = active + (IF a.at = "in" THEN 1 ELSE 0)
                        - (IF acq[c].at = "in" THEN 1 ELSE 0)
    /\ free' >= 0

\* If one caller moves between the outside, the queue and a slot, and free and
\* active_requests follow, every slot is accounted for.
LEMMA SlotStep ==
    ASSUME IInv, NEW c \in Callers, NEW a \in Acquiring,
           acq' = [acq EXCEPT ![c] = a], Counted(c, a)
    PROVE  /\ SlotsConserved'
           /\ free' \in 0..Slots /\ active' \in 0..Slots
           /\ acq' \in [Callers -> Acquiring]
<1>1. TypeOK /\ SlotsConserved
  BY DEF IInv
<1>2. /\ Cardinality(Holding) \in Nat /\ Cardinality(Inside) \in Nat
      /\ Cardinality(Holding') >= Cardinality(Inside')
      /\ Cardinality(Holding') = Cardinality(Holding)
            + (IF Holds(a) THEN 1 ELSE 0) - (IF Holds(acq[c]) THEN 1 ELSE 0)
      /\ Cardinality(Inside') = Cardinality(Inside)
            + (IF a.at = "in" THEN 1 ELSE 0) - (IF acq[c].at = "in" THEN 1 ELSE 0)
  BY <1>1, OneMoves
<1>3. Cardinality(Holding') \in Nat /\ Cardinality(Inside') \in Nat
  <2>1. Holding' \subseteq Callers /\ Inside' \subseteq Callers
    BY DEF Holding, Inside
  <2> QED
    BY <2>1, FS_Subset, FS_CardinalityType, LimiterAssumption
<1>4. /\ free + Cardinality(Holding) = Slots /\ active = Cardinality(Inside)
      /\ free \in Int /\ active \in Int /\ Slots \in Nat
  BY <1>1, LimiterAssumption DEF SlotsConserved, TypeOK
<1>5. free' + Cardinality(Holding') = Slots /\ active' = Cardinality(Inside')
  BY <1>2, <1>4 DEF Counted
<1>6. free' \in 0..Slots /\ active' \in 0..Slots
  BY <1>2, <1>3, <1>4, <1>5 DEF Counted
<1>7. acq' \in [Callers -> Acquiring]
  BY <1>1 DEF TypeOK
<1> QED
  BY <1>5, <1>6, <1>7 DEF SlotsConserved

\* If one caller moves and the queue loses or gains that caller accordingly,
\* the queue stays exact.
LEMMA QueueStep ==
    ASSUME IInv, NEW c \in Callers, NEW a \in Acquiring,
           acq' = [acq EXCEPT ![c] = a],
           queue' \in Seq(Callers), IsInjective(queue'),
           ToSet(queue') = IF a.at = "queued" THEN ToSet(queue) \cup {c}
                                             ELSE ToSet(queue) \ {c}
    PROVE  QueueExact'
BY DEF IInv, TypeOK, QueueExact

\* acquire() from the moment it holds a slot, whichever way it came by it.
LEMMA ReserveOK ==
    ASSUME IInv, NEW c \in Callers, NEW cost \in Costs \cup {0},
           NEW left \in Nat \cup {NoLimit},
           ~Holds(acq[c]), free > 0, Reserve(c, cost, left)
    PROVE  /\ level' \in Level /\ SlotsConserved'
           /\ free' \in 0..Slots /\ active' \in 0..Slots
           /\ \E a \in Acquiring : a.at # "queued" /\ acq' = [acq EXCEPT ![c] = a]
<1> DEFINE lv == Reserved(level, cost)
           sleeping == [at |-> "sleeping", cost |-> cost, left |-> left, due |-> Wait(lv)]
           inside == [at |-> "in", cost |-> 0, left |-> NoLimit, due |-> 0]
<1>1. TypeOK /\ level \in Level /\ cost \in Nat /\ free \in Int /\ active \in Int
      /\ acq[c].at # "in"
  BY CostsAreNats, LimiterAssumption DEF IInv, TypeOK, Holds
<1>2. lv \in Level /\ Wait(lv) \in Nat /\ Refunded(lv, cost) \in Level
  BY <1>1, ReservedOK, WaitOK, RefundedOK
<1>3. /\ Out \in Acquiring /\ inside \in Acquiring /\ sleeping \in Acquiring
      /\ ~Holds(Out) /\ Holds(inside) /\ Holds(sleeping)
      /\ Out.at = "out" /\ inside.at = "in" /\ sleeping.at = "sleeping"
  BY <1>2 DEF Acquiring, Out, Holds
<1>4. [Out EXCEPT !.at = "in"] = inside
  BY DEF Out
<1>5. \/ /\ level' = Refunded(lv, cost) /\ acq' = [acq EXCEPT ![c] = Out]
         /\ free' = free /\ active' = active
      \/ /\ level' = lv /\ acq' = [acq EXCEPT ![c] = sleeping]
         /\ free' = free - 1 /\ active' = active
      \/ /\ level' = lv /\ acq' = [acq EXCEPT ![c] = inside]
         /\ free' = free - 1 /\ active' = active + 1
  BY <1>4 DEF Reserve, Admit
<1> HIDE DEF lv, sleeping, inside
<1>6. CASE /\ level' = Refunded(lv, cost) /\ acq' = [acq EXCEPT ![c] = Out]
           /\ free' = free /\ active' = active
  <2>1. Counted(c, Out)
    BY <1>1, <1>3, <1>6 DEF Counted
  <2> QED
    BY <1>2, <1>3, <1>6, <2>1, SlotStep
<1>7. CASE /\ level' = lv /\ acq' = [acq EXCEPT ![c] = sleeping]
           /\ free' = free - 1 /\ active' = active
  <2>1. Counted(c, sleeping)
    BY <1>1, <1>3, <1>7 DEF Counted
  <2> QED
    BY <1>2, <1>3, <1>7, <2>1, SlotStep
<1>8. CASE /\ level' = lv /\ acq' = [acq EXCEPT ![c] = inside]
           /\ free' = free - 1 /\ active' = active + 1
  <2>1. Counted(c, inside)
    BY <1>1, <1>3, <1>8 DEF Counted
  <2> QED
    BY <1>2, <1>3, <1>8, <2>1, SlotStep
<1> QED
  BY <1>5, <1>6, <1>7, <1>8

-----------------------------------------------------------------------------
\* The inductive invariant is preserved by every step.
LEMMA InductiveStep == IInv /\ [Next]_vars => IInv'
<1> SUFFICES ASSUME IInv, [Next]_vars PROVE IInv'
  OBVIOUS
<1>1. /\ TypeOK /\ SlotsConserved /\ QueueExact /\ level \in Level
      /\ queue \in Seq(Callers) /\ IsInjective(queue)
      /\ free \in 0..Slots /\ active \in 0..Slots /\ Slots \in Nat
  BY LimiterAssumption DEF IInv, TypeOK, QueueExact, Level
<1>2. ASSUME level' \in Level, free' \in 0..Slots, active' \in 0..Slots,
             queue' \in Seq(Callers), acq' \in [Callers -> Acquiring],
             SlotsConserved', QueueExact'
      PROVE  IInv'
  BY <1>2 DEF IInv, TypeOK, Level
<1>3. Out \in Acquiring /\ Out.at = "out" /\ ~Holds(Out)
  BY DEF Out, Acquiring, Holds
<1>4. CASE Tick
  <2>1. level' \in Level
    BY <1>1, <1>4, RefilledOK DEF Tick
  <2>2. acq' \in [Callers -> Acquiring] /\ \A c \in Callers : acq'[c].at = acq[c].at
    BY <1>1, <1>4 DEF Tick, TypeOK, Acquiring, Less
  <2>3. Holding' = Holding /\ Inside' = Inside
    BY <2>2 DEF Holding, Inside
  <2>4. QueueExact'
    BY <1>1, <1>4, <2>2 DEF Tick, QueueExact
  <2> QED
    BY <1>1, <1>2, <1>4, <2>1, <2>2, <2>3, <2>4 DEF Tick, SlotsConserved
<1>5. ASSUME NEW c \in Callers, Enter(c) PROVE IInv'
  <2>1. PICK cost \in Costs, w \in MaxWaits : Reserve(c, cost, w)
    BY <1>5 DEF Enter
  <2>2. w \in Nat \cup {NoLimit} /\ ~Holds(acq[c]) /\ free > 0
    BY <1>5, LimiterAssumption DEF Enter, Holds
  <2>3. /\ level' \in Level /\ SlotsConserved'
        /\ free' \in 0..Slots /\ active' \in 0..Slots
        /\ \E a \in Acquiring : a.at # "queued" /\ acq' = [acq EXCEPT ![c] = a]
    BY <2>1, <2>2, ReserveOK
  <2>4. PICK a \in Acquiring : a.at # "queued" /\ acq' = [acq EXCEPT ![c] = a]
    BY <2>3
  <2>5. acq' \in [Callers -> Acquiring]
    BY <1>1, <2>4 DEF TypeOK
  <2>6. QueueExact' /\ queue' = queue
    BY <1>1, <1>5, <2>4 DEF Enter, QueueExact, TypeOK
  <2> QED
    BY <1>1, <1>2, <2>3, <2>5, <2>6
<1>6. ASSUME NEW c \in Callers, Queue(c) PROVE IInv'
  <2>1. PICK a \in Acquiring : a.at = "queued" /\ acq' = [acq EXCEPT ![c] = a]
    <3>1. PICK cost \in Costs, w \in MaxWaits \ {0} :
            acq' = [acq EXCEPT ![c] = [at |-> "queued", cost |-> cost, left |-> w, due |-> 0]]
      BY <1>6 DEF Queue
    <3>2. w \in Nat \cup {NoLimit}
      BY <3>1, LimiterAssumption
    <3>3. [at |-> "queued", cost |-> cost, left |-> w, due |-> 0] \in Acquiring
      BY <3>2 DEF Acquiring
    <3> QED
      BY <3>1, <3>3
  <2>2. Counted(c, a)
    BY <1>1, <1>6, <2>1 DEF Queue, Counted, Holds
  <2>3. c \notin ToSet(queue)
    BY <1>1, <1>6 DEF Queue, QueueExact
  <2>4. /\ queue' \in Seq(Callers) /\ IsInjective(queue')
        /\ ToSet(queue') = ToSet(queue) \cup {c}
    BY <1>1, <1>6, <2>3, AppendOK DEF Queue
  <2>5. QueueExact'
    BY <2>1, <2>4, QueueStep
  <2>6. /\ SlotsConserved' /\ free' \in 0..Slots /\ active' \in 0..Slots
        /\ acq' \in [Callers -> Acquiring]
    BY <2>1, <2>2, SlotStep
  <2> QED
    BY <1>1, <1>2, <1>6, <2>4, <2>5, <2>6 DEF Queue
<1>7. ASSUME NEW c \in Callers, Dequeue(c) PROVE IInv'
  <2>1. queue # << >> /\ c = Head(queue) /\ free > 0 /\ queue' = Tail(queue)
        /\ Reserve(c, acq[c].cost, acq[c].left)
    BY <1>7 DEF Dequeue
  <2>2. /\ c \in ToSet(queue) /\ queue' \in Seq(Callers) /\ IsInjective(queue')
        /\ ToSet(queue') = ToSet(queue) \ {c}
    BY <1>1, <2>1, TailOK
  <2>3. acq[c].at = "queued" /\ ~Holds(acq[c])
    BY <1>1, <2>2 DEF QueueExact, Holds
  <2>4. acq[c].left \in Nat \cup {NoLimit} /\ acq[c].cost \in Costs \cup {0}
    BY <1>1 DEF TypeOK, Acquiring
  <2>5. /\ level' \in Level /\ SlotsConserved'
        /\ free' \in 0..Slots /\ active' \in 0..Slots
        /\ \E a \in Acquiring : a.at # "queued" /\ acq' = [acq EXCEPT ![c] = a]
    BY <2>1, <2>3, <2>4, ReserveOK
  <2>6. PICK a \in Acquiring : a.at # "queued" /\ acq' = [acq EXCEPT ![c] = a]
    BY <2>5
  <2>7. acq' \in [Callers -> Acquiring]
    BY <1>1, <2>6 DEF TypeOK
  <2>8. QueueExact'
    BY <2>2, <2>6, QueueStep
  <2> QED
    BY <1>2, <2>2, <2>5, <2>7, <2>8
<1>8. ASSUME NEW c \in Callers, LeaveQueue(c) PROVE IInv'
  <2>1. acq[c].at = "queued" /\ acq' = [acq EXCEPT ![c] = Out]
        /\ level' = level /\ free' = free /\ active' = active
    BY <1>8 DEF LeaveQueue
  <2>2. PICK i \in 1..Len(queue) : queue[i] = c /\ queue' = RemoveAt(queue, i)
    BY <1>8 DEF LeaveQueue
  <2>3. /\ queue' \in Seq(Callers) /\ IsInjective(queue')
        /\ ToSet(queue') = ToSet(queue) \ {c}
    BY <1>1, <2>2, RemoveAtOK
  <2>4. QueueExact'
    BY <1>3, <2>1, <2>3, QueueStep
  <2>5. Counted(c, Out)
    BY <1>1, <1>3, <2>1 DEF Counted, Holds
  <2>6. /\ SlotsConserved' /\ free' \in 0..Slots /\ active' \in 0..Slots
        /\ acq' \in [Callers -> Acquiring]
    BY <1>3, <2>1, <2>5, SlotStep
  <2> QED
    BY <1>1, <1>2, <2>1, <2>3, <2>4, <2>6
<1>9. ASSUME NEW c \in Callers, NEW a \in Acquiring, a.at # "queued",
             acq[c].at # "queued", acq' = [acq EXCEPT ![c] = a], queue' = queue,
             level' \in Level, Counted(c, a)
      PROVE  IInv'
  <2>1. c \notin ToSet(queue)
    BY <1>1, <1>9 DEF QueueExact
  <2>2. QueueExact'
    BY <1>1, <1>9, <2>1, QueueStep
  <2>3. /\ SlotsConserved' /\ free' \in 0..Slots /\ active' \in 0..Slots
        /\ acq' \in [Callers -> Acquiring]
    BY <1>9, SlotStep
  <2> QED
    BY <1>1, <1>2, <1>9, <2>2, <2>3
<1>10. ASSUME NEW c \in Callers, Wake(c) PROVE IInv'
  <2> DEFINE inside == [Out EXCEPT !.at = "in"]
  <2>1. inside \in Acquiring /\ inside.at = "in" /\ Holds(inside)
    BY DEF Out, Acquiring, Holds
  <2>2. /\ acq[c].at = "sleeping" /\ acq' = [acq EXCEPT ![c] = inside]
        /\ active' = active + 1 /\ free' = free /\ level' = level /\ queue' = queue
    BY <1>10 DEF Wake, Admit
  <2> HIDE DEF inside
  <2>3. Counted(c, inside)
    BY <1>1, <2>1, <2>2 DEF Counted, Holds
  <2> QED
    BY <1>1, <1>9, <2>1, <2>2, <2>3
<1>11. ASSUME NEW c \in Callers, CancelSleep(c) PROVE IInv'
  <2>1. level' \in Level
    BY <1>1, <1>11, CostsAreNats, RefundedOK DEF CancelSleep
  <2>2. Counted(c, Out)
    BY <1>1, <1>3, <1>11 DEF CancelSleep, Counted, Holds
  <2> QED
    BY <1>3, <1>9, <1>11, <2>1, <2>2 DEF CancelSleep
<1>12. ASSUME NEW c \in Callers, Release(c) PROVE IInv'
  <2>1. Counted(c, Out)
    BY <1>1, <1>3, <1>12 DEF Release, Counted, Holds
  <2> QED
    BY <1>1, <1>3, <1>9, <1>12, <2>1 DEF Release
<1>13. CASE UNCHANGED vars
  BY <1>1, <1>13 DEF vars, IInv, TypeOK, SlotsConserved, QueueExact, Holding, Inside
<1> QED
  BY <1>4, <1>5, <1>6, <1>7, <1>8, <1>10, <1>11, <1>12, <1>13 DEF Next, Step

\* The initial state satisfies the inductive invariant.
LEMMA InductiveInit == Init => IInv
<1> SUFFICES ASSUME Init PROVE IInv
  OBVIOUS
<1>1. Holding = {} /\ Inside = {}
  BY DEF Init, Holding, Inside, Out
<1>2. SlotsConserved
  BY <1>1, FS_EmptySet, LimiterAssumption DEF Init, SlotsConserved
<1>3. QueueExact
  BY DEF Init, QueueExact, ToSet, IsInjective, Out
<1>4. TypeOK
  BY LimiterAssumption DEF Init, TypeOK, Acquiring, Out
<1> QED
  BY <1>2, <1>3, <1>4 DEF IInv

\* The limiter's fields keep their types: in particular no bucket is ever
\* fuller than its size, and active_requests stays within the slots.
THEOREM TypeCorrect == Spec => []TypeOK
<1>1. IInv => TypeOK
  BY DEF IInv
<1> QED
  BY <1>1, InductiveInit, InductiveStep, PTL DEF Spec

\* No concurrency slot is lost or handed out twice, for any number of callers,
\* whatever is refused, times out or is cancelled.
THEOREM SlotsAlways == Spec => []SlotsConserved
<1>1. IInv => SlotsConserved
  BY DEF IInv
<1> QED
  BY <1>1, InductiveInit, InductiveStep, PTL DEF Spec

\* The semaphore's queue holds exactly the callers that wait, once each.
THEOREM QueueAlways == Spec => []QueueExact
<1>1. IInv => QueueExact
  BY DEF IInv
<1> QED
  BY <1>1, InductiveInit, InductiveStep, PTL DEF Spec

-----------------------------------------------------------------------------
\* A wait that fits in the budget it is started with still fits a tick later.
Fits(a) == a.at = "sleeping" /\ a.left # NoLimit => a.due <= a.left

\* What acquire() leaves behind once it has held a slot: nothing at all, or a
\* caller that holds the slot and whose sleep fits its budget.
LEMMA ReserveOutcome ==
    ASSUME TypeOK, NEW c \in Callers, NEW cost \in Costs \cup {0},
           NEW left \in Nat \cup {NoLimit}, Reserve(c, cost, left)
    PROVE  \E a \in Acquiring :
              /\ acq' = [acq EXCEPT ![c] = a] /\ Fits(a)
              /\ Holds(a) \/ level' = level
<1> DEFINE lv == Reserved(level, cost)
           sleeping == [at |-> "sleeping", cost |-> cost, left |-> left, due |-> Wait(lv)]
           inside == [at |-> "in", cost |-> 0, left |-> NoLimit, due |-> 0]
<1>1. cost \in Nat /\ level \in Level
  BY CostsAreNats, LimiterAssumption
<1>2. Wait(lv) \in Nat /\ Refunded(lv, cost) = level
  BY <1>1, ReservedOK, WaitOK, RefundedOK
<1>3. /\ Out \in Acquiring /\ inside \in Acquiring /\ sleeping \in Acquiring
      /\ Holds(inside) /\ Holds(sleeping) /\ Fits(Out) /\ Fits(inside)
  BY <1>2 DEF Acquiring, Out, Holds, Fits
<1>4. [Out EXCEPT !.at = "in"] = inside
  BY DEF Out
<1>5. \/ level' = Refunded(lv, cost) /\ acq' = [acq EXCEPT ![c] = Out]
      \/ ~TooLong(Wait(lv), left) /\ acq' = [acq EXCEPT ![c] = sleeping]
      \/ acq' = [acq EXCEPT ![c] = inside]
  BY <1>4 DEF Reserve, Admit
<1>6. CASE level' = Refunded(lv, cost) /\ acq' = [acq EXCEPT ![c] = Out]
  BY <1>2, <1>3, <1>6
<1>7. CASE ~TooLong(Wait(lv), left) /\ acq' = [acq EXCEPT ![c] = sleeping]
  <2>1. Fits(sleeping)
    BY <1>2, <1>7 DEF TooLong, Fits
  <2> QED
    BY <1>3, <1>7, <2>1
<1>8. CASE acq' = [acq EXCEPT ![c] = inside]
  BY <1>3, <1>8
<1> QED
  BY <1>5, <1>6, <1>7, <1>8

\* Every step but a tick moves one caller, to a place where its sleep fits; and
\* it lowers a bucket only if that caller comes to hold a slot in this step.
LEMMA StepOutcome ==
    ASSUME IInv, Step
    PROVE  \E c \in Callers, a \in Acquiring :
              /\ acq' = [acq EXCEPT ![c] = a] /\ Fits(a)
              /\ \/ Holds(a) /\ ~Holds(acq[c])
                 \/ \A k \in Buckets : level'[k] >= level[k]
<1>1. /\ TypeOK /\ QueueExact /\ level \in Level /\ queue \in Seq(Callers)
      /\ IsInjective(queue) /\ \A k \in Buckets : level[k] >= level[k]
  BY DEF IInv, TypeOK, QueueExact, Level
<1>2. Out \in Acquiring /\ Fits(Out)
  BY DEF Out, Acquiring, Fits
<1>3. ASSUME NEW c \in Callers, ~Holds(acq[c]), NEW cost \in Costs \cup {0},
             NEW left \in Nat \cup {NoLimit}, Reserve(c, cost, left)
      PROVE  \E a \in Acquiring :
                /\ acq' = [acq EXCEPT ![c] = a] /\ Fits(a)
                /\ \/ Holds(a) /\ ~Holds(acq[c])
                   \/ \A k \in Buckets : level'[k] >= level[k]
  <2>1. PICK a \in Acquiring :
          /\ acq' = [acq EXCEPT ![c] = a] /\ Fits(a)
          /\ Holds(a) \/ level' = level
    BY <1>1, <1>3, ReserveOutcome
  <2>2. \/ Holds(a) /\ ~Holds(acq[c])
        \/ \A k \in Buckets : level'[k] >= level[k]
    BY <1>1, <1>3, <2>1
  <2> QED
    BY <2>1, <2>2
<1>4. ASSUME NEW c \in Callers, Enter(c)
      PROVE  \E a \in Acquiring :
                /\ acq' = [acq EXCEPT ![c] = a] /\ Fits(a)
                /\ \/ Holds(a) /\ ~Holds(acq[c])
                   \/ \A k \in Buckets : level'[k] >= level[k]
  <2>1. PICK cost \in Costs, w \in MaxWaits : Reserve(c, cost, w)
    BY <1>4 DEF Enter
  <2>2. w \in Nat \cup {NoLimit} /\ ~Holds(acq[c])
    BY <1>4, LimiterAssumption DEF Enter, Holds
  <2> QED
    BY <1>3, <2>1, <2>2
<1>5. ASSUME NEW c \in Callers, Dequeue(c)
      PROVE  \E a \in Acquiring :
                /\ acq' = [acq EXCEPT ![c] = a] /\ Fits(a)
                /\ \/ Holds(a) /\ ~Holds(acq[c])
                   \/ \A k \in Buckets : level'[k] >= level[k]
  <2>1. queue # << >> /\ c = Head(queue) /\ Reserve(c, acq[c].cost, acq[c].left)
    BY <1>5 DEF Dequeue
  <2>2. c \in ToSet(queue)
    BY <1>1, <2>1, TailOK
  <2>3. ~Holds(acq[c])
    BY <1>1, <2>2 DEF QueueExact, Holds
  <2>4. acq[c].left \in Nat \cup {NoLimit} /\ acq[c].cost \in Costs \cup {0}
    BY <1>1 DEF TypeOK, Acquiring
  <2> QED
    BY <1>3, <2>1, <2>3, <2>4
<1>6. ASSUME NEW c \in Callers, Queue(c)
      PROVE  \E a \in Acquiring : acq' = [acq EXCEPT ![c] = a] /\ Fits(a) /\ level' = level
  <2>1. PICK cost \in Costs, w \in MaxWaits \ {0} :
          acq' = [acq EXCEPT ![c] = [at |-> "queued", cost |-> cost, left |-> w, due |-> 0]]
    BY <1>6 DEF Queue
  <2>2. w \in Nat \cup {NoLimit}
    BY <2>1, LimiterAssumption
  <2>3. [at |-> "queued", cost |-> cost, left |-> w, due |-> 0] \in Acquiring
        /\ Fits([at |-> "queued", cost |-> cost, left |-> w, due |-> 0])
    BY <2>2 DEF Acquiring, Fits
  <2> QED
    BY <1>6, <2>1, <2>3 DEF Queue
<1>7. ASSUME NEW c \in Callers, Wake(c)
      PROVE  \E a \in Acquiring : acq' = [acq EXCEPT ![c] = a] /\ Fits(a) /\ level' = level
  <2>1. [Out EXCEPT !.at = "in"] \in Acquiring /\ Fits([Out EXCEPT !.at = "in"])
    BY DEF Out, Acquiring, Fits
  <2> QED
    BY <1>7, <2>1 DEF Wake, Admit
<1>8. ASSUME NEW c \in Callers, CancelSleep(c)
      PROVE  acq' = [acq EXCEPT ![c] = Out] /\ \A k \in Buckets : level'[k] >= level[k]
  BY <1>1, <1>8, CostsAreNats, RefundedOK DEF CancelSleep
<1>9. ASSUME NEW c \in Callers, LeaveQueue(c) \/ Release(c)
      PROVE  acq' = [acq EXCEPT ![c] = Out] /\ level' = level
  BY <1>9 DEF LeaveQueue, Release
<1> QED
  BY <1>1, <1>2, <1>4, <1>5, <1>6, <1>7, <1>8, <1>9 DEF Step

\* No caller is put to sleep for longer than is left of its max_wait, however
\* long it has waited for its slot and whatever debt it found.
THEOREM SleepAlwaysFits == Spec => []SleepFitsBudget
<1> DEFINE J == IInv /\ SleepFitsBudget
<1>1. Init => J
  BY InductiveInit DEF Init, SleepFitsBudget, Out
<1>2. J /\ [Next]_vars => J'
  <2> SUFFICES ASSUME J, [Next]_vars PROVE SleepFitsBudget'
    BY InductiveStep
  <2>1. TypeOK /\ \A c \in Callers : Fits(acq[c])
    BY DEF IInv, SleepFitsBudget, Fits
  <2>2. CASE Tick
    <3> SUFFICES ASSUME NEW c \in Callers PROVE Fits(acq'[c])
      BY DEF SleepFitsBudget, Fits
    <3>1. acq[c].left \in Nat \cup {NoLimit} /\ acq[c].due \in Nat
      BY <2>1 DEF TypeOK, Acquiring
    <3>2. /\ acq'[c].at = acq[c].at
          /\ acq'[c].left = Less(acq[c].left) /\ acq'[c].due = Less(acq[c].due)
      BY <2>2 DEF Tick
    <3>3. CASE acq[c].left = NoLimit
      <4>1. acq'[c].left = NoLimit
        BY <3>2, <3>3, LimiterAssumption DEF Less
      <4> QED
        BY <4>1 DEF Fits
    <3>4. CASE acq[c].left \in Nat
      <4>1. acq[c].left # NoLimit
        BY <3>4, LimiterAssumption
      <4>2. acq[c].due <= acq[c].left => acq'[c].due <= acq'[c].left
        BY <3>1, <3>2, <3>4 DEF Less
      <4> QED
        BY <2>1, <3>2, <4>1, <4>2 DEF Fits
    <3> QED
      BY <3>1, <3>3, <3>4
  <2>3. CASE Step
    <3>1. PICK c \in Callers, a \in Acquiring : acq' = [acq EXCEPT ![c] = a] /\ Fits(a)
      BY <2>3, StepOutcome
    <3>2. \A d \in Callers : Fits(acq'[d])
      BY <2>1, <3>1 DEF TypeOK
    <3> QED
      BY <3>2 DEF SleepFitsBudget, Fits
  <2>4. CASE UNCHANGED vars
    BY <2>4 DEF vars, SleepFitsBudget
  <2> QED
    BY <2>2, <2>3, <2>4 DEF Next
<1>3. J => SleepFitsBudget
  OBVIOUS
<1> HIDE DEF J
<1> QED
  BY <1>1, <1>2, <1>3, PTL DEF Spec

\* Admission is exact for any number of callers and slots: the three results
\* above together, as the model checker is asked for them.
THEOREM AdmissionAlways == Spec => []AdmissionExact
  BY SlotsAlways, QueueAlways, SleepAlwaysFits, PTL DEF AdmissionExact

\* A refused, timed out or cancelled acquire() takes nothing from a bucket: a
\* reservation stands only where the caller goes on to hold a slot.
THEOREM NothingConsumed == Spec => NothingConsumedOnRefusal
<1> DEFINE Kept == \A k \in Buckets : level'[k] < level[k] =>
                      \E c \in Callers : c \notin Holding /\ c \in Holding'
<1>1. IInv /\ [Next]_vars => [Kept]_vars
  <2> SUFFICES ASSUME IInv, Next PROVE Kept
    OBVIOUS
  <2>1. level \in Level /\ TypeOK
    BY DEF IInv, TypeOK, Level
  <2>2. level' \in Level
    BY InductiveStep DEF IInv, TypeOK, Level
  <2>3. \A k \in Buckets : level[k] \in Int /\ level'[k] \in Int
    BY <2>1, <2>2 DEF Level
  <2>4. CASE Tick
    BY <2>1, <2>3, <2>4, RefilledOK DEF Tick
  <2>5. CASE Step
    <3>1. PICK c \in Callers, a \in Acquiring :
            /\ acq' = [acq EXCEPT ![c] = a]
            /\ \/ Holds(a) /\ ~Holds(acq[c])
               \/ \A k \in Buckets : level'[k] >= level[k]
      BY <2>5, StepOutcome
    <3>2. CASE Holds(a) /\ ~Holds(acq[c])
      <4>1. acq'[c] = a
        BY <2>1, <3>1 DEF TypeOK
      <4>2. c \notin Holding /\ c \in Holding'
        BY <3>2, <4>1 DEF Holding, Holds
      <4> QED
        BY <4>2
    <3>3. CASE \A k \in Buckets : level'[k] >= level[k]
      BY <2>3, <3>3
    <3> QED
      BY <3>1, <3>2, <3>3
  <2> QED
    BY <2>4, <2>5 DEF Next
<1> QED
  BY <1>1, InductiveInit, InductiveStep, PTL DEF Spec, NothingConsumedOnRefusal

-----------------------------------------------------------------------------
\* The rate.  What callers owe is laid out unit by unit: caller c has a pile of
\* w[c] units.

Pile(w, m) == {u \in Callers \X (1..m) : u[2] <= w[u[1]]}

\* The piles are finite, and there are no more units than in w[c] <= v[c].
LEMMA PileOK ==
    ASSUME NEW m \in Nat, NEW w
    PROVE  IsFiniteSet(Pile(w, m)) /\ Cardinality(Pile(w, m)) \in Nat
<1>1. IsFiniteSet(1..m)
  BY FS_Interval
<1>2. IsFiniteSet(Callers \X (1..m))
  BY <1>1, FS_Product, LimiterAssumption
<1>3. Pile(w, m) \subseteq Callers \X (1..m)
  BY DEF Pile
<1> QED
  BY <1>2, <1>3, FS_Subset, FS_CardinalityType

\* Smaller piles hold no more.
LEMMA PileOrdered ==
    ASSUME NEW m \in Nat, NEW v \in [Callers -> 0..m], NEW w \in [Callers -> 0..m],
           \A c \in Callers : v[c] <= w[c]
    PROVE  Cardinality(Pile(v, m)) <= Cardinality(Pile(w, m))
<1>1. ASSUME NEW u \in Pile(v, m) PROVE u \in Pile(w, m)
  <2>1. u \in Callers \X (1..m) /\ u[1] \in Callers /\ u[2] \in 1..m /\ u[2] <= v[u[1]]
    BY DEF Pile
  <2>2. v[u[1]] <= w[u[1]] /\ v[u[1]] \in 0..m /\ w[u[1]] \in 0..m
    BY <2>1
  <2> QED
    BY <2>1, <2>2 DEF Pile
<1> QED
  BY <1>1, PileOK, FS_Subset

\* The pile of one caller alone.
LEMMA OnePile ==
    ASSUME NEW c, NEW n \in Nat
    PROVE  IsFiniteSet({c} \X (1..n)) /\ Cardinality({c} \X (1..n)) = n
<1>1. IsFiniteSet({c}) /\ Cardinality({c}) = 1
  BY FS_Singleton
<1>2. IsFiniteSet(1..n) /\ Cardinality(1..n) = n
  BY FS_Interval
<1>3. /\ IsFiniteSet({c} \X (1..n))
      /\ Cardinality({c} \X (1..n)) = Cardinality({c}) * Cardinality(1..n)
  BY <1>1, <1>2, FS_Product
<1> QED
  BY <1>1, <1>2, <1>3

\* When one caller's pile changes, the number of units changes by that.
LEMMA PileMoves ==
    ASSUME NEW m \in Nat, NEW w \in [Callers -> 0..m], NEW c \in Callers, NEW n \in 0..m
    PROVE  Cardinality(Pile([w EXCEPT ![c] = n], m)) = Cardinality(Pile(w, m)) - w[c] + n
<1> DEFINE others == {u \in Pile(w, m) : u[1] # c}
           own(j) == {c} \X (1..j)
           v == [w EXCEPT ![c] = n]
<1>1. w[c] \in 0..m /\ w[c] \in Nat /\ n \in Nat /\ v[c] = n /\ v \in [Callers -> 0..m]
      /\ \A d \in Callers : d # c => v[d] = w[d]
  OBVIOUS
<1>2. IsFiniteSet(others) /\ Cardinality(others) \in Nat
  BY PileOK, FS_Subset, FS_CardinalityType
<1>3. ASSUME NEW j \in 0..m
      PROVE  Cardinality(others \cup own(j)) = Cardinality(others) + j
  <2>1. IsFiniteSet(own(j)) /\ Cardinality(own(j)) = j
    <3>1. j \in Nat
      OBVIOUS
    <3> QED
      BY <3>1, OnePile
  <2>2. others \cap own(j) = {}
    OBVIOUS
  <2>3. Cardinality(others \cap own(j)) = 0
    BY <2>2, FS_EmptySet
  <2> HIDE DEF others, own
  <2>4. Cardinality(others \cup own(j))
          = Cardinality(others) + Cardinality(own(j)) - Cardinality(others \cap own(j))
    BY <1>2, <2>1, FS_Union
  <2> QED
    BY <1>2, <2>1, <2>3, <2>4
<1>4. Pile(w, m) = others \cup own(w[c])
  BY <1>1 DEF Pile
<1>5. Pile(v, m) = others \cup own(n)
  BY <1>1 DEF Pile
<1> HIDE DEF others, own, v
<1>6. /\ Cardinality(Pile(w, m)) = Cardinality(others) + w[c]
      /\ Cardinality(Pile(v, m)) = Cardinality(others) + n
  BY <1>1, <1>3, <1>4, <1>5
<1> QED
  BY <1>1, <1>2, <1>6 DEF v

\* A number of callers with at most b units each have no more than b times as many.
LEMMA PileBound ==
    ASSUME NEW m \in Nat, NEW w \in [Callers -> 0..m], NEW b \in 0..m,
           NEW S \in SUBSET Callers, NEW s \in Nat, Cardinality(S) <= s,
           \A c \in Callers : w[c] <= b /\ (w[c] > 0 => c \in S)
    PROVE  Cardinality(Pile(w, m)) <= s * b
<1>1. IsFiniteSet(S) /\ Cardinality(S) \in Nat
  BY FS_Subset, FS_CardinalityType, LimiterAssumption
<1>2. IsFiniteSet(1..b) /\ Cardinality(1..b) = b
  BY FS_Interval
<1>3. IsFiniteSet(S \X (1..b)) /\ Cardinality(S \X (1..b)) = Cardinality(S) * Cardinality(1..b)
  BY <1>1, <1>2, FS_Product
<1>4. ASSUME NEW u \in Pile(w, m) PROVE u \in S \X (1..b)
  <2>1. u \in Callers \X (1..m) /\ u[1] \in Callers /\ u[2] \in 1..m /\ u[2] <= w[u[1]]
        /\ u = <<u[1], u[2]>>
    BY DEF Pile
  <2>2. w[u[1]] \in 0..m /\ w[u[1]] <= b /\ (w[u[1]] > 0 => u[1] \in S)
    BY <2>1
  <2>3. u[1] \in S /\ u[2] \in 1..b
    BY <2>1, <2>2
  <2> QED
    BY <2>1, <2>3
<1>5. Pile(w, m) \in SUBSET (S \X (1..b))
  BY <1>4
<1>6. Cardinality(Pile(w, m)) <= Cardinality(S) * b
  BY <1>2, <1>3, <1>5, FS_Subset
<1>7. Cardinality(S) * b <= s * b
  BY <1>1
<1>8. Cardinality(Pile(w, m)) \in Nat /\ Cardinality(S) * b \in Nat /\ s * b \in Nat
  BY <1>1, PileOK
<1> QED
  BY <1>6, <1>7, <1>8

-----------------------------------------------------------------------------
\* What a caller that will sleep for more than t ticks owes in bucket k; with -1,
\* what any sleeper owes.
Owes(a, k, t) == IF a.at = "sleeping" /\ a.due > t THEN Charge(a.cost)[k] ELSE 0
Owing(k, t) == [c \in Callers |-> Owes(acq[c], k, t)]
Late(k, t) == Cardinality(Pile(Owing(k, t), Capacity[k]))

\* The headroom covers the level with all that is owed; and after any number of
\* ticks the level with what is still owed then will have been refilled.
Covered ==
    /\ headroom \in [Buckets -> Int]
    /\ \A k \in Buckets :
          /\ level[k] + Late(k, -1) <= headroom[k]
          /\ \A t \in Nat : level[k] + Rate[k] * t + Late(k, t) >= 0

RateInv == IInv /\ Covered

\* What one caller can owe.
OneCharge(k) == IF k = "requests" THEN 1 ELSE Capacity[k]

\* A sleeper owes no more than a bucket holds, and nobody else owes anything.
LEMMA OwesOK ==
    ASSUME NEW a \in Acquiring, NEW k \in Buckets, NEW t \in Int
    PROVE  /\ Owes(a, k, t) \in 0..Capacity[k]
           /\ Owes(a, k, t) <= OneCharge(k)
           /\ Owes(a, k, t) > 0 => a.at = "sleeping"
           /\ OneCharge(k) \in 0..Capacity[k] /\ Capacity[k] \in Nat /\ Rate[k] \in Nat \ {0}
<1>1. a.cost \in Nat
  <2>1. a.cost \in Costs \cup {0}
    BY DEF Acquiring
  <2>2. \A n \in Costs : n \in Nat
    BY LimiterAssumption
  <2> QED
    BY <2>1, <2>2
<1>2. /\ Charge(a.cost)[k] \in Nat /\ Charge(a.cost)[k] <= Capacity[k]
      /\ Capacity[k] \in Nat \ {0} /\ Rate[k] \in Nat \ {0}
  BY <1>1, ChargeOK, LimiterAssumption
<1>3. k = "requests" => Charge(a.cost)[k] <= 1
  BY <1>2 DEF Charge, Least
<1> QED
  BY <1>2, <1>3 DEF Owes, OneCharge

\* The piles of the model are those of the proof.
LEMMA LateOK ==
    ASSUME TypeOK, NEW k \in Buckets, NEW t \in Int
    PROVE  /\ Owing(k, t) \in [Callers -> 0..Capacity[k]]
           /\ Late(k, t) \in Nat
           /\ Late(k, t) <= Late(k, -1)
           /\ ReservedUnits(k) = Pile(Owing(k, -1), Capacity[k])
<1>1. \A c \in Callers : acq[c] \in Acquiring
  BY DEF TypeOK
<1>2. \A s \in Int : Owing(k, s) \in [Callers -> 0..Capacity[k]]
  BY <1>1, OwesOK DEF Owing
<1>3. Capacity[k] \in Nat
  BY LimiterAssumption
<1>4. Late(k, t) \in Nat
  BY <1>3, PileOK DEF Late
<1>5. \A c \in Callers : Owing(k, t)[c] <= Owing(k, -1)[c]
  <2> SUFFICES ASSUME NEW c \in Callers PROVE Owes(acq[c], k, t) <= Owes(acq[c], k, -1)
    BY DEF Owing
  <2>1. acq[c].due \in Nat /\ Owes(acq[c], k, -1) \in 0..Capacity[k]
        /\ Owes(acq[c], k, t) \in 0..Capacity[k]
    BY <1>1, OwesOK DEF Acquiring
  <2> QED
    BY <2>1 DEF Owes
<1>6. Late(k, t) <= Late(k, -1)
  <2> DEFINE v == Owing(k, t)
             w == Owing(k, -1)
  <2>1. v \in [Callers -> 0..Capacity[k]] /\ w \in [Callers -> 0..Capacity[k]]
        /\ \A c \in Callers : v[c] <= w[c]
    BY <1>2, <1>5
  <2>2. Late(k, t) = Cardinality(Pile(v, Capacity[k])) /\ Late(k, -1) = Cardinality(Pile(w, Capacity[k]))
    BY DEF Late
  <2> HIDE DEF v, w
  <2> QED
    BY <1>3, <2>1, <2>2, PileOrdered
<1>7. ReservedUnits(k) = Pile(Owing(k, -1), Capacity[k])
  <2>1. \A c \in Callers : acq[c].due > -1
    BY <1>1 DEF Acquiring
  <2>2. ASSUME NEW u \in Callers \X (1..Capacity[k])
        PROVE  (u[1] \in Sleepers /\ u[2] <= Charge(acq[u[1]].cost)[k]) <=> u[2] <= Owing(k, -1)[u[1]]
    BY <2>1 DEF Sleepers, Owing, Owes
  <2>3. Sleepers \subseteq Callers
    BY DEF Sleepers
  <2> QED
    BY <2>2, <2>3 DEF ReservedUnits, Pile
<1> QED
  BY <1>2, <1>4, <1>6, <1>7

\* When one caller moves, what is owed changes by what it owes.
LEMMA LateMoves ==
    ASSUME TypeOK, NEW c \in Callers, NEW a \in Acquiring, acq' = [acq EXCEPT ![c] = a],
           NEW k \in Buckets, NEW t \in Int
    PROVE  Late(k, t)' = Late(k, t) - Owes(acq[c], k, t) + Owes(a, k, t)
<1> DEFINE w == Owing(k, t)
           n == Owes(a, k, t)
<1>1. w \in [Callers -> 0..Capacity[k]] /\ w[c] = Owes(acq[c], k, t) /\ n \in 0..Capacity[k]
      /\ Capacity[k] \in Nat
  BY LateOK, OwesOK DEF Owing
<1>2. Owing(k, t)' = [w EXCEPT ![c] = n]
  BY DEF TypeOK, Owing, Owes
<1> HIDE DEF w, n
<1>3. Cardinality(Pile([w EXCEPT ![c] = n], Capacity[k]))
        = Cardinality(Pile(w, Capacity[k])) - w[c] + n
  BY <1>1, PileMoves
<1>4. Late(k, t)' = Cardinality(Pile(Owing(k, t)', Capacity[k]))
  BY DEF Late, Pile
<1>5. Late(k, t) = Cardinality(Pile(w, Capacity[k]))
  BY DEF Late, w
<1> QED
  BY <1>1, <1>2, <1>3, <1>4, <1>5 DEF n

\* All that is owed fits above the brim of a full bucket.
LEMMA LateFits ==
    ASSUME TypeOK, SlotsConserved, NEW k \in Buckets
    PROVE  Late(k, -1) <= Slots * OneCharge(k)
<1>1. Holding \subseteq Callers /\ Cardinality(Holding) \in Nat
  BY FS_Subset, FS_CardinalityType, LimiterAssumption DEF Holding
<1>2. Cardinality(Holding) <= Slots /\ Slots \in Nat
  BY <1>1, LimiterAssumption DEF SlotsConserved, TypeOK
<1>3. Owing(k, -1) \in [Callers -> 0..Capacity[k]] /\ Capacity[k] \in Nat
  BY LateOK, LimiterAssumption
<1>4. ASSUME NEW c \in Callers
      PROVE  Owing(k, -1)[c] <= OneCharge(k) /\ (Owing(k, -1)[c] > 0 => c \in Holding)
  <2>1. acq[c] \in Acquiring
    BY DEF TypeOK
  <2>2. /\ Owes(acq[c], k, -1) <= OneCharge(k)
        /\ Owes(acq[c], k, -1) > 0 => acq[c].at = "sleeping"
    BY <2>1, OwesOK
  <2> QED
    BY <2>2 DEF Owing, Holding
<1>5. OneCharge(k) \in 0..Capacity[k]
  BY LimiterAssumption DEF OneCharge
<1>6. Holding \in SUBSET Callers
  BY <1>1
<1> QED
  BY <1>2, <1>3, <1>4, <1>5, <1>6, PileBound DEF Late

-----------------------------------------------------------------------------
\* A wait covers the debt in either bucket: the waits of TicksFor are rounded up.
LEMMA WaitCovers ==
    ASSUME NEW lv \in Level, NEW k \in Buckets, NEW t \in Nat, t >= Wait(lv)
    PROVE  lv[k] + Rate[k] * t >= 0
<1>1. lv[k] \in Int /\ Rate[k] \in Nat \ {0} /\ Wait(lv) \in Nat
  BY WaitOK, LimiterAssumption DEF Level
<1>2. ASSUME NEW d \in Int, NEW r \in Nat \ {0}
      PROVE  TicksFor(d, r) \in Nat /\ r * TicksFor(d, r) >= d
  <2>1. CASE d <= 0
    BY <2>1 DEF TicksFor
  <2>2. CASE d > 0
    <3> DEFINE e == d + r - 1
               q == e \div r
    <3>1. e \in Nat /\ TicksFor(d, r) = q
      BY <2>2 DEF TicksFor
    <3> HIDE DEF e
    <3>2. q \in Nat /\ e = r * q + (e % r) /\ e % r \in 0..(r - 1)
      BY <3>1
    <3> HIDE DEF q
    <3>3. r * q \in Nat
      BY <3>2
    <3>4. r * q >= d
      BY <3>2, <3>3 DEF e
    <3> QED
      BY <3>1, <3>2, <3>4
  <2> QED
    BY <2>1, <2>2
<1>3. TicksFor(-lv[k], Rate[k]) \in Nat /\ Rate[k] * TicksFor(-lv[k], Rate[k]) >= -lv[k]
  BY <1>1, <1>2
<1>4. Wait(lv) >= TicksFor(-lv[k], Rate[k])
  <2>1. \A b \in Buckets : TicksFor(-lv[b], Rate[b]) \in Nat
    BY <1>2, LimiterAssumption DEF Level
  <2> QED
    BY <2>1 DEF Wait, Most, Buckets
<1>5. ASSUME NEW x \in Nat, NEW y \in Nat, NEW r \in Nat, x <= y PROVE r * x <= r * y
  BY <1>5
<1>6. Rate[k] * TicksFor(-lv[k], Rate[k]) <= Rate[k] * t
  BY <1>1, <1>3, <1>4, <1>5
<1>7. Rate[k] * TicksFor(-lv[k], Rate[k]) \in Int /\ Rate[k] * t \in Int
  BY <1>1, <1>3
<1> QED
  BY <1>1, <1>3, <1>6, <1>7

\* The ways a caller moves in a step, and what each does to the buckets.
Idles(c, a) == /\ acq[c].at # "sleeping" /\ a.at \notin {"sleeping", "in"}
               /\ level' = level
Sleeps(c, a) == /\ ~Holds(acq[c]) /\ a.at = "sleeping"
                /\ \A k \in Buckets :
                      /\ level'[k] = level[k] - Charge(a.cost)[k]
                      /\ \A t \in Nat : t >= a.due => level'[k] + Rate[k] * t >= 0
GoesIn(c, a) == /\ ~Holds(acq[c]) /\ a.at = "in"
                /\ \A k \in Buckets : level'[k] <= level[k] /\ level'[k] >= 0
Wakes(c, a) == /\ acq[c].at = "sleeping" /\ acq[c].due = 0 /\ a.at = "in"
               /\ level' = level
Cancels(c, a) == /\ acq[c].at = "sleeping" /\ a.at = "out"
                 /\ level' = Refunded(level, acq[c].cost)

Moves(c, a) == Idles(c, a) \/ Sleeps(c, a) \/ GoesIn(c, a) \/ Wakes(c, a) \/ Cancels(c, a)

\* acquire() from the moment it holds a slot.
LEMMA ReserveMoves ==
    ASSUME TypeOK, NEW c \in Callers, NEW cost \in Costs \cup {0},
           NEW left \in Nat \cup {NoLimit}, Reserve(c, cost, left), ~Holds(acq[c])
    PROVE  \E a \in Acquiring : acq' = [acq EXCEPT ![c] = a] /\ Moves(c, a)
<1> DEFINE lv == Reserved(level, cost)
           sleeping == [at |-> "sleeping", cost |-> cost, left |-> left, due |-> Wait(lv)]
           inside == [at |-> "in", cost |-> 0, left |-> NoLimit, due |-> 0]
<1>1. cost \in Nat /\ level \in Level /\ acq[c].at # "sleeping"
  BY CostsAreNats, LimiterAssumption DEF Holds
<1>2. Wait(lv) \in Nat /\ lv \in Level /\ Refunded(lv, cost) = level
  BY <1>1, ReservedOK, WaitOK, RefundedOK
<1>3. /\ Out \in Acquiring /\ inside \in Acquiring /\ sleeping \in Acquiring
      /\ Out.at = "out" /\ inside.at = "in" /\ sleeping.at = "sleeping"
      /\ sleeping.cost = cost /\ sleeping.due = Wait(lv)
  BY <1>2 DEF Acquiring, Out
<1>4. [Out EXCEPT !.at = "in"] = inside
  BY DEF Out
<1>5. \A k \in Buckets : lv[k] = level[k] - Charge(cost)[k] /\ Charge(cost)[k] \in Nat
                         /\ level[k] \in Int
  BY <1>1, ChargeOK DEF Reserved, Level
<1>6. \/ level' = Refunded(lv, cost) /\ acq' = [acq EXCEPT ![c] = Out]
      \/ level' = lv /\ acq' = [acq EXCEPT ![c] = sleeping]
      \/ ~(Wait(lv) > 0) /\ level' = lv /\ acq' = [acq EXCEPT ![c] = inside]
  BY <1>4 DEF Reserve, Admit
<1> HIDE DEF sleeping, inside, lv
<1>7. CASE level' = Refunded(lv, cost) /\ acq' = [acq EXCEPT ![c] = Out]
  <2>1. Idles(c, Out)
    BY <1>1, <1>2, <1>3, <1>7 DEF Idles
  <2> QED
    BY <1>3, <1>7, <2>1 DEF Moves
<1>8. CASE level' = lv /\ acq' = [acq EXCEPT ![c] = sleeping]
  <2>1. \A k \in Buckets, t \in Nat : t >= Wait(lv) => lv[k] + Rate[k] * t >= 0
    BY <1>2, WaitCovers
  <2>2. Sleeps(c, sleeping)
    BY <1>3, <1>5, <1>8, <2>1 DEF Sleeps
  <2> QED
    BY <1>3, <1>8, <2>2 DEF Moves
<1>9. CASE ~(Wait(lv) > 0) /\ level' = lv /\ acq' = [acq EXCEPT ![c] = inside]
  <2>1. ASSUME NEW k \in Buckets PROVE lv[k] >= 0
    <3>1. 0 \in Nat /\ 0 >= Wait(lv)
      BY <1>2, <1>9
    <3>2. lv[k] + Rate[k] * 0 >= 0
      BY <1>2, <3>1, WaitCovers
    <3>3. Rate[k] * 0 = 0 /\ lv[k] \in Int
      BY <1>2, LimiterAssumption DEF Level
    <3> QED
      BY <3>2, <3>3
  <2>2. GoesIn(c, inside)
    BY <1>3, <1>5, <1>9, <2>1 DEF GoesIn
  <2> QED
    BY <1>3, <1>9, <2>2 DEF Moves
<1> QED
  BY <1>6, <1>7, <1>8, <1>9

\* Every step but a tick is a move of one caller.
LEMMA StepMoves ==
    ASSUME IInv, Step
    PROVE  \E c \in Callers, a \in Acquiring : acq' = [acq EXCEPT ![c] = a] /\ Moves(c, a)
<1>1. /\ TypeOK /\ QueueExact /\ queue \in Seq(Callers) /\ IsInjective(queue)
  BY DEF IInv, TypeOK, QueueExact
<1>2. Out \in Acquiring /\ Out.at = "out"
  BY DEF Out, Acquiring
<1>3. ASSUME NEW c \in Callers, Enter(c)
      PROVE  \E a \in Acquiring : acq' = [acq EXCEPT ![c] = a] /\ Moves(c, a)
  <2>1. PICK cost \in Costs, w \in MaxWaits : Reserve(c, cost, w)
    BY <1>3 DEF Enter
  <2>2. w \in Nat \cup {NoLimit} /\ ~Holds(acq[c])
    BY <1>3, LimiterAssumption DEF Enter, Holds
  <2> QED
    BY <1>1, <2>1, <2>2, ReserveMoves
<1>4. ASSUME NEW c \in Callers, Dequeue(c)
      PROVE  \E a \in Acquiring : acq' = [acq EXCEPT ![c] = a] /\ Moves(c, a)
  <2>1. queue # << >> /\ c = Head(queue) /\ Reserve(c, acq[c].cost, acq[c].left)
    BY <1>4 DEF Dequeue
  <2>2. c \in ToSet(queue)
    BY <1>1, <2>1, TailOK
  <2>3. ~Holds(acq[c])
    BY <1>1, <2>2 DEF QueueExact, Holds
  <2>4. acq[c].left \in Nat \cup {NoLimit} /\ acq[c].cost \in Costs \cup {0}
    BY <1>1 DEF TypeOK, Acquiring
  <2> QED
    BY <1>1, <2>1, <2>3, <2>4, ReserveMoves
<1>5. ASSUME NEW c \in Callers, Queue(c)
      PROVE  \E a \in Acquiring : acq' = [acq EXCEPT ![c] = a] /\ Moves(c, a)
  <2>1. PICK cost \in Costs, w \in MaxWaits \ {0} :
          acq' = [acq EXCEPT ![c] = [at |-> "queued", cost |-> cost, left |-> w, due |-> 0]]
    BY <1>5 DEF Queue
  <2> DEFINE q == [at |-> "queued", cost |-> cost, left |-> w, due |-> 0]
  <2>2. q \in Acquiring /\ q.at = "queued"
    BY <2>1, LimiterAssumption DEF Acquiring
  <2>3. acq' = [acq EXCEPT ![c] = q] /\ acq[c].at = "out" /\ level' = level
    BY <1>5, <2>1 DEF Queue
  <2> HIDE DEF q
  <2>4. Moves(c, q)
    BY <2>2, <2>3 DEF Moves, Idles
  <2> QED
    BY <2>2, <2>3, <2>4
<1>6. ASSUME NEW c \in Callers, Wake(c)
      PROVE  \E a \in Acquiring : acq' = [acq EXCEPT ![c] = a] /\ Moves(c, a)
  <2> DEFINE inside == [Out EXCEPT !.at = "in"]
  <2>1. inside \in Acquiring /\ inside.at = "in"
    BY DEF Out, Acquiring
  <2>2. acq' = [acq EXCEPT ![c] = inside] /\ acq[c].at = "sleeping" /\ acq[c].due = 0
        /\ level' = level
    BY <1>6 DEF Wake, Admit
  <2> HIDE DEF inside
  <2>3. Moves(c, inside)
    BY <2>1, <2>2 DEF Moves, Wakes
  <2> QED
    BY <2>1, <2>2, <2>3
<1>7. ASSUME NEW c \in Callers, CancelSleep(c)
      PROVE  acq' = [acq EXCEPT ![c] = Out] /\ Moves(c, Out)
  BY <1>2, <1>7 DEF CancelSleep, Moves, Cancels
<1>8. ASSUME NEW c \in Callers, LeaveQueue(c) \/ Release(c)
      PROVE  acq' = [acq EXCEPT ![c] = Out] /\ Moves(c, Out)
  BY <1>2, <1>8 DEF LeaveQueue, Release, Moves, Idles
<1> QED
  BY <1>2, <1>3, <1>4, <1>5, <1>6, <1>7, <1>8 DEF Step

\* Time refills the buckets and the headroom, and brings the sleepers nearer.
LEMMA TickCovers ==
    ASSUME RateInv, TickMetered
    PROVE  Covered'
<1>1. /\ TypeOK /\ SlotsConserved /\ level \in Level /\ headroom \in [Buckets -> Int]
      /\ \A c \in Callers : acq[c] \in Acquiring
  BY DEF RateInv, IInv, TypeOK, Covered, Level
<1>2. ASSUME NEW c \in Callers, NEW k \in Buckets
      PROVE  /\ Owes(acq'[c], k, -1) = Owes(acq[c], k, -1)
             /\ \A t \in Nat : Owes(acq'[c], k, t) = Owes(acq[c], k, t + 1)
  <2>1. acq[c].due \in Nat
    BY <1>1 DEF Acquiring
  <2>2. /\ acq'[c].at = acq[c].at /\ acq'[c].cost = acq[c].cost
        /\ acq'[c].due = IF acq[c].due = 0 THEN 0 ELSE acq[c].due - 1
    BY <2>1 DEF TickMetered, Tick, Less
  <2>3. acq'[c].due > -1 /\ acq[c].due > -1
        /\ \A t \in Nat : acq'[c].due > t <=> acq[c].due > t + 1
    BY <2>1, <2>2
  <2> QED
    BY <2>2, <2>3 DEF Owes
<1>3. ASSUME NEW k \in Buckets
      PROVE  /\ Late(k, -1)' = Late(k, -1)
             /\ \A t \in Nat : Late(k, t)' = Late(k, t + 1)
  <2>1. /\ Owing(k, -1)' = Owing(k, -1)
        /\ \A t \in Nat : Owing(k, t)' = Owing(k, t + 1)
    BY <1>2 DEF Owing
  <2>2. \A t \in Int : Late(k, t)' = Cardinality(Pile(Owing(k, t)', Capacity[k]))
    BY DEF Late, Pile
  <2> QED
    BY <2>1, <2>2 DEF Late
<1>4. ASSUME NEW k \in Buckets
      PROVE  /\ headroom'[k] \in Int
             /\ level'[k] + Late(k, -1)' <= headroom'[k]
             /\ \A t \in Nat : level'[k] + Rate[k] * t + Late(k, t)' >= 0
  <2>1. /\ level[k] \in Int /\ Rate[k] \in Nat /\ Capacity[k] \in Nat /\ headroom[k] \in Int
        /\ Late(k, -1) \in Nat /\ \A t \in Nat : Late(k, t + 1) \in Nat
        /\ level[k] + Late(k, -1) <= headroom[k]
        /\ \A t \in Nat : level[k] + Rate[k] * (t + 1) + Late(k, t + 1) >= 0
    BY <1>1, LateOK, LimiterAssumption DEF RateInv, Covered, Level
  <2>2. /\ level'[k] = Least(Capacity[k], level[k] + Rate[k])
        /\ headroom'[k] = Least(Brim(k), headroom[k] + Rate[k])
    BY DEF TickMetered, Tick, Refilled
  <2>3. Late(k, -1) <= Slots * OneCharge(k) /\ Brim(k) = Capacity[k] + Slots * OneCharge(k)
        /\ Slots * OneCharge(k) \in Nat
    BY <1>1, LateFits, LimiterAssumption DEF Brim, OneCharge
  <2>4. headroom'[k] \in Int /\ level'[k] + Late(k, -1)' <= headroom'[k]
    BY <1>3, <2>1, <2>2, <2>3 DEF Least
  <2>5. ASSUME NEW t \in Nat PROVE level'[k] + Rate[k] * t + Late(k, t + 1) >= 0
    <3>1. Rate[k] * (t + 1) = Rate[k] * t + Rate[k] /\ Rate[k] * t \in Nat
      BY <2>1
    <3> QED
      BY <2>1, <2>2, <3>1 DEF Least
  <2> QED
    BY <1>3, <2>4, <2>5
<1>5. headroom' \in [Buckets -> Int]
  BY <1>4 DEF TickMetered
<1> QED
  BY <1>4, <1>5 DEF Covered

\* A step that lets nobody in leaves the headroom alone; one that lets c in lowers
\* it by what c was charged.
LEMMA HeadroomMoves ==
    ASSUME RateInv, StepMetered, NEW c \in Callers, NEW a \in Acquiring,
           acq' = [acq EXCEPT ![c] = a]
    PROVE  headroom' = IF a.at = "in" /\ acq[c].at # "in"
                       THEN [k \in Buckets |-> headroom[k] - Charged(c, k)] ELSE headroom
<1>1. Inside' \ Inside = IF a.at = "in" /\ acq[c].at # "in" THEN {c} ELSE {}
  BY DEF RateInv, IInv, TypeOK, Inside
<1> QED
  BY <1>1 DEF StepMetered

\* A move keeps the account: what leaves the bucket is owed, charged, or lost at the brim.
LEMMA MoveCovers ==
    ASSUME RateInv, StepMetered, NEW c \in Callers, NEW a \in Acquiring,
           acq' = [acq EXCEPT ![c] = a], Moves(c, a), NEW k \in Buckets
    PROVE  /\ headroom'[k] \in Int
           /\ level'[k] + Late(k, -1)' <= headroom'[k]
           /\ \A t \in Nat : level'[k] + Rate[k] * t + Late(k, t)' >= 0
<1>1. /\ TypeOK /\ level \in Level /\ headroom \in [Buckets -> Int]
      /\ acq[c] \in Acquiring /\ acq[c].cost \in Nat
  BY CostsAreNats DEF RateInv, IInv, TypeOK, Covered, Level
<1>2. /\ level[k] \in Int /\ Rate[k] \in Nat /\ Capacity[k] \in Nat /\ headroom[k] \in Int
      /\ level[k] + Late(k, -1) <= headroom[k]
      /\ \A t \in Nat : level[k] + Rate[k] * t + Late(k, t) >= 0
      /\ \A t \in Nat : Rate[k] * t \in Nat
  BY <1>1, LimiterAssumption DEF RateInv, Covered, Level
<1>3. \A t \in Int : /\ Late(k, t) \in Nat /\ Late(k, t) <= Late(k, -1)
                     /\ Owes(acq[c], k, t) \in Nat /\ Owes(a, k, t) \in Nat
                     /\ Late(k, t)' = Late(k, t) - Owes(acq[c], k, t) + Owes(a, k, t)
  <2> SUFFICES ASSUME NEW t \in Int
               PROVE  /\ Late(k, t) \in Nat /\ Late(k, t) <= Late(k, -1)
                      /\ Owes(acq[c], k, t) \in Nat /\ Owes(a, k, t) \in Nat
                      /\ Late(k, t)' = Late(k, t) - Owes(acq[c], k, t) + Owes(a, k, t)
    OBVIOUS
  <2>1. Late(k, t) \in Nat /\ Late(k, t) <= Late(k, -1)
    BY <1>1, LateOK
  <2>2. Owes(acq[c], k, t) \in 0..Capacity[k] /\ Owes(a, k, t) \in 0..Capacity[k]
    BY <1>1, OwesOK
  <2>3. Late(k, t)' = Late(k, t) - Owes(acq[c], k, t) + Owes(a, k, t)
    BY <1>1, LateMoves
  <2> QED
    BY <1>2, <2>1, <2>2, <2>3
<1>4. /\ acq[c].due \in Nat /\ a.due \in Nat
      /\ \A t \in Int : acq[c].at # "sleeping" => Owes(acq[c], k, t) = 0
      /\ \A t \in Int : a.at # "sleeping" => Owes(a, k, t) = 0
  BY <1>1 DEF Acquiring, Owes
<1>5. \A t \in Int : Late(k, t)' \in Nat
  <2>1. TypeOK'
    BY InductiveStep DEF RateInv, StepMetered, Next, IInv
  <2>2. \A t \in Int : Cardinality(Pile(Owing(k, t)', Capacity[k])) \in Nat
    BY <1>2, PileOK
  <2> QED
    BY <2>2 DEF Late, Pile
<1>6. CASE Idles(c, a)
  <2>1. headroom' = headroom /\ level' = level
    BY <1>6, HeadroomMoves DEF Idles
  <2>2. \A t \in Int : Late(k, t)' = Late(k, t)
    BY <1>3, <1>4, <1>6 DEF Idles
  <2>3. headroom'[k] \in Int /\ level'[k] + Late(k, -1)' <= headroom'[k]
    <3>1. Late(k, -1)' = Late(k, -1)
      BY <2>2
    <3>2. headroom[k] \in Int /\ level[k] + Late(k, -1) <= headroom[k]
      BY <1>2
    <3> QED
      BY <2>1, <3>1, <3>2
  <2>4. ASSUME NEW t \in Nat PROVE level'[k] + Rate[k] * t + Late(k, t)' >= 0
    <3>1. t \in Int /\ level'[k] = level[k]
      BY <2>1
    <3>2. Late(k, t)' = Late(k, t)
      BY <2>2, <3>1
    <3>3. level[k] + Rate[k] * t + Late(k, t) >= 0
      BY <1>2
    <3> QED
      BY <3>1, <3>2, <3>3
  <2> QED
    BY <2>3, <2>4
<1>7. CASE Sleeps(c, a)
  <2>1. headroom' = headroom /\ level'[k] = level[k] - Charge(a.cost)[k]
        /\ \A t \in Nat : t >= a.due => level'[k] + Rate[k] * t >= 0
    BY <1>7, HeadroomMoves DEF Sleeps
  <2>2. acq[c].at # "sleeping" /\ a.at = "sleeping"
    BY <1>7 DEF Sleeps, Holds
  <2>3. \A t \in Int : Owes(a, k, t) = IF a.due > t THEN Charge(a.cost)[k] ELSE 0
    BY <2>2 DEF Owes
  <2>4. Charge(a.cost)[k] \in Nat
    BY <1>3, <1>4, <2>3
  <2>5. level'[k] + Late(k, -1)' <= headroom'[k]
    BY <1>2, <1>3, <1>4, <2>1, <2>2, <2>3, <2>4
  <2>6. ASSUME NEW t \in Nat PROVE level'[k] + Rate[k] * t + Late(k, t)' >= 0
    <3>1. /\ level[k] + Rate[k] * t + Late(k, t) >= 0 /\ Rate[k] * t \in Nat
          /\ Late(k, t)' \in Nat /\ Late(k, t) \in Nat
          /\ Late(k, t)' = Late(k, t) + Owes(a, k, t)
          /\ Owes(a, k, t) = IF a.due > t THEN Charge(a.cost)[k] ELSE 0
      <4>1. t \in Int
        OBVIOUS
      <4>2. level[k] + Rate[k] * t + Late(k, t) >= 0 /\ Rate[k] * t \in Nat
        BY <1>2
      <4>3. Late(k, t)' \in Nat
        BY <1>5, <4>1
      <4>4. /\ Late(k, t) \in Nat /\ Owes(a, k, t) \in Nat
            /\ Late(k, t)' = Late(k, t) - Owes(acq[c], k, t) + Owes(a, k, t)
        BY <1>3, <4>1
      <4>5. Owes(acq[c], k, t) = 0
        BY <1>4, <2>2, <4>1
      <4>6. Late(k, t)' = Late(k, t) + Owes(a, k, t)
        BY <4>4, <4>5
      <4>7. Owes(a, k, t) = IF a.due > t THEN Charge(a.cost)[k] ELSE 0
        BY <2>3, <4>1
      <4> QED
        BY <4>2, <4>3, <4>4, <4>6, <4>7
    <3> DEFINE x == Rate[k] * t
               now == Late(k, t)
               after == Late(k, t)'
               ch == Charge(a.cost)[k]
    <3>2. /\ x \in Nat /\ now \in Nat /\ after \in Nat /\ ch \in Nat /\ level[k] \in Int
          /\ level'[k] = level[k] - ch /\ level[k] + x + now >= 0
          /\ after = IF a.due > t THEN now + ch ELSE now
          /\ ~(a.due > t) => level'[k] + x >= 0
      BY <1>2, <1>4, <2>1, <2>4, <3>1
    <3> HIDE DEF x, now, after, ch
    <3>3. level'[k] + x + after >= 0
      BY <3>2
    <3> QED
      BY <3>3 DEF x, after
  <2> QED
    BY <1>2, <2>1, <2>5, <2>6
<1>8. CASE GoesIn(c, a)
  <2>1. acq[c].at # "sleeping" /\ acq[c].at # "in" /\ a.at = "in"
        /\ level'[k] <= level[k] /\ level'[k] >= 0
    BY <1>8 DEF GoesIn, Holds
  <2>2. headroom'[k] = headroom[k] - (level[k] - level'[k])
    BY <2>1, HeadroomMoves DEF Charged
  <2>3. level'[k] \in Int
    BY InductiveStep DEF RateInv, StepMetered, Next, IInv, TypeOK
  <2>4. \A t \in Int : Late(k, t)' = Late(k, t)
    BY <1>3, <1>4, <2>1
  <2>5. headroom'[k] \in Int /\ level'[k] + Late(k, -1)' <= headroom'[k]
    <3>1. Late(k, -1)' = Late(k, -1) /\ Late(k, -1) \in Nat
      BY <1>3, <2>4
    <3>2. level[k] \in Int /\ headroom[k] \in Int /\ level[k] + Late(k, -1) <= headroom[k]
      BY <1>2
    <3> QED
      BY <2>2, <2>3, <3>1, <3>2
  <2>6. ASSUME NEW t \in Nat PROVE level'[k] + Rate[k] * t + Late(k, t)' >= 0
    <3>1. Rate[k] * t \in Nat
      BY <1>2
    <3>2. Late(k, t)' \in Nat
      BY <1>5
    <3> QED
      BY <2>1, <2>3, <3>1, <3>2
  <2> QED
    BY <2>5, <2>6
<1>9. CASE Wakes(c, a)
  <2>1. acq[c].at = "sleeping" /\ acq[c].due = 0 /\ a.at = "in" /\ level' = level
    BY <1>9 DEF Wakes
  <2>2. headroom'[k] = headroom[k] - Charge(acq[c].cost)[k]
    BY <2>1, HeadroomMoves DEF Charged
  <2>3. Owes(acq[c], k, -1) = Charge(acq[c].cost)[k] /\ \A t \in Nat : Owes(acq[c], k, t) = 0
    BY <2>1 DEF Owes
  <2>4. \A t \in Nat : Late(k, t)' = Late(k, t)
    BY <1>3, <1>4, <2>1, <2>3
  <2>5. Late(k, -1)' = Late(k, -1) - Charge(acq[c].cost)[k] /\ Charge(acq[c].cost)[k] \in Nat
        /\ Late(k, -1) \in Nat
    BY <1>3, <1>4, <2>1, <2>3
  <2>6. headroom'[k] \in Int /\ level'[k] + Late(k, -1)' <= headroom'[k]
    <3>1. level[k] \in Int /\ headroom[k] \in Int /\ level[k] + Late(k, -1) <= headroom[k]
      BY <1>2
    <3>2. level'[k] = level[k]
      BY <2>1
    <3> QED
      BY <2>2, <2>5, <3>1, <3>2
  <2>7. ASSUME NEW t \in Nat PROVE level'[k] + Rate[k] * t + Late(k, t)' >= 0
    <3>1. t \in Int /\ level'[k] = level[k]
      BY <2>1
    <3>2. Late(k, t)' = Late(k, t)
      BY <2>4, <3>1
    <3>3. level[k] + Rate[k] * t + Late(k, t) >= 0
      BY <1>2
    <3> QED
      BY <3>1, <3>2, <3>3
  <2> QED
    BY <2>6, <2>7
<1>10. CASE Cancels(c, a)
  <2>1. /\ acq[c].at = "sleeping" /\ a.at = "out"
        /\ level'[k] = Least(Capacity[k], level[k] + Charge(acq[c].cost)[k])
    BY <1>10 DEF Cancels, Refunded
  <2>2. headroom' = headroom
    BY <2>1, HeadroomMoves
  <2>3. Charge(acq[c].cost)[k] \in Nat
    BY <1>1, ChargeOK
  <2>4. \A t \in Int : Owes(acq[c], k, t) = IF acq[c].due > t THEN Charge(acq[c].cost)[k] ELSE 0
    BY <2>1 DEF Owes
  <2>5. level'[k] + Late(k, -1)' <= headroom'[k]
    <3>1. Late(k, -1)' = Late(k, -1) - Charge(acq[c].cost)[k] /\ Late(k, -1) \in Nat
      BY <1>3, <1>4, <2>1, <2>3, <2>4
    <3> DEFINE ch == Charge(acq[c].cost)[k]
               now == Late(k, -1)
               after == Late(k, -1)'
    <3>2. /\ now \in Nat /\ ch \in Nat /\ level[k] \in Int /\ Capacity[k] \in Nat
          /\ headroom[k] \in Int /\ headroom'[k] = headroom[k]
          /\ level'[k] = Least(Capacity[k], level[k] + ch) /\ level[k] + now <= headroom[k]
          /\ after = now - ch
      BY <1>2, <2>1, <2>2, <2>3, <3>1
    <3> HIDE DEF now, after, ch
    <3>3. level'[k] + after <= headroom'[k]
      BY <3>2 DEF Least
    <3> QED
      BY <3>3 DEF after
  <2>6. ASSUME NEW t \in Nat PROVE level'[k] + Rate[k] * t + Late(k, t)' >= 0
    <3>1. /\ level[k] + Rate[k] * t + Late(k, t) >= 0 /\ Rate[k] * t \in Nat
          /\ Late(k, t)' \in Nat /\ Late(k, t) \in Nat
          /\ Late(k, t)' = Late(k, t) - Owes(acq[c], k, t)
          /\ Owes(acq[c], k, t) \in Nat /\ Owes(acq[c], k, t) <= Charge(acq[c].cost)[k]
      <4>1. t \in Int /\ Owes(acq[c], k, t) = IF acq[c].due > t THEN Charge(acq[c].cost)[k] ELSE 0
        BY <2>4
      <4>2. Late(k, t)' = Late(k, t) - Owes(acq[c], k, t)
        BY <1>3, <1>4, <2>1, <4>1
      <4>3. Owes(acq[c], k, t) \in Nat /\ Owes(acq[c], k, t) <= Charge(acq[c].cost)[k]
        BY <2>3, <4>1
      <4>4. Late(k, t)' \in Nat /\ Late(k, t) \in Nat
        BY <1>3, <1>5, <4>1
      <4>5. Rate[k] * t \in Nat /\ level[k] + Rate[k] * t + Late(k, t) >= 0
        BY <1>2
      <4> QED
        BY <4>2, <4>3, <4>4, <4>5
    <3> DEFINE x == Rate[k] * t
               now == Late(k, t)
               after == Late(k, t)'
               ch == Charge(acq[c].cost)[k]
               o == Owes(acq[c], k, t)
    <3>2. /\ x \in Nat /\ now \in Nat /\ after \in Nat /\ ch \in Nat /\ o \in Nat /\ o <= ch
          /\ level[k] \in Int /\ Capacity[k] \in Nat /\ level[k] + x + now >= 0
          /\ level'[k] = Least(Capacity[k], level[k] + ch) /\ after = now - o
      BY <1>2, <2>1, <2>3, <3>1
    <3> HIDE DEF x, now, after, ch, o
    <3>3. level'[k] + x + after >= 0
      BY <3>2 DEF Least
    <3> QED
      BY <3>3 DEF x, after
  <2> QED
    BY <1>2, <2>2, <2>5, <2>6
<1> QED
  BY <1>6, <1>7, <1>8, <1>9, <1>10 DEF Moves

\* The account holds at first, and every step keeps it.
LEMMA RateStep == RateInv /\ [TickMetered \/ StepMetered]_rateVars => RateInv'
<1> SUFFICES ASSUME RateInv, [TickMetered \/ StepMetered]_rateVars PROVE RateInv'
  OBVIOUS
<1>1. IInv'
  BY InductiveStep DEF RateInv, TickMetered, StepMetered, Next, rateVars
<1>2. CASE TickMetered
  BY <1>1, <1>2, TickCovers DEF RateInv
<1>3. CASE StepMetered
  <2>1. PICK c \in Callers, a \in Acquiring : acq' = [acq EXCEPT ![c] = a] /\ Moves(c, a)
    BY <1>3, StepMoves DEF RateInv, StepMetered
  <2>2. \A k \in Buckets :
          /\ headroom'[k] \in Int
          /\ level'[k] + Late(k, -1)' <= headroom'[k]
          /\ \A t \in Nat : level'[k] + Rate[k] * t + Late(k, t)' >= 0
    BY <1>3, <2>1, MoveCovers
  <2>3. headroom \in [Buckets -> Int]
    BY DEF RateInv, Covered
  <2>4. headroom' \in [Buckets -> Int]
    <3>1. headroom' = headroom \/ headroom' = [k \in Buckets |-> headroom[k] - Charged(c, k)]
      BY <1>3, <2>1, HeadroomMoves
    <3> QED
      BY <2>2, <2>3, <3>1
  <2> QED
    BY <1>1, <2>2, <2>4 DEF RateInv, Covered
<1>4. CASE UNCHANGED rateVars
  <2>1. level' = level /\ acq' = acq /\ headroom' = headroom
    BY <1>4 DEF rateVars, vars
  <2>2. \A k \in Buckets, t \in Int : Late(k, t)' = Late(k, t)
    BY <2>1 DEF Late, Pile, Owing, Owes
  <2>3. Covered
    BY DEF RateInv
  <2>4. Covered'
    BY <2>1, <2>2, <2>3 DEF Covered
  <2> QED
    BY <1>1, <2>4 DEF RateInv
<1> QED
  BY <1>2, <1>3, <1>4

LEMMA RateInitially == RateInit => RateInv
<1> SUFFICES ASSUME RateInit PROVE Covered
  BY InductiveInit DEF RateInit, RateInv
<1>1. level = Capacity /\ headroom = Capacity /\ Capacity \in [Buckets -> Nat \ {0}]
      /\ Rate \in [Buckets -> Nat \ {0}]
  BY LimiterAssumption DEF RateInit, Init
<1>2. ASSUME NEW k \in Buckets, NEW t \in Int PROVE Late(k, t) = 0
  <2>1. \A c \in Callers : Owing(k, t)[c] = 0
    BY DEF RateInit, Init, Out, Owing, Owes
  <2>2. Pile(Owing(k, t), Capacity[k]) = {}
    BY <1>1, <2>1 DEF Pile
  <2> QED
    BY <2>2, FS_EmptySet DEF Late
<1>3. ASSUME NEW k \in Buckets, NEW t \in Nat
      PROVE  level[k] + Rate[k] * t + Late(k, t) >= 0
  <2>1. Rate[k] * t \in Nat /\ level[k] \in Nat /\ Late(k, t) = 0
    BY <1>1, <1>2
  <2> QED
    BY <2>1
<1> QED
  BY <1>1, <1>2, <1>3 DEF Covered

\* The calls a limiter admits never cost more than a full bucket and what time has
\* refilled since, and a refund mints nothing: for any number of callers and slots,
\* any sizes and rates.
THEOREM RateAlways == RateSpec => []RateExact
<1>1. RateInv => RateExact
  <2> SUFFICES ASSUME RateInv PROVE RateExact
    OBVIOUS
  <2>1. TypeOK /\ level \in Level
    BY DEF RateInv, IInv, TypeOK, Level
  <2>2. ASSUME NEW k \in Buckets
        PROVE  /\ headroom[k] >= 0
               /\ level[k] + Cardinality(ReservedUnits(k)) <= headroom[k]
    <3>1. /\ level[k] \in Int /\ headroom[k] \in Int /\ Rate[k] * 0 = 0
          /\ level[k] + Late(k, -1) <= headroom[k]
          /\ level[k] + Rate[k] * 0 + Late(k, 0) >= 0
      BY <2>1, LimiterAssumption DEF RateInv, Covered, Level
    <3>2. /\ Late(k, 0) \in Nat /\ Late(k, -1) \in Nat /\ Late(k, 0) <= Late(k, -1)
          /\ ReservedUnits(k) = Pile(Owing(k, -1), Capacity[k])
      BY <2>1, LateOK
    <3>3. Cardinality(ReservedUnits(k)) = Late(k, -1)
      BY <3>2 DEF Late
    <3> QED
      BY <3>1, <3>2, <3>3
  <2> QED
    BY <2>2 DEF RateExact, RateHeld, NoTokenMinted
<1> QED
  BY <1>1, RateInitially, RateStep, PTL DEF RateSpec
-----------------------------------------------------------------------------
\* Memories and ratings.
\* The rows of a memory store at a time, with the time of what each owner lost
\* last: no owner has too many, or one that is older.
MemoryRows == [created : Nat, updated : Nat]

MemoryOK(mem, lost, now) ==
    /\ IsFiniteSet(DOMAIN mem) /\ mem \in [DOMAIN mem -> MemoryRows]
    /\ lost \in [Owners -> Nat] /\ now \in Nat
    /\ \A o \in Owners : lost[o] <= now
    /\ \A k \in DOMAIN mem : mem[k].updated <= now
    /\ \A o \in Owners : \A k \in RowsOf(mem, o) : lost[o] <= mem[k].updated
    /\ \A o \in Owners : Cardinality(RowsOf(mem, o)) <= MAX_ITEMS_PER_SCOPE

MemoryInv ==
    /\ MemoryOK(memories, gone, memNow)
    /\ Retention # 0 => \A age \in seen : age <= Retention

\* Some of the rows
LEMMA FewerRows ==
    ASSUME NEW mem, NEW lost, NEW now, MemoryOK(mem, lost, now), NEW K \in SUBSET DOMAIN mem
    PROVE  /\ MemoryOK(Restrict(mem, K), lost, now)
           /\ DOMAIN Restrict(mem, K) = K /\ \A k \in K : Restrict(mem, K)[k] = mem[k]
<1> DEFINE part == Restrict(mem, K)
<1>1. DOMAIN part = K /\ \A k \in K : part[k] = mem[k]
  BY DEF Restrict
<1>2. IsFiniteSet(K) /\ part \in [K -> MemoryRows]
  <2>1. part = [k \in K |-> mem[k]]
    BY DEF Restrict
  <2>2. \A k \in K : mem[k] \in MemoryRows
    BY DEF MemoryOK
  <2> QED
    BY <2>1, <2>2, FS_Subset DEF MemoryOK
<1>3. ASSUME NEW o \in Owners
      PROVE  /\ RowsOf(part, o) \subseteq RowsOf(mem, o)
             /\ Cardinality(RowsOf(part, o)) <= MAX_ITEMS_PER_SCOPE
  <2>1. RowsOf(part, o) \subseteq RowsOf(mem, o)
    BY <1>1 DEF RowsOf
  <2>2. IsFiniteSet(RowsOf(mem, o))
    BY FS_Subset DEF RowsOf, MemoryOK
  <2>3. /\ Cardinality(RowsOf(part, o)) <= Cardinality(RowsOf(mem, o))
        /\ Cardinality(RowsOf(mem, o)) \in Nat /\ Cardinality(RowsOf(part, o)) \in Nat
    BY <2>1, <2>2, FS_Subset, FS_CardinalityType
  <2>4. Cardinality(RowsOf(mem, o)) <= MAX_ITEMS_PER_SCOPE
    BY DEF MemoryOK
  <2> QED
    BY <2>1, <2>3, <2>4, KnowledgeAssumption
<1>4. \A o \in Owners : \A k \in RowsOf(part, o) : part[k] = mem[k] /\ lost[o] <= part[k].updated
  BY <1>1, <1>3 DEF MemoryOK, RowsOf
<1> QED
  BY <1>1, <1>2, <1>3, <1>4 DEF MemoryOK

\* expire(): what it leaves is young enough.
LEMMA ExpiredOK ==
    ASSUME MemoryInv
    PROVE  /\ MemoryOK(Expired(memories), gone, memNow)
           /\ Retention # 0 =>
                 \A k \in DOMAIN Expired(memories) : memNow - Expired(memories)[k].updated <= Retention
<1>1. CASE Retention = 0
  BY <1>1 DEF MemoryInv, Expired
<1>2. CASE Retention # 0
  <2> DEFINE K == {k \in DOMAIN memories : memories[k].updated >= memNow - Retention}
  <2>1. Expired(memories) = Restrict(memories, K)
    BY <1>2 DEF Expired
  <2>2. K \in SUBSET DOMAIN memories /\ MemoryOK(memories, gone, memNow)
    BY DEF MemoryInv
  <2> HIDE DEF K
  <2>3. /\ MemoryOK(Restrict(memories, K), gone, memNow)
        /\ DOMAIN Restrict(memories, K) = K /\ \A k \in K : Restrict(memories, K)[k] = memories[k]
    BY <2>2, FewerRows
  <2>4. \A k \in K : memories[k] \in MemoryRows /\ memories[k].updated >= memNow - Retention
    BY <2>2 DEF K, MemoryOK
  <2> QED
    BY <2>1, <2>2, <2>3, <2>4, KnowledgeAssumption DEF MemoryOK, MemoryRows
<1> QED
  BY <1>1, <1>2

\* The row of a key, written anew or added where there is room.
LEMMA UpsertedOK ==
    ASSUME NEW mem, NEW lost, MemoryOK(mem, lost, memNow), NEW o \in Owners, NEW key,
           \/ <<o, key>> \in DOMAIN mem
           \/ Cardinality(RowsOf(mem, o)) < MAX_ITEMS_PER_SCOPE
    PROVE  MemoryOK(Upserted(mem, <<o, key>>), lost, memNow)
<1> DEFINE k == <<o, key>>
           more == Upserted(mem, k)
<1>0. /\ memNow \in Nat /\ \A j \in DOMAIN mem : mem[j] \in MemoryRows
      /\ \A q \in Owners : lost[q] \in Nat /\ lost[q] <= memNow
  BY DEF MemoryOK
<1>1. /\ DOMAIN more = DOMAIN mem \cup {k}
      /\ \A j \in DOMAIN mem \ {k} : more[j] = mem[j]
      /\ more[k] \in MemoryRows /\ more[k].updated = memNow
  <2>1. CASE k \in DOMAIN mem
    <3>1. more = [mem EXCEPT ![k].updated = memNow]
      BY <2>1 DEF Upserted
    <3>2. PICK w \in MemoryRows : w = mem[k]
      BY <1>0, <2>1
    <3>3. [w EXCEPT !.updated = memNow] \in MemoryRows /\ [w EXCEPT !.updated = memNow].updated = memNow
      BY <1>0 DEF MemoryRows
    <3> QED
      BY <2>1, <3>1, <3>2, <3>3
  <2>2. CASE k \notin DOMAIN mem
    <3>1. more = [j \in DOMAIN mem \cup {k} |->
                     IF j = k THEN [created |-> memNow, updated |-> memNow] ELSE mem[j]]
      BY <2>2 DEF Upserted
    <3>2. [created |-> memNow, updated |-> memNow] \in MemoryRows
      BY <1>0 DEF MemoryRows
    <3> HIDE DEF k
    <3>3. more[k] = [created |-> memNow, updated |-> memNow]
      BY <3>1
    <3>4. DOMAIN more = DOMAIN mem \cup {k} /\ \A j \in DOMAIN mem \ {k} : more[j] = mem[j]
      BY <3>1
    <3> QED
      BY <3>2, <3>3, <3>4
  <2> QED
    BY <2>1, <2>2
<1>2. IsFiniteSet(DOMAIN more)
  BY <1>1, FS_AddElement DEF MemoryOK
<1>3. more \in [DOMAIN more -> MemoryRows]
  <2>1. more = [j \in DOMAIN more |-> more[j]]
    <3>1. CASE k \in DOMAIN mem
      BY <3>1 DEF Upserted
    <3>2. CASE k \notin DOMAIN mem
      BY <3>2 DEF Upserted
    <3> QED
      BY <3>1, <3>2
  <2>2. \A j \in DOMAIN more : more[j] \in MemoryRows
    BY <1>0, <1>1
  <2> QED
    BY <2>1, <2>2
<1>4. ASSUME NEW q \in Owners
      PROVE  /\ \A j \in RowsOf(more, q) : lost[q] <= more[j].updated
             /\ Cardinality(RowsOf(more, q)) <= MAX_ITEMS_PER_SCOPE
  <2>0. k[1] = o
    OBVIOUS
  <2> HIDE DEF k
  <2>1. RowsOf(more, q) = IF q = o THEN RowsOf(mem, q) \cup {k} ELSE RowsOf(mem, q)
    BY <1>1, <2>0 DEF RowsOf
  <2>2. \A j \in RowsOf(mem, q) : j \in DOMAIN mem /\ lost[q] <= mem[j].updated
    BY DEF MemoryOK, RowsOf
  <2>3. \A j \in RowsOf(more, q) : lost[q] <= more[j].updated
    BY <1>0, <1>1, <2>1, <2>2
  <2>4. IsFiniteSet(RowsOf(mem, q)) /\ Cardinality(RowsOf(mem, q)) \in Nat
    BY FS_Subset, FS_CardinalityType DEF RowsOf, MemoryOK
  <2>5. Cardinality(RowsOf(mem, q)) <= MAX_ITEMS_PER_SCOPE
    BY DEF MemoryOK
  <2>6. Cardinality(RowsOf(mem, q) \cup {k}) =
           IF k \in RowsOf(mem, q) THEN Cardinality(RowsOf(mem, q)) ELSE Cardinality(RowsOf(mem, q)) + 1
    BY <2>4, FS_AddElement
  <2>7. q = o /\ k \notin RowsOf(mem, q) => Cardinality(RowsOf(mem, q)) < MAX_ITEMS_PER_SCOPE
    BY <2>0 DEF RowsOf, k
  <2> QED
    BY <2>1, <2>3, <2>4, <2>5, <2>6, <2>7, KnowledgeAssumption
<1>5. \A j \in DOMAIN more : more[j].updated <= memNow
  BY <1>0, <1>1 DEF MemoryOK
<1> QED
  BY <1>2, <1>3, <1>4, <1>5 DEF MemoryOK

\* Taking an oldest row away makes room, and nothing older is left.
LEMMA EvictedOK ==
    ASSUME NEW mem, NEW lost, NEW now, MemoryOK(mem, lost, now), NEW o \in Owners,
           NEW old \in Oldest(mem, o)
    PROVE  LET rest == Restrict(mem, DOMAIN mem \ {old})
           IN  /\ MemoryOK(rest, [lost EXCEPT ![o] = mem[old].updated], now)
               /\ Cardinality(RowsOf(rest, o)) < MAX_ITEMS_PER_SCOPE
<1> DEFINE K == DOMAIN mem \ {old}
           rest == Restrict(mem, K)
           since == [lost EXCEPT ![o] = mem[old].updated]
<1>1. /\ old \in RowsOf(mem, o) /\ \A j \in RowsOf(mem, o) : mem[old].updated <= mem[j].updated
      /\ old \in DOMAIN mem
  BY DEF Oldest, RowsOf
<1>2. /\ MemoryOK(rest, lost, now) /\ DOMAIN rest = K /\ \A k \in K : rest[k] = mem[k]
  <2>1. K \in SUBSET DOMAIN mem
    OBVIOUS
  <2> HIDE DEF K
  <2> QED
    BY <2>1, FewerRows
<1>3. mem[old] \in MemoryRows /\ mem[old].updated \in Nat /\ mem[old].updated <= now
  BY <1>1 DEF MemoryOK, MemoryRows
<1>4. since \in [Owners -> Nat] /\ \A q \in Owners : since[q] = IF q = o THEN mem[old].updated ELSE lost[q]
  BY <1>3 DEF MemoryOK
<1> HIDE DEF rest, since
<1>5. MemoryOK(rest, since, now)
  <2>1. \A q \in Owners : RowsOf(rest, q) \subseteq RowsOf(mem, q) /\ RowsOf(rest, q) \subseteq K
    BY <1>2 DEF RowsOf
  <2>2. \A q \in Owners : \A k \in RowsOf(rest, q) : since[q] <= rest[k].updated
    BY <1>1, <1>2, <1>4, <2>1 DEF MemoryOK
  <2> QED
    BY <1>2, <1>3, <1>4, <2>2 DEF MemoryOK
<1>6. Cardinality(RowsOf(rest, o)) < MAX_ITEMS_PER_SCOPE
  <2>1. RowsOf(rest, o) = RowsOf(mem, o) \ {old}
    BY <1>2 DEF RowsOf
  <2>2. IsFiniteSet(RowsOf(mem, o)) /\ Cardinality(RowsOf(mem, o)) \in Nat
    BY FS_Subset, FS_CardinalityType DEF RowsOf, MemoryOK
  <2>3. Cardinality(RowsOf(rest, o)) = Cardinality(RowsOf(mem, o)) - 1
    BY <1>1, <2>1, <2>2, FS_RemoveElement
  <2>4. Cardinality(RowsOf(mem, o)) <= MAX_ITEMS_PER_SCOPE
    BY DEF MemoryOK
  <2> QED
    BY <2>2, <2>3, <2>4, KnowledgeAssumption
<1> QED
  BY <1>5, <1>6 DEF rest, since

LEMMA MemoryStarts == MemoryInit => MemoryInv
<1> SUFFICES ASSUME MemoryInit PROVE MemoryInv
  OBVIOUS
<1>1. DOMAIN memories = {} /\ memories \in [{} -> MemoryRows]
  <2>1. memories = [i \in {} |-> i]
    BY DEF MemoryInit
  <2> QED
    BY <2>1
<1>2. IsFiniteSet({}) /\ Cardinality({}) = 0
  BY FS_EmptySet
<1>3. \A o \in Owners : RowsOf(memories, o) = {}
  BY <1>1 DEF RowsOf
<1>4. gone \in [Owners -> Nat] /\ \A o \in Owners : gone[o] = 0
  BY DEF MemoryInit
<1>5. memNow = 0 /\ seen = {}
  BY DEF MemoryInit
<1>6. MemoryOK(memories, gone, memNow)
  <2>1. IsFiniteSet(DOMAIN memories) /\ memories \in [DOMAIN memories -> MemoryRows]
    BY <1>1, <1>2
  <2>2. \A o \in Owners : Cardinality(RowsOf(memories, o)) <= MAX_ITEMS_PER_SCOPE
    <3>1. 0 <= MAX_ITEMS_PER_SCOPE
      BY KnowledgeAssumption
    <3>2. \A o \in Owners : Cardinality(RowsOf(memories, o)) = 0
      BY <1>2, <1>3
    <3> QED
      BY <3>1, <3>2
  <2>3. \A o \in Owners : \A k \in RowsOf(memories, o) : FALSE
    BY <1>3
  <2> QED
    BY <1>1, <1>4, <1>5, <2>1, <2>2, <2>3 DEF MemoryOK
<1> QED
  BY <1>5, <1>6 DEF MemoryInv

LEMMA MemoryStep == MemoryInv /\ [MemoryNext]_memVars => MemoryInv'
<1> SUFFICES ASSUME MemoryInv, [MemoryNext]_memVars PROVE MemoryInv'
  OBVIOUS
<1>0. MemoryOK(memories, gone, memNow) /\ memNow \in Nat
  BY DEF MemoryInv, MemoryOK
<1>1. ASSUME NEW o \in Owners, NEW key \in MemKeys, Remember(o, key) PROVE MemoryInv'
  <2> DEFINE mem == Expired(memories)
             k == <<o, key>>
  <2>1. MemoryOK(mem, gone, memNow)
    BY ExpiredOK
  <2> HIDE DEF mem
  <2>2. CASE k \in DOMAIN mem \/ Cardinality(RowsOf(mem, o)) < MAX_ITEMS_PER_SCOPE
    <3>1. memories' = Upserted(mem, k) /\ gone' = gone /\ memNow' = memNow /\ seen' = seen
      BY <1>1, <2>2 DEF Remember, mem
    <3>2. MemoryOK(Upserted(mem, k), gone, memNow)
      BY <2>1, <2>2, UpsertedOK
    <3> QED
      BY <3>1, <3>2 DEF MemoryInv, MemoryOK, RowsOf
  <2>3. CASE ~(k \in DOMAIN mem \/ Cardinality(RowsOf(mem, o)) < MAX_ITEMS_PER_SCOPE)
    <3>1. PICK old \in Oldest(mem, o) :
             /\ memories' = Upserted(Restrict(mem, DOMAIN mem \ {old}), k)
             /\ gone' = [gone EXCEPT ![o] = mem[old].updated]
             /\ memNow' = memNow /\ seen' = seen
      BY <1>1, <2>3 DEF Remember, mem
    <3> DEFINE rest == Restrict(mem, DOMAIN mem \ {old})
    <3>2. MemoryOK(rest, gone', memNow) /\ Cardinality(RowsOf(rest, o)) < MAX_ITEMS_PER_SCOPE
      BY <2>1, <3>1, EvictedOK
    <3> HIDE DEF rest
    <3>3. MemoryOK(Upserted(rest, k), gone', memNow)
      BY <3>2, UpsertedOK
    <3> QED
      BY <3>1, <3>3 DEF rest, MemoryInv, MemoryOK, RowsOf
  <2> QED
    BY <2>2, <2>3
<1>2. ASSUME NEW o \in Owners, View(o) PROVE MemoryInv'
  <2> DEFINE mem == Expired(memories)
  <2>1. /\ MemoryOK(mem, gone, memNow)
        /\ Retention # 0 => \A k \in DOMAIN mem : memNow - mem[k].updated <= Retention
    BY ExpiredOK
  <2> HIDE DEF mem
  <2>2. /\ memories' = mem /\ gone' = gone /\ memNow' = memNow
        /\ seen' = {memNow - mem[k].updated : k \in RowsOf(mem, o)}
    BY <1>2 DEF View, mem
  <2>3. RowsOf(mem, o) \subseteq DOMAIN mem
    BY DEF RowsOf
  <2>4. Retention # 0 => \A age \in seen' : age <= Retention
    BY <2>1, <2>2, <2>3
  <2> QED
    BY <2>1, <2>2, <2>4 DEF MemoryInv, MemoryOK, RowsOf
<1>3. ASSUME NEW o \in Owners, NEW keys, Forget(o, keys) PROVE MemoryInv'
  <2> DEFINE K == DOMAIN memories \ ({o} \X keys)
  <2>1. K \in SUBSET DOMAIN memories
    OBVIOUS
  <2>2. memories' = Restrict(memories, K) /\ gone' = gone /\ seen' = seen /\ memNow' = memNow
    BY <1>3 DEF Forget
  <2> HIDE DEF K
  <2>3. MemoryOK(Restrict(memories, K), gone, memNow)
    BY <1>0, <2>1, FewerRows
  <2> QED
    BY <2>2, <2>3 DEF MemoryInv, MemoryOK, RowsOf
<1>4. ASSUME MemTick PROVE MemoryInv'
  <2>1. /\ memories' = memories /\ gone' = gone /\ seen' = seen /\ memNow' = memNow + 1
    BY <1>4 DEF MemTick
  <2>2. \A k \in DOMAIN memories : memories[k].updated \in Nat /\ memories[k].updated <= memNow + 1
    BY <1>0 DEF MemoryOK, MemoryRows
  <2>3. \A o \in Owners : gone[o] \in Nat /\ gone[o] <= memNow + 1
    BY <1>0 DEF MemoryOK
  <2> QED
    BY <1>0, <2>1, <2>2, <2>3 DEF MemoryInv, MemoryOK, RowsOf
<1>5. CASE UNCHANGED memVars
  BY <1>5 DEF memVars, MemoryInv, MemoryOK, RowsOf
<1> QED
  BY <1>1, <1>2, <1>3, <1>4, <1>5 DEF MemoryNext

\* In every order of writes, reads and removals, and however the clock goes on, no owner
\* of memories has more than MAX_ITEMS_PER_SCOPE or one that is too old, and what leaves
\* to make room is the one least recently updated (upsert(), _expire()).
THEOREM MemoryAlways == MemorySpec => []MemorySound
<1>1. MemoryInv => MemorySound
  BY DEF MemoryInv, MemoryOK, MemorySound, MemoryRows, RowsOf
<1> QED
  BY <1>1, MemoryStarts, MemoryStep, PTL DEF MemorySpec
-----------------------------------------------------------------------------
\* The ratings: each is up or down, and no owner has too many.
RatingsInv ==
    /\ IsFiniteSet(DOMAIN ratings) /\ DOMAIN ratings \subseteq Owners \X Rated
    /\ \A k \in DOMAIN ratings : ratings[k].rating \in {-1, 1}
    /\ \A o \in Owners : Cardinality(RowsOf(ratings, o)) <= MAX_ROWS_PER_OWNER

LEMMA RatingsStep == RatingsInv /\ [FeedbackNext]_fbVars => RatingsInv'
<1> SUFFICES ASSUME RatingsInv, [FeedbackNext]_fbVars PROVE RatingsInv'
  OBVIOUS
<1>0. \A q \in Owners : /\ IsFiniteSet(RowsOf(ratings, q)) /\ Cardinality(RowsOf(ratings, q)) \in Nat
                        /\ Cardinality(RowsOf(ratings, q)) <= MAX_ROWS_PER_OWNER
  BY FS_Subset, FS_CardinalityType DEF RatingsInv, RowsOf
<1>1. ASSUME NEW o \in Owners, NEW r \in Rated, NEW rating \in {-1, 1}, NEW asTask \in BOOLEAN,
             RecordFeedback(o, r, rating, asTask)
      PROVE  RatingsInv'
  <2>0. PICK k : k = <<o, r>>
    OBVIOUS
  <2>1. /\ DOMAIN ratings' = DOMAIN ratings \cup {k}
        /\ ratings'[k].rating = rating
        /\ \A j \in DOMAIN ratings \ {k} : ratings'[j] = ratings[j]
    BY <1>1, <2>0 DEF RecordFeedback
  <2>2. IsFiniteSet(DOMAIN ratings') /\ DOMAIN ratings' \subseteq Owners \X Rated
    <3>1. IsFiniteSet(DOMAIN ratings \cup {k})
      BY FS_AddElement DEF RatingsInv
    <3>2. k \in Owners \X Rated
      BY <2>0
    <3> QED
      BY <2>1, <3>1, <3>2 DEF RatingsInv
  <2>3. \A j \in DOMAIN ratings' : ratings'[j].rating \in {-1, 1}
    BY <2>1 DEF RatingsInv
  <2>4. ASSUME NEW q \in Owners PROVE Cardinality(RowsOf(ratings', q)) <= MAX_ROWS_PER_OWNER
    <3>1. CASE q # o
      <4>1. RowsOf(ratings', q) = RowsOf(ratings, q)
        BY <2>0, <2>1, <3>1 DEF RowsOf
      <4> QED
        BY <1>0, <4>1
    <3>2. CASE q = o
      <4> DEFINE others == {j \in DOMAIN ratings : j[1] = o /\ j[2] # r}
      <4>1. IsFiniteSet(others) /\ Cardinality(others) < MAX_ROWS_PER_OWNER
        BY <1>1, FS_Subset DEF RecordFeedback, RatingsInv
      <4>2. RowsOf(ratings', o) = others \cup {k}
        BY <2>0, <2>1, <2>2 DEF RowsOf
      <4>3. k \notin others
        BY <2>0
      <4> HIDE DEF others
      <4>4. Cardinality(others \cup {k}) = Cardinality(others) + 1 /\ Cardinality(others) \in Nat
        BY <4>1, <4>3, FS_AddElement, FS_CardinalityType
      <4> QED
        BY <3>2, <4>1, <4>2, <4>4, KnowledgeAssumption
    <3> QED
      BY <3>1, <3>2
  <2> QED
    BY <2>2, <2>3, <2>4 DEF RatingsInv
<1>2. ASSUME NEW o \in Owners, NEW r \in Rated, DeleteFeedback(o, r) PROVE RatingsInv'
  <2> DEFINE K == DOMAIN ratings \ {<<o, r>>}
  <2>1. ratings' = [j \in K |-> ratings[j]]
    BY <1>2 DEF DeleteFeedback, Restrict
  <2>2. DOMAIN ratings' = K /\ (\A j \in K : ratings'[j] = ratings[j]) /\ K \subseteq DOMAIN ratings
    BY <2>1
  <2> HIDE DEF K
  <2>3. \A q \in Owners : RowsOf(ratings', q) \subseteq RowsOf(ratings, q)
    BY <2>2 DEF RowsOf
  <2>4. \A q \in Owners : Cardinality(RowsOf(ratings', q)) <= Cardinality(RowsOf(ratings, q))
                          /\ Cardinality(RowsOf(ratings', q)) \in Nat
    BY <1>0, <2>3, FS_Subset, FS_CardinalityType
  <2>5. \A q \in Owners : Cardinality(RowsOf(ratings', q)) <= MAX_ROWS_PER_OWNER
    BY <1>0, <2>4, KnowledgeAssumption
  <2>6. IsFiniteSet(K)
    BY <2>2, FS_Subset DEF RatingsInv
  <2> QED
    BY <2>2, <2>5, <2>6 DEF RatingsInv
<1>3. CASE UNCHANGED fbVars
  BY <1>3 DEF fbVars, RatingsInv, RowsOf
<1> QED
  BY <1>1, <1>2, <1>3 DEF FeedbackNext

\* An owner's ratings are the ups and the downs; a task is made of one.
LEMMA RatingsAdd == RatingsInv => RatingsBounded
<1> SUFFICES ASSUME RatingsInv, NEW o \in Owners
             PROVE  /\ Summary(o, 1) + Summary(o, -1) = Cardinality(RowsOf(ratings, o))
                    /\ Cardinality(EvalTasks(o)) <= Summary(o, 1) + Summary(o, -1)
                    /\ Summary(o, 1) + Summary(o, -1) <= MAX_ROWS_PER_OWNER
  BY DEF RatingsBounded
<1> DEFINE all == RowsOf(ratings, o)
           rated(x) == {k \in DOMAIN ratings : k[1] = o /\ ratings[k].rating = x}
           asks == {j \in DOMAIN ratings : j[1] = o /\ ratings[j].task}
           evals == {k[2] : k \in asks}
           f == [k \in asks |-> k[2]]
<1>1. IsFiniteSet(all) /\ Cardinality(all) <= MAX_ROWS_PER_OWNER /\ Cardinality(all) \in Nat
  BY FS_Subset, FS_CardinalityType DEF RatingsInv, RowsOf
<1>2. all = rated(1) \cup rated(-1) /\ rated(1) \cap rated(-1) = {}
  BY DEF RatingsInv, RowsOf
<1>3. rated(1) \subseteq all /\ rated(-1) \subseteq all /\ asks \subseteq all
  BY DEF RowsOf
<1>4. Summary(o, 1) = Cardinality(rated(1)) /\ Summary(o, -1) = Cardinality(rated(-1))
      /\ EvalTasks(o) = evals
  BY DEF Summary, EvalTasks
<1>5. f \in Surjection(asks, evals)
  BY DEF Surjection
<1> HIDE DEF all, rated, asks, evals, f
<1>6. IsFiniteSet(rated(1)) /\ IsFiniteSet(rated(-1)) /\ IsFiniteSet(asks)
      /\ Cardinality(asks) <= Cardinality(all)
  BY <1>1, <1>3, FS_Subset
<1>7. Cardinality(all) = Cardinality(rated(1)) + Cardinality(rated(-1))
  <2>1. Cardinality(all) = Cardinality(rated(1)) + Cardinality(rated(-1)) - Cardinality({})
    BY <1>2, <1>6, FS_Union
  <2>2. Cardinality(rated(1)) \in Nat /\ Cardinality(rated(-1)) \in Nat /\ Cardinality({}) = 0
    BY <1>6, FS_CardinalityType, FS_EmptySet
  <2> QED
    BY <2>1, <2>2
<1>8. IsFiniteSet(evals) /\ Cardinality(evals) <= Cardinality(asks)
  BY <1>5, <1>6, FS_Surjection
<1>9. Cardinality(evals) \in Nat /\ Cardinality(asks) \in Nat
  BY <1>6, <1>8, FS_CardinalityType
<1> QED
  BY <1>1, <1>4, <1>6, <1>7, <1>8, <1>9 DEF all

\* However users rate, and rate again, an owner keeps the newest ratings up to the limit,
\* one for each task, and the counts are those of the rows (FeedbackStore.record()).
THEOREM RatingsAlways == FeedbackSpec => []RatingsBounded
<1>1. FeedbackInit => RatingsInv
  <2> SUFFICES ASSUME FeedbackInit PROVE RatingsInv
    OBVIOUS
  <2>1. DOMAIN ratings = {}
    BY DEF FeedbackInit
  <2>2. IsFiniteSet({}) /\ Cardinality({}) = 0 /\ 0 <= MAX_ROWS_PER_OWNER
    BY FS_EmptySet, KnowledgeAssumption
  <2>3. \A o \in Owners : RowsOf(ratings, o) = {}
    BY <2>1 DEF RowsOf
  <2> QED
    BY <2>1, <2>2, <2>3 DEF RatingsInv
<1> QED
  BY <1>1, RatingsStep, RatingsAdd, PTL DEF FeedbackSpec

-----------------------------------------------------------------------------
\* Documents: the chunks of a text, and the index of them.
\* Numbers: a set that is not empty has a first.
Below == {ss \in Nat \X Nat : ss[1] < ss[2]}

LEMMA Smallest ==
    ASSUME NEW S \in SUBSET Nat, S # {}
    PROVE  \E x \in S : \A y \in S : x <= y
<1>1. IsWellFoundedOn(Below, Nat)
  BY NatLessThanWellFounded DEF OpToRel, Below
<1>2. PICK x \in S : \A y \in S : ~(<<y, x>> \in Below)
  BY <1>1, WFMin
<1>3. ASSUME NEW y \in S PROVE x <= y
  <2>1. <<y, x>> \in Nat \X Nat /\ <<y, x>>[1] = y /\ <<y, x>>[2] = x
    OBVIOUS
  <2>2. ~(y < x)
    BY <1>2, <2>1, Zenon DEF Below
  <2> QED
    BY <2>2
<1> QED
  BY <1>3

\* What holds at 0 and goes on, as far as n, holds at n.
LEMMA GoesOn ==
    ASSUME NEW n \in Nat, NEW Good \in SUBSET Nat, 0 \in Good,
           \A m \in 0..(n - 1) : m \in Good => m + 1 \in Good
    PROVE  0..n \subseteq Good
<1> DEFINE Bad == {m \in 0..n : m \notin Good}
<1> SUFFICES ASSUME Bad # {} PROVE FALSE
  OBVIOUS
<1>1. PICK x \in Bad : \A y \in Bad : x <= y
  <2>1. Bad \in SUBSET Nat
    OBVIOUS
  <2> QED
    BY <2>1, Smallest
<1>2. x - 1 \in 0..(n - 1) /\ x - 1 \notin Bad /\ (x - 1) + 1 = x
  BY <1>1
<1> QED
  BY <1>1, <1>2

-----------------------------------------------------------------------------
\* Chunks: the characters, and how long a chunk may be.
Chars == Nat \X Nat
Longest == Size + Overlap + 2
Fillings == [out : Seq(Seq(Chars)), cur : Seq(Chars)]

FillingOK(acc) ==
    /\ acc \in Fillings /\ Len(acc.cur) <= Longest
    /\ \A n \in DOMAIN acc.out : Len(acc.out[n]) <= Longest

\* The characters of some chunks, and of what was filled so far
CharsOf(chunks) == UNION {ToSet(chunks[n]) : n \in DOMAIN chunks}
Held(acc) == CharsOf(acc.out) \cup ToSet(acc.cur)

LEMMA ConcatHas ==
    ASSUME NEW S, NEW s \in Seq(S), NEW t \in Seq(S)
    PROVE  /\ s \o t \in Seq(S) /\ Len(s \o t) = Len(s) + Len(t)
           /\ ToSet(s) \cup ToSet(t) \subseteq ToSet(s \o t)
           /\ ToSet(s \o t) \subseteq ToSet(s) \cup ToSet(t)
<1>1. PICK m \in Nat, n \in Nat : m = Len(s) /\ n = Len(t)
  OBVIOUS
<1>2. /\ s \o t \in Seq(S) /\ Len(s \o t) = m + n
      /\ \A i \in 1..(m + n) : (s \o t)[i] = IF i <= m THEN s[i] ELSE t[i - m]
  BY <1>1
<1>3. DOMAIN s = 1..m /\ DOMAIN t = 1..n /\ DOMAIN (s \o t) = 1..(m + n)
  BY <1>1, <1>2
<1>4. ASSUME NEW i \in 1..m PROVE s[i] \in ToSet(s \o t)
  <2>1. i \in 1..(m + n) /\ (s \o t)[i] = s[i]
    BY <1>2
  <2> QED
    BY <1>3, <2>1 DEF ToSet
<1>5. ASSUME NEW i \in 1..n PROVE t[i] \in ToSet(s \o t)
  <2>1. m + i \in 1..(m + n) /\ (s \o t)[m + i] = t[i]
    BY <1>2
  <2> QED
    BY <1>3, <2>1 DEF ToSet
<1>6. ASSUME NEW i \in 1..(m + n) PROVE (s \o t)[i] \in ToSet(s) \cup ToSet(t)
  <2>1. CASE i <= m
    <3>1. i \in 1..m /\ (s \o t)[i] = s[i]
      BY <1>2, <2>1
    <3> QED
      BY <1>3, <3>1 DEF ToSet
  <2>2. CASE ~(i <= m)
    <3>1. i - m \in 1..n /\ (s \o t)[i] = t[i - m]
      BY <1>2, <2>2
    <3> QED
      BY <1>3, <3>1 DEF ToSet
  <2> QED
    BY <2>1, <2>2
<1> QED
  BY <1>1, <1>2, <1>3, <1>4, <1>5, <1>6 DEF ToSet

\* Concatenated chunks keep their characters, and are as short as they were.
LEMMA ChunksAdd ==
    ASSUME NEW a \in Seq(Seq(Chars)), NEW b \in Seq(Seq(Chars)),
           \A n \in DOMAIN a : Len(a[n]) <= Longest, \A n \in DOMAIN b : Len(b[n]) <= Longest
    PROVE  /\ a \o b \in Seq(Seq(Chars))
           /\ \A n \in DOMAIN (a \o b) : Len((a \o b)[n]) <= Longest
           /\ CharsOf(a) \cup CharsOf(b) \subseteq CharsOf(a \o b)
<1>1. /\ a \o b \in Seq(Seq(Chars))
      /\ ToSet(a) \cup ToSet(b) \subseteq ToSet(a \o b)
      /\ ToSet(a \o b) \subseteq ToSet(a) \cup ToSet(b)
  BY ConcatHas
<1>2. \A s : CharsOf(s) = UNION {ToSet(c) : c \in ToSet(s)}
  BY DEF CharsOf, ToSet
<1>3. \A s : (\A n \in DOMAIN s : Len(s[n]) <= Longest) <=> \A c \in ToSet(s) : Len(c) <= Longest
  BY DEF ToSet
<1>4. \A c \in ToSet(a \o b) : Len(c) <= Longest
  BY <1>1, <1>3
<1> QED
  BY <1>1, <1>2, <1>3, <1>4

LEMMA ChunkAdded ==
    ASSUME NEW a \in Seq(Seq(Chars)), NEW c \in Seq(Chars),
           \A n \in DOMAIN a : Len(a[n]) <= Longest, Len(c) <= Longest
    PROVE  /\ Append(a, c) \in Seq(Seq(Chars))
           /\ \A n \in DOMAIN Append(a, c) : Len(Append(a, c)[n]) <= Longest
           /\ CharsOf(a) \cup ToSet(c) \subseteq CharsOf(Append(a, c))
<1> DEFINE b == <<c>>
<1>1. b \in Seq(Seq(Chars)) /\ DOMAIN b = 1..1 /\ b[1] = c
  OBVIOUS
<1>2. Append(a, c) = a \o b
  BY AppendIsConcat
<1>3. ToSet(c) \subseteq CharsOf(b) /\ \A n \in DOMAIN b : Len(b[n]) <= Longest
  BY <1>1 DEF CharsOf
<1> HIDE DEF b
<1> QED
  BY <1>1, <1>2, <1>3, ChunksAdd

-----------------------------------------------------------------------------
\* Where the pieces of a paragraph begin: each one a step behind the one before.
LEMMA StepsOf ==
    \E d \in Nat \ {0} : /\ d = Size - Overlap /\ d <= Size
                         /\ \A n \in Nat : /\ ChunkStep(n) \in Nat /\ n <= ChunkStep(n)
                                           /\ ChunkStep(n + 1) = ChunkStep(n) + d
                         /\ ChunkStep(0) = 0
<1>1. PICK d \in Nat \ {0} : d = Size - Overlap /\ d <= Size
  <2>1. Size - Overlap \in Nat \ {0} /\ Size - Overlap <= Size
    BY KnowledgeAssumption
  <2> QED
    BY <2>1
<1>2. ASSUME NEW n \in Nat
      PROVE  ChunkStep(n) \in Nat /\ n <= ChunkStep(n) /\ ChunkStep(n + 1) = ChunkStep(n) + d
  <2>1. PICK e \in Nat : d = e + 1
    BY <1>1
  <2>2. ChunkStep(n) = n * d /\ ChunkStep(n + 1) = (n + 1) * d
    BY <1>1 DEF ChunkStep
  <2>3. (n + 1) * d = n * d + d
    OBVIOUS
  <2>4. n * d \in Nat
    OBVIOUS
  <2>5. n <= n * d
    <3>1. d >= 1
      OBVIOUS
    <3> QED
      BY <3>1
  <2> QED
    BY <2>2, <2>3, <2>4, <2>5
<1>3. ChunkStep(0) = 0
  BY <1>1 DEF ChunkStep
<1> QED
  BY <1>1, <1>2, <1>3

\* How many pieces: as few as leave no more than one chunk takes.
LEMMA CutsOK ==
    ASSUME NEW p \in Seq(Chars)
    PROVE  /\ Cuts(p) \in Nat
           /\ Len(p) <= Size => Cuts(p) = 0
           /\ Len(p) > Size => Cuts(p) \in 1..Len(p)
           /\ Len(p) - ChunkStep(Cuts(p)) <= Size
           /\ \A n \in 0..(Cuts(p) - 1) : Len(p) - ChunkStep(n) > Size
<1>1. PICK l \in Nat : l = Len(p)
  OBVIOUS
<1>2. PICK d \in Nat \ {0} :
         /\ \A n \in Nat : ChunkStep(n) \in Nat /\ n <= ChunkStep(n) /\ ChunkStep(n + 1) = ChunkStep(n) + d
         /\ ChunkStep(0) = 0
  BY StepsOf
<1>3. CASE l <= Size
  <2>1. Cuts(p) = 0
    BY <1>1, <1>3 DEF Cuts
  <2>2. l - ChunkStep(0) <= Size /\ ~(l > Size)
    BY <1>2, <1>3, KnowledgeAssumption
  <2>3. \A n \in 0..(0 - 1) : FALSE
    OBVIOUS
  <2> QED
    BY <1>1, <2>1, <2>2, <2>3
<1>4. CASE ~(l <= Size)
  <2>1. PICK S : S = {n \in 1..l : l - ChunkStep(n) <= Size}
    OBVIOUS
  <2>2. l \in S /\ S \in SUBSET Nat
    <3>1. l \in 1..l /\ l - ChunkStep(l) <= Size
      <4>1. PICK q \in Nat : q = ChunkStep(l) /\ l <= q
        BY <1>2
      <4>2. Size \in Nat
        BY KnowledgeAssumption
      <4> QED
        BY <1>4, <4>1, <4>2
    <3> QED
      BY <2>1, <3>1
  <2>3. Cuts(p) = Min(S)
    BY <1>1, <1>4, <2>1 DEF Cuts
  <2>4. Min(S) \in S /\ \A y \in S : Min(S) <= y
    BY <2>2, Smallest DEF Min
  <2>5. PICK c \in 1..l : c = Cuts(p) /\ c \in S /\ \A y \in S : c <= y
    BY <2>1, <2>3, <2>4
  <2>6. ASSUME NEW n \in 0..(c - 1) PROVE l - ChunkStep(n) > Size
    <3>1. CASE n = 0
      BY <1>2, <1>4, <3>1, KnowledgeAssumption
    <3>2. CASE n # 0
      <4>1. n \in 1..l /\ n \in Nat /\ ~(c <= n)
        BY <3>2
      <4>2. n \notin S /\ ChunkStep(n) \in Nat
        BY <1>2, <2>5, <4>1
      <4>3. ~(l - ChunkStep(n) <= Size)
        BY <2>1, <4>1, <4>2
      <4> QED
        BY <4>2, <4>3, KnowledgeAssumption
    <3> QED
      BY <3>1, <3>2
  <2> QED
    BY <1>1, <1>4, <2>1, <2>5, <2>6, KnowledgeAssumption
<1> QED
  BY <1>3, <1>4

\* The pieces and what is left over have the whole paragraph.
LEMMA CutUp ==
    ASSUME NEW p \in Seq(Chars)
    PROVE  /\ Pieces(p) \in Seq(Seq(Chars))
           /\ \A n \in DOMAIN Pieces(p) : Len(Pieces(p)[n]) <= Longest
           /\ LeftOver(p) \in Seq(Chars) /\ Len(LeftOver(p)) <= Size
           /\ ToSet(p) \subseteq CharsOf(Pieces(p)) \cup ToSet(LeftOver(p))
<1>1. PICK l \in Nat : l = Len(p)
  OBVIOUS
<1>2. PICK d \in Nat \ {0} :
         /\ d <= Size
         /\ \A n \in Nat : ChunkStep(n) \in Nat /\ n <= ChunkStep(n) /\ ChunkStep(n + 1) = ChunkStep(n) + d
         /\ ChunkStep(0) = 0
  BY StepsOf
<1>3. PICK c \in Nat : /\ c = Cuts(p) /\ l - ChunkStep(c) <= Size
                       /\ \A n \in 0..(c - 1) : l - ChunkStep(n) > Size
  BY <1>1, CutsOK
<1>4. Size \in Nat /\ Size <= Longest
  BY KnowledgeAssumption DEF Longest
<1>5. \A i \in 1..l : p[i] \in Chars
  BY <1>1
<1>6. ASSUME NEW n \in 1..c
      PROVE  /\ Pieces(p)[n] \in Seq(Chars) /\ Len(Pieces(p)[n]) <= Longest
             /\ \A j \in 1..l : ChunkStep(n - 1) < j /\ j <= ChunkStep(n) => p[j] \in ToSet(Pieces(p)[n])
  <2>1. PICK a \in Nat : a = ChunkStep(n - 1) /\ l - a > Size /\ ChunkStep(n) = a + d
    <3>1. PICK e \in Nat : e = n - 1
      OBVIOUS
    <3>2. e \in 0..(c - 1) /\ e + 1 = n
      BY <3>1
    <3>3. l - ChunkStep(e) > Size
      BY <1>3, <3>2
    <3>4. ChunkStep(e) \in Nat /\ ChunkStep(e + 1) = ChunkStep(e) + d
      BY <1>2
    <3> QED
      BY <3>1, <3>2, <3>3, <3>4
  <2>2. Pieces(p)[n] = SubSeq(p, a + 1, a + Size)
    BY <1>3, <2>1 DEF Pieces
  <2>3. /\ SubSeq(p, a + 1, a + Size) \in Seq(Chars)
        /\ Len(SubSeq(p, a + 1, a + Size)) = Size
        /\ \A i \in 1..Size : SubSeq(p, a + 1, a + Size)[i] = p[a + i]
    <3>1. \A i \in (a + 1)..(a + Size) : p[i] \in Chars
      BY <1>4, <1>5, <2>1
    <3>2. PICK m \in Nat, k \in Nat : m = a + 1 /\ k = a + Size
      BY <1>4
    <3>3. /\ SubSeq(p, m, k) \in Seq(Chars)
          /\ Len(SubSeq(p, m, k)) = IF m <= k THEN k - m + 1 ELSE 0
          /\ \A i \in 1..(k - m + 1) : SubSeq(p, m, k)[i] = p[m + i - 1]
      BY <3>1, <3>2, SubSeqProperties
    <3>4. k - m + 1 = Size /\ \A i \in 1..Size : m + i - 1 = a + i
      BY <1>4, <3>2
    <3>5. PICK v : v = SubSeq(p, m, k)
      OBVIOUS
    <3>6. v \in Seq(Chars) /\ Len(v) = Size
      BY <1>4, <3>2, <3>3, <3>4, <3>5
    <3>7. \A i \in 1..Size : v[i] = p[a + i]
      BY <3>3, <3>4, <3>5
    <3> QED
      BY <3>2, <3>5, <3>6, <3>7
  <2>4. ASSUME NEW j \in 1..l, a < j, j <= a + d PROVE p[j] \in ToSet(Pieces(p)[n])
    <3>1. j - a \in 1..Size /\ a + (j - a) = j
      BY <1>2, <1>4, <2>4
    <3>2. SubSeq(p, a + 1, a + Size)[j - a] = p[j]
      BY <2>3, <3>1
    <3>3. DOMAIN SubSeq(p, a + 1, a + Size) = 1..Size
      BY <2>3
    <3> QED
      BY <2>2, <3>1, <3>2, <3>3 DEF ToSet
  <2> QED
    BY <1>4, <2>1, <2>2, <2>3, <2>4
<1>7. Pieces(p) \in Seq(Seq(Chars)) /\ DOMAIN Pieces(p) = 1..c
  <2>1. Pieces(p) = [n \in 1..c |-> Pieces(p)[n]]
    BY <1>3 DEF Pieces
  <2> QED
    BY <1>6, <2>1
<1>8. PICK b \in Nat : b = ChunkStep(c)
  BY <1>2
<1>9. b <= l
  <2>1. CASE c = 0
    BY <1>2, <1>8, <2>1
  <2>2. CASE c # 0
    <3>1. PICK e \in Nat : e = c - 1
      BY <2>2
    <3>2. e \in 0..(c - 1) /\ e + 1 = c
      BY <3>1
    <3>3. PICK a \in Nat : a = ChunkStep(e)
      BY <1>2
    <3>4. l - a > Size
      BY <1>3, <3>2, <3>3
    <3>5. ChunkStep(e + 1) = a + d
      BY <1>2, <3>3
    <3>6. b = a + d
      BY <1>8, <3>2, <3>5
    <3> QED
      BY <1>2, <1>4, <3>4, <3>6
  <2> QED
    BY <2>1, <2>2
<1>10. /\ LeftOver(p) \in Seq(Chars) /\ Len(LeftOver(p)) = l - b
       /\ \A j \in 1..l : j > b => p[j] \in ToSet(LeftOver(p))
  <2>1. LeftOver(p) = SubSeq(p, b + 1, l)
    BY <1>1, <1>3, <1>8 DEF LeftOver
  <2>2. PICK m \in Nat : m = b + 1
    OBVIOUS
  <2>3. \A i \in m..l : p[i] \in Chars
    BY <1>5, <2>2
  <2>4. /\ SubSeq(p, m, l) \in Seq(Chars)
        /\ Len(SubSeq(p, m, l)) = IF m <= l THEN l - m + 1 ELSE 0
        /\ \A i \in 1..(l - m + 1) : SubSeq(p, m, l)[i] = p[m + i - 1]
    BY <2>3, SubSeqProperties
  <2>5. Len(SubSeq(p, m, l)) = l - b
    BY <1>9, <2>2, <2>4
  <2>6. ASSUME NEW j \in 1..l, j > b PROVE p[j] \in ToSet(SubSeq(p, m, l))
    <3>1. j - b \in 1..(l - m + 1) /\ m + (j - b) - 1 = j /\ j - b \in 1..(l - b)
      BY <2>2, <2>6
    <3>2. SubSeq(p, m, l)[j - b] = p[j] /\ DOMAIN SubSeq(p, m, l) = 1..(l - b)
      BY <2>4, <2>5, <3>1
    <3> QED
      BY <3>1, <3>2 DEF ToSet
  <2> QED
    BY <2>1, <2>2, <2>4, <2>5, <2>6
<1>11. ASSUME NEW j \in 1..l, j <= b PROVE p[j] \in CharsOf(Pieces(p))
  <2>1. PICK S : S = {n \in 0..c : j <= ChunkStep(n)}
    OBVIOUS
  <2>2. PICK n \in S : \A k \in S : n <= k
    <3>1. c \in S /\ S \in SUBSET Nat
      BY <1>8, <1>11, <2>1
    <3> QED
      BY <3>1, Smallest
  <2>3. n \in 1..c /\ j <= ChunkStep(n)
    <3>1. n \in 0..c /\ j <= ChunkStep(n)
      BY <2>1, <2>2
    <3>2. j > 0 /\ ChunkStep(0) = 0
      BY <1>2
    <3>3. n # 0
      BY <3>1, <3>2
    <3> QED
      BY <3>1, <3>3
  <2>4. ChunkStep(n - 1) < j
    <3>1. PICK e \in Nat : e = n - 1
      BY <2>3
    <3>2. e \in 0..c /\ ~(n <= e)
      BY <2>3, <3>1
    <3>3. e \notin S
      BY <2>2, <3>2
    <3>4. ~(j <= ChunkStep(e))
      BY <2>1, <3>2, <3>3
    <3>5. PICK x \in Nat : x = ChunkStep(e)
      BY <1>2
    <3>6. x < j
      BY <3>4, <3>5
    <3> QED
      BY <3>1, <3>5, <3>6
  <2>5. p[j] \in ToSet(Pieces(p)[n])
    BY <1>6, <2>3, <2>4
  <2> QED
    BY <1>7, <2>3, <2>5 DEF CharsOf
<1>12. ToSet(p) = {p[j] : j \in 1..l}
  BY <1>1 DEF ToSet
<1> QED
  BY <1>1, <1>3, <1>4, <1>6, <1>7, <1>8, <1>10, <1>11, <1>12

\* The end of a chunk that the next one repeats
LEMMA LastOfOK ==
    ASSUME NEW s \in Seq(Chars), s # << >>, NEW n \in Nat \ {0}
    PROVE  LastOf(s, n) \in Seq(Chars) /\ Len(LastOf(s, n)) <= n
<1>1. PICK l \in Nat \ {0} : l = Len(s)
  OBVIOUS
<1>2. PICK m \in Nat \ {0} : m = IF n < l THEN l - n + 1 ELSE 1
  <2>1. (IF n < l THEN l - n + 1 ELSE 1) \in Nat \ {0}
    OBVIOUS
  <2> QED
    BY <2>1
<1>3. LastOf(s, n) = SubSeq(s, m, l)
  BY <1>1, <1>2 DEF LastOf
<1>4. m <= l /\ l - m + 1 <= n
  BY <1>2
<1>5. \A i \in m..l : s[i] \in Chars
  BY <1>1
<1>6. SubSeq(s, m, l) \in Seq(Chars) /\ Len(SubSeq(s, m, l)) = IF m <= l THEN l - m + 1 ELSE 0
  BY <1>5, SubSeqProperties
<1> QED
  BY <1>3, <1>4, <1>6

LEMMA JoinedUp ==
    ASSUME NEW cur \in Seq(Chars), NEW p \in Seq(Chars)
    PROVE  /\ Joined(cur, p) \in Seq(Chars)
           /\ Len(Joined(cur, p)) = IF cur = << >> THEN Len(p) ELSE Len(cur) + Len(p) + 2
           /\ ToSet(cur) \cup ToSet(p) \subseteq ToSet(Joined(cur, p))
<1>1. CASE cur = << >>
  BY <1>1 DEF Joined, ToSet
<1>2. CASE cur # << >>
  <2>1. PICK sep \in Seq(Chars) : sep = Separator /\ Len(sep) = 2
    <3>1. Separator \in Seq(Chars) /\ Len(Separator) = 2
      BY DEF Separator, Chars
    <3> QED
      BY <3>1
  <2>2. cur \o sep \in Seq(Chars) /\ Len(cur \o sep) = Len(cur) + 2
        /\ ToSet(cur) \subseteq ToSet(cur \o sep)
    BY <2>1, ConcatHas
  <2>3. PICK both \in Seq(Chars) : both = cur \o sep
    BY <2>2
  <2>4. /\ both \o p \in Seq(Chars) /\ Len(both \o p) = Len(both) + Len(p)
        /\ ToSet(both) \cup ToSet(p) \subseteq ToSet(both \o p)
    BY ConcatHas
  <2>5. Joined(cur, p) = both \o p
    BY <1>2, <2>1, <2>3 DEF Joined
  <2>6. Len(cur) + 2 + Len(p) = Len(cur) + Len(p) + 2
    OBVIOUS
  <2> QED
    BY <1>2, <2>2, <2>3, <2>4, <2>5, <2>6
<1> QED
  BY <1>1, <1>2

\* A paragraph loses no character, its own or one held before.
LEMMA ParagraphOK ==
    ASSUME NEW acc, FillingOK(acc), NEW p \in Seq(Chars)
    PROVE  FillingOK(WithParagraph(acc, p)) /\ Held(acc) \cup ToSet(p) \subseteq Held(WithParagraph(acc, p))
<1>0. /\ acc.out \in Seq(Seq(Chars)) /\ acc.cur \in Seq(Chars) /\ Len(acc.cur) <= Longest
      /\ \A n \in DOMAIN acc.out : Len(acc.out[n]) <= Longest
  BY DEF FillingOK, Fillings
<1>1. PICK c \in Nat : c = Cuts(p) /\ (c = 0 => Len(p) <= Size)
  <2>1. Len(p) \in Nat /\ Size \in Nat
    BY KnowledgeAssumption
  <2> QED
    BY <2>1, CutsOK
<1>2. PICK rest \in Seq(Chars), pieces \in Seq(Seq(Chars)) :
         /\ rest = LeftOver(p) /\ Len(rest) <= Size
         /\ pieces = Pieces(p) /\ \A n \in DOMAIN pieces : Len(pieces[n]) <= Longest
         /\ ToSet(p) \subseteq CharsOf(pieces) \cup ToSet(rest)
  BY CutUp
<1>3. PICK done \in Seq(Seq(Chars)) :
         /\ done = IF c > 0 /\ acc.cur # << >> THEN Append(acc.out, acc.cur) ELSE acc.out
         /\ \A n \in DOMAIN done : Len(done[n]) <= Longest
         /\ CharsOf(acc.out) \subseteq CharsOf(done)
         /\ c > 0 => ToSet(acc.cur) \subseteq CharsOf(done)
  <2>1. /\ Append(acc.out, acc.cur) \in Seq(Seq(Chars))
        /\ \A n \in DOMAIN Append(acc.out, acc.cur) : Len(Append(acc.out, acc.cur)[n]) <= Longest
        /\ CharsOf(acc.out) \cup ToSet(acc.cur) \subseteq CharsOf(Append(acc.out, acc.cur))
    BY <1>0, ChunkAdded
  <2>2. acc.cur = << >> => ToSet(acc.cur) = {}
    BY DEF ToSet
  <2>3. CASE c > 0 /\ acc.cur # << >>
    BY <2>1, <2>3
  <2>4. CASE ~(c > 0 /\ acc.cur # << >>)
    BY <1>0, <2>2, <2>4
  <2> QED
    BY <2>3, <2>4
<1>4. PICK out \in Seq(Seq(Chars)) :
         /\ out = done \o pieces /\ \A n \in DOMAIN out : Len(out[n]) <= Longest
         /\ CharsOf(done) \cup CharsOf(pieces) \subseteq CharsOf(out)
  BY <1>2, <1>3, ChunksAdd
<1>5. PICK cur \in Seq(Chars) : cur = (IF c > 0 THEN << >> ELSE acc.cur) /\ Len(cur) <= Longest
  <2>1. << >> \in Seq(Chars) /\ Len(<< >>) = 0 /\ 0 <= Longest
    BY KnowledgeAssumption DEF Longest
  <2> QED
    BY <1>0, <2>1
<1>6. Held(acc) \cup ToSet(p) \subseteq CharsOf(out) \cup ToSet(cur) \cup ToSet(rest)
  <2>1. ToSet(acc.cur) \subseteq CharsOf(out) \cup ToSet(cur)
    BY <1>1, <1>3, <1>4, <1>5
  <2> QED
    BY <1>2, <1>3, <1>4, <2>1 DEF Held
<1>7. Size \in Nat /\ Overlap \in Nat /\ Longest = Size + Overlap + 2
  BY KnowledgeAssumption DEF Longest
<1>8. CASE cur # << >> /\ Len(cur) + Len(rest) + 2 > Size
  <2>1. PICK next : next = IF Overlap > 0 THEN Joined(LastOf(cur, Overlap), rest) ELSE rest
    OBVIOUS
  <2>2. WithParagraph(acc, p) = [out |-> Append(out, cur), cur |-> next]
    BY <1>1, <1>2, <1>3, <1>4, <1>5, <1>8, <2>1 DEF WithParagraph
  <2>3. next \in Seq(Chars) /\ Len(next) <= Longest /\ ToSet(rest) \subseteq ToSet(next)
    <3>1. CASE Overlap > 0
      <4>1. PICK last \in Seq(Chars) : last = LastOf(cur, Overlap) /\ Len(last) <= Overlap
        BY <1>7, <1>8, <3>1, LastOfOK
      <4>2. /\ Joined(last, rest) \in Seq(Chars)
            /\ Len(Joined(last, rest)) = IF last = << >> THEN Len(rest) ELSE Len(last) + Len(rest) + 2
            /\ ToSet(last) \cup ToSet(rest) \subseteq ToSet(Joined(last, rest))
        BY JoinedUp
      <4>3. Len(last) \in Nat /\ Len(rest) \in Nat
        OBVIOUS
      <4> QED
        BY <1>2, <1>7, <2>1, <3>1, <4>1, <4>2, <4>3
    <3>2. CASE ~(Overlap > 0)
      BY <1>2, <1>7, <2>1, <3>2
    <3> QED
      BY <3>1, <3>2
  <2>4. /\ Append(out, cur) \in Seq(Seq(Chars))
        /\ \A n \in DOMAIN Append(out, cur) : Len(Append(out, cur)[n]) <= Longest
        /\ CharsOf(out) \cup ToSet(cur) \subseteq CharsOf(Append(out, cur))
    BY <1>4, <1>5, ChunkAdded
  <2>5. PICK more \in Seq(Seq(Chars)) : more = Append(out, cur)
    BY <2>4
  <2>6. PICK r \in Fillings : r = [out |-> more, cur |-> next]
    BY <2>3 DEF Fillings
  <2>7. FillingOK(r) /\ Held(r) = CharsOf(more) \cup ToSet(next)
    BY <2>3, <2>4, <2>5, <2>6 DEF FillingOK, Held
  <2> QED
    BY <1>6, <2>2, <2>3, <2>4, <2>5, <2>6, <2>7
<1>9. CASE ~(cur # << >> /\ Len(cur) + Len(rest) + 2 > Size)
  <2>1. PICK next : next = Joined(cur, rest)
    OBVIOUS
  <2>2. WithParagraph(acc, p) = [out |-> out, cur |-> next]
    BY <1>1, <1>2, <1>3, <1>4, <1>5, <1>9, <2>1 DEF WithParagraph
  <2>3. next \in Seq(Chars) /\ Len(next) <= Longest /\ ToSet(cur) \cup ToSet(rest) \subseteq ToSet(next)
    <3>1. /\ Joined(cur, rest) \in Seq(Chars)
          /\ Len(Joined(cur, rest)) = IF cur = << >> THEN Len(rest) ELSE Len(cur) + Len(rest) + 2
          /\ ToSet(cur) \cup ToSet(rest) \subseteq ToSet(Joined(cur, rest))
      BY JoinedUp
    <3>2. Len(cur) \in Nat /\ Len(rest) \in Nat
      OBVIOUS
    <3> QED
      BY <1>2, <1>7, <1>9, <2>1, <3>1, <3>2
  <2>4. PICK r \in Fillings : r = [out |-> out, cur |-> next]
    BY <2>3 DEF Fillings
  <2>5. FillingOK(r) /\ Held(r) = CharsOf(out) \cup ToSet(next)
    BY <1>4, <2>3, <2>4 DEF FillingOK, Held
  <2> QED
    BY <1>6, <2>2, <2>3, <2>4, <2>5
<1> QED
  BY <1>8, <1>9

-----------------------------------------------------------------------------
\* The recursion over the paragraphs has a value: there is one for the first m
\* of them, for every m.
Empty == [out |-> << >>, cur |-> << >>]
FilledBy(f, t, m) ==
    f = [n \in 0..m |-> IF n = 0 THEN Empty ELSE WithParagraph(f[n - 1], Paragraph(n, t[n]))]

LEMMA FillingIs ==
    ASSUME NEW t \in Seq(Nat)
    PROVE  FilledBy(Filling(t), t, Len(t))
<1> DEFINE Good == {m \in Nat : \E f : FilledBy(f, t, m)}
<1>0. PICK N \in Nat : N = Len(t)
  OBVIOUS
<1>1. 0 \in Good
  <2>1. PICK f : f = [n \in 0..0 |-> Empty]
    OBVIOUS
  <2>2. f = [n \in 0..0 |-> IF n = 0 THEN Empty ELSE WithParagraph(f[n - 1], Paragraph(n, t[n]))]
    <3>1. \A n \in 0..0 : n = 0
      OBVIOUS
    <3> QED
      BY <2>1, <3>1
  <2> QED
    BY <2>2 DEF FilledBy
<1>2. ASSUME NEW m \in 0..(N - 1), m \in Good PROVE m + 1 \in Good
  <2>1. PICK f : FilledBy(f, t, m)
    BY <1>2
  <2>2. PICK k \in Nat : k = m + 1
    OBVIOUS
  <2>3. PICK g : g = [n \in 0..k |-> IF n = k THEN WithParagraph(f[m], Paragraph(k, t[k])) ELSE f[n]]
    OBVIOUS
  <2>4. \A n \in 0..m : g[n] = f[n] /\ f[n] = IF n = 0 THEN Empty ELSE WithParagraph(f[n - 1], Paragraph(n, t[n]))
    <3>1. \A n \in 0..m : n \in 0..k /\ n # k
      BY <2>2
    <3> QED
      BY <2>1, <2>3, <3>1 DEF FilledBy
  <2>5. ASSUME NEW n \in 0..k
        PROVE  g[n] = IF n = 0 THEN Empty ELSE WithParagraph(g[n - 1], Paragraph(n, t[n]))
    <3>1. CASE n = k
      <4>1. n # 0 /\ n - 1 = m /\ m \in 0..m
        BY <2>2, <3>1
      <4>2. g[n] = WithParagraph(f[m], Paragraph(n, t[n])) /\ g[m] = f[m]
        BY <2>3, <2>4, <3>1, <4>1
      <4> QED
        BY <4>1, <4>2
    <3>2. CASE n # k /\ n # 0
      <4>1. n \in 0..m /\ n - 1 \in 0..m
        BY <2>2, <3>2
      <4> QED
        BY <2>4, <3>2, <4>1
    <3>3. CASE n = 0
      BY <2>2, <2>4, <3>3
    <3> QED
      BY <3>1, <3>2, <3>3
  <2>6. g = [n \in 0..k |-> IF n = 0 THEN Empty ELSE WithParagraph(g[n - 1], Paragraph(n, t[n]))]
    <3>1. g = [n \in 0..k |-> g[n]]
      BY <2>3
    <3> QED
      BY <2>5, <3>1
  <2> QED
    BY <2>2, <2>6 DEF FilledBy
<1>3. N \in Good
  <2>1. Good \in SUBSET Nat /\ N \in 0..N
    OBVIOUS
  <2> HIDE DEF Good
  <2> QED
    BY <1>1, <1>2, <2>1, GoesOn
<1>4. PICK f : FilledBy(f, t, N)
  BY <1>3
<1>5. Filling(t) = CHOOSE h : h = [n \in 0..N |->
          IF n = 0 THEN Empty ELSE WithParagraph(h[n - 1], Paragraph(n, t[n]))]
  BY <1>0 DEF Filling, Empty
<1> QED
  BY <1>0, <1>4, <1>5 DEF FilledBy

\* After each paragraph all characters so far are held.
LEMMA FillingHolds ==
    ASSUME NEW t \in Seq(Nat), NEW n \in 0..Len(t)
    PROVE  /\ FillingOK(Filling(t)[n])
           /\ \A i \in 1..n : \A j \in 1..t[i] : <<i, j>> \in Held(Filling(t)[n])
<1> DEFINE whole(m) == /\ FillingOK(Filling(t)[m])
                       /\ \A i \in 1..m : \A j \in 1..t[i] : <<i, j>> \in Held(Filling(t)[m])
           Good == {m \in Nat : whole(m)}
<1>0. PICK N \in Nat : N = Len(t)
  OBVIOUS
<1>1. PICK f : f = Filling(t)
  OBVIOUS
<1>2. \A m \in 0..N : f[m] = IF m = 0 THEN Empty ELSE WithParagraph(f[m - 1], Paragraph(m, t[m]))
  BY <1>0, <1>1, FillingIs DEF FilledBy
<1>3. whole(0)
  <2>1. f[0] = Empty
    BY <1>0, <1>2
  <2>2. Empty \in Fillings /\ Empty.cur = << >> /\ Empty.out = << >> /\ Len(<< >>) = 0 /\ 0 <= Longest
    BY KnowledgeAssumption DEF Empty, Fillings, Longest
  <2>3. DOMAIN Empty.out = {}
    BY DEF Empty
  <2>4. FillingOK(Empty)
    BY <2>2, <2>3 DEF FillingOK
  <2> QED
    BY <1>1, <2>1, <2>4
<1>4. ASSUME NEW m \in 0..(N - 1), whole(m) PROVE whole(m + 1)
  <2>1. PICK k \in 1..N : k = m + 1 /\ k - 1 = m
    OBVIOUS
  <2>2. PICK l \in Nat : l = t[k]
    BY <1>0
  <2>3. PICK p \in Seq(Chars) : p = Paragraph(k, l) /\ \A j \in 1..l : <<k, j>> \in ToSet(p)
    <3>1. PICK p : p = [j \in 1..l |-> <<k, j>>]
      OBVIOUS
    <3>2. p \in Seq(Chars) /\ DOMAIN p = 1..l /\ \A j \in 1..l : p[j] = <<k, j>>
      BY <3>1 DEF Chars
    <3> QED
      BY <3>1, <3>2 DEF Paragraph, ToSet
  <2>4. f[k] = WithParagraph(f[m], p)
    BY <1>2, <2>1, <2>2, <2>3
  <2>5. FillingOK(f[m])
    BY <1>1, <1>4
  <2>6. FillingOK(f[k]) /\ Held(f[m]) \cup ToSet(p) \subseteq Held(f[k])
    BY <2>4, <2>5, ParagraphOK
  <2>7. ASSUME NEW i \in 1..k, NEW j \in 1..t[i] PROVE <<i, j>> \in Held(f[k])
    <3>1. CASE i = k
      BY <2>2, <2>3, <2>6, <3>1
    <3>2. CASE i # k
      <4>1. i \in 1..m
        BY <2>1, <3>2
      <4> QED
        BY <1>1, <1>4, <2>6, <4>1
    <3> QED
      BY <3>1, <3>2
  <2> QED
    BY <1>1, <2>1, <2>6, <2>7
<1>5. 0..N \subseteq Good
  <2>1. 0 \in Good /\ Good \in SUBSET Nat /\ \A m \in 0..(N - 1) : m \in Good => m + 1 \in Good
    BY <1>3, <1>4
  <2> HIDE DEF Good
  <2> QED
    BY <2>1, GoesOn
<1> QED
  BY <1>0, <1>5

\* chunk_text(): chunks that hold the whole text, none too long
LEMMA ChunkTextOK ==
    ASSUME NEW t \in Seq(Nat)
    PROVE  /\ ChunkText(t) \in Seq(Seq(Chars))
           /\ \A n \in DOMAIN ChunkText(t) : Len(ChunkText(t)[n]) <= Longest
           /\ \A i \in 1..Len(t) : \A j \in 1..t[i] : <<i, j>> \in CharsOf(ChunkText(t))
<1>1. PICK end : end = Filling(t)[Len(t)]
  OBVIOUS
<1>2. FillingOK(end) /\ \A i \in 1..Len(t) : \A j \in 1..t[i] : <<i, j>> \in Held(end)
  <2>1. Len(t) \in 0..Len(t)
    OBVIOUS
  <2> QED
    BY <1>1, <2>1, FillingHolds
<1>3. ChunkText(t) = IF end.cur = << >> THEN end.out ELSE Append(end.out, end.cur)
  BY <1>1 DEF ChunkText
<1>4. /\ end.out \in Seq(Seq(Chars)) /\ end.cur \in Seq(Chars) /\ Len(end.cur) <= Longest
      /\ \A n \in DOMAIN end.out : Len(end.out[n]) <= Longest
  BY <1>2 DEF FillingOK, Fillings
<1>5. /\ Append(end.out, end.cur) \in Seq(Seq(Chars))
      /\ \A n \in DOMAIN Append(end.out, end.cur) : Len(Append(end.out, end.cur)[n]) <= Longest
      /\ CharsOf(end.out) \cup ToSet(end.cur) \subseteq CharsOf(Append(end.out, end.cur))
  BY <1>4, ChunkAdded
<1>6. end.cur = << >> => ToSet(end.cur) = {}
  BY DEF ToSet
<1>7. Held(end) \subseteq CharsOf(ChunkText(t))
  BY <1>3, <1>5, <1>6 DEF Held
<1> QED
  BY <1>2, <1>3, <1>4, <1>5, <1>7

\* The chunks of every text hold all of its characters, and none is longer than
\* a full paragraph behind an overlap.
THEOREM ChunksAlwaysCover == ChunksCover
<1> SUFFICES ASSUME NEW t \in Texts
             PROVE  /\ \A i \in DOMAIN t : \A j \in 1..t[i] : \E n \in DOMAIN ChunkText(t) :
                          <<i, j>> \in ToSet(ChunkText(t)[n])
                    /\ \A n \in DOMAIN ChunkText(t) : Len(ChunkText(t)[n]) <= Size + Overlap + 2
  BY DEF ChunksCover
<1>1. t \in Seq(Nat)
  BY KnowledgeAssumption
<1>2. DOMAIN t = 1..Len(t)
  BY <1>1
<1> QED
  BY <1>1, <1>2, ChunkTextOK DEF CharsOf, Longest

-----------------------------------------------------------------------------
\* The index: rows that are in it, and those that calls in progress will bring.
RowsAt(ix) == UNION {{s} \X DOMAIN ix[s] : s \in Sources}
Brings(i) == {i} \X DOMAIN ChunkText(ingests[i].text)
Waiting == {i \in Ingests : ingests[i].at = "embedding"}
Coming == UNION {Brings(i) : i \in Waiting}

Ingestions == [at : {"idle", "embedding"}, source : Sources \cup {""}, text : Texts \cup {<< >>}]

\* Beyond the limit only by what all calls but one may bring
Bounded(n) ==
    n > MAX_CHUNKS_PER_COLLECTION =>
        \E t \in Texts : n <= MAX_CHUNKS_PER_COLLECTION + (Cardinality(Ingests) - 1) * Len(ChunkText(t))

RagTypes ==
    /\ ingests \in [Ingests -> Ingestions]
    /\ \A i \in Waiting : ingests[i].source \in Sources /\ ingests[i].text \in Texts
    /\ indexed \in [Sources -> Texts \cup {<< >>}]
    /\ DOMAIN index = Sources
    /\ \A s \in Sources : index[s] = IF indexed[s] = << >> THEN << >> ELSE RowsFor(indexed[s])

RagInv ==
    /\ RagTypes /\ IsFiniteSet(RowsAt(index)) /\ IsFiniteSet(Coming)
    /\ Bounded(Cardinality(RowsAt(index)) + Cardinality(Coming))

LEMMA RowsForOK ==
    ASSUME NEW t \in Texts
    PROVE  /\ Len(ChunkText(t)) \in Nat /\ DOMAIN ChunkText(t) = 1..Len(ChunkText(t))
           /\ DOMAIN RowsFor(t) = DOMAIN ChunkText(t)
<1>1. t \in Seq(Nat)
  BY KnowledgeAssumption
<1>2. ChunkText(t) \in Seq(Seq(Chars))
  BY <1>1, ChunkTextOK
<1> QED
  BY <1>2 DEF RowsFor

\* A set of pairs with one first element
LEMMA ColumnOf ==
    ASSUME NEW x, NEW n \in Nat
    PROVE  IsFiniteSet({x} \X (1..n)) /\ Cardinality({x} \X (1..n)) = n
<1>1. IsFiniteSet({x}) /\ Cardinality({x}) = 1
  BY FS_Singleton
<1>2. IsFiniteSet(1..n) /\ Cardinality(1..n) = n
  BY FS_Interval
<1>3. /\ IsFiniteSet({x} \X (1..n))
      /\ Cardinality({x} \X (1..n)) = Cardinality({x}) * Cardinality(1..n)
  BY <1>1, <1>2, FS_Product, Zenon
<1>4. 1 * n = n
  OBVIOUS
<1> QED
  BY <1>1, <1>2, <1>3, <1>4

LEMMA FewerBounded ==
    ASSUME NEW n \in Nat, NEW m \in Nat, m <= n, Bounded(n)
    PROVE  Bounded(m)
<1> SUFFICES ASSUME m > MAX_CHUNKS_PER_COLLECTION
             PROVE  \E t \in Texts :
                       m <= MAX_CHUNKS_PER_COLLECTION + (Cardinality(Ingests) - 1) * Len(ChunkText(t))
  BY DEF Bounded
<1>1. PICK max \in Nat : max = MAX_CHUNKS_PER_COLLECTION
  BY KnowledgeAssumption
<1>2. PICK t \in Texts : n <= max + (Cardinality(Ingests) - 1) * Len(ChunkText(t))
  BY <1>1 DEF Bounded
<1>3. PICK k \in Int : k = (Cardinality(Ingests) - 1) * Len(ChunkText(t))
  <2>1. Cardinality(Ingests) - 1 \in Int
    BY FS_CardinalityType, KnowledgeAssumption
  <2>2. Len(ChunkText(t)) \in Int
    BY RowsForOK
  <2> QED
    BY <2>1, <2>2
<1> QED
  BY <1>1, <1>2, <1>3

\* The calls in progress bring no more than all of them would that bring as
\* much as the one that brings most.
LEMMA ComingBounded ==
    ASSUME RagTypes, IsFiniteSet(Coming), NEW i \in Ingests, i \notin Waiting
    PROVE  \/ Coming = {}
           \/ \E t \in Texts : Cardinality(Coming) <= (Cardinality(Ingests) - 1) * Len(ChunkText(t))
<1> SUFFICES ASSUME Coming # {}
             PROVE  \E t \in Texts : Cardinality(Coming) <= (Cardinality(Ingests) - 1) * Len(ChunkText(t))
  OBVIOUS
<1> DEFINE len(j) == Len(ChunkText(ingests[j].text))
           Up == {b \in Nat : \A j \in Waiting : len(j) <= b}
<1>0. \A j \in Waiting : ingests[j].text \in Texts /\ len(j) \in Nat /\ Brings(j) = {j} \X (1..len(j))
  BY RowsForOK DEF RagTypes, Brings
<1>1. Cardinality(Coming) \in Up
  <2>1. Cardinality(Coming) \in Nat
    BY FS_CardinalityType
  <2>2. ASSUME NEW j \in Waiting PROVE len(j) <= Cardinality(Coming)
    <3>1. Brings(j) \in SUBSET Coming
      BY DEF Coming
    <3>2. Cardinality(Brings(j)) <= Cardinality(Coming)
      BY <3>1, FS_Subset
    <3>3. Cardinality(Brings(j)) = len(j)
      BY <1>0, ColumnOf
    <3> QED
      BY <3>2, <3>3
  <2> QED
    BY <2>1, <2>2
<1>2. PICK most \in Up : \A b \in Up : most <= b
  <2>1. Up \in SUBSET Nat
    OBVIOUS
  <2> QED
    BY <1>1, <2>1, Smallest
<1>3. most \in Nat /\ \A j \in Waiting : len(j) <= most
  BY <1>2
<1>4. PICK w \in Waiting : most <= len(w)
  <2>1. PICK w \in Waiting : TRUE
    BY DEF Coming
  <2>2. CASE most = 0
    BY <1>0, <2>1, <2>2
  <2>3. CASE most # 0
    <3>1. most - 1 \in Nat /\ ~(most <= most - 1)
      BY <1>3, <2>3
    <3>2. most - 1 \notin Up
      BY <1>2, <3>1
    <3>3. PICK j \in Waiting : ~(len(j) <= most - 1)
      BY <3>1, <3>2
    <3>4. most <= len(j)
      BY <1>0, <1>3, <3>3
    <3> QED
      BY <3>4
  <2> QED
    BY <2>2, <2>3
<1>5. PICK t \in Texts : t = ingests[w].text /\ Len(ChunkText(t)) = most
  <2>1. len(w) = most
    BY <1>0, <1>3, <1>4
  <2> QED
    BY <1>0, <2>1
<1>6. PICK others : others = Ingests \ {i}
  OBVIOUS
<1>7. PICK k \in Nat : k = Cardinality(others) /\ k = Cardinality(Ingests) - 1 /\ IsFiniteSet(others)
  <2>1. IsFiniteSet(others) /\ Cardinality(others) = Cardinality(Ingests) - 1
    BY <1>6, FS_RemoveElement, KnowledgeAssumption
  <2> QED
    BY <2>1, FS_CardinalityType
<1>8. Coming \in SUBSET (others \X (1..most))
  <2> SUFFICES ASSUME NEW j \in Waiting, NEW n \in 1..len(j)
               PROVE  <<j, n>> \in others \X (1..most)
    BY <1>0 DEF Coming
  <2>1. j \in others
    BY <1>6 DEF Waiting
  <2>2. n \in 1..most
    BY <1>0, <1>3
  <2> QED
    BY <2>1, <2>2
<1>9. IsFiniteSet(others \X (1..most)) /\ Cardinality(others \X (1..most)) = k * most
  <2>1. IsFiniteSet(1..most) /\ Cardinality(1..most) = most
    BY <1>3, FS_Interval
  <2> QED
    <3>1. /\ IsFiniteSet(others \X (1..most))
          /\ Cardinality(others \X (1..most)) = Cardinality(others) * Cardinality(1..most)
      BY <1>7, <2>1, FS_Product, Zenon
    <3> QED
      BY <1>7, <2>1, <3>1
<1>10. Cardinality(Coming) <= k * most
  BY <1>8, <1>9, FS_Subset
<1> QED
  BY <1>5, <1>7, <1>10

LEMMA IngestBegun ==
    ASSUME RagInv, NEW i \in Ingests, NEW s \in Sources, NEW t \in Texts, BeginIngest(i, s, t)
    PROVE  RagInv'
<1>0. RagTypes /\ IsFiniteSet(RowsAt(index)) /\ IsFiniteSet(Coming)
  BY DEF RagInv
<1>1. /\ index' = index /\ indexed' = indexed /\ i \notin Waiting
      /\ ingests' = [ingests EXCEPT ![i] = [at |-> "embedding", source |-> s, text |-> t]]
  BY DEF BeginIngest, Waiting
<1>2. PICK g \in Ingestions : g = [at |-> "embedding", source |-> s, text |-> t]
  BY DEF Ingestions
<1>3. /\ ingests' \in [Ingests -> Ingestions] /\ ingests'[i] = g
      /\ \A j \in Ingests \ {i} : ingests'[j] = ingests[j]
  BY <1>0, <1>1, <1>2 DEF RagTypes
<1>4. Waiting' = Waiting \cup {i}
  BY <1>1, <1>2, <1>3 DEF Waiting
<1>5. RagTypes'
  <2>1. \A j \in Waiting' : ingests'[j].source \in Sources /\ ingests'[j].text \in Texts
    <3>1. \A j \in Waiting : j # i /\ j \in Ingests
      BY <1>1 DEF Waiting
    <3> QED
      BY <1>0, <1>2, <1>3, <1>4, <3>1 DEF RagTypes
  <2> QED
    BY <1>0, <1>1, <1>3, <2>1 DEF RagTypes
<1>6. PICK n \in Nat : n = Len(ChunkText(t)) /\ DOMAIN ChunkText(t) = 1..n
  BY RowsForOK
<1>7. Coming' = Coming \cup ({i} \X (1..n)) /\ Coming \cap ({i} \X (1..n)) = {}
  <2>1. (Brings(i))' = {i} \X (1..n)
    BY <1>2, <1>3, <1>6 DEF Brings
  <2>2. \A j \in Waiting : (Brings(j))' = Brings(j) /\ j # i
    BY <1>1, <1>3 DEF Brings, Waiting
  <2>3. Coming' = UNION {(Brings(j))' : j \in Waiting'}
    BY DEF Coming
  <2>4. Coming' = Coming \cup (Brings(i))'
    BY <1>4, <2>2, <2>3 DEF Coming
  <2>5. \A x \in Coming : x[1] # i
    BY <2>2 DEF Coming, Brings
  <2> QED
    BY <2>1, <2>4, <2>5
<1>8. PICK there \in Nat, coming \in Nat :
         there = Cardinality(RowsAt(index)) /\ coming = Cardinality(Coming)
  BY <1>0, FS_CardinalityType
<1>9. IsFiniteSet(Coming') /\ Cardinality(Coming') = coming + n
  <2>1. IsFiniteSet({i} \X (1..n)) /\ Cardinality({i} \X (1..n)) = n
    BY ColumnOf
  <2>2. /\ IsFiniteSet(Coming \cup ({i} \X (1..n)))
        /\ Cardinality(Coming \cup ({i} \X (1..n))) =
              Cardinality(Coming) + Cardinality({i} \X (1..n)) - Cardinality(Coming \cap ({i} \X (1..n)))
    BY <1>0, <2>1, FS_Union, Zenon
  <2>3. Cardinality(Coming \cap ({i} \X (1..n))) = 0
    BY <1>7, FS_EmptySet
  <2> QED
    BY <1>7, <1>8, <2>1, <2>2, <2>3
<1>10. PICK max \in Nat : max = MAX_CHUNKS_PER_COLLECTION /\ there + n <= max
  <2>1. MAX_CHUNKS_PER_COLLECTION \in Nat
    BY KnowledgeAssumption
  <2> QED
    BY <1>6, <1>8, <2>1 DEF BeginIngest, ChunksIn, RowsAt
<1>11. Bounded(there + (coming + n))
  <2>1. CASE Coming = {}
    <3>1. coming = 0
      BY <1>8, <2>1, FS_EmptySet
    <3> QED
      BY <1>10, <3>1 DEF Bounded
  <2>2. CASE Coming # {}
    <3>1. PICK u \in Texts : coming <= (Cardinality(Ingests) - 1) * Len(ChunkText(u))
      BY <1>0, <1>1, <1>8, <2>2, ComingBounded
    <3>2. PICK k \in Int : k = (Cardinality(Ingests) - 1) * Len(ChunkText(u))
      <4>1. Cardinality(Ingests) - 1 \in Int
        BY FS_CardinalityType, KnowledgeAssumption
      <4>2. Len(ChunkText(u)) \in Int
        BY RowsForOK
      <4> QED
        BY <4>1, <4>2
    <3>3. there + (coming + n) <= max + k
      BY <1>10, <3>1, <3>2
    <3> QED
      BY <1>10, <3>2, <3>3 DEF Bounded
  <2> QED
    BY <2>1, <2>2
<1>12. (RowsAt(index))' = RowsAt(index)
  BY <1>1 DEF RowsAt
<1>13. (Bounded(Cardinality(RowsAt(index)) + Cardinality(Coming)))'
  <2>1. Bounded(Cardinality(RowsAt(index')) + Cardinality(Coming'))
    BY <1>8, <1>9, <1>11, <1>12 DEF RowsAt
  <2> QED
    BY <2>1 DEF Bounded, RowsAt
<1> QED
  BY <1>0, <1>5, <1>9, <1>12, <1>13 DEF RagInv

\* A call that ends brings nothing any more.
LEMMA IngestOver ==
    ASSUME RagTypes, IsFiniteSet(Coming), NEW i \in Waiting, ingests' = [ingests EXCEPT ![i] = NoIngest]
    PROVE  /\ ingests' \in [Ingests -> Ingestions]
           /\ Waiting' = Waiting \ {i} /\ \A j \in Waiting' : ingests'[j] = ingests[j]
           /\ IsFiniteSet(Coming') /\ Coming' \subseteq Coming
           /\ Cardinality(Coming') + Len(ChunkText(ingests[i].text)) <= Cardinality(Coming)
<1>0. i \in Ingests /\ ingests[i].text \in Texts
  BY DEF RagTypes, Waiting
<1>1. PICK n \in Nat : n = Len(ChunkText(ingests[i].text)) /\ Brings(i) = {i} \X (1..n)
  BY <1>0, RowsForOK DEF Brings
<1>2. NoIngest \in Ingestions /\ NoIngest.at = "idle"
  BY DEF Ingestions, NoIngest
<1>3. /\ ingests' \in [Ingests -> Ingestions] /\ ingests'[i] = NoIngest
      /\ \A j \in Ingests \ {i} : ingests'[j] = ingests[j]
  BY <1>0, <1>2 DEF RagTypes
<1>4. Waiting' = Waiting \ {i} /\ \A j \in Waiting' : ingests'[j] = ingests[j] /\ (Brings(j))' = Brings(j)
  BY <1>2, <1>3 DEF Waiting, Brings
<1>5. Coming' = Coming \ ({i} \X (1..n))
  <2>1. Coming' = UNION {(Brings(j))' : j \in Waiting'}
    BY DEF Coming
  <2>2. Coming' = UNION {Brings(j) : j \in Waiting \ {i}}
    BY <1>4, <2>1
  <2>3. \A j \in Waiting \ {i} : Brings(j) \cap ({i} \X (1..n)) = {}
    BY DEF Brings
  <2> QED
    BY <1>1, <2>2, <2>3 DEF Coming
<1>6. ({i} \X (1..n)) \subseteq Coming
  BY <1>1 DEF Coming
<1>7. /\ IsFiniteSet(Coming') /\ Coming' \subseteq Coming
      /\ Cardinality(Coming') \in Nat /\ Cardinality(Coming) \in Nat
  BY <1>5, FS_Subset, FS_CardinalityType
<1>8. IsFiniteSet({i} \X (1..n)) /\ Cardinality({i} \X (1..n)) = n
  BY ColumnOf
<1>9. Cardinality(Coming' \cup ({i} \X (1..n))) =
         Cardinality(Coming') + Cardinality({i} \X (1..n)) - Cardinality(Coming' \cap ({i} \X (1..n)))
  BY <1>7, <1>8, FS_Union, Zenon
<1>10. Coming' \cup ({i} \X (1..n)) = Coming /\ Coming' \cap ({i} \X (1..n)) = {}
  BY <1>5, <1>6
<1>11. Cardinality({}) = 0
  BY FS_EmptySet
<1>12. Cardinality(Coming) = Cardinality(Coming') + n
  <2>1. PICK a \in Nat, b \in Nat : a = Cardinality(Coming') /\ b = Cardinality(Coming)
    BY <1>7
  <2>2. b = a + Cardinality({i} \X (1..n)) - Cardinality({})
    BY <1>9, <1>10, <2>1
  <2> QED
    BY <1>8, <1>11, <2>1, <2>2
<1> QED
  BY <1>1, <1>3, <1>4, <1>7, <1>12

LEMMA IngestStored ==
    ASSUME RagInv, NEW i \in Ingests, StoreIngest(i)
    PROVE  RagInv'
<1>0. RagTypes /\ IsFiniteSet(RowsAt(index)) /\ IsFiniteSet(Coming) /\ i \in Waiting
  BY DEF RagInv, StoreIngest, Waiting
<1>1. PICK s \in Sources, t \in Texts : s = ingests[i].source /\ t = ingests[i].text
  BY <1>0 DEF RagTypes
<1>2. /\ index' = [index EXCEPT ![s] = RowsFor(t)]
      /\ indexed' = [indexed EXCEPT ![s] = t]
      /\ ingests' = [ingests EXCEPT ![i] = NoIngest]
  BY <1>1 DEF StoreIngest, Replaced
<1>3. PICK n \in Nat : n = Len(ChunkText(t)) /\ DOMAIN RowsFor(t) = 1..n
  BY RowsForOK
<1>4. /\ ingests' \in [Ingests -> Ingestions]
      /\ Waiting' = Waiting \ {i} /\ \A j \in Waiting' : ingests'[j] = ingests[j]
      /\ IsFiniteSet(Coming') /\ Cardinality(Coming') + n <= Cardinality(Coming)
  BY <1>0, <1>1, <1>2, <1>3, IngestOver
<1>5. RowsFor(<< >>) = << >>
  <2>1. PICK e \in Seq(Nat) : e = << >> /\ Len(e) = 0
    <3>1. << >> \in Seq(Nat) /\ Len(<< >>) = 0
      OBVIOUS
    <3> QED
      BY <3>1
  <2>2. PICK f : f = Filling(e) /\ FilledBy(f, e, 0)
    BY <2>1, FillingIs
  <2>3. f[0] = Empty
    BY <2>2 DEF FilledBy
  <2>4. ChunkText(e) = << >>
    BY <2>1, <2>2, <2>3 DEF ChunkText, Empty
  <2> QED
    BY <2>1, <2>4 DEF RowsFor
<1>6. RagTypes'
  <2>1. \A j \in Waiting' : ingests'[j].source \in Sources /\ ingests'[j].text \in Texts
    BY <1>0, <1>4 DEF RagTypes
  <2>2. indexed' \in [Sources -> Texts \cup {<< >>}] /\ DOMAIN index' = Sources
    BY <1>0, <1>2 DEF RagTypes
  <2>3. ASSUME NEW q \in Sources
        PROVE  index'[q] = IF indexed'[q] = << >> THEN << >> ELSE RowsFor(indexed'[q])
    <3>1. CASE q = s
      <4>1. index'[q] = RowsFor(t) /\ indexed'[q] = t
        BY <1>0, <1>2, <3>1 DEF RagTypes
      <4> QED
        BY <1>5, <4>1
    <3>2. CASE q # s
      <4>1. index'[q] = index[q] /\ indexed'[q] = indexed[q]
        BY <1>0, <1>2, <3>2 DEF RagTypes
      <4> QED
        BY <1>0, <4>1 DEF RagTypes
    <3> QED
      BY <3>1, <3>2
  <2> QED
    BY <1>4, <2>1, <2>2, <2>3 DEF RagTypes
<1>7. PICK more : more = RowsAt(index')
  OBVIOUS
<1>8. more \in SUBSET (RowsAt(index) \cup ({s} \X (1..n)))
  <2>1. index'[s] = RowsFor(t) /\ \A q \in Sources \ {s} : index'[q] = index[q]
    BY <1>0, <1>2 DEF RagTypes
  <2> QED
    BY <1>3, <1>7, <2>1 DEF RowsAt
<1>9. IsFiniteSet({s} \X (1..n)) /\ Cardinality({s} \X (1..n)) = n
  BY ColumnOf
<1>10. PICK there \in Nat, coming \in Nat, left \in Nat :
          there = Cardinality(RowsAt(index)) /\ coming = Cardinality(Coming) /\ left = Cardinality(Coming')
  BY <1>0, <1>4, FS_CardinalityType
<1>11. PICK all : all = RowsAt(index) \cup ({s} \X (1..n))
  OBVIOUS
<1>12. IsFiniteSet(all) /\ Cardinality(all) \in Nat /\ Cardinality(all) <= there + n
  <2>2. PICK meet : meet = RowsAt(index) \cap ({s} \X (1..n))
    OBVIOUS
  <2>3. /\ IsFiniteSet(all)
        /\ Cardinality(all) = Cardinality(RowsAt(index)) + Cardinality({s} \X (1..n)) - Cardinality(meet)
    BY <1>0, <1>9, <1>11, <2>2, FS_Union, Zenon
  <2>4. Cardinality(meet) \in Nat /\ Cardinality(all) \in Nat
    BY <1>0, <2>2, <2>3, FS_Intersection, FS_CardinalityType
  <2>5. Cardinality(all) <= there + n
    BY <1>9, <1>10, <2>3, <2>4
  <2> QED
    BY <2>3, <2>4, <2>5
<1>13. PICK now \in Nat : now = Cardinality(more) /\ now <= there + n /\ IsFiniteSet(more)
  <2>1. IsFiniteSet(more) /\ Cardinality(more) <= Cardinality(all) /\ Cardinality(more) \in Nat
    BY <1>8, <1>11, <1>12, FS_Subset, FS_CardinalityType
  <2> QED
    BY <1>12, <2>1
<1>14. Bounded(now + left)
  <2>1. Bounded(there + coming)
    BY <1>10 DEF RagInv
  <2>2. now + left <= there + coming
    BY <1>4, <1>10, <1>13
  <2> QED
    BY <2>1, <2>2, FewerBounded
<1>15. (Bounded(Cardinality(RowsAt(index)) + Cardinality(Coming)))'
  <2>1. Bounded(Cardinality(RowsAt(index')) + Cardinality(Coming'))
    BY <1>7, <1>10, <1>13, <1>14
  <2> QED
    BY <2>1 DEF Bounded, RowsAt
<1>16. IsFiniteSet(RowsAt(index))'
  BY <1>7, <1>13 DEF RowsAt
<1> QED
  BY <1>4, <1>6, <1>15, <1>16 DEF RagInv

LEMMA IngestFailed ==
    ASSUME RagInv, NEW i \in Ingests, IngestFails(i)
    PROVE  RagInv'
<1>0. RagTypes /\ IsFiniteSet(RowsAt(index)) /\ IsFiniteSet(Coming) /\ i \in Waiting
  BY DEF RagInv, IngestFails, Waiting
<1>1. index' = index /\ indexed' = indexed /\ ingests' = [ingests EXCEPT ![i] = NoIngest]
  BY DEF IngestFails
<1>2. /\ ingests' \in [Ingests -> Ingestions]
      /\ Waiting' = Waiting \ {i} /\ \A j \in Waiting' : ingests'[j] = ingests[j]
      /\ IsFiniteSet(Coming') /\ Coming' \subseteq Coming
  BY <1>0, <1>1, IngestOver
<1>3. RagTypes'
  BY <1>0, <1>1, <1>2 DEF RagTypes
<1>4. PICK there \in Nat, coming \in Nat, left \in Nat :
          there = Cardinality(RowsAt(index)) /\ coming = Cardinality(Coming) /\ left = Cardinality(Coming')
  BY <1>0, <1>2, FS_CardinalityType
<1>5. left <= coming
  BY <1>0, <1>2, <1>4, FS_Subset
<1>6. Bounded(there + left)
  <2>1. Bounded(there + coming)
    BY <1>4 DEF RagInv
  <2>2. there + left <= there + coming
    BY <1>5
  <2> QED
    BY <2>1, <2>2, FewerBounded
<1>7. (Bounded(Cardinality(RowsAt(index)) + Cardinality(Coming)))'
  <2>1. Bounded(Cardinality(RowsAt(index')) + Cardinality(Coming'))
    BY <1>1, <1>4, <1>6
  <2> QED
    BY <2>1 DEF Bounded, RowsAt
<1> QED
  BY <1>0, <1>1, <1>2, <1>3, <1>7 DEF RagInv, RowsAt

LEMMA SourceDeleted ==
    ASSUME RagInv, NEW s \in Sources, DeleteSource(s)
    PROVE  RagInv'
<1>0. RagTypes /\ IsFiniteSet(RowsAt(index)) /\ IsFiniteSet(Coming)
  BY DEF RagInv
<1>1. /\ index' = [index EXCEPT ![s] = << >>] /\ indexed' = [indexed EXCEPT ![s] = << >>]
      /\ ingests' = ingests
  BY DEF DeleteSource
<1>2. /\ index'[s] = << >> /\ indexed'[s] = << >> /\ DOMAIN index' = Sources
      /\ \A q \in Sources \ {s} : index'[q] = index[q] /\ indexed'[q] = indexed[q]
      /\ indexed' \in [Sources -> Texts \cup {<< >>}]
  BY <1>0, <1>1 DEF RagTypes
<1>3. RagTypes'
  BY <1>0, <1>1, <1>2 DEF RagTypes, Waiting
<1>4. Coming' = Coming
  BY <1>1 DEF Coming, Waiting, Brings
<1>5. PICK less : less = RowsAt(index')
  OBVIOUS
<1>6. less \in SUBSET RowsAt(index)
  BY <1>2, <1>5 DEF RowsAt
<1>7. IsFiniteSet(less) /\ Cardinality(less) <= Cardinality(RowsAt(index))
  BY <1>0, <1>6, FS_Subset
<1>8. PICK there \in Nat, coming \in Nat, left \in Nat :
          there = Cardinality(RowsAt(index)) /\ coming = Cardinality(Coming) /\ left = Cardinality(less)
  BY <1>0, <1>7, FS_CardinalityType
<1>9. Bounded(left + coming)
  <2>1. Bounded(there + coming)
    BY <1>8 DEF RagInv
  <2>2. left + coming <= there + coming
    BY <1>7, <1>8
  <2> QED
    BY <2>1, <2>2, FewerBounded
<1>10. (Bounded(Cardinality(RowsAt(index)) + Cardinality(Coming)))'
  <2>1. Bounded(Cardinality(RowsAt(index')) + Cardinality(Coming'))
    BY <1>4, <1>5, <1>8, <1>9
  <2> QED
    BY <2>1 DEF Bounded, RowsAt
<1> QED
  BY <1>0, <1>3, <1>4, <1>5, <1>7, <1>10 DEF RagInv, RowsAt

LEMMA RagStarts == RagInit => RagInv
<1> SUFFICES ASSUME RagInit PROVE RagInv
  OBVIOUS
<1>1. /\ ingests \in [Ingests -> Ingestions] /\ Waiting = {}
      /\ \A s \in Sources : index[s] = << >> /\ indexed[s] = << >>
  BY DEF RagInit, NoIngest, Ingestions, Waiting
<1>2. RagTypes
  BY <1>1 DEF RagInit, RagTypes
<1>3. RowsAt(index) = {} /\ Coming = {}
  BY <1>1 DEF RowsAt, Coming
<1>4. IsFiniteSet({}) /\ Cardinality({}) = 0
  BY FS_EmptySet
<1>5. Bounded(0 + 0)
  BY KnowledgeAssumption DEF Bounded
<1> QED
  BY <1>2, <1>3, <1>4, <1>5 DEF RagInv

LEMMA RagStep == RagInv /\ [RagNext]_ragVars => RagInv'
<1> SUFFICES ASSUME RagInv, [RagNext]_ragVars PROVE RagInv'
  OBVIOUS
<1>1. CASE UNCHANGED ragVars
  BY <1>1 DEF ragVars, RagInv, RagTypes, RowsAt, Coming, Brings, Waiting, Bounded
<1> QED
  BY <1>1, IngestBegun, IngestStored, IngestFailed, SourceDeleted DEF RagNext

\* However many ingests of the same documents overlap and fail, a document that is there
\* is there whole, as one of the texts that was ingested, and the collection goes over
\* its limit by no more than the calls that were checked before (ingest()).
THEOREM IndexAlwaysWhole == RagSpec => []IndexWhole
<1>1. RagInv => IndexWhole
  <2> SUFFICES ASSUME RagInv PROVE IndexWhole
    OBVIOUS
  <2>1. PICK there \in Nat, coming \in Nat :
          there = Cardinality(RowsAt(index)) /\ coming = Cardinality(Coming)
    BY FS_CardinalityType DEF RagInv
  <2>2. Bounded(there)
    <3>1. Bounded(there + coming) /\ there <= there + coming
      BY <2>1 DEF RagInv
    <3> QED
      BY <3>1, FewerBounded
  <2> QED
    BY <2>1, <2>2 DEF IndexWhole, ChunksIn, RowsAt, Bounded, RagInv, RagTypes
<1> QED
  BY <1>1, RagStarts, RagStep, PTL DEF RagSpec

-----------------------------------------------------------------------------
\* The ledger of usage.
\* Requests are counted as cells: one column of f[i] of them at each place i.
Cells(I, f) == UNION {{i} \X (1..f[i]) : i \in I}

LEMMA CellsAre ==
    ASSUME NEW I, NEW f, NEW u
    PROVE  u \in Cells(I, f) <=> \E i \in I : \E n \in 1..f[i] : u = <<i, n>>
BY DEF Cells

LEMMA CellsFinite ==
    ASSUME NEW I, IsFiniteSet(I), NEW f, \A i \in I : f[i] \in Nat
    PROVE  IsFiniteSet(Cells(I, f)) /\ Cardinality(Cells(I, f)) \in Nat
<1> DEFINE col(i) == {i} \X (1..f[i])
           T == {col(i) : i \in I}
           g == [i \in I |-> col(i)]
<1>1. g \in Surjection(I, T)
  BY DEF Surjection
<1>2. IsFiniteSet(T)
  BY <1>1, FS_Surjection
<1>3. ASSUME NEW i \in I PROVE IsFiniteSet(col(i))
  <2>1. PICK n \in Nat : n = f[i]
    OBVIOUS
  <2>2. IsFiniteSet({i})
    BY FS_Singleton
  <2>3. IsFiniteSet(1..n)
    BY FS_Interval
  <2> QED
    BY <2>1, <2>2, <2>3, FS_Product
<1>4. \A U \in T : IsFiniteSet(U)
  BY <1>3
<1>5. IsFiniteSet(Cells(I, f))
  BY <1>2, <1>4, FS_UNION DEF Cells
<1> QED
  BY <1>5, FS_CardinalityType

LEMMA CellsApart ==
    ASSUME NEW I, NEW J, IsFiniteSet(I), IsFiniteSet(J), I \cap J = {}, NEW f,
           \A i \in I \cup J : f[i] \in Nat
    PROVE  Cardinality(Cells(I \cup J, f)) = Cardinality(Cells(I, f)) + Cardinality(Cells(J, f))
<1>1. PICK A : A = Cells(I, f)
  OBVIOUS
<1>2. PICK B : B = Cells(J, f)
  OBVIOUS
<1>3. Cells(I \cup J, f) = A \cup B
  <2>1. \A u : u \in Cells(I \cup J, f) <=> u \in A \cup B
    BY <1>1, <1>2, CellsAre
  <2> QED BY <2>1
<1>4. A \cap B = {}
  <2> SUFFICES ASSUME NEW u \in A, u \in B PROVE FALSE
    OBVIOUS
  <2>1. u[1] \in I
    BY <1>1, CellsAre
  <2>2. u[1] \in J
    BY <1>2, CellsAre
  <2> QED BY <2>1, <2>2
<1>5. IsFiniteSet(A) /\ Cardinality(A) \in Nat /\ IsFiniteSet(B) /\ Cardinality(B) \in Nat
  BY <1>1, <1>2, CellsFinite
<1>6. Cardinality(A \cap B) = 0
  BY <1>4, FS_EmptySet
<1>7. Cardinality(A \cup B) = Cardinality(A) + Cardinality(B) - Cardinality(A \cap B)
  BY <1>5, FS_Union
<1>8. PICK a \in Nat : a = Cardinality(A)
  BY <1>5
<1>9. PICK b \in Nat : b = Cardinality(B)
  BY <1>5
<1>10. Cardinality(A \cup B) = a + b
  BY <1>6, <1>7, <1>8, <1>9
<1> QED BY <1>1, <1>2, <1>3, <1>8, <1>9, <1>10

\* LedgerRow that are moved keep their requests.
LEMMA CellsMoved ==
    ASSUME NEW I, IsFiniteSet(I), NEW J, NEW g \in Bijection(I, J), NEW f, NEW h,
           \A i \in I : f[i] \in Nat /\ h[g[i]] = f[i]
    PROVE  Cardinality(Cells(J, h)) = Cardinality(Cells(I, f))
<1> DEFINE A == Cells(I, f)
           B == Cells(J, h)
           m == [u \in A |-> <<g[u[1]], u[2]>>]
<1>0. /\ g \in [I -> J] /\ \A i, j \in I : g[i] = g[j] => i = j
      /\ \A j \in J : \E i \in I : g[i] = j
  BY DEF Bijection, Injection, IsInjective, Surjection
<1>1. \A u \in A : \E i \in I : \E n \in 1..f[i] : u = <<i, n>>
  BY CellsAre
<1>2. m \in [A -> B]
  <2> SUFFICES ASSUME NEW u \in A PROVE <<g[u[1]], u[2]>> \in B
    OBVIOUS
  <2>1. PICK i \in I : \E n \in 1..f[i] : u = <<i, n>>
    BY <1>1
  <2>2. PICK n \in 1..f[i] : u = <<i, n>>
    BY <2>1
  <2>3. g[i] \in J /\ n \in 1..h[g[i]] /\ <<g[u[1]], u[2]>> = <<g[i], n>>
    BY <1>0, <2>2
  <2>4. <<g[i], n>> \in B
    BY <2>3, CellsAre
  <2> QED BY <2>3, <2>4
<1>3. \A u, v \in A : m[u] = m[v] => u = v
  <2> SUFFICES ASSUME NEW u \in A, NEW v \in A, m[u] = m[v] PROVE u = v
    OBVIOUS
  <2>1. PICK i \in I : \E n \in 1..f[i] : u = <<i, n>>
    BY <1>1
  <2>2. PICK n \in 1..f[i] : u = <<i, n>>
    BY <2>1
  <2>3. PICK j \in I : \E k \in 1..f[j] : v = <<j, k>>
    BY <1>1
  <2>4. PICK k \in 1..f[j] : v = <<j, k>>
    BY <2>3
  <2>5. <<g[i], n>> = <<g[j], k>>
    BY <2>2, <2>4
  <2>6. g[i] = g[j] /\ n = k
    BY <2>5
  <2> QED BY <1>0, <2>2, <2>4, <2>6
<1>4. \A v \in B : \E u \in A : m[u] = v
  <2> SUFFICES ASSUME NEW v \in B PROVE \E u \in A : m[u] = v
    OBVIOUS
  <2>1. PICK j \in J : \E n \in 1..h[j] : v = <<j, n>>
    BY CellsAre
  <2>2. PICK n \in 1..h[j] : v = <<j, n>>
    BY <2>1
  <2>3. PICK i \in I : g[i] = j
    BY <1>0
  <2>4. n \in 1..f[i]
    BY <2>2, <2>3
  <2>5. <<i, n>> \in A
    BY <2>4, CellsAre
  <2>6. m[<<i, n>>] = <<g[i], n>>
    BY <2>5
  <2> QED BY <2>2, <2>3, <2>5, <2>6
<1>5. IsFiniteSet(A)
  BY CellsFinite
<1> HIDE DEF A, B, m
<1>6. m \in Bijection(A, B)
  BY <1>2, <1>3, <1>4 DEF Bijection, Injection, IsInjective, Surjection
<1>7. Cardinality(B) = Cardinality(A)
  BY <1>5, <1>6, FS_Bijection DEF ExistsBijection
<1> QED BY <1>7 DEF A, B

LEMMA CellsOfOne ==
    ASSUME NEW i, NEW f, f[i] \in Nat
    PROVE  Cardinality(Cells({i}, f)) = f[i]
<1>1. PICK n \in Nat : n = f[i]
  OBVIOUS
<1>2. Cells({i}, f) = {i} \X (1..n)
  BY <1>1 DEF Cells
<1>3. IsFiniteSet({i}) /\ Cardinality({i}) = 1
  BY FS_Singleton
<1>4. IsFiniteSet(1..n) /\ Cardinality(1..n) = n
  BY FS_Interval
<1>5. Cardinality({i} \X (1..n)) = Cardinality({i}) * Cardinality(1..n)
  BY <1>3, <1>4, FS_Product
<1>6. Cardinality({i}) * Cardinality(1..n) = 1 * n
  BY <1>3, <1>4
<1>7. 1 * n = n
  OBVIOUS
<1> QED BY <1>1, <1>2, <1>5, <1>6, <1>7, Zenon

\* One request more in one place is one more in all.
LEMMA CellsGrow ==
    ASSUME NEW I, IsFiniteSet(I), NEW f, NEW h, NEW i \in I,
           \A j \in I : f[j] \in Nat /\ h[j] = IF j = i THEN f[j] + 1 ELSE f[j]
    PROVE  Cardinality(Cells(I, h)) = Cardinality(Cells(I, f)) + 1
<1> DEFINE J == I \ {i}
<1>1. IsFiniteSet(J) /\ IsFiniteSet({i}) /\ J \cap {i} = {} /\ J \cup {i} = I
  BY FS_Subset, FS_Singleton
<1>2. Cells(J, f) = Cells(J, h)
  BY DEF Cells
<1>3. \A j \in J \cup {i} : f[j] \in Nat /\ h[j] \in Nat
  OBVIOUS
<1>4. Cardinality(Cells({i}, f)) = f[i] /\ Cardinality(Cells({i}, h)) = f[i] + 1
  <2>1. f[i] \in Nat /\ h[i] = f[i] + 1
    OBVIOUS
  <2>2. Cardinality(Cells({i}, h)) = h[i]
    BY <2>1, CellsOfOne
  <2> QED BY <2>1, <2>2, CellsOfOne
<1>5. Cardinality(Cells(J, f)) \in Nat
  BY <1>1, <1>3, CellsFinite
<1> HIDE DEF J
<1>6. Cardinality(Cells(J \cup {i}, f)) = Cardinality(Cells(J, f)) + Cardinality(Cells({i}, f))
  BY <1>1, <1>3, CellsApart
<1>7. Cardinality(Cells(J \cup {i}, h)) = Cardinality(Cells(J, h)) + Cardinality(Cells({i}, h))
  BY <1>1, <1>3, CellsApart
<1>8. PICK c \in Nat : c = Cardinality(Cells(J, f))
  BY <1>5
<1>9. PICK d \in Nat : d = f[i]
  OBVIOUS
<1>10. Cardinality(Cells(I, f)) = c + d /\ Cardinality(Cells(I, h)) = c + (d + 1)
  BY <1>1, <1>2, <1>4, <1>6, <1>7, <1>8, <1>9
<1> QED BY <1>10

\* The sums of the columns, put beside each other as columns of their own, are as many
\* cells as the columns have.
SumsOf(I, f, period, P, sums) ==
    /\ IsFiniteSet(I) /\ \A i \in I : f[i] \in Nat
    /\ P = {period[i] : i \in I}
    /\ \A p \in P : sums[p] = Cardinality(Cells({i \in I : period[i] = p}, f))

LEMMA CellsOfCells ==
    ASSUME NEW I, NEW f, NEW period, NEW P, NEW sums, SumsOf(I, f, period, P, sums)
    PROVE  Cardinality(Cells(P, sums)) = Cardinality(Cells(I, f))
<1>0. /\ IsFiniteSet(I) /\ \A i \in I : f[i] \in Nat
      /\ P = {period[i] : i \in I}
      /\ \A p \in P : sums[p] = Cardinality(Cells({i \in I : period[i] = p}, f))
  BY DEF SumsOf
<1> DEFINE part(p) == Cells({i \in I : period[i] = p}, f)
           H == [p \in P |-> CHOOSE h : h \in Bijection(1..sums[p], part(p))]
           A == Cells(P, sums)
           B == Cells(I, f)
           m == [u \in A |-> H[u[1]][u[2]]]
<1>1. ASSUME NEW p \in P PROVE H[p] \in Bijection(1..sums[p], part(p))
  <2>1. IsFiniteSet({i \in I : period[i] = p})
    BY <1>0, FS_Subset
  <2>2. IsFiniteSet(part(p)) /\ sums[p] = Cardinality(part(p))
    BY <1>0, <2>1, CellsFinite
  <2>3. ExistsBijection(1..sums[p], part(p))
    BY <2>2, FS_CardinalityType
  <2>4. \E h : h \in Bijection(1..sums[p], part(p))
    BY <2>3, Zenon DEF ExistsBijection
  <2> HIDE DEF part
  <2> QED BY <2>4
<1>2. \A u \in A : \E p \in P : \E n \in 1..sums[p] : u = <<p, n>>
  BY CellsAre
<1>3. \A p \in P : \A u : u \in part(p) <=> u \in B /\ period[u[1]] = p
  <2> SUFFICES ASSUME NEW p \in P, NEW u
               PROVE  u \in part(p) <=> u \in B /\ period[u[1]] = p
    OBVIOUS
  <2>1. u \in part(p) <=> \E i \in I : period[i] = p /\ \E n \in 1..f[i] : u = <<i, n>>
    BY CellsAre
  <2>2. u \in B <=> \E i \in I : \E n \in 1..f[i] : u = <<i, n>>
    BY CellsAre
  <2> QED BY <2>1, <2>2
<1>4. \A u \in B : u[1] \in I
  BY CellsAre
<1> HIDE DEF H, part
<1>5. \A p \in P : /\ \A n \in 1..sums[p] : H[p][n] \in part(p)
                   /\ \A n, k \in 1..sums[p] : H[p][n] = H[p][k] => n = k
                   /\ \A u \in part(p) : \E n \in 1..sums[p] : H[p][n] = u
  BY <1>1 DEF Bijection, Injection, IsInjective, Surjection
<1> HIDE DEF A, B
<1>6. \A p \in P : \A n \in 1..sums[p] : <<p, n>> \in A /\ m[<<p, n>>] = H[p][n]
  <2> SUFFICES ASSUME NEW p \in P, NEW n \in 1..sums[p]
               PROVE  <<p, n>> \in A /\ m[<<p, n>>] = H[p][n]
    OBVIOUS
  <2>1. <<p, n>> \in A
    BY CellsAre DEF A
  <2> QED BY <2>1
<1> HIDE DEF m
<1>7. \A u \in A : m[u] \in B
  <2> SUFFICES ASSUME NEW u \in A PROVE m[u] \in B
    OBVIOUS
  <2>1. PICK p \in P : \E n \in 1..sums[p] : u = <<p, n>>
    BY <1>2
  <2>2. PICK n \in 1..sums[p] : u = <<p, n>>
    BY <2>1
  <2> QED BY <1>3, <1>5, <1>6, <2>2
<1>8. \A u, v \in A : m[u] = m[v] => u = v
  <2> SUFFICES ASSUME NEW u \in A, NEW v \in A, m[u] = m[v] PROVE u = v
    OBVIOUS
  <2>1. PICK p \in P : \E n \in 1..sums[p] : u = <<p, n>>
    BY <1>2
  <2>2. PICK n \in 1..sums[p] : u = <<p, n>>
    BY <2>1
  <2>3. PICK q \in P : \E k \in 1..sums[q] : v = <<q, k>>
    BY <1>2
  <2>4. PICK k \in 1..sums[q] : v = <<q, k>>
    BY <2>3
  <2>5. m[u] = H[p][n] /\ m[v] = H[q][k]
    BY <1>6, <2>2, <2>4
  <2>6. H[p][n] \in part(p) /\ H[q][k] \in part(q)
    BY <1>5
  <2>7. p = q
    BY <1>3, <2>5, <2>6
  <2> QED BY <1>5, <2>2, <2>4, <2>5, <2>7
<1>9. \A v \in B : \E u \in A : m[u] = v
  <2> SUFFICES ASSUME NEW v \in B PROVE \E u \in A : m[u] = v
    OBVIOUS
  <2>1. PICK p \in P : p = period[v[1]]
    BY <1>0, <1>4
  <2>2. v \in part(p)
    BY <1>3, <2>1
  <2>3. PICK n \in 1..sums[p] : H[p][n] = v
    BY <1>5, <2>2
  <2> QED BY <1>6, <2>3
<1>10. IsFiniteSet(B)
  BY <1>0, CellsFinite DEF B
<1>11. m \in [A -> B]
  <2>1. m = [u \in A |-> m[u]]
    BY DEF m
  <2> QED BY <1>7, <2>1
<1>12. m \in Injection(A, B) /\ m \in Bijection(A, B)
  BY <1>8, <1>9, <1>11 DEF Bijection, Injection, IsInjective, Surjection
<1>13. m \in Surjection(A, B)
  BY <1>12 DEF Bijection
<1>14. Cardinality(A) = Cardinality(B)
  BY <1>10, <1>12, <1>13, FS_Injection
<1> QED BY <1>14 DEF A, B

-----------------------------------------------------------------------------
LedgerRow == [hour : Nat, key : UsageKeys, requests : Nat]
Sizes(rs) == [i \in DOMAIN rs |-> rs[i].requests]
Of(rs, k) == {i \in DOMAIN rs : rs[i].key = k}

LEMMA RowIs ==
    ASSUME NEW rs \in Seq(LedgerRow), NEW i \in DOMAIN rs
    PROVE  /\ rs[i] \in LedgerRow /\ rs[i].hour \in Nat /\ rs[i].key \in UsageKeys
           /\ rs[i].requests \in Nat /\ Sizes(rs)[i] = rs[i].requests
<1>1. rs[i] \in LedgerRow
  OBVIOUS
<1> QED BY <1>1 DEF LedgerRow, Sizes

LEMMA PlacesFinite ==
    ASSUME NEW rs \in Seq(LedgerRow)
    PROVE  IsFiniteSet(DOMAIN rs) /\ Len(rs) \in Nat /\ DOMAIN rs = 1..Len(rs)
<1>1. PICK n \in Nat : n = Len(rs) /\ DOMAIN rs = 1..n
  OBVIOUS
<1>2. IsFiniteSet(1..n)
  BY FS_Interval
<1> QED BY <1>1, <1>2

LEMMA RequestsAre ==
    ASSUME NEW rs \in Seq(LedgerRow), NEW I \in SUBSET DOMAIN rs
    PROVE  /\ IsFiniteSet(I) /\ \A i \in I : Sizes(rs)[i] \in Nat
           /\ RequestsAt(rs, I) = Cardinality(Cells(I, Sizes(rs)))
           /\ RequestsAt(rs, I) \in Nat
<1>1. IsFiniteSet(I)
  BY PlacesFinite, FS_Subset
<1>2. \A i \in I : Sizes(rs)[i] = rs[i].requests /\ Sizes(rs)[i] \in Nat
  BY RowIs
<1>3. UNION {{i} \X (1..rs[i].requests) : i \in I} = Cells(I, Sizes(rs))
  BY <1>2 DEF Cells
<1>4. RequestsAt(rs, I) = Cardinality(Cells(I, Sizes(rs)))
  BY <1>3, Zenon DEF RequestsAt
<1> QED BY <1>1, <1>2, <1>4, CellsFinite

LEMMA RequestsOfAre ==
    ASSUME NEW rs \in Seq(LedgerRow), NEW k
    PROVE  RequestsOf(rs, k) = RequestsAt(rs, Of(rs, k)) /\ RequestsOf(rs, k) \in Nat
           /\ Of(rs, k) \in SUBSET DOMAIN rs
<1>1. Of(rs, k) \in SUBSET DOMAIN rs /\ RequestsOf(rs, k) = RequestsAt(rs, Of(rs, k))
  BY DEF Of, RequestsOf
<1> QED BY <1>1, RequestsAre

\* LedgerRow that are moved keep their requests, in whatever places they are counted.
MovesTo(rs, I, ts, J, g) ==
    /\ rs \in Seq(LedgerRow) /\ ts \in Seq(LedgerRow) /\ I \subseteq DOMAIN rs /\ J \subseteq DOMAIN ts
    /\ g \in [I -> J]
    /\ \A i, j \in I : g[i] = g[j] => i = j
    /\ \A j \in J : \E i \in I : g[i] = j
    /\ \A i \in I : ts[g[i]] = rs[i]

LEMMA RequestsMoved ==
    ASSUME NEW rs, NEW I, NEW ts, NEW J, NEW g, MovesTo(rs, I, ts, J, g)
    PROVE  RequestsAt(ts, J) = RequestsAt(rs, I)
<1>0. rs \in Seq(LedgerRow) /\ ts \in Seq(LedgerRow) /\ I \in SUBSET DOMAIN rs /\ J \in SUBSET DOMAIN ts
  BY DEF MovesTo
<1>1. g \in Bijection(I, J)
  BY DEF MovesTo, Bijection, Injection, IsInjective, Surjection
<1>2. PICK f : f = Sizes(rs)
  OBVIOUS
<1>3. PICK h : h = Sizes(ts)
  OBVIOUS
<1>4. \A i \in I : f[i] \in Nat /\ h[g[i]] = f[i]
  <2> SUFFICES ASSUME NEW i \in I PROVE f[i] \in Nat /\ h[g[i]] = f[i]
    OBVIOUS
  <2>1. i \in DOMAIN rs /\ g[i] \in DOMAIN ts /\ ts[g[i]] = rs[i]
    BY <1>0 DEF MovesTo
  <2> QED BY <1>0, <1>2, <1>3, <2>1, RowIs
<1>5. IsFiniteSet(I)
  BY <1>0, RequestsAre
<1>6. Cardinality(Cells(J, h)) = Cardinality(Cells(I, f))
  BY <1>1, <1>4, <1>5, CellsMoved
<1>7. RequestsAt(rs, I) = Cardinality(Cells(I, f))
  BY <1>0, <1>2, RequestsAre
<1>8. RequestsAt(ts, J) = Cardinality(Cells(J, h))
  BY <1>0, <1>3, RequestsAre
<1> QED BY <1>6, <1>7, <1>8

LEMMA RequestsApart ==
    ASSUME NEW rs \in Seq(LedgerRow), NEW I \in SUBSET DOMAIN rs, NEW J \in SUBSET DOMAIN rs,
           I \cap J = {}
    PROVE  RequestsAt(rs, I \cup J) = RequestsAt(rs, I) + RequestsAt(rs, J)
<1>1. PICK K \in SUBSET DOMAIN rs : K = I \cup J
  OBVIOUS
<1>2. \A i \in I \cup J : Sizes(rs)[i] \in Nat
  BY <1>1, RequestsAre
<1>3. IsFiniteSet(I) /\ IsFiniteSet(J)
  BY RequestsAre
<1>4. Cardinality(Cells(I \cup J, Sizes(rs)))
      = Cardinality(Cells(I, Sizes(rs))) + Cardinality(Cells(J, Sizes(rs)))
  BY <1>2, <1>3, CellsApart
<1> QED BY <1>1, <1>4, RequestsAre

\* The rows before and after a place hold all there is.
LEMMA RequestsCut ==
    ASSUME NEW rs \in Seq(LedgerRow), NEW n \in 0..Len(rs), NEW k
    PROVE  /\ SubSeq(rs, 1, n) \in Seq(LedgerRow) /\ SubSeq(rs, n + 1, Len(rs)) \in Seq(LedgerRow)
           /\ RequestsOf(rs, k)
              = RequestsOf(SubSeq(rs, 1, n), k) + RequestsOf(SubSeq(rs, n + 1, Len(rs)), k)
<1>1. PICK l \in Nat : l = Len(rs)
  OBVIOUS
<1>2. PICK a : a = SubSeq(rs, 1, n)
  OBVIOUS
<1>3. PICK b : b = SubSeq(rs, n + 1, l)
  OBVIOUS
<1>4. /\ a \in Seq(LedgerRow) /\ DOMAIN a = 1..n /\ \A i \in 1..n : a[i] = rs[i]
      /\ DOMAIN rs = 1..l /\ n \in 0..l
  BY <1>1, <1>2
<1>5. b \in Seq(LedgerRow) /\ DOMAIN b = 1..(l - n) /\ \A i \in 1..(l - n) : b[i] = rs[i + n]
  BY <1>1, <1>3
<1> DEFINE Older == {i \in Of(rs, k) : i <= n}
           Newer == {i \in Of(rs, k) : n < i}
<1>6. RequestsAt(rs, Older) = RequestsAt(a, Of(a, k))
  <2> DEFINE g == [i \in Of(a, k) |-> i]
  <2>1. g \in [Of(a, k) -> Older]
    BY <1>4 DEF Of
  <2>2. /\ \A i, j \in Of(a, k) : g[i] = g[j] => i = j
        /\ \A j \in Older : \E i \in Of(a, k) : g[i] = j
        /\ \A i \in Of(a, k) : rs[g[i]] = a[i]
    BY <1>4 DEF Of
  <2>3. Older \in SUBSET DOMAIN rs /\ Of(a, k) \in SUBSET DOMAIN a
    BY DEF Of
  <2> HIDE DEF g, Older
  <2>4. MovesTo(a, Of(a, k), rs, Older, g)
    BY <1>4, <2>1, <2>2, <2>3 DEF MovesTo
  <2> QED BY <2>4, RequestsMoved
<1>7. RequestsAt(rs, Newer) = RequestsAt(b, Of(b, k))
  <2> DEFINE g == [i \in Of(b, k) |-> i + n]
  <2>1. g \in [Of(b, k) -> Newer]
    BY <1>4, <1>5 DEF Of
  <2>2. \A i, j \in Of(b, k) : g[i] = g[j] => i = j
    BY <1>5 DEF Of
  <2>3. \A j \in Newer : \E i \in Of(b, k) : g[i] = j
    <3> SUFFICES ASSUME NEW j \in Newer PROVE \E i \in Of(b, k) : g[i] = j
      OBVIOUS
    <3>1. j - n \in 1..(l - n) /\ (j - n) + n = j /\ rs[j].key = k
      BY <1>4 DEF Of
    <3>2. j - n \in Of(b, k)
      BY <1>5, <3>1 DEF Of
    <3> QED BY <3>1, <3>2
  <2>4. \A i \in Of(b, k) : rs[g[i]] = b[i]
    BY <1>5 DEF Of
  <2>5. Newer \in SUBSET DOMAIN rs /\ Of(b, k) \in SUBSET DOMAIN b
    BY DEF Of
  <2> HIDE DEF g, Newer
  <2>6. MovesTo(b, Of(b, k), rs, Newer, g)
    BY <1>5, <2>1, <2>2, <2>3, <2>4, <2>5 DEF MovesTo
  <2> QED BY <2>6, RequestsMoved
<1>8. Older \cap Newer = {} /\ Older \cup Newer = Of(rs, k)
  BY <1>4 DEF Of
<1>9. Older \in SUBSET DOMAIN rs /\ Newer \in SUBSET DOMAIN rs
  BY DEF Of
<1> HIDE DEF Older, Newer
<1>10. RequestsAt(rs, Of(rs, k)) = RequestsAt(rs, Older) + RequestsAt(rs, Newer)
  BY <1>8, <1>9, RequestsApart
<1>11. RequestsOf(rs, k) = RequestsOf(a, k) + RequestsOf(b, k)
  BY <1>4, <1>5, <1>6, <1>7, <1>10, RequestsOfAre
<1> QED BY <1>1, <1>2, <1>3, <1>4, <1>5, <1>11

-----------------------------------------------------------------------------
\* The rows are in the order of their hours, one for each key and hour.
InOrder(rs) ==
    \A i, j \in DOMAIN rs : i < j =>
       /\ rs[i].hour <= rs[j].hour
       /\ rs[i].hour = rs[j].hour => rs[i].key # rs[j].key

\* ts is rs with a new row behind the first x, which are no later than it is.
PlacedAt(rs, newRow, x, ts) ==
    /\ x \in 0..Len(rs)
    /\ ts \in Seq(LedgerRow) /\ Len(ts) = Len(rs) + 1
    /\ \A i \in 1..x : ts[i] = rs[i] /\ rs[i].hour <= newRow.hour
    /\ ts[x + 1] = newRow
    /\ \A i \in (x + 1)..Len(rs) : ts[i + 1] = rs[i] /\ rs[i].hour > newRow.hour

\* ts has m requests of k more than rs has.
More(rs, k, m, ts) ==
    \A j : RequestsOf(ts, j) = RequestsOf(rs, j) + (IF j = k THEN m ELSE 0)

\* No row of ts is later than the last hour there is.
NoneLater(ts) == \A i \in DOMAIN ts : ts[i].hour <= MaxUsageClock

LEMMA PlacedIs ==
    ASSUME NEW rs \in Seq(LedgerRow), NEW newRow \in LedgerRow, InOrder(rs)
    PROVE  \E x : PlacedAt(rs, newRow, x, Placed(rs, newRow))
<1>1. PICK n \in Nat : n = Len(rs) /\ DOMAIN rs = 1..n
  OBVIOUS
<1>2. PICK h \in Nat : h = newRow.hour
  BY DEF LedgerRow
<1>3. \A i \in 1..n : rs[i].hour \in Nat
  BY <1>1, RowIs
<1> DEFINE S == {x \in 0..n : x = n \/ rs[x + 1].hour > h}
<1>4. PICK x \in S : \A y \in S : x <= y
  <2>1. n \in S /\ S \in SUBSET Nat
    BY <1>1
  <2> HIDE DEF S
  <2> QED BY <2>1, Smallest
<1>5. \A i \in 1..x : rs[i].hour <= h
  <2> SUFFICES ASSUME NEW i \in 1..x PROVE rs[i].hour <= h
    OBVIOUS
  <2>1. i - 1 \in 0..n /\ ~(x <= i - 1) /\ i \in 1..n /\ (i - 1) + 1 = i /\ i - 1 # n
    BY <1>4
  <2>2. i - 1 \notin S
    BY <1>4, <2>1
  <2>3. ~(rs[(i - 1) + 1].hour > h)
    BY <2>1, <2>2
  <2> QED BY <1>3, <2>1, <2>3
<1>6. x \in 0..n
  BY <1>4
<1>7. \A i \in (x + 1)..n : rs[i].hour > h
  <2> SUFFICES ASSUME NEW i \in (x + 1)..n PROVE rs[i].hour > h
    OBVIOUS
  <2>1. x + 1 \in 1..n /\ i \in 1..n /\ x # n
    BY <1>6
  <2>2. rs[x + 1].hour > h
    BY <1>4, <2>1
  <2>3. CASE i = x + 1
    BY <2>2, <2>3
  <2>4. CASE i # x + 1
    <3>1. x + 1 < i
      BY <1>6, <2>4
    <3>2. rs[x + 1].hour <= rs[i].hour
      BY <1>1, <2>1, <3>1 DEF InOrder
    <3> QED BY <1>3, <2>1, <2>2, <3>2
  <2> QED BY <2>3, <2>4
<1> HIDE DEF S
<1>8. Cardinality({i \in DOMAIN rs : rs[i].hour <= newRow.hour}) = x
  <2>1. \A i \in 1..n : rs[i].hour <= h <=> i <= x
    <3> SUFFICES ASSUME NEW i \in 1..n PROVE rs[i].hour <= h <=> i <= x
      OBVIOUS
    <3>1. CASE i <= x
      BY <1>5, <1>6, <3>1
    <3>2. CASE ~(i <= x)
      <4>1. i \in (x + 1)..n
        BY <1>6, <3>2
      <4> QED BY <1>3, <1>7, <3>2, <4>1
    <3> QED BY <3>1, <3>2
  <2>2. {i \in DOMAIN rs : rs[i].hour <= newRow.hour} = 1..x
    BY <1>1, <1>2, <1>6, <2>1
  <2>3. PICK y \in Nat : y = x
    BY <1>6
  <2>4. Cardinality(1..y) = y
    BY FS_Interval
  <2> QED BY <2>2, <2>3, <2>4
<1>9. PICK ts : ts = Placed(rs, newRow)
  OBVIOUS
<1>10. ts = IF rs # << >> /\ newRow.hour < Last(rs).hour THEN InsertAt(rs, x + 1, newRow)
            ELSE Append(rs, newRow)
  BY <1>8, <1>9 DEF Placed
<1>11. CASE rs # << >> /\ newRow.hour < Last(rs).hour
  <2>1. (x + 1) - 1 = x
    BY <1>6
  <2>2. ts = SubSeq(rs, 1, x) \o <<newRow>> \o SubSeq(rs, x + 1, n)
    BY <1>1, <1>10, <1>11, <2>1 DEF InsertAt
  <2>3. PICK a : a = SubSeq(rs, 1, x)
    OBVIOUS
  <2>4. PICK b : b = SubSeq(rs, x + 1, n)
    OBVIOUS
  <2>5. a \in Seq(LedgerRow) /\ Len(a) = x /\ \A i \in 1..x : a[i] = rs[i]
    BY <1>1, <1>6, <2>3
  <2>6. b \in Seq(LedgerRow) /\ Len(b) = n - x /\ \A i \in 1..(n - x) : b[i] = rs[x + i]
    BY <1>1, <1>6, <2>4
  <2>7. PICK c : c = a \o <<newRow>>
    OBVIOUS
  <2>8. c \in Seq(LedgerRow) /\ Len(c) = x + 1 /\ c[x + 1] = newRow /\ \A i \in 1..x : c[i] = rs[i]
    <3>1. PICK d \in Seq(LedgerRow) : d = <<newRow>> /\ Len(d) = 1 /\ d[1] = newRow
      <4>1. <<newRow>> \in Seq(LedgerRow) /\ Len(<<newRow>>) = 1 /\ <<newRow>>[1] = newRow
        OBVIOUS
      <4> QED BY <4>1
    <3>2. c = a \o d
      BY <2>7, <3>1
    <3>3. c \in Seq(LedgerRow) /\ Len(c) = x + 1
      BY <1>6, <2>5, <3>1, <3>2
    <3>4. \A i \in 1..x : c[i] = a[i]
      BY <1>6, <2>5, <3>1, <3>2
    <3>5. (x + 1) - x = 1
      BY <1>6
    <3>6. c[x + 1] = d[(x + 1) - x]
      BY <1>6, <2>5, <3>1, <3>2
    <3> QED BY <2>5, <3>1, <3>3, <3>4, <3>5, <3>6
  <2>9. ts = c \o b
    BY <2>2, <2>3, <2>4, <2>7
  <2>10. /\ ts \in Seq(LedgerRow) /\ Len(ts) = n + 1 /\ ts[x + 1] = newRow
         /\ \A i \in 1..x : ts[i] = rs[i]
    <3>1. /\ ts \in Seq(LedgerRow) /\ Len(ts) = Len(c) + Len(b)
          /\ \A i \in 1..Len(c) : ts[i] = c[i]
      BY <2>6, <2>8, <2>9, ConcatIs
    <3>2. Len(c) = x + 1 /\ Len(c) + Len(b) = n + 1
      BY <1>6, <2>6, <2>8
    <3>3. x + 1 \in 1..(x + 1) /\ \A i \in 1..x : i \in 1..(x + 1)
      BY <1>6
    <3>4. ts[x + 1] = c[x + 1] /\ \A i \in 1..x : ts[i] = c[i]
      BY <3>1, <3>2, <3>3
    <3> QED BY <2>8, <3>1, <3>2, <3>4
  <2>11. \A i \in (x + 1)..n : ts[i + 1] = rs[i]
    <3> SUFFICES ASSUME NEW i \in (x + 1)..n PROVE ts[i + 1] = rs[i]
      OBVIOUS
    <3>1. i - x \in 1..(n - x) /\ (i + 1) - (x + 1) = i - x /\ x + (i - x) = i
      BY <1>6
    <3>2. ts[i + 1] = b[(i + 1) - (x + 1)]
      <4>1. PICK z \in Nat : z = x + 1 /\ z = Len(c)
        BY <1>6, <2>8
      <4>2. PICK y \in Nat : y = n - x /\ y = Len(b)
        BY <1>6, <2>6
      <4>3. PICK m \in Nat : m = i + 1
        BY <1>6
      <4>4. Len(c) < m /\ m <= Len(c) + Len(b)
        BY <1>6, <4>1, <4>2, <4>3
      <4>5. \A k \in Nat : Len(c) < k /\ k <= Len(c) + Len(b) => (c \o b)[k] = b[k - Len(c)]
        BY <2>6, <2>8, ConcatIs
      <4>6. (c \o b)[m] = b[m - Len(c)]
        BY <4>3, <4>4, <4>5
      <4> QED BY <2>9, <4>1, <4>3, <4>6
    <3> QED BY <2>6, <3>1, <3>2
  <2> QED BY <1>1, <1>2, <1>5, <1>6, <1>7, <1>9, <2>10, <2>11 DEF PlacedAt
<1>12. CASE ~(rs # << >> /\ newRow.hour < Last(rs).hour)
  <2>1. x = n
    <3> SUFFICES ASSUME x # n PROVE FALSE
      OBVIOUS
    <3>1. n \in (x + 1)..n /\ n # 0
      BY <1>6
    <3>2. rs[n].hour > h /\ rs # << >>
      BY <1>1, <1>7, <3>1
    <3>3. n \in 1..n
      BY <3>1
    <3> QED BY <1>1, <1>2, <1>3, <1>12, <3>2, <3>3 DEF Last
  <2>2. ts = Append(rs, newRow)
    BY <1>10, <1>12
  <2>3. /\ ts \in Seq(LedgerRow) /\ Len(ts) = n + 1 /\ ts[n + 1] = newRow
        /\ \A i \in 1..n : ts[i] = rs[i]
    BY <1>1, <2>2
  <2> QED BY <1>1, <1>2, <1>5, <1>6, <1>9, <2>1, <2>3 DEF PlacedAt
<1> QED BY <1>11, <1>12

\* The order is kept, and the requests of every key but for the new ones.
LEMMA PlacedKeeps ==
    ASSUME NEW rs \in Seq(LedgerRow), NEW newRow \in LedgerRow, NEW x, NEW ts, InOrder(rs),
           PlacedAt(rs, newRow, x, ts),
           \A i \in DOMAIN rs : ~(rs[i].hour = newRow.hour /\ rs[i].key = newRow.key)
    PROVE  /\ InOrder(ts)
           /\ NoneLater(rs) /\ newRow.hour <= MaxUsageClock => NoneLater(ts)
           /\ More(rs, newRow.key, newRow.requests, ts)
<1>1. PICK n \in Nat : n = Len(rs) /\ DOMAIN rs = 1..n
  OBVIOUS
<1>2. /\ x \in 0..n /\ ts \in Seq(LedgerRow) /\ DOMAIN ts = 1..(n + 1)
      /\ ts[x + 1] = newRow
      /\ \A i \in 1..x : ts[i] = rs[i] /\ rs[i].hour <= newRow.hour
      /\ \A i \in (x + 1)..n : ts[i + 1] = rs[i] /\ rs[i].hour > newRow.hour
  BY <1>1 DEF PlacedAt
<1>3. newRow.hour \in Nat /\ newRow.requests \in Nat
  BY DEF LedgerRow
<1>4. \A i \in 1..n : rs[i].hour \in Nat
  BY <1>1, RowIs
\* where each row of ts comes from
<1>5. \A i \in 1..(n + 1) :
         \/ i = x + 1
         \/ i < x + 1 /\ i \in 1..n /\ i \in 1..x /\ ts[i] = rs[i] /\ rs[i].hour <= newRow.hour
         \/ /\ i > x + 1 /\ i - 1 \in 1..n /\ i - 1 \in (x + 1)..n
            /\ ts[i] = rs[i - 1] /\ rs[i - 1].hour > newRow.hour
  <2> SUFFICES ASSUME NEW i \in 1..(n + 1), i # x + 1
               PROVE  \/ /\ i < x + 1 /\ i \in 1..n /\ i \in 1..x
                         /\ ts[i] = rs[i] /\ rs[i].hour <= newRow.hour
                      \/ /\ i > x + 1 /\ i - 1 \in 1..n /\ i - 1 \in (x + 1)..n
                         /\ ts[i] = rs[i - 1] /\ rs[i - 1].hour > newRow.hour
    OBVIOUS
  <2>1. CASE i < x + 1
    <3>1. i \in 1..x /\ i \in 1..n
      BY <1>2, <2>1
    <3> QED BY <1>2, <2>1, <3>1
  <2>2. CASE i > x + 1
    <3>1. i - 1 \in (x + 1)..n /\ i - 1 \in 1..n /\ (i - 1) + 1 = i
      BY <1>2, <2>2
    <3> QED BY <1>2, <2>2, <3>1
  <2> QED BY <1>2, <2>1, <2>2
<1>6. InOrder(ts)
  <2> SUFFICES ASSUME NEW i \in 1..(n + 1), NEW j \in 1..(n + 1), i < j
               PROVE  /\ ts[i].hour <= ts[j].hour
                      /\ ts[i].hour = ts[j].hour => ts[i].key # ts[j].key
    BY <1>2 DEF InOrder
  <2>1. CASE j < x + 1
    <3>1. i < x + 1
      BY <1>2, <2>1
    <3>2. i \in 1..n /\ j \in 1..n /\ ts[i] = rs[i] /\ ts[j] = rs[j]
      BY <1>2, <1>5, <2>1, <3>1
    <3> QED BY <1>1, <3>2 DEF InOrder
  <2>2. CASE i > x + 1
    <3>1. j > x + 1
      BY <1>2, <2>2
    <3>2. i - 1 \in 1..n /\ j - 1 \in 1..n /\ ts[i] = rs[i - 1] /\ ts[j] = rs[j - 1]
      BY <1>2, <1>5, <2>2, <3>1
    <3>3. i - 1 < j - 1
      OBVIOUS
    <3> QED BY <1>1, <3>2, <3>3 DEF InOrder
  <2>3. CASE i < x + 1 /\ j > x + 1
    <3>1. i \in 1..n /\ j - 1 \in 1..n /\ ts[i] = rs[i] /\ ts[j] = rs[j - 1]
          /\ rs[i].hour <= newRow.hour /\ rs[j - 1].hour > newRow.hour
      BY <1>2, <1>5, <2>3
    <3> QED BY <1>3, <1>4, <3>1
  <2>4. CASE i < x + 1 /\ j = x + 1
    <3>1. i \in 1..n /\ ts[i] = rs[i] /\ rs[i].hour <= newRow.hour /\ ts[j] = newRow
      BY <1>2, <1>5, <2>4
    <3> QED BY <1>1, <3>1
  <2>5. CASE i = x + 1
    <3>1. j > x + 1
      BY <2>5
    <3>2. j - 1 \in 1..n /\ ts[j] = rs[j - 1] /\ rs[j - 1].hour > newRow.hour /\ ts[i] = newRow
      BY <1>2, <1>5, <2>5, <3>1
    <3> QED BY <1>3, <1>4, <3>2
  <2> QED BY <1>2, <2>1, <2>2, <2>3, <2>4, <2>5
<1>7. \A i \in DOMAIN ts : ts[i] = newRow \/ \E j \in DOMAIN rs : ts[i] = rs[j]
  BY <1>1, <1>2, <1>5
<1>8. ASSUME NEW k
      PROVE  RequestsOf(ts, k) = RequestsOf(rs, k) + (IF k = newRow.key THEN newRow.requests ELSE 0)
  <2> DEFINE I == Of(rs, k)
             J == Of(ts, k) \ {x + 1}
             g == [i \in I |-> IF i <= x THEN i ELSE i + 1]
  <2>1. I \subseteq 1..n /\ J \subseteq 1..(n + 1)
    BY <1>1, <1>2 DEF Of
  <2>2. \A i \in I : /\ g[i] \in 1..(n + 1) /\ g[i] # x + 1 /\ ts[g[i]] = rs[i]
    <3> SUFFICES ASSUME NEW i \in I
                 PROVE  /\ g[i] \in 1..(n + 1) /\ g[i] # x + 1 /\ ts[g[i]] = rs[i]
      OBVIOUS
    <3>1. i \in 1..n
      BY <2>1
    <3>2. CASE i <= x
      <4>1. i \in 1..x /\ g[i] = i
        BY <3>1, <3>2
      <4> QED BY <1>2, <3>1, <4>1
    <3>3. CASE ~(i <= x)
      <4>1. i \in (x + 1)..n /\ g[i] = i + 1
        BY <1>2, <3>1, <3>3
      <4> QED BY <1>2, <3>1, <4>1
    <3> QED BY <3>2, <3>3
  <2>3. \A i \in I : rs[i].key = k
    BY DEF Of
  <2>4. \A i \in I : g[i] \in J
    BY <1>2, <2>2, <2>3 DEF Of
  <2>5. \A i, j \in I : g[i] = g[j] => i = j
    BY <1>2, <2>1
  <2>6. \A j \in J : \E i \in I : g[i] = j
    <3> SUFFICES ASSUME NEW j \in J PROVE \E i \in I : g[i] = j
      OBVIOUS
    <3>1. j \in 1..(n + 1) /\ j # x + 1 /\ ts[j].key = k
      BY <2>1 DEF Of
    <3>2. CASE j < x + 1
      <4>1. j \in 1..n /\ rs[j].key = k /\ j <= x
        BY <1>2, <1>5, <3>1, <3>2
      <4>2. j \in I
        BY <1>1, <4>1 DEF Of
      <4> QED BY <4>1, <4>2
    <3>3. CASE j > x + 1
      <4>1. j - 1 \in 1..n /\ rs[j - 1].key = k /\ ~(j - 1 <= x) /\ (j - 1) + 1 = j
        BY <1>2, <1>5, <3>1, <3>3
      <4>2. j - 1 \in I
        BY <1>1, <4>1 DEF Of
      <4> QED BY <4>1, <4>2
    <3> QED BY <1>2, <3>1, <3>2, <3>3
  <2>7. g \in [I -> J]
    BY <2>4
  <2>8. I \subseteq DOMAIN rs /\ J \subseteq DOMAIN ts
    BY <1>1, <1>2, <2>1
  <2> HIDE DEF g, I, J
  <2>9. MovesTo(rs, I, ts, J, g)
    BY <1>2, <2>2, <2>5, <2>6, <2>7, <2>8 DEF MovesTo
  <2>10. RequestsAt(ts, J) = RequestsOf(rs, k) /\ RequestsOf(rs, k) \in Nat
    BY <2>9, RequestsMoved, RequestsOfAre DEF I
  <2>11. CASE k = newRow.key
    <3>1. PICK m : m = x + 1
      OBVIOUS
    <3>2. m \in DOMAIN ts /\ ts[m] = newRow /\ ts[m].key = k
      BY <1>2, <2>11, <3>1
    <3>3. J \cap {m} = {} /\ J \cup {m} = Of(ts, k) /\ {m} \in SUBSET DOMAIN ts
      BY <3>1, <3>2 DEF J, Of
    <3>4. RequestsAt(ts, Of(ts, k)) = RequestsAt(ts, J) + RequestsAt(ts, {m})
      BY <1>2, <2>8, <3>3, RequestsApart
    <3>5. RequestsAt(ts, {m}) = newRow.requests
      <4>1. Sizes(ts)[m] = newRow.requests /\ Sizes(ts)[m] \in Nat
        BY <1>2, <1>3, <3>2, RowIs
      <4>2. Cardinality(Cells({m}, Sizes(ts))) = Sizes(ts)[m]
        BY <4>1, CellsOfOne
      <4> QED BY <1>2, <3>3, <4>1, <4>2, RequestsAre
    <3>6. RequestsOf(ts, k) = RequestsAt(ts, Of(ts, k))
      BY <1>2, RequestsOfAre
    <3> QED BY <2>10, <2>11, <3>4, <3>5, <3>6
  <2>12. CASE k # newRow.key
    <3>1. x + 1 \notin Of(ts, k)
      BY <1>2, <2>12 DEF Of
    <3>2. J = Of(ts, k)
      BY <3>1 DEF J
    <3>3. RequestsOf(ts, k) = RequestsAt(ts, Of(ts, k))
      BY <1>2, RequestsOfAre
    <3> QED BY <2>10, <2>12, <3>2, <3>3
  <2> QED BY <2>11, <2>12
<1>9. NoneLater(rs) /\ newRow.hour <= MaxUsageClock => NoneLater(ts)
  BY <1>7 DEF NoneLater
<1>10. More(rs, newRow.key, newRow.requests, ts)
  BY <1>8 DEF More
<1> QED BY <1>6, <1>9, <1>10

-----------------------------------------------------------------------------
\* One request more in a row that is there.
LEMMA GrownKeeps ==
    ASSUME NEW rs \in Seq(LedgerRow), NEW at \in DOMAIN rs, NEW ts, InOrder(rs),
           ts = [i \in DOMAIN rs |-> IF i = at THEN [rs[i] EXCEPT !.requests = @ + 1] ELSE rs[i]]
    PROVE  /\ ts \in Seq(LedgerRow) /\ InOrder(ts) /\ Len(ts) = Len(rs)
           /\ NoneLater(rs) => NoneLater(ts)
           /\ More(rs, rs[at].key, 1, ts)
<1>1. PICK n \in Nat : n = Len(rs) /\ DOMAIN rs = 1..n
  OBVIOUS
<1>2. \A i \in 1..n : /\ rs[i] \in LedgerRow /\ ts[i] \in LedgerRow
                      /\ ts[i].hour = rs[i].hour /\ ts[i].key = rs[i].key
                      /\ rs[i].requests \in Nat
                      /\ ts[i].requests = IF i = at THEN rs[i].requests + 1 ELSE rs[i].requests
  <2> SUFFICES ASSUME NEW i \in 1..n
               PROVE  /\ rs[i] \in LedgerRow /\ ts[i] \in LedgerRow
                      /\ ts[i].hour = rs[i].hour /\ ts[i].key = rs[i].key
                      /\ rs[i].requests \in Nat
                      /\ ts[i].requests = IF i = at THEN rs[i].requests + 1 ELSE rs[i].requests
    OBVIOUS
  <2>1. rs[i] \in LedgerRow /\ rs[i].requests \in Nat
    BY <1>1, RowIs
  <2>2. ts[i] = IF i = at THEN [rs[i] EXCEPT !.requests = @ + 1] ELSE rs[i]
    BY <1>1
  <2>3. CASE i = at
    <3>1. PICK r \in LedgerRow : r = rs[i]
      BY <2>1
    <3>2. r = [hour |-> r.hour, key |-> r.key, requests |-> r.requests]
      BY DEF LedgerRow
    <3>3. [r EXCEPT !.requests = @ + 1]
          = [hour |-> r.hour, key |-> r.key, requests |-> r.requests + 1]
      BY <3>2
    <3>4. ts[i] = [hour |-> r.hour, key |-> r.key, requests |-> r.requests + 1]
      BY <2>2, <2>3, <3>1, <3>3
    <3> QED BY <2>1, <2>3, <3>1, <3>4 DEF LedgerRow
  <2>4. CASE i # at
    BY <2>1, <2>2, <2>4
  <2> QED BY <2>3, <2>4
<1>3. DOMAIN ts = 1..n
  BY <1>1
<1>4. ts = [i \in 1..n |-> ts[i]]
  BY <1>1
<1>5. ts \in Seq(LedgerRow) /\ Len(ts) = n
  <2>1. ts \in [1..n -> LedgerRow]
    BY <1>2, <1>4
  <2> QED BY <2>1
<1>6. InOrder(ts)
  BY <1>1, <1>2, <1>3 DEF InOrder
<1>7. ASSUME NEW k
      PROVE  RequestsOf(ts, k) = RequestsOf(rs, k) + (IF k = rs[at].key THEN 1 ELSE 0)
  <2>1. PICK I : I = Of(rs, k)
    OBVIOUS
  <2>2. I = Of(ts, k)
    BY <1>1, <1>2, <1>3, <2>1 DEF Of
  <2>3. PICK f : f = Sizes(rs)
    OBVIOUS
  <2>4. PICK h : h = Sizes(ts)
    OBVIOUS
  <2>5. IsFiniteSet(I) /\ RequestsOf(rs, k) = Cardinality(Cells(I, f)) /\ RequestsOf(rs, k) \in Nat
    BY <2>1, <2>3, RequestsOfAre, RequestsAre
  <2>6. RequestsOf(ts, k) = Cardinality(Cells(I, h))
    BY <1>5, <2>2, <2>4, RequestsOfAre, RequestsAre
  <2>7. \A i \in I : f[i] \in Nat /\ h[i] = IF i = at THEN f[i] + 1 ELSE f[i]
    BY <1>1, <1>2, <1>3, <2>1, <2>3, <2>4 DEF Of, Sizes
  <2>8. CASE k = rs[at].key
    <3>1. at \in I
      BY <2>1, <2>8 DEF Of
    <3>2. Cardinality(Cells(I, h)) = Cardinality(Cells(I, f)) + 1
      BY <2>5, <2>7, <3>1, CellsGrow
    <3> QED BY <2>5, <2>6, <2>8, <3>2
  <2>9. CASE k # rs[at].key
    <3>1. \A i \in I : h[i] = f[i]
      BY <2>1, <2>7, <2>9 DEF Of
    <3>2. Cells(I, h) = Cells(I, f)
      BY <3>1 DEF Cells
    <3>3. RequestsOf(ts, k) = RequestsOf(rs, k)
      BY <2>5, <2>6, <3>2
    <3> QED BY <2>5, <2>9, <3>3
  <2> QED BY <2>8, <2>9
<1>8. NoneLater(rs) => NoneLater(ts)
  BY <1>1, <1>2, <1>3 DEF NoneLater
<1>9. More(rs, rs[at].key, 1, ts)
  BY <1>7 DEF More
<1> QED BY <1>1, <1>5, <1>6, <1>8, <1>9

\* What _prune() leaves is young enough, and not too much.
LEMMA OutdatedOK ==
    ASSUME NEW rs \in Seq(LedgerRow), NEW cut
    PROVE  /\ Outdated(rs, cut) \in 0..Len(rs)
           /\ \/ Outdated(rs, cut) = Len(rs)
              \/ /\ rs[Outdated(rs, cut) + 1].hour >= cut
                 /\ Len(rs) - Outdated(rs, cut) <= USAGE_MAX_ROWS
<1>1. PICK l \in Nat : l = Len(rs)
  OBVIOUS
<1> DEFINE kept(n) == n = l \/ (rs[n + 1].hour >= cut /\ l - n <= USAGE_MAX_ROWS)
           S == {n \in 0..l : kept(n)}
<1>2. \E n \in 0..l : kept(n) /\ \A j \in 0..(n - 1) : ~kept(j)
  <2>1. l \in S /\ S \in SUBSET Nat
    OBVIOUS
  <2>2. PICK n \in S : \A y \in S : n <= y
    <3> HIDE DEF S
    <3> QED BY <2>1, Smallest
  <2>3. \A j \in 0..(n - 1) : j \in 0..l /\ ~(n <= j)
    OBVIOUS
  <2>4. \A j \in 0..(n - 1) : ~kept(j)
    BY <2>2, <2>3
  <2> QED BY <2>4
<1>3. Outdated(rs, cut) = CHOOSE n \in 0..l : kept(n) /\ \A j \in 0..(n - 1) : ~kept(j)
  BY <1>1 DEF Outdated
<1> HIDE DEF kept
<1>4. Outdated(rs, cut) \in 0..l /\ kept(Outdated(rs, cut))
  BY <1>2, <1>3
<1> QED BY <1>1, <1>4 DEF kept

\* What is cut off at the oldest end leaves the rest in order.
RestOf(rs, n, ts) ==
    \A i \in DOMAIN ts : /\ i + n \in DOMAIN rs /\ ts[i] = rs[i + n]
                         /\ n + 1 \in DOMAIN rs
                         /\ rs[n + 1].hour <= ts[i].hour

LEMMA CutInOrder ==
    ASSUME NEW rs \in Seq(LedgerRow), NEW n \in 0..Len(rs), InOrder(rs), NEW ts,
           ts = SubSeq(rs, n + 1, Len(rs))
    PROVE  /\ ts \in Seq(LedgerRow) /\ Len(ts) = Len(rs) - n /\ InOrder(ts)
           /\ RestOf(rs, n, ts)
<1>1. PICK l \in Nat : l = Len(rs) /\ DOMAIN rs = 1..l
  OBVIOUS
<1>2. ts \in Seq(LedgerRow) /\ DOMAIN ts = 1..(l - n) /\ \A i \in 1..(l - n) : ts[i] = rs[i + n]
      /\ Len(ts) = l - n
  BY <1>1
<1>0. n \in 0..l
  BY <1>1
<1>3. \A i \in 1..(l - n) : i + n \in 1..l /\ n + 1 \in 1..l
  BY <1>0
<1>4. \A i, j \in 1..l : i < j =>
        /\ rs[i].hour <= rs[j].hour
        /\ rs[i].hour = rs[j].hour => rs[i].key # rs[j].key
  BY <1>1 DEF InOrder
<1>5. InOrder(ts)
  <2> SUFFICES ASSUME NEW i \in DOMAIN ts, NEW j \in DOMAIN ts, i < j
               PROVE  /\ ts[i].hour <= ts[j].hour
                      /\ ts[i].hour = ts[j].hour => ts[i].key # ts[j].key
    BY DEF InOrder
  <2>0. i \in 1..(l - n) /\ j \in 1..(l - n)
    BY <1>2
  <2>1. PICK a \in 1..l, b \in 1..l : a = i + n /\ b = j + n /\ a < b
    <3>1. i + n < j + n
      BY <1>0, <2>0
    <3>2. i + n \in 1..l /\ j + n \in 1..l
      BY <1>3, <2>0
    <3> QED BY <3>1, <3>2
  <2>2. ts[i] = rs[a] /\ ts[j] = rs[b]
    BY <1>2, <2>0, <2>1
  <2> QED BY <1>4, <2>1, <2>2
<1>6. ASSUME NEW i \in 1..(l - n) PROVE rs[n + 1].hour <= ts[i].hour
  <2>1. PICK a \in 1..l, b \in 1..l : a = n + 1 /\ b = i + n /\ (a < b \/ a = b)
    <3>1. n + 1 < i + n \/ n + 1 = i + n
      BY <1>0
    <3>2. i + n \in 1..l /\ n + 1 \in 1..l
      BY <1>3
    <3> QED BY <3>1, <3>2
  <2>2. rs[a].hour \in Nat
    BY <1>1, <2>1, RowIs
  <2>3. ts[i] = rs[b]
    BY <1>2, <2>1
  <2>4. rs[a].hour <= rs[b].hour
    BY <1>4, <2>1, <2>2
  <2> QED BY <2>1, <2>3, <2>4
<1>7. RestOf(rs, n, ts)
  BY <1>1, <1>2, <1>3, <1>6 DEF RestOf
<1> QED BY <1>1, <1>2, <1>5, <1>7

-----------------------------------------------------------------------------
UsageTypes ==
    /\ usageClock \in 0..MaxUsageClock
    /\ rows \in Seq(LedgerRow)
    /\ recorded \in [UsageKeys -> Nat] /\ pruned \in [UsageKeys -> Nat]

\* The rows are in order, young enough and not too many; none is of an hour to come.
LedgerRows ==
    /\ InOrder(rows) /\ Len(rows) <= USAGE_MAX_ROWS
    /\ NoneLater(rows)
    /\ \A i \in DOMAIN rows : rows[i].hour >= cutoff

\* Nothing recorded is lost but with a pruned row.
Recorded == \A k \in UsageKeys : recorded[k] = RequestsOf(rows, k) + pruned[k]

UsageInv == UsageTypes /\ LedgerRows /\ Recorded

LEMMA UsageStarts == UsageInit => UsageInv
<1> SUFFICES ASSUME UsageInit PROVE UsageInv
  OBVIOUS
<1>1. rows \in Seq(LedgerRow) /\ Len(rows) = 0 /\ DOMAIN rows = {}
  BY DEF UsageInit
<1>2. UsageTypes
  BY <1>1 DEF UsageInit, UsageTypes
<1>3. LedgerRows
  BY <1>1, LedgerAssumption DEF LedgerRows, InOrder, NoneLater
<1>4. \A k \in UsageKeys : RequestsOf(rows, k) = 0
  <2> SUFFICES ASSUME NEW k \in UsageKeys PROVE RequestsOf(rows, k) = 0
    OBVIOUS
  <2>1. PICK I : I = Of(rows, k)
    OBVIOUS
  <2>2. I = {}
    BY <1>1, <2>1 DEF Of
  <2>3. RequestsAt(rows, I) = Cardinality(Cells(I, Sizes(rows)))
    BY <1>1, <2>2, RequestsAre
  <2>4. Cells(I, Sizes(rows)) = {}
    BY <2>2 DEF Cells
  <2> QED BY <1>1, <2>1, <2>3, <2>4, RequestsOfAre, FS_EmptySet
<1>5. Recorded
  BY <1>4 DEF UsageInit, Recorded
<1> QED BY <1>2, <1>3, <1>5 DEF UsageInv

\* The request joins its row, or a row of its own, before anything is pruned.
ThisHour == usageClock - (usageClock % HOUR)
RowOf(k) == {i \in DOMAIN rows : rows[i].hour = ThisHour /\ rows[i].key = k}
Added(k) == IF RowOf(k) = {} THEN Placed(rows, [hour |-> ThisHour, key |-> k, requests |-> 1])
            ELSE [i \in DOMAIN rows |->
                    IF i \in RowOf(k) THEN [rows[i] EXCEPT !.requests = @ + 1] ELSE rows[i]]

LEMMA AddedOK ==
    ASSUME UsageTypes, InOrder(rows), NoneLater(rows), NEW k \in UsageKeys,
           NEW added, added = Added(k)
    PROVE  /\ added \in Seq(LedgerRow) /\ InOrder(added) /\ NoneLater(added)
           /\ More(rows, k, 1, added)
<1> DEFINE hour == ThisHour
           at == RowOf(k)
<1>1. hour \in Nat /\ hour <= MaxUsageClock
  <2>1. usageClock \in Nat /\ usageClock <= MaxUsageClock /\ HOUR \in Nat \ {0}
        /\ MaxUsageClock \in Nat
    BY LedgerAssumption DEF UsageTypes
  <2>2. usageClock % HOUR \in 0..(HOUR - 1) /\ usageClock % HOUR <= usageClock
    BY <2>1
  <2>3. PICK r \in Nat : r = usageClock % HOUR
    BY <2>1, <2>2
  <2> QED BY <2>1, <2>2, <2>3 DEF ThisHour
<1>2. rows \in Seq(LedgerRow)
  BY DEF UsageTypes
<1>3. CASE at = {}
  <2>1. PICK newRow \in LedgerRow : newRow = [hour |-> hour, key |-> k, requests |-> 1]
    <3>1. [hour |-> hour, key |-> k, requests |-> 1] \in LedgerRow
      BY <1>1 DEF LedgerRow
    <3> QED BY <3>1
  <2>2. newRow.hour = hour /\ newRow.key = k /\ newRow.requests = 1
    BY <2>1
  <2>3. added = Placed(rows, newRow)
    BY <1>3, <2>1 DEF Added
  <2>4. PICK x : PlacedAt(rows, newRow, x, added)
    BY <1>2, <2>3, PlacedIs
  <2>5. \A i \in DOMAIN rows : ~(rows[i].hour = newRow.hour /\ rows[i].key = newRow.key)
    BY <1>3, <2>2 DEF RowOf
  <2>6. /\ InOrder(added) /\ More(rows, newRow.key, newRow.requests, added)
        /\ NoneLater(rows) /\ newRow.hour <= MaxUsageClock => NoneLater(added)
    BY <1>2, <2>4, <2>5, PlacedKeeps
  <2>7. added \in Seq(LedgerRow)
    BY <2>4 DEF PlacedAt
  <2> QED BY <1>1, <2>2, <2>6, <2>7
<1>4. CASE at # {}
  <2>1. PICK a \in DOMAIN rows : a \in at /\ rows[a].hour = hour /\ rows[a].key = k
    BY <1>4 DEF RowOf
  <2>2. \A i \in DOMAIN rows : i \in at => i = a
    <3> SUFFICES ASSUME NEW i \in DOMAIN rows, i \in at, i # a PROVE FALSE
      OBVIOUS
    <3>1. rows[i].hour = rows[a].hour /\ rows[i].key = rows[a].key
      BY <2>1 DEF RowOf
    <3>2. i \in Int /\ a \in Int
      BY <1>2
    <3>3. i < a \/ a < i
      BY <3>2
    <3> QED BY <3>1, <3>3 DEF InOrder
  <2>3. added = [i \in DOMAIN rows |->
                   IF i = a THEN [rows[i] EXCEPT !.requests = @ + 1] ELSE rows[i]]
    BY <1>4, <2>1, <2>2 DEF Added
  <2>4. /\ added \in Seq(LedgerRow) /\ InOrder(added)
        /\ NoneLater(rows) => NoneLater(added)
        /\ More(rows, rows[a].key, 1, added)
    BY <1>2, <2>3, GrownKeeps
  <2> QED BY <2>1, <2>4
<1> QED BY <1>3, <1>4

LEMMA RecordKeeps == ASSUME UsageInv, NEW k \in UsageKeys, UsageRecord(k) PROVE UsageInv'
<1>0. UsageTypes /\ LedgerRows /\ Recorded
  BY DEF UsageInv
<1>1. PICK added : added = Added(k)
  OBVIOUS
<1>2. PICK cut : cut = usageClock - USAGE_RETENTION
  OBVIOUS
<1>3. PICK n : n = Outdated(added, cut)
  OBVIOUS
<1>4. /\ recorded' = [recorded EXCEPT ![k] = @ + 1]
      /\ rows' = SubSeq(added, n + 1, Len(added))
      /\ pruned' = [j \in UsageKeys |-> pruned[j] + RequestsOf(SubSeq(added, 1, n), j)]
      /\ cutoff' = cut /\ usageClock' = usageClock
  BY <1>1, <1>2, <1>3 DEF UsageRecord, Added, RowOf, ThisHour
<1>5. /\ added \in Seq(LedgerRow) /\ InOrder(added) /\ NoneLater(added)
      /\ More(rows, k, 1, added)
  BY <1>0, <1>1, AddedOK DEF LedgerRows
<1>6. /\ n \in 0..Len(added)
      /\ n = Len(added) \/ (added[n + 1].hour >= cut /\ Len(added) - n <= USAGE_MAX_ROWS)
  BY <1>3, <1>5, OutdatedOK
<1>7. /\ rows' \in Seq(LedgerRow) /\ Len(rows') = Len(added) - n /\ InOrder(rows')
      /\ RestOf(added, n, rows')
  BY <1>4, <1>5, <1>6, CutInOrder
<1>8. cut \in Int /\ Len(added) \in Nat /\ USAGE_MAX_ROWS \in Nat /\ 0 <= USAGE_MAX_ROWS
  BY <1>0, <1>2, <1>5, LedgerAssumption DEF UsageTypes
<1>9. LedgerRows'
  <2>1. Len(rows') <= USAGE_MAX_ROWS
    BY <1>6, <1>7, <1>8
  <2>2. ASSUME NEW i \in DOMAIN rows'
        PROVE  rows'[i].hour <= MaxUsageClock /\ rows'[i].hour >= cutoff'
    <3>0. /\ i + n \in DOMAIN added /\ rows'[i] = added[i + n]
          /\ n + 1 \in DOMAIN added /\ added[n + 1].hour <= rows'[i].hour
      BY <1>7 DEF RestOf
    <3>1. DOMAIN added = 1..Len(added) /\ n \in Int
      BY <1>5, <1>6
    <3>2. n # Len(added)
      <4>1. PICK l \in Nat : l = Len(added)
        BY <1>8
      <4>2. n + 1 \in 1..l
        BY <3>0, <3>1, <4>1
      <4>3. n # l
        BY <3>1, <4>2
      <4> QED BY <4>1, <4>3, Zenon
    <3>3. added[n + 1].hour >= cut
      BY <1>6, <3>2
    <3>4. added[n + 1].hour \in Nat /\ rows'[i].hour \in Nat
      BY <1>5, <3>0, RowIs
    <3>5. rows'[i].hour <= MaxUsageClock
      BY <1>5, <3>0 DEF NoneLater
    <3>6. rows'[i].hour >= cut
      BY <1>8, <3>0, <3>3, <3>4
    <3> QED BY <1>4, <3>5, <3>6
  <2> QED BY <1>7, <2>1, <2>2 DEF LedgerRows, NoneLater
<1>10. \A j \in UsageKeys :
          /\ RequestsOf(SubSeq(added, 1, n), j) \in Nat
          /\ RequestsOf(rows, j) + (IF j = k THEN 1 ELSE 0)
             = RequestsOf(SubSeq(added, 1, n), j) + RequestsOf(rows', j)
          /\ RequestsOf(rows', j) \in Nat /\ RequestsOf(rows, j) \in Nat
  <2> SUFFICES ASSUME NEW j \in UsageKeys
               PROVE  /\ RequestsOf(SubSeq(added, 1, n), j) \in Nat
                      /\ RequestsOf(rows, j) + (IF j = k THEN 1 ELSE 0)
                         = RequestsOf(SubSeq(added, 1, n), j) + RequestsOf(rows', j)
                      /\ RequestsOf(rows', j) \in Nat /\ RequestsOf(rows, j) \in Nat
    OBVIOUS
  <2>1. PICK a : a = SubSeq(added, 1, n)
    OBVIOUS
  <2>2. a \in Seq(LedgerRow) /\ RequestsOf(added, j) = RequestsOf(a, j) + RequestsOf(rows', j)
    BY <1>4, <1>5, <1>6, <2>1, RequestsCut
  <2>3. RequestsOf(added, j) = RequestsOf(rows, j) + (IF j = k THEN 1 ELSE 0)
    BY <1>5 DEF More
  <2>4. RequestsOf(a, j) \in Nat /\ RequestsOf(rows', j) \in Nat /\ RequestsOf(rows, j) \in Nat
    BY <1>0, <1>7, <2>2, RequestsOfAre DEF UsageTypes
  <2> QED BY <2>1, <2>2, <2>3, <2>4
<1>11. UsageTypes'
  <2>1. recorded' \in [UsageKeys -> Nat]
    BY <1>0, <1>4 DEF UsageTypes
  <2>2. \A j \in UsageKeys : pruned[j] + RequestsOf(SubSeq(added, 1, n), j) \in Nat
    BY <1>0, <1>10 DEF UsageTypes
  <2>3. pruned' \in [UsageKeys -> Nat]
    BY <1>4, <2>2
  <2> QED BY <1>0, <1>4, <1>7, <2>1, <2>3 DEF UsageTypes
<1>12. Recorded'
  <2> SUFFICES ASSUME NEW j \in UsageKeys PROVE recorded'[j] = RequestsOf(rows', j) + pruned'[j]
    BY DEF Recorded, RequestsOf, RequestsAt
  <2>1. PICK a : a = RequestsOf(SubSeq(added, 1, n), j)
    OBVIOUS
  <2>2. pruned'[j] = pruned[j] + a /\ pruned[j] \in Nat /\ recorded[j] \in Nat
    BY <1>0, <1>4, <2>1 DEF UsageTypes
  <2>3. recorded[j] = RequestsOf(rows, j) + pruned[j]
    BY <1>0 DEF Recorded
  <2>4. recorded'[j] = recorded[j] + (IF j = k THEN 1 ELSE 0)
    BY <1>0, <1>4, <2>2 DEF UsageTypes
  <2>5. /\ RequestsOf(rows, j) + (IF j = k THEN 1 ELSE 0) = a + RequestsOf(rows', j)
        /\ a \in Nat /\ RequestsOf(rows', j) \in Nat /\ RequestsOf(rows, j) \in Nat
    BY <1>10, <2>1
  <2> QED BY <2>2, <2>3, <2>4, <2>5
<1> QED BY <1>9, <1>11, <1>12 DEF UsageInv

LEMMA UsageStep == UsageInv /\ [UsageNext]_usageVars => UsageInv'
<1> SUFFICES ASSUME UsageInv, [UsageNext]_usageVars PROVE UsageInv'
  OBVIOUS
<1>1. ASSUME NEW k \in UsageKeys, UsageRecord(k) PROVE UsageInv'
  BY <1>1, RecordKeeps
<1>2. ASSUME NEW t \in 0..MaxUsageClock, ClockMoves(t) PROVE UsageInv'
  BY <1>2 DEF ClockMoves, UsageInv, UsageTypes, LedgerRows, Recorded, InOrder, NoneLater,
              RequestsOf, RequestsAt
<1>3. CASE UNCHANGED usageVars
  BY <1>3 DEF usageVars, UsageInv, UsageTypes, LedgerRows, Recorded, InOrder, NoneLater,
              RequestsOf, RequestsAt
<1> QED BY <1>1, <1>2, <1>3 DEF UsageNext

LEMMA UsageAdds ==
    ASSUME UsageInv
    PROVE  RowsSound
BY DEF UsageInv, LedgerRows, Recorded, InOrder, RowsSound

-----------------------------------------------------------------------------
\* A report has each request of the rows it takes once, whatever its periods are.
Sum(rs, keys, since, until, size) ==
    Cells(DOMAIN Report(rs, keys, since, until, size), Report(rs, keys, since, until, size))

LEMMA ReportSum ==
    ASSUME NEW rs \in Seq(LedgerRow), NEW keys, NEW since, NEW until, NEW size
    PROVE  Cardinality(Sum(rs, keys, since, until, size))
           = RequestsAt(rs, Taken(rs, keys, since, until))
<1>1. PICK I : I = Taken(rs, keys, since, until)
  OBVIOUS
<1>2. I \in SUBSET DOMAIN rs
  BY <1>1 DEF Taken
<1>3. PICK period : period = [i \in I |-> Period(rs[i], size)]
  OBVIOUS
<1>4. PICK P : P = {period[i] : i \in I}
  OBVIOUS
<1>5. PICK sums : sums = Report(rs, keys, since, until, size)
  OBVIOUS
<1>6. P = {Period(rs[i], size) : i \in I}
  BY <1>3, <1>4
<1>7. sums = [p \in P |-> RequestsAt(rs, {i \in I : Period(rs[i], size) = p})]
  BY <1>1, <1>5, <1>6 DEF Report
<1>8. PICK f : f = Sizes(rs)
  OBVIOUS
<1>9. \A p \in P : sums[p] = Cardinality(Cells({i \in I : period[i] = p}, f))
  <2> SUFFICES ASSUME NEW p \in P
               PROVE  sums[p] = Cardinality(Cells({i \in I : period[i] = p}, f))
    OBVIOUS
  <2>1. PICK J \in SUBSET DOMAIN rs : J = {i \in I : Period(rs[i], size) = p}
    BY <1>2
  <2>2. J = {i \in I : period[i] = p}
    BY <1>3, <2>1
  <2>3. sums[p] = RequestsAt(rs, J)
    BY <1>7, <2>1
  <2>4. RequestsAt(rs, J) = Cardinality(Cells(J, f))
    BY <1>8, RequestsAre
  <2> QED BY <2>2, <2>3, <2>4
<1>10. IsFiniteSet(I) /\ \A i \in I : f[i] \in Nat
  BY <1>2, <1>8, RequestsAre
<1>11. Cardinality(Cells(P, sums)) = Cardinality(Cells(I, f))
  <2>1. SumsOf(I, f, period, P, sums)
    BY <1>4, <1>9, <1>10 DEF SumsOf
  <2> QED BY <2>1, CellsOfCells
<1>12. DOMAIN sums = P
  BY <1>7
<1>13. RequestsAt(rs, I) = Cardinality(Cells(I, f))
  BY <1>2, <1>8, RequestsAre
<1> QED BY <1>1, <1>5, <1>11, <1>12, <1>13 DEF Sum

LEMMA UsageReports == ASSUME UsageInv PROVE ReportsAddUp
<1> DEFINE hours == {t \in 0..(MaxUsageClock + HOUR) : t % HOUR = 0}
           total(keys, a, b, size) ==
              LET report == Report(rows, keys, a, b, size)
              IN  Cardinality(UNION {{p} \X (1..report[p]) : p \in DOMAIN report})
<1>1. rows \in Seq(LedgerRow) /\ InOrder(rows) /\ NoneLater(rows)
  BY DEF UsageInv, UsageTypes, LedgerRows
<1>2. \A i \in DOMAIN rows : /\ rows[i].hour \in Nat /\ rows[i].key \in UsageKeys
                             /\ rows[i].hour <= MaxUsageClock
  BY <1>1, RowIs DEF NoneLater
<1>3. MaxUsageClock \in Nat /\ HOUR \in Nat
  BY LedgerAssumption
<1>4. \A keys, a, b, size : total(keys, a, b, size) = RequestsAt(rows, Taken(rows, keys, a, b))
  <2> SUFFICES ASSUME NEW keys, NEW a, NEW b, NEW size
               PROVE  total(keys, a, b, size) = RequestsAt(rows, Taken(rows, keys, a, b))
    OBVIOUS
  <2>1. total(keys, a, b, size) = Cardinality(Sum(rows, keys, a, b, size))
    BY DEF Sum, Cells
  <2> HIDE DEF total
  <2> QED BY <1>1, <2>1, ReportSum
<1> HIDE DEF total
<1>5. ASSUME NEW k \in UsageKeys
      PROVE  total({k}, 0, MaxUsageClock + 1, DAY) = RequestsOf(rows, k)
  <2>1. \A i \in DOMAIN rows : 0 <= rows[i].hour /\ rows[i].hour < MaxUsageClock + 1
    BY <1>2, <1>3
  <2>2. Taken(rows, {k}, 0, MaxUsageClock + 1) = Of(rows, k)
    BY <2>1 DEF Taken, Of
  <2>3. total({k}, 0, MaxUsageClock + 1, DAY)
        = RequestsAt(rows, Taken(rows, {k}, 0, MaxUsageClock + 1))
    BY <1>4
  <2> QED BY <1>1, <2>2, <2>3, RequestsOfAre
<1>6. ASSUME NEW a \in hours, NEW b \in hours, NEW c \in hours, ~Refuses(a, b), ~Refuses(b, c)
      PROVE  total(UsageKeys, a, b, HOUR) + total(UsageKeys, b, c, HOUR)
             = total(UsageKeys, a, c, DAY)
  <2>1. a \in Int /\ b \in Int /\ c \in Int
    OBVIOUS
  <2>2. a < b /\ b < c
    BY <1>6, <2>1 DEF Refuses
  <2>3. PICK I : I = Taken(rows, UsageKeys, a, b)
    OBVIOUS
  <2>4. PICK J : J = Taken(rows, UsageKeys, b, c)
    OBVIOUS
  <2>5. /\ I \in SUBSET DOMAIN rows /\ J \in SUBSET DOMAIN rows
        /\ I \cap J = {}
    BY <1>2, <2>1, <2>3, <2>4 DEF Taken
  <2>6. I \cup J = Taken(rows, UsageKeys, a, c)
    <3>1. ASSUME NEW i \in DOMAIN rows
          PROVE  (a <= rows[i].hour /\ rows[i].hour < c)
                 <=> \/ a <= rows[i].hour /\ rows[i].hour < b
                     \/ b <= rows[i].hour /\ rows[i].hour < c
      BY <1>2, <2>1, <2>2
    <3> QED BY <2>3, <2>4, <3>1 DEF Taken
  <2>7. RequestsAt(rows, I \cup J) = RequestsAt(rows, I) + RequestsAt(rows, J)
    BY <1>1, <2>5, RequestsApart
  <2> HIDE DEF hours
  <2> QED BY <1>4, <2>3, <2>4, <2>6, <2>7
<1> QED BY <1>5, <1>6 DEF ReportsAddUp, total

\* However the clock moves, what RowsSound and ReportsAddUp promise holds (record(),
\* _prune(), report()).
THEOREM LedgerAlwaysAdds == UsageSpec => [](RowsSound /\ ReportsAddUp)
<1>1. UsageInv => RowsSound /\ ReportsAddUp
  BY UsageAdds, UsageReports
<1> QED BY UsageStarts, UsageStep, <1>1, PTL DEF UsageSpec

-----------------------------------------------------------------------------
\* The audit log.
AuditEvents == [process : Nat, id : Nat]

\* The file is the end of what was written, and the backup what is before it.
EndsIn(b, f, w) ==
    /\ Len(b) + Len(f) <= Len(w)
    /\ \A i \in 1..Len(f) : f[i] = w[(Len(w) - Len(f)) + i]
    /\ \A i \in 1..Len(b) : b[i] = w[(Len(w) - Len(f) - Len(b)) + i]

AuditTypes ==
    /\ auditSeq \in Nat /\ writeErrors \in Nat /\ process \in Nat
    /\ ring \in Seq(AuditEvents)
    /\ logFile \in Seq(AuditEvents) /\ logBackup \in Seq(AuditEvents)
    /\ written \in Seq(AuditEvents)

OnDisk ==
    /\ EndsIn(logBackup, logFile, written)
    /\ Len(logFile) <= LogRoom /\ Len(logBackup) <= LogRoom

\* The ring holds the last of the numbers of this process.
RingIs ==
    /\ Len(ring) = (IF auditSeq < RingSize THEN auditSeq ELSE RingSize)
    /\ \A i \in 1..Len(ring) : ring[i] = AuditEvent(auditSeq - Len(ring) + i)

\* Each was written, or was counted as an error; none of a later process is there.
WrittenBy(w, p) == Cardinality({i \in 1..Len(w) : w[i].process = p})
Accounted ==
    /\ \A i \in 1..Len(written) : written[i].process <= process
    /\ auditSeq = writeErrors + WrittenBy(written, process)

AuditInv == AuditTypes /\ OnDisk /\ RingIs /\ Accounted

LEMMA AuditLens ==
    ASSUME AuditTypes
    PROVE  /\ Len(ring) \in Nat /\ Len(logFile) \in Nat /\ Len(logBackup) \in Nat
           /\ Len(written) \in Nat
           /\ RingSize \in Nat \ {0} /\ LogRoom \in Nat \ {0}
BY LedgerAssumption DEF AuditTypes

\* What ends in the backup and the file ends in the two, one behind the other.
LEMMA EndsInSuffix ==
    ASSUME NEW S, NEW b \in Seq(S), NEW f \in Seq(S), NEW w \in Seq(S), EndsIn(b, f, w)
    PROVE  IsSuffix(b \o f, w)
<1>1. PICK t : t = b \o f
  OBVIOUS
<1>2. /\ Len(b) \in Nat /\ Len(f) \in Nat /\ Len(w) \in Nat
      /\ t \in Seq(S) /\ Len(t) = Len(b) + Len(f) /\ Len(t) <= Len(w)
      /\ \A i \in 1..Len(t) : t[i] = IF i <= Len(b) THEN b[i] ELSE f[i - Len(b)]
  BY <1>1 DEF EndsIn
<1>3. \A i \in 1..Len(t) : t[i] = w[(Len(w) - Len(t)) + i]
  <2> SUFFICES ASSUME NEW i \in 1..Len(t) PROVE t[i] = w[(Len(w) - Len(t)) + i]
    OBVIOUS
  <2>1. CASE i <= Len(b)
    <3>1. i \in 1..Len(b) /\ t[i] = b[i]
      BY <1>2, <2>1
    <3>2. b[i] = w[(Len(w) - Len(f) - Len(b)) + i]
      BY <3>1 DEF EndsIn
    <3>3. (Len(w) - Len(f) - Len(b)) + i = (Len(w) - Len(t)) + i
      BY <1>2
    <3> QED BY <3>1, <3>2, <3>3
  <2>2. CASE ~(i <= Len(b))
    <3>1. PICK k \in 1..Len(f) : k = i - Len(b)
      BY <1>2, <2>2
    <3>2. t[i] = f[k] /\ f[k] = w[(Len(w) - Len(f)) + k]
      BY <1>2, <2>2, <3>1 DEF EndsIn
    <3>3. (Len(w) - Len(f)) + k = (Len(w) - Len(t)) + i
      BY <1>2, <3>1
    <3> QED BY <3>2, <3>3
  <2> QED BY <2>1, <2>2
<1>4. PICK n \in Nat : n = Len(t)
  BY <1>2
<1>5. PICK rt : rt = Reverse(t)
  OBVIOUS
<1>6. PICK rw : rw = Reverse(w)
  OBVIOUS
<1>7. /\ rt \in Seq(S) /\ Len(rt) = n /\ \A i \in 1..n : rt[i] = t[(n - i) + 1]
  BY <1>2, <1>4, <1>5 DEF Reverse
<1>8. /\ rw \in Seq(S) /\ Len(rw) = Len(w)
      /\ \A i \in 1..Len(w) : rw[i] = w[(Len(w) - i) + 1]
  BY <1>2, <1>6 DEF Reverse
<1>9. \A i \in 1..n : rt[i] = rw[i]
  <2> SUFFICES ASSUME NEW i \in 1..n PROVE rt[i] = rw[i]
    OBVIOUS
  <2>0. (n - i) + 1 \in 1..n
    BY <1>4
  <2>1. PICK k \in 1..n : k = (n - i) + 1
    BY <2>0
  <2>2. t[k] = w[(Len(w) - n) + k] /\ rt[i] = t[k]
    BY <1>3, <1>4, <1>7, <2>1
  <2>3. (Len(w) - n) + k = (Len(w) - i) + 1 /\ i \in 1..Len(w)
    BY <1>2, <1>4, <2>1
  <2> QED BY <1>8, <2>2, <2>3
<1>10. SubSeq(rt, 1, n) = SubSeq(rw, 1, n)
  <2>1. n <= Len(rw)
    BY <1>2, <1>4, <1>8
  <2>2. PICK m \in Nat : m = Len(rw)
    BY <1>8
  <2>3. \A i \in 1..n : i <= m
    BY <2>1, <2>2
  <2> QED BY <1>7, <1>8, <1>9, <2>1, <2>2, <2>3
<1>11. IsPrefix(rt, rw)
  BY <1>2, <1>4, <1>7, <1>8, <1>10 DEF IsPrefix
<1> QED BY <1>1, <1>5, <1>6, <1>11 DEF IsSuffix

LEMMA AuditStarts == AuditInit => AuditInv
<1> SUFFICES ASSUME AuditInit PROVE AuditInv
  OBVIOUS
<1>1. /\ ring \in Seq(AuditEvents) /\ Len(ring) = 0
      /\ logFile \in Seq(AuditEvents) /\ Len(logFile) = 0
      /\ logBackup \in Seq(AuditEvents) /\ Len(logBackup) = 0
      /\ written \in Seq(AuditEvents) /\ Len(written) = 0
  BY DEF AuditInit
<1>2. auditSeq = 0 /\ writeErrors = 0 /\ process = 1
  BY DEF AuditInit
<1>3. AuditTypes
  BY <1>1, <1>2 DEF AuditTypes
<1>4. OnDisk
  BY <1>1, <1>3, AuditLens DEF OnDisk, EndsIn
<1>5. RingIs
  BY <1>1, <1>2, <1>3, AuditLens DEF RingIs
<1>6. Accounted
  <2>1. {i \in 1..Len(written) : written[i].process = process} = {}
    BY <1>1
  <2>2. WrittenBy(written, process) = 0
    BY <2>1, FS_EmptySet DEF WrittenBy
  <2> QED BY <1>1, <1>2, <2>2 DEF Accounted
<1> QED BY <1>3, <1>4, <1>5, <1>6 DEF AuditInv

\* The next number enters the ring; the oldest leaves a full one.
LEMMA RingedOK ==
    ASSUME AuditTypes, RingIs, auditSeq' = auditSeq + 1, process' = process,
           ring' = Ringed(AuditEvent(auditSeq + 1))
    PROVE  /\ AuditEvent(auditSeq + 1) \in AuditEvents
           /\ ring' \in Seq(AuditEvents)
           /\ RingIs'
<1> DEFINE Ev(k) == [process |-> process, id |-> k]
<1>0. \A k : AuditEvent(k) = Ev(k) /\ AuditEvent(k)' = Ev(k)
  BY DEF AuditEvent
<1>1. PICK e : e = Ev(auditSeq + 1)
  OBVIOUS
<1>2. e \in AuditEvents
  BY <1>1 DEF AuditEvents, AuditTypes
<1>3. PICK n \in Nat : n = Len(ring)
  BY AuditLens
<1>4. PICK m \in Nat : m = n + 1
  OBVIOUS
<1>5. PICK r : r = Append(ring, e)
  OBVIOUS
<1>6. /\ r \in Seq(AuditEvents) /\ Len(r) = m /\ r[m] = e
      /\ \A i \in 1..n : r[i] = ring[i]
  <2>1. ring \in Seq(AuditEvents)
    BY DEF AuditTypes
  <2> QED BY <1>2, <1>3, <1>4, <1>5, <2>1
<1>7. auditSeq \in Nat /\ RingSize \in Nat \ {0}
  BY AuditLens DEF AuditTypes
<1>8. /\ n = (IF auditSeq < RingSize THEN auditSeq ELSE RingSize)
      /\ \A i \in 1..n : ring[i] = Ev(auditSeq - n + i)
  BY <1>0, <1>3 DEF RingIs
<1> HIDE DEF Ev
<1>9. \A i \in 1..m : r[i] = Ev((auditSeq + 1) - m + i)
  <2> SUFFICES ASSUME NEW i \in 1..m PROVE r[i] = Ev((auditSeq + 1) - m + i)
    OBVIOUS
  <2>1. CASE i = m
    <3>1. (auditSeq + 1) - m + i = auditSeq + 1
      BY <1>7, <2>1
    <3> QED BY <1>1, <1>6, <2>1, <3>1
  <2>2. CASE i # m
    <3>1. i \in 1..n /\ (auditSeq + 1) - m + i = auditSeq - n + i
      BY <1>4, <1>7, <2>2
    <3> QED BY <1>6, <1>8, <3>1
  <2> QED BY <2>1, <2>2
<1>10. ring' = (IF m > RingSize THEN Tail(r) ELSE r)
  BY <1>0, <1>1, <1>5, <1>6 DEF Ringed
<1>11. CASE m > RingSize
  <2>1. ring' = Tail(r) /\ n = RingSize /\ ~(auditSeq' < RingSize)
    BY <1>4, <1>7, <1>8, <1>10, <1>11
  <2>2. /\ ring' \in Seq(AuditEvents) /\ Len(ring') = n
        /\ \A i \in 1..n : ring'[i] = r[i + 1]
    BY <1>4, <1>6, <2>1
  <2>3. \A i \in 1..n : ring'[i] = Ev(auditSeq' - n + i)
    <3> SUFFICES ASSUME NEW i \in 1..n PROVE ring'[i] = Ev(auditSeq' - n + i)
      OBVIOUS
    <3>0. i + 1 \in 1..m
      BY <1>4
    <3>1. PICK k \in 1..m : k = i + 1
      BY <3>0
    <3>2. (auditSeq + 1) - m + k = auditSeq' - n + i
      BY <1>4, <1>7, <3>1
    <3>3. ring'[i] = Ev((auditSeq + 1) - m + k)
      BY <1>9, <2>2, <3>1
    <3> QED BY <3>2, <3>3
  <2>4. RingIs'
    BY <1>0, <2>1, <2>2, <2>3 DEF RingIs
  <2> QED BY <1>0, <1>1, <1>2, <2>2, <2>4
<1>12. CASE ~(m > RingSize)
  <2>1. ring' = r /\ m = (IF auditSeq' < RingSize THEN auditSeq' ELSE RingSize)
    BY <1>4, <1>7, <1>8, <1>10, <1>12
  <2>2. \A i \in 1..m : ring'[i] = Ev(auditSeq' - m + i)
    BY <1>9, <2>1
  <2>3. RingIs'
    BY <1>0, <1>6, <2>1, <2>2 DEF RingIs
  <2> QED BY <1>0, <1>1, <1>2, <1>6, <2>1, <2>3
<1> QED BY <1>11, <1>12

\* A full file becomes the backup.
LEMMA Rotated ==
    ASSUME NEW b \in Seq(AuditEvents), NEW f \in Seq(AuditEvents),
           NEW w \in Seq(AuditEvents), EndsIn(b, f, w)
    PROVE  EndsIn(f, << >>, w)
<1>1. PICK g \in Seq(AuditEvents) : g = << >> /\ Len(g) = 0
  <2>1. << >> \in Seq(AuditEvents) /\ Len(<< >>) = 0
    OBVIOUS
  <2> QED BY <2>1
<1>2. Len(f) \in Nat /\ Len(w) \in Nat /\ Len(b) \in Nat
  OBVIOUS
<1>3. Len(f) + Len(g) <= Len(w)
  BY <1>1, <1>2 DEF EndsIn
<1>4. Len(w) - Len(g) - Len(f) = Len(w) - Len(f)
  BY <1>1, <1>2
<1>5. \A i \in 1..Len(f) : f[i] = w[(Len(w) - Len(g) - Len(f)) + i]
  BY <1>4 DEF EndsIn
<1>6. \A i \in 1..Len(g) : g[i] = w[(Len(w) - Len(g)) + i]
  BY <1>1
<1> QED BY <1>1, <1>3, <1>5, <1>6 DEF EndsIn

\* One more event is written behind a file that has room.
LEMMA EndsInAppend ==
    ASSUME NEW S, NEW b \in Seq(S), NEW f \in Seq(S), NEW w \in Seq(S), NEW e \in S,
           EndsIn(b, f, w)
    PROVE  EndsIn(b, Append(f, e), Append(w, e))
<1>1. PICK g : g = Append(f, e)
  OBVIOUS
<1>2. PICK v : v = Append(w, e)
  OBVIOUS
<1>3. /\ Len(b) \in Nat /\ Len(f) \in Nat /\ Len(w) \in Nat
      /\ Len(g) = Len(f) + 1 /\ Len(v) = Len(w) + 1
      /\ g[Len(g)] = e /\ v[Len(v)] = e
      /\ \A i \in 1..Len(f) : g[i] = f[i]
      /\ \A i \in 1..Len(w) : v[i] = w[i]
      /\ Len(b) + Len(f) <= Len(w)
  BY <1>1, <1>2 DEF EndsIn
<1>4. \A i \in 1..Len(g) : g[i] = v[(Len(v) - Len(g)) + i]
  <2> SUFFICES ASSUME NEW i \in 1..Len(g) PROVE g[i] = v[(Len(v) - Len(g)) + i]
    OBVIOUS
  <2>1. CASE i = Len(g)
    <3>1. (Len(v) - Len(g)) + i = Len(v)
      BY <1>3, <2>1
    <3> QED BY <1>3, <2>1, <3>1
  <2>2. CASE i # Len(g)
    <3>0. (Len(w) - Len(f)) + i \in 1..Len(w)
      BY <1>3, <2>2
    <3>1. PICK k \in 1..Len(w) : k = (Len(w) - Len(f)) + i
      BY <3>0
    <3>2. i \in 1..Len(f) /\ k = (Len(v) - Len(g)) + i
      BY <1>3, <2>2, <3>1
    <3>3. f[i] = w[k]
      BY <3>1, <3>2 DEF EndsIn
    <3> QED BY <1>3, <3>2, <3>3
  <2> QED BY <2>1, <2>2
<1>5. \A i \in 1..Len(b) : b[i] = v[(Len(v) - Len(g) - Len(b)) + i]
  <2> SUFFICES ASSUME NEW i \in 1..Len(b) PROVE b[i] = v[(Len(v) - Len(g) - Len(b)) + i]
    OBVIOUS
  <2>0. (Len(w) - Len(f) - Len(b)) + i \in 1..Len(w)
    BY <1>3
  <2>1. PICK k \in 1..Len(w) : k = (Len(w) - Len(f) - Len(b)) + i
    BY <2>0
  <2>2. k = (Len(v) - Len(g) - Len(b)) + i
    BY <1>3, <2>1
  <2>3. b[i] = w[k]
    BY <2>1 DEF EndsIn
  <2> QED BY <1>3, <2>2, <2>3
<1>6. Len(b) + Len(g) <= Len(v)
  BY <1>3
<1> QED BY <1>1, <1>2, <1>4, <1>5, <1>6 DEF EndsIn

\* It is counted for this process.
LEMMA WrittenCount ==
    ASSUME NEW w \in Seq(AuditEvents), NEW e \in AuditEvents, NEW p, e.process = p
    PROVE  WrittenBy(w, p) \in Nat /\ WrittenBy(Append(w, e), p) = WrittenBy(w, p) + 1
<1>1. PICK v : v = Append(w, e)
  OBVIOUS
<1>2. PICK n \in Nat : n = Len(w)
  OBVIOUS
<1>3. PICK m \in Nat : m = n + 1
  OBVIOUS
<1>4. Len(v) = m /\ v[m] = e /\ \A i \in 1..n : v[i] = w[i]
  BY <1>1, <1>2, <1>3
<1> DEFINE A == {i \in 1..n : w[i].process = p}
<1>5. {i \in 1..m : v[i].process = p} = A \union {m}
  BY <1>3, <1>4
<1>6. IsFiniteSet(A) /\ Cardinality(A) \in Nat
  <2>1. IsFiniteSet(1..n)
    BY FS_Interval
  <2>2. A \subseteq 1..n
    OBVIOUS
  <2> HIDE DEF A
  <2> QED BY <2>1, <2>2, FS_Subset, FS_CardinalityType
<1>7. m \notin A
  BY <1>3
<1> HIDE DEF A
<1>8. Cardinality(A \union {m}) = Cardinality(A) + 1
  BY <1>6, <1>7, FS_AddElement
<1> QED BY <1>1, <1>2, <1>4, <1>5, <1>6, <1>8 DEF A, WrittenBy

LEMMA AuditRecordKeeps == ASSUME AuditInv, AuditRecord PROVE AuditInv'
<1> DEFINE e == AuditEvent(auditSeq + 1)
           full == Len(logFile) >= LogRoom
<1>0. AuditTypes /\ OnDisk /\ RingIs /\ Accounted
  BY DEF AuditInv
<1>1. /\ auditSeq' = auditSeq + 1 /\ ring' = Ringed(e) /\ written' = Append(written, e)
      /\ process' = process /\ writeErrors' = writeErrors
      /\ logBackup' = (IF full THEN logFile ELSE logBackup)
      /\ logFile' = (IF full THEN <<e>> ELSE Append(logFile, e))
  BY DEF AuditRecord
<1>2. e \in AuditEvents /\ e.process = process /\ ring' \in Seq(AuditEvents) /\ RingIs'
  BY <1>0, <1>1, RingedOK DEF AuditEvent
<1>3. /\ logFile \in Seq(AuditEvents) /\ logBackup \in Seq(AuditEvents)
      /\ written \in Seq(AuditEvents)
      /\ LogRoom \in Nat \ {0} /\ auditSeq \in Nat /\ process \in Nat /\ writeErrors \in Nat
      /\ Len(logFile) \in Nat /\ Len(logBackup) \in Nat
  BY <1>0, AuditLens DEF AuditTypes
<1> HIDE DEF e
<1>4. PICK b, f : /\ b = (IF full THEN logFile ELSE logBackup)
                  /\ f = (IF full THEN << >> ELSE logFile)
  OBVIOUS
<1>5. /\ b \in Seq(AuditEvents) /\ f \in Seq(AuditEvents) /\ EndsIn(b, f, written)
      /\ Len(b) <= LogRoom /\ Len(f) < LogRoom
  <2>1. CASE full
    <3>1. << >> \in Seq(AuditEvents) /\ Len(<< >>) = 0
      OBVIOUS
    <3>2. EndsIn(logFile, << >>, written)
      BY <1>0, <1>3, Rotated DEF OnDisk
    <3> QED BY <1>0, <1>3, <1>4, <2>1, <3>1, <3>2 DEF OnDisk
  <2>2. CASE ~full
    BY <1>0, <1>3, <1>4, <2>2 DEF OnDisk
  <2> QED BY <2>1, <2>2
<1>6. logBackup' = b /\ logFile' = Append(f, e)
  <2>1. Append(<< >>, e) = <<e>>
    BY <1>2
  <2> QED BY <1>1, <1>4, <2>1
<1>7. AuditTypes'
  BY <1>1, <1>2, <1>3, <1>5, <1>6 DEF AuditTypes
<1>8. OnDisk'
  <2>1. EndsIn(b, Append(f, e), Append(written, e))
    BY <1>2, <1>3, <1>5, EndsInAppend
  <2>2. Len(Append(f, e)) <= LogRoom
    BY <1>2, <1>3, <1>5
  <2> QED BY <1>1, <1>5, <1>6, <2>1, <2>2 DEF OnDisk
<1>9. Accounted'
  <2>1. PICK n \in Nat : n = Len(written)
    BY <1>3
  <2>2. /\ Len(written') = n + 1 /\ written'[n + 1] = e
        /\ \A i \in 1..n : written'[i] = written[i]
    BY <1>1, <1>2, <1>3, <2>1
  <2>3. ASSUME NEW i \in 1..(n + 1) PROVE written'[i].process <= process
    <3>1. CASE i = n + 1
      BY <1>2, <1>3, <2>2, <3>1
    <3>2. CASE i # n + 1
      <4>1. i \in 1..n
        BY <3>2
      <4> QED BY <1>0, <2>1, <2>2, <4>1 DEF Accounted
    <3> QED BY <3>1, <3>2
  <2>6. /\ WrittenBy(written, process) \in Nat
        /\ WrittenBy(written', process') = WrittenBy(written, process) + 1
    BY <1>1, <1>2, <1>3, WrittenCount
  <2>7. auditSeq' = writeErrors' + WrittenBy(written', process')
    <3>1. auditSeq = writeErrors + WrittenBy(written, process)
      BY <1>0 DEF Accounted
    <3> QED BY <1>1, <1>3, <2>6, <3>1
  <2> QED BY <1>1, <2>2, <2>3, <2>7 DEF Accounted
<1> QED BY <1>2, <1>7, <1>8, <1>9 DEF AuditInv

LEMMA AuditFailureKeeps == ASSUME AuditInv, AuditWriteFails PROVE AuditInv'
<1>0. AuditTypes /\ OnDisk /\ RingIs /\ Accounted
  BY DEF AuditInv
<1>1. /\ auditSeq' = auditSeq + 1 /\ process' = process /\ written' = written
      /\ writeErrors' = writeErrors + 1 /\ ring' = Ringed(AuditEvent(auditSeq + 1))
  BY DEF AuditWriteFails
<1>2. ring' \in Seq(AuditEvents) /\ RingIs'
  BY <1>0, <1>1, RingedOK
<1>3. logBackup' \in Seq(AuditEvents) /\ logFile' \in Seq(AuditEvents) /\ OnDisk'
  <2>1. CASE UNCHANGED <<logFile, logBackup>>
    BY <1>0, <1>1, <2>1 DEF AuditTypes, OnDisk
  <2>2. CASE Len(logFile) >= LogRoom /\ logBackup' = logFile /\ logFile' = << >>
    <3>1. << >> \in Seq(AuditEvents) /\ Len(<< >>) = 0
      OBVIOUS
    <3>2. EndsIn(logFile, << >>, written)
      BY <1>0, Rotated DEF OnDisk, AuditTypes
    <3>3. 0 <= LogRoom
      BY LedgerAssumption
    <3> QED BY <1>0, <1>1, <2>2, <3>1, <3>2, <3>3 DEF OnDisk, AuditTypes
  <2> QED BY <2>1, <2>2 DEF AuditWriteFails
<1>4. AuditTypes'
  BY <1>0, <1>1, <1>2, <1>3 DEF AuditTypes
<1>5. WrittenBy(written, process) \in Nat /\ WrittenBy(written', process') = WrittenBy(written, process)
  <2>1. PICK n \in Nat : n = Len(written)
    BY <1>0, AuditLens
  <2>2. IsFiniteSet(1..n)
    BY FS_Interval
  <2>3. {i \in 1..n : written[i].process = process} \subseteq 1..n
    OBVIOUS
  <2>4. Cardinality({i \in 1..n : written[i].process = process}) \in Nat
    BY <2>2, <2>3, FS_Subset, FS_CardinalityType
  <2> QED BY <1>1, <2>1, <2>4 DEF WrittenBy
<1>6. auditSeq' = writeErrors' + WrittenBy(written', process')
  <2>1. auditSeq = writeErrors + WrittenBy(written, process) /\ writeErrors \in Nat /\ auditSeq \in Nat
    BY <1>0 DEF Accounted, AuditTypes
  <2> QED BY <1>1, <1>5, <2>1
<1>7. Accounted'
  BY <1>0, <1>1, <1>6 DEF Accounted
<1> QED BY <1>2, <1>3, <1>4, <1>7 DEF AuditInv

LEMMA AuditRestartKeeps == ASSUME AuditInv, AuditRestart PROVE AuditInv'
<1>0. AuditTypes /\ OnDisk /\ RingIs /\ Accounted
  BY DEF AuditInv
<1>1. /\ auditSeq' = 0 /\ writeErrors' = 0 /\ process' = process + 1
      /\ UNCHANGED <<logFile, logBackup, written>>
  BY DEF AuditRestart
<1>2. ring' \in Seq(AuditEvents) /\ Len(ring') = 0
  BY DEF AuditRestart
<1>3. AuditTypes'
  BY <1>0, <1>1, <1>2 DEF AuditTypes
<1>4. OnDisk'
  BY <1>0, <1>1 DEF OnDisk
<1>5. RingIs'
  <2>1. 0 < RingSize
    BY LedgerAssumption
  <2> QED BY <1>1, <1>2, <2>1 DEF RingIs
<1>6. \A i \in 1..Len(written) : written[i].process \in Nat /\ written[i].process <= process
  <2>1. \A i \in 1..Len(written) : written[i] \in AuditEvents
    BY <1>0 DEF AuditTypes
  <2>2. \A i \in 1..Len(written) : written[i].process \in Nat
    BY <2>1 DEF AuditEvents
  <2> QED BY <1>0, <2>2 DEF Accounted
<1>7. process \in Nat
  BY <1>0 DEF AuditTypes
<1>8. Accounted'
  <2>1. {i \in 1..Len(written) : written[i].process = process + 1} = {}
    BY <1>6, <1>7
  <2>2. WrittenBy(written', process') = 0
    BY <1>1, <2>1, FS_EmptySet DEF WrittenBy
  <2> QED BY <1>1, <1>6, <1>7, <2>2 DEF Accounted
<1> QED BY <1>3, <1>4, <1>5, <1>8 DEF AuditInv

\* In every order of records, failed writes and restarts, the audit log on disk is
\* an unbroken end of what was written, and each event that it misses was counted
\* (record(), _append_to_file()).
THEOREM AuditAlways == AuditSpec => []AuditSound
<1>1. AuditInv /\ [AuditNext]_auditVars => AuditInv'
  <2> SUFFICES ASSUME AuditInv, [AuditNext]_auditVars PROVE AuditInv'
    OBVIOUS
  <2>1. CASE AuditNext
    BY <2>1, AuditRecordKeeps, AuditFailureKeeps, AuditRestartKeeps DEF AuditNext
  <2>2. CASE UNCHANGED auditVars
    BY <2>2 DEF auditVars, AuditInv, AuditTypes, OnDisk, EndsIn, RingIs, Accounted, WrittenBy,
                AuditEvent
  <2> QED BY <2>1, <2>2
<1>2. AuditInv => AuditSound
  <2> SUFFICES ASSUME AuditInv PROVE AuditSound
    OBVIOUS
  <2>0. AuditTypes /\ OnDisk /\ RingIs /\ Accounted
    BY DEF AuditInv
  <2>1. IsSuffix(logBackup \o logFile, written)
    BY <2>0, EndsInSuffix DEF AuditTypes, OnDisk
  <2>2. PICK n \in Nat : n = Len(ring)
    BY <2>0, AuditLens
  <2>3. ring = [i \in 1..Len(ring) |-> AuditEvent(auditSeq - Len(ring) + i)]
    <3>1. ring = [i \in 1..Len(ring) |-> ring[i]]
      BY <2>0 DEF AuditTypes
    <3> QED BY <2>0, <3>1 DEF RingIs
  <2>4. DOMAIN written = 1..Len(written)
    BY <2>0 DEF AuditTypes
  <2>5. ASSUME NEW m \in 1..Len(ring) PROVE Events(m)[1] = AuditEvent(auditSeq)
    <3>1. PICK r : r = Reverse(ring)
      OBVIOUS
    <3>2. ring \in Seq(AuditEvents) /\ auditSeq \in Nat
      BY <2>0 DEF AuditTypes
    <3>3. n >= 1 /\ m <= n /\ m \in Nat /\ m >= 1
      BY <2>2, <2>5
    <3>4. r \in Seq(AuditEvents) /\ Len(r) = n /\ r[1] = ring[(n - 1) + 1]
      BY <2>2, <3>1, <3>2, <3>3 DEF Reverse
    <3>5. (n - 1) + 1 = n /\ auditSeq - n + n = auditSeq
      BY <2>2, <3>2
    <3>6. ring[n] = AuditEvent(auditSeq)
      <4>1. n \in 1..n
        BY <3>3
      <4> QED BY <2>0, <2>2, <3>5, <4>1 DEF RingIs
    <3>7. (IF m < n THEN m ELSE n) \in 1..n
      BY <3>3
    <3>8. PICK k \in 1..n : k = IF m < n THEN m ELSE n
      BY <3>7
    <3>9. SubSeq(r, 1, k)[1] = r[1]
      BY <3>4, <3>8
    <3>10. Events(m) = SubSeq(r, 1, k)
      BY <2>2, <3>1, <3>8 DEF Events
    <3> QED BY <3>4, <3>5, <3>6, <3>9, <3>10
  <2>6. auditSeq = writeErrors
          + Cardinality({i \in DOMAIN written : written[i].process = process})
    BY <2>0, <2>4 DEF Accounted, WrittenBy
  <2>7. Len(ring) = (IF auditSeq < RingSize THEN auditSeq ELSE RingSize)
    BY <2>0 DEF RingIs
  <2>8. Len(logFile) <= LogRoom /\ Len(logBackup) <= LogRoom
    BY <2>0 DEF OnDisk
  <2> QED BY <2>1, <2>3, <2>5, <2>6, <2>7, <2>8 DEF AuditSound
<1> QED BY AuditStarts, <1>1, <1>2, PTL DEF AuditSpec

-----------------------------------------------------------------------------
\* Backups.
StoreVersions == 1..MaxVersionB
Entries(values) == UNION {[S -> values] : S \in SUBSET Discovered}

\* What is copied and what the archive promises are whole snapshots of stores that
\* hold no secret.  While a restore() writes from an archive that nobody touched, the
\* entries it has still to write are as promised, and those written are in place;
\* without --force nothing that was there is among them.
BackupInv ==
    /\ source \in [Stores -> StoreVersions]
    /\ maker \in [at : {"idle", "copying", "writing"}, copies : Entries(StoreVersions)]
    /\ archive \in [there : BOOLEAN, files : Entries(StoreVersions \union {Damaged}),
                    sums : Entries(StoreVersions), whole : BOOLEAN]
    /\ restorer \in [at : {"idle", "writing", "done"}, left : SUBSET Discovered,
                     force : BOOLEAN, names : SUBSET Discovered]
    /\ stale \in BOOLEAN
    /\ DOMAIN target = Stores /\ DOMAIN before = Stores
    /\ target = [f \in Stores |-> target[f]]
    /\ restorer.left \subseteq restorer.names
    /\ restorer.at = "done" => restorer.left = {}
    /\ restorer.at \in {"writing", "done"} /\ ~stale =>
          /\ restorer.names = DOMAIN archive.sums
          /\ \A f \in restorer.names :
                f \in DOMAIN archive.files /\ archive.files[f] = archive.sums[f]
          /\ \A f \in restorer.names \ restorer.left : target[f] \in StoreVersions
    /\ ~restorer.force =>
          /\ \A f \in Stores : before[f] # NoFile => target[f] = before[f]
          /\ \A f \in restorer.left : before[f] = NoFile

LEMMA EntriesOf ==
    ASSUME NEW values, NEW F \in Entries(values)
    PROVE  /\ DOMAIN F \subseteq Discovered
           /\ \A f \in DOMAIN F : F[f] \in values
           /\ F = [f \in DOMAIN F |-> F[f]]
BY DEF Entries

LEMMA EntriesAre ==
    ASSUME NEW values, NEW F, DOMAIN F \subseteq Discovered, F = [f \in DOMAIN F |-> F[f]],
           \A f \in DOMAIN F : F[f] \in values
    PROVE  F \in Entries(values)
<1>1. F \in [DOMAIN F -> values]
  OBVIOUS
<1> QED BY <1>1 DEF Entries

LEMMA NoEntries == ASSUME NEW values PROVE [f \in {} |-> 0] \in Entries(values)
<1>1. [f \in {} |-> 0] \in [{} -> values]
  OBVIOUS
<1> QED BY <1>1 DEF Entries

LEMMA BackupStarts == BackupInit => BackupInv
<1> SUFFICES ASSUME BackupInit PROVE BackupInv
  OBVIOUS
<1>1. source \in [Stores -> StoreVersions]
  BY BackupAssumption DEF BackupInit, StoreVersions
<1>2. /\ NoMaker \in [at : {"idle", "copying", "writing"}, copies : Entries(StoreVersions)]
      /\ NoArchive \in [there : BOOLEAN, files : Entries(StoreVersions \union {Damaged}),
                        sums : Entries(StoreVersions), whole : BOOLEAN]
  BY NoEntries DEF NoMaker, NoArchive
<1>3. NoRestore \in [at : {"idle", "writing", "done"}, left : SUBSET Discovered,
                     force : BOOLEAN, names : SUBSET Discovered]
  BY DEF NoRestore
<1> QED BY <1>1, <1>2, <1>3 DEF BackupInit, BackupInv, NoRestore

\* What the gateway writes, and a create() that copies, touch no archive.
LEMMA BackupCopies ==
    ASSUME BackupInv,
           \/ BeginBackup \/ BackupDies \/ RestoreDies
           \/ \E f \in Stores : Write(f) \/ CopyStore(f)
    PROVE  BackupInv'
<1>1. CASE BeginBackup
  <2>1. maker' = [at |-> "copying", copies |-> [f \in {} |-> 0]]
    BY <1>1 DEF BeginBackup, NoMaker
  <2>2. maker' \in [at : {"idle", "copying", "writing"}, copies : Entries(StoreVersions)]
    BY <2>1, NoEntries
  <2> QED BY <1>1, <2>2 DEF BeginBackup, BackupInv, StoreVersions, Entries, Discovered
<1>2. CASE BackupDies
  <2>1. maker' = [at |-> "idle", copies |-> [f \in {} |-> 0]]
    BY <1>2 DEF BackupDies, NoMaker
  <2>2. maker' \in [at : {"idle", "copying", "writing"}, copies : Entries(StoreVersions)]
    BY <2>1, NoEntries
  <2> QED BY <1>2, <2>2 DEF BackupDies, BackupInv
<1>3. CASE RestoreDies
  <2>1. restorer' = [at |-> "idle", left |-> restorer.left, force |-> restorer.force,
                     names |-> restorer.names]
    BY <1>3 DEF RestoreDies, BackupInv
  <2> QED BY <1>3, <2>1 DEF RestoreDies, BackupInv
<1>4. ASSUME NEW f \in Stores, Write(f) PROVE BackupInv'
  <2>1. source' \in [Stores -> StoreVersions]
    BY <1>4, BackupAssumption DEF Write, BackupInv, StoreVersions
  <2> QED BY <1>4, <2>1 DEF Write, BackupInv
<1>5. ASSUME NEW f \in Stores, CopyStore(f) PROVE BackupInv'
  <2> DEFINE more == [g \in DOMAIN maker.copies \union {f} |->
                         IF g = f THEN source[f] ELSE maker.copies[g]]
  <2>1. maker' = [at |-> maker.at, copies |-> more]
    BY <1>5 DEF CopyStore, BackupInv
  <2>2. more \in Entries(StoreVersions)
    <3>1. maker.copies \in Entries(StoreVersions) /\ f \in Discovered /\ source[f] \in StoreVersions
      BY <1>5 DEF CopyStore, BackupInv
    <3>2. DOMAIN more \subseteq Discovered /\ \A g \in DOMAIN more : more[g] \in StoreVersions
      BY <3>1, EntriesOf
    <3> QED BY <3>2, EntriesAre
  <2>3. maker' \in [at : {"idle", "copying", "writing"}, copies : Entries(StoreVersions)]
    BY <2>1, <2>2 DEF BackupInv
  <2> QED BY <1>5, <2>3 DEF CopyStore, BackupInv
<1> QED BY <1>1, <1>2, <1>3, <1>4, <1>5

\* A new archive, or a damaged one, is no longer the one that was verified.
LEMMA BackupArchives ==
    ASSUME BackupInv, OpenArchive \/ CloseArchive \/ \E f \in Stores : Damage(f)
    PROVE  BackupInv'
<1> DEFINE Archives == [there : BOOLEAN, files : Entries(StoreVersions \union {Damaged}),
                        sums : Entries(StoreVersions), whole : BOOLEAN]
<1>0. maker.copies \in Entries(StoreVersions) /\ archive \in Archives
  BY DEF BackupInv
<1>1. maker.copies \in Entries(StoreVersions \union {Damaged})
  BY <1>0, EntriesOf, EntriesAre
<1>2. CASE OpenArchive
  <2>1. archive' \in Archives
    BY <1>2, <1>0, NoEntries DEF OpenArchive
  <2>2. maker' = [at |-> "writing", copies |-> maker.copies]
    BY <1>2 DEF OpenArchive, BackupInv
  <2>3. maker' \in [at : {"idle", "copying", "writing"}, copies : Entries(StoreVersions)]
    BY <2>2, <1>0
  <2> QED BY <1>2, <2>1, <2>3 DEF OpenArchive, BackupInv
<1>3. CASE CloseArchive
  <2>1. archive' = [there |-> archive.there, files |-> maker.copies, sums |-> archive.sums,
                    whole |-> TRUE]
    BY <1>3, <1>0 DEF CloseArchive
  <2>2. archive' \in Archives
    BY <2>1, <1>0, <1>1
  <2>3. maker' = [at |-> "idle", copies |-> [f \in {} |-> 0]]
    BY <1>3 DEF CloseArchive, NoMaker
  <2>4. maker' \in [at : {"idle", "copying", "writing"}, copies : Entries(StoreVersions)]
    BY <2>3, NoEntries
  <2> QED BY <1>3, <2>2, <2>4 DEF CloseArchive, BackupInv
<1>4. ASSUME NEW f \in Stores, Damage(f) PROVE BackupInv'
  <2> DEFINE files == [archive.files EXCEPT ![f] = Damaged]
  <2>1. archive' = [there |-> archive.there, files |-> files, sums |-> archive.sums,
                    whole |-> archive.whole]
    BY <1>4, <1>0 DEF Damage
  <2>2. files \in Entries(StoreVersions \union {Damaged})
    <3>1. archive.files \in Entries(StoreVersions \union {Damaged}) /\ f \in DOMAIN archive.files
      BY <1>4, <1>0 DEF Damage
    <3>2. /\ DOMAIN files \subseteq Discovered
          /\ \A g \in DOMAIN files : files[g] \in StoreVersions \union {Damaged}
      BY <3>1, EntriesOf
    <3>3. files = [g \in DOMAIN files |-> files[g]]
      OBVIOUS
    <3> HIDE DEF files
    <3> QED BY <3>2, <3>3, EntriesAre
  <2>3. archive' \in Archives
    BY <2>1, <2>2, <1>0
  <2> QED BY <1>4, <2>3 DEF Damage, BackupInv
<1> QED BY <1>2, <1>3, <1>4

LEMMA BackupRestores ==
    ASSUME BackupInv,
           \/ RestoreEnds \/ \E force \in BOOLEAN : BeginRestore(force)
           \/ \E f \in Stores : RestoreFile(f)
    PROVE  BackupInv'
<1>0. DOMAIN archive.sums \subseteq Discovered /\ DOMAIN archive.files \subseteq Discovered
  BY EntriesOf DEF BackupInv
<1>1. CASE RestoreEnds
  <2>1. restorer' = [at |-> "done", left |-> restorer.left, force |-> restorer.force,
                     names |-> restorer.names]
    BY <1>1 DEF RestoreEnds, BackupInv
  <2> QED BY <1>1, <2>1 DEF RestoreEnds, BackupInv
<1>2. ASSUME NEW force \in BOOLEAN, BeginRestore(force) PROVE BackupInv'
  <2>1. ~force => \A f \in DOMAIN archive.sums : target[f] = NoFile
    BY <1>2 DEF BeginRestore, Clashes
  <2>2. \A f \in DOMAIN archive.sums :
           f \in DOMAIN archive.files /\ archive.files[f] = archive.sums[f]
    BY <1>2 DEF BeginRestore, Verified
  <2> QED BY <1>2, <1>0, <2>1, <2>2 DEF BeginRestore, BackupInv
<1>3. ASSUME NEW f \in Stores, RestoreFile(f) PROVE BackupInv'
  <2>1. restorer' = [at |-> restorer.at, left |-> restorer.left \ {f},
                     force |-> restorer.force, names |-> restorer.names]
    BY <1>3 DEF RestoreFile, BackupInv
  <2>2. /\ DOMAIN target' = Stores /\ target' = [g \in Stores |-> target'[g]]
        /\ target'[f] = archive.files[f]
        /\ \A g \in Stores : g # f => target'[g] = target[g]
    BY <1>3 DEF RestoreFile, BackupInv
  <2>3. ~stale => target'[f] \in StoreVersions
    BY <1>3, <2>2, EntriesOf DEF RestoreFile, BackupInv
  <2>4. UNCHANGED <<source, archive, maker, stale, before>> /\ f \in restorer.left
        /\ restorer.at = "writing"
    BY <1>3 DEF RestoreFile
  <2>5. restorer.names \subseteq Stores
    BY DEF BackupInv, Discovered
  <2>6. \A g \in restorer.names \ restorer'.left : ~stale => target'[g] \in StoreVersions
    BY <2>1, <2>2, <2>3, <2>4, <2>5 DEF BackupInv
  <2>7. ~restorer.force =>
          /\ \A g \in Stores : before[g] # NoFile => target'[g] = before[g]
          /\ \A g \in restorer'.left : before[g] = NoFile
    BY <2>1, <2>2, <2>4 DEF BackupInv
  <2> QED BY <2>1, <2>2, <2>4, <2>6, <2>7 DEF BackupInv
<1> QED BY <1>1, <1>2, <1>3

\* However often a create() or a restore() dies and the disk damages the archive, what
\* BackupSound promises of a restore that reports success holds (create(), verify(),
\* restore()).
THEOREM BackupAlways == BackupSpec => []BackupSound
<1>1. BackupInv /\ [BackupNext]_backVars => BackupInv'
  <2> SUFFICES ASSUME BackupInv, [BackupNext]_backVars PROVE BackupInv'
    OBVIOUS
  <2>1. CASE BackupNext
    BY <2>1, BackupCopies, BackupArchives, BackupRestores DEF BackupNext
  <2>2. CASE UNCHANGED backVars
    BY <2>2 DEF backVars, BackupInv
  <2> QED BY <2>1, <2>2
<1>2. BackupInv => BackupSound
  <2> SUFFICES ASSUME BackupInv PROVE BackupSound
    OBVIOUS
  <2>1. DOMAIN archive.files \intersect SecretFiles = {}
    <3>1. DOMAIN archive.files \subseteq Discovered
      BY EntriesOf DEF BackupInv
    <3> QED BY <3>1 DEF Discovered
  <2> QED BY <2>1 DEF BackupInv, BackupSound, StoreVersions
<1> QED BY BackupStarts, <1>1, <1>2, PTL DEF BackupSpec

\* Whatever the users, the clock, the disk and the gateway's own deaths do to what it keeps,
\* each store keeps what StoresSound promises of it.
THEOREM StoresAlways ==
    MemorySpec /\ RagSpec /\ FeedbackSpec /\ UsageSpec /\ AuditSpec /\ BackupSpec => []StoresSound
<1>1. /\ MemorySound /\ IndexWhole /\ ChunksCover /\ RatingsBounded
      /\ RowsSound /\ ReportsAddUp /\ AuditSound /\ BackupSound
      => StoresSound
  BY DEF StoresSound, KnowledgeSound, LedgerSound
<1> QED
  BY MemoryAlways, IndexAlwaysWhole, ChunksAlwaysCover, RatingsAlways, LedgerAlwaysAdds,
     AuditAlways, BackupAlways, <1>1, PTL
=============================================================================
