---------------------------- MODULE Selections ----------------------------
(***************************************************************************)
(* Taking some of the elements of a sequence, in their order, as the list  *)
(* comprehensions of the code do.  SelectSeq does the same; here it is     *)
(* said by the places of the elements, with the facts the proofs need.     *)
(***************************************************************************)
EXTENDS Integers, Sequences, FiniteSets, FiniteSetTheorems, TLAPS

\* How many of the places I are before i
Earlier(I, i) == Cardinality({k \in I : k < i})

\* The j-th of the places I
NthPlace(I, j) == CHOOSE i \in I : Earlier(I, i) = j - 1

\* The elements of s at the places I, in order
Picked(s, I) == [j \in 1..Cardinality(I) |-> s[NthPlace(I, j)]]

-----------------------------------------------------------------------------
\* A place has fewer before it than there are, and fewer than a later one has.
LEMMA EarlierOK ==
    ASSUME NEW I, IsFiniteSet(I), I \subseteq Int, NEW i \in I
    PROVE  /\ Earlier(I, i) \in Nat /\ Earlier(I, i) < Cardinality(I)
           /\ \A k \in I : i < k => Earlier(I, i) < Earlier(I, k)
<1> DEFINE Before(k) == {x \in I : x < k}
<1>1. ASSUME NEW k, NEW S, S \in SUBSET I, Before(k) \in SUBSET S, k \in S, k \in Int
      PROVE  Earlier(I, k) \in Nat /\ Cardinality(S) \in Nat /\ Earlier(I, k) < Cardinality(S)
  <2>1. IsFiniteSet(S) /\ Cardinality(S) \in Nat
    BY <1>1, FS_Subset, FS_CardinalityType
  <2>2. S \ {k} \in SUBSET S /\ IsFiniteSet(S \ {k}) /\ Cardinality(S \ {k}) = Cardinality(S) - 1
    BY <1>1, <2>1, FS_RemoveElement
  <2>3. Before(k) \in SUBSET (S \ {k})
    BY <1>1
  <2>4. /\ IsFiniteSet(Before(k)) /\ Cardinality(Before(k)) \in Nat
        /\ Cardinality(Before(k)) <= Cardinality(S \ {k})
    BY <2>2, <2>3, FS_Subset, FS_CardinalityType
  <2>5. Earlier(I, k) = Cardinality(Before(k))
    BY DEF Earlier
  <2> HIDE DEF Before
  <2> QED
    BY <2>1, <2>2, <2>4, <2>5
<1>2. Earlier(I, i) \in Nat /\ Earlier(I, i) < Cardinality(I)
  BY <1>1
<1>3. ASSUME NEW k \in I, i < k PROVE Earlier(I, i) < Earlier(I, k)
  <2>0. i \in Int /\ k \in Int /\ \A x \in I : x \in Int
    OBVIOUS
  <2>1. Before(k) \in SUBSET I /\ Before(i) \in SUBSET Before(k) /\ i \in Before(k) /\ i \in Int
    <3>1. ASSUME NEW x \in Before(i) PROVE x \in Before(k)
      BY <1>3, <2>0
    <3> QED
      BY <1>3, <2>0, <3>1
  <2>2. Earlier(I, i) < Cardinality(Before(k))
    BY <1>1, <2>1
  <2> QED
    BY <2>2 DEF Earlier
<1> QED
  BY <1>2, <1>3

\* There is one j-th place for each j.
LEMMA NthPlaceOK ==
    ASSUME NEW I, IsFiniteSet(I), I \subseteq Int
    PROVE  /\ Cardinality(I) \in Nat
           /\ \A j \in 1..Cardinality(I) : NthPlace(I, j) \in I /\ Earlier(I, NthPlace(I, j)) = j - 1
           /\ \A i \in I : Earlier(I, i) + 1 \in 1..Cardinality(I) /\ NthPlace(I, Earlier(I, i) + 1) = i
           /\ \A j, k \in 1..Cardinality(I) : j < k => NthPlace(I, j) < NthPlace(I, k)
<1> DEFINE n == Cardinality(I)
           r == [i \in I |-> Earlier(I, i)]
<1>1. n \in Nat
  BY FS_CardinalityType
<1>2. \A i \in I : Earlier(I, i) \in 0..(n - 1)
  <2> SUFFICES ASSUME NEW i \in I PROVE Earlier(I, i) \in 0..(n - 1)
    OBVIOUS
  <2>1. Earlier(I, i) \in Nat /\ Earlier(I, i) < n
    BY EarlierOK
  <2> HIDE DEF n
  <2> QED
    BY <1>1, <2>1
<1>3. \A i, k \in I : Earlier(I, i) = Earlier(I, k) => i = k
  <2> SUFFICES ASSUME NEW i \in I, NEW k \in I, Earlier(I, i) = Earlier(I, k), i # k PROVE FALSE
    OBVIOUS
  <2>1. Earlier(I, i) \in Nat /\ Earlier(I, k) \in Nat /\ i \in Int /\ k \in Int
    BY EarlierOK
  <2>2. i < k \/ k < i
    BY <2>1
  <2>3. Earlier(I, i) < Earlier(I, k) \/ Earlier(I, k) < Earlier(I, i)
    BY <2>2, EarlierOK
  <2> QED
    BY <2>1, <2>3
<1>4. IsFiniteSet(0..(n - 1)) /\ Cardinality(0..(n - 1)) = n
  BY <1>1, FS_Interval
<1>5. r \in Injection(I, 0..(n - 1))
  BY <1>2, <1>3 DEF Injection, IsInjective
<1>6. r \in Surjection(I, 0..(n - 1))
  BY <1>4, <1>5, FS_Injection
<1>7. \A m \in 0..(n - 1) : \E i \in I : Earlier(I, i) = m
  BY <1>6 DEF Surjection
<1> HIDE DEF n
<1>8. ASSUME NEW j \in 1..n PROVE NthPlace(I, j) \in I /\ Earlier(I, NthPlace(I, j)) = j - 1
  <2>1. j - 1 \in 0..(n - 1)
    BY <1>1
  <2>2. \E i \in I : Earlier(I, i) = j - 1
    BY <1>7, <2>1
  <2> QED
    BY <2>2 DEF NthPlace
<1>9. ASSUME NEW i \in I PROVE Earlier(I, i) + 1 \in 1..n /\ NthPlace(I, Earlier(I, i) + 1) = i
  <2>1. PICK m \in 0..(n - 1) : m = Earlier(I, i)
    BY <1>2
  <2>2. PICK j \in 1..n : j = m + 1 /\ j - 1 = m
    BY <1>1
  <2>3. NthPlace(I, j) \in I /\ Earlier(I, NthPlace(I, j)) = Earlier(I, i)
    BY <1>8, <2>1, <2>2
  <2>4. NthPlace(I, j) = i
    BY <1>3, <2>3
  <2> QED
    BY <2>1, <2>2, <2>4
<1>10. ASSUME NEW j \in 1..n, NEW k \in 1..n, j < k PROVE NthPlace(I, j) < NthPlace(I, k)
  <2> DEFINE x == NthPlace(I, j)
             y == NthPlace(I, k)
  <2>1. x \in I /\ y \in I /\ Earlier(I, x) = j - 1 /\ Earlier(I, y) = k - 1
    BY <1>8
  <2> HIDE DEF x, y
  <2>2. x \in Int /\ y \in Int /\ Earlier(I, x) < Earlier(I, y)
    BY <1>10, <2>1
  <2>3. ~(y < x) /\ x # y
    <3>1. y < x => Earlier(I, y) < Earlier(I, x)
      BY <2>1, EarlierOK
    <3>2. Earlier(I, x) \in Nat /\ Earlier(I, y) \in Nat
      BY <2>1, EarlierOK
    <3> QED
      BY <2>2, <3>1, <3>2
  <2>4. x < y
    BY <2>2, <2>3
  <2> QED
    BY <2>4 DEF x, y
<1> QED
  BY <1>1, <1>8, <1>9, <1>10 DEF n

\* What is picked is a sequence of the elements at the places, each of them there.
LEMMA PickedOK ==
    ASSUME NEW s, NEW I, IsFiniteSet(I), I \subseteq Int
    PROVE  /\ Picked(s, I) \in Seq({s[i] : i \in I})
           /\ Len(Picked(s, I)) = Cardinality(I) /\ Cardinality(I) \in Nat
           /\ DOMAIN Picked(s, I) = 1..Cardinality(I)
           /\ \A j \in 1..Cardinality(I) : NthPlace(I, j) \in I /\ Picked(s, I)[j] = s[NthPlace(I, j)]
           /\ \A i \in I : \E j \in 1..Cardinality(I) : NthPlace(I, j) = i /\ Picked(s, I)[j] = s[i]
<1> DEFINE n == Cardinality(I)
           p == Picked(s, I)
<1>1. /\ n \in Nat /\ \A j \in 1..n : NthPlace(I, j) \in I
      /\ \A i \in I : Earlier(I, i) + 1 \in 1..n /\ NthPlace(I, Earlier(I, i) + 1) = i
  BY NthPlaceOK
<1> HIDE DEF n
<1>2. p = [j \in 1..n |-> s[NthPlace(I, j)]]
  BY DEF Picked, n
<1>3. p \in [1..n -> {s[i] : i \in I}]
  BY <1>1, <1>2
<1>4. p \in Seq({s[i] : i \in I}) /\ Len(p) = n /\ DOMAIN p = 1..n
  BY <1>1, <1>3
<1>5. \A j \in 1..n : p[j] = s[NthPlace(I, j)]
  BY <1>2
<1> QED
  BY <1>1, <1>4, <1>5 DEF n

\* What is picked, as a set.
LEMMA PickedRange ==
    ASSUME NEW s, NEW I, IsFiniteSet(I), I \subseteq Int
    PROVE  {Picked(s, I)[j] : j \in DOMAIN Picked(s, I)} = {s[i] : i \in I}
<1> DEFINE n == Cardinality(I)
<1>1. /\ n \in Nat /\ \A j \in 1..n : NthPlace(I, j) \in I
      /\ \A i \in I : Earlier(I, i) + 1 \in 1..n /\ NthPlace(I, Earlier(I, i) + 1) = i
  BY NthPlaceOK
<1> HIDE DEF n
<1>2. PICK p : p = Picked(s, I) /\ p = [j \in 1..n |-> s[NthPlace(I, j)]]
  BY DEF Picked, n
<1>3. DOMAIN p = 1..n /\ \A j \in 1..n : p[j] = s[NthPlace(I, j)]
  BY <1>2
<1>4. ASSUME NEW j \in DOMAIN p PROVE \E i \in I : p[j] = s[i]
  BY <1>1, <1>3
<1>5. ASSUME NEW i \in I PROVE \E j \in DOMAIN p : p[j] = s[i]
  <2>1. PICK j \in 1..n : NthPlace(I, j) = i
    BY <1>1
  <2> QED
    BY <1>3, <2>1
<1>6. {p[j] : j \in DOMAIN p} = {s[i] : i \in I}
  <2>1. ASSUME NEW x \in {p[j] : j \in DOMAIN p} PROVE x \in {s[i] : i \in I}
    <3>1. PICK j \in DOMAIN p : x = p[j]
      OBVIOUS
    <3>2. PICK i \in I : p[j] = s[i]
      BY <1>4
    <3> QED
      BY <3>1, <3>2
  <2>2. ASSUME NEW x \in {s[i] : i \in I} PROVE x \in {p[j] : j \in DOMAIN p}
    <3>1. PICK i \in I : x = s[i]
      OBVIOUS
    <3>2. PICK j \in DOMAIN p : p[j] = s[i]
      BY <1>5
    <3> QED
      BY <3>1, <3>2
  <2> QED
    BY <2>1, <2>2
<1>7. p = Picked(s, I)
  BY <1>2
<1> QED
  BY <1>6, <1>7, Zenon

\* What is picked from elements of S is a sequence of them.
LEMMA PickedFrom ==
    ASSUME NEW S, NEW s, NEW I, IsFiniteSet(I), I \subseteq Int, \A i \in I : s[i] \in S
    PROVE  Picked(s, I) \in Seq(S)
<1> DEFINE n == Cardinality(I)
<1>1. n \in Nat /\ \A j \in 1..n : NthPlace(I, j) \in I
  BY NthPlaceOK
<1> HIDE DEF n
<1>2. Picked(s, I) = [j \in 1..n |-> s[NthPlace(I, j)]]
  BY DEF Picked, n
<1>3. Picked(s, I) \in [1..n -> S]
  BY <1>1, <1>2
<1> QED
  BY <1>1, <1>3

\* The first of the places I
LEMMA FirstPlace ==
    ASSUME NEW I, IsFiniteSet(I), I \subseteq Int, I # {}
    PROVE  \E c \in I : \A i \in I : c <= i
<1>1. /\ Cardinality(I) \in Nat
      /\ \A j \in 1..Cardinality(I) : NthPlace(I, j) \in I
      /\ \A i \in I : Earlier(I, i) + 1 \in 1..Cardinality(I) /\ NthPlace(I, Earlier(I, i) + 1) = i
      /\ \A j, k \in 1..Cardinality(I) : j < k => NthPlace(I, j) < NthPlace(I, k)
  BY NthPlaceOK
<1>2. Cardinality(I) # 0
  BY FS_EmptySet
<1>3. 1 \in 1..Cardinality(I)
  BY <1>1, <1>2
<1>4. ASSUME NEW i \in I PROVE NthPlace(I, 1) <= i
  <2>1. PICK j \in 1..Cardinality(I) : NthPlace(I, j) = i
    BY <1>1
  <2>2. NthPlace(I, 1) \in Int /\ i \in Int
    BY <1>1, <1>3
  <2>3. CASE j = 1
    BY <2>1, <2>2, <2>3
  <2>4. CASE j # 1
    <3>1. 1 < j
      BY <1>1, <2>4
    <3>2. NthPlace(I, 1) < NthPlace(I, j)
      BY <1>1, <1>3, <3>1
    <3> QED
      BY <2>1, <2>2, <3>2
  <2> QED
    BY <2>3, <2>4
<1> QED
  BY <1>1, <1>3, <1>4

\* Picking all places from one on leaves the end of the sequence.
LEMMA PickedEnd ==
    ASSUME NEW s, NEW n \in Nat, NEW m \in 0..n
    PROVE  /\ Picked(s, (m + 1)..n) = [j \in 1..(n - m) |-> s[m + j]]
<1> DEFINE I == (m + 1)..n
<1>1. IsFiniteSet(I) /\ Cardinality(I) = n - m /\ I \subseteq Int
  <2>1. m + 1 \in Int /\ n \in Int
    OBVIOUS
  <2>2. IsFiniteSet(I) /\ Cardinality(I) = IF m + 1 > n THEN 0 ELSE n - (m + 1) + 1
    BY <2>1, FS_Interval
  <2> QED
    BY <2>2
<1>2. ASSUME NEW j \in 1..(n - m) PROVE NthPlace(I, j) = m + j
  <2>1. m + j \in I
    OBVIOUS
  <2>2. {k \in I : k < m + j} = (m + 1)..(m + j - 1)
    OBVIOUS
  <2>3. Earlier(I, m + j) = j - 1
    <3>1. Cardinality((m + 1)..(m + j - 1)) = j - 1
      <4>1. m + 1 \in Int /\ m + j - 1 \in Int /\ j \in Nat
        OBVIOUS
      <4>2. Cardinality((m + 1)..(m + j - 1)) = IF m + 1 > m + j - 1 THEN 0 ELSE (m + j - 1) - (m + 1) + 1
        BY <4>1, FS_Interval
      <4> QED
        BY <4>1, <4>2
    <3> QED
      BY <2>2, <3>1 DEF Earlier
  <2> HIDE DEF I
  <2>4. NthPlace(I, Earlier(I, m + j) + 1) = m + j
    BY <1>1, <2>1, NthPlaceOK
  <2> QED
    BY <2>3, <2>4
<1> HIDE DEF I
<1>3. Picked(s, I) = [j \in 1..(n - m) |-> s[NthPlace(I, j)]]
  BY <1>1 DEF Picked
<1>4. Picked(s, I) = [j \in 1..(n - m) |-> s[m + j]]
  BY <1>2, <1>3
<1> QED
  BY <1>4 DEF I

\* Places with all the later ones among them are the last ones.
LEMMA LastPlaces ==
    ASSUME NEW n \in Nat, NEW I \in SUBSET (1..n), \A i \in I, j \in 1..n : i <= j => j \in I
    PROVE  \E m \in 0..n : I = (m + 1)..n
<1>1. I \subseteq Int /\ IsFiniteSet(I)
  <2>1. IsFiniteSet(1..n)
    BY FS_Interval
  <2>2. I \subseteq Int /\ I \subseteq 1..n
    OBVIOUS
  <2> QED
    BY <2>1, <2>2, FS_Subset
<1>2. CASE I = {}
  <2>1. n \in 0..n /\ (n + 1)..n = {}
    OBVIOUS
  <2> QED
    BY <1>2, <2>1
<1>3. CASE I # {}
  <2>1. PICK c \in I : \A i \in I : c <= i
    BY <1>1, <1>3, FirstPlace
  <2>2. c \in 1..n /\ c - 1 \in 0..n /\ (c - 1) + 1 = c
    OBVIOUS
  <2>3. ASSUME NEW i \in I PROVE i \in c..n
    BY <2>1, <2>2
  <2>4. ASSUME NEW i \in c..n PROVE i \in I
    <3>1. c <= i /\ i \in 1..n
      BY <2>2
    <3> QED
      BY <3>1
  <2>5. I = c..n
    BY <2>3, <2>4
  <2> QED
    BY <2>2, <2>5
<1> QED
  BY <1>2, <1>3

\* Picking all places of a sequence leaves it as it is.
LEMMA PickedAll ==
    ASSUME NEW S, NEW s \in Seq(S)
    PROVE  Picked(s, 1..Len(s)) = s
<1>1. PICK n \in Nat : n = Len(s)
  OBVIOUS
<1>2. PICK m \in 0..n : m = 0
  OBVIOUS
<1>3. Picked(s, (m + 1)..n) = [j \in 1..(n - m) |-> s[m + j]]
  BY PickedEnd
<1>4. (m + 1)..n = 1..n /\ 1..(n - m) = 1..n /\ \A j \in 1..n : m + j = j
  BY <1>2
<1>5. [j \in 1..(n - m) |-> s[m + j]] = [j \in 1..n |-> s[j]]
  BY <1>4
<1>6. s = [j \in 1..n |-> s[j]]
  BY <1>1
<1> QED
  BY <1>1, <1>3, <1>4, <1>5, <1>6

\* Sequence p has the elements of s at the places I, each once, and is all of s
\* when they are as many.
PartOf(p, s, I) ==
    /\ Len(p) \in Nat /\ Len(p) <= Len(s)
    /\ Len(p) = Len(s) => p = s /\ I = 1..Len(s)
    /\ \A j \in 1..Len(p) : \E i \in I : p[j] = s[i]
    /\ \A i \in I : \E j \in 1..Len(p) : p[j] = s[i]
    /\ \A j, l \in 1..Len(p) : j # l => \E i, m \in I : i # m /\ p[j] = s[i] /\ p[l] = s[m]

\* What is picked of a sequence is part of it.
LEMMA PickedPart ==
    ASSUME NEW S, NEW s \in Seq(S), NEW I \in SUBSET (1..Len(s))
    PROVE  Picked(s, I) \in Seq(S) /\ PartOf(Picked(s, I), s, I)
<1> DEFINE p == Picked(s, I)
<1>1. PICK n \in Nat : n = Len(s)
  OBVIOUS
<1>2. IsFiniteSet(1..n) /\ Cardinality(1..n) = n
  BY FS_Interval
<1>3. I \subseteq 1..n /\ I \subseteq Int /\ IsFiniteSet(I)
  <2>1. I \subseteq 1..n /\ I \subseteq Int
    BY <1>1
  <2> QED
    BY <1>2, <2>1, FS_Subset
<1>4. PICK c \in Nat : c = Cardinality(I)
  BY <1>3, FS_CardinalityType
<1>5. c <= n /\ (c = n => I = 1..n)
  BY <1>2, <1>3, <1>4, FS_Subset
<1>6. /\ \A j \in 1..c : NthPlace(I, j) \in I
      /\ \A i \in I : Earlier(I, i) + 1 \in 1..c /\ NthPlace(I, Earlier(I, i) + 1) = i
      /\ \A j, l \in 1..c : j < l => NthPlace(I, j) < NthPlace(I, l)
  BY <1>3, <1>4, NthPlaceOK
<1>7. p = [j \in 1..c |-> s[NthPlace(I, j)]]
  BY <1>4 DEF Picked
<1>70. p = Picked(s, I)
  OBVIOUS
<1> HIDE DEF p
<1>8. p \in Seq(S)
  <2>1. \A i \in I : s[i] \in S
    BY <1>1, <1>3
  <2> QED
    BY <1>3, <1>70, <2>1, PickedFrom
<1>9. Len(p) = c /\ \A j \in 1..c : p[j] = s[NthPlace(I, j)]
  BY <1>7, <1>8
<1>10. c = n => p = s
  <2>1. SUFFICES ASSUME c = n PROVE p = s
    OBVIOUS
  <2> QED
    BY <1>1, <1>5, <1>70, <2>1, PickedAll
<1>11. \A i \in I : \E j \in 1..c : p[j] = s[i]
  BY <1>6, <1>9
<1>12. ASSUME NEW j \in 1..c, NEW l \in 1..c, j # l
       PROVE  \E i, m \in I : i # m /\ p[j] = s[i] /\ p[l] = s[m]
  <2>1. PICK i \in I : i = NthPlace(I, j)
    BY <1>6
  <2>2. PICK m \in I : m = NthPlace(I, l)
    BY <1>6
  <2>3. i < m \/ m < i
    BY <1>6, <1>12, <2>1, <2>2
  <2>4. i # m
    BY <1>3, <2>3
  <2> QED
    BY <1>9, <2>1, <2>2, <2>4
<1>13. /\ Len(p) \in Nat /\ Len(p) <= Len(s)
       /\ Len(p) = Len(s) => p = s /\ I = 1..Len(s)
  BY <1>1, <1>5, <1>9, <1>10
<1>14. \A j \in 1..Len(p) : \E i \in I : p[j] = s[i]
  BY <1>6, <1>9
<1>15. \A i \in I : \E j \in 1..Len(p) : p[j] = s[i]
  BY <1>9, <1>11
<1>16. \A j, l \in 1..Len(p) : j # l => \E i, m \in I : i # m /\ p[j] = s[i] /\ p[l] = s[m]
  BY <1>9, <1>12
<1> QED
  BY <1>8, <1>70, <1>13, <1>14, <1>15, <1>16 DEF PartOf

=============================================================================
