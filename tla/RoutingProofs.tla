--------------------------- MODULE RoutingProofs ---------------------------
(***************************************************************************)
(* Theorems about the router, for any number of providers, requests, slots,*)
(* attempts and registrations, and with or without hedging.                *)
(***************************************************************************)
EXTENDS RoutingBreakers, FiniteSetTheorems, SequenceTheorems, WellFoundedInduction, TLAPS

Pair == [1..2 -> Leg]
Trials == [Providers -> {"no", "called", "refused"}]

\* TypeOK but for what is inside a breaker, which BreakerOps answers for.
RoutingTypes ==
    /\ present \in [Providers -> BOOLEAN]
    /\ regs \in [Providers -> 0..MaxRegs]
    /\ DOMAIN breaker = Providers
    /\ active \in [Providers -> 0..Concurrent]
    /\ req \in [Requests -> Req]
    /\ legs \in [Requests -> Pair]
    /\ tried \in [Requests -> Trials]

-----------------------------------------------------------------------------
\* One request: q its record, ls its legs, tr what it tried; R counts the
\* registrations.

\* The candidate loop is at one of the plan's providers.
InLoop(q) == q.at \in {"calling", "hedge_wait", "racing", "streaming"}

\* A leg calls a provider that is or was registered.
LegOK(l, R) ==
    /\ l.at = "none" => l = NoLeg
    /\ l.at # "none" => l.prov \in Providers /\ 1 <= l.reg /\ l.reg <= R[l.prov]
    /\ l.at = "failed" => l.err \in ErrorKind
    /\ l.at = "backoff" => l.tries < l.max

\* The plan's providers before index n were tried, the ones to skip as well, and
\* no other was called.
TriedTo(q, tr, n) ==
    /\ \A k \in 1..Len(q.plan) : k < n => tr[q.plan[k]] # "no"
    /\ \A p \in q.skip : tr[p] # "no"
    /\ \A p \in Providers : tr[p] = "called" =>
          p \in q.skip \/ \E k \in 1..Len(q.plan) : k < n /\ q.plan[k] = p

PlanOK(q, tr) ==
    /\ \A j, k \in 1..Len(q.plan) : q.plan[j] = q.plan[k] => j = k
    /\ q.at = "new" => q.plan = << >>
    /\ q.at \in {"new", "planned"} => TriedTo(q, tr, 1)
    /\ InLoop(q) => q.ix \in 1..Len(q.plan) /\ TriedTo(q, tr, q.ix + 1)
    /\ q.at = "hedge_wait" => q.ix < Len(q.plan) /\ q.plan[q.ix + 1] \notin q.skip
    /\ q.at = "racing" => q.ix < Len(q.plan)
    /\ q.at = "done" /\ q.result = "unavailable" => \A p \in ToSet(q.plan) : tr[p] # "no"

\* Which legs a request has, where it is.
LegsOK(r, q, ls) ==
    /\ q.at \in {"new", "planned", "saving"} => ls[1] = NoLeg /\ ls[2] = NoLeg
    /\ q.at # "racing" => ls[2] = NoLeg
    /\ InLoop(q) => ls[1].at # "none" /\ ls[1].prov = q.plan[q.ix]
    /\ q.at = "racing" => ls[2].at # "none" /\ ls[2].prov = q.plan[q.ix + 1]
    /\ q.at = "calling" => ls[1].at \notin {"ok", "failed"}
    /\ q.at = "streaming" => r \in Streams /\ ls[1].at = "call"
    /\ q.at = "saving" => q.by \in Providers
    /\ q.at \in {"hedge_wait", "racing"} => r \in Routes
    /\ \A i \in 1..2 : ls[i].at = "embed" => r \in Embeds /\ q.at = "calling"
    /\ r \in Embeds => ls[1].at \in {"none", "embed"}
    /\ q.at = "done" => ls[1].at \notin {"ok", "failed"}
    /\ q.at = "done" /\ q.result \notin {"cancelled", "gone"} => ls[1] = NoLeg

ReqOK(r, q, ls, tr, R) ==
    /\ LegOK(ls[1], R) /\ LegOK(ls[2], R)
    /\ PlanOK(q, tr)
    /\ LegsOK(r, q, ls)

-----------------------------------------------------------------------------
\* Slots

\* Leg l has a slot of a limiter of p.
Has(l, p) == HasSlot(l) /\ l.prov = p
Slots(l, p) == IF Has(l, p) THEN 1 ELSE 0

Held(L, p) == {x \in LegIds : Has(L[x[1]][x[2]], p)}
Others(L, r, p) == {x \in LegIds : x[1] # r /\ Has(L[x[1]][x[2]], p)}

\* SlotsMatch without the question which limiter a leg captured: all of them
\* captured the first.
SlotsCounted ==
    \A p \in Providers : present[p] /\ regs[p] = 1 => active[p] = Cardinality(Held(legs, p))

RoutingInv ==
    /\ RoutingTypes
    /\ \A p \in Providers : present[p] => regs[p] >= 1
    /\ \A r \in Requests : ReqOK(r, req[r], legs[r], tried[r], regs)
    /\ SlotsCounted

\* The slots held are those of the other requests and those of r's legs.
LEMMA HeldSplit ==
    ASSUME NEW L \in [Requests -> Pair], NEW r \in Requests, NEW p
    PROVE  /\ Cardinality(Others(L, r, p)) \in Nat
           /\ Cardinality(Held(L, p)) =
                 Cardinality(Others(L, r, p)) + Slots(L[r][1], p) + Slots(L[r][2], p)
<1> DEFINE rest == {x \in LegIds : x[1] # r /\ Has(L[x[1]][x[2]], p)}
           one == IF Has(L[r][1], p) THEN rest \cup {<<r, 1>>} ELSE rest
           two == IF Has(L[r][2], p) THEN one \cup {<<r, 2>>} ELSE one
<1>1. IsFiniteSet(LegIds)
  <2>1. IsFiniteSet(Requests)
    BY RoutingAssumption
  <2>2. IsFiniteSet(1..2)
    <3>1. PICK m, n \in Int : m = 1 /\ n = 2
      OBVIOUS
    <3>2. IsFiniteSet(m..n)
      BY FS_Interval
    <3> QED
      BY <3>1, <3>2
  <2> QED
    BY <2>1, <2>2, FS_Product DEF LegIds
<1>2. IsFiniteSet(rest) /\ Cardinality(rest) \in Nat
  BY <1>1, FS_Subset, FS_CardinalityType
<1>3. <<r, 1>> \notin rest /\ <<r, 2>> \notin rest
  OBVIOUS
<1>4. IsFiniteSet(one) /\ Cardinality(one) = Cardinality(rest) + Slots(L[r][1], p)
  <2> HIDE DEF rest
  <2>1. CASE Has(L[r][1], p)
    BY <1>2, <1>3, <2>1, FS_AddElement DEF Slots
  <2>2. CASE ~Has(L[r][1], p)
    BY <1>2, <2>2 DEF Slots
  <2> QED
    BY <2>1, <2>2
<1>5. <<r, 2>> \notin one
  BY <1>3
<1>6. Cardinality(two) = Cardinality(one) + Slots(L[r][2], p)
  <2>1. CASE Has(L[r][2], p)
    <3>1. two = one \cup {<<r, 2>>}
      BY <2>1
    <3> HIDE DEF one, two
    <3> QED
      BY <1>4, <1>5, <2>1, <3>1, FS_AddElement DEF Slots
  <2>2. CASE ~Has(L[r][2], p)
    <3>1. Cardinality(one) \in Nat
      BY <1>4, FS_CardinalityType
    <3> QED
      BY <2>2, <3>1 DEF Slots
  <2> QED
    BY <2>1, <2>2
<1>7. Held(L, p) = two
  <2>1. ASSUME NEW x \in LegIds, x[1] = r PROVE x = <<r, 1>> \/ x = <<r, 2>>
    BY <2>1 DEF LegIds
  <2>2. ASSUME NEW x \in LegIds, Has(L[x[1]][x[2]], p) PROVE x \in two
    <3>1. CASE x[1] # r
      BY <2>2, <3>1
    <3>2. CASE x[1] = r
      BY <2>1, <2>2, <3>2
    <3> QED
      BY <3>1, <3>2
  <2>3. ASSUME NEW x \in two PROVE x \in LegIds /\ Has(L[x[1]][x[2]], p)
    <3>1. CASE x \in rest
      BY <3>1
    <3>2. CASE x = <<r, 1>> /\ Has(L[r][1], p)
      BY <3>2 DEF LegIds
    <3>3. CASE x = <<r, 2>> /\ Has(L[r][2], p)
      BY <3>3 DEF LegIds
    <3> QED
      BY <2>3, <3>1, <3>2, <3>3
  <2> HIDE DEF two
  <2> QED
    BY <2>2, <2>3 DEF Held
<1> HIDE DEF one, two, rest
<1>8. Cardinality(Held(L, p)) = Cardinality(rest) + Slots(L[r][1], p) + Slots(L[r][2], p)
  BY <1>2, <1>4, <1>6, <1>7 DEF Slots
<1> QED
  BY <1>2, <1>8 DEF rest, Others

\* The slots of r's legs and the count of active requests change together.
Balanced(r) ==
    \A p \in Providers : present[p] /\ regs[p] = 1 =>
        active'[p] + Slots(legs[r][1], p) + Slots(legs[r][2], p)
            = active[p] + Slots(legs'[r][1], p) + Slots(legs'[r][2], p)

-----------------------------------------------------------------------------
\* A step of request r.

\* What AttemptsAllowed says of it.
AttemptsOf(r) ==
    \A i \in 1..2 :
        /\ Begins(r, i) => tried[r][legs'[r][i].prov] # "called"
        /\ legs'[r][i].at = "call" /\ legs[r][i].tries < legs'[r][i].tries => req[r].left > 0

\* It changes this request alone, and leaves it as it should be.
Moves(r) ==
    /\ req' = [req EXCEPT ![r] = req'[r]] /\ req'[r] \in Req
    /\ legs' = [legs EXCEPT ![r] = legs'[r]] /\ legs'[r] \in Pair
    /\ tried' = [tried EXCEPT ![r] = tried'[r]] /\ tried'[r] \in Trials
    /\ ReqOK(r, req'[r], legs'[r], tried'[r], regs)
    /\ AttemptsOf(r)
    /\ DOMAIN breaker' = Providers

Keeps(r) ==
    /\ UNCHANGED registry
    /\ active' \in [Providers -> 0..Concurrent]
    /\ Moves(r)
    /\ Balanced(r)

LEMMA RequestStep ==
    ASSUME RoutingInv, NEW r \in Requests, Keeps(r)
    PROVE  RoutingInv' /\ \A s \in Requests : AttemptsOf(s)
<1> USE DEF Keeps, Moves
<1>1. RoutingTypes'
  BY DEF RoutingInv, RoutingTypes, registry
<1>2. ASSUME NEW s \in Requests, s # r
      PROVE  req'[s] = req[s] /\ legs'[s] = legs[s] /\ tried'[s] = tried[s]
  BY <1>2 DEF RoutingInv, RoutingTypes
<1>3. \A s \in Requests : ReqOK(s, req'[s], legs'[s], tried'[s], regs')
  <2>1. regs' = regs
    BY DEF registry
  <2> QED
    BY <1>2, <2>1 DEF RoutingInv
<1>4. \A s \in Requests : AttemptsOf(s)
  <2> SUFFICES ASSUME NEW s \in Requests, s # r PROVE AttemptsOf(s)
    OBVIOUS
  <2>1. legs[s] \in Pair
    BY DEF RoutingInv, RoutingTypes
  <2>2. \A i \in 1..2 : legs'[s][i] = legs[s][i] /\ legs[s][i].tries \in 0..MaxAttempts
    BY <1>2, <2>1 DEF Pair, Leg
  <2>3. \A n \in 0..MaxAttempts : ~(n < n)
    OBVIOUS
  <2> QED
    BY <1>2, <2>2, <2>3 DEF AttemptsOf, Begins
<1>5. SlotsCounted'
  <2> SUFFICES ASSUME NEW p \in Providers, present'[p], regs'[p] = 1
               PROVE  active'[p] = Cardinality(Held(legs', p))
    BY DEF SlotsCounted
  <2>1. present[p] /\ regs[p] = 1 /\ active[p] = Cardinality(Held(legs, p))
    BY DEF RoutingInv, SlotsCounted, registry
  <2>2. legs \in [Requests -> Pair] /\ legs' \in [Requests -> Pair]
    BY <1>1 DEF RoutingInv, RoutingTypes
  <2>3. Others(legs, r, p) = Others(legs', r, p)
    BY <1>2 DEF LegIds, Others
  <2>4. /\ Cardinality(Others(legs, r, p)) \in Nat
        /\ Cardinality(Held(legs, p)) =
              Cardinality(Others(legs, r, p)) + Slots(legs[r][1], p) + Slots(legs[r][2], p)
    BY <2>2, HeldSplit
  <2>5. Cardinality(Held(legs', p)) =
              Cardinality(Others(legs', r, p)) + Slots(legs'[r][1], p) + Slots(legs'[r][2], p)
    BY <2>2, HeldSplit
  <2>6. active'[p] + Slots(legs[r][1], p) + Slots(legs[r][2], p)
          = active[p] + Slots(legs'[r][1], p) + Slots(legs'[r][2], p)
    BY <2>1 DEF Balanced
  <2>7. active'[p] \in Nat
    BY DEF RoutingInv, RoutingTypes
  <2> QED
    BY <2>1, <2>3, <2>4, <2>5, <2>6, <2>7 DEF Slots
<1> QED
  BY <1>1, <1>3, <1>4, <1>5 DEF RoutingInv, registry

\* No leg has a slot yet, or any active request.
LEMMA RoutingStart == Init => RoutingInv
<1> SUFFICES ASSUME Init PROVE RoutingInv
  OBVIOUS
<1> USE DEF Init
<1>1. NewReq \in Req /\ NoLeg \in Leg
  <2>1. << >> \in Seq(Providers)
    OBVIOUS
  <2>2. DeadlineTicks \in 0..DeadlineTicks /\ 0 \in 0..MaxAttempts /\ 0 \in 0..MaxRegs
    BY RoutingAssumption
  <2> QED
    BY <2>1, <2>2 DEF NewReq, NoLeg, Req, Leg, ReqAt, LegAt
<1>2. RoutingTypes
  <2>1. 0 \in 0..Concurrent /\ 0 \in 0..MaxRegs /\ 1 \in 0..MaxRegs
    BY RoutingAssumption
  <2> QED
    BY <1>1, <2>1 DEF RoutingTypes, Pair, Trials
<1>3. \A p \in Providers : present[p] => regs[p] >= 1
  OBVIOUS
<1>4. ASSUME NEW r \in Requests PROVE ReqOK(r, req[r], legs[r], tried[r], regs)
  <2>1. req[r] = NewReq /\ legs[r][1] = NoLeg /\ legs[r][2] = NoLeg
        /\ tried[r] = [p \in Providers |-> "no"]
    OBVIOUS
  <2>2. PlanOK(req[r], tried[r])
    BY <2>1 DEF PlanOK, NewReq, TriedTo, InLoop
  <2>3. LegsOK(r, req[r], legs[r])
    BY <2>1 DEF LegsOK, NewReq, NoLeg, InLoop
  <2> QED
    BY <2>1, <2>2, <2>3 DEF ReqOK, LegOK, NoLeg
<1>5. SlotsCounted
  <2>1. \A p \in Providers : Held(legs, p) = {}
    BY DEF Held, Has, HasSlot, NoLeg, LegIds
  <2> QED
    BY <2>1, FS_EmptySet DEF SlotsCounted
<1> QED
  BY <1>2, <1>3, <1>4, <1>5 DEF RoutingInv

\* Ending a request, whose legs are dropped or left as they are.
LEMMA EndMoves ==
    ASSUME RoutingInv, NEW r \in Requests, NEW o \in Outcome, Finish(r, o),
           NEW tr \in Trials, tried' = [tried EXCEPT ![r] = tr], DOMAIN breaker' = Providers,
           legs' = [legs EXCEPT ![r] = legs'[r]], legs'[r] \in Pair,
           legs'[r][1] \in {legs[r][1], NoLeg}, legs'[r][2] = NoLeg,
           legs'[r][1].at \notin {"ok", "failed", "embed"},
           o = "unavailable" => \A p \in ToSet(req[r].plan) : tr[p] # "no",
           o \notin {"cancelled", "gone"} => legs'[r][1] = NoLeg
    PROVE  Moves(r)
<1> DEFINE q == [req[r] EXCEPT !.at = "done", !.result = o]
<1>1. req[r] \in Req /\ tried[r] \in Trials /\ legs[r] \in Pair
      /\ ReqOK(r, req[r], legs[r], tried[r], regs)
  BY DEF RoutingInv, RoutingTypes
<1>2. q \in Req /\ q.at = "done" /\ q.result = o /\ q.plan = req[r].plan
      /\ q.skip = req[r].skip /\ q.ix = req[r].ix
  BY <1>1 DEF Req, ReqAt
<1>3. req' = [req EXCEPT ![r] = q] /\ req'[r] = q
  BY DEF Finish, RoutingInv, RoutingTypes
<1> HIDE DEF q
<1>4. tried'[r] = tr
  BY DEF RoutingInv, RoutingTypes
<1>5. PlanOK(q, tr)
  BY <1>1, <1>2 DEF PlanOK, ReqOK, InLoop
<1>6. LegsOK(r, q, legs'[r])
  BY <1>1, <1>2 DEF LegsOK, ReqOK, InLoop, NoLeg
<1>7. LegOK(legs'[r][1], regs) /\ LegOK(legs'[r][2], regs)
  BY <1>1 DEF ReqOK, LegOK, NoLeg
<1>8. AttemptsOf(r)
  <2>1. ASSUME NEW i \in 1..2 PROVE legs'[r][i] = legs[r][i] \/ legs'[r][i] = NoLeg
    OBVIOUS
  <2>2. ASSUME NEW i \in 1..2 PROVE legs[r][i].tries \in Nat
    BY <1>1 DEF Pair, Leg
  <2> QED
    BY <1>2, <1>3, <2>1, <2>2 DEF AttemptsOf, Begins, NoLeg
<1> QED
  BY <1>1, <1>2, <1>3, <1>4, <1>5, <1>6, <1>7, <1>8 DEF Moves, ReqOK

\* Leg i alone goes on, waits to be collected, or is over after its request.
LEMMA LegMoves ==
    ASSUME RoutingInv, NEW r \in Requests, NEW i \in 1..2, NEW l \in Leg,
           UNCHANGED <<req, tried>>, DOMAIN breaker' = Providers,
           legs' = [legs EXCEPT ![r][i] = l], LegOK(l, regs),
           legs[r][i].at \notin {"none", "embed"}, req[r].at # "streaming",
           \/ l = NoLeg /\ req[r].at = "done"
           \/ l.at \in {"admit", "call", "backoff"} /\ l.prov = legs[r][i].prov
           \/ l.at \in {"ok", "failed"} /\ l.prov = legs[r][i].prov
              /\ req[r].at \notin {"calling", "done"},
           l.at = "call" /\ legs[r][i].tries < l.tries => req[r].left > 0
    PROVE  Moves(r)
<1>1. req[r] \in Req /\ tried[r] \in Trials /\ legs[r] \in Pair
      /\ ReqOK(r, req[r], legs[r], tried[r], regs)
  BY DEF RoutingInv, RoutingTypes
<1>2. req' = [req EXCEPT ![r] = req'[r]] /\ tried' = [tried EXCEPT ![r] = tried'[r]]
  BY DEF RoutingInv, RoutingTypes
<1>3. /\ legs' = [legs EXCEPT ![r] = legs'[r]] /\ legs'[r] \in Pair
      /\ legs'[r][i] = l
      /\ \A k \in 1..2 : k # i => legs'[r][k] = legs[r][k]
  BY <1>1 DEF RoutingInv, RoutingTypes, Pair
<1>4. LegsOK(r, req[r], legs'[r])
  <2>1. LegsOK(r, req[r], legs[r])
    BY <1>1 DEF ReqOK
  <2>2. CASE i = 1
    <3>1. legs'[r][1] = l /\ legs'[r][2] = legs[r][2]
      BY <1>3, <2>2
    <3>2. r \notin Embeds
      BY <2>1, <2>2 DEF LegsOK
    <3> QED
      BY <2>1, <2>2, <3>1, <3>2 DEF LegsOK, NoLeg, InLoop
  <2>3. CASE i = 2
    <3>1. legs'[r][2] = l /\ legs'[r][1] = legs[r][1]
      BY <1>3, <2>3
    <3>2. req[r].at = "racing"
      BY <2>1, <2>3 DEF LegsOK, NoLeg
    <3> QED
      BY <2>1, <2>3, <3>1, <3>2 DEF LegsOK, NoLeg, InLoop
  <2> QED
    BY <2>2, <2>3
<1>5. LegOK(legs'[r][1], regs) /\ LegOK(legs'[r][2], regs)
  BY <1>1, <1>3 DEF ReqOK
<1>6. AttemptsOf(r)
  <2>1. \A k \in 1..2 : legs[r][k].tries \in Nat
    BY <1>1 DEF Pair, Leg
  <2>2. l.at \notin {"start", "embed"}
    BY DEF NoLeg
  <2> QED
    BY <1>3, <2>1, <2>2 DEF AttemptsOf, Begins
<1> QED
  BY <1>1, <1>2, <1>3, <1>4, <1>5, <1>6 DEF Moves, ReqOK

\* A set of indices that is not empty has a smallest one.
Less == {ss \in Nat \X Nat : ss[1] < ss[2]}

LEMMA NotLess ==
    ASSUME NEW x \in Nat, NEW y \in Nat, <<y, x>> \notin Less
    PROVE  x <= y
<1>1. <<y, x>> \in Nat \X Nat /\ <<y, x>>[1] = y /\ <<y, x>>[2] = x
  OBVIOUS
<1>2. ~(y < x)
  BY <1>1, Zenon DEF Less
<1> QED
  BY <1>2

LEMMA MinIsLeast ==
    ASSUME NEW S \in SUBSET Nat, S # {}
    PROVE  Min(S) \in S /\ \A y \in S : Min(S) <= y
<1>1. IsWellFoundedOn(Less, Nat)
  BY NatLessThanWellFounded DEF OpToRel, Less
<1>2. PICK x \in S : \A y \in S : ~(<<y, x>> \in Less)
  BY <1>1, WFMin
<1>3. \A y \in S : x <= y
  BY <1>2, NotLess
<1> QED
  BY <1>3 DEF Min

\* A leg that has just been made.
LEMMA NewLegOK ==
    ASSUME RoutingInv, NEW r \in Requests, NEW p \in Providers, present[p], NEW last \in BOOLEAN
    PROVE  /\ NewLeg(r, p, last) \in Leg /\ LegOK(NewLeg(r, p, last), regs)
           /\ NewLeg(r, p, last).prov = p
           /\ NewLeg(r, p, last).at = IF r \in Embeds THEN "embed" ELSE "start"
<1>1. regs[p] \in 0..MaxRegs /\ regs[p] >= 1
  BY DEF RoutingInv, RoutingTypes
<1>2. (IF last \/ MaxAttempts < FailoverAttempts THEN MaxAttempts ELSE FailoverAttempts)
        \in 0..MaxAttempts
  BY RoutingAssumption
<1>3. 0 \in 0..MaxAttempts
  BY RoutingAssumption
<1> QED
  BY <1>1, <1>2, <1>3 DEF NewLeg, LegOK, Leg, LegAt

\* The two legs of r have no slot.
NoSlots(r) == \A p : Slots(legs'[r][1], p) = 0 /\ Slots(legs'[r][2], p) = 0

\* Both legs of r are dropped.
NoLegs(r) ==
    /\ legs' = [legs EXCEPT ![r] = legs'[r]] /\ legs'[r] \in Pair
    /\ legs'[r][1] = NoLeg /\ legs'[r][2] = NoLeg

LEMMA ClearedLegs ==
    ASSUME RoutingInv, NEW r \in Requests, ClearLegs(r)
    PROVE  NoLegs(r) /\ NoSlots(r)
<1>1. NoLeg \in Leg
  <2>1. 0 \in 0..MaxAttempts /\ 0 \in 0..MaxRegs
    BY RoutingAssumption
  <2> QED
    BY <2>1 DEF NoLeg, Leg, LegAt
<1>2. legs'[r] = [i \in 1..2 |-> NoLeg]
  BY DEF ClearLegs, RoutingInv, RoutingTypes
<1>3. legs'[r] \in Pair /\ legs'[r][1] = NoLeg /\ legs'[r][2] = NoLeg
  BY <1>1, <1>2 DEF Pair
<1>4. legs' = [legs EXCEPT ![r] = legs'[r]]
  BY <1>2 DEF ClearLegs
<1>5. NoLegs(r)
  BY <1>3, <1>4 DEF NoLegs
<1> QED
  BY <1>3, <1>5 DEF NoSlots, Slots, Has, HasSlot, NoLeg

\* Ending a request with both legs dropped.
LEMMA EndCleared ==
    ASSUME RoutingInv, NEW r \in Requests, NEW o \in Outcome, Finish(r, o), NoLegs(r),
           NEW tr \in Trials, tried' = [tried EXCEPT ![r] = tr], DOMAIN breaker' = Providers,
           o = "unavailable" => \A p \in ToSet(req[r].plan) : tr[p] # "no"
    PROVE  Moves(r)
<1>1. legs' = [legs EXCEPT ![r] = legs'[r]] /\ legs'[r] \in Pair
  BY DEF NoLegs
<1>2. legs'[r][1] \in {legs[r][1], NoLeg} /\ legs'[r][2] = NoLeg
  BY DEF NoLegs
<1>3. legs'[r][1].at \notin {"ok", "failed", "embed"}
  BY DEF NoLegs, NoLeg
<1>4. o \notin {"cancelled", "gone"} => legs'[r][1] = NoLeg
  BY DEF NoLegs
<1> QED
  BY <1>1, <1>2, <1>3, <1>4, EndMoves

LEMMA EndClearedQuiet ==
    ASSUME RoutingInv, NEW r \in Requests, NEW o \in Outcome, Finish(r, o), NoLegs(r),
           UNCHANGED tried, DOMAIN breaker' = Providers, o # "unavailable"
    PROVE  Moves(r)
<1>1. tried[r] \in Trials /\ tried' = [tried EXCEPT ![r] = tried[r]]
  BY DEF RoutingInv, RoutingTypes
<1> QED
  BY <1>1, EndCleared

\* Where the candidate loop stops, everything before is passed over.
LEMMA PlaceOK ==
    ASSUME NEW r, NEW B, NEW i \in Nat \ {0}, req[r].plan \in Seq(Providers)
    PROVE  LET n == Len(req[r].plan)
               j == Place(r, B, i)
           IN  /\ n \in Nat /\ j \in Nat \ {0}
               /\ j <= n => i <= j /\ j \in 1..n /\ j \in Stops(r, B, i)
               /\ j > n => j = n + 1
               /\ \A k \in i..(j - 1) : k <= n => k \notin Stops(r, B, i)
<1>1. PICK n \in Nat : n = Len(req[r].plan)
  BY LenProperties
<1>2. Stops(r, B, i) \in SUBSET Nat /\ Stops(r, B, i) \subseteq i..n
  BY <1>1 DEF Stops
<1>3. CASE Stops(r, B, i) = {}
  BY <1>1, <1>3 DEF Place
<1>4. CASE Stops(r, B, i) # {}
  <2>1. PICK j \in Nat : j = Min(Stops(r, B, i)) /\ j \in Stops(r, B, i)
                         /\ \A y \in Stops(r, B, i) : j <= y
    BY <1>2, <1>4, MinIsLeast
  <2>2. Place(r, B, i) = j
    BY <1>4, <2>1 DEF Place
  <2>3. j \in i..n
    BY <1>2, <2>1
  <2>4. \A k \in i..(j - 1) : k \notin Stops(r, B, i)
    BY <2>1
  <2> QED
    BY <1>1, <2>1, <2>2, <2>3, <2>4
<1> QED
  BY <1>3, <1>4

LEMMA ProceedMoves ==
    ASSUME RoutingInv, NEW r \in Requests, NEW B, DOMAIN B = Providers, NEW i \in Nat \ {0},
           req[r].at = "planned" \/ InLoop(req[r]), TriedTo(req[r], tried[r], i),
           Proceed(r, B, i)
    PROVE  Moves(r) /\ NoSlots(r)
<1>1. req[r] \in Req /\ tried[r] \in Trials /\ legs[r] \in Pair
      /\ ReqOK(r, req[r], legs[r], tried[r], regs)
  BY DEF RoutingInv, RoutingTypes
<1>2. PICK plan \in Seq(Providers) : plan = req[r].plan
  BY <1>1 DEF Req
<1>3. PICK n \in Nat : n = Len(plan)
  BY <1>2, LenProperties
<1>4. PICK j \in Nat \ {0} :
         /\ j = Place(r, B, i)
         /\ j <= n => i <= j /\ j \in 1..n /\ j \in Stops(r, B, i)
         /\ j > n => j = n + 1
         /\ \A k \in i..(j - 1) : k <= n => k \notin Stops(r, B, i)
  BY <1>2, <1>3, PlaceOK
<1>5. PICK refused \in SUBSET Providers : refused = Refused(r, B, i)
  <2>1. \A k \in i..(j - 1) : plan[k] \in Providers
    BY <1>2, <1>3, <1>4, ElementOfSeq
  <2> QED
    BY <1>2, <1>4, <2>1 DEF Refused
<1>6. \A k \in i..(j - 1) : plan[k] \in refused \/ plan[k] \in req[r].skip
  BY <1>2, <1>4, <1>5 DEF Refused
<1> DEFINE told == [q \in Providers |-> IF q \in refused THEN "refused" ELSE tried[r][q]]
<1>7. told \in Trials /\ \A q \in Providers : /\ tried[r][q] # "no" => told[q] # "no"
                                              /\ told[q] = "called" => tried[r][q] = "called"
                                              /\ q \in refused => told[q] # "no"
  BY <1>1 DEF Trials
<1>8. ASSUME NEW k \in 1..n, k < j PROVE told[plan[k]] # "no"
  <2>1. plan[k] \in Providers
    BY <1>2, <1>3, ElementOfSeq
  <2>2. k < i \/ k \in i..(j - 1)
    BY <1>8
  <2>3. CASE k < i
    BY <1>2, <1>3, <1>7, <2>1, <2>3 DEF TriedTo
  <2>4. CASE plan[k] \in refused
    BY <1>7, <2>1, <2>4
  <2>5. CASE plan[k] \in req[r].skip
    BY <1>7, <2>1, <2>5 DEF TriedTo
  <2> QED
    BY <1>6, <2>2, <2>3, <2>4, <2>5
<1>9. \A q \in req[r].skip : told[q] # "no"
  <2>1. req[r].skip \subseteq Providers
    BY <1>1 DEF Req
  <2> QED
    BY <1>7, <2>1 DEF TriedTo
<1> HIDE DEF told
<1>10. CASE /\ j > n
            /\ Finish(r, "unavailable")
            /\ ClearLegs(r)
            /\ DOMAIN breaker' = Providers
            /\ tried' = [tried EXCEPT ![r] = told]
  <2>1. \A p \in ToSet(plan) : told[p] # "no"
    <3>1. \A k \in 1..n : told[plan[k]] # "no"
      BY <1>3, <1>4, <1>8, <1>10
    <3> QED
      BY <1>3, <3>1 DEF ToSet
  <2>2. "unavailable" \in Outcome
    BY DEF Outcome
  <2>3. NoLegs(r) /\ NoSlots(r)
    BY <1>10, ClearedLegs
  <2> QED
    BY <1>2, <1>7, <1>10, <2>1, <2>2, <2>3, EndCleared
<1>11. CASE /\ j <= n /\ ~present[plan[j]]
            /\ Finish(r, "gone")
            /\ ClearLegs(r)
            /\ DOMAIN breaker' = Providers
            /\ tried' = [tried EXCEPT ![r] = told]
  <2>1. "gone" \in Outcome
    BY DEF Outcome
  <2>2. NoLegs(r) /\ NoSlots(r)
    BY <1>11, ClearedLegs
  <2> QED
    BY <1>7, <1>11, <2>1, <2>2, EndCleared
<1>12. CASE /\ j <= n /\ present[plan[j]]
            /\ DOMAIN breaker' = Providers
            /\ \E at \in {"hedge_wait", "calling"} :
                  /\ at = "hedge_wait" => /\ r \in Routes /\ j < n
                                          /\ plan[j + 1] \notin req[r].skip
                  /\ req' = [req EXCEPT ![r] = [@ EXCEPT !.ix = j, !.at = at]]
            /\ legs' = [legs EXCEPT ![r] = <<NewLeg(r, plan[j], j = n), NoLeg>>]
            /\ tried' = [tried EXCEPT ![r] = [told EXCEPT ![plan[j]] = "called"]]
  <2>1. PICK at \in {"hedge_wait", "calling"} :
           /\ at = "hedge_wait" => /\ r \in Routes /\ j < n
                                   /\ plan[j + 1] \notin req[r].skip
           /\ req' = [req EXCEPT ![r] = [@ EXCEPT !.ix = j, !.at = at]]
    BY <1>12
  <2> DEFINE p == plan[j]
             q == [req[r] EXCEPT !.ix = j, !.at = at]
             tr == [told EXCEPT ![p] = "called"]
             l == NewLeg(r, p, j = n)
  <2>2. p \in Providers /\ present[p] /\ j \in 1..n /\ i <= j /\ p \notin req[r].skip
    <3>1. j \in 1..n /\ i <= j /\ j \in Stops(r, B, i)
      BY <1>4, <1>12
    <3> QED
      BY <1>2, <1>3, <1>12, <3>1, ElementOfSeq DEF Stops
  <2>3. /\ q \in Req /\ q.at = at /\ q.ix = j /\ q.plan = plan /\ q.skip = req[r].skip
        /\ q.left = req[r].left
    BY <1>1, <1>2 DEF Req, ReqAt
  <2>4. req' = [req EXCEPT ![r] = q] /\ req'[r] = q
    BY <2>1 DEF RoutingInv, RoutingTypes
  <2>5. /\ l \in Leg /\ LegOK(l, regs) /\ l.prov = p
        /\ l.at = IF r \in Embeds THEN "embed" ELSE "start"
    BY <2>2, NewLegOK
  <2>6. tr \in Trials /\ tr[p] = "called" /\ \A x \in Providers : x # p => tr[x] = told[x]
    BY <1>7, <2>2 DEF Trials
  <2>7. tried' = [tried EXCEPT ![r] = tr] /\ tried'[r] = tr
    BY <1>12 DEF RoutingInv, RoutingTypes
  <2> HIDE DEF q, l, tr, p
  <2>8. NoLeg \in Leg
    <3>1. 0 \in 0..MaxAttempts /\ 0 \in 0..MaxRegs
      BY RoutingAssumption
    <3> QED
      BY <3>1 DEF NoLeg, Leg, LegAt
  <2>9. /\ legs' = [legs EXCEPT ![r] = legs'[r]] /\ legs'[r] \in Pair
        /\ legs'[r][1] = l /\ legs'[r][2] = NoLeg
    BY <1>12, <2>5, <2>8 DEF l, p, Pair, RoutingInv, RoutingTypes
  <2>10. TriedTo(q, tr, j + 1)
    <3>1. ASSUME NEW k \in 1..n, k < j + 1 PROVE tr[plan[k]] # "no"
      <4>1. plan[k] \in Providers
        BY <1>2, <1>3, ElementOfSeq
      <4>2. k < j \/ k = j
        BY <3>1
      <4> QED
        BY <1>8, <2>6, <4>1, <4>2 DEF p
    <3>2. \A x \in q.skip : tr[x] # "no"
      <4>1. q.skip \subseteq Providers
        BY <2>3 DEF Req
      <4> QED
        BY <1>9, <2>3, <2>6, <4>1
    <3>3. ASSUME NEW x \in Providers, tr[x] = "called"
          PROVE  x \in q.skip \/ \E k \in 1..n : k < j + 1 /\ plan[k] = x
      <4>1. CASE x = p
        BY <2>2, <4>1 DEF p
      <4>2. CASE x # p
        <5>1. tried[r][x] = "called"
          BY <1>7, <2>6, <3>3, <4>2
        <5>2. x \in req[r].skip \/ \E k \in 1..n : k < i /\ plan[k] = x
          BY <1>2, <1>3, <5>1 DEF TriedTo
        <5>3. \A k \in 1..n : k < i => k < j + 1
          BY <2>2
        <5> QED
          BY <2>3, <5>2, <5>3
      <4> QED
        BY <4>1, <4>2
    <3> QED
      BY <1>2, <1>3, <2>3, <3>1, <3>2, <3>3 DEF TriedTo
  <2>11. PlanOK(q, tr)
    <3>1. \A x, y \in 1..n : plan[x] = plan[y] => x = y
      BY <1>1, <1>2, <1>3 DEF ReqOK, PlanOK
    <3>2. q.at = "hedge_wait" => j < n /\ plan[j + 1] \notin q.skip
      BY <2>1, <2>3
    <3> QED
      BY <1>3, <2>1, <2>2, <2>3, <2>10, <3>1, <3>2 DEF PlanOK, InLoop
  <2>12. LegsOK(r, q, legs'[r])
    BY <2>1, <2>3, <2>5, <2>9, RoutingAssumption DEF LegsOK, InLoop, NoLeg, p, Requests
  <2>13. AttemptsOf(r)
    <3>1. tried[r][p] # "called"
      <4>1. ~ \E k \in 1..n : k < i /\ plan[k] = p
        BY <1>1, <1>2, <1>3, <2>2 DEF ReqOK, PlanOK, p
      <4> QED
        BY <1>2, <1>3, <2>2, <4>1 DEF TriedTo
    <3> QED
      BY <2>5, <2>9, <3>1 DEF AttemptsOf, Begins, NoLeg
  <2>14. NoSlots(r)
    BY <2>5, <2>9 DEF NoSlots, Slots, Has, HasSlot, NoLeg
  <2>15. ReqOK(r, q, legs'[r], tr, regs)
    <3>1. LegOK(legs'[r][1], regs)
      BY <2>5, <2>9
    <3>2. LegOK(legs'[r][2], regs)
      BY <2>9 DEF LegOK, NoLeg
    <3> QED
      BY <2>11, <2>12, <3>1, <3>2 DEF ReqOK
  <2>16. Moves(r)
    <3>1. DOMAIN breaker' = Providers
      BY <1>12
    <3> QED
      BY <2>3, <2>4, <2>6, <2>7, <2>9, <2>13, <2>15, <3>1 DEF Moves
  <2> QED
    BY <2>14, <2>16
<1> QED
  <2>1. /\ Place(r, B, i) = j /\ req[r].plan = plan /\ Len(req[r].plan) = n
        /\ Refused(r, B, i) = refused
    BY <1>2, <1>3, <1>4, <1>5
  <2> QED
    BY <2>1, <1>10, <1>11, <1>12 DEF Proceed, told

LEMMA HandleMoves ==
    ASSUME RoutingInv, NEW r \in Requests, InLoop(req[r]), NEW k \in ErrorKind,
           NEW B, DOMAIN B = Providers, Handle(r, B, k)
    PROVE  Moves(r) /\ NoSlots(r)
<1>1. CASE k = "deadline" \/ k \notin FAILOVER
  <2>1. k \in Outcome /\ k # "unavailable"
    BY DEF Outcome, ErrorKind
  <2>2. Finish(r, k) /\ ClearLegs(r) /\ breaker' = B /\ UNCHANGED tried
    BY <1>1 DEF Handle
  <2> QED
    BY <2>1, <2>2, ClearedLegs, EndClearedQuiet
<1>2. CASE ~(k = "deadline" \/ k \notin FAILOVER)
  <2>1. Proceed(r, B, req[r].ix + 1)
    BY <1>2 DEF Handle
  <2>2. req[r].ix + 1 \in Nat \ {0} /\ TriedTo(req[r], tried[r], req[r].ix + 1)
    <3>1. req[r].ix \in Nat
      BY DEF RoutingInv, RoutingTypes, Req
    <3>2. PlanOK(req[r], tried[r])
      BY DEF RoutingInv, ReqOK
    <3> QED
      BY <3>1, <3>2 DEF PlanOK
  <2> QED
    BY <2>1, <2>2, ProceedMoves
<1> QED
  BY <1>1, <1>2

\* Leg i of r no longer has the slot it may have had.
Lets(r, i) ==
    \A p : Slots(legs'[r][1], p) + Slots(legs'[r][2], p) + Slots(legs[r][i], p)
             = Slots(legs[r][1], p) + Slots(legs[r][2], p)

LEMMA SlotsNat == \A l, p : Slots(l, p) \in {0, 1}
BY DEF Slots

\* A leg that fails, with what its request makes of it.
LEMMA LegFailsMoves ==
    ASSUME RoutingInv, NEW r \in Requests, NEW i \in 1..2, NEW k \in ErrorKind,
           NEW B, DOMAIN B = Providers, req[r].at # "streaming",
           legs[r][i].at \in {"start", "admit", "call", "backoff"}, LegFails(r, i, B, k)
    PROVE  Moves(r) /\ Lets(r, i)
<1>1. LegsOK(r, req[r], legs[r]) /\ legs[r] \in Pair /\ req[r] \in Req
  BY DEF RoutingInv, RoutingTypes, ReqOK
<1>2. CASE req[r].at = "calling"
  <2>1. Moves(r) /\ NoSlots(r)
    BY <1>2, HandleMoves DEF LegFails, InLoop
  <2>2. i = 1 /\ legs[r][2] = NoLeg
    BY <1>1, <1>2 DEF LegsOK, NoLeg
  <2>3. \A p : Slots(legs[r][2], p) = 0
    BY <2>2 DEF Slots, Has, HasSlot, NoLeg
  <2> QED
    BY <2>1, <2>2, <2>3, SlotsNat DEF Lets, NoSlots
<1>3. CASE req[r].at # "calling"
  <2> DEFINE l == IF req[r].at = "done" THEN NoLeg
                  ELSE [legs[r][i] EXCEPT !.at = "failed", !.err = k]
  <2>1. legs[r][i] \in Leg /\ LegOK(legs[r][i], regs)
    BY <1>1 DEF Pair, RoutingInv, ReqOK
  <2>2. NoLeg \in Leg
    <3>1. 0 \in 0..MaxAttempts /\ 0 \in 0..MaxRegs
      BY RoutingAssumption
    <3> QED
      BY <3>1 DEF NoLeg, Leg, LegAt
  <2>3. /\ l \in Leg
        /\ \/ req[r].at = "done" /\ l = NoLeg
           \/ req[r].at # "done" /\ l.at = "failed" /\ l.prov = legs[r][i].prov
              /\ l.reg = legs[r][i].reg /\ l.err = k
    BY <2>1, <2>2 DEF Leg, LegAt
  <2>4. legs' = [legs EXCEPT ![r][i] = l] /\ breaker' = B /\ UNCHANGED <<req, tried>>
    BY <1>3 DEF LegFails
  <2>5. legs'[r][i] = l /\ \A j \in 1..2 : j # i => legs'[r][j] = legs[r][j]
    BY <1>1, <2>4 DEF RoutingInv, RoutingTypes, Pair
  <2> HIDE DEF l
  <2>6. LegOK(l, regs) /\ l.at # "call"
    BY <2>1, <2>3 DEF LegOK, NoLeg
  <2>7. \A p : Slots(l, p) = 0
    BY <2>3 DEF Slots, Has, HasSlot, NoLeg
  <2>8. Lets(r, i)
    BY <2>5, <2>7, SlotsNat DEF Lets
  <2>9. Moves(r)
    <3>1. legs[r][i].at \notin {"none", "embed"}
      OBVIOUS
    <3>2. \/ l = NoLeg /\ req[r].at = "done"
          \/ l.at \in {"admit", "call", "backoff"} /\ l.prov = legs[r][i].prov
          \/ l.at \in {"ok", "failed"} /\ l.prov = legs[r][i].prov
             /\ req[r].at \notin {"calling", "done"}
      BY <1>3, <2>3
    <3> QED
      BY <2>3, <2>4, <2>6, <3>1, <3>2, LegMoves
  <2> QED
    BY <2>8, <2>9
<1> QED
  BY <1>2, <1>3

\* Slots that are counted, seen from the request.
LEMMA SlotsSeen ==
    ASSUME RoutingInv, NEW r \in Requests, NEW p \in Providers, present[p], regs[p] = 1
    PROVE  active[p] >= Slots(legs[r][1], p) + Slots(legs[r][2], p)
<1>1. legs \in [Requests -> Pair] /\ active[p] = Cardinality(Held(legs, p))
  BY DEF RoutingInv, RoutingTypes, SlotsCounted
<1>2. /\ Cardinality(Others(legs, r, p)) \in Nat
      /\ Cardinality(Held(legs, p)) =
            Cardinality(Others(legs, r, p)) + Slots(legs[r][1], p) + Slots(legs[r][2], p)
  BY <1>1, HeldSplit
<1> QED
  BY <1>1, <1>2, SlotsNat

\* A leg without a slot ends and no limiter is touched.
LEMMA BalancedWithout ==
    ASSUME RoutingInv, NEW r \in Requests, NEW i \in 1..2, Lets(r, i), UNCHANGED active,
           ~HasSlot(legs[r][i])
    PROVE  Balanced(r) /\ active' \in [Providers -> 0..Concurrent]
<1>1. \A p : Slots(legs[r][i], p) = 0
  BY DEF Slots, Has
<1>2. active \in [Providers -> 0..Concurrent]
  BY DEF RoutingInv, RoutingTypes
<1> QED
  BY <1>1, <1>2, SlotsNat DEF Lets, Balanced

\* A leg gives its slot back.
LEMMA BalancedFreeing ==
    ASSUME RoutingInv, NEW r \in Requests, NEW i \in 1..2, Lets(r, i),
           HasSlot(legs[r][i]), active' = Freeing(legs[r][i].prov, active)
    PROVE  Balanced(r) /\ active' \in [Providers -> 0..Concurrent]
<1> DEFINE x == legs[r][i].prov
<1>1. active \in [Providers -> 0..Concurrent] /\ x \in Providers
  BY DEF RoutingInv, RoutingTypes, ReqOK, LegOK, HasSlot
<1>2. active' \in [Providers -> 0..Concurrent]
  <2>1. active[x] > 0 => active[x] - 1 \in 0..Concurrent
    BY <1>1, RoutingAssumption
  <2> HIDE DEF x
  <2> QED
    BY <1>1, <2>1 DEF Freeing, x
<1>3. \A p : Slots(legs[r][i], p) = IF p = x THEN 1 ELSE 0
  BY DEF Slots, Has
<1> HIDE DEF x
<1>4. ASSUME NEW p \in Providers, present[p], regs[p] = 1
      PROVE  active'[p] = active[p] - Slots(legs[r][i], p)
  <2>1. active[p] >= Slots(legs[r][1], p) + Slots(legs[r][2], p)
    BY <1>4, SlotsSeen
  <2>2. active[p] >= Slots(legs[r][i], p) /\ active[p] \in Nat
    BY <1>1, <2>1, SlotsNat
  <2> QED
    BY <1>1, <1>3, <1>4, <2>2 DEF Freeing, x
<1>5. Balanced(r)
  <2> SUFFICES ASSUME NEW p \in Providers, present[p], regs[p] = 1
               PROVE  active'[p] + Slots(legs[r][1], p) + Slots(legs[r][2], p)
                        = active[p] + Slots(legs'[r][1], p) + Slots(legs'[r][2], p)
    BY DEF Balanced
  <2>1. active'[p] = active[p] - Slots(legs[r][i], p) /\ active[p] \in Nat
    BY <1>1, <1>4
  <2>2. Slots(legs'[r][1], p) + Slots(legs'[r][2], p) + Slots(legs[r][i], p)
          = Slots(legs[r][1], p) + Slots(legs[r][2], p)
    BY DEF Lets
  <2> QED
    BY <2>1, <2>2, SlotsNat
<1> QED
  BY <1>2, <1>5

-----------------------------------------------------------------------------
\* The actions of a leg.

\* Whatever is done to a breaker, every provider keeps having one.
LEMMA BreakersKept ==
    ASSUME RoutingInv
    PROVE  /\ \A p : DOMAIN ReleasedByName(p) = Providers
           /\ \A l, x : DOMAIN Captured(l, x) = Providers
           /\ \A l, k : DOMAIN AfterError(l, k) = Providers
           /\ \A l, B : DOMAIN CancelledBreakers(l, B) = DOMAIN B
BY DEF RoutingInv, RoutingTypes, ReleasedByName, Captured, AfterError, CancelledBreakers

LEMMA LegFacts ==
    ASSUME RoutingInv, NEW r \in Requests, NEW i \in 1..2, legs[r][i].at # "none"
    PROVE  /\ legs[r][i] \in Leg /\ LegOK(legs[r][i], regs)
           /\ legs[r][i].prov \in Providers /\ regs[legs[r][i].prov] \in 0..MaxRegs
           /\ LegsOK(r, req[r], legs[r]) /\ legs[r] \in Pair /\ req[r] \in Req
           /\ legs[r][i].at # "call" => req[r].at # "streaming"
<1>1. /\ legs[r] \in Pair /\ req[r] \in Req /\ LegOK(legs[r][i], regs)
      /\ LegsOK(r, req[r], legs[r])
  BY DEF RoutingInv, RoutingTypes, ReqOK
<1>2. legs[r][i] \in Leg /\ legs[r][i].prov \in Providers
  BY <1>1 DEF Pair, LegOK
<1>3. regs[legs[r][i].prov] \in 0..MaxRegs
  BY <1>2 DEF RoutingInv, RoutingTypes
<1>4. legs[r][i].at # "call" => req[r].at # "streaming"
  <2>1. CASE i = 1
    BY <1>1, <2>1 DEF LegsOK
  <2>2. CASE i = 2
    BY <1>1, <2>2 DEF LegsOK, NoLeg
  <2> QED
    BY <2>1, <2>2
<1> QED
  BY <1>1, <1>2, <1>3, <1>4

\* A leg goes on to l, with as many slots as before.
LEMMA LegGoesOn ==
    ASSUME RoutingInv, NEW r \in Requests, NEW i \in 1..2, NEW l \in Leg,
           UNCHANGED <<registry, breaker, active, req, tried>>,
           legs' = [legs EXCEPT ![r][i] = l], LegOK(l, regs),
           legs[r][i].at \notin {"none", "embed"}, req[r].at # "streaming",
           l.at \in {"admit", "call", "backoff"}, l.prov = legs[r][i].prov,
           HasSlot(l) <=> HasSlot(legs[r][i]),
           l.at = "call" /\ legs[r][i].tries < l.tries => req[r].left > 0
    PROVE  Keeps(r)
<1>1. DOMAIN breaker' = Providers
  BY DEF RoutingInv, RoutingTypes
<1>2. Moves(r)
  BY <1>1, LegMoves
<1>3. legs'[r][i] = l /\ \A j \in 1..2 : j # i => legs'[r][j] = legs[r][j]
  BY LegFacts DEF RoutingInv, RoutingTypes, Pair
<1>4. \A p : Slots(legs'[r][1], p) = Slots(legs[r][1], p)
             /\ Slots(legs'[r][2], p) = Slots(legs[r][2], p)
  BY <1>3 DEF Slots, Has
<1>5. active \in [Providers -> 0..Concurrent]
  BY DEF RoutingInv, RoutingTypes
<1>6. Balanced(r)
  BY <1>4, <1>5, SlotsNat DEF Balanced
<1> QED
  BY <1>2, <1>5, <1>6 DEF Keeps

LEMMA StartKeeps ==
    ASSUME RoutingInv, NEW r \in Requests, NEW i \in 1..2, Start(r, i)
    PROVE  Keeps(r)
<1> DEFINE l == legs[r][i]
<1>1. l.at = "start" /\ UNCHANGED <<registry, active>>
  BY DEF Start
<1>2. /\ l \in Leg /\ LegOK(l, regs) /\ l.prov \in Providers
      /\ regs[l.prov] \in 0..MaxRegs /\ req[r].at # "streaming"
  BY <1>1, LegFacts
<1>3. CASE ~present[l.prov]
  <2>1. LegFails(r, i, breaker, "unknown") /\ "unknown" \in ErrorKind
    BY <1>3 DEF Start, ErrorKind
  <2>2. DOMAIN breaker = Providers
    BY DEF RoutingInv, RoutingTypes
  <2>3. Moves(r) /\ Lets(r, i)
    BY <1>1, <1>2, <2>1, <2>2, LegFailsMoves
  <2> QED
    BY <1>1, <2>3, BalancedWithout DEF Keeps, HasSlot
<1>4. CASE present[l.prov] /\ Expired(r)
  <2>1. LegFails(r, i, ReleasedByName(l.prov), "deadline") /\ "deadline" \in ErrorKind
    BY <1>4 DEF Start, ErrorKind
  <2>2. DOMAIN ReleasedByName(l.prov) = Providers
    BY BreakersKept
  <2>3. Moves(r) /\ Lets(r, i)
    BY <1>1, <1>2, <2>1, <2>2, LegFailsMoves
  <2> QED
    BY <1>1, <2>3, BalancedWithout DEF Keeps, HasSlot
<1>5. CASE present[l.prov] /\ ~Expired(r)
  <2> DEFINE l2 == [l EXCEPT !.at = "admit", !.reg = regs[l.prov]]
  <2>1. legs' = [legs EXCEPT ![r][i] = l2] /\ UNCHANGED <<breaker, req, tried>>
    BY <1>5 DEF Start
  <2>2. /\ l2 \in Leg /\ l2.at = "admit" /\ l2.prov = l.prov /\ l2.reg = regs[l.prov]
    BY <1>2 DEF Leg, LegAt
  <2>3. LegOK(l2, regs)
    <3>1. regs[l.prov] >= 1
      BY <1>2, <1>5 DEF RoutingInv
    <3> QED
      BY <1>2, <2>2, <3>1 DEF LegOK
  <2> HIDE DEF l2
  <2>4. HasSlot(l2) <=> HasSlot(l)
    BY <1>1, <2>2 DEF HasSlot
  <2> QED
    BY <1>1, <1>2, <2>1, <2>2, <2>3, <2>4, LegGoesOn
<1> QED
  BY <1>3, <1>4, <1>5

LEMMA RateLimitedKeeps ==
    ASSUME RoutingInv, NEW r \in Requests, NEW i \in 1..2, RateLimited(r, i)
    PROVE  Keeps(r)
<1>1. legs[r][i].at = "admit" /\ UNCHANGED <<registry, active>>
  BY DEF RateLimited
<1>2. req[r].at # "streaming"
  BY <1>1, LegFacts
<1>3. PICK k \in ErrorKind : LegFails(r, i, ReleasedByName(legs[r][i].prov), k)
  BY DEF RateLimited, ErrorSeen, ErrorKind
<1>4. DOMAIN ReleasedByName(legs[r][i].prov) = Providers
  BY BreakersKept
<1>5. Moves(r) /\ Lets(r, i)
  BY <1>1, <1>2, <1>3, <1>4, LegFailsMoves
<1> QED
  BY <1>1, <1>5, BalancedWithout DEF Keeps, HasSlot

LEMMA AdmittedKeeps ==
    ASSUME RoutingInv, NEW r \in Requests, NEW i \in 1..2, Admitted(r, i)
    PROVE  Keeps(r)
<1> DEFINE l == legs[r][i]
<1>1. l.at = "admit" /\ SlotFree(l) /\ UNCHANGED registry
  BY DEF Admitted
<1>2. /\ l \in Leg /\ LegOK(l, regs) /\ l.prov \in Providers
      /\ regs[l.prov] \in 0..MaxRegs /\ req[r].at # "streaming" /\ req[r] \in Req
  BY <1>1, LegFacts
<1>3. CASE Expired(r)
  <2>1. UNCHANGED active
    BY <1>3 DEF Admitted
  <2>2. PICK k \in ErrorKind : LegFails(r, i, Captured(l, Release(breaker[l.prov])), k)
    BY <1>3 DEF Admitted, ErrorSeen, ErrorKind
  <2>3. DOMAIN Captured(l, Release(breaker[l.prov])) = Providers
    BY BreakersKept
  <2>4. Moves(r) /\ Lets(r, i)
    BY <1>1, <1>2, <2>2, <2>3, LegFailsMoves
  <2> QED
    BY <1>1, <2>1, <2>4, BalancedWithout DEF Keeps, HasSlot
<1>4. CASE ~Expired(r)
  <2> DEFINE l2 == [l EXCEPT !.at = "call", !.tries = 1]
  <2>1. /\ legs' = [legs EXCEPT ![r][i] = l2] /\ UNCHANGED <<breaker, req, tried>>
        /\ active' = IF Current(l) THEN [active EXCEPT ![l.prov] = @ + 1] ELSE active
    BY <1>4 DEF Admitted
  <2>2. l2 \in Leg /\ l2.at = "call" /\ l2.prov = l.prov /\ l2.reg = l.reg
    <3>1. 1 \in 0..MaxAttempts
      BY RoutingAssumption
    <3> QED
      BY <1>2, <3>1 DEF Leg, LegAt
  <2>3. LegOK(l2, regs)
    BY <1>1, <1>2, <2>2 DEF LegOK
  <2>4. req[r].left > 0
    BY <1>2, <1>4 DEF Expired, Req
  <2>5. legs'[r][i] = l2 /\ \A j \in 1..2 : j # i => legs'[r][j] = legs[r][j]
    BY <1>1, <2>1, LegFacts DEF RoutingInv, RoutingTypes, Pair
  <2> HIDE DEF l2
  <2>6. Moves(r)
    <3>1. DOMAIN breaker' = Providers
      BY <2>1 DEF RoutingInv, RoutingTypes
    <3> QED
      BY <1>1, <1>2, <2>1, <2>2, <2>3, <2>4, <3>1, LegMoves
  <2> HIDE DEF l
  <2>7. active \in [Providers -> 0..Concurrent] /\ Concurrent \in Nat
    BY RoutingAssumption DEF RoutingInv, RoutingTypes
  <2>8. active' \in [Providers -> 0..Concurrent]
    <3>1. CASE Current(l)
      <4>1. active[l.prov] + 1 \in 0..Concurrent
        BY <1>1, <1>2, <2>7, <3>1 DEF SlotFree
      <4> QED
        BY <2>1, <2>7, <3>1, <4>1
    <3>2. CASE ~Current(l)
      BY <2>1, <2>7, <3>2
    <3> QED
      BY <3>1, <3>2
  <2>9. \A p : Slots(l, p) = 0 /\ Slots(l2, p) = IF p = l.prov THEN 1 ELSE 0
    BY <1>1, <2>2 DEF Slots, Has, HasSlot
  <2>10. ASSUME NEW p \in Providers, present[p], regs[p] = 1
         PROVE  active'[p] = active[p] + Slots(l2, p)
    <3>1. p = l.prov => Current(l)
      BY <1>1, <1>2, <2>10 DEF Current, LegOK, Leg
    <3> QED
      BY <1>2, <2>1, <2>7, <2>9, <3>1
  <2>11. Balanced(r)
    <3> SUFFICES ASSUME NEW p \in Providers, present[p], regs[p] = 1
                 PROVE  active'[p] + Slots(legs[r][1], p) + Slots(legs[r][2], p)
                          = active[p] + Slots(legs'[r][1], p) + Slots(legs'[r][2], p)
      BY DEF Balanced
    <3>1. active'[p] = active[p] + Slots(l2, p) /\ active[p] \in Nat
      BY <2>7, <2>10
    <3>2. Slots(l, p) = 0
      BY <2>9
    <3> QED
      BY <2>5, <3>1, <3>2, SlotsNat DEF l
  <2> QED
    BY <1>1, <2>6, <2>8, <2>11 DEF Keeps
<1> QED
  BY <1>3, <1>4

\* A completion that has its answer.
LEMMA AnswerMoves ==
    ASSUME RoutingInv, NEW r \in Requests, InLoop(req[r]), NEW p \in Providers,
           Answered(r, p), NoLegs(r), UNCHANGED tried, DOMAIN breaker' = Providers
    PROVE  Moves(r)
<1> DEFINE q == [req[r] EXCEPT !.at = "saving", !.by = p]
<1>1. req[r] \in Req /\ tried[r] \in Trials /\ legs[r] \in Pair
      /\ ReqOK(r, req[r], legs[r], tried[r], regs)
  BY DEF RoutingInv, RoutingTypes
<1>2. q \in Req /\ q.at = "saving" /\ q.by = p /\ q.plan = req[r].plan
      /\ q.skip = req[r].skip /\ q.ix = req[r].ix
  BY <1>1 DEF Req, ReqAt
<1>3. req' = [req EXCEPT ![r] = q] /\ req'[r] = q
  BY DEF Answered, RoutingInv, RoutingTypes
<1> HIDE DEF q
<1>4. tried' = [tried EXCEPT ![r] = tried'[r]] /\ tried'[r] = tried[r]
  BY DEF RoutingInv, RoutingTypes
<1>5. PlanOK(q, tried[r])
  BY <1>1, <1>2 DEF PlanOK, ReqOK, InLoop
<1>6. LegsOK(r, q, legs'[r])
  BY <1>1, <1>2 DEF LegsOK, ReqOK, InLoop, NoLeg, NoLegs
<1>7. LegOK(legs'[r][1], regs) /\ LegOK(legs'[r][2], regs)
  BY DEF LegOK, NoLeg, NoLegs
<1>8. AttemptsOf(r)
  <2>1. \A i \in 1..2 : legs'[r][i] = NoLeg
    BY DEF NoLegs
  <2> QED
    BY <2>1 DEF AttemptsOf, Begins, NoLeg
<1> QED
  BY <1>1, <1>2, <1>3, <1>4, <1>5, <1>6, <1>7, <1>8 DEF Moves, ReqOK, NoLegs

\* With both legs dropped, and the second one having been none, the first has
\* let go of its slot.
LEMMA ClearedLets ==
    ASSUME RoutingInv, NEW r \in Requests, req[r].at # "racing", NoLegs(r)
    PROVE  Lets(r, 1)
<1>1. legs[r][2] = NoLeg
  BY DEF RoutingInv, ReqOK, LegsOK
<1> QED
  BY <1>1, SlotsNat DEF Lets, NoLegs, Slots, Has, HasSlot, NoLeg

LEMMA CallSucceedsKeeps ==
    ASSUME RoutingInv, NEW r \in Requests, NEW i \in 1..2, CallSucceeds(r, i)
    PROVE  Keeps(r)
<1> DEFINE l == legs[r][i]
<1>1. /\ l.at = "call" /\ r \in Routes /\ UNCHANGED <<registry, tried>>
      /\ active' = Freeing(l.prov, active) /\ HasSlot(l)
      /\ breaker' = Captured(l, RecordSuccess(breaker[l.prov]))
  BY DEF CallSucceeds, HasSlot
<1>2. DOMAIN breaker' = Providers
  BY <1>1, BreakersKept
<1>3. /\ l \in Leg /\ LegOK(l, regs) /\ l.prov \in Providers
      /\ LegsOK(r, req[r], legs[r]) /\ legs[r] \in Pair
  BY <1>1, LegFacts
<1>4. Moves(r) /\ Lets(r, i)
  <2>1. CASE req[r].at = "calling"
    <3>1. i = 1
      BY <1>1, <1>3, <2>1 DEF LegsOK, NoLeg
    <3>2. Answered(r, l.prov) /\ ClearLegs(r)
      BY <2>1 DEF CallSucceeds
    <3>3. NoLegs(r)
      BY <3>2, ClearedLegs
    <3>4. InLoop(req[r])
      BY <2>1 DEF InLoop
    <3>5. Moves(r)
      BY <1>1, <1>2, <1>3, <3>2, <3>3, <3>4, AnswerMoves
    <3> QED
      BY <2>1, <3>1, <3>3, <3>5, ClearedLets
  <2>2. CASE req[r].at # "calling"
    <3> DEFINE l2 == IF req[r].at = "done" THEN NoLeg ELSE [l EXCEPT !.at = "ok"]
    <3>1. NoLeg \in Leg
      <4>1. 0 \in 0..MaxAttempts /\ 0 \in 0..MaxRegs
        BY RoutingAssumption
      <4> QED
        BY <4>1 DEF NoLeg, Leg, LegAt
    <3>2. /\ l2 \in Leg
          /\ \/ req[r].at = "done" /\ l2 = NoLeg
             \/ req[r].at # "done" /\ l2.at = "ok" /\ l2.prov = l.prov /\ l2.reg = l.reg
      BY <1>3, <3>1 DEF Leg, LegAt
    <3>3. legs' = [legs EXCEPT ![r][i] = l2] /\ UNCHANGED <<req, tried>>
      BY <1>1, <2>2 DEF CallSucceeds
    <3>4. legs'[r][i] = l2 /\ \A j \in 1..2 : j # i => legs'[r][j] = legs[r][j]
      BY <1>3, <3>3 DEF RoutingInv, RoutingTypes, Pair
    <3> HIDE DEF l2
    <3>5. LegOK(l2, regs) /\ l2.at # "call"
      BY <1>1, <1>3, <3>2 DEF LegOK, NoLeg
    <3>6. \A p : Slots(l2, p) = 0
      BY <3>2 DEF Slots, Has, HasSlot, NoLeg
    <3>7. Lets(r, i)
      BY <3>4, <3>6, SlotsNat DEF Lets
    <3>8. req[r].at # "streaming"
      BY <1>1, <1>3, RoutingAssumption DEF LegsOK
    <3>9. \/ l2 = NoLeg /\ req[r].at = "done"
          \/ l2.at \in {"admit", "call", "backoff"} /\ l2.prov = legs[r][i].prov
          \/ l2.at \in {"ok", "failed"} /\ l2.prov = legs[r][i].prov
             /\ req[r].at \notin {"calling", "done"}
      BY <2>2, <3>2
    <3>10. Moves(r)
      BY <1>1, <1>2, <3>2, <3>3, <3>5, <3>8, <3>9, LegMoves
    <3> QED
      BY <3>7, <3>10
  <2> QED
    BY <2>1, <2>2
<1> QED
  BY <1>1, <1>4, BalancedFreeing DEF Keeps

LEMMA BackOffKeeps ==
    ASSUME RoutingInv, NEW r \in Requests, NEW i \in 1..2, BackOff(r, i)
    PROVE  Keeps(r)
<1> DEFINE l == legs[r][i]
           l2 == [l EXCEPT !.at = "backoff"]
<1>1. /\ l.at = "call" /\ req[r].at # "streaming" /\ l.tries < l.max
      /\ UNCHANGED <<registry, breaker, active, req, tried>>
  BY DEF BackOff
<1>2. l \in Leg /\ LegOK(l, regs)
  BY <1>1, LegFacts
<1>3. legs' = [legs EXCEPT ![r][i] = l2]
  BY DEF BackOff
<1>4. /\ l2 \in Leg /\ l2.at = "backoff" /\ l2.prov = l.prov /\ l2.reg = l.reg
      /\ l2.tries = l.tries /\ l2.max = l.max
  BY <1>2 DEF Leg, LegAt
<1> HIDE DEF l2
<1>5. LegOK(l2, regs) /\ (HasSlot(l2) <=> HasSlot(l))
  BY <1>1, <1>2, <1>4 DEF LegOK, HasSlot
<1> QED
  BY <1>1, <1>3, <1>4, <1>5, LegGoesOn

LEMMA CallFailsKeeps ==
    ASSUME RoutingInv, NEW r \in Requests, NEW i \in 1..2, CallFails(r, i)
    PROVE  Keeps(r)
<1> DEFINE l == legs[r][i]
<1>1. /\ l.at = "call" /\ req[r].at # "streaming" /\ HasSlot(l)
      /\ active' = Freeing(l.prov, active) /\ UNCHANGED registry
  BY DEF CallFails, HasSlot
<1>2. PICK k \in AttemptErrors(r) : LegFails(r, i, AfterError(l, k), ErrorSeen(l, k))
  BY DEF CallFails
<1>3. ErrorSeen(l, k) \in ErrorKind
  BY RoutingAssumption DEF AttemptErrors, ErrorSeen, ErrorKind
<1>4. DOMAIN AfterError(l, k) = Providers
  BY BreakersKept
<1>5. Moves(r) /\ Lets(r, i)
  BY <1>1, <1>2, <1>3, <1>4, LegFailsMoves
<1> QED
  BY <1>1, <1>5, BalancedFreeing DEF Keeps

LEMMA RetryKeeps ==
    ASSUME RoutingInv, NEW r \in Requests, NEW i \in 1..2, Retry(r, i)
    PROVE  Keeps(r)
<1> DEFINE l == legs[r][i]
<1>1. l.at = "backoff" /\ HasSlot(l) /\ UNCHANGED registry
  BY DEF Retry, HasSlot
<1>2. l \in Leg /\ LegOK(l, regs) /\ req[r].at # "streaming" /\ req[r] \in Req
  BY <1>1, LegFacts
<1>3. CASE Expired(r)
  <2>1. /\ LegFails(r, i, AfterError(l, "deadline"), ErrorSeen(l, "deadline"))
        /\ active' = Freeing(l.prov, active)
    BY <1>3 DEF Retry
  <2>2. ErrorSeen(l, "deadline") \in ErrorKind
    BY DEF ErrorSeen, ErrorKind
  <2>3. DOMAIN AfterError(l, "deadline") = Providers
    BY BreakersKept
  <2>4. Moves(r) /\ Lets(r, i)
    BY <1>1, <1>2, <2>1, <2>2, <2>3, LegFailsMoves
  <2> QED
    BY <1>1, <2>1, <2>4, BalancedFreeing DEF Keeps
<1>4. CASE ~Expired(r)
  <2> DEFINE l2 == [l EXCEPT !.at = "call", !.tries = l.tries + 1]
  <2>1. legs' = [legs EXCEPT ![r][i] = l2] /\ UNCHANGED <<breaker, active, req, tried>>
    BY <1>4 DEF Retry
  <2>2. l2 \in Leg /\ l2.at = "call" /\ l2.prov = l.prov /\ l2.reg = l.reg
    <3>1. l.tries + 1 \in 0..MaxAttempts
      BY <1>1, <1>2, RoutingAssumption DEF LegOK, Leg
    <3> QED
      BY <1>2, <3>1 DEF Leg, LegAt
  <2> HIDE DEF l2
  <2>3. LegOK(l2, regs) /\ (HasSlot(l2) <=> HasSlot(l))
    BY <1>1, <1>2, <2>2 DEF LegOK, HasSlot
  <2>4. req[r].left > 0
    BY <1>2, <1>4 DEF Expired, Req
  <2> QED
    BY <1>1, <1>2, <2>1, <2>2, <2>3, <2>4, LegGoesOn
<1> QED
  BY <1>3, <1>4

LEMMA LegStepKeeps ==
    ASSUME RoutingInv, NEW r \in Requests, NEW i \in 1..2, LegStep(r, i)
    PROVE  Keeps(r)
BY StartKeeps, AdmittedKeeps, RateLimitedKeeps, CallSucceedsKeeps, BackOffKeeps,
   CallFailsKeeps, RetryKeeps DEF LegStep

-----------------------------------------------------------------------------
\* The actions of a request.

\* No leg of a request in the places where nothing is called has a slot.
LEMMA StillBalanced ==
    ASSUME RoutingInv, NEW r \in Requests, UNCHANGED active,
           \A p : Slots(legs'[r][1], p) = Slots(legs[r][1], p)
                  /\ Slots(legs'[r][2], p) = Slots(legs[r][2], p)
    PROVE  Balanced(r) /\ active' \in [Providers -> 0..Concurrent]
<1>1. active \in [Providers -> 0..Concurrent]
  BY DEF RoutingInv, RoutingTypes
<1> QED
  BY <1>1, SlotsNat DEF Balanced

LEMMA PlanKeeps ==
    ASSUME RoutingInv, NEW r \in Requests, Plan(r)
    PROVE  Keeps(r)
<1>1. /\ req[r].at = "new" /\ UNCHANGED <<registry, active, legs, tried>>
      /\ DOMAIN breaker' = Providers
  BY DEF Plan, RoutingInv, RoutingTypes
<1>2. Balanced(r) /\ active' \in [Providers -> 0..Concurrent]
  BY <1>1, StillBalanced
<1>3. /\ req[r] \in Req /\ tried[r] \in Trials /\ legs[r] \in Pair
      /\ ReqOK(r, req[r], legs[r], tried[r], regs)
      /\ legs[r][1] = NoLeg /\ legs[r][2] = NoLeg /\ req[r].plan = << >>
  BY <1>1 DEF RoutingInv, RoutingTypes, ReqOK, LegsOK, PlanOK
<1>4. legs' = [legs EXCEPT ![r] = legs'[r]]
  BY <1>1 DEF RoutingInv, RoutingTypes
<1>5. CASE Finish(r, "unavailable")
  <2>1. NoLegs(r) /\ "unavailable" \in Outcome
    BY <1>1, <1>3, <1>4 DEF NoLegs, Outcome
  <2>2. tried' = [tried EXCEPT ![r] = tried[r]]
    BY <1>1 DEF RoutingInv, RoutingTypes
  <2>3. \A p \in ToSet(req[r].plan) : tried[r][p] # "no"
    BY <1>3 DEF ToSet
  <2>4. Moves(r)
    BY <1>1, <1>3, <1>5, <2>1, <2>2, <2>3, EndCleared
  <2> QED
    BY <1>1, <1>2, <2>4 DEF Keeps
<1>6. ASSUME NEW s \in Seq(Providers), \A j, k \in 1..Len(s) : s[j] = s[k] => j = k,
             req' = [req EXCEPT ![r] = [@ EXCEPT !.at = "planned", !.plan = s]]
      PROVE  Keeps(r)
  <2> DEFINE q == [req[r] EXCEPT !.at = "planned", !.plan = s]
  <2>1. q \in Req /\ q.at = "planned" /\ q.plan = s /\ q.skip = req[r].skip
    BY <1>3 DEF Req, ReqAt
  <2>2. req' = [req EXCEPT ![r] = q] /\ req'[r] = q
    BY <1>6 DEF RoutingInv, RoutingTypes
  <2>3. tried' = [tried EXCEPT ![r] = tried'[r]] /\ tried'[r] = tried[r] /\ legs'[r] = legs[r]
    BY <1>1 DEF RoutingInv, RoutingTypes
  <2> HIDE DEF q
  <2>4. TriedTo(q, tried[r], 1)
    <3>1. TriedTo(req[r], tried[r], 1)
      BY <1>1, <1>3 DEF ReqOK, PlanOK
    <3>2. \A k \in 1..Len(req[r].plan) : FALSE
      BY <1>3
    <3>3. \A p \in Providers : tried[r][p] = "called" => p \in req[r].skip
      BY <3>1, <3>2 DEF TriedTo
    <3>4. \A k \in 1..Len(q.plan) : ~(k < 1)
      OBVIOUS
    <3> QED
      BY <2>1, <3>1, <3>3, <3>4 DEF TriedTo
  <2>5. PlanOK(q, tried[r])
    BY <1>6, <2>1, <2>4 DEF PlanOK, InLoop
  <2>6. LegsOK(r, q, legs[r])
    BY <1>3, <2>1 DEF LegsOK, InLoop, NoLeg
  <2>7. AttemptsOf(r)
    <3>1. \A i \in 1..2 : legs'[r][i] = NoLeg
      BY <1>3, <2>3
    <3> QED
      BY <3>1 DEF AttemptsOf, Begins, NoLeg
  <2>8. ReqOK(r, q, legs[r], tried[r], regs)
    BY <1>3, <2>5, <2>6 DEF ReqOK
  <2>9. Moves(r)
    BY <1>1, <1>3, <1>4, <2>1, <2>2, <2>3, <2>7, <2>8 DEF Moves
  <2> QED
    BY <1>1, <1>2, <2>9 DEF Keeps
<1>7. ASSUME NEW S \in SUBSET Providers, NEW s \in SetToSeqs(S)
      PROVE  s \in Seq(Providers) /\ \A j, k \in 1..Len(s) : s[j] = s[k] => j = k
  <2>1. IsFiniteSet(S)
    BY FS_Subset, RoutingAssumption
  <2>2. PICK n \in Nat : n = Cardinality(S)
    BY <2>1, FS_CardinalityType
  <2>3. s \in [1..n -> S] /\ \A j, k \in 1..n : j # k => s[j] # s[k]
    BY <2>2 DEF SetToSeqs
  <2>4. s \in [1..n -> Providers]
    BY <2>3
  <2>5. s \in Seq(Providers) /\ Len(s) = n
    BY <2>2, <2>4, LenProperties, IsASeq
  <2> QED
    BY <2>3, <2>5
<1>8. ASSUME NEW p \in Providers
      PROVE  <<p>> \in Seq(Providers) /\ \A j, k \in 1..Len(<<p>>) : <<p>>[j] = <<p>>[k] => j = k
  OBVIOUS
<1>9. CASE \E S \in SUBSET Providers : \E s \in SetToSeqs(S) :
              req' = [req EXCEPT ![r] = [@ EXCEPT !.at = "planned", !.plan = s]]
  BY <1>6, <1>7, <1>9
<1>10. CASE \E p \in Providers :
              req' = [req EXCEPT ![r] = [@ EXCEPT !.at = "planned", !.plan = <<p>>]]
  BY <1>6, <1>8, <1>10
<1> DEFINE P(s) == req' = [req EXCEPT ![r] = [@ EXCEPT !.at = "planned", !.plan = s]]
           healthy == {p \in Providers : present[p] /\ WouldAllow(breaker[p])}
           usable == {p \in Providers : present[p]}
<1>11. \/ Finish(r, "unavailable")
       \/ \E s \in UNION {SetToSeqs(S) : S \in (SUBSET healthy) \ {{}}} : P(s)
       \/ \E s \in UNION {SetToSeqs(S) : S \in (SUBSET usable) \ {{}}} : P(s)
       \/ \E s \in {<<p>> : p \in usable} : P(s)
  BY DEF Plan
<1>12. healthy \subseteq Providers /\ usable \subseteq Providers
  OBVIOUS
<1> HIDE DEF P, healthy, usable
<1>13. ASSUME NEW T \in SUBSET Providers,
              \E s \in UNION {SetToSeqs(S) : S \in (SUBSET T) \ {{}}} : P(s)
       PROVE  \E S \in SUBSET Providers : \E s \in SetToSeqs(S) : P(s)
  BY <1>13
<1> QED
  BY <1>5, <1>9, <1>10, <1>11, <1>12, <1>13 DEF P

\* What is known of a request, in one place.
LEMMA ReqFacts ==
    ASSUME RoutingInv, NEW r \in Requests
    PROVE  /\ req[r] \in Req /\ tried[r] \in Trials /\ legs[r] \in Pair
           /\ ReqOK(r, req[r], legs[r], tried[r], regs)
           /\ LegOK(legs[r][1], regs) /\ LegOK(legs[r][2], regs)
           /\ PlanOK(req[r], tried[r]) /\ LegsOK(r, req[r], legs[r])
           /\ UNCHANGED legs => legs' = [legs EXCEPT ![r] = legs'[r]] /\ legs'[r] = legs[r]
           /\ UNCHANGED tried => tried' = [tried EXCEPT ![r] = tried[r]] /\ tried'[r] = tried[r]
           /\ UNCHANGED breaker => DOMAIN breaker' = Providers
BY DEF RoutingInv, RoutingTypes, ReqOK

LEMMA CacheHitKeeps ==
    ASSUME RoutingInv, NEW r \in Requests, CacheHit(r)
    PROVE  Keeps(r)
<1>1. /\ req[r].at = "planned" /\ UNCHANGED <<registry, breaker, active, legs, tried>>
      /\ Finish(r, "cached") /\ "cached" \in Outcome /\ "cached" # "unavailable"
  BY DEF CacheHit, Outcome
<1>2. NoLegs(r) /\ DOMAIN breaker' = Providers
  BY <1>1, ReqFacts DEF LegsOK, NoLegs
<1>3. Moves(r)
  BY <1>1, <1>2, EndClearedQuiet
<1>4. Balanced(r) /\ active' \in [Providers -> 0..Concurrent]
  BY <1>1, StillBalanced
<1> QED
  BY <1>1, <1>3, <1>4 DEF Keeps

LEMMA BeginKeeps ==
    ASSUME RoutingInv, NEW r \in Requests, Begin(r)
    PROVE  Keeps(r)
<1>1. /\ req[r].at = "planned" /\ UNCHANGED <<registry, active>>
      /\ Proceed(r, breaker, 1) /\ DOMAIN breaker = Providers
  BY DEF Begin, RoutingInv, RoutingTypes
<1>2. TriedTo(req[r], tried[r], 1) /\ legs[r][1] = NoLeg /\ legs[r][2] = NoLeg
  BY <1>1, ReqFacts DEF PlanOK, LegsOK
<1>3. Moves(r) /\ NoSlots(r)
  BY <1>1, <1>2, ProceedMoves
<1>4. \A p : Slots(legs'[r][1], p) = Slots(legs[r][1], p)
             /\ Slots(legs'[r][2], p) = Slots(legs[r][2], p)
  BY <1>2, <1>3 DEF NoSlots, Slots, Has, HasSlot, NoLeg
<1>5. Balanced(r) /\ active' \in [Providers -> 0..Concurrent]
  BY <1>1, <1>4, StillBalanced
<1> QED
  BY <1>1, <1>3, <1>5 DEF Keeps

LEMMA HedgeKeeps ==
    ASSUME RoutingInv, NEW r \in Requests, Hedge(r)
    PROVE  Keeps(r)
<1> DEFINE p == req[r].plan[req[r].ix + 1]
<1>1. /\ req[r].at = "hedge_wait" /\ legs[r][1].at \in {"admit", "call", "backoff"}
      /\ UNCHANGED <<registry, active>>
  BY DEF Hedge
<1>2. /\ req[r] \in Req /\ tried[r] \in Trials /\ legs[r] \in Pair
      /\ LegOK(legs[r][1], regs) /\ LegOK(legs[r][2], regs)
      /\ PlanOK(req[r], tried[r]) /\ LegsOK(r, req[r], legs[r])
  BY ReqFacts
<1>3. PICK n \in Nat : n = Len(req[r].plan)
  BY <1>2, LenProperties DEF Req
<1>4. PICK x \in Nat : x = req[r].ix /\ x \in 1..n /\ x < n
  BY <1>1, <1>2, <1>3 DEF PlanOK, InLoop
<1>5. p \in Providers /\ p \notin req[r].skip /\ p = req[r].plan[x + 1]
  BY <1>1, <1>2, <1>3, <1>4, ElementOfSeq DEF PlanOK, Req
<1>6. r \in Routes /\ legs[r][2] = NoLeg /\ TriedTo(req[r], tried[r], x + 1)
  BY <1>1, <1>2, <1>4 DEF LegsOK, PlanOK, InLoop
<1>7. CASE ~present[p]
  <2>1. /\ Finish(r, "gone") /\ UNCHANGED <<breaker, legs, tried>> /\ "gone" \in Outcome
        /\ "gone" # "unavailable"
    BY <1>7 DEF Hedge, Outcome
  <2>2. /\ legs' = [legs EXCEPT ![r] = legs'[r]] /\ legs'[r] \in Pair
        /\ legs'[r][1] \in {legs[r][1], NoLeg} /\ legs'[r][2] = NoLeg
        /\ legs'[r][1].at \notin {"ok", "failed", "embed"}
        /\ tried' = [tried EXCEPT ![r] = tried[r]] /\ DOMAIN breaker' = Providers
    BY <1>1, <1>2, <1>6, <2>1, ReqFacts
  <2>3. Moves(r)
    BY <1>2, <2>1, <2>2, EndMoves
  <2>4. Balanced(r) /\ active' \in [Providers -> 0..Concurrent]
    BY <1>1, <2>1, StillBalanced
  <2> QED
    BY <1>1, <2>3, <2>4 DEF Keeps
<1>8. CASE present[p] /\ WouldAllow(breaker[p])
  <2> DEFINE q == [req[r] EXCEPT !.at = "racing", !.skip = SkipWith(r, p)]
             l == NewLeg(r, p, req[r].ix + 1 = Len(req[r].plan))
             tr == [tried[r] EXCEPT ![p] = "called"]
  <2>1. /\ req' = [req EXCEPT ![r] = q]
        /\ legs' = [legs EXCEPT ![r][2] = l]
        /\ tried' = [tried EXCEPT ![r] = tr]
        /\ breaker' = [breaker EXCEPT ![p] = Allowed(@)]
    BY <1>8 DEF Hedge
  <2>2. /\ q \in Req /\ q.at = "racing" /\ q.ix = x /\ q.plan = req[r].plan
        /\ q.skip = req[r].skip \cup {p} /\ q.left = req[r].left
    BY <1>2, <1>4, <1>5 DEF Req, ReqAt, SkipWith
  <2>3. /\ l \in Leg /\ LegOK(l, regs) /\ l.prov = p /\ l.at = "start"
    <3>1. r \notin Embeds
      BY <1>6, RoutingAssumption
    <3>2. (req[r].ix + 1 = Len(req[r].plan)) \in BOOLEAN
      OBVIOUS
    <3> QED
      BY <1>5, <1>8, <3>1, <3>2, NewLegOK
  <2>4. tr \in Trials /\ tr[p] = "called" /\ \A y \in Providers : y # p => tr[y] = tried[r][y]
    BY <1>2, <1>5 DEF Trials
  <2> HIDE DEF q, l, tr
  <2>5. req'[r] = q /\ tried'[r] = tr /\ DOMAIN breaker' = Providers
    BY <2>1 DEF RoutingInv, RoutingTypes
  <2>6. /\ legs' = [legs EXCEPT ![r] = legs'[r]] /\ legs'[r] \in Pair
        /\ legs'[r][1] = legs[r][1] /\ legs'[r][2] = l
    BY <1>2, <2>1, <2>3 DEF RoutingInv, RoutingTypes, Pair
  <2> HIDE DEF p
  <2>7. TriedTo(q, tr, x + 1)
    <3>1. \A k \in 1..n : req[r].plan[k] \in Providers
      BY <1>2, <1>3, ElementOfSeq DEF Req
    <3>2. \A k \in 1..n : k < x + 1 => tr[q.plan[k]] # "no"
      BY <1>3, <1>6, <2>2, <2>4, <3>1 DEF TriedTo
    <3>3. \A y \in q.skip : tr[y] # "no"
      <4>1. req[r].skip \subseteq Providers
        BY <1>2 DEF Req
      <4> QED
        BY <1>6, <2>2, <2>4, <4>1 DEF TriedTo
    <3>4. \A y \in Providers : tr[y] = "called" =>
            y \in q.skip \/ \E k \in 1..n : k < x + 1 /\ q.plan[k] = y
      BY <1>3, <1>6, <2>2, <2>4 DEF TriedTo
    <3> QED
      BY <1>3, <2>2, <3>2, <3>3, <3>4 DEF TriedTo
  <2>8. PlanOK(q, tr)
    BY <1>2, <1>3, <1>4, <2>2, <2>7 DEF PlanOK, InLoop
  <2>9. LegsOK(r, q, legs'[r])
    <3>1. legs[r][1].at # "none" /\ legs[r][1].prov = req[r].plan[x]
      BY <1>1, <1>2, <1>4 DEF LegsOK, InLoop
    <3>2. l.at # "none" /\ l.prov = q.plan[x + 1]
      BY <1>5, <2>2, <2>3
    <3>3. r \notin Embeds
      BY <1>6, RoutingAssumption
    <3> QED
      BY <1>1, <1>6, <2>2, <2>3, <2>6, <3>1, <3>2, <3>3 DEF LegsOK, InLoop
  <2>10. AttemptsOf(r)
    <3>1. tried[r][p] # "called"
      <4>1. ~ \E k \in 1..n : k < x + 1 /\ req[r].plan[k] = p
        <5>1. \A j, k \in 1..n : req[r].plan[j] = req[r].plan[k] => j = k
          BY <1>2, <1>3 DEF PlanOK
        <5>2. x + 1 \in 1..n
          BY <1>4
        <5> QED
          BY <1>5, <5>1, <5>2
      <4> QED
        BY <1>3, <1>5, <1>6, <4>1 DEF TriedTo
    <3>2. legs[r][1].tries \in Nat /\ legs[r][1].at \notin {"start", "embed"}
      BY <1>1, <1>2 DEF Pair, Leg
    <3> QED
      BY <2>3, <2>6, <3>1, <3>2 DEF AttemptsOf, Begins
  <2>11. ReqOK(r, q, legs'[r], tr, regs)
    BY <1>2, <2>3, <2>6, <2>8, <2>9 DEF ReqOK
  <2>12. Moves(r)
    BY <2>1, <2>2, <2>4, <2>5, <2>6, <2>10, <2>11 DEF Moves
  <2>13. \A y : Slots(legs'[r][1], y) = Slots(legs[r][1], y)
                /\ Slots(legs'[r][2], y) = Slots(legs[r][2], y)
    BY <1>6, <2>3, <2>6 DEF Slots, Has, HasSlot, NoLeg
  <2>14. Balanced(r) /\ active' \in [Providers -> 0..Concurrent]
    BY <1>1, <2>13, StillBalanced
  <2> QED
    BY <1>1, <2>12, <2>14 DEF Keeps
<1>9. CASE present[p] /\ ~WouldAllow(breaker[p])
  <2> DEFINE q == [req[r] EXCEPT !.at = "calling"]
  <2>1. /\ req' = [req EXCEPT ![r] = q] /\ UNCHANGED <<legs, tried>>
        /\ breaker' = [breaker EXCEPT ![p] = Allowed(@)]
    BY <1>9 DEF Hedge, Unhedged
  <2>2. /\ q \in Req /\ q.at = "calling" /\ q.ix = x /\ q.plan = req[r].plan
        /\ q.skip = req[r].skip
    BY <1>2, <1>4 DEF Req, ReqAt
  <2> HIDE DEF q
  <2>3. req'[r] = q /\ DOMAIN breaker' = Providers
    BY <2>1 DEF RoutingInv, RoutingTypes
  <2>4. PlanOK(q, tried[r])
    BY <1>2, <1>3, <1>4, <1>6, <2>2 DEF PlanOK, InLoop, TriedTo
  <2>5. LegsOK(r, q, legs[r])
    BY <1>1, <1>2, <1>4, <2>2 DEF LegsOK, InLoop
  <2>6. AttemptsOf(r)
    <3>1. \A i \in 1..2 : legs[r][i].tries \in Nat
      BY <1>2 DEF Pair, Leg
    <3>2. req'[r].ix = req[r].ix /\ \A i \in 1..2 : legs'[r][i] = legs[r][i]
      BY <1>4, <2>1, <2>2, <2>3
    <3> QED
      BY <3>1, <3>2 DEF AttemptsOf, Begins
  <2>7. ReqOK(r, q, legs[r], tried[r], regs)
    BY <1>2, <2>4, <2>5 DEF ReqOK
  <2>8. Moves(r)
    BY <1>2, <2>1, <2>2, <2>3, <2>6, <2>7, ReqFacts DEF Moves
  <2>9. Balanced(r) /\ active' \in [Providers -> 0..Concurrent]
    BY <1>1, <2>1, StillBalanced
  <2> QED
    BY <1>1, <2>8, <2>9 DEF Keeps
<1> QED
  BY <1>7, <1>8, <1>9

\* A step of a request whose legs have no slot, before or after it.
LEMMA BalancedSlotless ==
    ASSUME RoutingInv, NEW r \in Requests, UNCHANGED active, NoSlots(r),
           ~HasSlot(legs[r][1]), ~HasSlot(legs[r][2])
    PROVE  Balanced(r) /\ active' \in [Providers -> 0..Concurrent]
<1>1. \A p : Slots(legs[r][1], p) = 0 /\ Slots(legs[r][2], p) = 0
  BY DEF Slots, Has
<1>2. \A p : Slots(legs'[r][1], p) = Slots(legs[r][1], p)
             /\ Slots(legs'[r][2], p) = Slots(legs[r][2], p)
  BY <1>1 DEF NoSlots
<1> QED
  BY <1>2, StillBalanced

LEMMA FirstReturnsKeeps ==
    ASSUME RoutingInv, NEW r \in Requests, FirstReturns(r)
    PROVE  Keeps(r)
<1>1. /\ req[r].at = "hedge_wait" /\ InLoop(req[r]) /\ UNCHANGED <<registry, active>>
      /\ legs[r][1].at \in {"ok", "failed"} /\ ~HasSlot(legs[r][1])
  BY DEF FirstReturns, InLoop, HasSlot
<1>2. /\ legs[r][2] = NoLeg /\ ~HasSlot(legs[r][2]) /\ legs[r][1].prov \in Providers
      /\ legs[r][1].at = "failed" => legs[r][1].err \in ErrorKind
  BY <1>1, ReqFacts DEF LegsOK, LegOK, NoLeg, HasSlot
<1>3. CASE legs[r][1].at = "ok"
  <2>1. Answered(r, legs[r][1].prov) /\ ClearLegs(r) /\ UNCHANGED <<breaker, tried>>
    BY <1>3 DEF FirstReturns
  <2>2. NoLegs(r) /\ NoSlots(r) /\ DOMAIN breaker' = Providers
    BY <2>1, ClearedLegs, ReqFacts
  <2>3. Moves(r)
    BY <1>1, <1>2, <2>1, <2>2, AnswerMoves
  <2> QED
    BY <1>1, <1>2, <2>2, <2>3, BalancedSlotless DEF Keeps
<1>4. CASE legs[r][1].at = "failed"
  <2>1. Handle(r, breaker, legs[r][1].err) /\ DOMAIN breaker = Providers
    BY <1>4 DEF FirstReturns, RoutingInv, RoutingTypes
  <2>2. Moves(r) /\ NoSlots(r)
    BY <1>1, <1>2, <1>4, <2>1, HandleMoves
  <2> QED
    BY <1>1, <1>2, <2>2, BalancedSlotless DEF Keeps
<1> QED
  BY <1>1, <1>3, <1>4

LEMMA RaceWonKeeps ==
    ASSUME RoutingInv, NEW r \in Requests, NEW i \in 1..2, RaceWon(r, i)
    PROVE  Keeps(r)
<1> DEFINE o == legs[r][3 - i]
<1>1. /\ req[r].at = "racing" /\ InLoop(req[r]) /\ UNCHANGED <<registry, tried>>
      /\ legs[r][i].at = "ok" /\ ClearLegs(r) /\ Answered(r, legs[r][i].prov)
      /\ breaker' = CancelledBreakers(o, breaker) /\ active' = CancelledActive(o, active)
  BY DEF RaceWon, InLoop
<1>2. 3 - i \in 1..2 /\ 3 - i # i
  OBVIOUS
<1>3. LegOK(legs[r][i], regs) /\ legs[r][i].prov \in Providers
  BY <1>1, ReqFacts DEF LegOK
<1>4. NoLegs(r) /\ NoSlots(r)
  BY <1>1, ClearedLegs
<1>5. DOMAIN breaker' = Providers
  BY <1>1, BreakersKept DEF RoutingInv, RoutingTypes
<1>6. Moves(r)
  BY <1>1, <1>3, <1>4, <1>5, AnswerMoves
<1>7. Lets(r, 3 - i)
  <2>1. \A p : Slots(legs[r][i], p) = 0
    BY <1>1 DEF Slots, Has, HasSlot
  <2>2. i = 1 \/ i = 2
    OBVIOUS
  <2> QED
    BY <1>4, <2>1, <2>2, SlotsNat DEF Lets, NoSlots
<1>8. CASE HasSlot(o)
  <2>1. active' = Freeing(legs[r][3 - i].prov, active)
    BY <1>1, <1>8 DEF CancelledActive
  <2> QED
    BY <1>1, <1>2, <1>6, <1>7, <1>8, <2>1, BalancedFreeing DEF Keeps
<1>9. CASE ~HasSlot(o)
  <2>1. UNCHANGED active
    BY <1>1, <1>9 DEF CancelledActive
  <2> QED
    BY <1>1, <1>2, <1>6, <1>7, <1>9, <2>1, BalancedWithout DEF Keeps
<1> QED
  BY <1>8, <1>9

LEMMA RaceLostKeeps ==
    ASSUME RoutingInv, NEW r \in Requests, RaceLost(r)
    PROVE  Keeps(r)
<1>1. /\ req[r].at = "racing" /\ InLoop(req[r]) /\ UNCHANGED <<registry, active>>
      /\ legs[r][1].at = "failed" /\ legs[r][2].at = "failed"
  BY DEF RaceLost, InLoop
<1>2. ~HasSlot(legs[r][1]) /\ ~HasSlot(legs[r][2])
  BY <1>1 DEF HasSlot
<1>3. PICK k \in ErrorKind : k = legs[r][1].err
  BY <1>1, ReqFacts DEF LegOK
<1>4. CASE Finish(r, k) /\ ClearLegs(r) /\ UNCHANGED <<breaker, tried>>
  <2>1. k \in Outcome /\ k # "unavailable"
    BY DEF Outcome, ErrorKind
  <2>2. NoLegs(r) /\ NoSlots(r) /\ DOMAIN breaker' = Providers
    BY <1>4, ClearedLegs, ReqFacts
  <2>3. Moves(r)
    BY <1>4, <2>1, <2>2, EndClearedQuiet
  <2> QED
    BY <1>1, <1>2, <2>2, <2>3, BalancedSlotless DEF Keeps
<1>5. CASE Handle(r, breaker, k)
  <2>1. DOMAIN breaker = Providers
    BY DEF RoutingInv, RoutingTypes
  <2>2. Moves(r) /\ NoSlots(r)
    BY <1>1, <1>5, <2>1, HandleMoves
  <2> QED
    BY <1>1, <1>2, <2>2, BalancedSlotless DEF Keeps
<1> QED
  BY <1>3, <1>4, <1>5 DEF RaceLost

LEMMA SaveKeeps ==
    ASSUME RoutingInv, NEW r \in Requests, Save(r)
    PROVE  Keeps(r)
<1>1. req[r].at = "saving" /\ UNCHANGED <<registry, breaker, active, legs, tried>>
  BY DEF Save
<1>2. PICK o \in {"ok", "gone"} : Finish(r, o)
  BY DEF Save
<1>3. o \in Outcome /\ o # "unavailable"
  BY DEF Outcome
<1>4. NoLegs(r) /\ DOMAIN breaker' = Providers
  BY <1>1, ReqFacts DEF LegsOK, NoLegs
<1>5. Moves(r)
  BY <1>1, <1>2, <1>3, <1>4, EndClearedQuiet
<1>6. Balanced(r) /\ active' \in [Providers -> 0..Concurrent]
  BY <1>1, StillBalanced
<1> QED
  BY <1>1, <1>5, <1>6 DEF Keeps

LEMMA OpenStreamKeeps ==
    ASSUME RoutingInv, NEW r \in Requests, OpenStream(r)
    PROVE  Keeps(r)
<1> DEFINE l == legs[r][1]
<1>1. /\ r \in Streams /\ req[r].at = "calling" /\ l.at = "call"
      /\ UNCHANGED <<registry, breaker, active, tried>>
  BY DEF OpenStream
<1>2. CASE present[l.prov]
  <2> DEFINE q == [req[r] EXCEPT !.at = "streaming"]
  <2>1. req' = [req EXCEPT ![r] = q] /\ UNCHANGED legs
    BY <1>2 DEF OpenStream
  <2>2. req[r] \in Req /\ tried[r] \in Trials /\ legs[r] \in Pair
        /\ ReqOK(r, req[r], legs[r], tried[r], regs)
    BY ReqFacts
  <2>3. /\ q \in Req /\ q.at = "streaming" /\ q.ix = req[r].ix /\ q.plan = req[r].plan
        /\ q.skip = req[r].skip
    BY <2>2 DEF Req, ReqAt
  <2> HIDE DEF q
  <2>4. req'[r] = q
    BY <2>1 DEF RoutingInv, RoutingTypes
  <2>5. PlanOK(q, tried[r])
    BY <1>1, <2>2, <2>3 DEF ReqOK, PlanOK, InLoop, TriedTo
  <2>6. LegsOK(r, q, legs[r])
    BY <1>1, <2>2, <2>3, RoutingAssumption DEF ReqOK, LegsOK, InLoop
  <2>7. ReqOK(r, q, legs[r], tried[r], regs)
    BY <2>2, <2>5, <2>6 DEF ReqOK
  <2>8. AttemptsOf(r)
    <3>1. \A i \in 1..2 : legs[r][i].tries \in Nat
      BY <2>2 DEF Pair, Leg
    <3> QED
      BY <2>1, <2>3, <2>4, <3>1 DEF AttemptsOf, Begins
  <2>9. Moves(r)
    BY <1>1, <2>1, <2>2, <2>3, <2>4, <2>7, <2>8, ReqFacts DEF Moves
  <2>10. Balanced(r) /\ active' \in [Providers -> 0..Concurrent]
    BY <1>1, <2>1, StillBalanced
  <2> QED
    BY <1>1, <2>9, <2>10 DEF Keeps
<1>3. CASE ~present[l.prov]
  <2>1. Finish(r, "gone") /\ ClearLegs(r) /\ "gone" \in Outcome /\ "gone" # "unavailable"
    BY <1>3 DEF OpenStream, Outcome
  <2>2. NoLegs(r) /\ NoSlots(r) /\ DOMAIN breaker' = Providers
    BY <1>1, <2>1, ClearedLegs, ReqFacts
  <2>3. Moves(r)
    BY <1>1, <2>1, <2>2, EndClearedQuiet
  <2>4. legs[r][2] = NoLeg
    BY <1>1, ReqFacts DEF LegsOK
  <2>5. active \in [Providers -> 0..Concurrent]
    BY DEF RoutingInv, RoutingTypes
  <2>6. Balanced(r)
    <3> SUFFICES ASSUME NEW p \in Providers, present[p], regs[p] = 1
                 PROVE  active'[p] + Slots(legs[r][1], p) + Slots(legs[r][2], p)
                          = active[p] + Slots(legs'[r][1], p) + Slots(legs'[r][2], p)
      BY DEF Balanced
    <3>1. Slots(legs[r][1], p) = 0 /\ Slots(legs[r][2], p) = 0
      BY <1>3, <2>4 DEF Slots, Has, HasSlot, NoLeg
    <3>2. Slots(legs'[r][1], p) = 0 /\ Slots(legs'[r][2], p) = 0
      BY <2>2 DEF NoSlots
    <3> QED
      BY <1>1, <2>5, <3>1, <3>2
  <2> QED
    BY <1>1, <2>3, <2>5, <2>6 DEF Keeps
<1> QED
  BY <1>2, <1>3

LEMMA StreamEndsKeeps ==
    ASSUME RoutingInv, NEW r \in Requests, StreamEnds(r)
    PROVE  Keeps(r)
<1> DEFINE l == legs[r][1]
<1>1. /\ req[r].at = "streaming" /\ ClearLegs(r) /\ UNCHANGED <<registry, tried>>
      /\ active' = Freeing(l.prov, active)
  BY DEF StreamEnds
<1>2. l.at = "call" /\ HasSlot(l)
  BY <1>1, ReqFacts DEF LegsOK, HasSlot
<1>3. NoLegs(r)
  BY <1>1, ClearedLegs
<1>4. PICK o \in Outcome : Finish(r, o) /\ o # "unavailable"
  <2>1. CASE Finish(r, IF present[l.prov] THEN "ok" ELSE "gone")
    BY <2>1 DEF Outcome
  <2>2. ASSUME NEW k \in ProviderErrors, Finish(r, ErrorSeen(l, k))
        PROVE  ErrorSeen(l, k) \in Outcome /\ ErrorSeen(l, k) # "unavailable"
    BY RoutingAssumption DEF ErrorSeen, Outcome, ErrorKind
  <2> QED
    BY <2>1, <2>2 DEF StreamEnds
<1>5. DOMAIN breaker' = Providers
  BY BreakersKept DEF StreamEnds
<1>6. Moves(r)
  BY <1>1, <1>3, <1>4, <1>5, EndClearedQuiet
<1>7. Lets(r, 1)
  BY <1>1, <1>3, ClearedLets
<1> QED
  BY <1>1, <1>2, <1>6, <1>7, BalancedFreeing DEF Keeps

LEMMA EmbedEndsKeeps ==
    ASSUME RoutingInv, NEW r \in Requests, EmbedEnds(r)
    PROVE  Keeps(r)
<1> DEFINE p == legs[r][1].prov
<1>1. legs[r][1].at = "embed" /\ UNCHANGED <<registry, active>> /\ ~HasSlot(legs[r][1])
  BY DEF EmbedEnds, HasSlot
<1>2. /\ req[r].at = "calling" /\ InLoop(req[r]) /\ legs[r][2] = NoLeg
      /\ ~HasSlot(legs[r][2]) /\ DOMAIN breaker = Providers
  BY <1>1, ReqFacts DEF LegsOK, InLoop, HasSlot, NoLeg, RoutingInv, RoutingTypes
<1>3. ASSUME NEW o \in {"gone", "ok"}, Finish(r, o), ClearLegs(r), UNCHANGED tried,
             DOMAIN breaker' = Providers
      PROVE  Keeps(r)
  <2>1. o \in Outcome /\ o # "unavailable"
    BY DEF Outcome
  <2>2. NoLegs(r) /\ NoSlots(r)
    BY <1>3, ClearedLegs
  <2>3. Moves(r)
    BY <1>3, <2>1, <2>2, EndClearedQuiet
  <2> QED
    BY <1>1, <1>2, <2>2, <2>3, BalancedSlotless DEF Keeps
<1>4. ASSUME NEW k \in ProviderErrors, NEW B, DOMAIN B = Providers, Handle(r, B, k)
      PROVE  Keeps(r)
  <2>1. k \in ErrorKind
    BY RoutingAssumption
  <2>2. Moves(r) /\ NoSlots(r)
    BY <1>2, <1>4, <2>1, HandleMoves
  <2> QED
    BY <1>1, <1>2, <2>2, BalancedSlotless DEF Keeps
<1>5. CASE Finish(r, "gone") /\ ClearLegs(r) /\ UNCHANGED <<breaker, tried>>
  BY <1>2, <1>3, <1>5
<1>6. CASE /\ breaker' = [breaker EXCEPT ![p] = RecordSuccess(@)]
           /\ Finish(r, "ok") /\ ClearLegs(r) /\ UNCHANGED tried
  BY <1>2, <1>3, <1>6
<1>7. CASE \E k \in ProviderErrors :
              Handle(r, [breaker EXCEPT ![p] = IF k \in BREAKER_COUNTED
                                               THEN RecordFailure(@)
                                               ELSE Release(@)], k)
  BY <1>2, <1>4, <1>7
<1> QED
  BY <1>5, <1>6, <1>7 DEF EmbedEnds

\* Giving the slot of a cancelled leg back, if it has one.
LEMMA CancelledCount ==
    ASSUME NEW A \in [Providers -> 0..Concurrent], NEW l, HasSlot(l) => l.prov \in Providers
    PROVE  /\ CancelledActive(l, A) \in [Providers -> 0..Concurrent]
           /\ \A p \in Providers : present[p] /\ A[p] >= Slots(l, p) =>
                 CancelledActive(l, A)[p] = A[p] - Slots(l, p)
<1>1. Concurrent \in Nat
  BY RoutingAssumption
<1>2. CASE HasSlot(l)
  <2> DEFINE x == l.prov
  <2>1. A[x] > 0 => A[x] - 1 \in 0..Concurrent
    BY <1>1, <1>2
  <2>2. CancelledActive(l, A) = Freeing(x, A)
    BY <1>2 DEF CancelledActive
  <2>3. \A p : Slots(l, p) = IF p = x THEN 1 ELSE 0
    BY <1>2 DEF Slots, Has
  <2> HIDE DEF x
  <2>4. x \in Providers
    BY <1>2 DEF x
  <2>5. Freeing(x, A) \in [Providers -> 0..Concurrent]
    BY <2>1, <2>4 DEF Freeing
  <2>6. ASSUME NEW p \in Providers, present[p], A[p] >= Slots(l, p)
        PROVE  Freeing(x, A)[p] = A[p] - Slots(l, p)
    BY <2>3, <2>4, <2>6 DEF Freeing
  <2> QED
    BY <2>2, <2>5, <2>6
<1>3. CASE ~HasSlot(l)
  BY <1>1, <1>3 DEF CancelledActive, Slots, Has
<1> QED
  BY <1>2, <1>3

LEMMA CancelKeeps ==
    ASSUME RoutingInv, NEW r \in Requests, Cancel(r)
    PROVE  Keeps(r)
<1>1. /\ req[r].at \notin {"new", "done"} /\ UNCHANGED <<registry, tried>>
      /\ Finish(r, "cancelled") /\ "cancelled" \in Outcome /\ "cancelled" # "unavailable"
  BY DEF Cancel, Outcome
<1>2. /\ legs[r] \in Pair /\ LegOK(legs[r][1], regs) /\ LegOK(legs[r][2], regs)
      /\ LegsOK(r, req[r], legs[r]) /\ tried[r] \in Trials
      /\ tried' = [tried EXCEPT ![r] = tried[r]]
  BY <1>1, ReqFacts
<1>3. CASE req[r].at = "hedge_wait"
  <2> DEFINE l == IF Unsettled(legs[r][1]) THEN legs[r][1] ELSE NoLeg
  <2>1. legs' = [legs EXCEPT ![r][1] = l] /\ UNCHANGED <<breaker, active>>
    BY <1>3 DEF Cancel
  <2>2. NoLeg \in Leg
    <3>1. 0 \in 0..MaxAttempts /\ 0 \in 0..MaxRegs
      BY RoutingAssumption
    <3> QED
      BY <3>1 DEF NoLeg, Leg, LegAt
  <2>3. /\ legs' = [legs EXCEPT ![r] = legs'[r]] /\ legs'[r] \in Pair
        /\ legs'[r][1] = l /\ legs'[r][2] = legs[r][2]
    BY <1>2, <2>1, <2>2 DEF RoutingInv, RoutingTypes, Pair
  <2>4. legs'[r][2] = NoLeg
    BY <1>2, <1>3, <2>3 DEF LegsOK
  <2>5. l.at \notin {"ok", "failed", "embed"}
    BY <1>2, <1>3 DEF Unsettled, NoLeg, LegsOK
  <2>6. Moves(r)
    <3>1. DOMAIN breaker' = Providers /\ l \in {legs[r][1], NoLeg}
      BY <2>1, ReqFacts
    <3> HIDE DEF l
    <3> QED
      BY <1>1, <1>2, <2>3, <2>4, <2>5, <3>1, EndMoves
  <2>7. \A p : Slots(l, p) = Slots(legs[r][1], p)
    BY DEF Slots, Has, HasSlot, Unsettled, NoLeg
  <2>8. Balanced(r) /\ active' \in [Providers -> 0..Concurrent]
    BY <2>1, <2>3, <2>7, StillBalanced
  <2> QED
    BY <1>1, <2>6, <2>8 DEF Keeps
<1>4. CASE req[r].at # "hedge_wait"
  <2> DEFINE A == CancelledActive(legs[r][1], active)
  <2>1. /\ ClearLegs(r) /\ active' = CancelledActive(legs[r][2], A)
        /\ breaker' = CancelledBreakers(legs[r][2], CancelledBreakers(legs[r][1], breaker))
    BY <1>4 DEF Cancel
  <2>2. NoLegs(r) /\ NoSlots(r)
    BY <2>1, ClearedLegs
  <2>3. DOMAIN breaker' = Providers
    BY <2>1, BreakersKept DEF RoutingInv, RoutingTypes
  <2>4. Moves(r)
    BY <1>1, <2>2, <2>3, EndClearedQuiet
  <2>5. /\ HasSlot(legs[r][1]) => legs[r][1].prov \in Providers
        /\ HasSlot(legs[r][2]) => legs[r][2].prov \in Providers
    BY <1>2 DEF LegOK, HasSlot
  <2>6. active \in [Providers -> 0..Concurrent]
    BY DEF RoutingInv, RoutingTypes
  <2>7. A \in [Providers -> 0..Concurrent]
    BY <2>5, <2>6, CancelledCount
  <2> HIDE DEF A
  <2>8. active' \in [Providers -> 0..Concurrent]
    BY <2>1, <2>5, <2>7, CancelledCount
  <2>9. Balanced(r)
    <3> SUFFICES ASSUME NEW p \in Providers, present[p], regs[p] = 1
                 PROVE  active'[p] + Slots(legs[r][1], p) + Slots(legs[r][2], p)
                          = active[p] + Slots(legs'[r][1], p) + Slots(legs'[r][2], p)
      BY DEF Balanced
    <3>1. active[p] >= Slots(legs[r][1], p) + Slots(legs[r][2], p) /\ active[p] \in Nat
      BY <2>6, SlotsSeen
    <3>2. A[p] = active[p] - Slots(legs[r][1], p)
      <4>1. active[p] >= Slots(legs[r][1], p)
        BY <3>1, SlotsNat
      <4> QED
        BY <2>5, <2>6, <4>1, CancelledCount DEF A
    <3>3. active'[p] = A[p] - Slots(legs[r][2], p)
      <4>1. A[p] >= Slots(legs[r][2], p)
        BY <3>1, <3>2, SlotsNat
      <4> QED
        BY <2>1, <2>5, <2>7, <4>1, CancelledCount
    <3>4. Slots(legs'[r][1], p) = 0 /\ Slots(legs'[r][2], p) = 0
      BY <2>2 DEF NoSlots
    <3> QED
      BY <3>1, <3>2, <3>3, <3>4, SlotsNat
  <2> QED
    BY <1>1, <2>4, <2>8, <2>9 DEF Keeps
<1> QED
  BY <1>3, <1>4

LEMMA RequestKeeps ==
    ASSUME RoutingInv, NEW r \in Requests,
           Plan(r) \/ ReqStep(r) \/ (\E i \in 1..2 : LegStep(r, i)) \/ Cancel(r)
    PROVE  Keeps(r)
<1>1. CASE ReqStep(r)
  BY <1>1, CacheHitKeeps, BeginKeeps, HedgeKeeps, FirstReturnsKeeps, RaceWonKeeps,
     RaceLostKeeps, SaveKeeps, OpenStreamKeeps, StreamEndsKeeps, EmbedEndsKeeps DEF ReqStep
<1>2. CASE \E i \in 1..2 : LegStep(r, i)
  BY <1>2, LegStepKeeps
<1> QED
  BY <1>1, <1>2, PlanKeeps, CancelKeeps

-----------------------------------------------------------------------------
\* The clock and the registry.

\* No request is touched.
LEMMA NoAttempts ==
    ASSUME RoutingInv, UNCHANGED legs, \A r \in Requests : req'[r].ix = req[r].ix
    PROVE  \A r \in Requests : AttemptsOf(r)
<1> SUFFICES ASSUME NEW r \in Requests PROVE AttemptsOf(r)
  OBVIOUS
<1>1. \A i \in 1..2 : legs[r][i].tries \in Nat
  BY ReqFacts DEF Pair, Leg
<1> QED
  BY <1>1 DEF AttemptsOf, Begins

LEMMA TickKeeps ==
    ASSUME RoutingInv, Tick
    PROVE  RoutingInv' /\ \A r \in Requests : AttemptsOf(r)
<1>1. UNCHANGED <<registry, active, legs, tried>> /\ DOMAIN breaker' = Providers
  BY DEF Tick
<1>2. ASSUME NEW r \in Requests
      PROVE  /\ req'[r] \in Req /\ req'[r].at = req[r].at /\ req'[r].ix = req[r].ix
             /\ req'[r].plan = req[r].plan /\ req'[r].skip = req[r].skip
             /\ req'[r].by = req[r].by /\ req'[r].result = req[r].result
  <2>1. req[r] \in Req
    BY ReqFacts
  <2>2. req'[r] = IF Running(r) /\ req[r].left > 0
                  THEN [req[r] EXCEPT !.left = req[r].left - 1] ELSE req[r]
    BY DEF Tick
  <2>3. req[r].left > 0 => req[r].left - 1 \in 0..DeadlineTicks
    BY <2>1, RoutingAssumption DEF Req
  <2>4. [req[r] EXCEPT !.left = req[r].left - 1].at = req[r].at
    BY <2>1 DEF Req
  <2> QED
    BY <2>1, <2>2, <2>3 DEF Req
<1>3. RoutingTypes'
  <2>1. req' \in [Requests -> Req]
    BY <1>2 DEF Tick
  <2> QED
    BY <1>1, <2>1 DEF RoutingInv, RoutingTypes, registry
<1>4. ASSUME NEW r \in Requests PROVE ReqOK(r, req'[r], legs'[r], tried'[r], regs')
  <2>1. ReqOK(r, req[r], legs[r], tried[r], regs)
    BY ReqFacts
  <2>2. PlanOK(req'[r], tried[r])
    <3>1. \A n : TriedTo(req'[r], tried[r], n) <=> TriedTo(req[r], tried[r], n)
      BY <1>2 DEF TriedTo
    <3>2. PlanOK(req[r], tried[r])
      BY <2>1 DEF ReqOK
    <3> QED
      BY <1>2, <3>1, <3>2 DEF PlanOK, InLoop
  <2>3. LegsOK(r, req'[r], legs[r])
    BY <1>2, <2>1 DEF ReqOK, LegsOK, InLoop
  <2> QED
    BY <1>1, <2>1, <2>2, <2>3 DEF ReqOK, registry
<1>5. SlotsCounted'
  BY <1>1 DEF RoutingInv, SlotsCounted, Held, registry
<1>6. \A r \in Requests : AttemptsOf(r)
  BY <1>1, <1>2, NoAttempts
<1> QED
  BY <1>1, <1>3, <1>4, <1>5, <1>6 DEF RoutingInv, registry

LEMMA DropKeeps ==
    ASSUME RoutingInv, NEW p \in Providers, DropProvider(p)
    PROVE  RoutingInv' /\ \A r \in Requests : AttemptsOf(r)
<1>1. /\ UNCHANGED <<regs, req, legs, tried>>
      /\ present' = [present EXCEPT ![p] = FALSE]
      /\ active' = [active EXCEPT ![p] = 0]
      /\ DOMAIN breaker' = Providers
  BY DEF DropProvider, RoutingInv, RoutingTypes
<1>2. RoutingTypes'
  <2>1. 0 \in 0..Concurrent
    BY RoutingAssumption
  <2> QED
    BY <1>1, <2>1 DEF RoutingInv, RoutingTypes
<1>3. \A q \in Providers : present'[q] => q # p /\ present[q] /\ active'[q] = active[q]
  BY <1>1 DEF RoutingInv, RoutingTypes
<1>4. SlotsCounted'
  BY <1>1, <1>3 DEF RoutingInv, SlotsCounted, Held
<1>5. \A r \in Requests : AttemptsOf(r)
  BY <1>1, NoAttempts
<1> QED
  BY <1>1, <1>2, <1>3, <1>4, <1>5 DEF RoutingInv

LEMMA SetKeeps ==
    ASSUME RoutingInv, NEW p \in Providers, SetProvider(p)
    PROVE  RoutingInv' /\ \A r \in Requests : AttemptsOf(r)
<1>1. /\ UNCHANGED <<req, legs, tried>> /\ ~present[p] /\ regs[p] < MaxRegs
      /\ present' = [present EXCEPT ![p] = TRUE]
      /\ regs' = [regs EXCEPT ![p] = @ + 1]
      /\ active' = [active EXCEPT ![p] = 0]
      /\ DOMAIN breaker' = Providers
  BY DEF SetProvider, RoutingInv, RoutingTypes
<1>2. /\ regs'[p] = regs[p] + 1 /\ regs[p] \in Nat /\ regs[p] + 1 \in 0..MaxRegs
      /\ \A q \in Providers : q # p => regs'[q] = regs[q] /\ present'[q] = present[q]
                                       /\ active'[q] = active[q]
      /\ \A q \in Providers : regs[q] \in Nat /\ regs'[q] \in Nat /\ regs[q] <= regs'[q]
  BY <1>1, RoutingAssumption DEF RoutingInv, RoutingTypes
<1>3. RoutingTypes'
  <2>1. 0 \in 0..Concurrent
    BY RoutingAssumption
  <2> QED
    BY <1>1, <1>2, <2>1 DEF RoutingInv, RoutingTypes
<1>4. ASSUME NEW r \in Requests PROVE ReqOK(r, req'[r], legs'[r], tried'[r], regs')
  <2>1. ReqOK(r, req[r], legs[r], tried[r], regs) /\ legs[r] \in Pair
    BY ReqFacts
  <2>2. ASSUME NEW i \in 1..2, LegOK(legs[r][i], regs) PROVE LegOK(legs[r][i], regs')
    <3>1. legs[r][i].reg \in Nat
      BY <2>1 DEF Pair, Leg
    <3> QED
      BY <1>2, <2>2, <3>1 DEF LegOK
  <2> QED
    BY <1>1, <2>1, <2>2 DEF ReqOK
<1>5. SlotsCounted'
  <2> SUFFICES ASSUME NEW q \in Providers, present'[q], regs'[q] = 1
               PROVE  active'[q] = Cardinality(Held(legs, q))
    BY <1>1 DEF SlotsCounted, Held
  <2>1. CASE q = p
    <3>1. ASSUME NEW x \in LegIds PROVE ~Has(legs[x[1]][x[2]], q)
      <4>1. x[1] \in Requests /\ x[2] \in 1..2
        BY DEF LegIds
      <4>2. LegOK(legs[x[1]][x[2]], regs) /\ legs[x[1]] \in Pair
        BY <4>1, ReqFacts
      <4>3. legs[x[1]][x[2]].reg \in Nat
        BY <4>1, <4>2 DEF Pair, Leg
      <4> QED
        BY <1>2, <2>1, <4>2, <4>3 DEF LegOK, Has, HasSlot
    <3>2. Held(legs, q) = {}
      BY <3>1 DEF Held
    <3>3. active'[q] = 0
      BY <1>1, <2>1 DEF RoutingInv, RoutingTypes
    <3> QED
      BY <3>2, <3>3, FS_EmptySet
  <2>2. CASE q # p
    BY <1>2, <2>2 DEF RoutingInv, SlotsCounted
  <2> QED
    BY <2>1, <2>2
<1>6. \A q \in Providers : present'[q] => regs'[q] >= 1
  BY <1>1, <1>2 DEF RoutingInv
<1>7. \A r \in Requests : AttemptsOf(r)
  BY <1>1, NoAttempts
<1> QED
  BY <1>3, <1>4, <1>5, <1>6, <1>7 DEF RoutingInv

LEMMA RoutingStep ==
    ASSUME RoutingInv, [Next]_vars
    PROVE  RoutingInv' /\ \A r \in Requests : AttemptsOf(r)
<1>1. CASE UNCHANGED vars
  <2>1. RoutingInv'
    BY <1>1 DEF vars, RoutingInv, RoutingTypes, SlotsCounted, Held
  <2> QED
    BY <1>1, <2>1, NoAttempts DEF vars
<1>2. CASE Tick
  BY <1>2, TickKeeps
<1>3. ASSUME NEW r \in Requests,
             Plan(r) \/ ReqStep(r) \/ (\E i \in 1..2 : LegStep(r, i)) \/ Cancel(r)
      PROVE  RoutingInv' /\ \A s \in Requests : AttemptsOf(s)
  BY <1>3, RequestKeeps, RequestStep
<1>4. ASSUME NEW p \in Providers, DropProvider(p) \/ SetProvider(p)
      PROVE  RoutingInv' /\ \A r \in Requests : AttemptsOf(r)
  BY <1>4, DropKeeps, SetKeeps
<1> QED
  BY <1>1, <1>2, <1>3, <1>4 DEF Next

-----------------------------------------------------------------------------
LEMMA RoutingAlways == Spec => []RoutingInv
<1>1. RoutingInv /\ [Next]_vars => RoutingInv'
  BY RoutingStep
<1> QED
  BY <1>1, RoutingStart, PTL DEF Spec

\* Whatever mixture of refusal, retry, failure, failover, hedging, streaming and
\* cancellation its requests go through, the active count of a provider's limiter
\* is the number of calls that hold one of its slots, and a request that has
\* ended by itself has no call running (_call_provider, _call_hedged).
THEOREM NothingLeaksAlways == Spec => []NothingLeaks
<1>1. ASSUME RoutingInv PROVE SlotsMatch
  <2> SUFFICES ASSUME NEW p \in Providers, present[p], regs[p] = 1
               PROVE  active[p] = Cardinality(HoldersOf(p))
    BY DEF SlotsMatch
  <2>1. ASSUME NEW x \in LegIds, Has(LegOf(x), p) PROVE Current(LegOf(x))
    <3>1. x[1] \in Requests /\ x[2] \in 1..2
      BY DEF LegIds
    <3>2. LegOK(LegOf(x), regs) /\ LegOf(x) \in Leg
      BY <1>1, <3>1, ReqFacts DEF LegOf, Pair
    <3>3. LegOf(x).reg \in Nat /\ LegOf(x).at # "none" /\ LegOf(x).prov = p
      BY <2>1, <3>2 DEF Leg, Has, HasSlot
    <3> QED
      BY <3>2, <3>3 DEF LegOK, Current
  <2>2. HoldersOf(p) = Held(legs, p)
    BY <2>1 DEF HoldersOf, Held, Has, LegOf
  <2> QED
    BY <1>1, <2>2 DEF RoutingInv, SlotsCounted
<1>2. ASSUME RoutingInv PROVE NothingLeftRunning
  <2> SUFFICES ASSUME NEW r \in Requests, req[r].at = "done",
                      req[r].result \notin {"cancelled", "gone"}
               PROVE  legs[r][1] = NoLeg /\ legs[r][2] = NoLeg
    BY DEF NothingLeftRunning
  <2> QED
    BY <1>2, ReqFacts DEF LegsOK
<1>3. RoutingInv => NothingLeaks
  BY <1>1, <1>2 DEF NothingLeaks
<1> QED
  BY <1>3, RoutingAlways, PTL

\* A request never ends with AllProvidersUnavailable while a provider of its plan
\* was neither called nor refused by its own breaker (the loop of _route and
\* _stream, with the providers a hedge has used).
THEOREM UnavailableMeansAllTriedAlways == Spec => []UnavailableMeansAllTried
<1>1. ASSUME RoutingInv PROVE UnavailableMeansAllTried
  BY <1>1, ReqFacts DEF UnavailableMeansAllTried, PlanOK
<1> QED
  BY <1>1, RoutingAlways, PTL

\* No provider is called a second time after it was given up, and no attempt goes
\* out after the deadline, on any path of any request.
THEOREM AttemptsAllowedAlways == Spec => AttemptsAllowed
<1> DEFINE NoSecond == \A r \in Requests, i \in 1..2 :
               Begins(r, i) => tried[r][legs'[r][i].prov] # "called"
           NotLate == \A r \in Requests, i \in 1..2 :
               legs'[r][i].at = "call" /\ legs[r][i].tries < legs'[r][i].tries => req[r].left > 0
<1>1. RoutingInv /\ [Next]_vars => [NoSecond]_vars
  BY RoutingStep DEF AttemptsOf
<1>2. RoutingInv /\ [Next]_vars => [NotLate]_vars
  BY RoutingStep DEF AttemptsOf
<1>3. Spec => [][NoSecond]_vars
  BY <1>1, RoutingAlways, PTL DEF Spec
<1>4. Spec => [][NotLate]_vars
  BY <1>2, RoutingAlways, PTL DEF Spec
<1> QED
  BY <1>3, <1>4 DEF AttemptsAllowed, NoSecondCall, NoAttemptPastDeadline

-----------------------------------------------------------------------------
\* Refinement: what a step does to the breaker of Watched.

\* The leg has been admitted by the breaker of Watched and not settled with it.
Calling(l) == Unsettled(l) /\ l.prov = Watched

WB == breaker[Watched]

SameCalls(r, i) == Calling(legs'[r][i]) <=> Calling(legs[r][i])

\* Seen from Watched, a step of request r is a read, an admission, or the end of
\* one call.
Quiet(r) ==
    /\ \A i \in 1..2 : SameCalls(r, i)
    /\ WB' \in {WB, Observed(WB)}
Adds(r, i) ==
    /\ ~Calling(legs[r][i]) /\ Calling(legs'[r][i]) /\ SameCalls(r, 3 - i)
    /\ WouldAllow(WB) /\ WB' = Allowed(WB)
Settles(r, i) ==
    /\ Calling(legs[r][i]) /\ ~Calling(legs'[r][i]) /\ SameCalls(r, 3 - i)
    /\ WB' \in {RecordSuccess(WB), RecordFailure(WB), Release(WB)}

BreakerStep(r) == Quiet(r) \/ \E i \in 1..2 : Adds(r, i) \/ Settles(r, i)

\* Watched stays registered, and nothing embeds.
WatchedInv == RoutingInv /\ present[Watched] /\ regs[Watched] = 1 /\ Embeds = {}

\* A leg that calls Watched has captured the breaker it has now.
LEMMA CallingCurrent ==
    ASSUME WatchedInv, NEW r \in Requests, NEW i \in 1..2, legs[r][i].at # "none",
           legs[r][i].prov = Watched
    PROVE  Current(legs[r][i])
<1>1. legs[r][i] \in Leg /\ LegOK(legs[r][i], regs)
  BY LegFacts DEF WatchedInv
<1>2. legs[r][i].reg \in Nat /\ 1 <= legs[r][i].reg /\ legs[r][i].reg <= 1
  BY <1>1 DEF Leg, LegOK, WatchedInv
<1> QED
  BY <1>2 DEF Current, WatchedInv

\* What the operators on breakers do to that of Watched.
LEMMA WatchedBreaker ==
    ASSUME WatchedInv
    PROVE  /\ \A p : ReleasedByName(p)[Watched] = IF p = Watched THEN Release(WB) ELSE WB
           /\ \A l, x : Captured(l, x)[Watched] =
                 IF l.prov = Watched /\ Current(l) THEN x ELSE WB
           /\ \A l, k : l.prov # Watched => AfterError(l, k)[Watched] = WB
           /\ \A l, k : l.prov = Watched /\ Current(l) =>
                 AfterError(l, k)[Watched] \in {RecordFailure(WB), Release(WB)}
<1>1. DOMAIN breaker = Providers /\ Watched \in Providers
  BY WatchedAssumption DEF WatchedInv, RoutingInv, RoutingTypes
<1> QED
  BY <1>1 DEF ReleasedByName, Captured, AfterError, WB, WatchedInv

\* A breaker that refuses is only read.
LEMMA RefusedIsRead == \A b : ~WouldAllow(b) => Allowed(b) = Observed(b)
BY DEF WouldAllow, Allowed

\* Watched is in the plan from i on.
Later(r, i) == \E k \in i..Len(req[r].plan) : req[r].plan[k] = Watched

NoCalls(r) == \A i \in 1..2 : ~Calling(legs'[r][i])

\* Passing it over, asking it in vain, or calling it.
LoopDone(r, B, i) ==
    \/ NoCalls(r) /\ breaker'[Watched] = B[Watched]
    \/ Later(r, i) /\ NoCalls(r) /\ breaker'[Watched] = Observed(B[Watched])
    \/ /\ Later(r, i) /\ Calling(legs'[r][1]) /\ ~Calling(legs'[r][2])
       /\ WouldAllow(B[Watched]) /\ breaker'[Watched] = Allowed(B[Watched])

LEMMA NoCallsCleared ==
    ASSUME RoutingInv, NEW r \in Requests, ClearLegs(r)
    PROVE  NoCalls(r)
<1>1. legs'[r][1] = NoLeg /\ legs'[r][2] = NoLeg
  BY ClearedLegs DEF NoLegs
<1> QED
  BY <1>1 DEF NoCalls, Calling, Unsettled, NoLeg

LEMMA ProceedWatched ==
    ASSUME WatchedInv, NEW r \in Requests, NEW B, DOMAIN B = Providers, NEW i \in Nat \ {0},
           Proceed(r, B, i)
    PROVE  LoopDone(r, B, i)
<1>1. RoutingInv /\ Watched \in Providers /\ present[Watched]
  BY WatchedAssumption DEF WatchedInv
<1>2. PICK plan \in Seq(Providers) : plan = req[r].plan
  BY <1>1, ReqFacts DEF Req
<1>3. PICK n \in Nat : n = Len(plan)
  BY <1>2, LenProperties
<1>4. PICK j \in Nat \ {0} :
         /\ j = Place(r, B, i)
         /\ j <= n => i <= j /\ j \in 1..n /\ j \in Stops(r, B, i)
         /\ j > n => j = n + 1
         /\ \A k \in i..(j - 1) : k <= n => k \notin Stops(r, B, i)
  BY <1>1, <1>2, <1>3, PlaceOK
<1> DEFINE refused == Refused(r, B, i)
           Bs == [q \in Providers |-> IF q \in refused THEN Allowed(B[q]) ELSE B[q]]
<1>5. Watched \in refused => Later(r, i) /\ ~WouldAllow(B[Watched])
  <2> SUFFICES ASSUME Watched \in refused PROVE Later(r, i) /\ ~WouldAllow(B[Watched])
    OBVIOUS
  <2>1. PICK k \in i..(j - 1) : plan[k] = Watched /\ Watched \notin req[r].skip
    BY <1>2, <1>4 DEF Refused
  <2>2. k \in i..n
    BY <1>3, <1>4, <2>1
  <2>3. k \notin Stops(r, B, i)
    BY <1>4, <2>1, <2>2
  <2> QED
    BY <1>1, <1>2, <1>3, <2>1, <2>2, <2>3 DEF Stops, Later
<1>6. Bs[Watched] = IF Watched \in refused THEN Allowed(B[Watched]) ELSE B[Watched]
  BY <1>1
<1>7. \/ Bs[Watched] = B[Watched]
      \/ Later(r, i) /\ Bs[Watched] = Observed(B[Watched])
  BY <1>5, <1>6, RefusedIsRead
<1>8. CASE ClearLegs(r) /\ breaker' = Bs
  BY <1>1, <1>7, <1>8, NoCallsCleared DEF LoopDone
<1>9. CASE /\ j <= n /\ present[plan[j]]
           /\ breaker' = [Bs EXCEPT ![plan[j]] = Allowed(@)]
           /\ legs' = [legs EXCEPT ![r] = <<NewLeg(r, plan[j], j = n), NoLeg>>]
  <2> DEFINE l == NewLeg(r, plan[j], j = n)
  <2>1. legs'[r][1] = l /\ legs'[r][2] = NoLeg
    BY <1>1, <1>9 DEF RoutingInv, RoutingTypes
  <2>2. l.prov = plan[j] /\ l.at = "start"
    BY DEF NewLeg, WatchedInv
  <2>3. ~Calling(legs'[r][2])
    BY <2>1 DEF Calling, Unsettled, NoLeg
  <2>4. CASE plan[j] = Watched
    <3>1. Calling(legs'[r][1])
      BY <2>1, <2>2, <2>4 DEF Calling, Unsettled
    <3>2. j \in i..n /\ j \in Stops(r, B, i)
      BY <1>4, <1>9
    <3>3. Later(r, i) /\ WouldAllow(B[Watched])
      BY <1>1, <1>2, <1>3, <2>4, <3>2 DEF Stops, Later
    <3>4. breaker'[Watched] = Allowed(Bs[Watched])
      BY <1>1, <1>9, <2>4
    <3>5. Bs[Watched] = B[Watched]
      BY <1>5, <1>6, <3>3
    <3> QED
      BY <2>3, <3>1, <3>3, <3>4, <3>5 DEF LoopDone
  <2>5. CASE plan[j] # Watched
    <3>1. NoCalls(r)
      BY <2>1, <2>2, <2>3, <2>5 DEF Calling, NoCalls
    <3>2. breaker'[Watched] = Bs[Watched]
      BY <1>1, <1>9, <2>5
    <3> QED
      BY <1>7, <3>1, <3>2 DEF LoopDone
  <2> QED
    BY <2>4, <2>5
<1> QED
  <2>1. Place(r, B, i) = j /\ req[r].plan = plan /\ Len(req[r].plan) = n
    BY <1>2, <1>3, <1>4
  <2> QED
    BY <2>1, <1>8, <1>9 DEF Proceed

LEMMA HandleWatched ==
    ASSUME WatchedInv, NEW r \in Requests, NEW k, NEW B, DOMAIN B = Providers,
           Handle(r, B, k)
    PROVE  LoopDone(r, B, req[r].ix + 1)
<1>1. CASE k = "deadline" \/ k \notin FAILOVER
  BY <1>1, NoCallsCleared DEF Handle, LoopDone, WatchedInv
<1>2. CASE ~(k = "deadline" \/ k \notin FAILOVER)
  <2>1. req[r].ix + 1 \in Nat \ {0}
    BY ReqFacts DEF WatchedInv, Req
  <2> QED
    BY <1>2, <2>1, ProceedWatched DEF Handle
<1> QED
  BY <1>1, <1>2

\* The loop goes on while no leg of the request calls Watched.
LEMMA LoopStep ==
    ASSUME NEW r \in Requests, NEW B, NEW n, B[Watched] = WB, LoopDone(r, B, n),
           ~Calling(legs[r][1]), ~Calling(legs[r][2])
    PROVE  BreakerStep(r)
<1>1. \A i \in 1..2 : ~Calling(legs[r][i])
  OBVIOUS
<1>2. CASE NoCalls(r)
  BY <1>1, <1>2 DEF LoopDone, NoCalls, BreakerStep, Quiet, SameCalls, WB
<1>3. CASE Calling(legs'[r][1])
  <2>1. ~Calling(legs'[r][2]) /\ WouldAllow(WB) /\ WB' = Allowed(WB)
    BY <1>3 DEF LoopDone, NoCalls, WB
  <2>2. 3 - 1 = 2 /\ 1 \in 1..2
    OBVIOUS
  <2>3. SameCalls(r, 2)
    BY <1>1, <2>1 DEF SameCalls
  <2> QED
    BY <1>1, <1>3, <2>1, <2>2, <2>3 DEF BreakerStep, Adds
<1> QED
  BY <1>2, <1>3 DEF LoopDone

\* The plan names Watched once.
LEMMA NotLater ==
    ASSUME WatchedInv, NEW r \in Requests, InLoop(req[r]), legs[r][1].prov = Watched
    PROVE  ~Later(r, req[r].ix + 1)
<1>1. PlanOK(req[r], tried[r]) /\ LegsOK(r, req[r], legs[r]) /\ req[r] \in Req
  BY ReqFacts DEF WatchedInv
<1>2. PICK n \in Nat : n = Len(req[r].plan)
  BY <1>1, LenProperties DEF Req
<1>3. req[r].ix \in 1..n /\ req[r].plan[req[r].ix] = Watched
  BY <1>1, <1>2 DEF PlanOK, LegsOK
<1>4. \A k \in 1..n : req[r].plan[k] = Watched => k = req[r].ix
  BY <1>1, <1>2, <1>3 DEF PlanOK
<1> QED
  BY <1>2, <1>3, <1>4 DEF Later

\* A leg that fails, having told the breaker it called what came of it.
LEMMA LegFailsWatched ==
    ASSUME WatchedInv, NEW r \in Requests, NEW i \in 1..2, NEW k,
           NEW B, DOMAIN B = Providers, LegFails(r, i, B, k),
           legs[r][i].at \in {"start", "admit", "call", "backoff"},
           legs[r][i].prov # Watched => B[Watched] = WB,
           legs[r][i].prov = Watched => B[Watched] \in {RecordSuccess(WB), RecordFailure(WB), Release(WB)}
    PROVE  BreakerStep(r)
<1>1. LegsOK(r, req[r], legs[r]) /\ legs[r] \in Pair /\ legs \in [Requests -> Pair]
  BY ReqFacts DEF WatchedInv, RoutingInv, RoutingTypes
<1>2. Calling(legs[r][i]) <=> legs[r][i].prov = Watched
  BY DEF Calling, Unsettled
<1>3. CASE req[r].at = "calling"
  <2>1. i = 1 /\ legs[r][2] = NoLeg /\ 3 - i = 2 /\ InLoop(req[r])
    BY <1>1, <1>3 DEF LegsOK, NoLeg, InLoop
  <2>2. ~Calling(legs[r][2])
    BY <2>1 DEF Calling, Unsettled, NoLeg
  <2>3. LoopDone(r, B, req[r].ix + 1)
    BY <1>3, HandleWatched DEF LegFails
  <2>4. CASE legs[r][i].prov = Watched
    <3>1. NoCalls(r) /\ breaker'[Watched] = B[Watched]
      BY <2>1, <2>3, <2>4, NotLater DEF LoopDone
    <3>2. Settles(r, 1)
      BY <1>2, <2>1, <2>2, <2>4, <3>1 DEF Settles, SameCalls, NoCalls, WB
    <3> QED
      BY <3>2 DEF BreakerStep
  <2>5. CASE legs[r][i].prov # Watched
    BY <1>2, <2>1, <2>2, <2>3, <2>5, LoopStep
  <2> QED
    BY <2>4, <2>5
<1>4. CASE req[r].at # "calling"
  <2>1. /\ legs' = [legs EXCEPT ![r][i] = IF req[r].at = "done" THEN NoLeg
                                           ELSE [@ EXCEPT !.at = "failed", !.err = k]]
        /\ breaker' = B
    BY <1>4 DEF LegFails
  <2>2. legs'[r][i].at \in {"none", "failed"} /\ SameCalls(r, 3 - i)
    <3>1. /\ legs'[r][i] = IF req[r].at = "done" THEN NoLeg
                           ELSE [legs[r][i] EXCEPT !.at = "failed", !.err = k]
          /\ \A j \in 1..2 : j # i => legs'[r][j] = legs[r][j]
      BY <1>1, <2>1 DEF Pair
    <3>2. legs[r][i] \in Leg
      BY <1>1 DEF Pair
    <3>3. legs'[r][i].at \in {"none", "failed"}
      BY <3>1, <3>2 DEF NoLeg, Leg
    <3>4. 3 - i \in 1..2 /\ 3 - i # i
      OBVIOUS
    <3> QED
      BY <3>1, <3>3, <3>4 DEF SameCalls
  <2>3. ~Calling(legs'[r][i])
    BY <2>2 DEF Calling, Unsettled
  <2>4. CASE legs[r][i].prov = Watched
    BY <1>2, <2>1, <2>2, <2>3, <2>4 DEF BreakerStep, Settles, WB
  <2>5. CASE legs[r][i].prov # Watched
    <3>1. SameCalls(r, i)
      BY <1>2, <2>3, <2>5 DEF SameCalls
    <3>2. i = 1 \/ i = 2
      OBVIOUS
    <3> QED
      BY <2>1, <2>2, <2>5, <3>1, <3>2 DEF BreakerStep, Quiet, WB
  <2> QED
    BY <2>4, <2>5
<1> QED
  BY <1>3, <1>4

\* A leg that goes on calls whom it called.
LEMMA GoesOnWatched ==
    ASSUME WatchedInv, NEW r \in Requests, NEW i \in 1..2, NEW l,
           legs' = [legs EXCEPT ![r][i] = l], UNCHANGED breaker,
           Calling(l) <=> Calling(legs[r][i])
    PROVE  BreakerStep(r)
<1>1. legs \in [Requests -> Pair]
  BY DEF WatchedInv, RoutingInv, RoutingTypes
<1>2. legs'[r][i] = l /\ \A j \in 1..2 : j # i => legs'[r][j] = legs[r][j]
  BY <1>1 DEF Pair
<1> QED
  BY <1>2 DEF BreakerStep, Quiet, SameCalls, WB

LEMMA LegStepWatched ==
    ASSUME WatchedInv, NEW r \in Requests, NEW i \in 1..2, LegStep(r, i)
    PROVE  BreakerStep(r)
<1> DEFINE l == legs[r][i]
<1>1. l.at \in {"start", "admit", "call", "backoff"}
  BY DEF LegStep, Start, Admitted, RateLimited, CallSucceeds, BackOff, CallFails, Retry
<1>2. l.prov = Watched => Current(l) /\ present[Watched]
  BY <1>1, CallingCurrent DEF WatchedInv
<1>3. /\ RoutingInv /\ legs[r] \in Pair /\ l \in Leg /\ DOMAIN breaker = Providers
      /\ legs \in [Requests -> Pair] /\ LegsOK(r, req[r], legs[r])
  <2>1. RoutingInv
    BY DEF WatchedInv
  <2> QED
    BY <1>1, <2>1, LegFacts DEF RoutingInv, RoutingTypes
<1>4. Calling(l) <=> l.prov = Watched
  BY <1>1 DEF Calling, Unsettled
<1>5. ASSUME NEW k, NEW B, DOMAIN B = Providers, LegFails(r, i, B, k),
             l.prov # Watched => B[Watched] = WB,
             l.prov = Watched => B[Watched] \in {RecordFailure(WB), Release(WB)}
      PROVE  BreakerStep(r)
  BY <1>1, <1>5, LegFailsWatched
<1>6. CASE Start(r, i)
  <2>1. CASE ~present[l.prov]
    <3>1. LegFails(r, i, breaker, "unknown") /\ l.prov # Watched
      BY <1>2, <1>6, <2>1 DEF Start
    <3> QED
      BY <1>3, <1>5, <3>1 DEF WB
  <2>2. CASE present[l.prov] /\ Expired(r)
    <3>1. LegFails(r, i, ReleasedByName(l.prov), "deadline")
      BY <1>6, <2>2 DEF Start
    <3>2. ReleasedByName(l.prov)[Watched] = IF l.prov = Watched THEN Release(WB) ELSE WB
      BY WatchedBreaker
    <3>3. DOMAIN ReleasedByName(l.prov) = Providers
      BY <1>3, BreakersKept
    <3> QED
      BY <1>5, <3>1, <3>2, <3>3
  <2>3. CASE present[l.prov] /\ ~Expired(r)
    <3> DEFINE l2 == [l EXCEPT !.at = "admit", !.reg = regs[l.prov]]
    <3>1. legs' = [legs EXCEPT ![r][i] = l2] /\ UNCHANGED breaker
      BY <1>6, <2>3 DEF Start
    <3>2. l2.at = "admit" /\ l2.prov = l.prov
      BY <1>3 DEF Leg
    <3> HIDE DEF l2
    <3>3. Calling(l2) <=> Calling(l)
      BY <1>4, <3>2 DEF Calling, Unsettled
    <3> QED
      BY <3>1, <3>3, GoesOnWatched
  <2> QED
    BY <2>1, <2>2, <2>3
<1>7. CASE Admitted(r, i)
  <2>1. CASE Expired(r)
    <3> DEFINE B == Captured(l, Release(breaker[l.prov]))
    <3>1. LegFails(r, i, B, ErrorSeen(l, "deadline"))
      BY <1>7, <2>1 DEF Admitted
    <3>2. B[Watched] = IF l.prov = Watched /\ Current(l) THEN Release(breaker[l.prov]) ELSE WB
      BY WatchedBreaker
    <3>3. DOMAIN B = Providers
      BY <1>3, BreakersKept
    <3> HIDE DEF B
    <3> QED
      BY <1>2, <1>5, <3>1, <3>2, <3>3 DEF WB
  <2>2. CASE ~Expired(r)
    <3> DEFINE l2 == [l EXCEPT !.at = "call", !.tries = 1]
    <3>1. legs' = [legs EXCEPT ![r][i] = l2] /\ UNCHANGED breaker
      BY <1>7, <2>2 DEF Admitted
    <3>2. l2.at = "call" /\ l2.prov = l.prov
      BY <1>3 DEF Leg
    <3> HIDE DEF l2
    <3>3. Calling(l2) <=> Calling(l)
      BY <1>4, <3>2 DEF Calling, Unsettled
    <3> QED
      BY <3>1, <3>3, GoesOnWatched
  <2> QED
    BY <2>1, <2>2
<1>8. CASE RateLimited(r, i)
  <2>1. LegFails(r, i, ReleasedByName(l.prov), ErrorSeen(l, "rate_limit"))
    BY <1>8 DEF RateLimited
  <2>2. ReleasedByName(l.prov)[Watched] = IF l.prov = Watched THEN Release(WB) ELSE WB
    BY WatchedBreaker
  <2>3. DOMAIN ReleasedByName(l.prov) = Providers
    BY <1>3, BreakersKept
  <2> QED
    BY <1>5, <2>1, <2>2, <2>3
<1>9. CASE CallSucceeds(r, i)
  <2>1. breaker'[Watched] = IF l.prov = Watched THEN RecordSuccess(WB) ELSE WB
    <3>1. breaker' = Captured(l, RecordSuccess(breaker[l.prov]))
      BY <1>9 DEF CallSucceeds
    <3>2. Captured(l, RecordSuccess(breaker[l.prov]))[Watched] =
            IF l.prov = Watched /\ Current(l) THEN RecordSuccess(breaker[l.prov]) ELSE WB
      BY WatchedBreaker
    <3> QED
      BY <1>2, <3>1, <3>2 DEF WB
  <2>2. ~Calling(legs'[r][i]) /\ SameCalls(r, 3 - i)
    <3>1. CASE req[r].at = "calling"
      <4>1. i = 1 /\ 3 - i = 2 /\ legs[r][2] = NoLeg
        BY <1>1, <1>3, <3>1 DEF LegsOK, NoLeg
      <4>2. NoCalls(r)
        BY <1>3, <1>9, <3>1, NoCallsCleared DEF CallSucceeds
      <4>3. ~Calling(legs[r][2])
        BY <4>1 DEF Calling, Unsettled, NoLeg
      <4> QED
        BY <4>1, <4>2, <4>3 DEF NoCalls, SameCalls
    <3>2. CASE req[r].at # "calling"
      <4>1. legs' = [legs EXCEPT ![r][i] = IF req[r].at = "done" THEN NoLeg
                                            ELSE [@ EXCEPT !.at = "ok"]]
        BY <1>9, <3>2 DEF CallSucceeds
      <4>2. /\ legs'[r][i] = IF req[r].at = "done" THEN NoLeg ELSE [legs[r][i] EXCEPT !.at = "ok"]
            /\ \A j \in 1..2 : j # i => legs'[r][j] = legs[r][j]
        BY <1>3, <4>1 DEF Pair
      <4>3. legs'[r][i].at \in {"none", "ok"}
        BY <1>3, <4>2 DEF NoLeg, Leg
      <4>4. 3 - i \in 1..2 /\ 3 - i # i
        OBVIOUS
      <4> QED
        BY <4>2, <4>3, <4>4 DEF SameCalls, Calling, Unsettled
    <3> QED
      BY <3>1, <3>2
  <2>3. CASE l.prov = Watched
    BY <1>4, <2>1, <2>2, <2>3 DEF BreakerStep, Settles, WB
  <2>4. CASE l.prov # Watched
    <3>1. SameCalls(r, i)
      BY <1>4, <2>2, <2>4 DEF SameCalls
    <3>2. i = 1 \/ i = 2
      OBVIOUS
    <3> QED
      BY <2>1, <2>2, <2>4, <3>1, <3>2 DEF BreakerStep, Quiet, WB
  <2> QED
    BY <2>3, <2>4
<1>10. ASSUME NEW k, LegFails(r, i, AfterError(l, k), ErrorSeen(l, k))
       PROVE  BreakerStep(r)
  <2>1. DOMAIN AfterError(l, k) = Providers
    BY <1>3, BreakersKept
  <2>2. l.prov # Watched => AfterError(l, k)[Watched] = WB
    BY WatchedBreaker
  <2>3. l.prov = Watched => AfterError(l, k)[Watched] \in {RecordFailure(WB), Release(WB)}
    BY <1>2, WatchedBreaker
  <2> QED
    BY <1>5, <1>10, <2>1, <2>2, <2>3
<1>11. CASE BackOff(r, i)
  <2> DEFINE l2 == [l EXCEPT !.at = "backoff"]
  <2>1. legs' = [legs EXCEPT ![r][i] = l2] /\ UNCHANGED breaker
    BY <1>11 DEF BackOff
  <2>2. l2.at = "backoff" /\ l2.prov = l.prov
    BY <1>3 DEF Leg
  <2> HIDE DEF l2
  <2>3. Calling(l2) <=> Calling(l)
    BY <1>4, <2>2 DEF Calling, Unsettled
  <2> QED
    BY <2>1, <2>3, GoesOnWatched
<1>12. CASE CallFails(r, i)
  BY <1>10, <1>12 DEF CallFails
<1>13. CASE Retry(r, i)
  <2>1. CASE Expired(r)
    BY <1>10, <1>13, <2>1 DEF Retry
  <2>2. CASE ~Expired(r)
    <3> DEFINE l2 == [l EXCEPT !.at = "call", !.tries = l.tries + 1]
    <3>1. legs' = [legs EXCEPT ![r][i] = l2] /\ UNCHANGED breaker
      BY <1>13, <2>2 DEF Retry
    <3>2. l2.at = "call" /\ l2.prov = l.prov
      BY <1>3 DEF Leg
    <3> HIDE DEF l2
    <3>3. Calling(l2) <=> Calling(l)
      BY <1>4, <3>2 DEF Calling, Unsettled
    <3> QED
      BY <3>1, <3>3, GoesOnWatched
  <2> QED
    BY <2>1, <2>2
<1> QED
  BY <1>6, <1>7, <1>8, <1>9, <1>11, <1>12, <1>13 DEF LegStep

\* A step that leaves the calls as they are, and the breaker but for a read.
LEMMA QuietStep ==
    ASSUME NEW r, SameCalls(r, 1), SameCalls(r, 2), WB' \in {WB, Observed(WB)}
    PROVE  BreakerStep(r)
<1>1. \A i \in 1..2 : i = 1 \/ i = 2
  OBVIOUS
<1> QED
  BY <1>1 DEF BreakerStep, Quiet

\* A step that ends a request, of whose two legs only leg i may call Watched.
LEMMA ClearedStep ==
    ASSUME WatchedInv, NEW r \in Requests, NEW i \in 1..2, ClearLegs(r),
           ~Calling(legs[r][3 - i]),
           Calling(legs[r][i]) => WB' \in {RecordSuccess(WB), RecordFailure(WB), Release(WB)},
           ~Calling(legs[r][i]) => WB' = WB
    PROVE  BreakerStep(r)
<1>1. 3 - i \in 1..2
  OBVIOUS
<1>2. ~Calling(legs'[r][i]) /\ ~Calling(legs'[r][3 - i])
  BY <1>1, NoCallsCleared DEF NoCalls, WatchedInv
<1>3. SameCalls(r, 3 - i)
  BY <1>2 DEF SameCalls
<1>4. CASE Calling(legs[r][i])
  BY <1>2, <1>3, <1>4 DEF BreakerStep, Settles
<1>5. CASE ~Calling(legs[r][i])
  <2>1. SameCalls(r, i)
    BY <1>2, <1>5 DEF SameCalls
  <2>2. i = 1 \/ i = 2
    OBVIOUS
  <2>3. 3 - 1 = 2 /\ 3 - 2 = 1
    OBVIOUS
  <2>4. SameCalls(r, 1) /\ SameCalls(r, 2)
    BY <1>3, <2>1, <2>2, <2>3
  <2> QED
    BY <1>5, <2>4, QuietStep
<1> QED
  BY <1>4, <1>5

LEMMA NoLegCalls == ~Calling(NoLeg)
BY DEF Calling, Unsettled, NoLeg

\* What a cancelled leg does to the breaker of Watched.
LEMMA CancelledWatched ==
    ASSUME WatchedInv, NEW r \in Requests, NEW i \in 1..2, NEW B, DOMAIN B = Providers,
           legs[r][i].at \notin {"start", "embed"}
    PROVE  CancelledBreakers(legs[r][i], B)[Watched] =
              IF Calling(legs[r][i]) THEN Release(B[Watched]) ELSE B[Watched]
<1> DEFINE l == legs[r][i]
<1>1. CASE l.prov = Watched
  <2>1. CASE l.at \in {"admit", "call", "backoff"}
    <3>1. Current(l) /\ present[l.prov] /\ Calling(l)
      BY <1>1, <2>1, CallingCurrent DEF WatchedInv, Calling, Unsettled
    <3> QED
      BY <1>1, <2>1, <3>1, WatchedAssumption DEF CancelledBreakers, HasSlot
  <2>2. CASE l.at \notin {"admit", "call", "backoff"}
    BY <2>2 DEF CancelledBreakers, HasSlot, Calling, Unsettled
  <2> QED
    BY <2>1, <2>2
<1>2. CASE l.prov # Watched
  BY <1>2, WatchedAssumption DEF CancelledBreakers, Calling
<1> QED
  BY <1>1, <1>2

\* The two legs of a request do not call the same provider.
LEMMA OneLegCalls ==
    ASSUME WatchedInv, NEW r \in Requests, req[r].at # "new", req[r].at # "done",
           Calling(legs[r][1])
    PROVE  ~Calling(legs[r][2])
<1>1. PlanOK(req[r], tried[r]) /\ LegsOK(r, req[r], legs[r]) /\ req[r] \in Req
  BY ReqFacts DEF WatchedInv
<1>2. CASE req[r].at # "racing"
  BY <1>1, <1>2, NoLegCalls DEF LegsOK
<1>3. CASE req[r].at = "racing"
  <2>1. PICK n \in Nat : n = Len(req[r].plan)
    BY <1>1, LenProperties DEF Req
  <2>2. PICK m \in Nat : m = req[r].ix
    BY <1>1 DEF Req
  <2>3. m \in 1..n /\ m + 1 \in 1..n
    BY <1>1, <1>3, <2>1, <2>2 DEF PlanOK, InLoop
  <2>4. req[r].plan[m] # req[r].plan[m + 1]
    BY <1>1, <2>1, <2>3 DEF PlanOK
  <2> QED
    BY <1>1, <1>3, <2>2, <2>4 DEF LegsOK, InLoop, Calling
<1> QED
  BY <1>2, <1>3

LEMMA PlanWatched ==
    ASSUME WatchedInv, NEW r \in Requests, Plan(r)
    PROVE  BreakerStep(r)
<1>1. RoutingInv
  BY DEF WatchedInv
<1>2. UNCHANGED <<registry, active, legs, tried>>
  BY <1>1 DEF Plan, RoutingInv, RoutingTypes
<1>3. \/ breaker' = [p \in Providers |-> IF present[p] THEN Observed(breaker[p]) ELSE breaker[p]]
      \/ UNCHANGED breaker
  BY <1>1 DEF Plan, RoutingInv, RoutingTypes
<1>4. WB' \in {WB, Observed(WB)}
  BY <1>3, WatchedAssumption DEF WB, WatchedInv
<1> QED
  BY <1>2, <1>4, QuietStep DEF SameCalls

LEMMA BeginWatched ==
    ASSUME WatchedInv, NEW r \in Requests, Begin(r)
    PROVE  BreakerStep(r)
<1>1. req[r].at = "planned" /\ Proceed(r, breaker, 1) /\ DOMAIN breaker = Providers
  BY DEF Begin, WatchedInv, RoutingInv, RoutingTypes
<1>2. legs[r][1] = NoLeg /\ legs[r][2] = NoLeg
  BY <1>1, ReqFacts DEF WatchedInv, LegsOK
<1>3. LoopDone(r, breaker, 1)
  BY <1>1, ProceedWatched
<1>4. ~Calling(legs[r][1]) /\ ~Calling(legs[r][2])
  BY <1>2, NoLegCalls
<1>5. breaker[Watched] = WB
  BY DEF WB
<1> QED
  BY <1>3, <1>4, <1>5, LoopStep

LEMMA HedgeWatched ==
    ASSUME WatchedInv, NEW r \in Requests, Hedge(r)
    PROVE  BreakerStep(r)
<1> DEFINE p == req[r].plan[req[r].ix + 1]
<1>1. /\ req[r].at = "hedge_wait" /\ legs \in [Requests -> Pair] /\ DOMAIN breaker = Providers
      /\ Embeds = {} /\ Watched \in Providers
  BY WatchedAssumption DEF Hedge, WatchedInv, RoutingInv, RoutingTypes
<1>2. legs[r][2] = NoLeg /\ ~Calling(legs[r][2])
  BY <1>1, ReqFacts, NoLegCalls DEF LegsOK, WatchedInv
<1>3. CASE UNCHANGED <<breaker, legs>>
  BY <1>3, QuietStep DEF SameCalls, WB
<1>4. CASE breaker' = [breaker EXCEPT ![p] = Allowed(@)] /\ WouldAllow(breaker[p])
           /\ legs' = [legs EXCEPT ![r][2] = NewLeg(r, p, req[r].ix + 1 = Len(req[r].plan))]
  <2> DEFINE l == NewLeg(r, p, req[r].ix + 1 = Len(req[r].plan))
  <2>1. l.prov = p /\ l.at = "start"
    BY <1>1 DEF NewLeg
  <2> HIDE DEF l
  <2>2. legs'[r][2] = l /\ legs'[r][1] = legs[r][1]
    BY <1>1, <1>4 DEF Pair, l
  <2>3. SameCalls(r, 1) /\ 3 - 2 = 1 /\ 2 \in 1..2
    BY <2>2 DEF SameCalls
  <2>4. CASE p = Watched
    <3>1. Calling(legs'[r][2])
      BY <2>1, <2>2, <2>4 DEF Calling, Unsettled
    <3>2. WouldAllow(WB) /\ WB' = Allowed(WB)
      BY <1>1, <1>4, <2>4 DEF WB
    <3>3. Adds(r, 2)
      BY <1>2, <2>3, <3>1, <3>2 DEF Adds
    <3> QED
      BY <2>3, <3>3 DEF BreakerStep
  <2>5. CASE p # Watched
    <3>1. SameCalls(r, 2)
      BY <1>2, <2>1, <2>2, <2>5 DEF SameCalls, Calling
    <3>2. WB' = WB
      BY <1>1, <1>4, <2>5 DEF WB
    <3> QED
      BY <2>3, <3>1, <3>2, QuietStep
  <2> QED
    BY <2>4, <2>5
<1>5. CASE breaker' = [breaker EXCEPT ![p] = Allowed(@)] /\ ~WouldAllow(breaker[p])
           /\ UNCHANGED legs
  <2>1. WB' = IF p = Watched THEN Observed(WB) ELSE WB
    BY <1>1, <1>5, RefusedIsRead DEF WB
  <2> QED
    BY <1>5, <2>1, QuietStep DEF SameCalls
<1> QED
  BY <1>3, <1>4, <1>5 DEF Hedge

LEMMA FirstReturnsWatched ==
    ASSUME WatchedInv, NEW r \in Requests, FirstReturns(r)
    PROVE  BreakerStep(r)
<1>1. req[r].at = "hedge_wait" /\ legs[r][1].at \in {"ok", "failed"}
  BY DEF FirstReturns
<1>2. legs[r][2] = NoLeg
  BY <1>1, ReqFacts DEF LegsOK, WatchedInv
<1>3. ~Calling(legs[r][1]) /\ ~Calling(legs[r][2])
  BY <1>1, <1>2, NoLegCalls DEF Calling, Unsettled
<1>4. CASE ClearLegs(r) /\ UNCHANGED breaker
  <2>1. 3 - 1 = 2 /\ 1 \in 1..2
    OBVIOUS
  <2>2. WB' = WB
    BY <1>4 DEF WB
  <2> QED
    BY <1>3, <1>4, <2>1, <2>2, ClearedStep
<1>5. CASE Handle(r, breaker, legs[r][1].err)
  <2>1. DOMAIN breaker = Providers /\ breaker[Watched] = WB
    BY DEF WatchedInv, RoutingInv, RoutingTypes, WB
  <2>2. LoopDone(r, breaker, req[r].ix + 1)
    BY <1>5, <2>1, HandleWatched
  <2> QED
    BY <1>3, <2>1, <2>2, LoopStep
<1> QED
  BY <1>1, <1>4, <1>5 DEF FirstReturns

LEMMA RaceWonWatched ==
    ASSUME WatchedInv, NEW r \in Requests, NEW i \in 1..2, RaceWon(r, i)
    PROVE  BreakerStep(r)
<1> DEFINE o == legs[r][3 - i]
<1>1. /\ req[r].at = "racing" /\ ClearLegs(r) /\ legs[r][i].at = "ok" /\ o.at # "start"
      /\ breaker' = CancelledBreakers(o, breaker)
  BY DEF RaceWon
<1>2. 3 - i \in 1..2 /\ 3 - (3 - i) = i
  OBVIOUS
<1>3. o.at # "embed"
  BY <1>1, <1>2, ReqFacts DEF LegsOK, WatchedInv
<1>4. DOMAIN breaker = Providers
  BY DEF WatchedInv, RoutingInv, RoutingTypes
<1>5. WB' = IF Calling(o) THEN Release(WB) ELSE WB
  BY <1>1, <1>2, <1>3, <1>4, CancelledWatched DEF WB
<1>6. ~Calling(legs[r][i])
  BY <1>1 DEF Calling, Unsettled
<1> QED
  BY <1>1, <1>2, <1>5, <1>6, ClearedStep

LEMMA RaceLostWatched ==
    ASSUME WatchedInv, NEW r \in Requests, RaceLost(r)
    PROVE  BreakerStep(r)
<1>1. legs[r][1].at = "failed" /\ legs[r][2].at = "failed"
  BY DEF RaceLost
<1>2. ~Calling(legs[r][1]) /\ ~Calling(legs[r][2])
  BY <1>1 DEF Calling, Unsettled
<1>3. CASE ClearLegs(r) /\ UNCHANGED breaker
  <2>1. 3 - 1 = 2 /\ 1 \in 1..2
    OBVIOUS
  <2>2. WB' = WB
    BY <1>3 DEF WB
  <2> QED
    BY <1>2, <1>3, <2>1, <2>2, ClearedStep
<1>4. CASE Handle(r, breaker, legs[r][1].err)
  <2>1. DOMAIN breaker = Providers /\ breaker[Watched] = WB
    BY DEF WatchedInv, RoutingInv, RoutingTypes, WB
  <2>2. LoopDone(r, breaker, req[r].ix + 1)
    BY <1>4, <2>1, HandleWatched
  <2> QED
    BY <1>2, <2>1, <2>2, LoopStep
<1> QED
  BY <1>3, <1>4 DEF RaceLost

\* A stream's one leg is dropped when its provider is gone, and settles at the end.
LEMMA StreamWatched ==
    ASSUME WatchedInv, NEW r \in Requests, OpenStream(r) \/ StreamEnds(r)
    PROVE  BreakerStep(r)
<1> DEFINE l == legs[r][1]
<1>1. l.at = "call" /\ legs[r][2] = NoLeg
  BY ReqFacts DEF OpenStream, StreamEnds, LegsOK, WatchedInv
<1>2. ~Calling(legs[r][2]) /\ 3 - 1 = 2 /\ 1 \in 1..2 /\ (Calling(l) <=> l.prov = Watched)
  BY <1>1, NoLegCalls DEF Calling, Unsettled
<1>3. l.prov = Watched => Current(l) /\ present[Watched]
  BY <1>1, CallingCurrent DEF WatchedInv
<1>4. CASE OpenStream(r)
  <2>1. CASE present[l.prov]
    <3>1. UNCHANGED breaker /\ UNCHANGED legs
      BY <1>4, <2>1 DEF OpenStream
    <3> QED
      BY <3>1, QuietStep DEF SameCalls, WB
  <2>2. CASE ~present[l.prov]
    <3>1. UNCHANGED breaker /\ ClearLegs(r)
      BY <1>4, <2>2 DEF OpenStream
    <3>2. ~Calling(l) /\ WB' = WB
      BY <1>2, <1>3, <2>2, <3>1 DEF WB
    <3> QED
      BY <1>2, <3>1, <3>2, ClearedStep
  <2> QED
    BY <2>1, <2>2
<1>5. CASE StreamEnds(r)
  <2>1. /\ ClearLegs(r)
        /\ \/ breaker' = Captured(l, RecordSuccess(breaker[l.prov]))
           \/ \E k \in ProviderErrors : breaker' = AfterError(l, k)
    BY <1>5 DEF StreamEnds
  <2>2. CASE l.prov = Watched
    <3>1. Captured(l, RecordSuccess(breaker[l.prov]))[Watched] = RecordSuccess(WB)
      BY <1>3, <2>2, WatchedBreaker DEF WB
    <3>2. \A k : AfterError(l, k)[Watched] \in {RecordFailure(WB), Release(WB)}
      BY <1>3, <2>2, WatchedBreaker
    <3>3. WB' \in {RecordSuccess(WB), RecordFailure(WB), Release(WB)}
      BY <2>1, <3>1, <3>2 DEF WB
    <3> QED
      BY <1>2, <2>1, <2>2, <3>3, ClearedStep
  <2>3. CASE l.prov # Watched
    <3>1. Captured(l, RecordSuccess(breaker[l.prov]))[Watched] = WB
      BY <2>3, WatchedBreaker
    <3>2. \A k : AfterError(l, k)[Watched] = WB
      BY <2>3, WatchedBreaker
    <3>3. WB' = WB
      BY <2>1, <3>1, <3>2 DEF WB
    <3> QED
      BY <1>2, <2>1, <2>3, <3>3, ClearedStep
  <2> QED
    BY <2>2, <2>3
<1> QED
  BY <1>4, <1>5

LEMMA CancelWatched ==
    ASSUME WatchedInv, NEW r \in Requests, Cancel(r)
    PROVE  BreakerStep(r)
<1> DEFINE l == legs[r][1]
           o == legs[r][2]
<1>1. /\ req[r].at \notin {"new", "done"} /\ 3 - 1 = 2 /\ 3 - 2 = 1 /\ 1 \in 1..2 /\ 2 \in 1..2
      /\ RoutingInv /\ legs[r] \in Pair /\ LegsOK(r, req[r], legs[r])
      /\ legs \in [Requests -> Pair] /\ DOMAIN breaker = Providers
  BY ReqFacts DEF Cancel, WatchedInv, RoutingInv, RoutingTypes
<1>2. CASE req[r].at = "hedge_wait"
  <2>1. legs' = [legs EXCEPT ![r][1] = IF Unsettled(@) THEN @ ELSE NoLeg] /\ UNCHANGED breaker
    BY <1>2 DEF Cancel
  <2>2. legs'[r][1] = (IF Unsettled(l) THEN l ELSE NoLeg) /\ legs'[r][2] = o
    BY <1>1, <2>1 DEF Pair
  <2>3. SameCalls(r, 1) /\ SameCalls(r, 2)
    BY <2>2, NoLegCalls DEF SameCalls, Calling
  <2> QED
    BY <2>1, <2>3, QuietStep DEF WB
<1>3. CASE req[r].at # "hedge_wait"
  <2> DEFINE B == CancelledBreakers(l, breaker)
  <2>1. ClearLegs(r) /\ breaker' = CancelledBreakers(o, B)
    BY <1>3 DEF Cancel
  <2>2. l.at \notin {"start", "embed"} /\ o.at \notin {"start", "embed"}
    <3>1. l.at # "embed" /\ o.at # "embed"
      BY <1>1 DEF LegsOK, WatchedInv
    <3>2. CASE req[r].at \in {"calling", "racing"}
      BY <1>1, <3>1, <3>2 DEF Cancel
    <3>3. CASE req[r].at \notin {"calling", "racing"}
      <4>1. req[r].at \in {"planned", "streaming", "saving"}
        BY <1>1, <1>3, <3>3, ReqFacts DEF Req, ReqAt
      <4> QED
        BY <1>1, <3>1, <4>1 DEF LegsOK, NoLeg
    <3> QED
      BY <3>2, <3>3
  <2>3. B[Watched] = IF Calling(l) THEN Release(WB) ELSE WB
    BY <1>1, <2>2, CancelledWatched DEF WB
  <2>4. DOMAIN B = Providers
    BY <1>1, BreakersKept
  <2> HIDE DEF B
  <2>5. WB' = IF Calling(o) THEN Release(B[Watched]) ELSE B[Watched]
    BY <1>1, <2>1, <2>2, <2>4, CancelledWatched DEF WB
  <2>6. Calling(l) => ~Calling(o)
    BY <1>1, OneLegCalls
  <2>7. CASE ~Calling(o)
    BY <1>1, <2>1, <2>3, <2>5, <2>7, ClearedStep
  <2>8. CASE ~Calling(l)
    BY <1>1, <2>1, <2>3, <2>5, <2>8, ClearedStep
  <2> QED
    BY <2>6, <2>7, <2>8
<1> QED
  BY <1>2, <1>3

\* Whatever a request does.
LEMMA RequestWatched ==
    ASSUME WatchedInv, NEW r \in Requests,
           Plan(r) \/ ReqStep(r) \/ (\E i \in 1..2 : LegStep(r, i)) \/ Cancel(r)
    PROVE  BreakerStep(r)
<1>1. CASE CacheHit(r) \/ Save(r)
  <2>1. UNCHANGED breaker /\ UNCHANGED legs
    BY <1>1 DEF CacheHit, Save
  <2> QED
    BY <2>1, QuietStep DEF SameCalls, WB
<1>2. ~EmbedEnds(r)
  <2>1. legs[r][1].at # "embed"
    BY ReqFacts DEF WatchedInv, LegsOK
  <2> QED
    BY <2>1 DEF EmbedEnds
<1> QED
  BY <1>1, <1>2, PlanWatched, BeginWatched, HedgeWatched, FirstReturnsWatched, RaceWonWatched,
     RaceLostWatched, StreamWatched, LegStepWatched, CancelWatched DEF ReqStep

-----------------------------------------------------------------------------
\* Refinement: the labels.

\* The shape of a breaker, without the bounds of its counters.
BreakerRecord == [state: CircuitState, failures: Int, age: Int, probes: Int]

LEMMA BreakerRecords ==
    ASSUME NEW x \in BreakerRecord
    PROVE  /\ Observed(x) \in BreakerRecord /\ Allowed(x) \in BreakerRecord
           /\ RecordSuccess(x) \in BreakerRecord /\ RecordFailure(x) \in BreakerRecord
           /\ Release(x) \in BreakerRecord
           /\ Older(x) \in BreakerRecord /\ Older(x).state = x.state
<1>1. ResetTimeout \in Int /\ FailureThreshold \in Int /\ HalfOpenMaxCalls \in Int
  BY BreakerAssumption
<1>2. ASSUME NEW y \in BreakerRecord
      PROVE  /\ Observed(y) \in BreakerRecord /\ Freed(y) \in BreakerRecord
             /\ Opened(y) \in BreakerRecord /\ Closed(y) \in BreakerRecord
             /\ [y EXCEPT !.probes = @ + 1] \in BreakerRecord
             /\ [y EXCEPT !.failures = y.failures + 1] \in BreakerRecord
  BY <1>1 DEF BreakerRecord, CircuitState, Observed, Freed, Opened, Closed
<1> DEFINE o == Observed(x)
           n == o.failures + 1
<1>3. o \in BreakerRecord
  BY <1>2
<1>4. o.state \in CircuitState /\ Allowed(x) \in {o, [o EXCEPT !.probes = @ + 1]}
  BY <1>3 DEF BreakerRecord, Allowed
<1>5. RecordSuccess(x) \in {o, Closed(Freed(o)), Closed(o)}
  BY <1>4 DEF RecordSuccess, CircuitState
<1>6. RecordFailure(x) \in {o, Opened(Freed(o)), Opened([o EXCEPT !.failures = n]),
                            [o EXCEPT !.failures = n]}
  BY <1>4 DEF RecordFailure, CircuitState
<1>7. Release(x) \in {x, Freed(x)}
  BY DEF Release
<1>8. Older(x) \in BreakerRecord /\ Older(x).state = x.state
  BY <1>1 DEF BreakerRecord, CircuitState, Older
<1> HIDE DEF o
<1>9. RecordSuccess(x) \in BreakerRecord
  BY <1>2, <1>3, <1>5
<1>10. RecordFailure(x) \in BreakerRecord
  BY <1>2, <1>3, <1>6
<1> QED
  BY <1>2, <1>3, <1>4, <1>7, <1>8, <1>9, <1>10 DEF o

\* CircuitBreaker's operators are those of the router.
LEMMA SameOperators ==
    /\ CB!NewBreaker = NewBreaker
    /\ \A x : /\ CB!Observed(x) = Observed(x) /\ CB!Allowed(x) = Allowed(x)
              /\ CB!WouldAllow(x) = WouldAllow(x) /\ CB!Older(x) = Older(x)
              /\ CB!RecordSuccess(x) = RecordSuccess(x)
              /\ CB!RecordFailure(x) = RecordFailure(x)
              /\ CB!Release(x) = Release(x)
<1>1. \A x : CB!Observed(x) = Observed(x)
  BY DEF CB!Observed, Observed
<1>2. \A x : CB!Freed(x) = Freed(x) /\ CB!Opened(x) = Opened(x) /\ CB!Closed(x) = Closed(x)
  BY DEF CB!Freed, Freed, CB!Opened, Opened, CB!Closed, Closed
<1>3. \A x : CB!Admits(x) = Admits(x)
  BY DEF CB!Admits, Admits
<1>4. \A x : CB!Allowed(x) = Allowed(x) /\ CB!WouldAllow(x) = WouldAllow(x)
  BY <1>1, <1>3 DEF CB!Allowed, Allowed, CB!WouldAllow, WouldAllow
<1>5. \A x : CB!RecordSuccess(x) = RecordSuccess(x)
  BY <1>1, <1>2 DEF CB!RecordSuccess, RecordSuccess
<1>6. \A x : CB!RecordFailure(x) = RecordFailure(x)
  BY <1>1, <1>2 DEF CB!RecordFailure, RecordFailure
<1>7. \A x : CB!Release(x) = Release(x) /\ CB!Older(x) = Older(x)
  BY <1>2 DEF CB!Release, Release, CB!Older, Older
<1>8. CB!NewBreaker = NewBreaker
  BY DEF CB!NewBreaker, NewBreaker
<1> QED
  BY <1>1, <1>4, <1>5, <1>6, <1>7, <1>8

\* The callers of the breaker of Watched, as CB sees them.
CallsOf == [x \in LegIds |-> IF LegOf(x).prov = Watched THEN label[x] ELSE "idle"]

\* A leg is labelled while it owes its breaker an outcome.
LabelsOK == \A x \in LegIds : label[x] = "idle" <=> ~Unsettled(LegOf(x))

RefinedInv == WatchedInv /\ WB \in BreakerRecord /\ LabelsOK

\* The same callers as before, of a breaker that has moved to b2.
Aged(b2) == [x \in LegIds |-> IF b2.state # WB.state /\ CallsOf[x] # "idle" THEN "stale"
                              ELSE CallsOf[x]]

LEMMA CallersAre ==
    ASSUME LabelsOK
    PROVE  \A x \in LegIds : CallsOf[x] = "idle" <=> ~Calling(LegOf(x))
BY DEF LabelsOK, CallsOf, Calling

LEMMA CallersNext ==
    ASSUME LabelsOK, LabelNext
    PROVE  /\ LabelsOK'
           /\ \A x \in LegIds :
                 /\ ~Calling(LegOf(x)') => CallsOf'[x] = "idle"
                 /\ Calling(LegOf(x)') /\ ~Calling(LegOf(x)) =>
                       CallsOf'[x] = IF WB'.state = "closed" THEN "fresh" ELSE "probe"
                 /\ Calling(LegOf(x)') /\ Calling(LegOf(x)) => CallsOf'[x] = Aged(WB')[x]
<1> DEFINE next(x) ==
        LET p == LegOf(x)'.prov
        IN  IF ~Unsettled(LegOf(x)') THEN "idle"
            ELSE IF Started(x)
            THEN IF breaker'[p].state = "closed" THEN "fresh" ELSE "probe"
            ELSE IF breaker'[p].state # breaker[p].state THEN "stale"
            ELSE label[x]
<1>1. ASSUME NEW x \in LegIds PROVE label'[x] = next(x)
  BY DEF LabelNext
<1>2. ASSUME NEW x \in LegIds
      PROVE  label'[x] = "idle" <=> ~Unsettled(LegOf(x)')
  <2>1. Unsettled(LegOf(x)') /\ ~Started(x) => label[x] # "idle"
    BY DEF LabelsOK, Started
  <2> QED
    BY <1>1, <2>1
<1>3. \A x \in LegIds : CallsOf'[x] = IF LegOf(x)'.prov = Watched THEN label'[x] ELSE "idle"
  BY DEF CallsOf
<1>4. ASSUME NEW x \in LegIds, ~Calling(LegOf(x)') PROVE CallsOf'[x] = "idle"
  BY <1>2, <1>3, <1>4 DEF Calling
<1>5. ASSUME NEW x \in LegIds, Calling(LegOf(x)'), ~Calling(LegOf(x))
      PROVE  CallsOf'[x] = IF WB'.state = "closed" THEN "fresh" ELSE "probe"
  <2>1. Started(x)
    BY <1>5 DEF Started, Calling
  <2> QED
    BY <1>1, <1>3, <1>5, <2>1 DEF Calling, WB
<1>6. ASSUME NEW x \in LegIds, Calling(LegOf(x)'), Calling(LegOf(x))
      PROVE  CallsOf'[x] = Aged(WB')[x]
  <2>1. ~Started(x) /\ CallsOf[x] = label[x] /\ label[x] # "idle"
    BY <1>6 DEF Started, Calling, CallsOf, LabelsOK
  <2>2. label'[x] = IF WB'.state # WB.state THEN "stale" ELSE label[x]
    BY <1>1, <1>6, <2>1 DEF Calling, WB
  <2> QED
    BY <1>3, <1>6, <2>1, <2>2 DEF Calling, Aged
<1> QED
  BY <1>2, <1>4, <1>5, <1>6 DEF LabelsOK

LEMMA AgedIsRelabelled == \A b2 : CB!Relabelled(b2) = Aged(b2)
BY DEF CB!Relabelled, Aged, CallsOf, WB

\* A step that leaves the callers as they are is a read or nothing.
LEMMA PeekRefined ==
    ASSUME RefinedInv, LabelNext,
           \A x \in LegIds : Calling(LegOf(x)') <=> Calling(LegOf(x)),
           WB' \in {WB, Observed(WB)}
    PROVE  CB!Peek \/ UNCHANGED CB!vars
<1>1. \A x \in LegIds : CallsOf[x] = "idle" <=> ~Calling(LegOf(x))
  BY CallersAre DEF RefinedInv
<1>2. \A x \in LegIds : CallsOf'[x] = Aged(WB')[x]
  BY <1>1, CallersNext DEF RefinedInv, Aged
<1>3. CallsOf' = Aged(WB')
  BY <1>2 DEF CallsOf, Aged
<1>4. CASE WB' = WB
  <2>1. CallsOf' = CallsOf
    BY <1>3, <1>4 DEF Aged, CallsOf
  <2> QED
    BY <1>4, <2>1 DEF CB!vars, CallsOf, WB
<1>5. CASE WB' = Observed(WB)
  <2>1. WB' = CB!Observed(WB) /\ CallsOf' = CB!Relabelled(WB')
    BY <1>3, <1>5, SameOperators, AgedIsRelabelled
  <2> QED
    BY <2>1 DEF CB!Peek, CallsOf, WB
<1> QED
  BY <1>4, <1>5

\* The same, as time passes.
LEMMA TickRefined ==
    ASSUME RefinedInv, LabelNext, UNCHANGED legs, WB' = Older(WB)
    PROVE  CB!Tick
<1>1. \A x \in LegIds : CallsOf[x] = "idle" <=> ~Calling(LegOf(x))
  BY CallersAre DEF RefinedInv
<1>2. WB'.state = WB.state
  BY BreakerRecords DEF RefinedInv
<1>3. \A x \in LegIds : LegOf(x)' = LegOf(x)
  BY DEF LegOf
<1>4. \A x \in LegIds : CallsOf'[x] = CallsOf[x]
  BY <1>1, <1>2, <1>3, CallersNext DEF RefinedInv, Aged
<1>5. CallsOf' = CallsOf
  BY <1>4 DEF CallsOf
<1>6. WB' = CB!Older(WB)
  BY SameOperators
<1> QED
  BY <1>5, <1>6 DEF CB!Tick, CallsOf, WB

\* One more caller.
LEMMA AllowRefined ==
    ASSUME RefinedInv, LabelNext, NEW c \in LegIds,
           \A x \in LegIds : x # c => (Calling(LegOf(x)') <=> Calling(LegOf(x))),
           ~Calling(LegOf(c)), Calling(LegOf(c)'), WouldAllow(WB), WB' = Allowed(WB)
    PROVE  CB!Allow(c)
<1>1. \A x \in LegIds : CallsOf[x] = "idle" <=> ~Calling(LegOf(x))
  BY CallersAre DEF RefinedInv
<1>2. \A x \in LegIds : x # c => CallsOf'[x] = Aged(WB')[x]
  BY <1>1, CallersNext DEF RefinedInv, Aged
<1>3. CallsOf'[c] = IF WB'.state = "closed" THEN "fresh" ELSE "probe"
  BY CallersNext DEF RefinedInv
<1>4. CallsOf' = [Aged(WB') EXCEPT ![c] = IF WB'.state = "closed" THEN "fresh" ELSE "probe"]
  BY <1>2, <1>3 DEF CallsOf, Aged
<1>5. CB!WouldAllow(WB) /\ WB' = CB!Allowed(WB) /\ CB!Relabelled(WB') = Aged(WB')
  BY SameOperators, AgedIsRelabelled
<1>6. CallsOf[c] = "idle"
  BY <1>1
<1> QED
  BY <1>4, <1>5, <1>6 DEF CB!Allow, CallsOf, WB

\* One caller less, its outcome recorded.
LEMMA SettleRefined ==
    ASSUME RefinedInv, LabelNext, NEW c \in LegIds,
           \A x \in LegIds : x # c => (Calling(LegOf(x)') <=> Calling(LegOf(x))),
           Calling(LegOf(c)), ~Calling(LegOf(c)'),
           WB' \in {RecordSuccess(WB), RecordFailure(WB), Release(WB)}
    PROVE  CB!Succeed(c) \/ CB!Fail(c) \/ CB!GiveBack(c)
<1>1. \A x \in LegIds : CallsOf[x] = "idle" <=> ~Calling(LegOf(x))
  BY CallersAre DEF RefinedInv
<1>2. \A x \in LegIds : x # c => CallsOf'[x] = Aged(WB')[x]
  BY <1>1, CallersNext DEF RefinedInv, Aged
<1>3. CallsOf'[c] = "idle"
  BY CallersNext DEF RefinedInv
<1>4. CallsOf' = [Aged(WB') EXCEPT ![c] = "idle"]
  BY <1>2, <1>3 DEF CallsOf, Aged
<1>5. WB' \in {CB!RecordSuccess(WB), CB!RecordFailure(WB), CB!Release(WB)}
      /\ CB!Relabelled(WB') = Aged(WB')
  BY SameOperators, AgedIsRelabelled
<1>6. CallsOf[c] # "idle"
  BY <1>1
<1>7. CASE WB' = CB!RecordSuccess(WB)
  BY <1>4, <1>5, <1>6, <1>7 DEF CB!Succeed, CB!Settle, CallsOf, WB
<1>8. CASE WB' = CB!RecordFailure(WB)
  BY <1>4, <1>5, <1>6, <1>8 DEF CB!Fail, CB!Settle, CallsOf, WB
<1>9. CASE WB' = CB!Release(WB)
  BY <1>4, <1>5, <1>6, <1>9 DEF CB!GiveBack, CB!Settle, CallsOf, WB
<1> QED
  BY <1>5, <1>7, <1>8, <1>9

LEMMA RefinedStart ==
    ASSUME Embeds = {}, LabelInit
    PROVE  RefinedInv /\ CB!Init
<1>1. RoutingInv /\ Init /\ label = [x \in LegIds |-> "idle"] /\ Watched \in Providers \ Droppable
  BY RoutingStart, WatchedAssumption DEF LabelInit
<1>2. present[Watched] /\ regs[Watched] = 1 /\ WB = NewBreaker
  BY <1>1 DEF Init, WB
<1>3. NewBreaker \in BreakerRecord
  BY DEF NewBreaker, BreakerRecord, CircuitState
<1>4. \A x \in LegIds : LegOf(x) = NoLeg
  BY <1>1 DEF Init, LegIds, LegOf
<1>5. LabelsOK
  BY <1>1, <1>4 DEF LabelsOK, Unsettled, NoLeg
<1>6. CB!Init
  BY <1>1, <1>2, SameOperators DEF CB!Init, WB
<1> QED
  BY <1>1, <1>2, <1>3, <1>5, <1>6 DEF RefinedInv, WatchedInv

\* Watched is never dropped, so it is never registered again.
LEMMA WatchedStays ==
    ASSUME WatchedInv, [Next]_vars
    PROVE  WatchedInv'
<1>1. RoutingInv' /\ Watched \in Providers \ Droppable
  BY RoutingStep, WatchedAssumption DEF WatchedInv
<1>2. CASE UNCHANGED registry
  BY <1>1, <1>2 DEF WatchedInv, registry
<1>3. CASE UNCHANGED vars
  BY <1>1, <1>3 DEF WatchedInv, vars
<1>4. CASE Tick
  BY <1>2, <1>4 DEF Tick
<1>5. ASSUME NEW r \in Requests,
             Plan(r) \/ ReqStep(r) \/ (\E i \in 1..2 : LegStep(r, i)) \/ Cancel(r)
      PROVE  WatchedInv'
  BY <1>2, <1>5, RequestKeeps DEF WatchedInv, Keeps
<1>6. ASSUME NEW p \in Providers, DropProvider(p) \/ SetProvider(p)
      PROVE  WatchedInv'
  <2>1. p # Watched
    BY <1>1, <1>6 DEF DropProvider, SetProvider, WatchedInv
  <2>2. present' = [present EXCEPT ![p] = present'[p]] /\ regs' = [regs EXCEPT ![p] = regs'[p]]
    BY <1>6 DEF DropProvider, SetProvider, WatchedInv, RoutingInv, RoutingTypes
  <2> QED
    BY <1>1, <2>1, <2>2 DEF WatchedInv, RoutingInv, RoutingTypes
<1> QED
  BY <1>3, <1>4, <1>5, <1>6 DEF Next

\* A step of a request.
LEMMA RequestRefined ==
    ASSUME RefinedInv, LabelNext, NEW r \in Requests,
           Plan(r) \/ ReqStep(r) \/ (\E i \in 1..2 : LegStep(r, i)) \/ Cancel(r)
    PROVE  [CB!Next]_(CB!vars) /\ WB' \in BreakerRecord
<1>1. BreakerStep(r) /\ RoutingInv /\ legs \in [Requests -> Pair]
  BY RequestWatched DEF RefinedInv, WatchedInv, RoutingInv, RoutingTypes
<1>2. legs' = [legs EXCEPT ![r] = legs'[r]]
  BY <1>1, RequestKeeps DEF Keeps, Moves
<1>3. \A x \in LegIds : /\ x[1] \in Requests /\ x[2] \in 1..2 /\ x = <<x[1], x[2]>>
                        /\ LegOf(x) = legs[x[1]][x[2]] /\ LegOf(x)' = legs'[x[1]][x[2]]
                        /\ x[1] # r => LegOf(x)' = LegOf(x)
  BY <1>1, <1>2 DEF LegIds, LegOf
<1>4. WB \in BreakerRecord
  BY DEF RefinedInv
<1>5. CASE Quiet(r)
  <2>1. \A x \in LegIds : Calling(LegOf(x)') <=> Calling(LegOf(x))
    BY <1>3, <1>5 DEF Quiet, SameCalls
  <2>2. WB' \in {WB, Observed(WB)}
    BY <1>5 DEF Quiet
  <2>3. CB!Peek \/ UNCHANGED CB!vars
    BY <2>1, <2>2, PeekRefined
  <2> QED
    BY <1>4, <2>2, <2>3, BreakerRecords DEF CB!Next
<1>6. ASSUME NEW i \in 1..2, SameCalls(r, 3 - i)
      PROVE  /\ <<r, i>> \in LegIds
             /\ LegOf(<<r, i>>) = legs[r][i] /\ LegOf(<<r, i>>)' = legs'[r][i]
             /\ \A x \in LegIds : x # <<r, i>> => (Calling(LegOf(x)') <=> Calling(LegOf(x)))
  <2>1. \A j \in 1..2 : j # i => j = 3 - i
    OBVIOUS
  <2>2. ASSUME NEW x \in LegIds, x # <<r, i>>, x[1] = r
        PROVE  Calling(LegOf(x)') <=> Calling(LegOf(x))
    <3>1. x[2] = 3 - i
      BY <1>3, <2>1, <2>2
    <3> QED
      BY <1>3, <1>6, <2>2, <3>1 DEF SameCalls
  <2>3. <<r, i>> \in LegIds /\ <<r, i>>[1] = r /\ <<r, i>>[2] = i
    BY DEF LegIds
  <2> QED
    BY <1>3, <2>2, <2>3
<1>7. ASSUME NEW i \in 1..2, Adds(r, i)
      PROVE  [CB!Next]_(CB!vars) /\ WB' \in BreakerRecord
  <2>1. /\ ~Calling(legs[r][i]) /\ Calling(legs'[r][i]) /\ SameCalls(r, 3 - i)
        /\ WouldAllow(WB) /\ WB' = Allowed(WB)
    BY <1>7 DEF Adds
  <2>2. CB!Allow(<<r, i>>) /\ <<r, i>> \in LegIds
    BY <1>6, <2>1, AllowRefined
  <2> QED
    BY <1>4, <2>1, <2>2, BreakerRecords DEF CB!Next
<1>8. ASSUME NEW i \in 1..2, Settles(r, i)
      PROVE  [CB!Next]_(CB!vars) /\ WB' \in BreakerRecord
  <2>1. /\ Calling(legs[r][i]) /\ ~Calling(legs'[r][i]) /\ SameCalls(r, 3 - i)
        /\ WB' \in {RecordSuccess(WB), RecordFailure(WB), Release(WB)}
    BY <1>8 DEF Settles
  <2> DEFINE c == <<r, i>>
  <2>2. /\ c \in LegIds /\ Calling(LegOf(c)) /\ ~Calling(LegOf(c)')
        /\ \A x \in LegIds : x # c => (Calling(LegOf(x)') <=> Calling(LegOf(x)))
    BY <1>6, <2>1
  <2> HIDE DEF c
  <2>3. CB!Succeed(c) \/ CB!Fail(c) \/ CB!GiveBack(c)
    BY <2>1, <2>2, SettleRefined
  <2> QED
    BY <1>4, <2>1, <2>2, <2>3, BreakerRecords DEF CB!Next
<1> QED
  BY <1>1, <1>5, <1>7, <1>8 DEF BreakerStep

LEMMA RefinedStep ==
    ASSUME RefinedInv, [Next /\ LabelNext]_<<vars, label>>
    PROVE  RefinedInv' /\ [CB!Next]_(CB!vars)
<1>1. WatchedInv' /\ WatchedInv /\ WB \in BreakerRecord
  BY WatchedStays DEF RefinedInv
<1>2. CASE UNCHANGED <<vars, label>>
  <2>1. UNCHANGED CB!vars
    BY <1>2 DEF CB!vars, vars, LegOf
  <2>2. WB' = WB /\ LabelsOK'
    BY <1>2 DEF vars, WB, RefinedInv, LabelsOK, LegOf
  <2> QED
    BY <1>1, <2>1, <2>2 DEF RefinedInv
<1>3. CASE Next /\ LabelNext
  <2>1. LabelsOK'
    BY <1>3, CallersNext DEF RefinedInv
  <2>2. CASE Tick
    <3>1. UNCHANGED legs /\ WB' = Older(WB)
      BY <2>2, WatchedAssumption DEF Tick, WB
    <3>2. CB!Tick
      BY <1>3, <3>1, TickRefined
    <3>3. WB' \in BreakerRecord
      BY <1>1, <3>1, BreakerRecords
    <3> QED
      BY <1>1, <2>1, <3>2, <3>3 DEF CB!Next, RefinedInv
  <2>3. ASSUME NEW r \in Requests,
               Plan(r) \/ ReqStep(r) \/ (\E i \in 1..2 : LegStep(r, i)) \/ Cancel(r)
        PROVE  RefinedInv' /\ [CB!Next]_(CB!vars)
    BY <1>1, <1>3, <2>1, <2>3, RequestRefined DEF RefinedInv
  <2>4. ASSUME NEW p \in Providers, DropProvider(p) \/ SetProvider(p)
        PROVE  RefinedInv' /\ [CB!Next]_(CB!vars)
    <3>1. p # Watched
      BY <1>1, <2>4, WatchedAssumption DEF DropProvider, SetProvider, WatchedInv
    <3>2. UNCHANGED legs /\ breaker' = [breaker EXCEPT ![p] = NewBreaker]
      BY <2>4 DEF DropProvider, SetProvider
    <3>3. WB' = WB /\ \A x \in LegIds : Calling(LegOf(x)') <=> Calling(LegOf(x))
      BY <3>1, <3>2 DEF WB, LegOf
    <3>4. CB!Peek \/ UNCHANGED CB!vars
      BY <1>3, <3>3, PeekRefined
    <3> QED
      BY <1>1, <2>1, <3>3, <3>4 DEF CB!Next, RefinedInv
  <2> QED
    BY <1>3, <2>2, <2>3, <2>4 DEF Next
<1> QED
  BY <1>2, <1>3

\* What completions and streams do to the breaker of a provider that stays
\* registered is what CircuitBreaker says its callers do: one record_success,
\* record_failure or release for every True of allow(), on every path of route and
\* stream.  (EmbedEnds and the cancellation of an embedding do not keep to it.)
THEOREM BreakerRefinedAlways == Embeds = {} => (LabelledSpec => BreakerRefined)
<1> SUFFICES ASSUME Embeds = {} PROVE LabelledSpec => BreakerRefined
  OBVIOUS
<1>1. LabelInit => RefinedInv /\ CB!Init
  BY RefinedStart
<1>2. RefinedInv /\ [Next /\ LabelNext]_<<vars, label>> => RefinedInv' /\ [CB!Next]_(CB!vars)
  BY RefinedStep
<1> QED
  BY <1>1, <1>2, PTL DEF LabelledSpec, BreakerRefined, CB!Spec
=============================================================================
