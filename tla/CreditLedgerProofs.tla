------------------------- MODULE CreditLedgerProofs -------------------------
(***************************************************************************)
(* Proofs about CreditLedger for all plans, prices, limits, keys and       *)
(* times: the rows of grants and what may happen to them.  Nothing here    *)
(* needs the value of a sum, only the guards around it; CreditBooksProofs  *)
(* goes on with the sums.                                                  *)
(***************************************************************************)
EXTENDS CreditLedger, SequenceTheorems, TLAPS

-----------------------------------------------------------------------------
(* Rows and cycles *)

\* Grants as they should be once the account has been brought up to `at`.
Sound(gs, at) ==
  /\ gs \in Seq(Grant)
  /\ \A g \in DOMAIN gs :
       /\ gs[g].reserved + gs[g].consumed + gs[g].expired <= gs[g].granted
       /\ Due(gs[g], at) => Available(gs[g]) = 0

\* The inductive invariant.
IInv == TypeOK /\ Sound(grants, account.updatedAt)

\* A function on 1..n is a sequence of length n: what rewriting every row of
\* grants gives is again a sequence of as many rows.
LEMMA RowsAreSeq ==
  ASSUME NEW S, NEW s \in Seq(S), NEW f, DOMAIN f = DOMAIN s, f = [i \in DOMAIN s |-> f[i]],
         \A i \in DOMAIN s : f[i] \in S
  PROVE  f \in Seq(S) /\ Len(f) = Len(s)
<1>1. Len(s) \in Nat /\ DOMAIN s = 1..Len(s)
  BY LenProperties
<1>2. f \in [1..Len(s) -> S]
  BY <1>1
<1> QED
  BY <1>1, <1>2, IsASeq, LenProperties

\* An instant lies before the end of its cycle.
LEMMA CycleEndsLater ==
  ASSUME NEW now \in Nat
  PROVE  CycleIndex(now) \in Nat /\ (CycleIndex(now) + 1) * CycleLength \in Nat
         /\ now < (CycleIndex(now) + 1) * CycleLength
<1>1. CycleLength \in Nat /\ CycleLength > 0
  BY BoundAssumption
<1> QED
  BY <1>1 DEF CycleIndex

\* The plan in force at an instant is a plan.
LEMMA PlanInForce ==
  ASSUME TypeOK, NEW now \in Nat
  PROVE  PlanAt(now) \in Plans /\ Allowance[PlanAt(now)] \in Nat
<1>1. PlanAt(now) \in Plans
  BY NoneAssumption DEF TypeOK, PlanAt, Plans, Opens
<1> QED
  BY <1>1, PolicyAssumption

-----------------------------------------------------------------------------
(* What _ensure leaves behind *)

\* Lapsing rewrites rows in place and empties every grant that is due.
LEMMA LapsedSound ==
  ASSUME IInv, NEW now \in Nat, CanEnsure(now)
  PROVE  /\ Sound(Lapsed(now), now)
         /\ Len(Lapsed(now)) = Len(grants)
         /\ \A g \in DOMAIN grants : /\ Lapsed(now)[g].expiresAt = grants[g].expiresAt
                                    /\ Lapsed(now)[g].granted = grants[g].granted
                                    /\ Lapsed(now)[g].consumed = grants[g].consumed
                                    /\ Lapsed(now)[g].expired >= grants[g].expired
<1>1. grants \in Seq(Grant) /\ DOMAIN Lapsed(now) = DOMAIN grants
  BY DEF IInv, TypeOK, Lapsed
<1>2. ASSUME NEW g \in DOMAIN grants
      PROVE  /\ Lapsed(now)[g] \in Grant
             /\ Lapsed(now)[g].reserved + Lapsed(now)[g].consumed + Lapsed(now)[g].expired
                  <= Lapsed(now)[g].granted
             /\ Due(Lapsed(now)[g], now) => Available(Lapsed(now)[g]) = 0
             /\ Lapsed(now)[g].expiresAt = grants[g].expiresAt
             /\ Lapsed(now)[g].granted = grants[g].granted
             /\ Lapsed(now)[g].consumed = grants[g].consumed
             /\ Lapsed(now)[g].expired >= grants[g].expired
  <2>1. /\ grants[g] \in Grant
        /\ grants[g].reserved + grants[g].consumed + grants[g].expired <= grants[g].granted
        /\ Available(grants[g]) >= 0
    BY <1>1, ElementOfSeq DEF IInv, Sound, CanEnsure
  <2>2. CASE g \in Lapsing(now)
    <3>1. Lapsed(now)[g] = [grants[g] EXCEPT !.expired = @ + Available(grants[g])]
      BY <2>2 DEF Lapsed
    <3> QED
      BY <2>1, <3>1 DEF Grant, Available, Due
  <2>3. CASE g \notin Lapsing(now)
    <3>1. Lapsed(now)[g] = grants[g]
      BY <2>3 DEF Lapsed
    <3>2. Due(grants[g], now) => Available(grants[g]) = 0
      BY <2>1, <2>3 DEF Lapsing, Grant, Available
    <3> QED
      BY <2>1, <3>1, <3>2 DEF Grant
  <2> QED
    BY <2>2, <2>3
<1>3. Lapsed(now) = [g \in DOMAIN grants |-> Lapsed(now)[g]]
  BY DEF Lapsed
<1>4. Lapsed(now) \in Seq(Grant) /\ Len(Lapsed(now)) = Len(grants)
  BY <1>1, <1>2, <1>3, RowsAreSeq
<1> QED
  BY <1>1, <1>2, <1>4 DEF Sound

\* A new cycle's base grant is a row, all of it is available, and it is not due.
LEMMA BaseGrantSound ==
  ASSUME IInv, NEW now \in Nat
  PROVE  /\ BaseGrant(now) \in Grant
         /\ BaseGrant(now).reserved + BaseGrant(now).consumed + BaseGrant(now).expired
              <= BaseGrant(now).granted
         /\ ~Due(BaseGrant(now), now)
<1>1. Allowance[PlanAt(now)] \in Nat
  BY PlanInForce DEF IInv
<1>2. /\ CycleIndex(now) \in Nat /\ (CycleIndex(now) + 1) * CycleLength \in Nat
      /\ now < (CycleIndex(now) + 1) * CycleLength
  BY CycleEndsLater
<1> DEFINE end == (CycleIndex(now) + 1) * CycleLength
<1>3. end \in Nat /\ now < end
  BY <1>2
<1>4. BaseGrant(now) = NewGrant("base", CycleIndex(now), now, end, Allowance[PlanAt(now)])
  BY DEF BaseGrant
<1> HIDE DEF end
<1> QED
  BY <1>1, <1>2, <1>3, <1>4 DEF NewGrant, Grant, Due

\* _ensure brings every grant up to `now` and keeps the order of the rows.
LEMMA EnsuredSound ==
  ASSUME IInv, NEW now \in Nat, CanEnsure(now)
  PROVE  /\ Sound(EnsuredGrants(now), now)
         /\ DOMAIN grants \subseteq DOMAIN EnsuredGrants(now)
         /\ \A g \in DOMAIN grants : /\ EnsuredGrants(now)[g].granted = grants[g].granted
                                    /\ EnsuredGrants(now)[g].consumed = grants[g].consumed
                                    /\ EnsuredGrants(now)[g].expired >= grants[g].expired
<1> DEFINE old == Lapsed(now)  new == BaseGrant(now)
<1>1. /\ Sound(old, now) /\ Len(old) = Len(grants)
      /\ \A g \in DOMAIN grants : /\ old[g].granted = grants[g].granted
                                 /\ old[g].consumed = grants[g].consumed
                                 /\ old[g].expired >= grants[g].expired
  BY LapsedSound
<1>2. /\ new \in Grant /\ new.reserved + new.consumed + new.expired <= new.granted
      /\ ~Due(new, now)
  BY BaseGrantSound
<1>3. /\ old \in Seq(Grant) /\ grants \in Seq(Grant)
      /\ DOMAIN old = 1..Len(grants) /\ DOMAIN grants = 1..Len(grants) /\ Len(grants) \in Nat
  BY <1>1, LenProperties DEF Sound, IInv, TypeOK
<1>4. CASE ~Opens(now)
  <2>1. EnsuredGrants(now) = old
    BY <1>4 DEF EnsuredGrants
  <2> QED
    BY <1>1, <1>3, <2>1
<1>5. CASE Opens(now)
  <2>1. EnsuredGrants(now) = Append(old, new)
    BY <1>5 DEF EnsuredGrants
  <2> HIDE DEF old, new
  <2>2. /\ Append(old, new) \in Seq(Grant) /\ Len(Append(old, new)) = Len(grants) + 1
        /\ \A g \in 1..Len(grants) : Append(old, new)[g] = old[g]
        /\ Append(old, new)[Len(grants) + 1] = new
    BY <1>1, <1>2, <1>3, AppendProperties
  <2>3. DOMAIN Append(old, new) = 1..(Len(grants) + 1)
    BY <2>2, LenProperties
  <2> QED
    BY <1>1, <1>2, <1>3, <2>1, <2>2, <2>3 DEF Sound
<1> QED
  BY <1>4, <1>5

\* The account and cycle rows keep their types.
LEMMA EnsuredTypes ==
  ASSUME IInv, NEW now \in Nat
  PROVE  /\ EnsuredAccount(now) \in [plan : Plans \cup {None}, pending : Plans \cup {None},
                                     updatedAt : Nat]
         /\ EnsuredAccount(now).updatedAt = now
         /\ EnsuredCycle(now) \in [index : Nat \cup {-1}, plan : Plans \cup {None},
                                   allowance : Nat]
<1>1. PlanAt(now) \in Plans /\ Allowance[PlanAt(now)] \in Nat /\ CycleIndex(now) \in Nat
  BY PlanInForce, CycleEndsLater DEF IInv
<1> QED
  BY <1>1 DEF IInv, TypeOK, EnsuredAccount, EnsuredCycle

\* The base grant an upgrade enlarges is the current cycle's: it is alive.
LEMMA CurrentBaseAlive ==
  ASSUME IInv, NEW now \in Nat, CanEnsure(now)
  PROVE  CurrentBase(now) \in DOMAIN EnsuredGrants(now)
         /\ ~Due(EnsuredGrants(now)[CurrentBase(now)], now)
<1>1. /\ Lapsed(now) \in Seq(Grant) /\ Len(Lapsed(now)) = Len(grants)
      /\ DOMAIN Lapsed(now) = DOMAIN grants
      /\ \A g \in DOMAIN grants : Lapsed(now)[g].expiresAt = grants[g].expiresAt
  BY LapsedSound DEF Sound, Lapsed
<1>2. CASE Opens(now)
  <2>1. /\ BaseGrant(now) \in Grant /\ ~Due(BaseGrant(now), now)
    BY BaseGrantSound
  <2>2. EnsuredGrants(now) = Append(Lapsed(now), BaseGrant(now)) /\ CurrentBase(now) = Len(grants) + 1
    BY <1>2 DEF EnsuredGrants, CurrentBase
  <2>3. /\ Append(Lapsed(now), BaseGrant(now)) \in Seq(Grant)
        /\ Len(Append(Lapsed(now), BaseGrant(now))) = Len(grants) + 1
        /\ Append(Lapsed(now), BaseGrant(now))[Len(grants) + 1] = BaseGrant(now)
    BY <1>1, <2>1, AppendProperties
  <2>4. Len(grants) \in Nat /\ DOMAIN Append(Lapsed(now), BaseGrant(now)) = 1..(Len(grants) + 1)
    BY <2>3, LenProperties DEF IInv, TypeOK
  <2> QED
    BY <2>1, <2>2, <2>3, <2>4
<1>3. CASE ~Opens(now)
  <2>1. AccountCoherent /\ cycle.index = CycleIndex(now)
    <3>1. CycleIndex(now) \in Nat /\ cycle.index \in Nat \cup {-1}
      BY CycleEndsLater DEF IInv, TypeOK
    <3> QED
      BY <1>3, <3>1 DEF CanEnsure, Opens
  <2>2. PICK g \in DOMAIN grants : /\ BasesOf(cycle.index) = {g}
                                  /\ grants[g].expiresAt = (cycle.index + 1) * CycleLength
    BY <2>1 DEF AccountCoherent
  <2>3. CurrentBase(now) = g /\ EnsuredGrants(now) = Lapsed(now)
    BY <1>3, <2>2 DEF CurrentBase, EnsuredGrants
  <2>4. now < (CycleIndex(now) + 1) * CycleLength /\ (CycleIndex(now) + 1) * CycleLength \in Nat
    BY CycleEndsLater
  <2>5. Lapsed(now)[g].expiresAt = (CycleIndex(now) + 1) * CycleLength
    BY <1>1, <2>1, <2>2
  <2> DEFINE end == (CycleIndex(now) + 1) * CycleLength
  <2> HIDE DEF end
  <2>6. end \in Nat /\ now < end /\ Lapsed(now)[g].expiresAt = end
    BY <2>4, <2>5 DEF end
  <2> QED
    BY <1>1, <2>2, <2>3, <2>6 DEF Due
<1> QED
  BY <1>2, <1>3
-----------------------------------------------------------------------------
(* One lemma per kind of step *)

\* No step takes back what was granted, spent or lapsed.
Monotone ==
  \A g \in DOMAIN grants :
    /\ grants'[g].consumed >= grants[g].consumed
    /\ grants'[g].expired >= grants[g].expired
    /\ grants'[g].granted >= grants[g].granted

\* The numbers of a grant row are naturals.
LEMMA RowNumbers ==
  ASSUME IInv, NEW g \in DOMAIN grants
  PROVE  /\ grants[g] \in Grant
         /\ grants[g].granted \in Nat /\ grants[g].reserved \in Nat
         /\ grants[g].consumed \in Nat /\ grants[g].expired \in Nat
<1>1. grants[g] \in Grant
  BY ElementOfSeq DEF IInv, TypeOK
<1> QED
  BY <1>1 DEF Grant

\* What is left to show once the rows of a lifecycle operation are known.
LEMMA LifecycleStep ==
  ASSUME IInv, clock' \in Nat, role' \in {"user", "master"}, status' \in {"active", "suspended"},
         account' \in [plan : Plans \cup {None}, pending : Plans \cup {None}, updatedAt : Nat],
         cycle' \in [index : Nat \cup {-1}, plan : Plans \cup {None}, allowance : Nat],
         operations' \subseteq CommandKeys, reservations' = reservations,
         Sound(grants', account'.updatedAt), DOMAIN grants \subseteq DOMAIN grants'
  PROVE  IInv'
<1>1. \A k \in ReserveKeys : IsReservation(reservations[k])'
  BY DEF IInv, TypeOK, IsReservation
<1> QED
  BY <1>1 DEF IInv, TypeOK, Sound, Due

\* Bringing the account up to an instant preserves the invariant.
LEMMA EnsureStep ==
  ASSUME IInv, NEW now \in Nat, EnsureCycle(now)
  PROVE  IInv' /\ Monotone
<1>1. /\ account' = EnsuredAccount(now) /\ cycle' = EnsuredCycle(now)
      /\ grants' = EnsuredGrants(now)
  BY DEF EnsureCycle, Ensure
<1>2. Sound(grants', account'.updatedAt) /\ DOMAIN grants \subseteq DOMAIN grants'
  BY <1>1, EnsuredSound, EnsuredTypes DEF EnsureCycle
<1>3. Monotone
  BY <1>1, EnsuredSound, RowNumbers DEF EnsureCycle, Monotone
<1>4. IInv'
  BY <1>1, <1>2, EnsuredTypes, LifecycleStep DEF EnsureCycle, IInv, TypeOK
<1> QED
  BY <1>3, <1>4

\* An upgrade adds to a grant that is alive, so nothing lapsed comes back.
LEMMA UpgradeRows ==
  ASSUME IInv, NEW now \in Nat, NEW plan \in Plans, NEW key, CanEnsure(now),
         Upgrade(plan, key, now)
  PROVE  Sound(grants', now) /\ DOMAIN grants' = DOMAIN EnsuredGrants(now)
         /\ \A g \in DOMAIN grants' :
              /\ grants'[g].granted >= EnsuredGrants(now)[g].granted
              /\ grants'[g].consumed = EnsuredGrants(now)[g].consumed
              /\ grants'[g].expired = EnsuredGrants(now)[g].expired
<1> DEFINE gs == EnsuredGrants(now)
           base == CurrentBase(now)
           delta == Allowance[plan] - EnsuredCycle(now).allowance
<1>1. Sound(gs, now) /\ base \in DOMAIN gs /\ ~Due(gs[base], now)
  BY EnsuredSound, CurrentBaseAlive
<1>2. delta \in Nat
  <2>1. delta \in Int
    BY EnsuredTypes, PolicyAssumption
  <2>2. WithinCapacity(gs, delta)
    BY DEF Upgrade
  <2> QED
    BY <2>1, <2>2 DEF WithinCapacity
<1>3. grants' = [gs EXCEPT ![base].granted = @ + delta]
  BY DEF Upgrade
<1> HIDE DEF gs, base, delta
<1>4. gs \in Seq(Grant) /\ gs[base] \in Grant
  BY <1>1, ElementOfSeq DEF Sound
<1>5. DOMAIN grants' = DOMAIN gs /\ grants' = [g \in DOMAIN gs |-> grants'[g]]
  BY <1>3
<1>6. ASSUME NEW g \in DOMAIN gs
      PROVE  /\ grants'[g] \in Grant
             /\ grants'[g].reserved + grants'[g].consumed + grants'[g].expired <= grants'[g].granted
             /\ Due(grants'[g], now) => Available(grants'[g]) = 0
             /\ grants'[g].granted >= gs[g].granted
             /\ grants'[g].consumed = gs[g].consumed
             /\ grants'[g].expired = gs[g].expired
  <2>1. /\ gs[g] \in Grant
        /\ gs[g].reserved + gs[g].consumed + gs[g].expired <= gs[g].granted
        /\ Due(gs[g], now) => Available(gs[g]) = 0
    BY <1>1, ElementOfSeq DEF Sound
  <2>2. CASE g = base
    <3>1. grants'[g] = [gs[g] EXCEPT !.granted = @ + delta]
      BY <1>3, <2>2
    <3> QED
      BY <1>1, <1>2, <2>1, <2>2, <3>1 DEF Grant, Due
  <2>3. CASE g # base
    BY <1>3, <2>1, <2>3 DEF Grant
  <2> QED
    BY <2>2, <2>3
<1>7. grants' \in Seq(Grant)
  BY <1>4, <1>5, <1>6, RowsAreSeq
<1> QED
  BY <1>5, <1>6, <1>7 DEF Sound, gs

\* A plan change, at once or at the next cycle, preserves the invariant.
LEMMA ChangePlanStep ==
  ASSUME IInv, NEW now \in Nat, NEW plan \in Plans, NEW key \in CommandKeys,
         ChangePlan(plan, key, now), role' \in {"user", "master"}
  PROVE  IInv' /\ Monotone
<1>1. CanEnsure(now) /\ operations' \subseteq CommandKeys /\ reservations' = reservations
      /\ clock' \in Nat /\ status' \in {"active", "suspended"}
  BY DEF ChangePlan, IInv, TypeOK
<1>2. CASE Upgrade(plan, key, now)
  <2>1. account' = [EnsuredAccount(now) EXCEPT !.plan = plan, !.pending = None]
        /\ cycle' = [EnsuredCycle(now) EXCEPT !.plan = plan, !.allowance = Allowance[plan]]
    BY <1>2 DEF Upgrade
  <2>2. Sound(grants', account'.updatedAt) /\ DOMAIN grants \subseteq DOMAIN grants'
    BY <1>1, <1>2, <2>1, UpgradeRows, EnsuredSound, EnsuredTypes
  <2>3. /\ account' \in [plan : Plans \cup {None}, pending : Plans \cup {None}, updatedAt : Nat]
        /\ cycle' \in [index : Nat \cup {-1}, plan : Plans \cup {None}, allowance : Nat]
    <3>1. EnsuredAccount(now).updatedAt \in Nat
          /\ EnsuredAccount(now) \in [plan : Plans \cup {None}, pending : Plans \cup {None},
                                      updatedAt : Nat]
      BY EnsuredTypes
    <3>2. EnsuredCycle(now) \in [index : Nat \cup {-1}, plan : Plans \cup {None},
                                 allowance : Nat]
      BY EnsuredTypes
    <3>3. Allowance[plan] \in Nat
      BY PolicyAssumption
    <3> DEFINE a == EnsuredAccount(now)  c == EnsuredCycle(now)  amount == Allowance[plan]
    <3> HIDE DEF a, c, amount
    <3>4. account' \in [plan : Plans \cup {None}, pending : Plans \cup {None}, updatedAt : Nat]
      <4>1. a \in [plan : Plans \cup {None}, pending : Plans \cup {None}, updatedAt : Nat]
            /\ account' = [a EXCEPT !.plan = plan, !.pending = None]
        BY <2>1, <3>1 DEF a
      <4> QED
        BY <4>1
    <3>5. cycle' \in [index : Nat \cup {-1}, plan : Plans \cup {None}, allowance : Nat]
      <4>1. c \in [index : Nat \cup {-1}, plan : Plans \cup {None}, allowance : Nat]
            /\ cycle' = [c EXCEPT !.plan = plan, !.allowance = amount] /\ amount \in Nat
        BY <2>1, <3>2, <3>3 DEF c, amount
      <4> QED
        BY <4>1
    <3> QED
      BY <3>4, <3>5
  <2>4. Monotone
    <3>1. ASSUME NEW g \in DOMAIN grants
          PROVE  /\ grants'[g].consumed >= grants[g].consumed
                 /\ grants'[g].expired >= grants[g].expired
                 /\ grants'[g].granted >= grants[g].granted
      <4>1. g \in DOMAIN EnsuredGrants(now) /\ g \in DOMAIN grants'
        BY <1>1, <1>2, EnsuredSound, UpgradeRows
      <4>2. /\ EnsuredGrants(now)[g].granted = grants[g].granted
            /\ EnsuredGrants(now)[g].consumed = grants[g].consumed
            /\ EnsuredGrants(now)[g].expired >= grants[g].expired
        BY <1>1, EnsuredSound
      <4>3. /\ grants'[g].granted >= EnsuredGrants(now)[g].granted
            /\ grants'[g].consumed = EnsuredGrants(now)[g].consumed
            /\ grants'[g].expired = EnsuredGrants(now)[g].expired
        BY <1>1, <1>2, <4>1, UpgradeRows
      <4> QED
        BY <4>2, <4>3, RowNumbers
    <3> QED
      BY <3>1 DEF Monotone
  <2>5. IInv'
    BY <1>1, <2>2, <2>3, LifecycleStep
  <2> QED
    BY <2>4, <2>5
<1>3. CASE Schedule(plan, now)
  <2>1. /\ grants' = EnsuredGrants(now) /\ cycle' = EnsuredCycle(now)
        /\ account' = [EnsuredAccount(now) EXCEPT
                        !.pending = IF Rank[plan] < Rank[PlanAt(now)] THEN plan ELSE None]
    BY <1>3 DEF Schedule
  <2>2. account' \in [plan : Plans \cup {None}, pending : Plans \cup {None}, updatedAt : Nat]
        /\ account'.updatedAt = now
    BY <2>1, EnsuredTypes
  <2>3. Monotone
    BY <1>1, <2>1, EnsuredSound, RowNumbers DEF Monotone
  <2>4. IInv'
    BY <1>1, <2>1, <2>2, EnsuredSound, EnsuredTypes, LifecycleStep
  <2> QED
    BY <2>3, <2>4
<1> QED
  BY <1>2, <1>3 DEF ChangePlan

\* A bonus, which is alive when it is given, preserves the invariant.
LEMMA GrantBonusStep ==
  ASSUME IInv, NEW now \in Nat, NEW bonus \in BonusGrants, NEW key \in CommandKeys,
         GrantBonus(bonus, key, now)
  PROVE  IInv' /\ Monotone
<1> DEFINE gs == EnsuredGrants(now)
           new == NewGrant("bonus", None, now, bonus.expiresAt, bonus.amount)
<1>1. /\ CanEnsure(now) /\ grants' = Append(gs, new)
      /\ account' = EnsuredAccount(now) /\ cycle' = EnsuredCycle(now)
      /\ bonus.expiresAt # None => bonus.expiresAt > now
  BY DEF GrantBonus
<1>2. Sound(gs, now) /\ DOMAIN grants \subseteq DOMAIN gs
  BY <1>1, EnsuredSound
<1>3. bonus.amount \in Nat /\ bonus.expiresAt \in Nat \cup {None}
  BY BoundAssumption
<1>4. /\ new \in Grant /\ ~Due(new, now)
      /\ new.reserved + new.consumed + new.expired <= new.granted
  BY <1>1, <1>3 DEF NewGrant, Grant, Due
<1> HIDE DEF gs, new
<1>5. /\ Append(gs, new) \in Seq(Grant) /\ Len(Append(gs, new)) = Len(gs) + 1
      /\ \A g \in 1..Len(gs) : Append(gs, new)[g] = gs[g]
      /\ Append(gs, new)[Len(gs) + 1] = new
  BY <1>2, <1>4, AppendProperties DEF Sound
<1>6. /\ DOMAIN gs = 1..Len(gs) /\ Len(gs) \in Nat
      /\ DOMAIN Append(gs, new) = 1..(Len(gs) + 1)
  BY <1>2, <1>5, LenProperties DEF Sound
<1>7. Sound(Append(gs, new), now) /\ DOMAIN grants \subseteq DOMAIN Append(gs, new)
  BY <1>2, <1>4, <1>5, <1>6 DEF Sound
<1>8. Monotone
  <2>1. \A g \in DOMAIN grants :
          /\ gs[g].granted = grants[g].granted
          /\ gs[g].consumed = grants[g].consumed
          /\ gs[g].expired >= grants[g].expired
    BY <1>1, EnsuredSound DEF gs
  <2>2. \A g \in DOMAIN grants : grants'[g] = gs[g]
    BY <1>1, <1>2, <1>5, <1>6
  <2> QED
    BY <2>1, <2>2, RowNumbers DEF Monotone
<1>9. IInv'
  BY <1>1, <1>7, EnsuredTypes, LifecycleStep, ZenonT(60) DEF GrantBonus, IInv, TypeOK
<1> QED
  BY <1>8, <1>9

\* A hold takes at most what a grant has available - nothing from one that is due.
LEMMA ReserveStep ==
  ASSUME IInv, NEW now \in Nat, NEW key \in ReserveKeys, NEW items \in UnitsOver(1),
         Reserve(key, items, now)
  PROVE  IInv' /\ Monotone
<1> DEFINE gs == EnsuredGrants(now)
           cap == [g \in DOMAIN gs |-> Available(gs[g])]
<1>1. CanEnsure(now) /\ account' = EnsuredAccount(now) /\ cycle' = EnsuredCycle(now)
      /\ UNCHANGED <<clock, role, status, operations>>
  BY DEF Reserve
<1>2. /\ Sound(gs, now) /\ DOMAIN grants \subseteq DOMAIN gs
      /\ \A g \in DOMAIN grants : /\ gs[g].granted = grants[g].granted
                                 /\ gs[g].consumed = grants[g].consumed
                                 /\ gs[g].expired >= grants[g].expired
  BY <1>1, EnsuredSound
<1>a. PICK total \in 1..MaxAmount : \E taken \in [DOMAIN gs -> 0..total] :
        /\ GreedySplit(gs, cap, total, taken)
        /\ reservations' = [reservations EXCEPT ![key] =
             [Absent EXCEPT !.status = "held", !.items = items, !.reserved = total,
                            !.allocation = [g \in {h \in DOMAIN gs : taken[h] > 0} |-> taken[g]],
                            !.createdAt = now]]
        /\ grants' = [g \in DOMAIN gs |-> [gs[g] EXCEPT !.reserved = @ + taken[g]]]
  BY DEF Reserve
<1>3. PICK taken \in [DOMAIN gs -> 0..total] :
        /\ GreedySplit(gs, cap, total, taken)
        /\ reservations' = [reservations EXCEPT ![key] =
             [Absent EXCEPT !.status = "held", !.items = items, !.reserved = total,
                            !.allocation = [g \in {h \in DOMAIN gs : taken[h] > 0} |-> taken[g]],
                            !.createdAt = now]]
        /\ grants' = [g \in DOMAIN gs |-> [gs[g] EXCEPT !.reserved = @ + taken[g]]]
  BY <1>a
<1> HIDE DEF gs
<1>4. total \in Nat /\ total > 0
  BY <1>3, BoundAssumption
<1>5. ASSUME NEW g \in DOMAIN gs
      PROVE  /\ grants'[g] \in Grant
             /\ grants'[g].reserved + grants'[g].consumed + grants'[g].expired
                  <= grants'[g].granted
             /\ Due(grants'[g], now) => Available(grants'[g]) = 0
             /\ grants'[g].granted = gs[g].granted
             /\ grants'[g].consumed = gs[g].consumed
             /\ grants'[g].expired = gs[g].expired
  <2>1. /\ gs[g] \in Grant
        /\ gs[g].reserved + gs[g].consumed + gs[g].expired <= gs[g].granted
        /\ Due(gs[g], now) => Available(gs[g]) = 0
    BY <1>2, ElementOfSeq DEF Sound
  <2>2. taken[g] \in Nat /\ taken[g] <= Available(gs[g])
    BY <1>3, <1>4 DEF GreedySplit
  <2>3. grants'[g] = [gs[g] EXCEPT !.reserved = @ + taken[g]]
    BY <1>3
  <2> QED
    BY <2>1, <2>2, <2>3 DEF Grant, Available, Due
<1>6. DOMAIN grants' = DOMAIN gs /\ grants' = [g \in DOMAIN gs |-> grants'[g]]
  BY <1>3
<1>7. Sound(grants', now) /\ DOMAIN grants \subseteq DOMAIN grants'
  <2>1. grants' \in Seq(Grant)
    BY <1>2, <1>5, <1>6, RowsAreSeq DEF Sound
  <2> QED
    BY <1>2, <1>5, <1>6, <2>1 DEF Sound
<1>8. DOMAIN reservations' = ReserveKeys
  BY <1>3 DEF IInv, TypeOK
<1>9. ASSUME NEW k \in ReserveKeys
      PROVE  IsReservation(reservations[k])'
  <2>1. CASE k # key
    <3>1. reservations'[k] = reservations[k] /\ IsReservation(reservations[k])
      BY <1>3, <2>1 DEF IInv, TypeOK
    <3> QED
      BY <1>7, <3>1 DEF IsReservation
  <2>2. CASE k = key
    <3> DEFINE used == {h \in DOMAIN gs : taken[h] > 0}
               split == [g \in used |-> taken[g]]
    <3>1. split \in [used -> Nat \ {0}] /\ used \subseteq DOMAIN grants' /\ DOMAIN split = used
      BY <1>3, <1>4, <1>6
    <3>2. reservations'[k] = [status |-> "held", items |-> items, reserved |-> total,
                              allocation |-> split, createdAt |-> now, terminalKey |-> None,
                              charged |-> 0]
      BY <1>3, <2>2 DEF Absent, IInv, TypeOK
    <3> HIDE DEF used, split
    <3> QED
      BY <1>4, <3>1, <3>2 DEF IsReservation
  <2> QED
    BY <2>1, <2>2
<1>10. Monotone
  BY <1>2, <1>5, RowNumbers DEF Monotone
<1>11. IInv'
  <2>1. TypeOK'
    BY <1>1, <1>7, <1>8, <1>9, EnsuredTypes DEF TypeOK, Sound, IInv
  <2>2. Sound(grants', account'.updatedAt)
    BY <1>1, <1>7, EnsuredTypes
  <2> QED
    BY <2>1, <2>2 DEF IInv, Sound, Due
<1> QED
  BY <1>10, <1>11

\* Ending a hold gives back what was not spent, except on a grant that lapsed
\* meanwhile: that part lapses too.  `now` is not older than the account, so
\* every grant that counts as lapsed for the account is due at `now` as well.
LEMMA TerminalStep ==
  ASSUME IInv, NEW now \in Nat, NEW key \in ReserveKeys, NEW terminalKey \in TerminalKeys,
         NEW usage, NEW charge \in BOOLEAN, Terminal(key, terminalKey, usage, charge, now)
  PROVE  IInv' /\ Monotone
<1> DEFINE r == reservations[key]
           hold == r.allocation
<1>1. /\ now >= account.updatedAt
      /\ \A g \in DOMAIN hold : grants[g].reserved >= hold[g]
      /\ UNCHANGED <<clock, role, status, account, cycle, operations>>
  BY DEF Terminal, TerminalAllowed
<1>2. IsReservation(r) /\ grants \in Seq(Grant) /\ account.updatedAt \in Nat
  BY DEF IInv, TypeOK
<1>a. PICK consumed \in 0..r.reserved : \E spent \in [DOMAIN hold -> 0..consumed] :
        /\ GreedySplit(grants, hold, consumed, spent)
        /\ grants' = [g \in DOMAIN grants |->
             IF g \in DOMAIN hold THEN Returned(g, hold[g], spent[g], now) ELSE grants[g]]
        /\ reservations' = [reservations EXCEPT ![key] =
             [r EXCEPT !.status = IF charge THEN "settled" ELSE "released",
                       !.terminalKey = terminalKey, !.charged = consumed]]
  BY DEF Terminal
<1>3. PICK spent \in [DOMAIN hold -> 0..consumed] :
        /\ GreedySplit(grants, hold, consumed, spent)
        /\ grants' = [g \in DOMAIN grants |->
             IF g \in DOMAIN hold THEN Returned(g, hold[g], spent[g], now) ELSE grants[g]]
        /\ reservations' = [reservations EXCEPT ![key] =
             [r EXCEPT !.status = IF charge THEN "settled" ELSE "released",
                       !.terminalKey = terminalKey, !.charged = consumed]]
  BY <1>a
<1>4. /\ DOMAIN hold \subseteq DOMAIN grants /\ hold \in [DOMAIN hold -> Nat \ {0}]
      /\ r.reserved \in Nat /\ consumed \in Nat
  BY <1>2, <1>3 DEF IsReservation
<1>5. ASSUME NEW g \in DOMAIN grants
      PROVE  /\ grants'[g] \in Grant
             /\ grants'[g].reserved + grants'[g].consumed + grants'[g].expired
                  <= grants'[g].granted
             /\ Due(grants'[g], account.updatedAt) => Available(grants'[g]) = 0
             /\ grants'[g].granted = grants[g].granted
             /\ grants'[g].consumed >= grants[g].consumed
             /\ grants'[g].expired >= grants[g].expired
  <2>1. /\ grants[g] \in Grant
        /\ grants[g].reserved + grants[g].consumed + grants[g].expired <= grants[g].granted
        /\ Due(grants[g], account.updatedAt) => Available(grants[g]) = 0
    BY <1>2, ElementOfSeq DEF IInv, Sound
  <2>2. CASE g \in DOMAIN hold
    <3>1. /\ hold[g] \in Nat /\ spent[g] \in Nat /\ spent[g] <= hold[g]
          /\ grants[g].reserved >= hold[g]
      BY <1>1, <1>3, <1>4, <2>2 DEF GreedySplit
    <3> DEFINE h == hold[g]  s == spent[g]  back == Expiring(g, h - s, now)
    <3>2. /\ grants'[g] = [grants[g] EXCEPT !.reserved = @ - h, !.consumed = @ + s,
                                            !.expired = @ + back]
          /\ back = IF Due(grants[g], now) THEN h - s ELSE 0
      BY <1>3, <2>2 DEF Returned, Expiring
    <3>3. h \in Nat /\ s \in Nat /\ s <= h /\ grants[g].reserved >= h
      BY <3>1
    <3> HIDE DEF h, s, back
    <3>4. back \in Nat /\ back <= h - s
      BY <3>2, <3>3
    <3>5. Due(grants[g], account.updatedAt) => back = h - s
      <4>1. ASSUME Due(grants[g], account.updatedAt) PROVE Due(grants[g], now)
        <5>1. grants[g].expiresAt \in Nat
          BY <2>1, <4>1 DEF Due, Grant
        <5> QED
          BY <1>1, <1>2, <4>1, <5>1 DEF Due
      <4> QED
        BY <3>2, <4>1
    <3> DEFINE old == grants[g]  new == grants'[g]
    <3>6. /\ old \in Grant
          /\ new = [old EXCEPT !.reserved = @ - h, !.consumed = @ + s, !.expired = @ + back]
      BY <2>1, <3>2
    <3> HIDE DEF old, new
    <3>7. /\ new.granted = old.granted /\ new.reserved = old.reserved - h
          /\ new.consumed = old.consumed + s /\ new.expired = old.expired + back
          /\ new.expiresAt = old.expiresAt
      BY <3>6 DEF Grant
    <3>8. /\ old.granted \in Nat /\ old.reserved \in Nat /\ old.reserved >= h
          /\ old.consumed \in Nat /\ old.expired \in Nat
      BY <3>3, <3>6 DEF Grant, old
    <3>9. new \in Grant
      <4>1. old.reserved - h \in Nat /\ old.consumed + s \in Nat /\ old.expired + back \in Nat
        BY <3>3, <3>4, <3>8
      <4> QED
        BY <3>6, <4>1 DEF Grant
    <3>10. /\ new.reserved + new.consumed + new.expired <= new.granted
           /\ new.consumed >= old.consumed /\ new.expired >= old.expired
      <4>1. old.reserved + old.consumed + old.expired <= old.granted
        BY <2>1 DEF old
      <4> QED
        BY <3>3, <3>4, <3>7, <3>8, <4>1
    <3>11. Due(new, account.updatedAt) => Available(new) = 0
      <4>1. ASSUME Due(new, account.updatedAt) PROVE Available(old) = 0 /\ back = h - s
        BY <2>1, <3>5, <3>7, <4>1 DEF Due, old
      <4> QED
        BY <3>3, <3>7, <3>8, <4>1 DEF Available
    <3> QED
      BY <3>7, <3>9, <3>10, <3>11 DEF old, new
  <2>3. CASE g \notin DOMAIN hold
    <3>1. grants'[g] = grants[g]
      BY <1>3, <2>3
    <3> QED
      BY <2>1, <3>1 DEF Grant
  <2> QED
    BY <2>2, <2>3
<1>6. DOMAIN grants' = DOMAIN grants /\ grants' = [g \in DOMAIN grants |-> grants'[g]]
  BY <1>3
<1>7. Sound(grants', account.updatedAt)
  <2>1. grants' \in Seq(Grant)
    BY <1>2, <1>5, <1>6, RowsAreSeq
  <2> QED
    BY <1>5, <1>6, <2>1 DEF Sound
<1>8. DOMAIN reservations' = ReserveKeys
  BY <1>3 DEF IInv, TypeOK
<1>9. ASSUME NEW k \in ReserveKeys
      PROVE  IsReservation(reservations[k])'
  <2>1. CASE k # key
    <3>1. reservations'[k] = reservations[k] /\ IsReservation(reservations[k])
      BY <1>3, <2>1 DEF IInv, TypeOK
    <3> QED
      BY <1>6, <3>1 DEF IsReservation
  <2>2. CASE k = key
    <3>1. reservations'[k] = [r EXCEPT !.status = IF charge THEN "settled" ELSE "released",
                                      !.terminalKey = terminalKey, !.charged = consumed]
      BY <1>3, <2>2 DEF IInv, TypeOK
    <3> QED
      BY <1>2, <1>4, <1>6, <3>1 DEF IsReservation
  <2> QED
    BY <2>1, <2>2
<1>10. Monotone
  BY <1>5, RowNumbers DEF Monotone
<1>11. IInv'
  <2>1. TypeOK'
    BY <1>1, <1>7, <1>8, <1>9 DEF TypeOK, Sound, IInv
  <2>2. Sound(grants', account'.updatedAt)
    BY <1>1, <1>7
  <2> QED
    BY <2>1, <2>2 DEF IInv, Sound, Due
<1> QED
  BY <1>10, <1>11

\* Time passing or a status change touches no row.
LEMMA IdleStep ==
  ASSUME IInv, clock' \in Nat, role' = role, status' \in {"active", "suspended"},
         UNCHANGED <<account, cycle, grants, reservations, operations>>
  PROVE  IInv' /\ Monotone
<1>1. IInv'
  BY DEF IInv, TypeOK, IsReservation, Sound, Due
<1>2. Monotone
  BY RowNumbers DEF Monotone
<1> QED
  BY <1>1, <1>2

-----------------------------------------------------------------------------
(* The invariant *)

\* A new user has no rows at all.
LEMMA InitIInv == Init => IInv
<1> SUFFICES ASSUME Init PROVE IInv
  OBVIOUS
<1>1. grants \in Seq(Grant) /\ DOMAIN grants = {}
  BY EmptySeq DEF Init
<1>2. ASSUME NEW k \in ReserveKeys
      PROVE  IsReservation(reservations[k])
  <2>1. reservations[k] = Absent /\ DOMAIN <<>> = {}
    BY DEF Init
  <2>2. <<>> \in UnitsOver(1) /\ <<>> \in [DOMAIN <<>> -> Nat \ {0}]
    BY DEF UnitsOver
  <2> QED
    BY <2>1, <2>2 DEF IsReservation, Absent
<1>3. TypeOK
  BY <1>1, <1>2 DEF Init, TypeOK
<1>4. Sound(grants, account.updatedAt)
  BY <1>1 DEF Sound
<1> QED
  BY <1>3, <1>4 DEF IInv

\* Every operation preserves the invariant and takes nothing back.
LEMMA NextIInv ==
  ASSUME IInv, [Next]_vars
  PROVE  IInv' /\ (Monotone \/ UNCHANGED vars)
<1>0. \A now \in 0..clock : now \in Nat
  BY DEF IInv, TypeOK
<1>1. CASE Tick
  BY <1>1, IdleStep DEF Tick, IInv, TypeOK
<1>2. CASE Suspend
  BY <1>2, IdleStep DEF Suspend, IInv, TypeOK
<1>3. CASE Reactivate
  BY <1>3, IdleStep DEF Reactivate, IInv, TypeOK
<1>4. ASSUME NEW now \in 0..clock, EnsureCycle(now)
      PROVE  IInv' /\ Monotone
  BY <1>0, <1>4, EnsureStep
<1>5. ASSUME NEW now \in 0..clock, NEW key \in CommandKeys, NEW plan \in Plans,
             PlanChange(plan, key, now)
      PROVE  IInv' /\ Monotone
  BY <1>0, <1>5, ChangePlanStep DEF PlanChange, IInv, TypeOK
<1>6. ASSUME NEW now \in 0..clock, NEW key \in CommandKeys, Promote(key, now)
      PROVE  IInv' /\ Monotone
  BY <1>0, <1>6, ChangePlanStep DEF Promote, Plans
<1>7. ASSUME NEW now \in 0..clock, NEW key \in CommandKeys, NEW bonus \in BonusGrants,
             GrantBonus(bonus, key, now)
      PROVE  IInv' /\ Monotone
  BY <1>0, <1>7, GrantBonusStep
<1>8. ASSUME NEW now \in 0..clock, NEW key \in ReserveKeys, NEW items \in UnitsOver(1),
             Reserve(key, items, now)
      PROVE  IInv' /\ Monotone
  BY <1>0, <1>8, ReserveStep
<1>9. ASSUME NEW now \in 0..clock, NEW key \in ReserveKeys, NEW terminalKey \in TerminalKeys,
             NEW usage \in UnitsOver(0),
             Settle(key, terminalKey, usage, now) \/ Release(key, terminalKey, usage, now)
      PROVE  IInv' /\ Monotone
  BY <1>0, <1>9, TerminalStep DEF Settle, Release
<1>10. CASE UNCHANGED vars
  BY <1>10, IdleStep DEF vars, IInv, TypeOK
<1> QED
  BY <1>1, <1>2, <1>3, <1>4, <1>5, <1>6, <1>7, <1>8, <1>9, <1>10 DEF Next

\* The invariant holds in every behaviour.
LEMMA Invariant == Spec => []IInv
<1>1. IInv /\ [Next]_vars => IInv'
  BY NextIInv
<1> QED
  BY InitIInv, <1>1, PTL DEF Spec

-----------------------------------------------------------------------------
(* What follows from it *)

\* Rows stay within their columns and a hold names grants that exist, whatever
\* plans, prices and keys there are.
THEOREM TypeCorrect == Spec => []TypeOK
<1>1. IInv => TypeOK
  BY DEF IInv
<1> QED
  BY Invariant, <1>1, PTL

\* No grant is ever overdrawn.
THEOREM NoOverdraft == Spec => []GrantBalance
<1>1. IInv => GrantBalance
  BY DEF IInv, Sound, GrantBalance
<1> QED
  BY Invariant, <1>1, PTL

\* What has lapsed stays empty, whichever hold ends later.
THEOREM LapsedStayEmpty == Spec => []LapsedGrantsAreEmpty
<1>1. IInv => LapsedGrantsAreEmpty
  BY DEF IInv, Sound, LapsedGrantsAreEmpty
<1> QED
  BY Invariant, <1>1, PTL

\* No step ever takes back a charge, a lapse or a grant.
THEOREM NothingTakenBack == Spec => SpendingIsMonotone
<1>1. IInv /\ [Next]_vars =>
        [\A g \in DOMAIN grants :
           /\ grants'[g].consumed >= grants[g].consumed
           /\ grants'[g].expired >= grants[g].expired
           /\ grants'[g].granted >= grants[g].granted]_vars
  BY NextIInv DEF Monotone
<1> QED
  BY Invariant, <1>1, PTL DEF Spec, SpendingIsMonotone

\* A reservation that ended is never written again.
THEOREM EndedForGood == Spec => TerminalIsFinal
<1>1. ASSUME [Next]_vars, IInv
      PROVE  [\A k \in ReserveKeys :
                reservations[k].status \in {"settled", "released"} =>
                  reservations'[k] = reservations[k]]_vars
  <2>1. ASSUME NEW now, NEW key \in ReserveKeys, NEW items, Reserve(key, items, now)
        PROVE  \A k \in ReserveKeys :
                 reservations[k].status \in {"settled", "released"} =>
                   reservations'[k] = reservations[k]
    <3>1. reservations[key].status = "absent"
          /\ \A k \in ReserveKeys : k # key => reservations'[k] = reservations[k]
      BY <2>1 DEF Reserve, IInv, TypeOK
    <3> QED
      BY <3>1
  <2>2. ASSUME NEW now, NEW key \in ReserveKeys, NEW terminalKey, NEW usage,
               NEW charge \in BOOLEAN, Terminal(key, terminalKey, usage, charge, now)
        PROVE  \A k \in ReserveKeys :
                 reservations[k].status \in {"settled", "released"} =>
                   reservations'[k] = reservations[k]
    <3>1. reservations[key].status = "held"
          /\ \A k \in ReserveKeys : k # key => reservations'[k] = reservations[k]
      BY <2>2 DEF Terminal, TerminalAllowed, IInv, TypeOK
    <3> QED
      BY <3>1
  <2>3. CASE UNCHANGED reservations
    BY <2>3
  <2>4. ASSUME UNCHANGED vars \/ Tick \/ Suspend \/ Reactivate PROVE UNCHANGED reservations
    BY <2>4 DEF vars, Tick, Suspend, Reactivate
  <2>5. ASSUME NEW now \in 0..clock, EnsureCycle(now) PROVE UNCHANGED reservations
    BY <2>5 DEF EnsureCycle
  <2>6. ASSUME NEW now \in 0..clock, NEW key \in CommandKeys, NEW plan \in Plans, PlanChange(plan, key, now)
        PROVE  UNCHANGED reservations
    BY <2>6 DEF PlanChange, ChangePlan
  <2>7. ASSUME NEW now \in 0..clock, NEW key \in CommandKeys, Promote(key, now)
        PROVE  UNCHANGED reservations
    BY <2>7 DEF Promote, ChangePlan
  <2>8. ASSUME NEW now \in 0..clock, NEW key \in CommandKeys, NEW bonus \in BonusGrants,
               GrantBonus(bonus, key, now)
        PROVE  UNCHANGED reservations
    BY <2>8 DEF GrantBonus
  <2>9. ASSUME NEW now \in 0..clock, NEW key \in ReserveKeys, NEW terminalKey \in TerminalKeys,
               NEW usage \in UnitsOver(0),
               Settle(key, terminalKey, usage, now) \/ Release(key, terminalKey, usage, now)
        PROVE  \E charge \in BOOLEAN : Terminal(key, terminalKey, usage, charge, now)
    BY <2>9 DEF Settle, Release
  <2> QED
    BY <1>1, <2>1, <2>2, <2>3, <2>4, <2>5, <2>6, <2>7, <2>8, <2>9 DEF Next
<1>2. IInv /\ [Next]_vars =>
        [\A k \in ReserveKeys :
           reservations[k].status \in {"settled", "released"} =>
             reservations'[k] = reservations[k]]_vars
  BY <1>1
<1> QED
  BY Invariant, <1>2, PTL DEF Spec, TerminalIsFinal

=============================================================================
