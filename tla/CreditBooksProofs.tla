------------------------- MODULE CreditBooksProofs --------------------------
(***************************************************************************)
(* Rows, ledger and holds of CreditLedger agree, for all plans, prices,    *)
(* limits, keys and times, and together they implement CreditPromise.      *)
(* These are facts about sums: what a grant's columns say is what its      *)
(* ledger events add up to, what it has reserved is what open holds took,  *)
(* and the totals of all grants are one pool of credits.                   *)
(***************************************************************************)
EXTENDS CreditLedgerProofs, SumTheorems

-----------------------------------------------------------------------------
(* Posting to the ledger *)

\* Where a grant's number comes from in the ledger: one column of its events.
Own(events, g) == {e \in events : e.grant = g}

Column(events, g, field) == SumFunction([e \in Own(events, g) |-> e[field]])

\* Rows and events that agree: what _ledger_coherent checks, and the unique key
\* (operation_key, grant_id, kind) of the ledger.
Booked(gs, events) ==
  /\ IsFiniteSet(events)
  /\ \A e \in events : /\ e.grant \in DOMAIN gs
                      /\ e.granted \in Int /\ e.reserved \in Int
                      /\ e.consumed \in Int /\ e.expired \in Int
  /\ \A e, f \in events : e.kind = f.kind /\ e.key = f.key /\ e.grant = f.grant => e = f
  /\ LedgerMatches(gs, events)

\* One more event of a grant moves its column by what the event says.
LEMMA ColumnPosted ==
  ASSUME NEW events, NEW posted, IsFiniteSet(events), posted \cap events = {},
         NEW g, NEW field, \A e \in events \cup posted : e[field] \in Int,
         NEW p \in posted, p.grant = g, \A e \in posted : e.grant = g => e = p
  PROVE  Column(events \cup posted, g, field) = Column(events, g, field) + p[field]
<1> DEFINE own == Own(events, g)
           all == Own(events \cup posted, g)
           f == [e \in own |-> e[field]]
           h == [e \in all |-> e[field]]
<1>1. IsFiniteSet(own)
  BY FS_Subset DEF Own
<1>2. Column(events, g, field) = SumFunctionOnSet(f, own)
  BY DEF Column, SumFunction
<1>3. Column(events \cup posted, g, field) = SumFunctionOnSet(h, all)
  BY DEF Column, SumFunction
<1>4. all = own \cup {p} /\ p \notin own
  BY DEF Own
<1>5. /\ \A e \in own \cup {p} : h[e] \in Int
      /\ \A e \in own : f[e] \in Int /\ h[e] = f[e]
      /\ h[p] = p[field]
  BY <1>4 DEF Own
<1> HIDE DEF own, all, f, h
<1>6. SumFunctionOnSet(h, own \cup {p}) = h[p] + SumFunctionOnSet(h, own)
  BY <1>1, <1>4, <1>5, SumAdd
<1>7. SumFunctionOnSet(h, own) = SumFunctionOnSet(f, own)
  BY <1>1, <1>5, SumSame
<1> DEFINE x == p[field]  total == SumFunctionOnSet(f, own)
<1>8. total \in Int /\ x \in Int
  BY <1>1, <1>5, SumInt
<1>9. Column(events \cup posted, g, field) = x + total
  BY <1>3, <1>4, <1>5, <1>6, <1>7
<1>10. x + total = total + x
  <2> HIDE DEF x, total
  <2> QED
    BY <1>8
<1> QED
  BY <1>2, <1>9, <1>10

\* No events of a grant yet: its columns are empty.
LEMMA ColumnEmpty ==
  ASSUME NEW events, NEW g, NEW field, \A e \in events : e.grant # g
  PROVE  Column(events, g, field) = 0
<1>1. Own(events, g) = {}
  BY DEF Own
<1>2. DOMAIN [e \in Own(events, g) |-> e[field]] = {}
  BY <1>1
<1> QED
  BY <1>2, SumEmpty DEF Column, SumFunction

\* What a column amounts to is what the rows say.
LEMMA MatchesByColumn ==
  ASSUME NEW gs, NEW events
  PROVE  LedgerMatches(gs, events) <=>
           \A g \in DOMAIN gs :
             /\ Column(events, g, "granted") = gs[g].granted
             /\ Column(events, g, "reserved") = gs[g].reserved
             /\ Column(events, g, "consumed") = gs[g].consumed
             /\ Column(events, g, "expired") = gs[g].expired
             /\ gs[g].reserved + gs[g].consumed + gs[g].expired <= gs[g].granted
BY DEF LedgerMatches, Column, Own

\* What a row said before: nothing when there was none.
Was(gs, g, field) == IF g \in DOMAIN gs THEN gs[g][field] ELSE 0

\* An event p accounts for what a grant's row changes by.
Accounts(gs, new, g, p) ==
  /\ p.grant = g
  /\ new[g].granted = Was(gs, g, "granted") + p.granted
  /\ new[g].reserved = Was(gs, g, "reserved") + p.reserved
  /\ new[g].consumed = Was(gs, g, "consumed") + p.consumed
  /\ new[g].expired = Was(gs, g, "expired") + p.expired

\* A row whose numbers stay.
Untouched(gs, new, g) ==
  /\ g \in DOMAIN gs
  /\ new[g].granted = gs[g].granted /\ new[g].reserved = gs[g].reserved
  /\ new[g].consumed = gs[g].consumed /\ new[g].expired = gs[g].expired

\* What is posted: at most one event per grant, each with a key of its own and the
\* amounts the row moves by, and nothing for the rows that stay.
Posts(gs, events, new, posted) ==
  /\ IsFiniteSet(posted)
  /\ DOMAIN gs \subseteq DOMAIN new
  /\ \A p \in posted : /\ p.grant \in DOMAIN new
                      /\ p.granted \in Int /\ p.reserved \in Int
                      /\ p.consumed \in Int /\ p.expired \in Int
  /\ \A p, q \in posted : p.grant = q.grant => p = q
  /\ \A p \in posted, e \in events : ~(p.kind = e.kind /\ p.key = e.key /\ p.grant = e.grant)
  /\ \A g \in DOMAIN new : \/ Untouched(gs, new, g) /\ \A p \in posted : p.grant # g
                          \/ \E p \in posted : Accounts(gs, new, g, p)
  /\ \A g \in DOMAIN new : new[g].reserved + new[g].consumed + new[g].expired <= new[g].granted

\* Posting keeps rows and ledger in agreement.
LEMMA Posting ==
  ASSUME NEW gs, NEW events, Booked(gs, events), NEW new, NEW posted,
         Posts(gs, events, new, posted)
  PROVE  Booked(new, events \cup posted)
<1>1. IsFiniteSet(events \cup posted) /\ posted \cap events = {}
  BY FS_Union DEF Booked, Posts
<1>2. \A e \in events \cup posted : /\ e.grant \in DOMAIN new
                                    /\ e.granted \in Int /\ e.reserved \in Int
                                    /\ e.consumed \in Int /\ e.expired \in Int
  BY DEF Booked, Posts
<1>3. \A e, f \in events \cup posted :
        e.kind = f.kind /\ e.key = f.key /\ e.grant = f.grant => e = f
  BY DEF Booked, Posts
<1>4. ASSUME NEW g \in DOMAIN new, NEW field \in {"granted", "reserved", "consumed", "expired"}
      PROVE  Column(events \cup posted, g, field) = new[g][field]
  <2>1. \A e \in events \cup posted : e[field] \in Int
    BY <1>2
  <2>2. Column(events, g, field) = Was(gs, g, field)
    <3>1. CASE g \in DOMAIN gs
      BY <3>1, MatchesByColumn DEF Booked, Was
    <3>2. CASE g \notin DOMAIN gs
      BY <3>2, ColumnEmpty DEF Booked, Was
    <3> QED
      BY <3>1, <3>2
  <2>3. CASE Untouched(gs, new, g) /\ \A p \in posted : p.grant # g
    <3>1. Own(events \cup posted, g) = Own(events, g)
      BY <2>3 DEF Own
    <3>2. Column(events \cup posted, g, field) = Column(events, g, field)
      BY <3>1 DEF Column
    <3> QED
      BY <2>2, <2>3, <3>2 DEF Untouched, Was
  <2>4. ASSUME NEW p \in posted, Accounts(gs, new, g, p)
        PROVE  Column(events \cup posted, g, field) = new[g][field]
    <3>1. p.grant = g /\ new[g][field] = Was(gs, g, field) + p[field]
      BY <2>4 DEF Accounts
    <3>2. IsFiniteSet(events) /\ \A q \in posted : q.grant = g => q = p
      BY <3>1 DEF Booked, Posts
    <3>3. Column(events \cup posted, g, field) = Column(events, g, field) + p[field]
      BY <1>1, <2>1, <3>1, <3>2, ColumnPosted
    <3> QED
      BY <2>2, <3>1, <3>3
  <2> QED
    BY <2>3, <2>4 DEF Posts
<1>5. LedgerMatches(new, events \cup posted)
  <2>1. \A g \in DOMAIN new : new[g].reserved + new[g].consumed + new[g].expired <= new[g].granted
    BY DEF Posts
  <2> QED
    BY <1>4, <2>1, MatchesByColumn
<1> QED
  BY <1>1, <1>2, <1>3, <1>5 DEF Booked

-----------------------------------------------------------------------------
(* The account, its cycle and the cycle's base grant *)

\* What _coherent asks of an account row a, its cycle row c and the grants gs: base is
\* the only base grant of the cycle.
Coherent(ro, a, c, gs, base) ==
  /\ a.plan \in Plans
  /\ a.pending # None => Rank[a.pending] < Rank[a.plan]
  /\ ro = "master" => a.plan = "max" /\ a.pending = None
  /\ c.plan = a.plan /\ c.allowance = Allowance[a.plan]
  /\ base \in DOMAIN gs
  /\ gs[base].kind = "base" /\ gs[base].cycle = c.index
  /\ \A g \in DOMAIN gs : gs[g].kind = "base" /\ gs[g].cycle = c.index => g = base
  /\ gs[base].expiresAt = (c.index + 1) * CycleLength
  /\ gs[base].granted = c.allowance

\* Base grants belong to this cycle or an earlier one.
BasesBehind(c, gs) ==
  \A g \in DOMAIN gs : gs[g].kind = "base" => gs[g].cycle \in Nat /\ gs[g].cycle <= c.index

\* Before its first operation an account has no row of any kind.
Fresh == account.plan = None => grants = <<>> /\ cycle.index = -1

\* The account's own rows: none before its first operation, coherent ones ever after.
AccountSound ==
  /\ Fresh
  /\ BasesBehind(cycle, grants)
  /\ account.plan # None => \E base \in DOMAIN grants : Coherent(role, account, cycle, grants, base)

\* That is what the code checks.
LEMMA CoherentIsChecked ==
  \A base : Coherent(role, account, cycle, grants, base) => AccountCoherent /\ BasesOf(cycle.index) = {base}
<1> SUFFICES ASSUME NEW base, Coherent(role, account, cycle, grants, base)
             PROVE  AccountCoherent /\ BasesOf(cycle.index) = {base}
  OBVIOUS
<1>1. BasesOf(cycle.index) = {base}
  BY DEF Coherent, BasesOf
<1> QED
  BY <1>1 DEF Coherent, AccountCoherent

\* And what the code checks says it of some base grant.
LEMMA CheckedIsCoherent ==
  ASSUME AccountCoherent
  PROVE  \E base \in DOMAIN grants :
           BasesOf(cycle.index) = {base} /\ Coherent(role, account, cycle, grants, base)
<1>1. PICK base \in DOMAIN grants :
        /\ BasesOf(cycle.index) = {base}
        /\ grants[base].expiresAt = (cycle.index + 1) * CycleLength
        /\ grants[base].granted = cycle.allowance
  BY DEF AccountCoherent
<1>2. grants[base].kind = "base" /\ grants[base].cycle = cycle.index
  BY <1>1 DEF BasesOf
<1>3. \A g \in DOMAIN grants : grants[g].kind = "base" /\ grants[g].cycle = cycle.index => g = base
  BY <1>1 DEF BasesOf
<1>4. /\ account.plan \in Plans
      /\ account.pending # None => Rank[account.pending] < Rank[account.plan]
      /\ role = "master" => account.plan = "max" /\ account.pending = None
      /\ cycle.plan = account.plan /\ cycle.allowance = Allowance[account.plan]
  BY DEF AccountCoherent
<1> QED
  BY <1>1, <1>2, <1>3, <1>4 DEF Coherent

\* _ensure rewrites the rows there are and adds at most the new cycle's base grant.
LEMMA EnsuredShape ==
  ASSUME IInv, NEW now \in Nat, CanEnsure(now)
  PROVE  /\ DOMAIN grants = 1..Len(grants) /\ Len(grants) \in Nat
         /\ DOMAIN EnsuredGrants(now) =
              IF Opens(now) THEN DOMAIN grants \cup {Len(grants) + 1} ELSE DOMAIN grants
         /\ Opens(now) => EnsuredGrants(now)[Len(grants) + 1] = BaseGrant(now)
         /\ \A g \in DOMAIN grants :
              /\ EnsuredGrants(now)[g].kind = grants[g].kind
              /\ EnsuredGrants(now)[g].cycle = grants[g].cycle
              /\ EnsuredGrants(now)[g].expiresAt = grants[g].expiresAt
              /\ EnsuredGrants(now)[g].granted = grants[g].granted
              /\ EnsuredGrants(now)[g].reserved = grants[g].reserved
              /\ EnsuredGrants(now)[g].consumed = grants[g].consumed
              /\ EnsuredGrants(now)[g].expired =
                   grants[g].expired + (IF g \in Lapsing(now) THEN Available(grants[g]) ELSE 0)
<1> DEFINE old == Lapsed(now)  new == BaseGrant(now)
<1>1. old \in Seq(Grant) /\ Len(old) = Len(grants) /\ new \in Grant
  BY LapsedSound, BaseGrantSound DEF Sound
<1>2. /\ DOMAIN old = 1..Len(grants) /\ DOMAIN grants = 1..Len(grants) /\ Len(grants) \in Nat
  BY <1>1, LenProperties DEF IInv, TypeOK
<1>3. ASSUME NEW g \in DOMAIN grants
      PROVE  /\ old[g].kind = grants[g].kind /\ old[g].cycle = grants[g].cycle
             /\ old[g].expiresAt = grants[g].expiresAt /\ old[g].granted = grants[g].granted
             /\ old[g].reserved = grants[g].reserved /\ old[g].consumed = grants[g].consumed
             /\ old[g].expired =
                  grants[g].expired + (IF g \in Lapsing(now) THEN Available(grants[g]) ELSE 0)
  <2>1. grants[g] \in Grant /\ grants[g].expired \in Nat
    BY <1>3, RowNumbers
  <2>2. old[g] = IF g \in Lapsing(now)
                   THEN [grants[g] EXCEPT !.expired = @ + Available(grants[g])] ELSE grants[g]
    BY <1>3 DEF Lapsed
  <2> QED
    BY <2>1, <2>2 DEF Grant
<1>4. CASE ~Opens(now)
  <2>1. EnsuredGrants(now) = old
    BY <1>4 DEF EnsuredGrants
  <2> HIDE DEF old, new
  <2> QED
    BY <1>2, <1>3, <1>4, <2>1
<1>5. CASE Opens(now)
  <2>1. EnsuredGrants(now) = Append(old, new)
    BY <1>5 DEF EnsuredGrants
  <2> HIDE DEF old
  <2>2. /\ Append(old, new) \in Seq(Grant) /\ Len(Append(old, new)) = Len(grants) + 1
        /\ \A g \in 1..Len(grants) : Append(old, new)[g] = old[g]
        /\ Append(old, new)[Len(grants) + 1] = new
    BY <1>1, <1>2, AppendProperties
  <2>3. DOMAIN Append(old, new) = 1..(Len(grants) + 1)
    BY <2>2, LenProperties
  <2>4. DOMAIN Append(old, new) = DOMAIN grants \cup {Len(grants) + 1}
    BY <1>2, <2>3
  <2>5. \A g \in DOMAIN grants : EnsuredGrants(now)[g] = old[g]
    BY <1>2, <2>1, <2>2
  <2>6. EnsuredGrants(now)[Len(grants) + 1] = BaseGrant(now)
    BY <2>1, <2>2
  <2>7. DOMAIN EnsuredGrants(now) = DOMAIN grants \cup {Len(grants) + 1}
    BY <2>1, <2>4
  <2> QED
    BY <1>2, <1>3, <1>5, <2>5, <2>6, <2>7
<1> QED
  BY <1>4, <1>5

\* Ranks of the plans.
LEMMA RankOf == Rank["free"] = 0 /\ Rank["pro"] = 1 /\ Rank["max"] = 2 /\ \A p \in Plans : Rank[p] \in 0..2
BY DEF Rank, Plans

\* _ensure leaves an account its own checks accept.
LEMMA EnsuredCoherent ==
  ASSUME IInv, AccountSound, NEW now \in Nat, CanEnsure(now)
  PROVE  /\ Coherent(role, EnsuredAccount(now), EnsuredCycle(now), EnsuredGrants(now),
                     CurrentBase(now))
         /\ BasesBehind(EnsuredCycle(now), EnsuredGrants(now))
<1> DEFINE gs == EnsuredGrants(now)
           a == EnsuredAccount(now)
           c == EnsuredCycle(now)
           i == CycleIndex(now)
           old == \A g \in DOMAIN grants :
                    /\ gs[g].kind = grants[g].kind /\ gs[g].cycle = grants[g].cycle
                    /\ gs[g].expiresAt = grants[g].expiresAt /\ gs[g].granted = grants[g].granted
<1>1. old /\ DOMAIN gs = IF Opens(now) THEN DOMAIN grants \cup {Len(grants) + 1} ELSE DOMAIN grants
  BY EnsuredShape
<1>2. PlanAt(now) \in Plans /\ Allowance[PlanAt(now)] \in Nat /\ i \in Nat
  BY PlanInForce, CycleEndsLater DEF IInv
<1>3. cycle.index \in Int /\ (account.plan # None => AccountCoherent)
  BY DEF IInv, TypeOK, CanEnsure
<1>4. role = "master" => PlanAt(now) = "max"
  BY <1>3 DEF PlanAt, AccountCoherent
<1>5. a = [plan |-> PlanAt(now), pending |-> IF Opens(now) THEN None ELSE account.pending,
           updatedAt |-> now]
  BY DEF EnsuredAccount
<1>6. CASE Opens(now)
  <2>1. c = [index |-> i, plan |-> PlanAt(now), allowance |-> Allowance[PlanAt(now)]]
    BY <1>6 DEF EnsuredCycle
  <2>2. CurrentBase(now) = Len(grants) + 1 /\ gs[Len(grants) + 1] = BaseGrant(now)
    BY <1>6, EnsuredShape DEF CurrentBase
  <2>3. /\ BaseGrant(now).kind = "base" /\ BaseGrant(now).cycle = i
        /\ BaseGrant(now).expiresAt = (i + 1) * CycleLength
        /\ BaseGrant(now).granted = Allowance[PlanAt(now)]
    BY DEF BaseGrant, NewGrant
  <2>4. cycle.index < i
    BY <1>2, <1>3, <1>6 DEF Opens, AccountSound, Fresh
  <2>5. \A g \in DOMAIN grants : grants[g].kind = "base" => grants[g].cycle \in Nat /\ grants[g].cycle < i
    BY <1>2, <1>3, <2>4 DEF AccountSound, BasesBehind
  <2> DEFINE last == Len(grants) + 1
  <2>6. /\ DOMAIN gs = DOMAIN grants \cup {last} /\ gs[last].kind = "base" /\ gs[last].cycle = i
        /\ gs[last].expiresAt = (i + 1) * CycleLength /\ gs[last].granted = Allowance[PlanAt(now)]
    BY <1>1, <1>6, <2>2, <2>3
  <2>7. a.plan = PlanAt(now) /\ a.pending = None /\ c.plan = a.plan /\ c.index = i
        /\ c.allowance = Allowance[a.plan]
    BY <1>5, <1>6, <2>1
  <2>8. CurrentBase(now) = last
    BY <2>2
  <2> HIDE DEF gs, a, c, i, last
  <2>9. \A g \in DOMAIN gs : gs[g].kind = "base" => gs[g].cycle \in Nat /\ gs[g].cycle <= i
                                                    /\ (gs[g].cycle = i => g = last)
    <3> SUFFICES ASSUME NEW g \in DOMAIN gs, gs[g].kind = "base"
                 PROVE  gs[g].cycle \in Nat /\ gs[g].cycle <= i /\ (gs[g].cycle = i => g = last)
      OBVIOUS
    <3>1. CASE g = last
      BY <1>2, <2>6, <3>1
    <3>2. CASE g # last
      <4>1. g \in DOMAIN grants
        BY <2>6, <3>2
      <4>2. gs[g].cycle = grants[g].cycle /\ gs[g].kind = grants[g].kind
        BY <1>1, <4>1
      <4>3. grants[g].cycle \in Nat /\ grants[g].cycle < i
        BY <2>5, <4>1, <4>2
      <4> QED
        BY <1>2, <4>2, <4>3
    <3> QED
      BY <3>1, <3>2
  <2>10. BasesBehind(c, gs)
    BY <2>7, <2>9 DEF BasesBehind
  <2>11. Coherent(role, a, c, gs, last)
    BY <1>2, <1>4, <2>6, <2>7, <2>9 DEF Coherent
  <2> QED
    BY <2>8, <2>10, <2>11 DEF gs, a, c
<1>7. CASE ~Opens(now)
  <2>1. account.plan # None /\ PlanAt(now) = account.plan
    BY <1>7 DEF Opens, PlanAt
  <2>2. c = cycle /\ a.plan = account.plan /\ a.pending = account.pending
    BY <1>5, <1>7, <2>1 DEF EnsuredCycle
  <2>3. PICK base \in DOMAIN grants :
          BasesOf(cycle.index) = {base} /\ Coherent(role, account, cycle, grants, base)
    BY <1>3, <2>1, CheckedIsCoherent
  <2>4. CurrentBase(now) = base
    BY <1>7, <2>3 DEF CurrentBase
  <2> HIDE DEF gs, a, c
  <2>5. DOMAIN gs = DOMAIN grants
    BY <1>1, <1>7
  <2>6. Coherent(role, a, c, gs, base)
    BY <1>1, <2>2, <2>3, <2>5 DEF Coherent
  <2>7. BasesBehind(c, gs)
    BY <1>1, <2>2, <2>5 DEF AccountSound, BasesBehind
  <2> QED
    BY <2>4, <2>6, <2>7 DEF gs, a, c
<1> QED
  BY <1>6, <1>7

\* A plan change, a bonus or a hold after that keeps it so.
LEMMA CoherentLater ==
  ASSUME NEW ro, NEW a, NEW c, NEW gs, NEW base, Coherent(ro, a, c, gs, base), BasesBehind(c, gs),
         NEW gs2, NEW a2, NEW c2, NEW ro2,
         c2.index = c.index,
         a2.plan \in Plans, a2.pending # None => Rank[a2.pending] < Rank[a2.plan],
         ro2 = "master" => a2.plan = "max" /\ a2.pending = None,
         c2.plan = a2.plan, c2.allowance = Allowance[a2.plan],
         DOMAIN gs \subseteq DOMAIN gs2,
         \A g \in DOMAIN gs : /\ gs2[g].kind = gs[g].kind /\ gs2[g].cycle = gs[g].cycle
                             /\ gs2[g].expiresAt = gs[g].expiresAt,
         \A g \in DOMAIN gs2 \ DOMAIN gs : gs2[g].kind # "base",
         gs2[base].granted = c2.allowance
  PROVE  Coherent(ro2, a2, c2, gs2, base) /\ BasesBehind(c2, gs2)
<1>1. base \in DOMAIN gs /\ \A g \in DOMAIN gs2 : gs2[g].kind = "base" =>
                              g \in DOMAIN gs /\ gs[g].kind = "base" /\ gs2[g].cycle = gs[g].cycle
  BY DEF Coherent
<1>2. BasesBehind(c2, gs2)
  BY <1>1 DEF BasesBehind
<1>3. \A g \in DOMAIN gs2 : gs2[g].kind = "base" /\ gs2[g].cycle = c2.index => g = base
  BY <1>1 DEF Coherent
<1>4. /\ gs2[base].kind = "base" /\ gs2[base].cycle = c2.index
      /\ gs2[base].expiresAt = (c2.index + 1) * CycleLength /\ base \in DOMAIN gs2
  BY <1>1 DEF Coherent
<1> QED
  BY <1>2, <1>3, <1>4 DEF Coherent

-----------------------------------------------------------------------------
(* Accounts and ledgers their own checks accept *)

\* What the key of an event says about the rest of the state: a grant that lapsed is due,
\* a command key is used up, a reservation was made, or has ended.
KeySound(e) ==
  /\ e.kind = "expire" => Due(grants[e.grant], account.updatedAt)
  /\ e.kind = "adjust" => \E k \in operations : e.key = <<"cmd", k>>
  /\ e.kind = "reserve" =>
       \E k \in ReserveKeys : e.key = <<"reserve", k>> /\ reservations[k].status # "absent"
  /\ e.kind \in {"settle", "release"} =>
       \E k \in ReserveKeys : /\ e.key = <<"terminal", k>>
                              /\ reservations[k].status \in {"settled", "released"}

\* The ledger: grants are what their events add up to, and every key is accounted for.
LedgerSound == Booked(grants, ledger) /\ \A e \in ledger : KeySound(e)

\* The inductive invariant of the account and its ledger.
Books == IInv /\ AccountSound /\ LedgerSound

\* Keys keep what they say: rows keep their expiry, time and keys only move forward.
LEMMA KeysKept ==
  ASSUME Books,
         account.plan # None => account.updatedAt <= account'.updatedAt, account'.updatedAt \in Nat,
         \A g \in DOMAIN grants : grants'[g].expiresAt = grants[g].expiresAt,
         operations \subseteq operations',
         \A k \in ReserveKeys :
           /\ reservations[k].status # "absent" => reservations'[k].status # "absent"
           /\ reservations[k].status \in {"settled", "released"} =>
                reservations'[k].status \in {"settled", "released"}
  PROVE  \A e \in ledger : KeySound(e)'
<1> SUFFICES ASSUME NEW e \in ledger
             PROVE  KeySound(e)'
  OBVIOUS
<1>1. KeySound(e) /\ e.grant \in DOMAIN grants
  BY DEF Books, LedgerSound, Booked
<1>2. account.plan # None
  <2>1. ASSUME account.plan = None PROVE FALSE
    <3>1. DOMAIN grants = {}
      BY <2>1, EmptySeq DEF Books, AccountSound, Fresh
    <3> QED
      BY <1>1, <3>1
  <2> QED
    BY <2>1
<1>3. ASSUME Due(grants[e.grant], account.updatedAt) PROVE Due(grants'[e.grant], account'.updatedAt)
  <2>1. grants[e.grant] \in Grant
    BY <1>1, RowNumbers DEF Books
  <2>2. grants[e.grant].expiresAt \in Nat /\ account.updatedAt \in Nat
    BY <1>3, <2>1 DEF Grant, Due, Books, IInv, TypeOK
  <2> QED
    BY <1>1, <1>2, <1>3, <2>2 DEF Due
<1> QED
  BY <1>1, <1>3 DEF KeySound

\* The events _ensure appends.
LapseEvents(now) ==
  {Event("expire", <<"expire", g>>, g, 0, 0, 0, Available(grants[g])) : g \in Lapsing(now)}
CycleEvents(now) ==
  IF Opens(now)
    THEN {Event("grant", <<"cycle", CycleIndex(now)>>, Len(grants) + 1,
                Allowance[PlanAt(now)], 0, 0, 0)}
    ELSE {}

\* One event per row of a sequence is finitely many.
LEMMA EventsFinite ==
  ASSUME NEW posted, NEW n \in Nat, \A p \in posted : p.grant \in 1..n,
         \A p, q \in posted : p.grant = q.grant => p = q
  PROVE  IsFiniteSet(posted)
<1> DEFINE f == [p \in posted |-> p.grant]
<1>1. f \in Injection(posted, 1..n)
  BY DEF Injection, IsInjective
<1>2. IsFiniteSet(1..n)
  BY FS_Interval
<1> QED
  BY <1>1, <1>2, FS_Injection

\* After _ensure rows and ledger agree again, and no event it appended has the key of
\* an older one: a grant lapses once, because what is due has nothing left to lapse.
LEMMA EnsureBooks ==
  ASSUME Books, NEW now \in Nat, CanEnsure(now)
  PROVE  /\ Booked(EnsuredGrants(now), EnsuredEvents(now))
         /\ \A e \in EnsuredEvents(now) :
              \/ e \in ledger
              \/ e.kind = "expire" /\ e.grant \in DOMAIN grants /\ Due(grants[e.grant], now)
              \/ e.kind = "grant"
<1> DEFINE gs == EnsuredGrants(now)
           posted == LapseEvents(now) \cup CycleEvents(now)
           last == Len(grants) + 1
<1>1. EnsuredEvents(now) = ledger \cup posted
  BY DEF EnsuredEvents, LapseEvents, CycleEvents
<1>2. /\ DOMAIN grants = 1..Len(grants) /\ Len(grants) \in Nat
      /\ DOMAIN gs = IF Opens(now) THEN DOMAIN grants \cup {last} ELSE DOMAIN grants
  BY EnsuredShape DEF Books
<1>3. ASSUME NEW p \in posted
      PROVE  \/ /\ p.grant \in Lapsing(now)
                /\ p = Event("expire", <<"expire", p.grant>>, p.grant, 0, 0, 0,
                             Available(grants[p.grant]))
             \/ /\ Opens(now) /\ p.grant = last
                /\ p = Event("grant", <<"cycle", CycleIndex(now)>>, last,
                             Allowance[PlanAt(now)], 0, 0, 0)
  BY DEF LapseEvents, CycleEvents, Event
<1>4. Lapsing(now) \subseteq DOMAIN grants /\ last \notin DOMAIN grants
  BY <1>2 DEF Lapsing
<1>5. \A p, q \in posted : p.grant = q.grant => p = q
  BY <1>3, <1>4
<1>6. \A p \in posted : p.grant \in DOMAIN gs /\ p.grant \in 1..last
  <2>1. DOMAIN grants \subseteq 1..last /\ last \in 1..last
    BY <1>2
  <2>2. \A p \in posted : p.grant \in DOMAIN grants \/ (Opens(now) /\ p.grant = last)
    BY <1>3, <1>4
  <2> HIDE DEF posted, last
  <2> QED
    BY <1>2, <2>1, <2>2
<1>7. IsFiniteSet(posted)
  BY <1>2, <1>5, <1>6, EventsFinite
<1>8. ASSUME NEW p \in posted
      PROVE  /\ p.granted \in Int /\ p.reserved \in Int /\ p.consumed \in Int /\ p.expired \in Int
  <2>1. Allowance[PlanAt(now)] \in Nat
    BY PlanInForce DEF Books, IInv
  <2>2. p.grant \in Lapsing(now) => Available(grants[p.grant]) \in Int
    <3>1. ASSUME NEW g \in DOMAIN grants PROVE Available(grants[g]) \in Int
      <4>1. /\ grants[g].granted \in Nat /\ grants[g].reserved \in Nat
            /\ grants[g].consumed \in Nat /\ grants[g].expired \in Nat
        BY RowNumbers DEF Books
      <4> QED
        BY <4>1 DEF Available
    <3> QED
      BY <1>4, <3>1
  <2> QED
    BY <1>3, <2>1, <2>2 DEF Event
<1>9. ASSUME NEW p \in posted, NEW e \in ledger, p.kind = e.kind, p.grant = e.grant
      PROVE  FALSE
  <2>1. e.grant \in DOMAIN grants /\ KeySound(e)
    BY DEF Books, LedgerSound, Booked
  <2>2. p.kind = "expire" /\ p.grant \in Lapsing(now)
    BY <1>3, <1>4, <1>9, <2>1 DEF Event
  <2>3. Due(grants[e.grant], account.updatedAt)
    BY <1>9, <2>1, <2>2 DEF KeySound
  <2>4. Available(grants[e.grant]) = 0
    BY <2>1, <2>3 DEF Books, IInv, Sound
  <2> QED
    BY <1>9, <2>2, <2>4 DEF Lapsing
<1>10. ASSUME NEW g \in DOMAIN gs
       PROVE  \/ Untouched(grants, gs, g) /\ \A p \in posted : p.grant # g
              \/ \E p \in posted : Accounts(grants, gs, g, p)
  <2>1. CASE g \in Lapsing(now)
    <3> DEFINE p == Event("expire", <<"expire", g>>, g, 0, 0, 0, Available(grants[g]))
    <3>1. p \in posted
      BY <2>1 DEF LapseEvents
    <3>2. g \in DOMAIN grants
      BY <1>4, <2>1
    <3>3. /\ grants[g].granted \in Nat /\ grants[g].reserved \in Nat /\ grants[g].consumed \in Nat
      BY <3>2, RowNumbers DEF Books
    <3>4. /\ gs[g].granted = grants[g].granted /\ gs[g].reserved = grants[g].reserved
          /\ gs[g].consumed = grants[g].consumed
          /\ gs[g].expired = grants[g].expired + Available(grants[g])
      BY <2>1, <3>2, EnsuredShape DEF Books
    <3>5. /\ p.grant = g /\ p.granted = 0 /\ p.reserved = 0 /\ p.consumed = 0
          /\ p.expired = Available(grants[g])
      BY DEF Event
    <3> HIDE DEF p, gs, posted
    <3>6. Accounts(grants, gs, g, p)
      BY <3>2, <3>3, <3>4, <3>5 DEF Accounts, Was
    <3> QED
      BY <3>1, <3>6
  <2>2. CASE g \in DOMAIN grants /\ g \notin Lapsing(now)
    <3>1. /\ gs[g].granted = grants[g].granted /\ gs[g].reserved = grants[g].reserved
          /\ gs[g].consumed = grants[g].consumed /\ gs[g].expired = grants[g].expired
      BY <2>2, EnsuredShape, RowNumbers DEF Books
    <3>2. \A p \in posted : p.grant # g
      BY <1>3, <1>4, <2>2
    <3> QED
      BY <2>2, <3>1, <3>2 DEF Untouched
  <2>3. CASE g \notin DOMAIN grants
    <3> DEFINE p == Event("grant", <<"cycle", CycleIndex(now)>>, last,
                          Allowance[PlanAt(now)], 0, 0, 0)
    <3>1. Opens(now) /\ g = last
      BY <1>2, <2>3
    <3>2. p \in posted
      BY <3>1 DEF CycleEvents
    <3>3. gs[last] = BaseGrant(now)
      BY <3>1, EnsuredShape DEF Books
    <3>4. Allowance[PlanAt(now)] \in Nat
      BY PlanInForce DEF Books, IInv
    <3>5. /\ gs[g].granted = Allowance[PlanAt(now)] /\ gs[g].reserved = 0
          /\ gs[g].consumed = 0 /\ gs[g].expired = 0
      BY <3>1, <3>3 DEF BaseGrant, NewGrant
    <3>6. /\ p.grant = g /\ p.granted = Allowance[PlanAt(now)] /\ p.reserved = 0
          /\ p.consumed = 0 /\ p.expired = 0
      BY <3>1 DEF Event
    <3> HIDE DEF p, gs, posted
    <3>7. Accounts(grants, gs, g, p)
      BY <2>3, <3>4, <3>5, <3>6 DEF Accounts, Was
    <3> QED
      BY <3>2, <3>7
  <2> QED
    BY <2>1, <2>2, <2>3
<1>11. \A g \in DOMAIN gs : gs[g].reserved + gs[g].consumed + gs[g].expired <= gs[g].granted
  BY EnsuredSound DEF Books, Sound
<1>12. \A e \in ledger \cup posted :
         \/ e \in ledger
         \/ e.kind = "expire" /\ e.grant \in DOMAIN grants /\ Due(grants[e.grant], now)
         \/ e.kind = "grant"
  <2> SUFFICES ASSUME NEW e \in posted
               PROVE  \/ e.kind = "expire" /\ e.grant \in DOMAIN grants /\ Due(grants[e.grant], now)
                      \/ e.kind = "grant"
    OBVIOUS
  <2> HIDE DEF posted
  <2> QED
    BY <1>3, <1>4 DEF Event, Lapsing
<1>13. DOMAIN grants \subseteq DOMAIN gs
  BY <1>2
<1> HIDE DEF gs, posted, last
<1>14. Posts(grants, ledger, gs, posted)
  BY <1>5, <1>6, <1>7, <1>8, <1>9, <1>10, <1>11, <1>13 DEF Posts
<1>15. Booked(grants, ledger)
  BY DEF Books, LedgerSound
<1>16. Booked(gs, ledger \cup posted)
  BY <1>14, <1>15, Posting
<1> QED
  BY <1>1, <1>12, <1>16 DEF gs

\* The keys of the ledger and of what _ensure appends to it, after a step that goes on from there.
LEMMA EnsuredKeys ==
  ASSUME Books, NEW now \in Nat, CanEnsure(now), account'.updatedAt = now,
         \A g \in DOMAIN grants : grants'[g].expiresAt = grants[g].expiresAt,
         operations \subseteq operations',
         \A k \in ReserveKeys :
           /\ reservations[k].status # "absent" => reservations'[k].status # "absent"
           /\ reservations[k].status \in {"settled", "released"} =>
                reservations'[k].status \in {"settled", "released"}
  PROVE  \A e \in EnsuredEvents(now) : KeySound(e)'
<1>1. account.plan # None => account.updatedAt <= account'.updatedAt
  BY DEF CanEnsure, Books, IInv, TypeOK
<1>2. \A e \in ledger : KeySound(e)'
  BY <1>1, KeysKept
<1> SUFFICES ASSUME NEW e \in EnsuredEvents(now), e \notin ledger
             PROVE  KeySound(e)'
  BY <1>2
<1>3. CASE e.kind = "expire" /\ e.grant \in DOMAIN grants /\ Due(grants[e.grant], now)
  BY <1>3 DEF KeySound, Due
<1>4. CASE e.kind = "grant"
  BY <1>4 DEF KeySound
<1> QED
  BY <1>3, <1>4, EnsureBooks

\* The parts of the invariant that a step has to show.
LEMMA BooksStep ==
  ASSUME IInv', NEW base, Coherent(role', account', cycle', grants', base),
         BasesBehind(cycle', grants'), Booked(grants', ledger'), \A e \in ledger' : KeySound(e)'
  PROVE  Books'
<1>1. account'.plan # None /\ base \in DOMAIN grants'
  BY NoneAssumption DEF Coherent
<1>2. AccountSound'
  BY <1>1 DEF AccountSound, Fresh, BasesBehind, Coherent
<1>3. LedgerSound'
  BY DEF LedgerSound, Booked, LedgerMatches
<1> QED
  BY <1>2, <1>3 DEF Books

\* Bringing the account up to an instant posts a lapse per grant and the new cycle.
LEMMA EnsureCycleBooks ==
  ASSUME Books, NEW now \in Nat, EnsureCycle(now)
  PROVE  Books'
<1>1. /\ CanEnsure(now) /\ account' = EnsuredAccount(now) /\ cycle' = EnsuredCycle(now)
      /\ grants' = EnsuredGrants(now) /\ ledger' = EnsuredEvents(now)
      /\ role' = role /\ reservations' = reservations /\ operations' = operations
  BY DEF EnsureCycle, Ensure
<1>2. IInv'
  BY EnsureStep DEF Books
<1>3. /\ Coherent(role', account', cycle', grants', CurrentBase(now))
      /\ BasesBehind(cycle', grants')
  BY <1>1, EnsuredCoherent DEF Books
<1>4. Booked(grants', ledger')
  BY <1>1, EnsureBooks
<1>5. account'.updatedAt = now /\ \A g \in DOMAIN grants : grants'[g].expiresAt = grants[g].expiresAt
  BY <1>1, EnsuredShape DEF EnsuredAccount, Books
<1>6. \A e \in ledger' : KeySound(e)'
  BY <1>1, <1>5, EnsuredKeys
<1> QED
  BY <1>2, <1>3, <1>4, <1>6, BooksStep

\* One more event, on a grant's row as _ensure left it.
LEMMA PostOne ==
  ASSUME NEW gs, NEW events, Booked(gs, events), NEW new, NEW p,
         DOMAIN gs \subseteq DOMAIN new, p.grant \in DOMAIN new,
         p.granted \in Int, p.reserved \in Int, p.consumed \in Int, p.expired \in Int,
         \A e \in events : ~(p.kind = e.kind /\ p.key = e.key /\ p.grant = e.grant),
         \A g \in DOMAIN new : g # p.grant => Untouched(gs, new, g),
         Accounts(gs, new, p.grant, p),
         \A g \in DOMAIN new : new[g].reserved + new[g].consumed + new[g].expired <= new[g].granted
  PROVE  Booked(new, events \cup {p})
<1>1. IsFiniteSet({p})
  BY FS_Singleton
<1>2. ASSUME NEW g \in DOMAIN new
      PROVE  \/ Untouched(gs, new, g) /\ \A q \in {p} : q.grant # g
             \/ \E q \in {p} : Accounts(gs, new, g, q)
  OBVIOUS
<1>3. Posts(gs, events, new, {p})
  BY <1>1, <1>2 DEF Posts
<1> QED
  BY <1>3, Posting

\* An upgrade adds to the base grant what its event says.
LEMMA UpgradeBooks ==
  ASSUME Books, NEW now \in Nat, NEW plan \in Plans, NEW key \in CommandKeys, CanEnsure(now),
         Upgrade(plan, key, now), key \notin operations, operations' = operations \cup {key},
         reservations' = reservations, role' \in {"user", "master"},
         role' = "master" => plan = "max", IInv'
  PROVE  Books'
<1> DEFINE gs == EnsuredGrants(now)
           a == EnsuredAccount(now)
           c == EnsuredCycle(now)
           base == CurrentBase(now)
           delta == Allowance[plan] - c.allowance
           p == Event("adjust", <<"cmd", key>>, base, delta, 0, 0, 0)
<1>1. /\ grants' = [gs EXCEPT ![base].granted = @ + delta]
      /\ cycle' = [c EXCEPT !.plan = plan, !.allowance = Allowance[plan]]
      /\ account' = [a EXCEPT !.plan = plan, !.pending = None]
      /\ ledger' = EnsuredEvents(now) \cup {p}
  BY DEF Upgrade
<1>2. Coherent(role, a, c, gs, base) /\ BasesBehind(c, gs)
  BY EnsuredCoherent DEF Books
<1>3. /\ a \in [plan : Plans \cup {None}, pending : Plans \cup {None}, updatedAt : Nat]
      /\ a.updatedAt = now
      /\ c \in [index : Nat \cup {-1}, plan : Plans \cup {None}, allowance : Nat]
  BY EnsuredTypes DEF Books
<1>4. /\ Booked(gs, EnsuredEvents(now))
      /\ \A e \in EnsuredEvents(now) : e \in ledger \/ e.kind \in {"expire", "grant"}
  BY EnsureBooks
<1>5. Sound(gs, now) /\ Sound(grants', now) /\ DOMAIN grants' = DOMAIN gs
  BY EnsuredSound, UpgradeRows DEF Books
<1>6. base \in DOMAIN gs /\ gs[base].granted = c.allowance
  BY <1>2 DEF Coherent
<1>7. Allowance[plan] \in Nat /\ c.allowance \in Nat
  BY <1>3, PolicyAssumption
<1>8. /\ p.kind = "adjust" /\ p.key = <<"cmd", key>> /\ p.grant = base /\ p.granted = delta
      /\ p.reserved = 0 /\ p.consumed = 0 /\ p.expired = 0
  BY DEF Event
<1>9. \A e \in EnsuredEvents(now) : ~(p.kind = e.kind /\ p.key = e.key /\ p.grant = e.grant)
  <2>1. \A e \in ledger : KeySound(e)
    BY DEF Books, LedgerSound
  <2> HIDE DEF p
  <2>2. ASSUME NEW e \in ledger, e.kind = "adjust", e.key = <<"cmd", key>> PROVE FALSE
    BY <2>1, <2>2 DEF KeySound
  <2> QED
    BY <1>4, <1>8, <2>2
<1>10. \A g \in DOMAIN grants : gs[g].expiresAt = grants[g].expiresAt /\ g \in DOMAIN gs
  BY EnsuredShape DEF Books
<1> DEFINE amount == Allowance[plan]
<1>11. \A g \in DOMAIN gs : gs[g] \in Grant
  BY <1>5, ElementOfSeq DEF Sound
<1> HIDE DEF gs, a, c, base, p, amount
<1>12. delta \in Int /\ delta = amount - c.allowance
  BY <1>7 DEF amount
<1> HIDE DEF delta
<1>13. /\ grants'[base].granted = gs[base].granted + delta
       /\ \A g \in DOMAIN gs :
            /\ g # base => grants'[g] = gs[g]
            /\ grants'[g].kind = gs[g].kind /\ grants'[g].cycle = gs[g].cycle
            /\ grants'[g].expiresAt = gs[g].expiresAt /\ grants'[g].reserved = gs[g].reserved
            /\ grants'[g].consumed = gs[g].consumed /\ grants'[g].expired = gs[g].expired
  BY <1>1, <1>6, <1>11 DEF Grant
<1>14. Booked(grants', ledger')
  <2>1. \A g \in DOMAIN grants' : g # p.grant => Untouched(gs, grants', g)
    BY <1>5, <1>8, <1>13 DEF Untouched
  <2>2. Accounts(gs, grants', p.grant, p)
    <3>1. /\ gs[base].reserved \in Nat /\ gs[base].consumed \in Nat /\ gs[base].expired \in Nat
      BY <1>6, <1>11 DEF Grant
    <3> QED
      BY <1>6, <1>8, <1>13, <3>1 DEF Accounts, Was
  <2>3. \A g \in DOMAIN grants' :
          grants'[g].reserved + grants'[g].consumed + grants'[g].expired <= grants'[g].granted
    BY <1>5 DEF Sound
  <2>4. /\ DOMAIN gs \subseteq DOMAIN grants' /\ p.grant \in DOMAIN grants'
        /\ p.granted \in Int /\ p.reserved \in Int /\ p.consumed \in Int /\ p.expired \in Int
    BY <1>5, <1>6, <1>8, <1>12
  <2>5. Booked(gs, EnsuredEvents(now))
    BY <1>4
  <2>6. Booked(grants', EnsuredEvents(now) \cup {p})
    BY <1>9, <2>1, <2>2, <2>3, <2>4, <2>5, PostOne
  <2> QED
    BY <1>1, <2>6
<1>15. Coherent(role', account', cycle', grants', base) /\ BasesBehind(cycle', grants')
  <2>1. /\ account'.plan = plan /\ account'.pending = None
        /\ cycle'.plan = plan /\ cycle'.allowance = amount /\ cycle'.index = c.index
    BY <1>1, <1>3 DEF amount
  <2>2. grants'[base].granted = amount
    BY <1>6, <1>7, <1>12, <1>13, <2>1 DEF amount
  <2>3. /\ account'.plan \in Plans
        /\ account'.pending # None => Rank[account'.pending] < Rank[account'.plan]
        /\ role' = "master" => account'.plan = "max" /\ account'.pending = None
        /\ cycle'.plan = account'.plan /\ cycle'.allowance = Allowance[account'.plan]
    BY <2>1 DEF amount
  <2>4. /\ DOMAIN gs \subseteq DOMAIN grants' /\ \A g \in DOMAIN grants' \ DOMAIN gs : grants'[g].kind # "base"
        /\ \A g \in DOMAIN gs : /\ grants'[g].kind = gs[g].kind /\ grants'[g].cycle = gs[g].cycle
                               /\ grants'[g].expiresAt = gs[g].expiresAt
    BY <1>5, <1>13
  <2>5. grants'[base].granted = cycle'.allowance
    BY <2>1, <2>2
  <2> QED
    BY <1>2, <2>1, <2>3, <2>4, <2>5, CoherentLater
<1>16. \A e \in ledger' : KeySound(e)'
  <2>1. account'.updatedAt = now
    BY <1>1, <1>3
  <2>2. \A g \in DOMAIN grants : grants'[g].expiresAt = grants[g].expiresAt
    BY <1>10, <1>13
  <2>3. \A e \in EnsuredEvents(now) : KeySound(e)'
    BY <2>1, <2>2, EnsuredKeys
  <2>4. ASSUME NEW e, e = p PROVE KeySound(e)'
    BY <1>8, <2>4 DEF KeySound
  <2> QED
    BY <1>1, <2>3, <2>4
<1> QED
  BY <1>14, <1>15, <1>16, BooksStep

\* A plan that waits, or the one in force, leaves rows as _ensure left them.
LEMMA ScheduleBooks ==
  ASSUME Books, NEW now \in Nat, NEW plan \in Plans, CanEnsure(now), Schedule(plan, now),
         operations \subseteq operations', reservations' = reservations,
         role' \in {"user", "master"}, role = "master" => plan = "max",
         role' = "master" => plan = "max", IInv'
  PROVE  Books'
<1> DEFINE gs == EnsuredGrants(now)
           a == EnsuredAccount(now)
           c == EnsuredCycle(now)
           base == CurrentBase(now)
           next == IF Rank[plan] < Rank[PlanAt(now)] THEN plan ELSE None
<1>1. /\ Rank[plan] <= Rank[PlanAt(now)] /\ account' = [a EXCEPT !.pending = next]
      /\ cycle' = c /\ grants' = gs /\ ledger' = EnsuredEvents(now)
  BY DEF Schedule
<1>2. Coherent(role, a, c, gs, base) /\ BasesBehind(c, gs)
  BY EnsuredCoherent DEF Books
<1>3. /\ a \in [plan : Plans \cup {None}, pending : Plans \cup {None}, updatedAt : Nat]
      /\ a.updatedAt = now /\ a.plan = PlanAt(now)
  BY EnsuredTypes DEF Books, EnsuredAccount
<1>4. PlanAt(now) \in Plans
  BY PlanInForce DEF Books, IInv
<1> HIDE DEF gs, a, c, base, next
<1>5. /\ account'.plan = PlanAt(now) /\ account'.pending = next /\ account'.updatedAt = now
      /\ a.plan = PlanAt(now)
  BY <1>1, <1>3
<1>6. next # None => Rank[next] < Rank[PlanAt(now)]
  BY DEF next
<1>7. role' = "master" => PlanAt(now) = "max" /\ next = None
  <2>1. ASSUME role' = "master" PROVE PlanAt(now) = "max"
    <3>1. Rank["max"] <= Rank[PlanAt(now)]
      BY <1>1, <2>1
    <3> QED
      BY <1>4, <3>1, RankOf DEF Plans
  <2> QED
    BY <2>1, RankOf DEF next
<1>8. /\ Coherent(role', account', cycle', grants', base) /\ BasesBehind(cycle', grants')
  <2>1. Coherent(role', account', c, gs, base)
    BY <1>2, <1>4, <1>5, <1>6, <1>7 DEF Coherent
  <2> QED
    BY <1>1, <1>2, <2>1
<1>9. Booked(grants', ledger')
  BY <1>1, EnsureBooks DEF gs
<1>10. \A g \in DOMAIN grants : grants'[g].expiresAt = grants[g].expiresAt
  BY <1>1, EnsuredShape DEF gs, Books
<1>11. \A e \in ledger' : KeySound(e)'
  BY <1>1, <1>5, <1>10, EnsuredKeys
<1> QED
  BY <1>8, <1>9, <1>11, BooksStep

\* A plan change keeps the books, whether it upgrades at once or schedules.
LEMMA ChangePlanBooks ==
  ASSUME Books, NEW now \in Nat, NEW plan \in Plans, NEW key \in CommandKeys,
         ChangePlan(plan, key, now), role' \in {"user", "master"}, role' = "master" => plan = "max"
  PROVE  Books'
<1>1. /\ CanEnsure(now) /\ operations' = operations \cup {key} /\ reservations' = reservations
      /\ key \notin operations /\ (role = "master" => plan = "max")
  BY DEF ChangePlan
<1>2. IInv'
  BY ChangePlanStep DEF Books
<1>3. CASE Upgrade(plan, key, now)
  BY <1>1, <1>2, <1>3, UpgradeBooks
<1>4. CASE Schedule(plan, now)
  BY <1>1, <1>2, <1>4, ScheduleBooks
<1> QED
  BY <1>3, <1>4 DEF ChangePlan

\* A bonus is a new row with an event of its own.
LEMMA GrantBonusBooks ==
  ASSUME Books, NEW now \in Nat, NEW bonus \in BonusGrants, NEW key \in CommandKeys,
         GrantBonus(bonus, key, now)
  PROVE  Books'
<1> DEFINE gs == EnsuredGrants(now)
           new == NewGrant("bonus", None, now, bonus.expiresAt, bonus.amount)
           last == Len(gs) + 1
           p == Event("grant", <<"cmd", key>>, last, bonus.amount, 0, 0, 0)
           base == CurrentBase(now)
<1>1. /\ CanEnsure(now) /\ grants' = Append(gs, new) /\ ledger' = EnsuredEvents(now) \cup {p}
      /\ account' = EnsuredAccount(now) /\ cycle' = EnsuredCycle(now)
      /\ role' = role /\ reservations' = reservations /\ operations \subseteq operations'
  BY DEF GrantBonus
<1>2. IInv'
  BY GrantBonusStep DEF Books
<1>3. Sound(gs, now)
  BY <1>1, EnsuredSound DEF Books
<1>4. Coherent(role, account', cycle', gs, base) /\ BasesBehind(cycle', gs)
  BY <1>1, EnsuredCoherent DEF Books
<1>5. Booked(gs, EnsuredEvents(now))
  BY <1>1, EnsureBooks
<1>6. /\ \A g \in DOMAIN grants : g \in DOMAIN gs /\ gs[g].expiresAt = grants[g].expiresAt
      /\ account'.updatedAt = now
  BY <1>1, EnsuredShape DEF Books, EnsuredAccount
<1>7. /\ new.kind = "bonus" /\ new.granted = bonus.amount /\ new.reserved = 0
      /\ new.consumed = 0 /\ new.expired = 0
  BY DEF NewGrant
<1>8. bonus.amount \in Nat /\ bonus.expiresAt \in Nat \cup {None}
  BY BoundAssumption
<1>a. new \in Grant
  BY <1>8 DEF NewGrant, Grant
<1> HIDE DEF new
<1>9. /\ p.kind = "grant" /\ p.grant = last /\ p.granted = bonus.amount
      /\ p.reserved = 0 /\ p.consumed = 0 /\ p.expired = 0
  BY DEF Event
<1> HIDE DEF gs, base, p
<1>10. /\ DOMAIN gs = 1..Len(gs) /\ Len(gs) \in Nat
       /\ Append(gs, new) \in Seq(Grant) /\ Len(Append(gs, new)) = Len(gs) + 1
       /\ \A g \in 1..Len(gs) : Append(gs, new)[g] = gs[g]
       /\ Append(gs, new)[Len(gs) + 1] = new
  BY <1>3, <1>a, AppendProperties, LenProperties DEF Sound
<1>11. DOMAIN grants' = 1..(Len(gs) + 1)
  BY <1>1, <1>10, LenProperties
<1>12. /\ DOMAIN grants' = DOMAIN gs \cup {last} /\ last \notin DOMAIN gs
       /\ \A g \in DOMAIN gs : grants'[g] = gs[g]
       /\ grants'[last] = new
  BY <1>1, <1>10, <1>11
<1> HIDE DEF last
<1>13. Booked(grants', ledger')
  <2>1. /\ DOMAIN gs \subseteq DOMAIN grants' /\ p.grant \in DOMAIN grants'
        /\ p.granted \in Int /\ p.reserved \in Int /\ p.consumed \in Int /\ p.expired \in Int
    BY <1>8, <1>9, <1>12
  <2>2. \A e \in EnsuredEvents(now) : ~(p.kind = e.kind /\ p.key = e.key /\ p.grant = e.grant)
    BY <1>5, <1>9, <1>12 DEF Booked
  <2>3. \A g \in DOMAIN grants' : g # p.grant => Untouched(gs, grants', g)
    BY <1>9, <1>12 DEF Untouched
  <2>4. Accounts(gs, grants', p.grant, p)
    BY <1>7, <1>8, <1>9, <1>12 DEF Accounts, Was
  <2>5. \A g \in DOMAIN grants' :
          grants'[g].reserved + grants'[g].consumed + grants'[g].expired <= grants'[g].granted
    BY <1>2 DEF IInv, Sound
  <2>6. Booked(grants', EnsuredEvents(now) \cup {p})
    BY <1>5, <2>1, <2>2, <2>3, <2>4, <2>5, PostOne
  <2> QED
    BY <1>1, <2>6
<1>14. Coherent(role', account', cycle', grants', base) /\ BasesBehind(cycle', grants')
  <2>1. \A g \in DOMAIN grants' : grants'[g].kind = "base" => g \in DOMAIN gs /\ grants'[g] = gs[g]
    BY <1>7, <1>12
  <2>2. BasesBehind(cycle', grants')
    BY <1>4, <2>1 DEF BasesBehind
  <2>3. Coherent(role, account', cycle', grants', base)
    BY <1>4, <1>12, <2>1 DEF Coherent
  <2> QED
    BY <1>1, <2>2, <2>3
<1>15. \A e \in ledger' : KeySound(e)'
  <2>1. \A g \in DOMAIN grants : grants'[g].expiresAt = grants[g].expiresAt
    BY <1>6, <1>12
  <2>2. \A e \in EnsuredEvents(now) : KeySound(e)'
    BY <1>1, <1>6, <2>1, EnsuredKeys
  <2>3. ASSUME NEW e, e = p PROVE KeySound(e)'
    BY <1>9, <2>3 DEF KeySound
  <2> QED
    BY <1>1, <2>2, <2>3
<1> QED
  BY <1>2, <1>13, <1>14, <1>15, BooksStep

\* Time passing or a status change touches no row.
LEMMA IdleBooks ==
  ASSUME Books, IInv', UNCHANGED <<role, account, cycle, grants, ledger, reservations, operations>>
  PROVE  Books'
<1>1. AccountSound'
  BY DEF Books, AccountSound, Fresh, BasesBehind, Coherent
<1>2. Booked(grants, ledger)' /\ \A e \in ledger : KeySound(e)'
  BY DEF Books, LedgerSound, Booked, LedgerMatches, KeySound, Due
<1> QED
  BY <1>1, <1>2 DEF Books, LedgerSound

-----------------------------------------------------------------------------
(* Holds: what taking and ending one does to the rows *)

\* A hold of `total` under `key` that takes taken[g] from every grant g.
HeldAs(key, now, total, taken) ==
  LET gs == EnsuredGrants(now)
  IN /\ total \in Nat \ {0} /\ SumFunction(taken) = total /\ DOMAIN taken = DOMAIN gs
     /\ \A g \in DOMAIN gs : taken[g] \in Nat /\ taken[g] <= Available(gs[g])
     /\ reservations[key].status = "absent"
     /\ reservations'[key].status = "held" /\ reservations'[key].reserved = total
     /\ reservations'[key].charged = 0
     /\ reservations'[key].allocation = [g \in {h \in DOMAIN gs : taken[h] > 0} |-> taken[g]]
     /\ DOMAIN reservations' = ReserveKeys
     /\ \A k \in ReserveKeys : k # key => reservations'[k] = reservations[k]
     /\ DOMAIN grants' = DOMAIN gs
     /\ \A g \in DOMAIN gs :
          /\ grants'[g].kind = gs[g].kind /\ grants'[g].cycle = gs[g].cycle
          /\ grants'[g].expiresAt = gs[g].expiresAt /\ grants'[g].granted = gs[g].granted
          /\ grants'[g].reserved = gs[g].reserved + taken[g]
          /\ grants'[g].consumed = gs[g].consumed /\ grants'[g].expired = gs[g].expired
     /\ ledger' = EnsuredEvents(now) \cup
          {Event("reserve", <<"reserve", key>>, g, 0, taken[g], 0, 0) :
             g \in {h \in DOMAIN gs : taken[h] > 0}}

\* Reserve takes such a hold.
LEMMA ReserveRows ==
  ASSUME IInv, NEW now \in Nat, NEW key \in ReserveKeys, NEW items, Reserve(key, items, now)
  PROVE  \E total, taken : HeldAs(key, now, total, taken)
<1> DEFINE gs == EnsuredGrants(now)
           cap == [g \in DOMAIN gs |-> Available(gs[g])]
           used(taken) == {g \in DOMAIN gs : taken[g] > 0}
           hold(total, taken) ==
             [Absent EXCEPT !.status = "held", !.items = items, !.reserved = total,
                            !.allocation = [g \in used(taken) |-> taken[g]], !.createdAt = now]
           posted(taken) ==
             {Event("reserve", <<"reserve", key>>, g, 0, taken[g], 0, 0) : g \in used(taken)}
<1>1. CanEnsure(now) /\ reservations[key].status = "absent"
  BY DEF Reserve
<1>2. PICK total \in 1..MaxAmount : \E taken \in [DOMAIN gs -> 0..total] :
        /\ GreedySplit(gs, cap, total, taken)
        /\ reservations' = [reservations EXCEPT ![key] = hold(total, taken)]
        /\ grants' = [g \in DOMAIN gs |-> [gs[g] EXCEPT !.reserved = @ + taken[g]]]
        /\ ledger' = EnsuredEvents(now) \cup posted(taken)
  BY DEF Reserve
<1>3. PICK taken \in [DOMAIN gs -> 0..total] :
        /\ GreedySplit(gs, cap, total, taken)
        /\ reservations' = [reservations EXCEPT ![key] = hold(total, taken)]
        /\ grants' = [g \in DOMAIN gs |-> [gs[g] EXCEPT !.reserved = @ + taken[g]]]
        /\ ledger' = EnsuredEvents(now) \cup posted(taken)
  BY <1>2
<1>4. Sound(gs, now)
  BY <1>1, EnsuredSound
<1>5. total \in Nat \ {0} /\ MaxAmount \in Nat
  BY BoundAssumption
<1>6. SumFunction(taken) = total /\ \A g \in DOMAIN gs : taken[g] <= Available(gs[g])
  BY <1>3 DEF GreedySplit
<1>7. \A g \in DOMAIN gs : gs[g] \in Grant
  BY <1>4, ElementOfSeq DEF Sound
<1>9. DOMAIN reservations = ReserveKeys
  BY DEF IInv, TypeOK
<1> HIDE DEF gs
<1>10. /\ DOMAIN grants' = DOMAIN gs
       /\ \A g \in DOMAIN gs :
            /\ grants'[g].kind = gs[g].kind /\ grants'[g].cycle = gs[g].cycle
            /\ grants'[g].expiresAt = gs[g].expiresAt /\ grants'[g].granted = gs[g].granted
            /\ grants'[g].reserved = gs[g].reserved + taken[g]
            /\ grants'[g].consumed = gs[g].consumed /\ grants'[g].expired = gs[g].expired
  BY <1>3, <1>7 DEF Grant
<1>11. taken \in [DOMAIN gs -> 0..total] /\ DOMAIN taken = DOMAIN gs
       /\ \A g \in DOMAIN gs : taken[g] \in Nat
  BY <1>3
<1>12. /\ reservations'[key] = hold(total, taken) /\ DOMAIN reservations' = ReserveKeys
       /\ \A k \in ReserveKeys : k # key => reservations'[k] = reservations[k]
  BY <1>3, <1>9
<1>13. /\ reservations'[key].status = "held" /\ reservations'[key].reserved = total
       /\ reservations'[key].charged = 0
       /\ reservations'[key].allocation = [g \in used(taken) |-> taken[g]]
  <2> DEFINE split == [g \in used(taken) |-> taken[g]]
  <2>1. reservations'[key] = [Absent EXCEPT !.status = "held", !.items = items,
                                            !.reserved = total, !.allocation = split,
                                            !.createdAt = now]
    BY <1>12
  <2>2. split = [g \in used(taken) |-> taken[g]]
    OBVIOUS
  <2> HIDE DEF split, used
  <2>3. /\ reservations'[key].status = "held" /\ reservations'[key].reserved = total
        /\ reservations'[key].charged = 0 /\ reservations'[key].allocation = split
    BY <2>1 DEF Absent
  <2> QED
    BY <2>2, <2>3
<1>14. ledger' = EnsuredEvents(now) \cup posted(taken)
  BY <1>3
<1> QED
  BY <1>1, <1>5, <1>6, <1>10, <1>11, <1>12, <1>13, <1>14 DEF HeldAs, gs

\* What the rows show of the end of the hold under `key`: spent[g] of what it held on g is
\* charged, back[g] of the rest lapses.
EndedAs(key, charge, consumed, spent, back) ==
  LET r == reservations[key]
      hold == r.allocation
  IN /\ r.status = "held" /\ SumFunction(hold) = r.reserved
     /\ consumed \in 0..r.reserved /\ SumFunction(spent) = consumed
     /\ DOMAIN hold \subseteq DOMAIN grants
     /\ DOMAIN spent = DOMAIN hold /\ DOMAIN back = DOMAIN hold
     /\ \A g \in DOMAIN hold :
          /\ hold[g] \in Nat /\ hold[g] <= grants[g].reserved
          /\ spent[g] \in Nat /\ spent[g] <= hold[g]
          /\ back[g] \in Nat /\ back[g] <= hold[g] - spent[g]
     /\ charge <=> consumed > 0
     /\ reservations'[key].status = IF charge THEN "settled" ELSE "released"
     /\ reservations'[key].charged = consumed
     /\ DOMAIN reservations' = ReserveKeys
     /\ \A k \in ReserveKeys : k # key => reservations'[k] = reservations[k]
     /\ DOMAIN grants' = DOMAIN grants
     /\ \A g \in DOMAIN grants \ DOMAIN hold : grants'[g] = grants[g]
     /\ \A g \in DOMAIN hold :
          /\ grants'[g].kind = grants[g].kind /\ grants'[g].cycle = grants[g].cycle
          /\ grants'[g].expiresAt = grants[g].expiresAt /\ grants'[g].granted = grants[g].granted
          /\ grants'[g].reserved = grants[g].reserved - hold[g]
          /\ grants'[g].consumed = grants[g].consumed + spent[g]
          /\ grants'[g].expired = grants[g].expired + back[g]
     /\ ledger' = ledger \cup
          {Event(IF charge THEN "settle" ELSE "release", <<"terminal", key>>, g, 0,
                 0 - hold[g], spent[g], back[g]) : g \in DOMAIN hold}

\* Terminal ends it so, whether it settles or releases.
LEMMA TerminalRows ==
  ASSUME IInv, NEW now \in Nat, NEW key \in ReserveKeys, NEW terminalKey, NEW usage,
         NEW charge \in BOOLEAN, Terminal(key, terminalKey, usage, charge, now)
  PROVE  \E consumed, spent, back : EndedAs(key, charge, consumed, spent, back)
<1> DEFINE r == reservations[key]
           hold == r.allocation
           end(consumed) == [r EXCEPT !.status = IF charge THEN "settled" ELSE "released",
                                      !.terminalKey = terminalKey, !.charged = consumed]
           lapse(spent) == [g \in DOMAIN hold |-> Expiring(g, hold[g] - spent[g], now)]
           posted(spent) ==
             {Event(IF charge THEN "settle" ELSE "release", <<"terminal", key>>, g, 0,
                    0 - hold[g], spent[g], Expiring(g, hold[g] - spent[g], now)) : g \in DOMAIN hold}
<1>1. /\ r.status = "held" /\ \A g \in DOMAIN hold : grants[g].reserved >= hold[g]
      /\ SumFunction(hold) = r.reserved
  BY DEF Terminal, TerminalAllowed, ReservationCoherent
<1>2. PICK consumed \in 0..r.reserved :
        /\ ~charge => consumed = 0
        /\ \E spent \in [DOMAIN hold -> 0..consumed] :
             /\ charge => consumed > 0
             /\ GreedySplit(grants, hold, consumed, spent)
             /\ grants' = [g \in DOMAIN grants |->
                  IF g \in DOMAIN hold THEN Returned(g, hold[g], spent[g], now) ELSE grants[g]]
             /\ ledger' = ledger \cup posted(spent)
             /\ reservations' = [reservations EXCEPT ![key] = end(consumed)]
  BY DEF Terminal
<1>3. PICK spent \in [DOMAIN hold -> 0..consumed] :
        /\ charge => consumed > 0
        /\ GreedySplit(grants, hold, consumed, spent)
        /\ grants' = [g \in DOMAIN grants |->
             IF g \in DOMAIN hold THEN Returned(g, hold[g], spent[g], now) ELSE grants[g]]
        /\ ledger' = ledger \cup posted(spent)
        /\ reservations' = [reservations EXCEPT ![key] = end(consumed)]
  BY <1>2
<1>4. IsReservation(r) /\ DOMAIN reservations = ReserveKeys
  BY DEF IInv, TypeOK
<1>5. /\ DOMAIN hold \subseteq DOMAIN grants /\ \A g \in DOMAIN hold : hold[g] \in Nat
      /\ r.reserved \in Nat /\ consumed \in Nat
  BY <1>2, <1>4 DEF IsReservation
<1>6. SumFunction(spent) = consumed /\ \A g \in DOMAIN hold : spent[g] \in Nat /\ spent[g] <= hold[g]
  BY <1>3, <1>5 DEF GreedySplit
<1> DEFINE back == lapse(spent)
<1>7. \A g \in DOMAIN hold : back[g] \in Nat /\ back[g] <= hold[g] - spent[g]
  BY <1>5, <1>6 DEF Expiring
<1>8. posted(spent) = {Event(IF charge THEN "settle" ELSE "release", <<"terminal", key>>, g, 0,
                             0 - hold[g], spent[g], back[g]) : g \in DOMAIN hold}
  OBVIOUS
<1>9. ASSUME NEW g \in DOMAIN hold
      PROVE  /\ grants'[g].kind = grants[g].kind /\ grants'[g].cycle = grants[g].cycle
             /\ grants'[g].expiresAt = grants[g].expiresAt /\ grants'[g].granted = grants[g].granted
             /\ grants'[g].reserved = grants[g].reserved - hold[g]
             /\ grants'[g].consumed = grants[g].consumed + spent[g]
             /\ grants'[g].expired = grants[g].expired + back[g]
  <2>1. grants[g] \in Grant
    BY <1>5, RowNumbers
  <2>2. grants'[g] = [grants[g] EXCEPT !.reserved = @ - hold[g], !.consumed = @ + spent[g],
                                       !.expired = @ + back[g]]
    BY <1>3, <1>5 DEF Returned
  <2> HIDE DEF back, hold
  <2> QED
    BY <2>1, <2>2 DEF Grant
<1>10. /\ DOMAIN grants' = DOMAIN grants
       /\ \A g \in DOMAIN grants \ DOMAIN hold : grants'[g] = grants[g]
  BY <1>3
<1>11. /\ reservations'[key] = end(consumed) /\ DOMAIN reservations' = ReserveKeys
       /\ \A k \in ReserveKeys : k # key => reservations'[k] = reservations[k]
  BY <1>3, <1>4
<1>12. /\ reservations'[key].status = IF charge THEN "settled" ELSE "released"
       /\ reservations'[key].charged = consumed
  <2>1. r \in [status : {"absent", "held", "settled", "released"}, items : {r.items},
               reserved : Nat, allocation : {r.allocation}, createdAt : Nat,
               terminalKey : TerminalKeys \cup {None}, charged : Nat]
    BY <1>4 DEF IsReservation
  <2>2. reservations'[key] = [r EXCEPT !.status = IF charge THEN "settled" ELSE "released",
                                      !.terminalKey = terminalKey, !.charged = consumed]
    BY <1>11
  <2> HIDE DEF r
  <2> QED
    BY <2>1, <2>2
<1>13. charge <=> consumed > 0
  BY <1>2, <1>3
<1>14. ledger' = ledger \cup posted(spent) /\ DOMAIN back = DOMAIN hold /\ DOMAIN spent = DOMAIN hold
  BY <1>3
<1> HIDE DEF back, posted
<1>15. EndedAs(key, charge, consumed, spent, back)
  BY <1>1, <1>2, <1>5, <1>6, <1>7, <1>8, <1>9, <1>10, <1>11, <1>12, <1>13, <1>14 DEF EndedAs
<1> QED
  BY <1>15

\* A hold posts one event per grant it takes from, under a key of its own.
LEMMA ReserveBooks ==
  ASSUME Books, NEW now \in Nat, NEW key \in ReserveKeys, NEW items, Reserve(key, items, now), IInv'
  PROVE  Books'
<1> DEFINE gs == EnsuredGrants(now)
           base == CurrentBase(now)
<1>1. /\ CanEnsure(now) /\ account' = EnsuredAccount(now) /\ cycle' = EnsuredCycle(now)
      /\ role' = role /\ operations' = operations
  BY DEF Reserve
<1>2. PICK total, taken : HeldAs(key, now, total, taken)
  BY ReserveRows DEF Books
<1> DEFINE used == {g \in DOMAIN gs : taken[g] > 0}
           posted == {Event("reserve", <<"reserve", key>>, g, 0, taken[g], 0, 0) : g \in used}
<1>3. /\ DOMAIN taken = DOMAIN gs /\ \A g \in DOMAIN gs : taken[g] \in Nat
      /\ reservations[key].status = "absent" /\ reservations'[key].status = "held"
      /\ \A k \in ReserveKeys : k # key => reservations'[k] = reservations[k]
      /\ DOMAIN grants' = DOMAIN gs
      /\ \A g \in DOMAIN gs :
           /\ grants'[g].kind = gs[g].kind /\ grants'[g].cycle = gs[g].cycle
           /\ grants'[g].expiresAt = gs[g].expiresAt /\ grants'[g].granted = gs[g].granted
           /\ grants'[g].reserved = gs[g].reserved + taken[g]
           /\ grants'[g].consumed = gs[g].consumed /\ grants'[g].expired = gs[g].expired
      /\ ledger' = EnsuredEvents(now) \cup posted
  BY <1>2 DEF HeldAs
<1>4. Coherent(role, account', cycle', gs, base) /\ BasesBehind(cycle', gs)
  BY <1>1, EnsuredCoherent DEF Books
<1>5. /\ Booked(gs, EnsuredEvents(now))
      /\ \A e \in EnsuredEvents(now) : e \in ledger \/ e.kind \in {"expire", "grant"}
  BY <1>1, EnsureBooks
<1>6. /\ \A g \in DOMAIN grants : g \in DOMAIN gs /\ gs[g].expiresAt = grants[g].expiresAt
      /\ account'.updatedAt = now
  BY <1>1, EnsuredShape DEF Books, EnsuredAccount
<1>7. gs \in Seq(Grant) /\ \A g \in DOMAIN gs : gs[g] \in Grant
  BY <1>1, EnsuredSound, ElementOfSeq DEF Books, Sound
<1>8. ASSUME NEW p \in posted
      PROVE  /\ p.kind = "reserve" /\ p.key = <<"reserve", key>> /\ p.grant \in used
             /\ p = Event("reserve", <<"reserve", key>>, p.grant, 0, taken[p.grant], 0, 0)
             /\ p.granted = 0 /\ p.reserved = taken[p.grant] /\ p.consumed = 0 /\ p.expired = 0
  <2>1. PICK g \in used : p = Event("reserve", <<"reserve", key>>, g, 0, taken[g], 0, 0)
    OBVIOUS
  <2> HIDE DEF used
  <2> QED
    BY <2>1 DEF Event
<1>9. \A g \in used : \E p \in posted : p.grant = g
  <2> SUFFICES ASSUME NEW g \in used PROVE \E p \in posted : p.grant = g
    OBVIOUS
  <2>1. Event("reserve", <<"reserve", key>>, g, 0, taken[g], 0, 0) \in posted
    OBVIOUS
  <2> QED
    BY <2>1 DEF Event
<1>a. /\ used \subseteq DOMAIN gs /\ \A g \in DOMAIN gs : g \notin used => taken[g] = 0
  BY <1>3
<1> HIDE DEF gs, base, used, posted
<1>10. Booked(grants', ledger')
  <2>1. \A p, q \in posted : p.grant = q.grant => p = q
    BY <1>8
  <2>2. DOMAIN gs = 1..Len(gs) /\ Len(gs) \in Nat
    BY <1>7, LenProperties
  <2>3. \A p \in posted : p.grant \in 1..Len(gs)
    BY <1>8, <1>a, <2>2
  <2>4. IsFiniteSet(posted)
    BY <2>1, <2>2, <2>3, EventsFinite
  <2>5. \A p \in posted : /\ p.grant \in DOMAIN grants'
                          /\ p.granted \in Int /\ p.reserved \in Int
                          /\ p.consumed \in Int /\ p.expired \in Int
    BY <1>3, <1>8, <1>a
  <2>6. \A p \in posted, e \in EnsuredEvents(now) :
          ~(p.kind = e.kind /\ p.key = e.key /\ p.grant = e.grant)
    <3>1. \A e \in ledger : KeySound(e)
      BY DEF Books, LedgerSound
    <3>2. ASSUME NEW e \in ledger, e.kind = "reserve", e.key = <<"reserve", key>> PROVE FALSE
      BY <1>3, <3>1, <3>2 DEF KeySound
    <3> QED
      BY <1>5, <1>8, <3>2
  <2>7. ASSUME NEW g \in DOMAIN grants'
        PROVE  \/ Untouched(gs, grants', g) /\ \A p \in posted : p.grant # g
               \/ \E p \in posted : Accounts(gs, grants', g, p)
    <3>1. gs[g].granted \in Nat /\ gs[g].reserved \in Nat /\ gs[g].consumed \in Nat
          /\ gs[g].expired \in Nat /\ g \in DOMAIN gs
      BY <1>3, <1>7 DEF Grant
    <3>2. CASE g \in used
      <4>1. PICK p \in posted : p.grant = g
        BY <1>9, <3>2
      <4>2. p.granted = 0 /\ p.reserved = taken[g] /\ p.consumed = 0 /\ p.expired = 0
        BY <1>8, <4>1
      <4> QED
        BY <1>3, <3>1, <4>1, <4>2 DEF Accounts, Was
    <3>3. CASE g \notin used
      BY <1>3, <1>8, <1>a, <3>1, <3>3 DEF Untouched
    <3> QED
      BY <3>2, <3>3
  <2>8. \A g \in DOMAIN grants' :
          grants'[g].reserved + grants'[g].consumed + grants'[g].expired <= grants'[g].granted
    BY DEF IInv, Sound
  <2>9. DOMAIN gs \subseteq DOMAIN grants'
    BY <1>3
  <2>10. Posts(gs, EnsuredEvents(now), grants', posted)
    BY <2>1, <2>4, <2>5, <2>6, <2>7, <2>8, <2>9 DEF Posts
  <2> QED
    BY <1>3, <1>5, <2>10, Posting
<1>11. Coherent(role', account', cycle', grants', base) /\ BasesBehind(cycle', grants')
  BY <1>1, <1>3, <1>4 DEF Coherent, BasesBehind
<1>12. \A e \in ledger' : KeySound(e)'
  <2>1. \A g \in DOMAIN grants : grants'[g].expiresAt = grants[g].expiresAt
    BY <1>3, <1>6
  <2>2. \A k \in ReserveKeys :
          /\ reservations[k].status # "absent" => reservations'[k].status # "absent"
          /\ reservations[k].status \in {"settled", "released"} =>
               reservations'[k].status \in {"settled", "released"}
    BY <1>3
  <2>3. \A e \in EnsuredEvents(now) : KeySound(e)'
    BY <1>1, <1>6, <2>1, <2>2, EnsuredKeys
  <2>4. ASSUME NEW e, e \in posted PROVE KeySound(e)'
    BY <1>3, <1>8, <2>4 DEF KeySound
  <2> QED
    BY <1>3, <2>3, <2>4
<1> QED
  BY <1>10, <1>11, <1>12, BooksStep

\* The end of a hold posts one event per grant it had taken from, and a hold ends once.
LEMMA TerminalBooks ==
  ASSUME Books, NEW now \in Nat, NEW key \in ReserveKeys, NEW terminalKey, NEW usage,
         NEW charge \in BOOLEAN, Terminal(key, terminalKey, usage, charge, now), IInv'
  PROVE  Books'
<1>1. PICK consumed, spent, back : EndedAs(key, charge, consumed, spent, back)
  BY TerminalRows DEF Books
<1> DEFINE hold == reservations[key].allocation
           kind == IF charge THEN "settle" ELSE "release"
           posted == {Event(kind, <<"terminal", key>>, g, 0, 0 - hold[g], spent[g], back[g]) :
                        g \in DOMAIN hold}
<1>2. /\ reservations[key].status = "held" /\ DOMAIN hold \subseteq DOMAIN grants
      /\ \A g \in DOMAIN hold : hold[g] \in Nat /\ spent[g] \in Nat /\ back[g] \in Nat
      /\ reservations'[key].status = IF charge THEN "settled" ELSE "released"
      /\ \A k \in ReserveKeys : k # key => reservations'[k] = reservations[k]
      /\ DOMAIN grants' = DOMAIN grants
      /\ \A g \in DOMAIN grants \ DOMAIN hold : grants'[g] = grants[g]
      /\ \A g \in DOMAIN hold :
           /\ grants'[g].kind = grants[g].kind /\ grants'[g].cycle = grants[g].cycle
           /\ grants'[g].expiresAt = grants[g].expiresAt /\ grants'[g].granted = grants[g].granted
           /\ grants'[g].reserved = grants[g].reserved - hold[g]
           /\ grants'[g].consumed = grants[g].consumed + spent[g]
           /\ grants'[g].expired = grants[g].expired + back[g]
      /\ ledger' = ledger \cup posted
  BY <1>1 DEF EndedAs
<1>3. /\ account' = account /\ cycle' = cycle /\ role' = role /\ operations' = operations
      /\ account.plan # None
  BY DEF Terminal, TerminalAllowed
<1>4. ASSUME NEW p \in posted
      PROVE  /\ p.kind \in {"settle", "release"} /\ p.key = <<"terminal", key>>
             /\ p.grant \in DOMAIN hold
             /\ p = Event(kind, <<"terminal", key>>, p.grant, 0, 0 - hold[p.grant],
                          spent[p.grant], back[p.grant])
             /\ p.granted = 0 /\ p.reserved = 0 - hold[p.grant] /\ p.consumed = spent[p.grant]
             /\ p.expired = back[p.grant]
  <2>1. PICK g \in DOMAIN hold :
          p = Event(kind, <<"terminal", key>>, g, 0, 0 - hold[g], spent[g], back[g])
    OBVIOUS
  <2>2. kind \in {"settle", "release"}
    OBVIOUS
  <2> HIDE DEF hold, kind
  <2> QED
    BY <2>1, <2>2 DEF Event
<1>5. \A g \in DOMAIN hold : \E p \in posted : p.grant = g
  <2> SUFFICES ASSUME NEW g \in DOMAIN hold PROVE \E p \in posted : p.grant = g
    OBVIOUS
  <2>1. Event(kind, <<"terminal", key>>, g, 0, 0 - hold[g], spent[g], back[g]) \in posted
    OBVIOUS
  <2> QED
    BY <2>1 DEF Event
<1> HIDE DEF hold, kind, posted
<1>6. Booked(grants', ledger')
  <2>1. \A p, q \in posted : p.grant = q.grant => p = q
    BY <1>4
  <2>2. DOMAIN grants = 1..Len(grants) /\ Len(grants) \in Nat
    BY LenProperties DEF Books, IInv, TypeOK
  <2>3. \A p \in posted : p.grant \in 1..Len(grants)
    BY <1>2, <1>4, <2>2
  <2>4. IsFiniteSet(posted)
    BY <2>1, <2>2, <2>3, EventsFinite
  <2>5. \A p \in posted : /\ p.grant \in DOMAIN grants'
                          /\ p.granted \in Int /\ p.reserved \in Int
                          /\ p.consumed \in Int /\ p.expired \in Int
    BY <1>2, <1>4
  <2>6. \A p \in posted, e \in ledger : ~(p.kind = e.kind /\ p.key = e.key /\ p.grant = e.grant)
    <3>1. \A e \in ledger : KeySound(e)
      BY DEF Books, LedgerSound
    <3>2. ASSUME NEW e \in ledger, e.kind \in {"settle", "release"}, e.key = <<"terminal", key>>
          PROVE  FALSE
      BY <1>2, <3>1, <3>2 DEF KeySound
    <3> QED
      BY <1>4, <3>2
  <2>7. ASSUME NEW g \in DOMAIN grants'
        PROVE  \/ Untouched(grants, grants', g) /\ \A p \in posted : p.grant # g
               \/ \E p \in posted : Accounts(grants, grants', g, p)
    <3>1. grants[g].granted \in Nat /\ grants[g].reserved \in Nat /\ grants[g].consumed \in Nat
          /\ grants[g].expired \in Nat /\ g \in DOMAIN grants
      BY <1>2, RowNumbers DEF Books
    <3>2. CASE g \in DOMAIN hold
      <4>1. PICK p \in posted : p.grant = g
        BY <1>5, <3>2
      <4>2. p.granted = 0 /\ p.reserved = 0 - hold[g] /\ p.consumed = spent[g] /\ p.expired = back[g]
        BY <1>4, <4>1
      <4>3. hold[g] \in Nat /\ spent[g] \in Nat /\ back[g] \in Nat
        BY <1>2, <3>2
      <4> QED
        BY <1>2, <3>1, <3>2, <4>1, <4>2, <4>3 DEF Accounts, Was
    <3>3. CASE g \notin DOMAIN hold
      BY <1>2, <1>4, <3>1, <3>3 DEF Untouched
    <3> QED
      BY <3>2, <3>3
  <2>8. \A g \in DOMAIN grants' :
          grants'[g].reserved + grants'[g].consumed + grants'[g].expired <= grants'[g].granted
    BY DEF IInv, Sound
  <2>9. DOMAIN grants \subseteq DOMAIN grants' /\ Booked(grants, ledger)
    BY <1>2 DEF Books, LedgerSound
  <2>10. Posts(grants, ledger, grants', posted)
    BY <2>1, <2>4, <2>5, <2>6, <2>7, <2>8, <2>9 DEF Posts
  <2> QED
    BY <1>2, <2>9, <2>10, Posting
<1>7. \A g \in DOMAIN grants :
        /\ grants'[g].kind = grants[g].kind /\ grants'[g].cycle = grants[g].cycle
        /\ grants'[g].expiresAt = grants[g].expiresAt /\ grants'[g].granted = grants[g].granted
  BY <1>2
<1>8. PICK base \in DOMAIN grants : Coherent(role, account, cycle, grants, base)
  BY <1>3 DEF Books, AccountSound
<1>9. Coherent(role', account', cycle', grants', base) /\ BasesBehind(cycle', grants')
  BY <1>2, <1>3, <1>7, <1>8 DEF Books, AccountSound, Coherent, BasesBehind
<1>10. \A e \in ledger' : KeySound(e)'
  <2>1. \A k \in ReserveKeys :
          /\ reservations[k].status # "absent" => reservations'[k].status # "absent"
          /\ reservations[k].status \in {"settled", "released"} =>
               reservations'[k].status \in {"settled", "released"}
    BY <1>2
  <2>2. account'.updatedAt \in Nat /\ account.updatedAt <= account'.updatedAt
    BY <1>3 DEF Books, IInv, TypeOK
  <2>3. \A e \in ledger : KeySound(e)'
    BY <1>3, <1>7, <2>1, <2>2, KeysKept
  <2>4. ASSUME NEW e, e \in posted PROVE KeySound(e)'
    BY <1>2, <1>4, <2>4 DEF KeySound
  <2> QED
    BY <1>2, <2>3, <2>4
<1> QED
  BY <1>6, <1>9, <1>10, BooksStep

-----------------------------------------------------------------------------
(* What grants have reserved is what open holds took *)

\* The open holds on a grant, and what they took from it.
Holders(g) == {k \in HeldKeys : g \in DOMAIN reservations[k].allocation}

HeldOn(g) == SumFunction([k \in Holders(g) |-> reservations[k].allocation[g]])

\* Grants have reserved what is on hold, and nothing is charged before a hold.
HoldsSound ==
  /\ IsFiniteSet(HeldKeys)
  /\ \A g \in DOMAIN grants : grants[g].reserved = HeldOn(g)
  /\ \A k \in ReserveKeys : reservations[k].status = "absent" => reservations[k].charged = 0

\* A grant nobody has taken from yet has nothing on hold.
LEMMA NothingHeld ==
  ASSUME NEW g, \A k \in ReserveKeys : g \notin DOMAIN reservations[k].allocation
  PROVE  HeldOn(g) = 0
<1>1. Holders(g) = {}
  BY DEF Holders, HeldKeys
<1>2. DOMAIN [k \in Holders(g) |-> reservations[k].allocation[g]] = {}
  BY <1>1
<1> QED
  BY <1>2, SumEmpty DEF HeldOn, SumFunction

\* The account's own operations keep what is on hold, and a new grant starts with nothing.
LEMMA LifecycleHolds ==
  ASSUME IInv, HoldsSound, reservations' = reservations,
         DOMAIN grants \subseteq DOMAIN grants',
         \A g \in DOMAIN grants : grants'[g].reserved = grants[g].reserved,
         \A g \in DOMAIN grants' \ DOMAIN grants : grants'[g].reserved = 0
  PROVE  HoldsSound'
<1>1. \A g : HeldOn(g)' = HeldOn(g)
  BY DEF HeldOn, Holders, HeldKeys
<1>2. HeldKeys' = HeldKeys
  BY DEF HeldKeys
<1>3. \A g \in DOMAIN grants' \ DOMAIN grants : HeldOn(g) = 0
  BY NothingHeld DEF IInv, TypeOK, IsReservation
<1> QED
  BY <1>1, <1>2, <1>3 DEF HoldsSound

\* What a hold adds to the grants it takes from.
LEMMA ReserveHolds ==
  ASSUME IInv, HoldsSound, NEW now \in Nat, NEW key \in ReserveKeys, NEW items,
         Reserve(key, items, now)
  PROVE  HoldsSound'
<1> DEFINE gs == EnsuredGrants(now)
<1>1. CanEnsure(now)
  BY DEF Reserve
<1>2. PICK total, taken : HeldAs(key, now, total, taken)
  BY ReserveRows
<1>3. /\ DOMAIN taken = DOMAIN gs /\ \A g \in DOMAIN gs : taken[g] \in Nat
      /\ reservations[key].status = "absent" /\ reservations'[key].status = "held"
      /\ reservations'[key].allocation = [g \in {h \in DOMAIN gs : taken[h] > 0} |-> taken[g]]
      /\ \A k \in ReserveKeys : k # key => reservations'[k] = reservations[k]
      /\ DOMAIN grants' = DOMAIN gs
      /\ \A g \in DOMAIN gs : grants'[g].reserved = gs[g].reserved + taken[g]
  BY <1>2 DEF HeldAs
<1>4. \A g \in DOMAIN gs : gs[g].reserved = HeldOn(g)
  <2>1. \A g \in DOMAIN grants : gs[g].reserved = grants[g].reserved
    BY <1>1, EnsuredShape
  <2>2. ASSUME NEW g \in DOMAIN gs \ DOMAIN grants
        PROVE  gs[g].reserved = 0 /\ HeldOn(g) = 0
    <3>1. Opens(now) /\ g = Len(grants) + 1 /\ gs[g] = BaseGrant(now)
      BY <1>1, EnsuredShape
    <3>2. gs[g].reserved = 0
      BY <3>1 DEF BaseGrant, NewGrant
    <3>3. \A k \in ReserveKeys : g \notin DOMAIN reservations[k].allocation
      BY DEF IInv, TypeOK, IsReservation
    <3> QED
      BY <3>2, <3>3, NothingHeld
  <2> QED
    BY <2>1, <2>2 DEF HoldsSound
<1>5. HeldKeys' = HeldKeys \cup {key} /\ key \notin HeldKeys
  BY <1>3 DEF HeldKeys
<1>6. IsFiniteSet(HeldKeys) /\ IsFiniteSet(HeldKeys')
  BY <1>5, FS_AddElement DEF HoldsSound
<1> DEFINE alloc == reservations'[key].allocation
<1>a. /\ \A g \in DOMAIN gs : g \in DOMAIN alloc <=> taken[g] > 0
      /\ \A g \in DOMAIN alloc : alloc[g] = taken[g]
  BY <1>3
<1>b. \A k \in ReserveKeys : k # key => reservations'[k].allocation = reservations[k].allocation
  BY <1>3
<1> HIDE DEF gs, alloc
<1>7. ASSUME NEW g \in DOMAIN gs
      PROVE  HeldOn(g)' = HeldOn(g) + taken[g]
  <2> DEFINE own == Holders(g)
             f == [k \in own |-> reservations[k].allocation[g]]
             h == [k \in Holders(g)' |-> reservations'[k].allocation[g]]
  <2>1. HeldOn(g) = SumFunctionOnSet(f, own) /\ HeldOn(g)' = SumFunctionOnSet(h, Holders(g)')
    BY DEF HeldOn, SumFunction
  <2>2. IsFiniteSet(own)
    BY <1>6, FS_Subset DEF Holders
  <2>3. \A k \in own : f[k] \in Nat /\ k # key /\ k \in ReserveKeys
    BY <1>5 DEF Holders, HeldKeys, IInv, TypeOK, IsReservation
  <2>4. own \subseteq Holders(g)' /\ \A k \in own : h[k] = f[k]
    BY <1>b, <1>5, <2>3 DEF Holders
  <2>5. \A k \in Holders(g)' : k # key => k \in own
    BY <1>b, <1>5 DEF Holders, HeldKeys
  <2>6. CASE taken[g] > 0
    <3>1. Holders(g)' = own \cup {key} /\ key \notin own
      <4>1. key \in Holders(g)'
        BY <1>5, <1>a, <2>6 DEF Holders, alloc
      <4> QED
        BY <2>3, <2>4, <2>5, <4>1
    <3>2. h[key] = taken[g] /\ taken[g] \in Nat
      BY <1>3, <1>a, <2>6, <3>1 DEF alloc
    <3> HIDE DEF own, f, h
    <3>3. SumFunctionOnSet(h, own \cup {key}) = h[key] + SumFunctionOnSet(h, own)
      <4>1. \A k \in own \cup {key} : h[k] \in Int
        BY <2>3, <2>4, <3>2
      <4> QED
        BY <2>2, <3>1, <4>1, SumAdd
    <3>4. SumFunctionOnSet(h, own) = SumFunctionOnSet(f, own)
      <4>1. \A k \in own : f[k] \in Int /\ h[k] = f[k]
        BY <2>3, <2>4
      <4> QED
        BY <2>2, <4>1, SumSame
    <3>5. SumFunctionOnSet(f, own) \in Nat
      BY <2>2, <2>3, SumNat
    <3> QED
      BY <2>1, <3>1, <3>2, <3>3, <3>4, <3>5
  <2>7. CASE ~(taken[g] > 0)
    <3>1. key \notin Holders(g)'
      BY <1>a, <2>7 DEF Holders, alloc
    <3>2. Holders(g)' = own
      BY <2>4, <2>5, <3>1
    <3>3. \A k \in own : f[k] \in Int /\ h[k] = f[k]
      BY <2>3, <2>4
    <3> HIDE DEF own, f, h
    <3>4. SumFunctionOnSet(h, own) = SumFunctionOnSet(f, own)
      BY <2>2, <3>3, SumSame
    <3>5. SumFunctionOnSet(f, own) \in Nat
      BY <2>2, <2>3, SumNat
    <3>6. taken[g] = 0
      BY <1>3, <2>7
    <3> QED
      BY <2>1, <3>2, <3>4, <3>5, <3>6
  <2> QED
    BY <2>6, <2>7
<1> QED
  BY <1>3, <1>4, <1>6, <1>7 DEF HoldsSound

\* What the end of a hold takes off the grants it had taken from.
LEMMA TerminalHolds ==
  ASSUME IInv, HoldsSound, NEW now \in Nat, NEW key \in ReserveKeys, NEW terminalKey, NEW usage,
         NEW charge \in BOOLEAN, Terminal(key, terminalKey, usage, charge, now)
  PROVE  HoldsSound'
<1>1. PICK consumed, spent, back : EndedAs(key, charge, consumed, spent, back)
  BY TerminalRows
<1> DEFINE hold == reservations[key].allocation
<1>2. /\ reservations[key].status = "held" /\ DOMAIN hold \subseteq DOMAIN grants
      /\ \A g \in DOMAIN hold : hold[g] \in Nat
      /\ reservations'[key].status \in {"settled", "released"}
      /\ \A k \in ReserveKeys : k # key => reservations'[k] = reservations[k]
      /\ DOMAIN grants' = DOMAIN grants
      /\ \A g \in DOMAIN grants \ DOMAIN hold : grants'[g] = grants[g]
      /\ \A g \in DOMAIN hold : grants'[g].reserved = grants[g].reserved - hold[g]
  BY <1>1 DEF EndedAs
<1>3. HeldKeys' = HeldKeys \ {key} /\ key \in HeldKeys
  BY <1>2 DEF HeldKeys
<1>4. IsFiniteSet(HeldKeys) /\ IsFiniteSet(HeldKeys')
  BY <1>3, FS_RemoveElement DEF HoldsSound
<1>5. ASSUME NEW g \in DOMAIN grants
      PROVE  HeldOn(g)' = HeldOn(g) - (IF g \in DOMAIN hold THEN hold[g] ELSE 0)
  <2> DEFINE own == Holders(g)
             f == [k \in own |-> reservations[k].allocation[g]]
             h == [k \in Holders(g)' |-> reservations'[k].allocation[g]]
             rest == own \ {key}
  <2>1. HeldOn(g) = SumFunctionOnSet(f, own) /\ HeldOn(g)' = SumFunctionOnSet(h, Holders(g)')
    BY DEF HeldOn, SumFunction
  <2>2. IsFiniteSet(own) /\ IsFiniteSet(rest)
    BY <1>4, FS_Subset DEF Holders
  <2>3. \A k \in own : f[k] \in Nat
    BY DEF Holders, HeldKeys, IInv, TypeOK, IsReservation
  <2>4. Holders(g)' = rest
    BY <1>2, <1>3 DEF Holders, HeldKeys
  <2>5. \A k \in rest : h[k] = f[k]
    BY <1>2, <2>4 DEF Holders, HeldKeys
  <2>6. key \in own <=> g \in DOMAIN hold
    BY <1>3 DEF Holders
  <2>7. key \in own => f[key] = hold[g]
    OBVIOUS
  <2> HIDE DEF own, f, h, hold
  <2>8. SumFunctionOnSet(h, rest) = SumFunctionOnSet(f, rest)
    <3>1. \A k \in rest : f[k] \in Int /\ h[k] = f[k]
      BY <2>3, <2>5
    <3> HIDE DEF rest
    <3> QED
      BY <2>2, <3>1, SumSame
  <2>9. SumFunctionOnSet(f, own) \in Nat /\ SumFunctionOnSet(f, rest) \in Nat
    BY <2>2, <2>3, SumNat
  <2>10. CASE key \in own
    <3>1. SumFunctionOnSet(f, own) = f[key] + SumFunctionOnSet(f, rest)
      BY <2>2, <2>3, <2>10, SumRemove
    <3>2. f[key] \in Nat
      BY <2>3, <2>10
    <3> QED
      BY <2>1, <2>4, <2>6, <2>7, <2>8, <2>9, <2>10, <3>1, <3>2
  <2>11. CASE key \notin own
    <3>1. rest = own
      BY <2>11
    <3> QED
      BY <2>1, <2>4, <2>6, <2>8, <2>9, <2>11, <3>1
  <2> QED
    BY <2>10, <2>11
<1>6. ASSUME NEW g \in DOMAIN grants'
      PROVE  grants'[g].reserved = HeldOn(g)'
  <2>1. grants[g].reserved = HeldOn(g) /\ grants[g].reserved \in Nat /\ g \in DOMAIN grants
    BY <1>2, RowNumbers DEF HoldsSound
  <2> QED
    BY <1>2, <1>5, <2>1
<1>7. \A k \in ReserveKeys : reservations'[k].status = "absent" => reservations'[k].charged = 0
  BY <1>2 DEF HoldsSound
<1> QED
  BY <1>4, <1>6, <1>7 DEF HoldsSound

\* What every operation of the account itself does to grants: holds and charges stay, what
\* was granted and what lapsed only grow.
LifecycleMove ==
  /\ reservations' = reservations
  /\ DOMAIN grants \subseteq DOMAIN grants'
  /\ \A g \in DOMAIN grants :
       /\ grants'[g].reserved = grants[g].reserved /\ grants'[g].consumed = grants[g].consumed
       /\ grants'[g].granted >= grants[g].granted /\ grants'[g].expired >= grants[g].expired
  /\ \A g \in DOMAIN grants' \ DOMAIN grants : grants'[g].reserved = 0 /\ grants'[g].consumed = 0

\* Bringing the account up to an instant is such a move.
LEMMA EnsureMoves ==
  ASSUME IInv, NEW now \in Nat, CanEnsure(now)
  PROVE  LET gs == EnsuredGrants(now)
         IN /\ DOMAIN grants \subseteq DOMAIN gs
            /\ \A g \in DOMAIN grants :
                 /\ gs[g].reserved = grants[g].reserved /\ gs[g].consumed = grants[g].consumed
                 /\ gs[g].granted >= grants[g].granted /\ gs[g].expired >= grants[g].expired
            /\ \A g \in DOMAIN gs \ DOMAIN grants : gs[g].reserved = 0 /\ gs[g].consumed = 0
<1> DEFINE gs == EnsuredGrants(now)
<1>1. \A g \in DOMAIN gs \ DOMAIN grants : gs[g] = BaseGrant(now)
  BY EnsuredShape
<1>2. BaseGrant(now).reserved = 0 /\ BaseGrant(now).consumed = 0
  BY DEF BaseGrant, NewGrant
<1>3. /\ DOMAIN grants \subseteq DOMAIN gs
      /\ \A g \in DOMAIN grants :
           /\ gs[g].reserved = grants[g].reserved /\ gs[g].consumed = grants[g].consumed
           /\ gs[g].granted = grants[g].granted /\ gs[g].expired >= grants[g].expired
  BY EnsuredShape, EnsuredSound
<1>4. \A g \in DOMAIN grants : gs[g].granted >= grants[g].granted
  BY <1>3, RowNumbers
<1> HIDE DEF gs
<1> QED
  BY <1>1, <1>2, <1>3, <1>4 DEF gs

\* A plan change: an upgrade only adds to what is granted.
LEMMA ChangePlanMoves ==
  ASSUME IInv, NEW now \in Nat, NEW plan \in Plans, NEW key, ChangePlan(plan, key, now)
  PROVE  LifecycleMove
<1> DEFINE gs == EnsuredGrants(now)
<1>1. CanEnsure(now) /\ reservations' = reservations
  BY DEF ChangePlan
<1>2. /\ DOMAIN grants \subseteq DOMAIN gs
      /\ \A g \in DOMAIN grants :
           /\ gs[g].reserved = grants[g].reserved /\ gs[g].consumed = grants[g].consumed
           /\ gs[g].granted >= grants[g].granted /\ gs[g].expired >= grants[g].expired
      /\ \A g \in DOMAIN gs \ DOMAIN grants : gs[g].reserved = 0 /\ gs[g].consumed = 0
  BY <1>1, EnsureMoves
<1>3. CASE Schedule(plan, now)
  BY <1>1, <1>2, <1>3 DEF Schedule, LifecycleMove
<1>4. CASE Upgrade(plan, key, now)
  <2>1. /\ DOMAIN grants' = DOMAIN gs
        /\ \A g \in DOMAIN gs : /\ grants'[g].granted >= gs[g].granted
                               /\ grants'[g].consumed = gs[g].consumed
                               /\ grants'[g].expired = gs[g].expired
    BY <1>1, <1>4, UpgradeRows
  <2>2. \A g \in DOMAIN gs : grants'[g].reserved = gs[g].reserved
    <3>1. \A g \in DOMAIN gs : gs[g] \in Grant
      BY <1>1, EnsuredSound, ElementOfSeq DEF Sound
    <3> DEFINE base == CurrentBase(now)
               delta == Allowance[plan] - EnsuredCycle(now).allowance
    <3>2. grants' = [gs EXCEPT ![base].granted = @ + delta]
      BY <1>4 DEF Upgrade
    <3> HIDE DEF gs, base, delta
    <3> QED
      BY <3>1, <3>2 DEF Grant
  <2>3. \A g \in DOMAIN gs : gs[g].granted \in Nat /\ grants'[g].granted \in Nat
    <3>1. Sound(gs, now) /\ Sound(grants', now)
      BY <1>1, <1>4, EnsuredSound, UpgradeRows
    <3>2. \A g \in DOMAIN gs : gs[g] \in Grant /\ grants'[g] \in Grant
      BY <2>1, <3>1, ElementOfSeq DEF Sound
    <3> QED
      BY <3>2 DEF Grant
  <2>4. \A g \in DOMAIN grants : grants'[g].granted >= grants[g].granted
    BY <1>2, <2>1, <2>3, RowNumbers
  <2> HIDE DEF gs
  <2> QED
    BY <1>1, <1>2, <2>1, <2>2, <2>4 DEF LifecycleMove
<1> QED
  BY <1>3, <1>4 DEF ChangePlan

\* A bonus adds a row.
LEMMA GrantBonusMoves ==
  ASSUME IInv, NEW now \in Nat, NEW bonus \in BonusGrants, NEW key, GrantBonus(bonus, key, now)
  PROVE  LifecycleMove
<1> DEFINE gs == EnsuredGrants(now)
           new == NewGrant("bonus", None, now, bonus.expiresAt, bonus.amount)
<1>1. CanEnsure(now) /\ reservations' = reservations /\ grants' = Append(gs, new)
  BY DEF GrantBonus
<1>2. /\ DOMAIN grants \subseteq DOMAIN gs
      /\ \A g \in DOMAIN grants :
           /\ gs[g].reserved = grants[g].reserved /\ gs[g].consumed = grants[g].consumed
           /\ gs[g].granted >= grants[g].granted /\ gs[g].expired >= grants[g].expired
      /\ \A g \in DOMAIN gs \ DOMAIN grants : gs[g].reserved = 0 /\ gs[g].consumed = 0
  BY <1>1, EnsureMoves
<1>3. gs \in Seq(Grant)
  BY <1>1, EnsuredSound DEF Sound
<1>4. new \in Grant /\ new.reserved = 0 /\ new.consumed = 0
  BY BoundAssumption DEF NewGrant, Grant
<1> HIDE DEF gs, new
<1>5. /\ DOMAIN gs = 1..Len(gs) /\ Len(gs) \in Nat
      /\ Append(gs, new) \in Seq(Grant) /\ Len(Append(gs, new)) = Len(gs) + 1
      /\ \A g \in 1..Len(gs) : Append(gs, new)[g] = gs[g]
      /\ Append(gs, new)[Len(gs) + 1] = new
  BY <1>3, <1>4, AppendProperties, LenProperties
<1>6. DOMAIN grants' = DOMAIN gs \cup {Len(gs) + 1}
  BY <1>1, <1>5, LenProperties
<1>7. /\ \A g \in DOMAIN gs : grants'[g] = gs[g]
      /\ \A g \in DOMAIN grants' \ DOMAIN gs : grants'[g] = new
  BY <1>1, <1>5, <1>6
<1> QED
  BY <1>1, <1>2, <1>4, <1>6, <1>7 DEF LifecycleMove

-----------------------------------------------------------------------------
(* The invariant of rows, ledger and holds together *)

Whole == Books /\ HoldsSound

\* A user who has just signed up has no rows to disagree.
LEMMA InitWhole == Init => Whole
<1> SUFFICES ASSUME Init PROVE Whole
  OBVIOUS
<1>1. DOMAIN grants = {} /\ ledger = {} /\ account.plan = None /\ cycle.index = -1
      /\ grants = <<>>
  BY EmptySeq DEF Init
<1>2. AccountSound
  BY <1>1 DEF AccountSound, Fresh, BasesBehind
<1>3. LedgerSound
  BY <1>1, FS_EmptySet DEF LedgerSound, Booked, LedgerMatches
<1>4. HeldKeys = {}
  BY DEF Init, HeldKeys, Absent
<1>5. \A k \in ReserveKeys : reservations[k].charged = 0
  BY DEF Init, Absent
<1>6. HoldsSound
  BY <1>1, <1>4, <1>5, FS_EmptySet DEF HoldsSound
<1> QED
  BY <1>2, <1>3, <1>6, InitIInv DEF Whole, Books

\* The three kinds of steps there are.
LEMMA StepKinds ==
  ASSUME IInv, [Next]_vars
  PROVE  \/ LifecycleMove
         \/ \E now \in Nat, key \in ReserveKeys, items \in UnitsOver(1) : Reserve(key, items, now)
         \/ \E now \in Nat, key \in ReserveKeys, terminalKey \in TerminalKeys,
               usage \in UnitsOver(0), charge \in BOOLEAN :
              Terminal(key, terminalKey, usage, charge, now)
<1>0. \A now \in 0..clock : now \in Nat
  BY DEF IInv, TypeOK
<1>1. CASE UNCHANGED <<grants, reservations>>
  BY <1>1, RowNumbers DEF LifecycleMove
<1>2. ASSUME NEW now \in 0..clock, EnsureCycle(now)
      PROVE  LifecycleMove
  BY <1>0, <1>2, EnsureMoves DEF EnsureCycle, Ensure, LifecycleMove
<1>3. ASSUME NEW now \in 0..clock, NEW key \in CommandKeys, NEW plan \in Plans,
             ChangePlan(plan, key, now)
      PROVE  LifecycleMove
  BY <1>0, <1>3, ChangePlanMoves
<1>4. ASSUME NEW now \in 0..clock, NEW key \in CommandKeys, NEW bonus \in BonusGrants,
             GrantBonus(bonus, key, now)
      PROVE  LifecycleMove
  BY <1>0, <1>4, GrantBonusMoves
<1>5. "max" \in Plans
  BY DEF Plans
<1> QED
  BY <1>0, <1>1, <1>2, <1>3, <1>4, <1>5
     DEF Next, vars, Tick, Suspend, Reactivate, PlanChange, Promote, Settle, Release

\* Every operation keeps rows, ledger and holds in agreement.
LEMMA NextWhole ==
  ASSUME Whole, [Next]_vars
  PROVE  Whole'
<1>0. \A now \in 0..clock : now \in Nat
  BY DEF Whole, Books, IInv, TypeOK
<1>1. IInv'
  BY NextIInv DEF Whole, Books
<1>2. HoldsSound'
  <2>1. CASE LifecycleMove
    BY <2>1, LifecycleHolds DEF Whole, Books, LifecycleMove
  <2>2. ASSUME NEW now \in Nat, NEW key \in ReserveKeys, NEW items, Reserve(key, items, now)
        PROVE  HoldsSound'
    BY <2>2, ReserveHolds DEF Whole, Books
  <2>3. ASSUME NEW now \in Nat, NEW key \in ReserveKeys, NEW terminalKey, NEW usage,
               NEW charge \in BOOLEAN, Terminal(key, terminalKey, usage, charge, now)
        PROVE  HoldsSound'
    BY <2>3, TerminalHolds DEF Whole, Books
  <2> QED
    BY <2>1, <2>2, <2>3, StepKinds DEF Whole, Books
<1>3. CASE Tick \/ Suspend \/ Reactivate \/ UNCHANGED vars
  BY <1>1, <1>2, <1>3, IdleBooks DEF Whole, Tick, Suspend, Reactivate, vars
<1>4. ASSUME NEW now \in 0..clock, EnsureCycle(now)
      PROVE  Books'
  BY <1>0, <1>4, EnsureCycleBooks DEF Whole
<1>5. ASSUME NEW now \in 0..clock, NEW key \in CommandKeys, NEW plan \in Plans,
             PlanChange(plan, key, now)
      PROVE  Books'
  <2>1. /\ ChangePlan(plan, key, now) /\ role' \in {"user", "master"}
        /\ role' = "master" => plan = "max"
    BY <1>5 DEF PlanChange, ChangePlan, Whole, Books, IInv, TypeOK
  <2> QED
    BY <1>0, <2>1, ChangePlanBooks DEF Whole
<1>6. ASSUME NEW now \in 0..clock, NEW key \in CommandKeys, Promote(key, now)
      PROVE  Books'
  <2>1. "max" \in Plans /\ ChangePlan("max", key, now) /\ role' = "master"
    BY <1>6 DEF Promote, Plans
  <2> QED
    BY <1>0, <2>1, ChangePlanBooks DEF Whole
<1>7. ASSUME NEW now \in 0..clock, NEW key \in CommandKeys, NEW bonus \in BonusGrants,
             GrantBonus(bonus, key, now)
      PROVE  Books'
  BY <1>0, <1>7, GrantBonusBooks DEF Whole
<1>8. ASSUME NEW now \in 0..clock, NEW key \in ReserveKeys, NEW items \in UnitsOver(1),
             Reserve(key, items, now)
      PROVE  Books'
  BY <1>0, <1>1, <1>8, ReserveBooks DEF Whole
<1>9. ASSUME NEW now \in 0..clock, NEW key \in ReserveKeys, NEW terminalKey \in TerminalKeys,
             NEW usage \in UnitsOver(0),
             Settle(key, terminalKey, usage, now) \/ Release(key, terminalKey, usage, now)
      PROVE  Books'
  BY <1>0, <1>1, <1>9, TerminalBooks DEF Settle, Release, Whole
<1>10. Books'
  BY <1>2, <1>3, <1>4, <1>5, <1>6, <1>7, <1>8, <1>9 DEF Next, Whole
<1> QED
  BY <1>2, <1>10 DEF Whole

\* Rows, ledger and holds agree at all times.
LEMMA WholeInvariant == Spec => []Whole
<1>1. Whole /\ [Next]_vars => Whole'
  BY NextWhole
<1> QED
  BY InitWhole, <1>1, PTL DEF Spec

\* What a grant has reserved is what the open holds took from it.
THEOREM HoldsBack == Spec => []HoldsBackReserved
<1>1. Whole => HoldsBackReserved
  BY DEF Whole, HoldsSound, HeldOn, Holders, HoldsBackReserved
<1> QED
  BY WholeInvariant, <1>1, PTL

\* The checks the code makes of its own rows never refuse an account.
THEOREM NeverWedged == Spec => []AccountNeverWedged
<1>1. Whole => AccountNeverWedged
  BY CoherentIsChecked DEF Whole, Books, AccountSound, LedgerSound, Booked, AccountNeverWedged
<1> QED
  BY WholeInvariant, <1>1, PTL

\* No two ledger events ever share an operation key, a grant and a kind.
THEOREM KeysUnique == Spec => []LedgerKeysUnique
<1>1. Whole => LedgerKeysUnique
  BY DEF Whole, Books, LedgerSound, Booked, LedgerKeysUnique
<1> QED
  BY WholeInvariant, <1>1, PTL

\* A hold is only taken with a slot of the plan in force, and from grants that are alive.
THEOREM PlanRespected == Spec => HoldsRespectPlan
<1> DEFINE Respected ==
      \A k \in ReserveKeys :
        reservations[k].status = "absent" /\ reservations'[k].status = "held" =>
          /\ Cardinality(HeldKeys') <= MaxConcurrent[account'.plan]
          /\ \A g \in DOMAIN reservations'[k].allocation : ~Due(grants'[g], account'.updatedAt)
<1>1. ASSUME Whole, Whole', [Next]_vars
      PROVE  Respected
  <2>1. CASE LifecycleMove
    BY <2>1 DEF LifecycleMove
  <2>2. ASSUME NEW now \in Nat, NEW key \in ReserveKeys, NEW items, Reserve(key, items, now)
        PROVE  Respected
    <3> DEFINE gs == EnsuredGrants(now)
    <3>1. /\ CanEnsure(now) /\ Cardinality(HeldKeys) < MaxConcurrent[PlanAt(now)]
          /\ account' = EnsuredAccount(now)
      BY <2>2 DEF Reserve
    <3>2. account'.plan = PlanAt(now) /\ account'.updatedAt = now /\ PlanAt(now) \in Plans
      BY <1>1, <3>1, PlanInForce DEF EnsuredAccount, Whole, Books, IInv
    <3>3. PICK total, taken : HeldAs(key, now, total, taken)
      BY <1>1, <2>2, ReserveRows DEF Whole, Books
    <3>4. /\ reservations'[key].status = "held" /\ reservations[key].status = "absent"
          /\ reservations'[key].allocation = [g \in {h \in DOMAIN gs : taken[h] > 0} |-> taken[g]]
          /\ \A k \in ReserveKeys : k # key => reservations'[k] = reservations[k]
          /\ \A g \in DOMAIN gs : /\ taken[g] \in Nat /\ taken[g] <= Available(gs[g])
                                 /\ grants'[g].expiresAt = gs[g].expiresAt
      BY <3>3 DEF HeldAs
    <3>5. HeldKeys' = HeldKeys \cup {key} /\ key \notin HeldKeys
      BY <3>4 DEF HeldKeys
    <3>6. Cardinality(HeldKeys') <= MaxConcurrent[account'.plan]
      <4>1. Cardinality(HeldKeys') = Cardinality(HeldKeys) + 1 /\ Cardinality(HeldKeys) \in Nat
        BY <1>1, <3>5, FS_AddElement, FS_CardinalityType DEF Whole, HoldsSound
      <4>2. MaxConcurrent[PlanAt(now)] \in Nat
        BY <3>2, PolicyAssumption
      <4> QED
        BY <3>1, <3>2, <4>1, <4>2
    <3>7. \A g \in DOMAIN reservations'[key].allocation : ~Due(grants'[g], account'.updatedAt)
      <4>1. \A g \in DOMAIN gs : Due(gs[g], now) => Available(gs[g]) = 0
        BY <1>1, <3>1, EnsuredSound DEF Whole, Books, Sound
      <4>2. \A g \in DOMAIN gs : taken[g] > 0 => ~Due(gs[g], now)
        BY <3>4, <4>1
      <4> QED
        BY <3>2, <3>4, <4>2 DEF Due
    <3> QED
      BY <3>4, <3>6, <3>7
  <2>3. ASSUME NEW now \in Nat, NEW key \in ReserveKeys, NEW terminalKey, NEW usage,
               NEW charge \in BOOLEAN, Terminal(key, terminalKey, usage, charge, now)
        PROVE  Respected
    <3>1. PICK consumed, spent, back : EndedAs(key, charge, consumed, spent, back)
      BY <1>1, <2>3, TerminalRows DEF Whole, Books
    <3>2. /\ reservations[key].status = "held"
          /\ \A k \in ReserveKeys : k # key => reservations'[k] = reservations[k]
      BY <3>1 DEF EndedAs
    <3> QED
      BY <3>2
  <2> QED
    BY <1>1, <2>1, <2>2, <2>3, StepKinds DEF Whole, Books
<1>2. Whole /\ Whole' /\ [Next]_vars => [Respected]_vars
  BY <1>1
<1> QED
  BY WholeInvariant, <1>2, PTL DEF Spec, HoldsRespectPlan

-----------------------------------------------------------------------------
(* The pool of credits the grants implement *)

\* A column of the grants, and its total.
Values(gs, field) == [g \in DOMAIN gs |-> gs[g][field]]

ColumnTotal(gs, field) == SumFunction(Values(gs, field))

\* What is free in all grants.
FreeTotal(gs) == SumFunction([g \in DOMAIN gs |-> Available(gs[g])])

\* Rows that are sequences of grants within their balances.
Rows(gs) ==
  /\ gs \in Seq(Grant)
  /\ \A g \in DOMAIN gs : gs[g].reserved + gs[g].consumed + gs[g].expired <= gs[g].granted

\* Totals are naturals, and what is free is what is left of them.
LEMMA PoolOfGrants ==
  ASSUME NEW gs, Rows(gs)
  PROVE  /\ IsFiniteSet(DOMAIN gs)
         /\ ColumnTotal(gs, "granted") \in Nat /\ ColumnTotal(gs, "reserved") \in Nat
         /\ ColumnTotal(gs, "consumed") \in Nat /\ ColumnTotal(gs, "expired") \in Nat
         /\ FreeTotal(gs) \in Nat
         /\ FreeTotal(gs) = ColumnTotal(gs, "granted") - ColumnTotal(gs, "reserved")
                              - ColumnTotal(gs, "consumed") - ColumnTotal(gs, "expired")
<1> DEFINE S == DOMAIN gs
           G == Values(gs, "granted")
           R == Values(gs, "reserved")
           C == Values(gs, "consumed")
           E == Values(gs, "expired")
           A == [g \in S |-> Available(gs[g])]
           GR == [g \in S |-> G[g] - R[g]]
           GRC == [g \in S |-> GR[g] - C[g]]
<1>1. IsFiniteSet(S)
  BY LenProperties, FS_Interval DEF Rows
<1>2. \A g \in S : gs[g] \in Grant
  BY ElementOfSeq DEF Rows
<1>3. \A g \in S : G[g] \in Nat /\ R[g] \in Nat /\ C[g] \in Nat /\ E[g] \in Nat
  BY <1>2 DEF Grant, Values
<1>4. \A g \in S : A[g] = GRC[g] - E[g]
  BY DEF Available, Values
<1>5. \A g \in S : A[g] \in Nat
  <2> SUFFICES ASSUME NEW g \in S PROVE Available(gs[g]) \in Nat
    OBVIOUS
  <2>1. /\ gs[g].granted \in Nat /\ gs[g].reserved \in Nat
        /\ gs[g].consumed \in Nat /\ gs[g].expired \in Nat
    BY <1>2 DEF Grant
  <2>2. gs[g].reserved + gs[g].consumed + gs[g].expired <= gs[g].granted
    BY DEF Rows
  <2> QED
    BY <2>1, <2>2 DEF Available
<1>6. DOMAIN G = S /\ DOMAIN R = S /\ DOMAIN C = S /\ DOMAIN E = S /\ DOMAIN A = S
  BY DEF Values
<1>7. \A g \in S : GR[g] = G[g] - R[g] /\ GR[g] \in Int
  BY <1>3
<1>8. \A g \in S : GRC[g] = GR[g] - C[g] /\ GRC[g] \in Int
  BY <1>3, <1>7
<1> HIDE DEF S, G, R, C, E, A, GR, GRC
<1>9. SumFunctionOnSet(GR, S) = SumFunctionOnSet(G, S) - SumFunctionOnSet(R, S)
  <2>1. \A g \in S : G[g] \in Int /\ R[g] \in Int /\ GR[g] = G[g] - R[g]
    BY <1>3, <1>7
  <2> QED
    BY <1>1, <2>1, SumMinus
<1>10. SumFunctionOnSet(GRC, S) = SumFunctionOnSet(GR, S) - SumFunctionOnSet(C, S)
  <2>1. \A g \in S : GR[g] \in Int /\ C[g] \in Int /\ GRC[g] = GR[g] - C[g]
    BY <1>3, <1>7, <1>8
  <2> QED
    BY <1>1, <2>1, SumMinus
<1>11. SumFunctionOnSet(A, S) = SumFunctionOnSet(GRC, S) - SumFunctionOnSet(E, S)
  <2>1. \A g \in S : GRC[g] \in Int /\ E[g] \in Int /\ A[g] = GRC[g] - E[g]
    BY <1>3, <1>4, <1>8
  <2> QED
    BY <1>1, <2>1, SumMinus
<1>12. /\ SumFunctionOnSet(G, S) \in Nat /\ SumFunctionOnSet(R, S) \in Nat
       /\ SumFunctionOnSet(C, S) \in Nat /\ SumFunctionOnSet(E, S) \in Nat
       /\ SumFunctionOnSet(A, S) \in Nat
  BY <1>1, <1>3, <1>5, SumNat
<1>13. /\ ColumnTotal(gs, "granted") = SumFunctionOnSet(G, S)
       /\ ColumnTotal(gs, "reserved") = SumFunctionOnSet(R, S)
       /\ ColumnTotal(gs, "consumed") = SumFunctionOnSet(C, S)
       /\ ColumnTotal(gs, "expired") = SumFunctionOnSet(E, S)
  BY <1>6 DEF ColumnTotal, SumFunction, G, R, C, E
<1>14. FreeTotal(gs) = SumFunctionOnSet(A, S)
  BY <1>6 DEF FreeTotal, SumFunction, A, S
<1> QED
  BY <1>1, <1>9, <1>10, <1>11, <1>12, <1>13, <1>14 DEF S

\* Rows in the order and number they were, some of whose values are raised.
LEMMA TotalRaised ==
  ASSUME NEW gs, Rows(gs), NEW new, DOMAIN new = DOMAIN gs, NEW field,
         \A g \in DOMAIN gs : gs[g][field] \in Nat,
         NEW d, DOMAIN d \subseteq DOMAIN gs, \A g \in DOMAIN d : d[g] \in Nat,
         \A g \in DOMAIN d : new[g][field] = gs[g][field] + d[g],
         \A g \in DOMAIN gs \ DOMAIN d : new[g][field] = gs[g][field]
  PROVE  ColumnTotal(new, field) = ColumnTotal(gs, field) + SumFunction(d)
<1> DEFINE f == Values(gs, field)
           h == Values(new, field)
<1>1. DOMAIN f = DOMAIN gs /\ DOMAIN h = DOMAIN f /\ IsFiniteSet(DOMAIN f)
  BY PoolOfGrants DEF Values
<1>2. /\ \A g \in DOMAIN f : f[g] \in Int
      /\ \A g \in DOMAIN d : d[g] \in Int /\ h[g] = f[g] + d[g]
      /\ \A g \in DOMAIN f \ DOMAIN d : h[g] = f[g]
  BY DEF Values
<1> HIDE DEF f, h
<1>3. SumFunction(h) = SumFunction(f) + SumFunction(d)
  BY <1>1, <1>2, SumFunctionPlus
<1> QED
  BY <1>3 DEF ColumnTotal, f, h

\* A column whose values stay, with zeros for new rows.
LEMMA TotalKept ==
  ASSUME NEW gs, Rows(gs), NEW new, Rows(new), DOMAIN gs \subseteq DOMAIN new, NEW field,
         \A g \in DOMAIN gs : gs[g][field] \in Nat /\ new[g][field] = gs[g][field],
         \A g \in DOMAIN new \ DOMAIN gs : new[g][field] = 0
  PROVE  ColumnTotal(new, field) = ColumnTotal(gs, field)
<1> DEFINE f == Values(gs, field)
           h == Values(new, field)
<1>1. DOMAIN f = DOMAIN gs /\ DOMAIN h = DOMAIN new /\ IsFiniteSet(DOMAIN h)
  BY PoolOfGrants DEF Values
<1>2. /\ \A g \in DOMAIN f : f[g] \in Int /\ h[g] = f[g]
      /\ \A g \in DOMAIN h \ DOMAIN f : h[g] = 0
  BY DEF Values
<1> HIDE DEF f, h
<1>3. SumFunction(h) = SumFunction(f)
  BY <1>1, <1>2, SumFunctionExtend
<1> QED
  BY <1>3 DEF ColumnTotal, f, h

\* A column whose values only grow.
LEMMA TotalGrows ==
  ASSUME NEW gs, NEW new, Rows(new), DOMAIN gs \subseteq DOMAIN new, NEW field,
         \A g \in DOMAIN gs : gs[g][field] \in Nat /\ gs[g][field] <= new[g][field],
         \A g \in DOMAIN new : new[g][field] \in Nat
  PROVE  ColumnTotal(gs, field) <= ColumnTotal(new, field)
<1> DEFINE f == Values(gs, field)
           h == Values(new, field)
<1>1. DOMAIN f = DOMAIN gs /\ DOMAIN h = DOMAIN new /\ IsFiniteSet(DOMAIN h)
  BY PoolOfGrants DEF Values
<1>2. /\ \A g \in DOMAIN f : f[g] \in Nat /\ f[g] <= h[g]
      /\ \A g \in DOMAIN h : h[g] \in Nat
  BY DEF Values
<1> HIDE DEF f, h
<1>3. SumFunction(f) <= SumFunction(h)
  BY <1>1, <1>2, SumFunctionMonotone
<1> QED
  BY <1>3 DEF ColumnTotal, f, h

\* The promise's state, in the totals of the rows.
LEMMA PoolState ==
  /\ TotalOf("granted") = ColumnTotal(grants, "granted")
  /\ TotalOf("expired") = ColumnTotal(grants, "expired")
  /\ SumFunction([g \in DOMAIN grants |-> Available(grants[g])]) = FreeTotal(grants)
BY DEF TotalOf, ColumnTotal, Values, FreeTotal

\* And after a step.
LEMMA PoolStateNext ==
  /\ TotalOf("granted")' = ColumnTotal(grants', "granted")
  /\ TotalOf("expired")' = ColumnTotal(grants', "expired")
  /\ SumFunction([g \in DOMAIN grants |-> Available(grants[g])])' = FreeTotal(grants')
BY DEF TotalOf, ColumnTotal, Values, FreeTotal, Available

\* The values of a row, column by column.
LEMMA RowValues ==
  ASSUME NEW gs, Rows(gs), NEW g \in DOMAIN gs
  PROVE  /\ gs[g]["granted"] \in Nat /\ gs[g]["reserved"] \in Nat
         /\ gs[g]["consumed"] \in Nat /\ gs[g]["expired"] \in Nat
<1>1. gs[g] \in Grant
  BY ElementOfSeq DEF Rows
<1> QED
  BY <1>1 DEF Grant

\* An operation of the account itself moves credits in and lapses credits.
LEMMA LifecycleRefreshes ==
  ASSUME Rows(grants), Rows(grants'), LifecycleMove
  PROVE  Promise!Next
<1>1. /\ DOMAIN grants \subseteq DOMAIN grants' /\ reservations' = reservations
      /\ \A g \in DOMAIN grants :
           /\ grants'[g]["reserved"] = grants[g]["reserved"]
           /\ grants'[g]["consumed"] = grants[g]["consumed"]
           /\ grants[g]["granted"] <= grants'[g]["granted"]
           /\ grants[g]["expired"] <= grants'[g]["expired"]
      /\ \A g \in DOMAIN grants' \ DOMAIN grants :
           grants'[g]["reserved"] = 0 /\ grants'[g]["consumed"] = 0
  BY RowValues DEF LifecycleMove
<1>2. ColumnTotal(grants', "reserved") = ColumnTotal(grants, "reserved")
  BY <1>1, RowValues, TotalKept
<1>3. ColumnTotal(grants', "consumed") = ColumnTotal(grants, "consumed")
  BY <1>1, RowValues, TotalKept
<1>4. ColumnTotal(grants, "granted") <= ColumnTotal(grants', "granted")
  BY <1>1, RowValues, TotalGrows
<1>5. ColumnTotal(grants, "expired") <= ColumnTotal(grants', "expired")
  BY <1>1, RowValues, TotalGrows
<1> DEFINE G == ColumnTotal(grants, "granted")   G2 == ColumnTotal(grants', "granted")
           R == ColumnTotal(grants, "reserved")  R2 == ColumnTotal(grants', "reserved")
           C == ColumnTotal(grants, "consumed")  C2 == ColumnTotal(grants', "consumed")
           E == ColumnTotal(grants, "expired")   E2 == ColumnTotal(grants', "expired")
           F == FreeTotal(grants)                F2 == FreeTotal(grants')
<1>6. /\ G \in Nat /\ R \in Nat /\ C \in Nat /\ E \in Nat /\ F \in Nat /\ F = G - R - C - E
      /\ G2 \in Nat /\ R2 \in Nat /\ C2 \in Nat /\ E2 \in Nat /\ F2 \in Nat
      /\ F2 = G2 - R2 - C2 - E2
  BY PoolOfGrants
<1>7. R2 = R /\ C2 = C /\ G <= G2 /\ E <= E2
  BY <1>2, <1>3, <1>4, <1>5
<1> HIDE DEF G, G2, R, R2, C, C2, E, E2, F, F2
<1>8. G2 >= G /\ E2 >= E /\ F2 = F + ((G2 - G) - (E2 - E)) /\ F2 >= 0
  BY <1>6, <1>7
<1>9. /\ TotalOf("granted")' = G2 /\ TotalOf("granted") = G
      /\ TotalOf("expired")' = E2 /\ TotalOf("expired") = E
      /\ SumFunction([g \in DOMAIN grants |-> Available(grants[g])])' = F2
      /\ SumFunction([g \in DOMAIN grants |-> Available(grants[g])]) = F
  BY PoolState, PoolStateNext DEF G, G2, E, E2, F, F2
<1>10. Promise!Refresh
  BY <1>1, <1>8, <1>9 DEF Promise!Refresh, Promise!Moved
<1> QED
  BY <1>8, <1>9, <1>10 DEF Promise!Next

\* Taking a hold is the promise's Hold: the account is refreshed, and the price leaves the pool.
LEMMA ReserveHoldsPool ==
  ASSUME IInv, HoldsSound, Rows(grants), Rows(grants'), NEW now \in Nat, NEW key \in ReserveKeys, NEW items,
         Reserve(key, items, now)
  PROVE  Promise!Next
<1> DEFINE gs == EnsuredGrants(now)
<1>1. PICK total, taken : HeldAs(key, now, total, taken)
  BY ReserveRows
<1>2. CanEnsure(now)
  BY DEF Reserve
<1>3. Rows(gs)
  BY <1>2, EnsuredSound DEF Sound, Rows
<1>4. /\ total \in Nat \ {0} /\ SumFunction(taken) = total /\ DOMAIN taken = DOMAIN gs
      /\ \A g \in DOMAIN gs : taken[g] \in Nat
      /\ reservations[key].status = "absent"
      /\ reservations'[key].status = "held" /\ reservations'[key].reserved = total
      /\ reservations'[key].charged = 0
      /\ DOMAIN reservations' = ReserveKeys
      /\ \A k \in ReserveKeys : k # key => reservations'[k] = reservations[k]
      /\ DOMAIN grants' = DOMAIN gs
      /\ \A g \in DOMAIN gs :
           /\ grants'[g]["granted"] = gs[g]["granted"]
           /\ grants'[g]["reserved"] = gs[g]["reserved"] + taken[g]
           /\ grants'[g]["consumed"] = gs[g]["consumed"] /\ grants'[g]["expired"] = gs[g]["expired"]
  BY <1>1 DEF HeldAs
<1>5. /\ DOMAIN grants \subseteq DOMAIN gs
      /\ \A g \in DOMAIN grants :
           /\ gs[g]["reserved"] = grants[g]["reserved"] /\ gs[g]["consumed"] = grants[g]["consumed"]
           /\ gs[g].granted >= grants[g].granted /\ gs[g].expired >= grants[g].expired
      /\ \A g \in DOMAIN gs \ DOMAIN grants : gs[g]["reserved"] = 0 /\ gs[g]["consumed"] = 0
  BY <1>2, EnsureMoves
<1> HIDE DEF gs
<1>6. \A g \in DOMAIN grants : grants[g]["granted"] <= gs[g]["granted"] /\ grants[g]["expired"] <= gs[g]["expired"]
  BY <1>3, <1>5, RowValues
<1>7. /\ ColumnTotal(gs, "reserved") = ColumnTotal(grants, "reserved")
      /\ ColumnTotal(gs, "consumed") = ColumnTotal(grants, "consumed")
  BY <1>3, <1>5, RowValues, TotalKept
<1>8. /\ ColumnTotal(grants, "granted") <= ColumnTotal(gs, "granted")
      /\ ColumnTotal(grants, "expired") <= ColumnTotal(gs, "expired")
  BY <1>3, <1>5, <1>6, RowValues, TotalGrows
<1>9. /\ ColumnTotal(grants', "granted") = ColumnTotal(gs, "granted")
      /\ ColumnTotal(grants', "consumed") = ColumnTotal(gs, "consumed")
      /\ ColumnTotal(grants', "expired") = ColumnTotal(gs, "expired")
  <2>1. DOMAIN gs \subseteq DOMAIN grants' /\ DOMAIN grants' \ DOMAIN gs = {}
    BY <1>4
  <2> QED
    BY <1>3, <1>4, <2>1, RowValues, TotalKept
<1>10. ColumnTotal(grants', "reserved") = ColumnTotal(gs, "reserved") + total
  <2>1. /\ \A g \in DOMAIN gs : gs[g]["reserved"] \in Nat
        /\ DOMAIN taken \subseteq DOMAIN gs /\ \A g \in DOMAIN taken : taken[g] \in Nat
        /\ \A g \in DOMAIN taken : grants'[g]["reserved"] = gs[g]["reserved"] + taken[g]
        /\ \A g \in DOMAIN gs \ DOMAIN taken : grants'[g]["reserved"] = gs[g]["reserved"]
    BY <1>3, <1>4, RowValues
  <2>2. ColumnTotal(grants', "reserved") = ColumnTotal(gs, "reserved") + SumFunction(taken)
    BY <1>3, <1>4, <2>1, TotalRaised
  <2> QED
    BY <1>4, <2>2
<1> DEFINE G == ColumnTotal(grants, "granted")   G2 == ColumnTotal(grants', "granted")
           R == ColumnTotal(grants, "reserved")  R2 == ColumnTotal(grants', "reserved")
           C == ColumnTotal(grants, "consumed")  C2 == ColumnTotal(grants', "consumed")
           E == ColumnTotal(grants, "expired")   E2 == ColumnTotal(grants', "expired")
           F == FreeTotal(grants)                F2 == FreeTotal(grants')
<1>11. /\ G \in Nat /\ R \in Nat /\ C \in Nat /\ E \in Nat /\ F \in Nat /\ F = G - R - C - E
       /\ G2 \in Nat /\ R2 \in Nat /\ C2 \in Nat /\ E2 \in Nat /\ F2 \in Nat
       /\ F2 = G2 - R2 - C2 - E2
  BY PoolOfGrants
<1>12. R2 = R + total /\ C2 = C /\ G <= G2 /\ E <= E2
  BY <1>7, <1>8, <1>9, <1>10
<1> HIDE DEF G, G2, R, R2, C, C2, E, E2, F, F2
<1>13. G2 >= G /\ E2 >= E /\ F2 = F + ((G2 - G) - (E2 - E)) - total /\ F2 >= 0
  BY <1>4, <1>11, <1>12
<1>14. /\ TotalOf("granted")' = G2 /\ TotalOf("granted") = G
       /\ TotalOf("expired")' = E2 /\ TotalOf("expired") = E
       /\ SumFunction([g \in DOMAIN grants |-> Available(grants[g])])' = F2
       /\ SumFunction([g \in DOMAIN grants |-> Available(grants[g])]) = F
  BY PoolState, PoolStateNext DEF G, G2, E, E2, F, F2
<1> DEFINE state == [k \in ReserveKeys |-> reservations[k].status]
           hold == [k \in ReserveKeys |->
                      IF reservations[k].status = "held" THEN reservations[k].reserved ELSE 0]
           charged == [k \in ReserveKeys |-> reservations[k].charged]
<1>15. /\ state[key] = "absent" /\ state' = [state EXCEPT ![key] = "held"]
       /\ hold' = [hold EXCEPT ![key] = total] /\ hold'[key] = total
  BY <1>4
<1>16. charged' = charged
  <2>1. reservations[key].charged = 0
    BY <1>4 DEF HoldsSound
  <2> QED
    BY <1>4, <2>1
<1>17. Promise!Moved = (G2 - G) - (E2 - E)
  BY <1>14 DEF Promise!Moved
<1>18. reservations[key].status = "absent"
  BY <1>4
<1>19. Promise!Hold(key)
  <2>1. state[key] = "absent"
    BY <1>15
  <2>2. TotalOf("granted")' >= TotalOf("granted") /\ TotalOf("expired")' >= TotalOf("expired")
    BY <1>13, <1>14
  <2>3. hold' = [hold EXCEPT ![key] = hold'[key]] /\ hold'[key] > 0
    <3>1. hold' = [hold EXCEPT ![key] = total] /\ hold'[key] = total /\ total > 0
      BY <1>4, <1>15
    <3> HIDE DEF hold
    <3> QED
      BY <3>1
  <2>4. SumFunction([g \in DOMAIN grants |-> Available(grants[g])])'
          = SumFunction([g \in DOMAIN grants |-> Available(grants[g])]) + Promise!Moved - hold'[key]
    BY <1>13, <1>14, <1>15, <1>17
  <2> QED
    BY <2>1, <2>2, <2>3, <2>4, <1>15, <1>16 DEF Promise!Hold
<1> QED
  BY <1>13, <1>14, <1>19 DEF Promise!Next

\* The credits of an ended hold: what lapses with it is at most what it did not spend.
LEMMA EndedCredits ==
  ASSUME NEW hold, NEW spent, NEW back, IsFiniteSet(DOMAIN hold),
         DOMAIN spent = DOMAIN hold, DOMAIN back = DOMAIN hold,
         \A g \in DOMAIN hold :
           /\ hold[g] \in Nat /\ spent[g] \in Nat /\ spent[g] <= hold[g]
           /\ back[g] \in Nat /\ back[g] <= hold[g] - spent[g]
  PROVE  /\ SumFunction(back) \in Nat
         /\ SumFunction(back) <= SumFunction(hold) - SumFunction(spent)
<1> DEFINE S == DOMAIN hold
           rest == [g \in S |-> hold[g] - spent[g]]
<1>1. \A g \in S : /\ hold[g] \in Int /\ spent[g] \in Int /\ rest[g] = hold[g] - spent[g]
                   /\ rest[g] \in Int /\ back[g] \in Int /\ back[g] <= rest[g]
  OBVIOUS
<1> HIDE DEF S, rest
<1>2. IsFiniteSet(S) /\ DOMAIN spent = S /\ DOMAIN back = S /\ DOMAIN hold = S
  BY DEF S
<1>3. SumFunctionOnSet(rest, S) = SumFunctionOnSet(hold, S) - SumFunctionOnSet(spent, S)
  BY <1>1, <1>2, SumMinus
<1>4. SumFunctionOnSet(back, S) <= SumFunctionOnSet(rest, S)
  BY <1>1, <1>2, SumMonotone
<1>5. SumFunction(back) \in Nat
  BY <1>2, SumFunctionNat
<1> QED
  BY <1>2, <1>3, <1>4, <1>5 DEF SumFunction

\* Ending a hold is the promise's Finish: once, for at most its price, and what
\* it gives back returns to the pool except for what lapses.
LEMMA TerminalFinishes ==
  ASSUME IInv, Rows(grants), Rows(grants'), NEW now \in Nat, NEW key \in ReserveKeys,
         NEW terminalKey, NEW usage, NEW charge \in BOOLEAN,
         Terminal(key, terminalKey, usage, charge, now)
  PROVE  Promise!Next
<1>1. PICK consumed, spent, back : EndedAs(key, charge, consumed, spent, back)
  BY TerminalRows
<1> DEFINE held == reservations[key].allocation
           H == reservations[key].reserved
           S == SumFunction(spent)
           B == SumFunction(back)
<1>2. /\ reservations[key].status = "held" /\ SumFunction(held) = H /\ S = consumed
      /\ consumed \in 0..H
      /\ DOMAIN held \subseteq DOMAIN grants
      /\ DOMAIN spent = DOMAIN held /\ DOMAIN back = DOMAIN held
      /\ \A g \in DOMAIN held :
           /\ held[g] \in Nat /\ held[g] <= grants[g].reserved
           /\ spent[g] \in Nat /\ spent[g] <= held[g]
           /\ back[g] \in Nat /\ back[g] <= held[g] - spent[g]
      /\ charge <=> consumed > 0
      /\ reservations'[key].status = IF charge THEN "settled" ELSE "released"
      /\ reservations'[key].charged = consumed
      /\ DOMAIN reservations' = ReserveKeys
      /\ \A k \in ReserveKeys : k # key => reservations'[k] = reservations[k]
      /\ DOMAIN grants' = DOMAIN grants
  BY <1>1 DEF EndedAs
<1>3. /\ \A g \in DOMAIN grants \ DOMAIN held : grants'[g] = grants[g]
      /\ \A g \in DOMAIN held :
           /\ grants'[g]["granted"] = grants[g]["granted"]
           /\ grants'[g]["reserved"] = grants[g]["reserved"] - held[g]
           /\ grants'[g]["consumed"] = grants[g]["consumed"] + spent[g]
           /\ grants'[g]["expired"] = grants[g]["expired"] + back[g]
  BY <1>1 DEF EndedAs
<1>4. H \in Nat /\ DOMAIN reservations = ReserveKeys
  BY DEF IInv, TypeOK, IsReservation
<1>5. IsFiniteSet(DOMAIN grants) /\ IsFiniteSet(DOMAIN held)
  BY <1>2, PoolOfGrants, FS_Subset
<1> HIDE DEF held
<1>6. B \in Nat /\ B <= H - S /\ S \in Nat /\ S <= H
  <2>1. B \in Nat /\ B <= SumFunction(held) - S
    BY <1>2, <1>5, EndedCredits
  <2> HIDE DEF B, S, H
  <2> QED
    BY <1>2, <1>4, <2>1
<1>7. ColumnTotal(grants', "granted") = ColumnTotal(grants, "granted")
  <2>1. /\ \A g \in DOMAIN grants : grants[g]["granted"] \in Nat /\ grants'[g]["granted"] = grants[g]["granted"]
        /\ DOMAIN grants \subseteq DOMAIN grants' /\ DOMAIN grants' \ DOMAIN grants = {}
    BY <1>2, <1>3, RowValues
  <2> QED
    BY <2>1, TotalKept
<1>8. ColumnTotal(grants, "reserved") = ColumnTotal(grants', "reserved") + H
  <2>1. /\ \A g \in DOMAIN grants' : grants'[g]["reserved"] \in Nat
        /\ \A g \in DOMAIN grants : grants[g]["reserved"] \in Nat
    BY RowValues
  <2>2. /\ DOMAIN grants = DOMAIN grants'
        /\ DOMAIN held \subseteq DOMAIN grants' /\ \A g \in DOMAIN held : held[g] \in Nat
        /\ \A g \in DOMAIN held : grants[g]["reserved"] = grants'[g]["reserved"] + held[g]
        /\ \A g \in DOMAIN grants' \ DOMAIN held : grants[g]["reserved"] = grants'[g]["reserved"]
    BY <1>2, <1>3, <2>1
  <2>3. ColumnTotal(grants, "reserved") = ColumnTotal(grants', "reserved") + SumFunction(held)
    BY <2>1, <2>2, TotalRaised
  <2> QED
    BY <1>2, <2>3
<1>9. ColumnTotal(grants', "consumed") = ColumnTotal(grants, "consumed") + S
  <2>1. \A g \in DOMAIN grants : grants[g]["consumed"] \in Nat
    BY RowValues
  <2>2. /\ DOMAIN spent \subseteq DOMAIN grants /\ \A g \in DOMAIN spent : spent[g] \in Nat
        /\ \A g \in DOMAIN spent : grants'[g]["consumed"] = grants[g]["consumed"] + spent[g]
        /\ \A g \in DOMAIN grants \ DOMAIN spent : grants'[g]["consumed"] = grants[g]["consumed"]
    BY <1>2, <1>3
  <2> QED
    BY <1>2, <2>1, <2>2, TotalRaised
<1>10. ColumnTotal(grants', "expired") = ColumnTotal(grants, "expired") + B
  <2>1. \A g \in DOMAIN grants : grants[g]["expired"] \in Nat
    BY RowValues
  <2>2. /\ DOMAIN back \subseteq DOMAIN grants /\ \A g \in DOMAIN back : back[g] \in Nat
        /\ \A g \in DOMAIN back : grants'[g]["expired"] = grants[g]["expired"] + back[g]
        /\ \A g \in DOMAIN grants \ DOMAIN back : grants'[g]["expired"] = grants[g]["expired"]
    BY <1>2, <1>3
  <2> QED
    BY <1>2, <2>1, <2>2, TotalRaised
<1> DEFINE G == ColumnTotal(grants, "granted")   G2 == ColumnTotal(grants', "granted")
           R == ColumnTotal(grants, "reserved")  R2 == ColumnTotal(grants', "reserved")
           C == ColumnTotal(grants, "consumed")  C2 == ColumnTotal(grants', "consumed")
           E == ColumnTotal(grants, "expired")   E2 == ColumnTotal(grants', "expired")
           F == FreeTotal(grants)                F2 == FreeTotal(grants')
<1>11. /\ G \in Nat /\ R \in Nat /\ C \in Nat /\ E \in Nat /\ F \in Nat /\ F = G - R - C - E
       /\ G2 \in Nat /\ R2 \in Nat /\ C2 \in Nat /\ E2 \in Nat /\ F2 \in Nat
       /\ F2 = G2 - R2 - C2 - E2
  BY PoolOfGrants
<1>12. G2 = G /\ R = R2 + H /\ C2 = C + S /\ E2 = E + B
  BY <1>7, <1>8, <1>9, <1>10
<1> HIDE DEF G, G2, R, R2, C, C2, E, E2, F, F2, H, S, B
<1>13. /\ E2 - E \in 0..(H - S) /\ F2 = F + H - S + ((G2 - G) - (E2 - E)) /\ F2 >= 0
       /\ S \in 0..H /\ G2 = G
  BY <1>4, <1>6, <1>11, <1>12
<1>14. /\ TotalOf("granted")' = G2 /\ TotalOf("granted") = G
       /\ TotalOf("expired")' = E2 /\ TotalOf("expired") = E
       /\ SumFunction([g \in DOMAIN grants |-> Available(grants[g])])' = F2
       /\ SumFunction([g \in DOMAIN grants |-> Available(grants[g])]) = F
  BY PoolState, PoolStateNext DEF G, G2, E, E2, F, F2
<1> DEFINE state == [k \in ReserveKeys |-> reservations[k].status]
           hold == [k \in ReserveKeys |->
                      IF reservations[k].status = "held" THEN reservations[k].reserved ELSE 0]
           charged == [k \in ReserveKeys |-> reservations[k].charged]
<1>15. /\ state[key] = "held" /\ state' = [state EXCEPT ![key] = IF S > 0 THEN "settled" ELSE "released"]
       /\ hold[key] = H /\ hold' = [hold EXCEPT ![key] = 0]
       /\ charged' = [charged EXCEPT ![key] = S] /\ charged'[key] = S
  <2>1. reservations'[key].status = (IF S > 0 THEN "settled" ELSE "released") /\ reservations'[key].charged = S
    BY <1>2
  <2> QED
    BY <1>2, <2>1 DEF H
<1>16. Promise!Moved = (G2 - G) - (E2 - E)
  BY <1>14 DEF Promise!Moved
<1>17. Promise!Finish(key)
  <2>1. state[key] = "held"
    BY <1>15
  <2>2. TotalOf("granted")' = TotalOf("granted")
    BY <1>13, <1>14
  <2>3. /\ charged' = [charged EXCEPT ![key] = charged'[key]] /\ charged'[key] \in 0..hold[key]
        /\ state' = [state EXCEPT ![key] = IF charged'[key] > 0 THEN "settled" ELSE "released"]
        /\ hold' = [hold EXCEPT ![key] = 0]
        /\ TotalOf("expired")' - TotalOf("expired") \in 0..(hold[key] - charged'[key])
    <3> HIDE DEF hold, charged, state
    <3> QED
      BY <1>13, <1>14, <1>15
  <2>4. SumFunction([g \in DOMAIN grants |-> Available(grants[g])])'
          = SumFunction([g \in DOMAIN grants |-> Available(grants[g])]) + hold[key] - charged'[key]
              + Promise!Moved
    BY <1>13, <1>14, <1>15, <1>16
  <2> QED
    BY <2>1, <2>2, <2>3, <2>4 DEF Promise!Finish
<1> QED
  BY <1>13, <1>14, <1>17 DEF Promise!Next

\* Before anything happened there is nothing in the pool.
LEMMA InitPromises == Init => Promise!Init
<1> SUFFICES ASSUME Init PROVE Promise!Init
  OBVIOUS
<1>1. grants = <<>> /\ DOMAIN grants = {}
  BY EmptySeq DEF Init
<1>2. \A f : DOMAIN f = {} => SumFunction(f) = 0
  BY SumEmpty DEF SumFunction
<1>3. TotalOf("granted") = 0 /\ TotalOf("expired") = 0
  BY <1>1, <1>2 DEF TotalOf
<1>4. SumFunction([g \in DOMAIN grants |-> Available(grants[g])]) = 0
  BY <1>1, <1>2
<1>5. /\ [k \in ReserveKeys |-> reservations[k].status] = [k \in ReserveKeys |-> "absent"]
      /\ [k \in ReserveKeys |-> IF reservations[k].status = "held" THEN reservations[k].reserved ELSE 0]
           = [k \in ReserveKeys |-> 0]
      /\ [k \in ReserveKeys |-> reservations[k].charged] = [k \in ReserveKeys |-> 0]
  BY DEF Init, Absent
<1> QED
  BY <1>3, <1>4, <1>5 DEF Promise!Init

\* Grants, cycles, plans, lapses and the greedy split implement one pool of credits,
\* which a request is charged at most its price from and which is never overdrawn.
THEOREM KeepsThePromise == Spec => ImplementsPromise
<1>1. Init => Promise!Init
  BY InitPromises
<1>2. ASSUME Whole, Whole', [Next]_vars
      PROVE  Promise!Next
  <2>1. Rows(grants) /\ Rows(grants')
    BY <1>2 DEF Whole, Books, IInv, Sound, Rows
  <2>2. CASE LifecycleMove
    BY <2>1, <2>2, LifecycleRefreshes
  <2>3. ASSUME NEW now \in Nat, NEW key \in ReserveKeys, NEW items, Reserve(key, items, now)
        PROVE  Promise!Next
    BY <1>2, <2>1, <2>3, ReserveHoldsPool DEF Whole, Books
  <2>4. ASSUME NEW now \in Nat, NEW key \in ReserveKeys, NEW terminalKey, NEW usage,
               NEW charge \in BOOLEAN, Terminal(key, terminalKey, usage, charge, now)
        PROVE  Promise!Next
    BY <1>2, <2>1, <2>4, TerminalFinishes DEF Whole, Books
  <2> QED
    BY <1>2, <2>2, <2>3, <2>4, StepKinds DEF Whole, Books
<1> QED
  BY WholeInvariant, <1>1, <1>2, PTL DEF Spec, ImplementsPromise, Promise!Spec

=============================================================================
