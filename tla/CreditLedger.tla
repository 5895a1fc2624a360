---------------------------- MODULE CreditLedger ----------------------------
(***************************************************************************)
(* The credit account of one user: plan, 30-day cycles, grants, holds and  *)
(* the ledger.  Every operation locks the user row first, so the           *)
(* operations of one user are serial and those of two users are            *)
(* independent: one user is enough.  What is not serial is time: a caller  *)
(* samples `now` before it waits for the lock, so an operation may run     *)
(* with any instant up to the present.                                     *)
(*                                                                         *)
(* An operation that raises rolls its savepoint back; an operation that    *)
(* finds its own earlier receipt (a replay) returns it.  Neither changes   *)
(* the state, so both are stuttering steps and show up here as guards.     *)
(***************************************************************************)
EXTENDS Integers, FiniteSets, Sequences, Functions

CONSTANTS
  Meters,         \* what usage is counted in (image, video ms, token...)
  Rate,           \* price of one unit of a meter
  PlanMeters,     \* meters a plan may use
  Allowance,      \* credits a plan grants per cycle
  MaxConcurrent,  \* holds a plan may have at once
  CycleLength,    \* length of a cycle in instants
  MaxAmount,      \* 2^63 - 1 in the code
  ReserveKeys,    \* operation keys of reservations
  TerminalKeys,   \* operation keys of settlements and releases
  CommandKeys,    \* operation keys of plan changes and bonuses
  BonusGrants,    \* [amount, expiresAt] a bonus may have
  MaxUnits,       \* bound: units of one meter in a request
  MaxTime,        \* bound: last instant
  None            \* SQL NULL

Plans == {"free", "pro", "max"}
Rank == [p \in Plans |-> CASE p = "free" -> 0 [] p = "pro" -> 1 [] p = "max" -> 2]

ASSUME NoneAssumption == None \notin Nat /\ None \notin Plans /\ None \notin TerminalKeys
ASSUME PolicyAssumption ==
  /\ Rate \in [Meters -> Nat \ {0}]
  /\ PlanMeters \in [Plans -> SUBSET Meters]
  /\ Allowance \in [Plans -> Nat]
  /\ MaxConcurrent \in [Plans -> Nat]
ASSUME BoundAssumption ==
  /\ CycleLength \in Nat \ {0}
  /\ MaxAmount \in Nat
  /\ MaxUnits \in Nat
  /\ MaxTime \in Nat
  /\ BonusGrants \subseteq [amount : Nat \ {0}, expiresAt : Nat \cup {None}]

VARIABLES
  clock,         \* wall clock; the user signed up at 0
  role,          \* users.role
  status,        \* users.status
  account,       \* credit_accounts row; plan None while there is no row
  cycle,         \* latest credit_cycles row; index -1 while there is none
  grants,        \* credit_grants rows in creation order
  ledger,        \* credit_ledger_events rows
  reservations,  \* credit_reservations with items, allocations and usage
  operations     \* command keys with a credit_operations row

vars == <<clock, role, status, account, cycle, grants, ledger, reservations, operations>>

-----------------------------------------------------------------------------
(* Rows *)

Grant == [kind : {"base", "bonus"}, cycle : Nat \cup {None}, createdAt : Nat,
          expiresAt : Nat \cup {None}, granted : Nat, reserved : Nat,
          consumed : Nat, expired : Nat]

NewGrant(kind, index, now, expiresAt, amount) ==
  [kind |-> kind, cycle |-> index, createdAt |-> now, expiresAt |-> expiresAt,
   granted |-> amount, reserved |-> 0, consumed |-> 0, expired |-> 0]

\* Mutant: a hold does not count against the balance.
AvailableIgnoringHolds(g) == g.granted - g.consumed - g.expired

Available(g) == g.granted - g.reserved - g.consumed - g.expired

Due(g, now) == g.expiresAt # None /\ g.expiresAt <= now

Event(kind, key, grant, dGranted, dReserved, dConsumed, dExpired) ==
  [kind |-> kind, key |-> key, grant |-> grant, granted |-> dGranted,
   reserved |-> dReserved, consumed |-> dConsumed, expired |-> dExpired]

Absent == [status |-> "absent", items |-> <<>>, reserved |-> 0, allocation |-> <<>>,
           createdAt |-> 0, terminalKey |-> None, charged |-> 0]

HeldKeys == {k \in ReserveKeys : reservations[k].status = "held"}

Quote(units) == SumFunction([m \in DOMAIN units |-> units[m] * Rate[m]])

UnitsOver(low) == UNION {[ms -> low..MaxUnits] : ms \in SUBSET Meters}

-----------------------------------------------------------------------------
(* Coherence checks the code makes before it trusts the rows *)

\* _ledger_coherent: the projection columns of a grant are what its events add up to.
LedgerMatches(gs, events) ==
  \A g \in DOMAIN gs :
    LET own == {e \in events : e.grant = g}
        Total(field) == SumFunction([e \in own |-> e[field]])
    IN /\ Total("granted") = gs[g].granted
       /\ Total("reserved") = gs[g].reserved
       /\ Total("consumed") = gs[g].consumed
       /\ Total("expired") = gs[g].expired
       /\ gs[g].reserved + gs[g].consumed + gs[g].expired <= gs[g].granted

BasesOf(index) == {g \in DOMAIN grants : grants[g].kind = "base" /\ grants[g].cycle = index}

\* _coherent: the account, its latest cycle and that cycle's only base grant agree.
AccountCoherent ==
  /\ account.plan \in Plans
  /\ account.pending # None => Rank[account.pending] < Rank[account.plan]
  /\ role = "master" => account.plan = "max" /\ account.pending = None
  /\ cycle.plan = account.plan
  /\ cycle.allowance = Allowance[account.plan]
  /\ \E g \in DOMAIN grants :
       /\ BasesOf(cycle.index) = {g}
       /\ grants[g].expiresAt = (cycle.index + 1) * CycleLength
       /\ grants[g].granted = cycle.allowance

\* _capacity: what is still outstanding, with the increment, fits a BIGINT.
WithinCapacity(gs, increment) ==
  LET outstanding == SumFunction([g \in DOMAIN gs |-> gs[g].granted - gs[g].consumed - gs[g].expired])
  IN outstanding >= 0 /\ increment >= 0 /\ outstanding + increment <= MaxAmount

-----------------------------------------------------------------------------
(* _ensure: lapse what is due, open the cycle of `now`. *)

\* Mutant: the first cycle is number -1.
CycleIndexOffByOne(now) == (now \div CycleLength) - 1

CycleIndex(now) == now \div CycleLength

Opens(now) == account.plan = None \/ cycle.index < CycleIndex(now)

PlanAt(now) ==
  IF account.plan = None THEN (IF role = "master" THEN "max" ELSE "free")
  ELSE IF Opens(now) /\ account.pending # None THEN account.pending
  ELSE account.plan

\* Mutants: a grant lives one instant too long; a lapsed grant lapses again.
LapsingLate(now) ==
  {g \in DOMAIN grants : grants[g].expiresAt # None /\ grants[g].expiresAt < now
                          /\ Available(grants[g]) > 0}
LapsingAgain(now) == {g \in DOMAIN grants : Due(grants[g], now)}

Lapsing(now) == {g \in DOMAIN grants : Due(grants[g], now) /\ Available(grants[g]) > 0}

\* Mutant: what is on hold lapses too.
LapsedWithHolds(now) ==
  [g \in DOMAIN grants |->
     IF g \in Lapsing(now)
       THEN [grants[g] EXCEPT !.expired = @ + Available(grants[g]) + grants[g].reserved,
                              !.reserved = 0]
       ELSE grants[g]]

Lapsed(now) ==
  [g \in DOMAIN grants |->
     IF g \in Lapsing(now)
       THEN [grants[g] EXCEPT !.expired = @ + Available(grants[g])]
       ELSE grants[g]]

BaseGrant(now) ==
  NewGrant("base", CycleIndex(now), now, (CycleIndex(now) + 1) * CycleLength,
           Allowance[PlanAt(now)])

EnsuredGrants(now) ==
  IF Opens(now) THEN Append(Lapsed(now), BaseGrant(now)) ELSE Lapsed(now)

EnsuredEvents(now) ==
  ledger
    \cup {Event("expire", <<"expire", g>>, g, 0, 0, 0, Available(grants[g])) :
            g \in Lapsing(now)}
    \cup (IF Opens(now)
            THEN {Event("grant", <<"cycle", CycleIndex(now)>>, Len(grants) + 1,
                        Allowance[PlanAt(now)], 0, 0, 0)}
            ELSE {})

EnsuredAccount(now) ==
  [plan |-> PlanAt(now), pending |-> IF Opens(now) THEN None ELSE account.pending,
   updatedAt |-> now]

\* Mutant: the new cycle keeps the old plan when a downgrade takes effect.
EnsuredCycleStale(now) ==
  IF Opens(now)
    THEN [index |-> CycleIndex(now),
          plan |-> IF account.plan = None THEN PlanAt(now) ELSE account.plan,
          allowance |-> Allowance[PlanAt(now)]]
    ELSE cycle

EnsuredCycle(now) ==
  IF Opens(now)
    THEN [index |-> CycleIndex(now), plan |-> PlanAt(now), allowance |-> Allowance[PlanAt(now)]]
    ELSE cycle

CanEnsure(now) ==
  /\ account.plan # None => /\ now >= account.updatedAt
                            /\ AccountCoherent
                            /\ cycle.index <= CycleIndex(now)
  /\ \A g \in DOMAIN grants : Available(grants[g]) >= 0
  /\ WithinCapacity(EnsuredGrants(now), 0)

\* The base grant of the cycle in force once _ensure has run.
CurrentBase(now) ==
  IF Opens(now) THEN Len(grants) + 1 ELSE CHOOSE g \in BasesOf(cycle.index) : TRUE

-----------------------------------------------------------------------------
(* Lifecycle operations *)

Init ==
  /\ clock = 0
  /\ role \in {"user", "master"}
  /\ status = "active"
  /\ account = [plan |-> None, pending |-> None, updatedAt |-> 0]
  /\ cycle = [index |-> -1, plan |-> None, allowance |-> 0]
  /\ grants = <<>>
  /\ ledger = {}
  /\ reservations = [k \in ReserveKeys |-> Absent]
  /\ operations = {}

Tick ==
  /\ clock < MaxTime
  /\ clock' = clock + 1
  /\ UNCHANGED <<role, status, account, cycle, grants, ledger, reservations, operations>>

\* What _ensure leaves behind when nothing follows it.
Ensure(now) ==
  /\ account' = EnsuredAccount(now)
  /\ cycle' = EnsuredCycle(now)
  /\ grants' = EnsuredGrants(now)
  /\ ledger' = EnsuredEvents(now)

EnsureCycle(now) ==
  /\ CanEnsure(now)
  /\ Ensure(now)
  /\ UNCHANGED <<clock, role, status, reservations, operations>>

\* The upgrade branch: the cycle's base grant grows by the difference at once.
Upgrade(plan, key, now) ==
  LET base == CurrentBase(now)
      delta == Allowance[plan] - EnsuredCycle(now).allowance
  IN /\ Rank[plan] > Rank[PlanAt(now)]
     /\ WithinCapacity(EnsuredGrants(now), delta)
     /\ grants' = [EnsuredGrants(now) EXCEPT ![base].granted = @ + delta]
     /\ cycle' = [EnsuredCycle(now) EXCEPT !.plan = plan, !.allowance = Allowance[plan]]
     /\ account' = [EnsuredAccount(now) EXCEPT !.plan = plan, !.pending = None]
     /\ ledger' = EnsuredEvents(now)
                    \cup {Event("adjust", <<"cmd", key>>, base, delta, 0, 0, 0)}

\* A lower plan waits for the next cycle; the plan in force cancels the wait.
Schedule(plan, now) ==
  /\ Rank[plan] <= Rank[PlanAt(now)]
  /\ account' = [EnsuredAccount(now) EXCEPT
                   !.pending = IF Rank[plan] < Rank[PlanAt(now)] THEN plan ELSE None]
  /\ cycle' = EnsuredCycle(now)
  /\ grants' = EnsuredGrants(now)
  /\ ledger' = EnsuredEvents(now)

ChangePlan(plan, key, now) ==
  /\ key \notin operations
  /\ status = "active"
  /\ role = "master" => plan = "max"
  /\ CanEnsure(now)
  /\ Upgrade(plan, key, now) \/ Schedule(plan, now)
  /\ operations' = operations \cup {key}
  /\ UNCHANGED <<clock, status, reservations>>

PlanChange(plan, key, now) == ChangePlan(plan, key, now) /\ role' = role

\* The operator CLI's promotion: upgrade first, then the role, in one savepoint.
Promote(key, now) == ChangePlan("max", key, now) /\ role' = "master"

GrantBonus(bonus, key, now) ==
  /\ key \notin operations
  /\ status = "active"
  /\ bonus.expiresAt # None => bonus.expiresAt > now
  /\ CanEnsure(now)
  /\ WithinCapacity(EnsuredGrants(now), bonus.amount)
  /\ account' = EnsuredAccount(now)
  /\ cycle' = EnsuredCycle(now)
  /\ grants' = Append(EnsuredGrants(now),
                      NewGrant("bonus", None, now, bonus.expiresAt, bonus.amount))
  /\ ledger' = EnsuredEvents(now)
                 \cup {Event("grant", <<"cmd", key>>, Len(EnsuredGrants(now)) + 1,
                             bonus.amount, 0, 0, 0)}
  /\ operations' = operations \cup {key}
  /\ UNCHANGED <<clock, role, status, reservations>>

Suspend ==
  /\ status' = "suspended"
  /\ UNCHANGED <<clock, role, account, cycle, grants, ledger, reservations, operations>>

Reactivate ==
  /\ status' = "active"
  /\ UNCHANGED <<clock, role, account, cycle, grants, ledger, reservations, operations>>

-----------------------------------------------------------------------------
(* Holds *)

\* Allocation order: soonest expiry first, grants without expiry last, then age, then id: the
\* code's ids are random, these are in order of creation. No property depends on it.
Earlier(gs, g, h) ==
  LET a == gs[g]  b == gs[h]
  IN \/ a.expiresAt # None /\ b.expiresAt = None
     \/ a.expiresAt # None /\ b.expiresAt # None /\ a.expiresAt < b.expiresAt
     \/ a.expiresAt = b.expiresAt /\ a.createdAt < b.createdAt
     \/ a.expiresAt = b.expiresAt /\ a.createdAt = b.createdAt /\ g < h

\* f splits `total` over the grants of `cap`, filling each one before the next:
\* the loops of _reserve and _terminal, which take min(capacity, remaining).
GreedySplit(gs, cap, total, f) ==
  /\ \A g \in DOMAIN cap : f[g] <= cap[g]
  /\ \A g, h \in DOMAIN cap : f[h] > 0 /\ f[g] < cap[g] => ~Earlier(gs, g, h)
  /\ SumFunction(f) = total

Reserve(key, items, now) ==
  LET gs == EnsuredGrants(now)
      cap == [g \in DOMAIN gs |-> Available(gs[g])]
  IN /\ reservations[key].status = "absent"
     /\ status = "active"
     /\ CanEnsure(now)
     /\ DOMAIN items \subseteq PlanMeters[PlanAt(now)]
     /\ Cardinality(HeldKeys) < MaxConcurrent[PlanAt(now)]
     /\ LedgerMatches(gs, EnsuredEvents(now))
     /\ \E total \in {q \in 1..MaxAmount : q = Quote(items)} :
        \E taken \in [DOMAIN gs -> 0..total] :
          LET used == {g \in DOMAIN gs : taken[g] > 0}
          IN /\ GreedySplit(gs, cap, total, taken)
             /\ reservations' = [reservations EXCEPT ![key] =
                  [Absent EXCEPT !.status = "held", !.items = items, !.reserved = total,
                                 !.allocation = [g \in used |-> taken[g]],
                                 !.createdAt = now]]
             /\ grants' = [g \in DOMAIN gs |-> [gs[g] EXCEPT !.reserved = @ + taken[g]]]
             /\ ledger' = EnsuredEvents(now)
                  \cup {Event("reserve", <<"reserve", key>>, g, 0, taken[g], 0, 0) : g \in used}
     /\ account' = EnsuredAccount(now)
     /\ cycle' = EnsuredCycle(now)
     /\ UNCHANGED <<clock, role, status, operations>>

\* _reservation_coherent
ReservationCoherent(r) ==
  /\ DOMAIN r.items # {} /\ DOMAIN r.allocation # {}
  /\ Quote(r.items) = r.reserved
  /\ SumFunction(r.allocation) = r.reserved
  /\ DOMAIN r.allocation \subseteq DOMAIN grants

\* The unused part of a hold on a grant that has lapsed meanwhile lapses with it.
Expiring(g, unused, now) == IF Due(grants[g], now) THEN unused ELSE 0

\* Mutants: a reservation that ended may end again; a late caller is let in.
TerminalAllowedTwice(key, terminalKey, now) ==
  /\ reservations[key].status # "absent"
  /\ \A k \in ReserveKeys : reservations[k].terminalKey # terminalKey
  /\ now >= account.updatedAt
TerminalAllowedLate(key, terminalKey, now) ==
  /\ reservations[key].status = "held"
  /\ \A k \in ReserveKeys : reservations[k].terminalKey # terminalKey
  /\ now >= reservations[key].createdAt

\* What _terminal refuses before it looks at usage or rows.  `now` may not be older
\* than the last operation on the account: that one may have lapsed a grant of the hold.
TerminalAllowed(key, terminalKey, now) ==
  /\ account.plan # None
  /\ reservations[key].status = "held"
  /\ \A k \in ReserveKeys : reservations[k].terminalKey # terminalKey
  /\ now >= account.updatedAt
  /\ now >= reservations[key].createdAt

\* Mutants: only what was spent leaves the hold; the projection is overwritten.
ReturnedSpentOnly(g, held, spent, now) ==
  [grants[g] EXCEPT !.reserved = @ - spent, !.consumed = @ + spent,
                    !.expired = @ + Expiring(g, held - spent, now)]
ReturnedOverwriting(g, held, spent, now) ==
  [grants[g] EXCEPT !.reserved = @ - held, !.consumed = spent,
                    !.expired = @ + Expiring(g, held - spent, now)]

\* A grant once a hold of `held` on it ends with `spent` consumed.
Returned(g, held, spent, now) ==
  [grants[g] EXCEPT !.reserved = @ - held, !.consumed = @ + spent,
                    !.expired = @ + Expiring(g, held - spent, now)]

\* _terminal, for a key that has not ended a reservation yet.  `charge` tells
\* a settlement from a release.  Delivery, reason and source are labels that only
\* the comparison of a replay reads.
Terminal(key, terminalKey, usage, charge, now) ==
  LET r == reservations[key]
      hold == r.allocation
  IN /\ TerminalAllowed(key, terminalKey, now)
     /\ DOMAIN usage \subseteq DOMAIN r.items
     /\ \A m \in DOMAIN usage : usage[m] <= r.items[m]
     /\ ReservationCoherent(r)
     /\ LedgerMatches(grants, ledger)
     /\ \A g \in DOMAIN hold : grants[g].reserved >= hold[g]
     /\ \E consumed \in {q \in 0..r.reserved : q = IF charge THEN Quote(usage) ELSE 0} :
        \E spent \in [DOMAIN hold -> 0..consumed] :
          /\ charge => consumed > 0
          /\ GreedySplit(grants, hold, consumed, spent)
          /\ grants' = [g \in DOMAIN grants |->
               IF g \in DOMAIN hold THEN Returned(g, hold[g], spent[g], now) ELSE grants[g]]
          /\ ledger' = ledger \cup
               {Event(IF charge THEN "settle" ELSE "release", <<"terminal", key>>, g, 0,
                      0 - hold[g], spent[g], Expiring(g, hold[g] - spent[g], now)) :
                  g \in DOMAIN hold}
          /\ reservations' = [reservations EXCEPT ![key] =
               [r EXCEPT !.status = IF charge THEN "settled" ELSE "released",
                         !.terminalKey = terminalKey, !.charged = consumed]]
     /\ UNCHANGED <<clock, role, status, account, cycle, operations>>

Settle(key, terminalKey, usage, now) ==
  DOMAIN usage # {} /\ Terminal(key, terminalKey, usage, TRUE, now)

Release(key, terminalKey, usage, now) == Terminal(key, terminalKey, usage, FALSE, now)

-----------------------------------------------------------------------------

Next ==
  \/ Tick
  \/ Suspend
  \/ Reactivate
  \/ \E now \in 0..clock :
       \/ EnsureCycle(now)
       \/ \E key \in CommandKeys :
            \/ \E plan \in Plans : PlanChange(plan, key, now)
            \/ Promote(key, now)
            \/ \E bonus \in BonusGrants : GrantBonus(bonus, key, now)
       \/ \E key \in ReserveKeys :
            \/ \E items \in UnitsOver(1) : Reserve(key, items, now)
            \/ \E terminalKey \in TerminalKeys, usage \in UnitsOver(0) :
                 \/ Settle(key, terminalKey, usage, now)
                 \/ Release(key, terminalKey, usage, now)

Spec == Init /\ [][Next]_vars

-----------------------------------------------------------------------------
(* Properties *)

\* A reservation row: its items are positive units, its allocations positive
\* amounts on grants that exist.
IsReservation(r) ==
  /\ r \in [status : {"absent", "held", "settled", "released"}, items : {r.items},
            reserved : Nat, allocation : {r.allocation}, createdAt : Nat,
            terminalKey : TerminalKeys \cup {None}, charged : Nat]
  /\ r.items \in UnitsOver(1)
  /\ DOMAIN r.allocation \subseteq DOMAIN grants
  /\ r.allocation \in [DOMAIN r.allocation -> Nat \ {0}]

\* Rows stay within their columns, and a hold names grants that exist.
TypeOK ==
  /\ clock \in Nat
  /\ role \in {"user", "master"}
  /\ status \in {"active", "suspended"}
  /\ account \in [plan : Plans \cup {None}, pending : Plans \cup {None}, updatedAt : Nat]
  /\ cycle \in [index : Nat \cup {-1}, plan : Plans \cup {None}, allowance : Nat]
  /\ grants \in Seq(Grant)
  /\ DOMAIN reservations = ReserveKeys
  /\ \A k \in ReserveKeys : IsReservation(reservations[k])
  /\ operations \subseteq CommandKeys

\* No sequence of holds, settlements, releases, lapses and upgrades overdraws a
\* grant (the CHECK ck_credit_grants_balance never has to refuse a write).
GrantBalance ==
  \A g \in DOMAIN grants :
    grants[g].reserved + grants[g].consumed + grants[g].expired <= grants[g].granted

\* Once the account has been brought up to an instant, a grant that lapsed by
\* then has nothing left to spend - not even what a hold gave back since.
\* It is what the late-caller guard of _terminal is for.
LapsedGrantsAreEmpty ==
  \A g \in DOMAIN grants :
    Due(grants[g], account.updatedAt) => Available(grants[g]) = 0

\* What a grant has reserved is what the open holds took from it, no more and no less.
HoldsBackReserved ==
  \A g \in DOMAIN grants :
    LET holders == {k \in HeldKeys : g \in DOMAIN reservations[k].allocation}
    IN grants[g].reserved = SumFunction([k \in holders |-> reservations[k].allocation[g]])

\* The account never reaches rows its own checks refuse: _coherent and
\* _ledger_coherent would then reject every later operation of the user, so a
\* hold could neither be settled nor released.
AccountNeverWedged ==
  account.plan # None => AccountCoherent /\ LedgerMatches(grants, ledger)

\* UNIQUE (operation_key, grant_id, kind) of the ledger never has to refuse a
\* write: above all, a grant lapses at most once through _ensure.
LedgerKeysUnique ==
  \A e, f \in ledger : e.kind = f.kind /\ e.key = f.key /\ e.grant = f.grant => e = f

\* A reservation ends once: settled or released rows are never written again.
TerminalIsFinal ==
  [][\A k \in ReserveKeys :
       reservations[k].status \in {"settled", "released"} =>
         reservations'[k] = reservations[k]]_vars

\* Two requests in a row get a hold only if the plan in force has a slot for
\* each and only from grants that are alive, also right after a cycle rolled over.
HoldsRespectPlan ==
  [][\A k \in ReserveKeys :
       reservations[k].status = "absent" /\ reservations'[k].status = "held" =>
         /\ Cardinality(HeldKeys') <= MaxConcurrent[account'.plan]
         /\ \A g \in DOMAIN reservations'[k].allocation :
              ~Due(grants'[g], account'.updatedAt)]_vars

\* The charge of a settlement is never taken back and a lapse is never undone.
SpendingIsMonotone ==
  [][\A g \in DOMAIN grants :
       /\ grants'[g].consumed >= grants[g].consumed
       /\ grants'[g].expired >= grants[g].expired
       /\ grants'[g].granted >= grants[g].granted]_vars

TotalOf(field) == SumFunction([g \in DOMAIN grants |-> grants[g][field]])

Promise == INSTANCE CreditPromise WITH
  Keys <- ReserveKeys,
  granted <- TotalOf("granted"),
  lapsed <- TotalOf("expired"),
  free <- SumFunction([g \in DOMAIN grants |-> Available(grants[g])]),
  state <- [k \in ReserveKeys |-> reservations[k].status],
  hold <- [k \in ReserveKeys |->
             IF reservations[k].status = "held" THEN reservations[k].reserved ELSE 0],
  charged <- [k \in ReserveKeys |-> reservations[k].charged]

\* Grants, cycles, plans and the greedy split implement one pool of credits that
\* is charged at most what a request reserved and is never overdrawn.
ImplementsPromise == Promise!Spec

=============================================================================
