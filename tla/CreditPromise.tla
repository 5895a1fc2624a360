---------------------------- MODULE CreditPromise ----------------------------
(***************************************************************************)
(* What credit accounting promises a user, without grants, cycles, plans   *)
(* or a ledger: one pool of credits.  A request takes its whole price out  *)
(* of the pool before work starts; when the work ends, once, at most that  *)
(* price is charged and the rest returns to the pool, except for the part  *)
(* that lapsed meanwhile.  The pool is never overdrawn.                    *)
(***************************************************************************)
EXTENDS Integers

CONSTANT Keys  \* requests

VARIABLES
  granted,  \* credits ever granted
  lapsed,   \* credits ever lapsed
  free,     \* credits that can be spent now
  state,    \* per request: absent, held, settled or released
  hold,     \* per request: credits set aside for it
  charged   \* per request: credits it cost

vars == <<granted, lapsed, free, state, hold, charged>>

Init ==
  /\ granted = 0 /\ lapsed = 0 /\ free = 0
  /\ state = [k \in Keys |-> "absent"]
  /\ hold = [k \in Keys |-> 0]
  /\ charged = [k \in Keys |-> 0]

\* Credits arrive and lapse before anything is taken or given back.
Moved == (granted' - granted) - (lapsed' - lapsed)

Refresh ==
  /\ granted' >= granted /\ lapsed' >= lapsed
  /\ free' = free + Moved
  /\ UNCHANGED <<state, hold, charged>>

Hold(k) ==
  /\ state[k] = "absent"
  /\ state' = [state EXCEPT ![k] = "held"]
  /\ granted' >= granted /\ lapsed' >= lapsed
  /\ hold' = [hold EXCEPT ![k] = hold'[k]] /\ hold'[k] > 0
  /\ free' = free + Moved - hold'[k]
  /\ UNCHANGED charged

Finish(k) ==
  /\ state[k] = "held"
  /\ granted' = granted
  /\ hold' = [hold EXCEPT ![k] = 0]
  /\ charged' = [charged EXCEPT ![k] = charged'[k]] /\ charged'[k] \in 0..hold[k]
  /\ state' = [state EXCEPT ![k] = IF charged'[k] > 0 THEN "settled" ELSE "released"]
  /\ lapsed' - lapsed \in 0..(hold[k] - charged'[k])
  /\ free' = free + hold[k] - charged'[k] + Moved

Next ==
  /\ Refresh \/ \E k \in Keys : Hold(k) \/ Finish(k)
  /\ free' >= 0

Spec == Init /\ [][Next]_vars

=============================================================================
