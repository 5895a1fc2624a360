----------------------------- MODULE MCAccounts -----------------------------
(***************************************************************************)
(* The accounts of users: who is logged in and who may command (Accounts), *)
(* and what the plan changes, promotions and bonuses that are commanded do *)
(* to a credit account (CreditLedger, as in MCCreditLedger).  The two      *)
(* share no state: a behaviour is about one subject, and the other keeps   *)
(* its initial state.                                                      *)
(***************************************************************************)
EXTENDS MCCreditLedger, Accounts

CONSTANT master

VARIABLE subject

\* A master and another user, who is a master as well or has no row before a first login.
MCFirstRoles == {[u \in Users |-> IF u = master THEN "master" ELSE r] : r \in {"master", "absent"}}

\* Tasks, flows and request ids are alike; the request id of a command is its operation key too.
MCSymmetry == Permutations(Tasks) \cup Permutations(Flows) \cup Permutations(Commands)

AccountsOfUsersInit ==
  /\ subject \in {"logins", "credit"}
  /\ AccountsInit /\ Init
  /\ IF subject = "credit" THEN Cardinality(ActiveMasters) = 1 ELSE role = "user"

AccountsOfUsersNext ==
  /\ subject' = subject
  /\ \/ subject = "logins" /\ AccountsNext /\ UNCHANGED vars
     \/ subject = "credit" /\ Next /\ UNCHANGED accountsVars

AccountsOfUsers ==
  AccountsOfUsersInit /\ [][AccountsOfUsersNext]_<<subject, accountsVars, vars>>

=============================================================================
