--------------------------- MODULE MCCreditLedger ---------------------------
(* Small instances of CreditLedger for TLC. *)
EXTENDS CreditLedger, TLC

CONSTANTS r1, r2, t1, t2, c1, c2

MCRate == [m \in Meters |-> IF m = "image" THEN 1 ELSE 2]
MCPlanMeters == [p \in Plans |-> IF p = "free" THEN {"image"} ELSE Meters]
MCAllowance == [free |-> 2, pro |-> 3, max |-> 4]
MCMaxConcurrent == [free |-> 1, pro |-> 2, max |-> 2]
MCBonusGrants == {[amount |-> 1, expiresAt |-> None], [amount |-> 2, expiresAt |-> 1]}

\* Operation keys are only compared.
KeySymmetry ==
  Permutations(ReserveKeys) \cup Permutations(TerminalKeys) \cup Permutations(CommandKeys)

=============================================================================
