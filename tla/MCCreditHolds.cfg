SPECIFICATION Spec
CONSTANTS
  Meters = {"image"}
  Rate <- MCRate
  PlanMeters <- MCPlanMeters
  Allowance <- MCAllowance
  MaxConcurrent <- MCMaxConcurrent
  CycleLength = 2
  MaxAmount = 9
  r1 = r1
  r2 = r2
  t1 = t1
  t2 = t2
  c1 = c1
  c2 = c2
  ReserveKeys = {r1, r2}
  TerminalKeys = {t1, t2}
  CommandKeys = {c1}
  BonusGrants <- MCBonusGrants
  MaxUnits = 2
  MaxTime = 2
  None = None
SYMMETRY KeySymmetry
INVARIANTS
  TypeOK
  GrantBalance
  LapsedGrantsAreEmpty
  HoldsBackReserved
PROPERTIES
  TerminalIsFinal
  HoldsRespectPlan
  SpendingIsMonotone
  ImplementsPromise
CHECK_DEADLOCK FALSE
