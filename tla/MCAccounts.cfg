SPECIFICATION AccountsOfUsers
CONSTANTS
  Meters = {"image", "video"}
  Rate <- MCRate
  PlanMeters <- MCPlanMeters
  Allowance <- MCAllowance
  MaxConcurrent <- MCMaxConcurrent
  CycleLength = 2
  MaxAmount = 9
  r1 = r1
  r2 = r2
  t1 = t1
  t2 = t2
  c1 = c1
  c2 = c2
  ReserveKeys = {r1}
  TerminalKeys = {t1}
  CommandKeys = {c1, c2}
  BonusGrants <- MCBonusGrants
  MaxUnits = 1
  MaxTime = 3
  None = None
  master = master
  Users = {master, other}
  Nobody = Nobody
  FirstRoles <- MCFirstRoles
  Flows = {f1, f2}
  Commands = {c1, c2}
  Tasks = {p1, p2}
  MaxSessions = 1
  Inactivity = 2
  Lifetime = 3
  Touch = 1
  FlowTtl = 2
  MaxClock = 3
  MaxLag = 1
SYMMETRY MCSymmetry
INVARIANTS
  AccountsTypeOK
  SessionLimit
  SuspendedHasNoSession
  ContainmentHolds
  AccountNeverWedged
  LedgerKeysUnique
PROPERTIES
  SessionsAreFinal
  ActiveMasterRemains
  AuthorityIsCurrent
CHECK_DEADLOCK FALSE
