SPECIFICATION Services
CONSTANTS
  Subjects = {"provider", "enhancer", "schema", "pilot"}
  Callers = {"c1", "c2", "c3"}
  Capacity = 1
  Window = 2
  MaxAttempts = 2
  BaseDelay = 1
  MaxDelay = 1
  PollDeadline = 2
  FirstPoll = 2
  MaxPoll = 3
  NoText = NoText
  Base = 1
  StrictAdds = 1
  ContractAdds = 1
  LanguageAdds = 2
  MaxOutput = 1
  MaxGroups = 3
  MaxBytes = 2
  Operators = {"o1", "o2"}
  Clients = {"p1"}
  Followed = {"content", "audit"}
  Targets = {0, 2, 7}
  Cases = 2
  EnhancementCost = 1
  ImageCost = 2
  StopAt = 10
  Margin = 1
  Deltas <- PilotDeltas
  MaxRepeats = 1
INVARIANTS
  ServicesTypeOK
  AdmissionsPerWindow
  UsageWithinPlan
  PilotIsAccountable
PROPERTIES
  EveryCallEnds
  MigrationsKeepRows
CHECK_DEADLOCK FALSE
