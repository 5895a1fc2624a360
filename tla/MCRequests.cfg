SPECIFICATION RequestsOfUsers
CONSTANTS
  first = first
  again = again
  edited = edited
  foreign = foreign
  second = second
  id = id
  id2 = id2
  alice = alice
  bob = bob
  p1 = p1
  p2 = p2
  None = None
  Calls = {first, again, edited, foreign, second}
  Requests = {id, id2}
  Users = {alice, bob}
  Contents = {p1, p2}
  Request <- MCRequest
  Owner <- MCOwner
  Content <- MCContent
  Usages = {"fits", "zero"}
  MaxConcurrent = 1
  Budget <- Faults
  Jobs = {1, 2, 3}
  Connections = {"q1", "q2"}
  NoJob = 0
  Work = {"j1", "j2"}
  Runners = {"w1", "w2"}
  Concurrency = 1
INVARIANTS
  ChargedIffStored
  ModelAskedOnce
  ResultIsOwn
  HoldHasACall
  RequestsTypeOK
  SubmittedOnce
  DeletionInLockOrder
PROPERTIES
  WorkKeepsItsReferences
CHECK_DEADLOCK FALSE
