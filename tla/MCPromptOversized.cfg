SPECIFICATION Spec
CONSTANTS
  first = first
  again = again
  edited = edited
  foreign = foreign
  second = second
  id = id
  id2 = id2
  alice = alice
  bob = bob
  p1 = p1
  p2 = p2
  None = None
  Calls = {first}
  Requests = {id, id2}
  Users = {alice, bob}
  Contents = {p1, p2}
  Request <- MCRequest
  Owner <- MCOwner
  Content <- MCContent
  Usages = {"fits", "over"}
  MaxConcurrent = 1
  Budget <- NoFault
INVARIANTS
  HoldHasACall
CHECK_DEADLOCK FALSE
