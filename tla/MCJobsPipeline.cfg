SPECIFICATION Spec
CONSTANTS
  image = image
  video = video
  video2 = video2
  parent = parent
  child = child
  animation = animation
  w1 = w1
  w2 = w2
  None = None
  Jobs = {parent, child}
  Kind <- MCKind
  Parent <- MCParent
  Workers = {w1, w2}
  MaxDispatchAttempts = 2
  Budget <- Chaos
SYMMETRY WorkerSymmetry
INVARIANTS
  TypeOK
  AtMostOneProviderCall
  ChargeMatchesDelivery
  ChildFollowsParent
  CancelledWorkNeverRan
CHECK_DEADLOCK FALSE
