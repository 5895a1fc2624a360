SPECIFICATION Spec
CONSTANTS
  image = image
  video = video
  video2 = video2
  parent = parent
  child = child
  animation = animation
  w1 = w1
  w2 = w2
  None = None
  Jobs = {video, video2}
  Kind <- MCKind
  Parent <- MCParent
  Workers = {w1}
  MaxDispatchAttempts = 2
  Budget <- Crashes
SYMMETRY WorkerSymmetry
INVARIANTS
  NothingForgotten
CHECK_DEADLOCK FALSE
