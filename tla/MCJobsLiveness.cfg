SPECIFICATION FairSpec
CONSTANTS
  image = image
  video = video
  video2 = video2
  parent = parent
  child = child
  animation = animation
  w1 = w1
  w2 = w2
  None = None
  Jobs = {image, parent, child}
  Kind <- MCKind
  Parent <- MCParent
  Workers = {w1, w2}
  MaxDispatchAttempts = 2
  Budget <- FailuresOnly
PROPERTIES
  EveryJobEnds
CHECK_DEADLOCK FALSE
