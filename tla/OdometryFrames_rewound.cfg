\* A tracker that has run loads a state that it saved.
CONSTANTS
  Kinds = {"multi", "rgbd", "multisensor"}
  Steps = {0, 1}
  KeyframeCapacity = 2
  MinObservations = 1
  LastTrack = 2
  LastTime = 4
  Rewinds = TRUE
SPECIFICATION Spec
CHECK_DEADLOCK FALSE
INVARIANT TriangulatedAreLocated
