SPECIFICATION Spec
CONSTANTS
  Pose <- TurningPose
  Mul <- TurningMul
  Inv <- TurningInv
  Id <- TurningId
  ViewCapacity = 2
  MaxItems = 5
  MaxTime = 3
  KeyFrame = {k1, k2}
  Cell = {1, 2}
  MaxInCell = 1
  CacheChoices = {FALSE, TRUE}
  MaxLandmarkId = 2
  Motion <- TurningSteps
  MaxFrame = 5
  Kinds = {"multi", "rgbd", "multisensor"}
  Steps = {0, 1}
  KeyframeCapacity = 2
  FrameObservations = 1
  LastTrack = 2
  LastTime = 4
CHECK_DEADLOCK FALSE
INVARIANTS
  AnswersRight
  MapInStep
PROPERTIES
  HeldStays
