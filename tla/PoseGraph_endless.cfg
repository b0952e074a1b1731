\* A limit as large as the number of latest keyframes that are kept.
CONSTANTS
  Landmarks = {l1}
  MaxKeyframes = 3
  MaxLatest = 3
  LoadedSizes = {0}
  MaxKeyframeId = 6
SPECIFICATION FairSpec
PROPERTIES ReductionEnds
CHECK_DEADLOCK FALSE
