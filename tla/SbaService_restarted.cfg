\* The service after a failed frame.
CONSTANTS
  UsesTrigger = TRUE
  FrameCounts = {2, 3}
  FixedCounts = {0, 2}
  Capacity = 3
  Interruption = {"reset"}
  MaxKeyframes = 3
SPECIFICATION FairSpec
PROPERTIES ServedAfterRestart
CHECK_DEADLOCK FALSE
