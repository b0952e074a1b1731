\* Failed frames and checkpoints, with and without a worker thread.
CONSTANTS
  UsesTrigger = TRUE
  FrameCounts = {2, 3}
  FixedCounts = {0, 2}
  Capacity = 3
  Interruption = {"reset", "save"}
  MaxKeyframes = 5
SPECIFICATION FairSpec
INVARIANTS MapIsQuiet TaskHasKeyframes RefinesLiveMap
PROPERTIES SettingsReachTask TriggersServed
CHECK_DEADLOCK FALSE
