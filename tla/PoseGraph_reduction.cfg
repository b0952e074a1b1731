\* A new graph and a saved one of five keyframes, with room for the latest two,
\* the two ends of the saved graph and one more.
CONSTANTS
  Landmarks = {l1}
  MaxKeyframes = 4
  MaxLatest = 2
  LoadedSizes = {0, 5}
  MaxKeyframeId = 7
SPECIFICATION FairSpec
INVARIANTS IndexesAgree RootReachesAll RelationsAgree FramesFound CanBeReduced
PROPERTIES ReductionEnds
