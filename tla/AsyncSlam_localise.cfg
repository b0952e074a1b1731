\* Mapping and two localisations.
CONSTANTS
  Pose <- SlidingPose
  Mul <- SlidingMul
  Inv <- SlidingInv
  Id <- SlidingId
  TsMin = 0
  TsMax = 2
  Retention = 1
  Throttling = 2
  Wrap = 8
  Request = {r1, r2}
  r2 = r2
  r1 = r1
  MaxTailLength = 3
SPECIFICATION FairSpec
INVARIANTS TipIsHeadPlusQueue ThrottlingNeverWraps
PROPERTIES TailMethodsOnly RequestsServed
CHECK_DEADLOCK FALSE
