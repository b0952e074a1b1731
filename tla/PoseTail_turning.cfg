\* The rig turns: rotation and translation do not commute.
CONSTANTS
  Pose <- TurningPose
  Mul <- TurningMul
  Inv <- TurningInv
  Id <- TurningId
  TsMin <- MCTsMin
  TsMax = 2
  Retention = 2
  MaxTailLength = 3
SPECIFICATION Spec
INVARIANTS InTimeOrder WithinRetention
PROPERTIES SlamPoseInstalled CorrectionIsOneShift
