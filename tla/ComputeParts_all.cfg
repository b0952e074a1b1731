SPECIFICATION Spec
CONSTANTS
  NumCameras = 3
  MaxRatio = 2
  Desired = 2
  Failed = 1
  MinPredicted = 3
  SurvivorPercent = 67
  TrackCell = {1, 2, 3}
  MaxTracked = 3
  MaxExtra = 1
  Width = 6
  Height = 1
  BinsX = 2
  BinsY = 1
  Burn = 1
  Block = 2
  Tile = 2
  MaxStrength = 2
  Wanted = {2}
  Columns = 12
  Levels = 2
  Half = 1
  Radius = {1, 2}
  PatchReach = 2
  Trackers = {"lk", "lk_horizontal", "klt", "klt_horizontal", "st", "descriptor"}
  FullMapping = {FALSE, TRUE}
  MaxError = 1
  MaxFrame = 2
  MaxOwn = 1
  Lengths = {12, 15, 16, 17, 31, 32, 33, 58, 59, 127, 128, 129, 131, 257}
  Patch = 3
  LazyLength = 12
  MaxImages = 2
  Period = 2
  StorageSize = 2
  MapSize = 2
  MinKeyframes = 2
  LastTime = 4
  MaxSamples = 3
  Prime = 11
  Seeds = {1, 2, 3, 5, 8, 12, 34}
  Lambdas = {0, 3}
  Warp = 4
  Orders = {"by keyframe", "by camera"}
  MonoSeeds = {1, 2, 3}
  LeastLambda = 2
  MaxLambda = 2
  MaxSteps = 3
  PoseSeeds = {1, 2, 5}
  PointCounts = {1, 86}
  PoseCounts = {2, 3}
  ObservationCounts = {2, 257}
  MaxSolves = 2
  MaxRounds = 2
  OptimalPoses = 1
  FirstPoints = 50
  FirstPoses = 2
  KnownPoints = {1, 11}
  KnownPoses = {2, 4}
  KnownObservations = {2, 33}
  MaxAdjustments = 2
  MaxTrials = 2
  HorizontalRadius = 1
  VerticalRadius = 2
  HorizontalStep = 2
  VerticalStep = 3
  Angles = {0}
  MinPoints = 1
  MinForRansac = 2
  MinObservations = 2
  MinLandmarks = 3
  ManyLandmarks = 4
  MaxFound = 4
  MaxLost = 1
  DepthWidth = 4
  DepthHeight = 2
  Scenes = {4, 1615, 1093}
  Depths = 3
  MaxPlanes = 2
  MinInliers = 3
  MaxOutput = 6
  BatchSize = 2
  Iterations = 3
  MaxGeometry = 4
  DepthBundle = 64
  Side = 3
  Hulls = {0, 1, 3, 7, 11, 27, 73, 84, 170, 186, 273, 325, 341, 365, 427, 495, 511}
  Shapes = {11, 27, 54, 170, 341, 273, 400}
  Regions = {0, 668, 2808, 2816, 6515, 9331, 15447, 15845, 16925, 20088, 23580, 23870, 24846, 38894,
    39335, 45765}
  RowCells = 3
  MinCell = 2
  HalfKey = 16
  Places = {0, 1, 3, 5}
  RigPlaces = {0, 3}
  MaxPlaneDist = 4
  MergeDist = 1
  Counts = {1, 2}
  MaxPerCam = 2
  MaxDepth = 3
  Offers = {0, 2, 4}
  MaxUpdates = 2
CHECK_DEADLOCK FALSE
INVARIANTS
  RigIsUsed
  FeaturesKept
  PatchesMatched
  StepsExact
  SearchesRight
PROPERTIES
  StepsAllowed
