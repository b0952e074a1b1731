SPECIFICATION Spec
CONSTANTS
  MaxCost = 4
  MaxIterations = 3
  MaxFrame = 5
  MaxKeyframes = 2
  Constrained = 2
  MinPoints = 1
  MaxTrack = 2
  TrackId = {1, 2}
  MapCapacity = 2
  SubmapSize = 2
  MaxKeyframe = 3
  ImageCamera = {0, 1, 2}
  DepthCamera = {2}
  FrameCameras = {{0, 1}, {2}}
  MaxFrames = 2
  MaxQueue = 1
CHECK_DEADLOCK FALSE
INVARIANTS
  SolversHonest
  MapsKept
  ImagesOfOneFrame
PROPERTIES
  HeldImagesStay
