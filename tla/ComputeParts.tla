---------------------------- MODULE ComputeParts ----------------------------
(***************************************************************************)
(* The computations on images and on equations, which share no state,      *)
(* checked in one run.  Of the front end: the roles of the cameras, the    *)
(* tracks of a camera, the selection of new ones, the pairs of a frame,    *)
(* the filters of the images and the search for a patch.  Of the IMU: the  *)
(* samples between frames and keyframes.  Of the solvers: the normal       *)
(* equations on CPU and GPU, those of one camera and those of poses only,  *)
(* and the launches of the kernels.  Of SLAM and depth: the search of the  *)
(* localizer, the planes of a depth image, their geometry and the maps of  *)
(* depth.                                                                  *)
(***************************************************************************)
EXTENDS Integers, Sequences, FiniteSets

CONSTANTS
  \* CameraPairs
  NumCameras, MaxRatio,
  \* FeatureTracks
  Desired, Failed, MinPredicted, SurvivorPercent, TrackCell, MaxTracked, MaxExtra,
  \* FeatureSelection
  Width, Height, BinsX, BinsY, Burn, Block, Tile, MaxStrength, Wanted,
  \* PatchTracking
  Columns, Levels, Half, Radius, PatchReach, Trackers, FullMapping, MaxError,
  \* StereoMatching
  MaxFrame, MaxOwn,
  \* ImageFilters
  Lengths, Patch, LazyLength, MaxImages,
  \* ImuSamples
  Period, StorageSize, MapSize, MinKeyframes, LastTime, MaxSamples,
  \* GpuNormalEquations
  Prime, Seeds, Lambdas, Warp, Orders,
  \* MonoBundle
  MonoSeeds, LeastLambda, MaxLambda, MaxSteps,
  \* PoseEquations
  PoseSeeds,
  \* VisualKernels
  PointCounts, PoseCounts, ObservationCounts, MaxSolves, MaxRounds, OptimalPoses, FirstPoints, FirstPoses,
  \* InertialKernels
  KnownPoints, KnownPoses, KnownObservations, MaxAdjustments, MaxTrials,
  \* Localizer
  HorizontalRadius, VerticalRadius, HorizontalStep, VerticalStep, Angles, MinPoints, MinForRansac, MinObservations, MinLandmarks, ManyLandmarks, MaxFound, MaxLost,
  \* PlaneDetection
  DepthWidth, DepthHeight, Scenes, Depths, MaxPlanes, MinInliers, MaxOutput, BatchSize, Iterations, MaxGeometry, DepthBundle,
  \* PlaneGeometry
  Side, Hulls, Shapes, Regions, RowCells, MinCell, HalfKey,
  \* DepthMaps
  Places, RigPlaces, MaxPlaneDist, MergeDist, Counts, MaxPerCam, MaxDepth, Offers, MaxUpdates

VARIABLES
  part,   \* the part that runs
  graph, settings, pairs, stage,
  kind, tracks, keyframe, selector, nextId, hasPrev, launched, frameState,
  tracked,
  input, bin, heap, burnt, added, selected, done,
  task, level, cpu, gpu, borderline,
  setting, stereoFrame, stereoStage, present, flags, deviceHas, obs, left,
  stream, launchedPairs, data, early, keyTracks,
  length, pass, image, cell, seen,
  multisensor, last, lastFrame, first, times, upTo, stored, framePart,
  keyframePart, anchored, keyframes,
  problem, step, system, reduced, update, device,
  monoProblem, monoPhase, estimate, skip, err, damping, count, monoSystem,
  monoStep, readmitted,
  poseProblem, poseAt, poseSystem, poseChange,
  visualSize, visualRoom, visualStream, visualMemory, visualPc, visualRound,
  visualSolves, visualTaken,
  imuSize, imuRoom, imuStream, imuMemory, imuPc, imuRound, imuSolves, imuTaken,
  imuGraphs, imuNeeded,
  tried, searching, fast, simple, exact, status, truth, solved,
  planeStage, planeDevice, host, search, found, launches,
  asked, answer,
  planes, points, pointsAdded, lastUpdate

Pairs == INSTANCE CameraPairs
Tracks == INSTANCE FeatureTracks WITH
  Cell <- TrackCell, MaxFrames <- MaxTracked, state <- frameState, frames <- tracked
Selection == INSTANCE FeatureSelection
Patches == INSTANCE PatchTracking WITH
  Width <- Columns, Reach <- PatchReach
Matching == INSTANCE StereoMatching WITH
  frame <- stereoFrame, stage <- stereoStage, launched <- launchedPairs, device <- deviceHas
Filters == INSTANCE ImageFilters
Samples == INSTANCE ImuSamples
Equations == INSTANCE GpuNormalEquations
OneCamera == INSTANCE MonoBundle WITH
  Seeds <- MonoSeeds, phase <- monoPhase, problem <- monoProblem, system <- monoSystem,
  step <- monoStep
OfPoses == INSTANCE PoseEquations WITH
  Seeds <- PoseSeeds, problem <- poseProblem, at <- poseAt, system <- poseSystem,
  change <- poseChange
Visual == INSTANCE VisualKernels WITH
  size <- visualSize, room <- visualRoom, stream <- visualStream, memory <- visualMemory, pc <- visualPc, round <- visualRound, solves <- visualSolves, taken <- visualTaken
Inertial == INSTANCE InertialKernels WITH
  size <- imuSize, room <- imuRoom, stream <- imuStream, memory <- imuMemory, pc <- imuPc, round <- imuRound, solves <- imuSolves, taken <- imuTaken, graphs <- imuGraphs, needed <- imuNeeded
Search == INSTANCE Localizer WITH trial <- tried, phase <- searching
Detect == INSTANCE PlaneDetection WITH
  Width <- DepthWidth, Height <- DepthHeight, stage <- planeStage, device <- planeDevice,
  Bundle <- DepthBundle
Geometry == INSTANCE PlaneGeometry
Depth == INSTANCE DepthMaps WITH
  Rigs <- RigPlaces, added <- pointsAdded, last <- lastUpdate

rig == <<graph, settings, pairs, stage>>
features == <<kind, tracks, keyframe, selector, nextId, hasPrev, launched, frameState,
    tracked>>
choice == <<input, bin, heap, burnt, added, selected, done>>
patch == <<task, level, cpu, gpu, borderline>>
matching == <<setting, stereoFrame, stereoStage, present, flags, deviceHas, obs, left,
    stream, launchedPairs, data, early, keyTracks>>
filters == <<length, pass, image, cell, seen>>
samples == <<multisensor, last, lastFrame, first, times, upTo, stored, framePart,
    keyframePart, anchored, keyframes>>
equations == <<problem, step, system, reduced, update, device>>
bundle == <<monoProblem, monoPhase, estimate, skip, err, damping, count, monoSystem,
    monoStep, readmitted>>
poseEquations == <<poseProblem, poseAt, poseSystem, poseChange>>
visualKernels == <<visualSize, visualRoom, visualStream, visualMemory, visualPc, visualRound,
    visualSolves, visualTaken>>
inertialKernels == <<imuSize, imuRoom, imuStream, imuMemory, imuPc, imuRound, imuSolves,
    imuTaken, imuGraphs, imuNeeded>>
localizer == <<tried, searching, fast, simple, exact, status, truth, solved>>
detection == <<planeStage, planeDevice, host, search, found, launches>>
planeGeometry == <<asked, answer>>
depthMaps == <<planes, points, pointsAdded, lastUpdate>>

vars == <<part, rig, features, choice, patch, matching, filters, samples, equations,
          bundle, poseEquations, visualKernels, inertialKernels, localizer,
          detection, planeGeometry, depthMaps>>

Off == "off"

NoRig ==
  /\ graph = Off /\ settings = Off /\ pairs = Off /\ stage = Off

NoFeatures ==
  /\ kind = Off /\ tracks = Off /\ keyframe = Off /\ selector = Off /\ nextId = Off
  /\ hasPrev = Off /\ launched = Off /\ frameState = Off /\ tracked = Off

NoChoice ==
  /\ input = Off /\ bin = Off /\ heap = Off /\ burnt = Off /\ added = Off
  /\ selected = Off /\ done = Off

NoPatch ==
  /\ task = Off /\ level = Off /\ cpu = Off /\ gpu = Off /\ borderline = Off

NoMatching ==
  /\ setting = Off /\ stereoFrame = Off /\ stereoStage = Off /\ present = Off
  /\ flags = Off /\ deviceHas = Off /\ obs = Off /\ left = Off /\ stream = Off
  /\ launchedPairs = Off /\ data = Off /\ early = Off /\ keyTracks = Off

NoFilters ==
  /\ length = Off /\ pass = Off /\ image = Off /\ cell = Off /\ seen = Off

NoSamples ==
  /\ multisensor = Off /\ last = Off /\ lastFrame = Off /\ first = Off /\ times = Off
  /\ upTo = Off /\ stored = Off /\ framePart = Off /\ keyframePart = Off
  /\ anchored = Off /\ keyframes = Off

NoEquations ==
  /\ problem = Off /\ step = Off /\ system = Off /\ reduced = Off /\ update = Off
  /\ device = Off

NoBundle ==
  /\ monoProblem = Off /\ monoPhase = Off /\ estimate = Off /\ skip = Off /\ err = Off
  /\ damping = Off /\ count = Off /\ monoSystem = Off /\ monoStep = Off
  /\ readmitted = Off

NoPoseequations ==
  /\ poseProblem = Off /\ poseAt = Off /\ poseSystem = Off /\ poseChange = Off

NoVisualkernels ==
  /\ visualSize = Off /\ visualRoom = Off /\ visualStream = Off /\ visualMemory = Off
  /\ visualPc = Off /\ visualRound = Off /\ visualSolves = Off /\ visualTaken = Off

NoInertialkernels ==
  /\ imuSize = Off /\ imuRoom = Off /\ imuStream = Off /\ imuMemory = Off /\ imuPc = Off
  /\ imuRound = Off /\ imuSolves = Off /\ imuTaken = Off /\ imuGraphs = Off
  /\ imuNeeded = Off

NoLocalizer ==
  /\ tried = Off /\ searching = Off /\ fast = Off /\ simple = Off /\ exact = Off
  /\ status = Off /\ truth = Off /\ solved = Off

NoDetection ==
  /\ planeStage = Off /\ planeDevice = Off /\ host = Off /\ search = Off /\ found = Off
  /\ launches = Off

NoPlanegeometry ==
  /\ asked = Off /\ answer = Off

NoDepthmaps ==
  /\ planes = Off /\ points = Off /\ pointsAdded = Off /\ lastUpdate = Off

Init ==
  /\ part \in {"rig", "features", "choice", "patch", "matching", "filters",
               "samples", "equations", "bundle", "poseEquations", "visualKernels",
               "inertialKernels", "localizer", "detection", "planeGeometry",
               "depthMaps"}
  /\ IF part = "rig" THEN Pairs!Init ELSE NoRig
  /\ IF part = "features" THEN Tracks!Init ELSE NoFeatures
  /\ IF part = "choice" THEN Selection!Init ELSE NoChoice
  /\ IF part = "patch" THEN Patches!Init ELSE NoPatch
  /\ IF part = "matching" THEN Matching!Init ELSE NoMatching
  /\ IF part = "filters" THEN Filters!Init ELSE NoFilters
  /\ IF part = "samples" THEN Samples!Init ELSE NoSamples
  /\ IF part = "equations" THEN Equations!GpuInit ELSE NoEquations
  /\ IF part = "bundle" THEN OneCamera!Init ELSE NoBundle
  /\ IF part = "poseEquations" THEN OfPoses!Init ELSE NoPoseequations
  /\ IF part = "visualKernels" THEN Visual!Init ELSE NoVisualkernels
  /\ IF part = "inertialKernels" THEN Inertial!Init ELSE NoInertialkernels
  /\ IF part = "localizer" THEN Search!Init ELSE NoLocalizer
  /\ IF part = "detection" THEN Detect!Init ELSE NoDetection
  /\ IF part = "planeGeometry" THEN Geometry!Init ELSE NoPlanegeometry
  /\ IF part = "depthMaps" THEN Depth!Init ELSE NoDepthmaps

Next ==
  \/ /\ part = "rig"
     /\ Pairs!Next
     /\ UNCHANGED <<part, features, choice, patch, matching, filters, samples,
                    equations, bundle, poseEquations, visualKernels, inertialKernels,
                    localizer, detection, planeGeometry, depthMaps>>
  \/ /\ part = "features"
     /\ Tracks!Next
     /\ UNCHANGED <<part, rig, choice, patch, matching, filters, samples, equations,
                    bundle, poseEquations, visualKernels, inertialKernels, localizer,
                    detection, planeGeometry, depthMaps>>
  \/ /\ part = "choice"
     /\ Selection!Next
     /\ UNCHANGED <<part, rig, features, patch, matching, filters, samples, equations,
                    bundle, poseEquations, visualKernels, inertialKernels, localizer,
                    detection, planeGeometry, depthMaps>>
  \/ /\ part = "patch"
     /\ Patches!Next
     /\ UNCHANGED <<part, rig, features, choice, matching, filters, samples,
                    equations, bundle, poseEquations, visualKernels, inertialKernels,
                    localizer, detection, planeGeometry, depthMaps>>
  \/ /\ part = "matching"
     /\ Matching!Next
     /\ UNCHANGED <<part, rig, features, choice, patch, filters, samples, equations,
                    bundle, poseEquations, visualKernels, inertialKernels, localizer,
                    detection, planeGeometry, depthMaps>>
  \/ /\ part = "filters"
     /\ Filters!Next
     /\ UNCHANGED <<part, rig, features, choice, patch, matching, samples, equations,
                    bundle, poseEquations, visualKernels, inertialKernels, localizer,
                    detection, planeGeometry, depthMaps>>
  \/ /\ part = "samples"
     /\ Samples!Next
     /\ UNCHANGED <<part, rig, features, choice, patch, matching, filters, equations,
                    bundle, poseEquations, visualKernels, inertialKernels, localizer,
                    detection, planeGeometry, depthMaps>>
  \/ /\ part = "equations"
     /\ Equations!GpuNext
     /\ UNCHANGED <<part, rig, features, choice, patch, matching, filters, samples,
                    bundle, poseEquations, visualKernels, inertialKernels, localizer,
                    detection, planeGeometry, depthMaps>>
  \/ /\ part = "bundle"
     /\ OneCamera!Next
     /\ UNCHANGED <<part, rig, features, choice, patch, matching, filters, samples,
                    equations, poseEquations, visualKernels, inertialKernels,
                    localizer, detection, planeGeometry, depthMaps>>
  \/ /\ part = "poseEquations"
     /\ OfPoses!Next
     /\ UNCHANGED <<part, rig, features, choice, patch, matching, filters, samples,
                    equations, bundle, visualKernels, inertialKernels, localizer,
                    detection, planeGeometry, depthMaps>>
  \/ /\ part = "visualKernels"
     /\ Visual!Next
     /\ UNCHANGED <<part, rig, features, choice, patch, matching, filters, samples,
                    equations, bundle, poseEquations, inertialKernels, localizer,
                    detection, planeGeometry, depthMaps>>
  \/ /\ part = "inertialKernels"
     /\ Inertial!Next
     /\ UNCHANGED <<part, rig, features, choice, patch, matching, filters, samples,
                    equations, bundle, poseEquations, visualKernels, localizer,
                    detection, planeGeometry, depthMaps>>
  \/ /\ part = "localizer"
     /\ Search!Next
     /\ UNCHANGED <<part, rig, features, choice, patch, matching, filters, samples,
                    equations, bundle, poseEquations, visualKernels, inertialKernels,
                    detection, planeGeometry, depthMaps>>
  \/ /\ part = "detection"
     /\ Detect!Next
     /\ UNCHANGED <<part, rig, features, choice, patch, matching, filters, samples,
                    equations, bundle, poseEquations, visualKernels, inertialKernels,
                    localizer, planeGeometry, depthMaps>>
  \/ /\ part = "planeGeometry"
     /\ Geometry!Next
     /\ UNCHANGED <<part, rig, features, choice, patch, matching, filters, samples,
                    equations, bundle, poseEquations, visualKernels, inertialKernels,
                    localizer, detection, depthMaps>>
  \/ /\ part = "depthMaps"
     /\ Depth!Next
     /\ UNCHANGED <<part, rig, features, choice, patch, matching, filters, samples,
                    equations, bundle, poseEquations, visualKernels, inertialKernels,
                    localizer, detection, planeGeometry>>

Spec == Init /\ [][Next]_vars

-----------------------------------------------------------------------------
(* Properties                                                              *)

\* Every camera of a rig has a part or is not seen by any primary one, each has the best
\* primary camera it can have, and no two cameras lose each other to a depth image.
RigIsUsed ==
  part = "rig" =>
    /\ Pairs!RolesCoverTheRig
    /\ Pairs!OneBestPrimary
    /\ Pairs!DepthIsPrimary
    /\ Pairs!NoPairLostToDepth

\* A keyframe has tracks, what the selector counts as survivors are its own, a cell has
\* one old track, and there are neither too many tracks nor too few for long.
\* New features keep apart from each other and from the tracks, the bins share them, and
\* no weaker one is taken first.
\* A camera observes a track once, and its keyframe tracks are its own.  What a frame
\* observes was measured in it, in pyramids that are complete; those of the previous
\* frame are built again as they were.
\* Frames and keyframes are joined by the samples of the IMU between them, each once, and
\* gaps are noticed.
FeaturesKept ==
  /\ part = "features" =>
       /\ Tracks!KeyframeHasTracks
       /\ Tracks!SurvivorsAreCounted
       /\ Tracks!OneOldTrackPerCell
       /\ Tracks!NeverTooMany
       /\ Tracks!FewTracksAreRenewed
  /\ part = "choice" =>
       /\ Selection!FeaturesApart
       /\ Selection!FeaturesShared
       /\ Selection!StrongestFirst
  /\ part = "matching" =>
       /\ Matching!ObservedOnce
       /\ Matching!KeyTracksAreOwn
       /\ Matching!ObservationsOfThisFrame
       /\ Matching!PyramidsAreComplete
       /\ Matching!RebuiltAsItWas
  /\ part = "samples" =>
       /\ Samples!TypeOK
       /\ Samples!FactorsHaveTheirSamples
       /\ Samples!LivePartsAreRecent
       /\ Samples!IntegratesFromKeyframe
       /\ Samples!DropsAreJudged

\* A point that is found was compared with its own patch at the finest level, not too far
\* from the guess, and the kernels find it at the same place.
\* The kernels filter every pixel once and as the CPU does, and a patch has gradients of
\* its own image.
PatchesMatched ==
  /\ part = "patch" =>
       /\ Patches!FoundIsMatched
       /\ Patches!NearTheGuess
       /\ Patches!KernelsAgree
  /\ part = "filters" =>
       /\ Filters!KernelsFilterLikeTheCPU
       /\ Filters!LevelsAlike
       /\ Filters!MasksAlike
       /\ Filters!GradientsOfThisImage

\* The step solves the damped system of all parameters, and the predicted reduction,
\* that of the kernels too, is that of the cost.
\* The bundle adjustment of one camera solves for the frames and the tracks that take part.
\* The matrices and right hand sides of the solvers without points are those of their
\* costs, the predictions miss what they are known to miss, and what is frozen stays.
\* The threads of a launch do the whole work once, on arrays that are large enough, what
\* they read is complete and of the current parameters and damping, and the host decides
\* on results that are there.
StepsExact ==
  /\ part = "equations" =>
       /\ Equations!StepSolvesTheSystem
       /\ Equations!PredictionIsExact
       /\ Equations!DevicePredictionIsExact
  /\ part = "bundle" => OneCamera!MonoStepSolves /\ OneCamera!ErrorsOfTheEstimate
  /\ part = "poseEquations" =>
       /\ OfPoses!SystemsFitCosts
       /\ OfPoses!AlignmentFitsMotion
       /\ OfPoses!PredictionsExplained
       /\ OfPoses!FrozenStay
  /\ part = "visualKernels" =>
       /\ Visual!LaunchesWhole
       /\ Visual!NothingStale
       /\ Visual!FitsArrays
       /\ Visual!HostHasResults
  /\ part = "inertialKernels" =>
       /\ Inertial!LaunchesWhole
       /\ Inertial!NothingStale
       /\ Inertial!FitsArrays
       /\ Inertial!HostHasResults

\* The localizer keeps the best solution, tries every probe that is as near, and counts
\* every observation once.
\* The points that the host counts as left are those no plane has taken, and what is
\* read of a plane is its own.
\* Hulls, overlaps, regions and covariances are what they are by definition.
\* The planes share what has been detected, and every camera sees enough points.
SearchesRight ==
  /\ part = "localizer" =>
       /\ Search!TypeOK
       /\ Search!CountsAgree
       /\ Search!BestIsKept
       /\ Search!NearerAreTried
  /\ part = "detection" =>
       /\ Detect!TypeOK
       /\ Detect!ActiveIsWhatIsLeft
       /\ Detect!SumsOfThisPlane
       /\ Detect!SlotsGoTogether
       /\ Detect!SampleIsSpread
       /\ Detect!PlanesShareNoPoint
       /\ Detect!LaunchesWhole
  /\ part = "planeGeometry" =>
       /\ Geometry!HullIsRight
       /\ Geometry!OverlapIsRight
       /\ Geometry!FilterIsRight
       /\ Geometry!CovarianceIsRight
  /\ part = "depthMaps" => Depth!PlanesShareDetections /\ Depth!CamerasSupported

\* A point moves only to where its patch was compared.
\* A kernel does a step of the solver on the CPU or none.
\* What a depth image has shown is not forgotten.
StepsAllowed ==
  [][
    /\ part = "patch" => Patches!MovesAreCompared
    /\ part = "equations" => Equations!LikeTheCPU
    /\ part = "depthMaps" => Depth!DetectionsKept /\ Depth!ClosePointsStay]_vars
=============================================================================
