---------------------------- MODULE ProvedParts -----------------------------
(***************************************************************************)
(* Parts that share no state, checked in one run and proved together: the  *)
(* Levenberg-Marquardt loop of every solver, the frames of one camera with *)
(* the task that refines their map, the map of several cameras with the    *)
(* task that refines it, and the pool of images.                           *)
(***************************************************************************)
EXTENDS Integers, Sequences, FiniteSets

CONSTANTS
  \* LevenbergMarquardt
  MaxCost, MaxIterations,
  \* MonoOdometry
  MaxFrame, MaxKeyframes, Constrained, MinPoints, MaxTrack,
  \* UnifiedMap
  TrackId, MapCapacity, SubmapSize, MaxKeyframe,
  \* ImageFlow
  ImageCamera, DepthCamera, FrameCameras, MaxFrames, MaxQueue

\* A finite cost is less than the one that stands for infinity.
ASSUME ProvedPartsAssumption ==
  /\ MaxCost \in 0 .. 999 /\ MaxIterations \in Nat
  /\ MaxFrame \in Nat /\ MaxTrack \in Nat /\ MaxKeyframes \in Nat \ {0}
  /\ Constrained \in Nat \ {0} /\ MinPoints \in Nat
  /\ MapCapacity \in Nat \ {0} /\ SubmapSize \in Nat /\ MaxKeyframe \in Nat
  /\ ImageCamera \subseteq Int /\ IsFiniteSet(ImageCamera) /\ DepthCamera \subseteq ImageCamera
  /\ FrameCameras \subseteq SUBSET ImageCamera /\ MaxFrames \in Nat /\ MaxQueue \in Nat

VARIABLES
  part,   \* the part that runs
  solver, phase, iteration, costs, feasible, current, systemOf, trial, given,
  monoFrame, monoView, monoMap, lastKeyframe, started, nodal, monoPrev,
  monoTask, copy, ahead, thrown,
  service, keyframes, integrated, lists, seenBy, position, gravity, added,
  saved, task,
  frameId, imageResult, curr, prev, contexts, raw, rawDepth, content,
  imageState, written, processing, queued, working, busy

Loops == INSTANCE LevenbergMarquardt
Mono == INSTANCE MonoOdometry WITH
  frame <- monoFrame, view <- monoView, map <- monoMap, prev <- monoPrev, task <- monoTask
Map == INSTANCE UnifiedMap WITH Capacity <- MapCapacity
Images == INSTANCE ImageFlow WITH
  DepthMayDrop <- FALSE, KeepsStates <- TRUE, saved <- written, Camera <- ImageCamera,
  state <- imageState, result <- imageResult

loops == <<solver, phase, iteration, costs, feasible, current, systemOf, trial,
    given>>
mono == <<monoFrame, monoView, monoMap, lastKeyframe, started, nodal, monoPrev,
    monoTask, copy, ahead, thrown>>
map == <<service, keyframes, integrated, lists, seenBy, position, gravity, added,
    saved, task>>
images == <<frameId, imageResult, curr, prev, contexts, raw, rawDepth, content,
    imageState, written, processing, queued, working, busy>>

vars == <<part, loops, mono, map, images>>

Off == "off"

NoLoops ==
  /\ solver = Off /\ phase = Off /\ iteration = Off /\ costs = Off /\ feasible = Off
  /\ current = Off /\ systemOf = Off /\ trial = Off /\ given = Off

NoMono ==
  /\ monoFrame = Off /\ monoView = Off /\ monoMap = Off /\ lastKeyframe = Off
  /\ started = Off /\ nodal = Off /\ monoPrev = Off /\ monoTask = Off /\ copy = Off
  /\ ahead = Off /\ thrown = Off

NoMap ==
  /\ service = Off /\ keyframes = Off /\ integrated = Off /\ lists = Off /\ seenBy = Off
  /\ position = Off /\ gravity = Off /\ added = Off /\ saved = Off /\ task = Off

NoImages ==
  /\ frameId = Off /\ imageResult = Off /\ curr = Off /\ prev = Off /\ contexts = Off
  /\ raw = Off /\ rawDepth = Off /\ content = Off /\ imageState = Off /\ written = Off
  /\ processing = Off /\ queued = Off /\ working = Off /\ busy = Off

Init ==
  /\ part \in {"loops", "mono", "map", "images"}
  /\ IF part = "loops" THEN Loops!Init ELSE NoLoops
  /\ IF part = "mono" THEN Mono!Init ELSE NoMono
  /\ IF part = "map" THEN Map!Init ELSE NoMap
  /\ IF part = "images" THEN Images!Init ELSE NoImages

Next ==
  \/ part = "loops" /\ Loops!Next /\ UNCHANGED <<part, mono, map, images>>
  \/ part = "mono" /\ Mono!Next /\ UNCHANGED <<part, loops, map, images>>
  \/ part = "map" /\ Map!Next /\ UNCHANGED <<part, loops, mono, images>>
  \/ part = "images" /\ Images!Next /\ UNCHANGED <<part, loops, mono, map>>

Spec == Init /\ [][Next]_vars

-----------------------------------------------------------------------------
(* Properties                                                              *)

\* A success leaves no worse a state and hands every accepted step over, a failure
\* changes nothing of the caller, a step is computed at the state it starts from, and the
\* bundlers that count skipped observations go to no state without any.
SolversHonest ==
  part = "loops" =>
    /\ Loops!SuccessIsNoWorse
    /\ Loops!SuccessHandsEverythingOver
    /\ Loops!FailureChangesNothing
    /\ Loops!StepFromTheCurrentState
    /\ Loops!NeverInfeasible

\* The map of one camera holds what is looked up in it, and no result of its task is
\* lost or comes too late.
\* The two indexes of the map agree after any call, a track has one landmark in all
\* keyframes, only the newest keyframe has no preintegration, and the regular
\* bundle adjustment reads no missing position.
MapsKept ==
  /\ part = "mono" =>
       /\ Mono!MapIsWhole
       /\ Mono!UpdateNotLost
       /\ Mono!PoseInThisMap
       /\ Mono!NothingKeptInVain
  /\ part = "map" =>
       /\ Map!IndexesAgree
       /\ Map!OneLandmarkPerTrack
       /\ Map!LastNotIntegrated
       /\ Map!RegularTaskIsDefined

\* A set of images is of one frame, a saved state has the images of its own, no two
\* cameras share a context, and a written state is no older than what it stands for.
ImagesOfOneFrame ==
  part = "images" =>
    /\ Images!TypeOK
    /\ Images!FramesNotMixed
    /\ Images!StateHasItsImages
    /\ Images!NotShared
    /\ Images!RawIsRecent

\* No call fills an image that the caller or the SLAM thread has, and as long as the
\* caller keeps none of an earlier frame there is always a free one.
HeldImagesStay ==
  [][part = "images" => Images!ImagesUntouched /\ Images!PoolSuffices]_vars
=============================================================================
