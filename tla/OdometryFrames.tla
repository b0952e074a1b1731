--------------------------- MODULE OdometryFrames ---------------------------
(***************************************************************************)
(* The frame loop of the visual odometries: of several cameras             *)
(* (multi_visual_odometry_base.cpp, track_online_multi.cpp), of cameras    *)
(* one of which has depth (rgbd_odometry.cpp, track_online_rgbd.cpp) and   *)
(* of cameras any of which have depth (multisensor_odometry.cpp,           *)
(* track_online_multisensor.cpp without an IMU).  A frame extrapolates the *)
(* motion, follows the features, locates the rig in the map of recent      *)
(* keyframes, may add a keyframe, and hands a motion to Odometry::Track,   *)
(* which adds it to the pose it publishes.                                 *)
(*                                                                         *)
(* The rig moves along a line: a pose is an integer, and composition is    *)
(* addition.  Only the order in which the parts are reset, saved and       *)
(* loaded matters here; the tracker of features, the maps of depth and the *)
(* solvers have modules of their own.                                      *)
(*                                                                         *)
(* Capacity > 0 (map_(20)), MinObservations > 0.                           *)
(***************************************************************************)
EXTENDS Integers, FiniteSets, Sequences

CONSTANTS
  Kinds,            \* of odometry: "multi", "rgbd", "multisensor"
  Steps,            \* bound of the model: how far the rig moves in a frame
  KeyframeCapacity, \* of the map
  MinObservations,  \* of located tracks, min_observations of the solvers
  LastTrack,        \* bound of the model: the last id of a track
  LastTime,         \* bound of the model: the last timestamp
  Rewinds           \* LoadState may be called on a tracker that has run

VARIABLES
  kind,       \* the odometry that runs
  now,        \* timestamp of the last frame
  published,  \* prev_abs_pose of Odometry
  world,      \* prev_world_from_rig_ of the odometry
  known,      \* PosePredictionModel: poses_ and timestamps_ns_
  guess,      \* predicted_world_from_rig of the last frame
  solver,     \* prev_rig_from_world_ of the solver, inverted
  recent,     \* the keyframes of the map: the tracks that each observes
  located,    \* the tracks whose landmark has a position
  visible,    \* the tracks that the feature tracker follows
  nextTrack,  \* the next id of a track, a counter of the process
  lifted,     \* triangulated_tracks_ of the triangulator
  depthMap,   \* the planes and depth points of the multisensor odometry
  streak,     \* history: how many frames in a row were tracked
  checkpoint  \* the saved state, if there is one

vars == <<kind, now, published, world, known, guess, solver, recent, located, visible,
          nextTrack, lifted, depthMap, streak, checkpoint>>

NoDepthMap == [planes |-> FALSE, points |-> FALSE]

Init ==
  /\ kind \in Kinds
  /\ now = 0 /\ published = 0 /\ world = 0 /\ known = <<>> /\ guess = 0 /\ solver = 0
  /\ recent = <<>> /\ located = {} /\ visible = {} /\ nextTrack = 1 /\ lifted = {}
  /\ depthMap = NoDepthMap /\ streak = 0 /\ checkpoint = <<>>

-----------------------------------------------------------------------------
(* PosePredictionModel                                                     *)

\* add_known_pose
WithKnown_keeps_oldest(k, pose, ts) ==
  IF Len(k) = 2 THEN k ELSE Append(k, [pose |-> pose, time |-> ts])

WithKnown(k, pose, ts) ==
  Append(IF Len(k) = 2 THEN Tail(k) ELSE k, [pose |-> pose, time |-> ts])

LastKnownTime(k) == IF k = <<>> THEN 0 ELSE k[Len(k)].time

\* predict: the last motion, scaled to the time that is asked for
Predicted(k, from, to) ==
  IF Len(k) < 2 THEN 0
  ELSE ((k[2].pose - k[1].pose) * (to - from)) \div (k[2].time - k[1].time)

\* do_predict
Guess(ts) == world + Predicted(known, LastKnownTime(known), ts)

-----------------------------------------------------------------------------
(* Keyframes                                                               *)

Kept_forever(new, tracks) == lifted \cup new

\* What triangulate keeps: of the tracks it has triangulated those that are
\* visible, or fewer, because std::set_intersection runs on unordered sets.
Kept(new, tracks) == (lifted \cup new) \cap tracks

\* triangulate: a track that two cameras see and that it does not know yet
Triangulated(tracks) == SUBSET (tracks \ lifted)

\* With depth the tracks of that camera get a position too: lift_mono_tracks
\* and build_keyframe_landmarks.
Lifted(tracks, cameras) == IF cameras = {} THEN {{}} ELSE SUBSET tracks

\* add_keyframe of the map
WithRecent(tracks) ==
  Append(IF Len(recent) = KeyframeCapacity THEN Tail(recent) ELSE recent, tracks)

Observed(keyframes) == UNION {keyframes[i] : i \in DOMAIN keyframes}

AddKeyframe(tracks, cameras) ==
  \E new \in Triangulated(tracks), more \in Lifted(tracks, cameras) :
    /\ recent' = WithRecent(tracks)
    /\ located' = (located \cup new \cup more) \cap Observed(WithRecent(tracks))
    /\ lifted' \in SUBSET Kept(new, tracks)

Keyframe(key, tracks, cameras) ==
  IF key THEN AddKeyframe(tracks, cameras) ELSE UNCHANGED <<recent, located, lifted>>

-----------------------------------------------------------------------------
(* The solvers: where they may place a frame that follows tracks, with the *)
(* cameras that have depth                                                 *)

Moves == {solver + s : s \in Steps}

Enough(tracks) == Cardinality(tracks \cap located) >= MinObservations

\* SolverSfMMulti::solveNextFrame: PnP needs enough tracks; a map that is still
\* empty leaves the pose.
SolveMulti(key, tracks) ==
  /\ recent = <<>> \/ Enough(tracks)
  /\ solver' \in IF recent = <<>> THEN {solver} ELSE Moves
  /\ Keyframe(key, tracks, {})
  /\ UNCHANGED depthMap

\* VisualICP::solve has a result in any case: with nothing to match it is the
\* pose it starts from.
ICPPoses(tracks, cameras) ==
  IF tracks \cap located = {} /\ cameras = {} THEN {solver} ELSE Moves

\* SolverSfMRGBD::solveNextFrame
SolveRGBD(key, tracks, cameras) ==
  /\ solver' \in IF recent = <<>> THEN {solver} ELSE ICPPoses(tracks, cameras)
  /\ Keyframe(key, tracks, cameras)
  /\ UNCHANGED depthMap

\* MultisensorPoseEstimator::solve: tracks, points of depth and planes give
\* factors.  It gives up only with few tracks and no depth at all, and without
\* a factor the pose stays as it is.
EstimatorPoses(tracks, cameras) ==
  LET factors == {f \in {"tracks", "points", "planes"} :
                    CASE f = "tracks" -> Enough(tracks)
                      [] f = "points" -> cameras # {} /\ depthMap.points
                      [] f = "planes" -> cameras # {} /\ depthMap.planes}
  IN CASE factors # {} -> Moves
       [] factors = {} /\ cameras # {} -> {solver}
       [] OTHER -> {}

\* SolverSfMMultisensor::solveNextFrameVisualOnly: the points of depth follow
\* every located frame, the planes every keyframe.
SolveMultisensor(key, tracks, cameras) ==
  /\ solver' \in IF recent = <<>> THEN {solver} ELSE EstimatorPoses(tracks, cameras)
  /\ \E found \in BOOLEAN :
       depthMap' = [points |-> depthMap.points \/ (cameras # {} /\ recent # <<>>),
                    planes |-> depthMap.planes \/ (cameras # {} /\ key /\ found)]
  /\ Keyframe(key, tracks, cameras)

-----------------------------------------------------------------------------
(* The odometries                                                          *)

\* trackNextFrame of the features: some tracks survive and a keyframe may get
\* new ones; a tracker that has nothing to follow makes a keyframe.
Features(key) ==
  {f \in [tracks : SUBSET (visible \cup {nextTrack}), next : {nextTrack, nextTrack + 1}] :
     /\ f.tracks # {} /\ f.next <= LastTrack + 1
     /\ nextTrack \in f.tracks <=> f.next = nextTrack + 1
     /\ nextTrack \in f.tracks => key}

Report_adds_the_solvers_motion(pose, ts) ==
  /\ known' = WithKnown(known, pose, ts)
  /\ published' = published + (pose - solver)
  /\ world' = pose
  /\ streak' = streak + 1

\* The end of track, and increment_pose of Odometry::Track: delta is the motion
\* since the last pose of the odometry.
Report(pose, ts) ==
  /\ known' = WithKnown(known, pose, ts)
  /\ published' = published + (pose - world)
  /\ world' = pose
  /\ streak' = streak + 1

\* MultiVisualOdometryBase::track, when it has a pose
TrackMulti(ts) ==
  \E key \in BOOLEAN : \E f \in Features(key) :
    /\ visible' = f.tracks /\ nextTrack' = f.next
    /\ SolveMulti(key, f.tracks)
    /\ Report(solver', ts)

\* RGBDOdometry::track, with the pyramid of the depth if it could be built
TrackRGBD(ts) ==
  \E key \in BOOLEAN, cameras \in SUBSET {1} : \E f \in Features(key) :
    /\ visible' = f.tracks /\ nextTrack' = f.next
    /\ SolveRGBD(key, f.tracks, cameras)
    /\ Report(solver', ts)

\* MultisensorOdometry::track
TrackMultisensor(ts) ==
  \E key \in BOOLEAN, cameras \in SUBSET {1} : \E f \in Features(key) :
    /\ visible' = f.tracks /\ nextTrack' = f.next
    /\ SolveMultisensor(key, f.tracks, cameras)
    /\ Report(solver', ts)

\* The reset of a solver.  That of the multisensor odometry forgets its pose.
MultisensorReset == solver' = 0 /\ depthMap' = NoDepthMap /\ lifted' = {}

SolverReset_keeps_tracks ==
  IF kind = "multisensor" THEN MultisensorReset ELSE UNCHANGED <<solver, depthMap, lifted>>

SolverReset ==
  IF kind = "multisensor" THEN MultisensorReset
  ELSE lifted' = {} /\ UNCHANGED <<solver, depthMap>>

Reset_keeps_motion ==
  /\ SolverReset
  /\ visible' = {} /\ recent' = <<>> /\ located' = {}
  /\ UNCHANGED known

\* reset: the prediction, the tracker, the solver and the map; not the pose of
\* the odometry, so that motions add up over the loss
Reset ==
  /\ SolverReset
  /\ known' = <<>> /\ visible' = {} /\ recent' = <<>> /\ located' = {}

\* No images, no features, or no pose: a keyframe that was added to the map
\* meanwhile leaves it again, the ids of its tracks stay used.
Lose ==
  /\ Reset
  /\ nextTrack' \in {n \in {nextTrack, nextTrack + 1} : n <= LastTrack + 1}
  /\ streak' = 0
  /\ UNCHANGED <<published, world>>

Frame ==
  \E ts \in now + 1 .. now + 2 :
    /\ ts <= LastTime
    /\ now' = ts
    /\ guess' = Guess(ts)
    /\ UNCHANGED <<kind, checkpoint>>
    /\ \/ kind = "multi" /\ TrackMulti(ts)
       \/ kind = "rgbd" /\ TrackRGBD(ts)
       \/ kind = "multisensor" /\ TrackMultisensor(ts)
       \/ Lose

-----------------------------------------------------------------------------
(* Checkpoints, of which multisensor odometry has none                     *)

Saved_without_motion ==
  [now |-> now, published |-> published, world |-> world, known |-> <<>>, solver |-> solver,
   recent |-> recent, located |-> located, visible |-> visible, next |-> nextTrack,
   streak |-> streak]

\* save_state of the odometry, SaveVoCommonState
Saved ==
  [now |-> now, published |-> published, world |-> world, known |-> known, solver |-> solver,
   recent |-> recent, located |-> located, visible |-> visible, next |-> nextTrack,
   streak |-> streak]

\* SaveState; the bundle adjustment is stopped before.
SaveState ==
  /\ kind # "multisensor" /\ checkpoint = <<>> /\ recent # <<>>
  /\ checkpoint' = <<Saved>>
  /\ UNCHANGED <<kind, now, published, world, known, guess, solver, recent, located,
                 visible, nextTrack, lifted, depthMap, streak>>

\* LoadVoCommonState and load_state of the solver, which leaves the triangulator
\* as it is: empty in a tracker that has just been constructed.
LoadState ==
  /\ checkpoint # <<>> /\ now > checkpoint[1].now
  /\ now' = checkpoint[1].now /\ published' = checkpoint[1].published /\ world' = checkpoint[1].world
  /\ known' = checkpoint[1].known /\ solver' = checkpoint[1].solver /\ recent' = checkpoint[1].recent
  /\ located' = checkpoint[1].located /\ visible' = checkpoint[1].visible
  /\ nextTrack' = checkpoint[1].next /\ streak' = checkpoint[1].streak
  /\ lifted' \in IF Rewinds THEN {{}, lifted} ELSE {{}}
  /\ guess' = checkpoint[1].world
  /\ UNCHANGED <<kind, depthMap, checkpoint>>

Next == Frame \/ SaveState \/ LoadState

Spec == Init /\ [][Next]_vars

-----------------------------------------------------------------------------
(* Properties                                                              *)

\* Three parts keep a pose of their own, and they are reset by different calls:
\* what is published, the sum of all motions, is always where the odometry is,
\* and the solver starts from there, or, in the multisensor odometry after a
\* loss, from the origin with an empty map.
PosesAgree ==
  /\ published = world
  /\ solver = world \/ (kind = "multisensor" /\ recent = <<>> /\ solver = 0)

\* The motion that is extrapolated is that of the last two frames, both tracked
\* since the last loss ("don't do any prediction until two frames tracked
\* successfully"), and it starts at the pose of the odometry.
KnownIsRecent ==
  /\ Len(known) = IF streak < 2 THEN streak ELSE 2
  /\ known # <<>> => known[Len(known)] = [pose |-> world, time |-> now]
  /\ Len(known) = 2 => known[1].time < known[2].time

\* A track that the triangulator will not triangulate again has a position in
\* the map, so that no track is without one for as long as it is visible.
TriangulatedAreLocated == lifted \subseteq located

\* Ids are not given twice: whatever the parts know of tracks is of older ones.
TracksAreOld == visible \cup located \cup lifted \subseteq 1 .. nextTrack - 1

\* The published pose moves by a motion that the solver found, and not at all
\* in a frame that is lost: a loss does not tear the trajectory, except that
\* multisensor odometry starts again at the origin.
PoseContinues ==
  \/ published' - published \in Steps \cup {0}
  \/ kind = "multisensor" /\ recent = <<>> /\ solver = 0 /\ published' = 0
  \/ LoadState
=============================================================================
