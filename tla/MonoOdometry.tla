---------------------------- MODULE MonoOdometry ----------------------------
(***************************************************************************)
(* The odometry of one camera (pipelines/track_online_mono.cpp): a map of  *)
(* a few keyframes, extended at every keyframe by the frame loop and       *)
(* refined meanwhile by a task on another thread that has a copy of it.    *)
(* Frames that come before the task is over are kept, and their poses are  *)
(* computed again from the refined map.                                    *)
(*                                                                         *)
(* A frame is the set of tracks it observes.  Whether a pose, a relative   *)
(* transformation or a position is found is any choice that the guards of  *)
(* the code leave.  Poses are known by the frame they are of.              *)
(***************************************************************************)
EXTENDS Integers, Sequences, FiniteSets, SequencesExt

CONSTANTS
  MaxKeyframes,   \* MAXIMUM_NUM_OF_KEYFRAMES, 10
  Constrained,    \* n_constained_frames, 3
  MinPoints,      \* MINIMUM_NUMBER_OF_POINTS of ComputeFundamental, 8
  MaxFrame,       \* bound of the model: frames
  MaxTrack        \* bound of the model: tracks

VARIABLES
  frame,          \* the number of the next frame
  view,           \* the tracks of the last frame
  map,            \* map_ and keyframesForSBA_
  lastKeyframe,   \* lastKeyframe_
  started,        \* startResectioning_
  nodal,          \* nodalCamera_
  prev,           \* the frame whose pose prevCamMat_ is, NoFrame when it is undefined
  task,           \* bgFrameProcResult_: "none", "running", "done", "crashed"
  copy,           \* sba_map_ and what the task returns
  ahead,          \* ahead_sba_observations_, with the numbers of the frames
  thrown          \* a keyframe was not found in the map

mvars == <<frame, view, map, lastKeyframe, started, nodal, prev, task, copy, ahead, thrown>>

NoFrame == -1

-----------------------------------------------------------------------------
(* The map: keys are the keyframes in order, seen the observations of each, *)
(* last what a track knows as its last frame, and located the tracks that   *)
(* have a position.                                                         *)

EmptyMap == [keys |-> <<>>, seen |-> <<>>, last |-> <<>>, located |-> {}]

\* add_frame_to_map, and the push to keyframesForSBA_ that follows
Added(m, f, tracks) ==
  [m EXCEPT !.keys = Append(@, f),
            !.seen = [k \in DOMAIN @ \cup {f} |-> IF k = f THEN tracks ELSE @[k]],
            !.last = [t \in DOMAIN @ \cup tracks |-> IF t \in tracks THEN f ELSE @[t]]]

\* Tracks whose last frame is the first keyframe that is kept are dropped too.
Eradicated_too_many(m) ==
  IF Len(m.keys) <= MaxKeyframes THEN m
  ELSE LET keys == SubSeq(m.keys, Len(m.keys) - MaxKeyframes + 1, Len(m.keys))
           kept == {t \in DOMAIN m.last : m.last[t] > keys[1]}
       IN [keys |-> keys, seen |-> [k \in ToSet(keys) |-> m.seen[k]],
           last |-> [t \in kept |-> m.last[t]], located |-> m.located \cap kept]

\* restartFromKeyframe: MustWait leaves it no task to drop.
Restarted(f, tracks) == Added(EmptyMap, f, tracks)

\* eradicatePast
Eradicated(m) ==
  IF Len(m.keys) <= MaxKeyframes THEN m
  ELSE LET keys == SubSeq(m.keys, Len(m.keys) - MaxKeyframes + 1, Len(m.keys))
           kept == {t \in DOMAIN m.last : m.last[t] >= keys[1]}
       IN [keys |-> keys, seen |-> [k \in ToSet(keys) |-> m.seen[k]],
           last |-> [t \in kept |-> m.last[t]], located |-> m.located \cap kept]

\* triangulateTracks: tracks without a position that this frame shares with the last
\* keyframe, and that were not purged, may get one.
Triangulated(m, shared) == {[m EXCEPT !.located = @ \cup new] : new \in SUBSET shared}

\* The keyframes that sparseBA moves
Free(keys) ==
  LET constrained == IF Len(keys) <= Constrained THEN Constrained - 1 ELSE Constrained
  IN {keys[i] : i \in constrained + 1 .. Len(keys)}

\* DoWinsorization: a track of a moved keyframe may lose its position.  The rest of
\* sparseBA only moves poses and positions (MonoBundle).
Winsorized(m, keys) ==
  LET observed == UNION {m.seen[k] : k \in Free(keys)}
  IN {[m EXCEPT !.located = @ \ lost] : lost \in SUBSET (m.located \cap observed)}

\* getTracksForEpipolar
Shared(tracks) == IF map.keys = <<>> THEN {} ELSE map.seen[lastKeyframe] \cap tracks

\* presetResectioning: does the frame observe anything in the map?
HasPoints(m, infinity, tracks) ==
  tracks \cap (m.located \cup (infinity \cap DOMAIN m.last)) # {}

\* resectioning: is a pose found?
Resectioned(m, infinity, tracks) == IF HasPoints(m, infinity, tracks) THEN BOOLEAN ELSE {FALSE}

-----------------------------------------------------------------------------

\* Frame 0 may have been refused after it was numbered.
Init ==
  /\ frame \in {0, 1} /\ view = {}
  /\ map = EmptyMap /\ copy = EmptyMap /\ lastKeyframe = 0
  /\ started = FALSE /\ nodal = FALSE /\ prev = 0
  /\ task = "none" /\ ahead = <<>> /\ thrown = FALSE

\* The task on the other thread: sparseBA twice
EndTask ==
  /\ task = "running"
  /\ \/ /\ task' = "done"
        /\ copy' \in Winsorized(copy, copy.keys)
     \/ task' = "crashed" /\ copy' = copy
  /\ UNCHANGED <<frame, view, map, lastKeyframe, started, nodal, prev, ahead, thrown>>

\* The list of frames is left as it is.
Remaining_kept == ahead

\* ahead_sba_observations_.clear()
Remaining == IF task \in {"done", "crashed"} THEN <<>> ELSE ahead

\* bgFrameProcResult_ after its result was taken, if it was there
Pending == IF task = "running" THEN "running" ELSE "none"

\* processBGFrameProcResult: the map it leaves, and the frames whose pose prevCamMat_
\* may be then: the keyframe of the task, or a later frame that could be resectioned.
\* The pose that is assigned after a crash was never set.
Merged == IF task = "done" THEN [map EXCEPT !.last = copy.last, !.located = copy.located] ELSE map

Replayed ==
  IF task = "crashed" THEN {NoFrame}
  ELSE IF task = "done"
  THEN {Last(copy.keys)} \cup
       {ahead[i].frame : i \in {j \in 1 .. Len(ahead) : TRUE \in Resectioned(Merged, {}, ahead[j].tracks)}}
  ELSE {prev}

\* A keyframe does not wait.
MustWait_never(isKeyFrame) == FALSE

\* A keyframe waits for the task, other frames take its result when it is there.
MustWait(isKeyFrame) == isKeyFrame /\ task = "running"

\* The task is started for a nodal camera too.
Refined_always(m, isNodal) == /\ copy' = m /\ task' = "running"

\* copyWorldToSBA and addTask, unless the camera only turned
Refined(m, isNodal) ==
  IF isNodal THEN copy' = copy /\ task' = "none"
  ELSE copy' = m /\ task' = "running"

\* findHomography on shared tracks that are left: the camera may only have turned.
Homographies == {"homography", "nodal"}

\* The outcomes of findRelativeTransformation on the shared tracks
Relations(shared) ==
  {"none"} \cup (IF Cardinality(shared) >= MinPoints THEN {"essential"} \cup Homographies ELSE {})

\* purgeNonEpipolarTracks
Purged(shared) == SUBSET shared

\* solveFrameRange: it succeeds unless there is no relation; the scale it takes from the
\* map and the rest only change the pose.
SolveFrameRange(relation) == nodal' = (relation = "nodal")

\* A keyframe that is solved against the last one.  Between its triangulations
\* sparseBAchain moves the last four or five keyframes; whether it does for a nodal
\* camera depends on predicted_scale, which solveFrameRange then does not set.
SolveKeyframe(tracks, shared, relation) ==
  \E left \in Purged(shared) : \E triangulated \in Triangulated(Added(Merged, frame, tracks), left) :
    /\ map' = Eradicated(triangulated)
    /\ SolveFrameRange(relation)
    /\ Refined(map', nodal')
  /\ lastKeyframe' = frame /\ started' = TRUE /\ prev' = frame
  /\ UNCHANGED thrown

\* monoSolveNextFrame of a keyframe after the first
Keyframe(tracks, shared, resectioned, pose) ==
  \E relation \in Relations(shared) :
    IF relation # "none" THEN
      SolveKeyframe(tracks, shared, relation)
    ELSE
      /\ IF ~resectioned /\ Cardinality(shared) < MinPoints THEN
           /\ map' = Restarted(frame, tracks)
           /\ lastKeyframe' = frame /\ prev' = (IF pose = NoFrame THEN NoFrame ELSE frame)
         ELSE
           /\ map' = Merged /\ prev' = pose
           /\ UNCHANGED lastKeyframe
      /\ SolveFrameRange(relation)
      /\ started' = resectioned /\ task' = Pending
      /\ UNCHANGED <<copy, thrown>>

\* New tracks, under names that nothing refers to
Unused ==
  1 .. MaxTrack \ (view \cup DOMAIN map.last \cup UNION {ahead[i].tracks : i \in 1 .. Len(ahead)})
New(n) == {t \in Unused : Cardinality({u \in Unused : u <= t}) <= n}

\* monoSolveNextFrame.  The first frame is a keyframe, and a track that is lost never
\* comes back.
Frame ==
  /\ frame <= MaxFrame
  /\ \E isKeyFrame \in BOOLEAN, kept \in SUBSET view, new \in 0 .. 2 :
       LET tracks == kept \cup New(new)
           shared == Shared(tracks)
           infinity == IF nodal THEN shared ELSE {}
       IN /\ (map.keys = <<>> /\ ~thrown => isKeyFrame) /\ ~MustWait(isKeyFrame)
          /\ new <= Cardinality(Unused)
          /\ view' = tracks /\ frame' = frame + 1
          /\ \E before \in Replayed,
                resectioned \in IF started THEN Resectioned(Merged, infinity, tracks) ELSE {FALSE} :
               LET pose == IF resectioned THEN frame ELSE before
               IN /\ IF isKeyFrame THEN
                       /\ ahead' = Remaining
                       /\ IF frame = 0 THEN
                            /\ map' = Added(map, 0, tracks)
                            /\ lastKeyframe' = 0 /\ prev' = 0
                            /\ UNCHANGED <<started, nodal, task, copy, thrown>>
                          ELSE IF map.keys = <<>> THEN
                            \* at(lastKeyframe_) throws.
                            /\ thrown' = TRUE
                            /\ UNCHANGED <<map, lastKeyframe, started, nodal, prev, task, copy>>
                          ELSE Keyframe(tracks, shared, resectioned, pose)
                     ELSE
                       /\ map' = Merged /\ prev' = pose
                       /\ started' = resectioned
                       /\ task' = Pending
                       /\ ahead' = (IF task' = "none" THEN Remaining
                                    ELSE Append(ahead, [frame |-> frame, tracks |-> tracks]))
                       /\ UNCHANGED <<lastKeyframe, nodal, copy, thrown>>

Next == Frame \/ EndTask

Spec == Init /\ [][Next]_mvars

-----------------------------------------------------------------------------
(* Properties                                                              *)

\* What the frame loop and sparseBA look up is there: the keyframes are those with
\* observations, the last of them is lastKeyframe_, the tracks are exactly those a
\* keyframe observes, and only a first frame that was refused makes a keyframe throw.
MapIsWhole ==
  /\ DOMAIN map.seen = ToSet(map.keys) /\ Len(map.keys) <= MaxKeyframes
  /\ DOMAIN map.last = UNION {map.seen[k] : k \in DOMAIN map.seen}
  /\ \A t \in DOMAIN map.last : t \in map.seen[map.last[t]]
  /\ map.located \subseteq DOMAIN map.last
  /\ \A i \in 2 .. Len(map.keys) : map.keys[i - 1] < map.keys[i]
  /\ map.keys # <<>> => lastKeyframe = Last(map.keys) /\ ~thrown
  /\ started => map.keys # <<>>

\* No update is lost when the result of the task replaces the tracks and poses of the
\* map: the map is still the one that was copied, and the frames that are kept are
\* those since its last keyframe.
UpdateNotLost ==
  task # "none" =>
    /\ map.keys = copy.keys /\ map.seen = copy.seen /\ map.last = copy.last
    /\ copy.located \subseteq map.located /\ (task = "running" => copy = map)
    /\ [i \in 1 .. Len(ahead) |-> ahead[i].frame] =
         [i \in 1 .. frame - 1 - lastKeyframe |-> lastKeyframe + i]

\* The pose the next frame starts from is one in this map, of its last keyframe or a
\* later frame, unless the task crashed.
PoseInThisMap == prev # NoFrame /\ map.keys # <<>> => prev >= lastKeyframe

\* Frames are kept for a task only, and none runs for a camera that only turned: the
\* points at infinity belong to the last frame, not to those that are kept.
NothingKeptInVain == (task = "none" => ahead = <<>>) /\ (nodal => task = "none")
=============================================================================
