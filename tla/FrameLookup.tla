---------------------------- MODULE FrameLookup ----------------------------
(***************************************************************************)
(* The poses of past frames (AsyncSlam::GetPoseForFrame and                *)
(* GetPosesForAllFrames).  The tracking thread keeps for every frame its   *)
(* motion since the last keyframe; the keyframe is found again in the      *)
(* graph of the SLAM thread, which adds it later, may merge it into        *)
(* another one and may move it when a loop is closed.                      *)
(*                                                                         *)
(* Keyframes are named by the frame they were made from; the id that the   *)
(* graph gives them ascends with it.  Every call takes slam_mutex_ once.   *)
(***************************************************************************)
EXTENDS PoseGroup, Integers, Sequences, FiniteSets, FiniteSetsExt

CONSTANTS
  Motion,    \* motions between two frames
  MaxFrame   \* bound of the model: frames

VARIABLES
  frames,      \* frames tracked
  odometry,    \* the pose of each frame by odometry alone, and its keyframe
  track,       \* track_data_.from_keyframe
  trajectory,  \* trajectory_: from_keyframe of each frame
  queue,       \* input_queue_: frame id and from_keyframe
  hypothesis,  \* poses of the keyframes of the graph
  sources,     \* values of keyframe_sources_
  removed,     \* keyframe_removed_: new_node and old_node_to_new
  looped       \* a loop has been closed

vars == <<frames, odometry, track, trajectory, queue, hypothesis, sources, removed, looped>>

Frame == 1 .. MaxFrame
NoKeyframe == 0
Nothing == [k \in {} |-> Id]

Init ==
  /\ frames = 0 /\ odometry = Nothing /\ track = Id /\ trajectory = Nothing
  /\ queue = <<>> /\ hypothesis = Nothing /\ sources = {} /\ removed = Nothing
  /\ looped = FALSE

With(f, k, value) == [x \in DOMAIN f \cup {k} |-> IF x = k THEN value ELSE f[x]]

-----------------------------------------------------------------------------
(* The tracking thread                                                     *)

\* VO_ResetFrameData at a keyframe comes before trajectory_ is written.
Kept(moved, keyframe) == IF keyframe THEN Id ELSE moved

\* TrackResult.  The first frame of odometry is a keyframe.
TrackResult ==
  /\ frames < MaxFrame
  /\ \E delta \in Motion, keyframe \in BOOLEAN :
       LET f == frames + 1
           moved == Mul(track, delta)
           last == IF frames = 0 THEN Id ELSE odometry[frames].pose
       IN /\ frames = 0 => keyframe
          /\ frames' = f
          /\ odometry' = With(odometry, f, [pose |-> Mul(last, delta),
                                            keyframe |-> IF keyframe THEN f ELSE odometry[frames].keyframe])
          /\ track' = Kept(moved, keyframe)
          /\ trajectory' = With(trajectory, f, Kept(moved, keyframe))
          /\ queue' = IF keyframe THEN Append(queue, [frame |-> f, from |-> moved]) ELSE queue
  /\ UNCHANGED <<hypothesis, sources, removed, looped>>

-----------------------------------------------------------------------------
(* The SLAM thread                                                         *)

HeadKeyframe == IF sources = {} THEN NoKeyframe ELSE Max(sources)

\* GetCurrentPose
CurrentPose == IF HeadKeyframe = NoKeyframe THEN Id ELSE hypothesis[HeadKeyframe]

\* AddKeyframe for the oldest of the queue
AddKeyframe ==
  /\ queue # <<>>
  /\ hypothesis' = With(hypothesis, queue[1].frame, Mul(CurrentPose, queue[1].from))
  /\ sources' = sources \cup {queue[1].frame}
  /\ queue' = Tail(queue)
  /\ UNCHANGED <<frames, odometry, track, trajectory, removed, looped>>

\* the motion ReduceSingleEdge hands to the callback of SetKeepTrackPoses
ToInstead(merged, into) == Mul(Inv(hypothesis[into]), hypothesis[merged])

\* ReduceKeyframes: a keyframe other than the newest is merged into another.
MergeKeyframe ==
  /\ queue = <<>>
  /\ \E merged, into \in DOMAIN hypothesis \ {HeadKeyframe} :
       /\ merged # into
       /\ removed' = With(removed, merged, [node |-> into, motion |-> ToInstead(merged, into)])
       /\ hypothesis' = [k \in DOMAIN hypothesis \ {merged} |-> hypothesis[k]]
  /\ UNCHANGED <<frames, odometry, track, trajectory, queue, sources, looped>>

\* A closed loop moves the keyframes from one of them on.
CloseLoop ==
  /\ queue = <<>> /\ ~looped
  /\ \E from \in DOMAIN hypothesis, correction \in Motion :
       hypothesis' = [k \in DOMAIN hypothesis |->
                        IF k < from THEN hypothesis[k] ELSE Mul(correction, hypothesis[k])]
  /\ looped' = TRUE
  /\ UNCHANGED <<frames, odometry, track, trajectory, queue, sources, removed>>

Next == TrackResult \/ AddKeyframe \/ MergeKeyframe \/ CloseLoop

Spec == Init /\ [][Next]_vars

-----------------------------------------------------------------------------
(* The lookup                                                              *)

Composed_other_order(older, newer) == Mul(newer, older)

\* one round of the loop over keyframe_removed_
Composed(older, newer) == Mul(older, newer)

SourceOf_before(f) ==
  IF \E k \in sources : k < f THEN Max({k \in sources : k < f}) ELSE Min(sources)

\* the newest keyframe that is not newer than the frame
SourceOf(f) == Max({k \in sources : k <= f})

Replaced_once(k) ==
  IF k \notin DOMAIN removed THEN [node |-> k, motion |-> Id]
  ELSE [node |-> removed[k].node, motion |-> removed[k].motion]

\* the keyframe that stands for k now, and the motion to it
Replaced(k) ==
  LET following[n \in Frame] ==
        IF n \notin DOMAIN removed THEN [node |-> n, motion |-> Id]
        ELSE LET rest == following[removed[n].node]
             IN [node |-> rest.node, motion |-> Composed(rest.motion, removed[n].motion)]
  IN following[k]

FindKeyframeByFrame(f) == Replaced(SourceOf(f))

\* CalcFramePose finds the pose of frames that are not older than the first
\* keyframe of the graph.
IsFound(f) == \E k \in sources : k <= f

\* GetPoseForFrame
PoseForFrame(f) ==
  LET found == FindKeyframeByFrame(f)
  IN Mul(Mul(hypothesis[found.node], found.motion), trajectory[f])

-----------------------------------------------------------------------------
(* Properties                                                              *)

\* the frames whose keyframe the graph has, or has merged
Placed == {f \in DOMAIN trajectory : odometry[f].keyframe \in sources}

\* Until a loop is closed the pose of a past frame is the one that odometry
\* gives, whichever keyframes were merged meanwhile and however often.  (For
\* the frames after a keyframe that is still in the queue this does not hold:
\* they are placed from the keyframe before.)
PastPosesFollowOdometry ==
  ~looped => \A f \in Placed : PoseForFrame(f) = odometry[f].pose

\* A closed loop moves the frames of a keyframe as one: the motion between two
\* of them stays what odometry measured.
SegmentsStayRigid ==
  \A f, g \in Placed :
    odometry[f].keyframe = odometry[g].keyframe =>
      Mul(Inv(PoseForFrame(f)), PoseForFrame(g)) = Mul(Inv(odometry[f].pose), odometry[g].pose)

\* A frame that has a pose keeps it: no merge leads to a keyframe that is gone.
FoundFramesStayFound ==
  \A f \in DOMAIN trajectory : IsFound(f) => FindKeyframeByFrame(f).node \in DOMAIN hypothesis
=============================================================================
