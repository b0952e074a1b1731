------------------------------ MODULE MapParts ------------------------------
(***************************************************************************)
(* Parts of the map and of SLAM that share no state, checked in one run    *)
(* and proved together: the views of a reader, the landmark index with its *)
(* databases, the poses of past frames, and the frame loop of the          *)
(* odometries.  Poses are of any group (PoseGroup); the run takes the one  *)
(* of a rig that turns.                                                    *)
(***************************************************************************)
EXTENDS PoseGroup, Sequences, FiniteSets

CONSTANTS
  \* Views
  ViewCapacity, MaxItems, MaxTime,
  \* LandmarkStore
  KeyFrame, Cell, MaxInCell, CacheChoices, MaxLandmarkId,
  \* FrameLookup
  Motion, MaxFrame,
  \* OdometryFrames
  Kinds, Steps, KeyframeCapacity, FrameObservations, LastTrack, LastTime

\* The code keeps cells sorted; the map has room for keyframes and a view for items.
ASSUME MapPartsAssumption ==
  /\ ViewCapacity \in Nat \ {0} /\ MaxItems \in Nat /\ MaxTime \in Nat
  /\ Cell \subseteq Nat /\ MaxInCell \in Nat /\ CacheChoices \subseteq BOOLEAN /\ MaxLandmarkId \in Nat
  /\ Motion \subseteq Pose /\ MaxFrame \in Nat
  /\ Steps \subseteq Int /\ KeyframeCapacity \in Nat \ {0} /\ FrameObservations \in Nat \ {0}
  /\ LastTrack \in Nat /\ LastTime \in Nat

VARIABLES
  part,   \* the part that runs
  layer, pool, view, writing, reading, seen, now,
  staged, active, cell, dead, next, cachePath, attached, cached, stored,
  frames, odometry, track, trajectory, queue, hypothesis, sources, removed,
  looped,
  kind, frameTime, published, world, known, guess, solver, recent, located,
  visible, nextTrack, lifted, depthMap, streak, checkpoint

Views == INSTANCE Views WITH Capacity <- ViewCapacity
Landmarks == INSTANCE LandmarkStore WITH saved <- stored
Lookup == INSTANCE FrameLookup
\* The loop is not loaded into while it runs (run OdometryFrames_rewound shows why).
Frames == INSTANCE OdometryFrames WITH
  MinObservations <- FrameObservations, now <- frameTime, Rewinds <- FALSE

views == <<layer, pool, view, writing, reading, seen, now>>
landmarks == <<staged, active, cell, dead, next, cachePath, attached, cached, stored>>
lookup == <<frames, odometry, track, trajectory, queue, hypothesis, sources, removed,
    looped>>
odometryFrames == <<kind, frameTime, published, world, known, guess, solver, recent, located,
    visible, nextTrack, lifted, depthMap, streak, checkpoint>>

vars == <<part, views, landmarks, lookup, odometryFrames>>

Off == "off"

NoViews ==
  /\ layer = Off /\ pool = Off /\ view = Off /\ writing = Off /\ reading = Off
  /\ seen = Off /\ now = Off

NoLandmarks ==
  /\ staged = Off /\ active = Off /\ cell = Off /\ dead = Off /\ next = Off
  /\ cachePath = Off /\ attached = Off /\ cached = Off /\ stored = Off

NoLookup ==
  /\ frames = Off /\ odometry = Off /\ track = Off /\ trajectory = Off /\ queue = Off
  /\ hypothesis = Off /\ sources = Off /\ removed = Off /\ looped = Off

NoOdometryframes ==
  /\ kind = Off /\ frameTime = Off /\ published = Off /\ world = Off /\ known = Off
  /\ guess = Off /\ solver = Off /\ recent = Off /\ located = Off /\ visible = Off
  /\ nextTrack = Off /\ lifted = Off /\ depthMap = Off /\ streak = Off
  /\ checkpoint = Off

Init ==
  /\ part \in {"views", "landmarks", "lookup", "odometryFrames"}
  /\ IF part = "views" THEN Views!Init ELSE NoViews
  /\ IF part = "landmarks" THEN Landmarks!Init ELSE NoLandmarks
  /\ IF part = "lookup" THEN Lookup!Init ELSE NoLookup
  /\ IF part = "odometryFrames" THEN Frames!Init ELSE NoOdometryframes

Next ==
  \/ part = "views" /\ Views!Next /\ UNCHANGED <<part, landmarks, lookup, odometryFrames>>
  \/ part = "landmarks" /\ Landmarks!Next /\ UNCHANGED <<part, views, lookup, odometryFrames>>
  \/ part = "lookup" /\ Lookup!Next /\ UNCHANGED <<part, views, landmarks, odometryFrames>>
  \/ part = "odometryFrames" /\ Frames!Next /\ UNCHANGED <<part, views, landmarks, lookup>>

Spec == Init /\ [][Next]_vars

-----------------------------------------------------------------------------
(* Properties                                                              *)

\* What a reader copies is one publication, and a sparse publication of the map
\* fits its view and fills half of it.
\* Past poses are those of odometry until a loop is closed, the frames of a keyframe
\* move as one, and a frame that has a pose keeps one.
AnswersRight ==
  /\ part = "views" => Views!OnePublication /\ Views!UsesTheView
  /\ part = "lookup" =>
       /\ Lookup!PastPosesFollowOdometry
       /\ Lookup!SegmentsStayRigid
       /\ Lookup!FoundFramesStayFound

\* A landmark stays in a cell, the first of which lists it, until it is dead; every
\* active landmark has a descriptor; what a saved map lists can be compared.
\* The poses of the odometry, its solver and the publication agree, the motion is of the
\* last frames, and a track that is not triangulated again has a position.
MapInStep ==
  /\ part = "landmarks" =>
       /\ Landmarks!TypeOK
       /\ Landmarks!Findable
       /\ Landmarks!FirstCellLists
       /\ Landmarks!DescriptorsReadable
       /\ Landmarks!SavedIsComplete
  /\ part = "odometryFrames" =>
       /\ Frames!PosesAgree
       /\ Frames!KnownIsRecent
       /\ Frames!TriangulatedAreLocated
       /\ Frames!TracksAreOld

\* What another has or relies on is not taken back: a reader gets no older publication,
\* a save loses no landmark, and the published pose goes on from where it was.
HeldStays ==
  [][
    /\ part = "views" => Views!NeverBack
    /\ part = "landmarks" =>
         /\ Landmarks!SaveKeepsLandmarks
         /\ Landmarks!OnlyReducedDisappear
    /\ part = "odometryFrames" => Frames!PoseContinues]_vars
=============================================================================
