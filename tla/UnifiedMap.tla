----------------------------- MODULE UnifiedMap -----------------------------
(***************************************************************************)
(* The map of visual odometry with its contents (map.cpp, landmark.cpp)    *)
(* and the bundle adjustment task that refines them (service_sba.h,        *)
(* winsorizer.cpp).  The tracking thread adds keyframes, clears the map    *)
(* and makes checkpoints; the task works on a submap, whose keyframes and  *)
(* landmarks are those of the map, without the lock of the map.            *)
(*                                                                         *)
(* A landmark is an object: it is named by its track and by the keyframe   *)
(* with which it was made, 0 when a checkpoint was loaded.  Of a position  *)
(* only its origin is kept.  SbaService shows when a task may run; here it *)
(* may start at any time and is waited for before a map is cleared, saved  *)
(* or loaded.                                                              *)
(***************************************************************************)
EXTENDS Integers, Sequences, FiniteSets

CONSTANTS
  TrackId,     \* track ids
  Capacity,    \* capacity_
  SubmapSize,  \* num_sba_frames
  MaxKeyframe  \* bound of the model: keyframes that are added

VARIABLES
  service,   \* SbaService, that with use_sba_winsorizer, or ImuSbaService
  keyframes, \* consecutive_keyframes_
  integrated, \* those with a preintegration
  lists,     \* landmarks_from_keyframe_: landmarks of keyframes and tracks
  seenBy,    \* keyframes_from_landmark_
  position,  \* pose_in_w_ of the landmarks
  gravity,   \* gravity_ has a value
  added,     \* keyframes added so far
  saved,     \* a checkpoint, or none
  task       \* what the task does

map == <<keyframes, integrated, lists, seenBy, gravity>>
vars == <<service, keyframes, integrated, lists, seenBy, position, gravity, added, saved, task>>

Keyframe == 1 .. MaxKeyframe
Landmark == TrackId \X (0 .. MaxKeyframe)
NoLandmark == <<>>
NoTask == [step |-> "idle"]
NoLists == [k \in Keyframe |-> [t \in TrackId |-> NoLandmark]]
Nobody == [t \in TrackId |-> {}]

Init ==
  /\ service \in {"regular", "winsorizing", "inertial"}
  /\ keyframes = <<>> /\ integrated = {} /\ lists = NoLists /\ seenBy = Nobody
  /\ position = [l \in Landmark |-> "none"]
  /\ gravity = FALSE /\ added = 0 /\ saved = <<>> /\ task = NoTask

Listed(k) == {lists[k][t] : t \in TrackId} \ {NoLandmark}
Newest == keyframes[Len(keyframes)]
Elements(seq) == {seq[i] : i \in DOMAIN seq}

-----------------------------------------------------------------------------
(* The tracking thread                                                     *)

LandmarkOf_new(t, k) == <<t, k>>

\* the landmark of a track in any keyframe that sees it, or a new one
LandmarkOf(t, k) ==
  IF seenBy[t] = {} THEN <<t, k>> ELSE lists[CHOOSE j \in seenBy[t] : TRUE][t]

Preintegrated_own(k) == integrated \cup {k}

\* The first keyframe has no preintegration; the one before k gets it.
Preintegrated(k) == IF keyframes = <<>> THEN {} ELSE integrated \cup {Newest}

Unlisted_forgotten(oldest, bySeen) == bySeen

\* remove_tail_keyframe_thread_unsafe: the keyframe leaves both indexes.
Unlisted(oldest, bySeen) ==
  [t \in TrackId |-> IF lists[oldest][t] = NoLandmark THEN bySeen[t] ELSE bySeen[t] \ {oldest}]

\* add_keyframe with the tracks it observes and those it triangulated
AddKeyframe ==
  /\ added < MaxKeyframe /\ task.step # "thrown"
  /\ \E observed \in SUBSET TrackId \ {{}}, triangulated \in SUBSET TrackId :
       LET k == added + 1
           full == Len(keyframes) = Capacity
           oldest == Head(keyframes)
           all == Append(keyframes, k)
           list == [t \in TrackId |-> IF t \in observed THEN LandmarkOf(t, k) ELSE NoLandmark]
           seeing == [t \in TrackId |-> IF t \in observed THEN seenBy[t] \cup {k} ELSE seenBy[t]]
       IN /\ triangulated \subseteq observed
          /\ added' = k
          /\ position' = [l \in Landmark |->
               IF position[l] = "none" /\ \E t \in triangulated : l = LandmarkOf(t, k)
               THEN "triangulated" ELSE position[l]]
          /\ keyframes' = IF full THEN Tail(all) ELSE all
          /\ integrated' = Preintegrated(k) \ (IF full THEN {oldest} ELSE {})
          /\ lists' = [lists EXCEPT ![k] = list,
                                    ![IF full THEN oldest ELSE k] = IF full THEN NoLists[oldest] ELSE list]
          /\ seenBy' = IF full THEN Unlisted(oldest, seeing) ELSE seeing
  /\ UNCHANGED <<service, gravity, saved, task>>

\* set_gravity by the gravity callback of inertial odometry
SetGravity ==
  /\ service = "inertial" /\ keyframes # <<>> /\ ~gravity /\ task.step # "thrown"
  /\ gravity' = TRUE
  /\ UNCHANGED <<service, keyframes, integrated, lists, seenBy, position, added, saved, task>>

\* restart of the service, and clear
Clear ==
  /\ task = NoTask /\ keyframes # <<>>
  /\ keyframes' = <<>> /\ integrated' = {} /\ lists' = NoLists /\ seenBy' = Nobody
  /\ gravity' = FALSE
  /\ UNCHANGED <<service, position, added, saved, task>>

\* restart of the service, and save_state, once (a bound of the model): the
\* landmarks are written once for each track.
SaveState ==
  /\ task = NoTask /\ saved = <<>> /\ keyframes # <<>>
  /\ saved' = <<[keyframes |-> keyframes, integrated |-> integrated, gravity |-> gravity,
                 tracks |-> [k \in Keyframe |-> {t \in TrackId : lists[k][t] # NoLandmark}],
                 position |-> [t \in TrackId |->
                   IF seenBy[t] = {} THEN "none" ELSE position[lists[CHOOSE k \in seenBy[t] : TRUE][t]]]]>>
  /\ UNCHANGED <<service, map, position, added, task>>

\* load_state makes every landmark anew.
LoadState ==
  /\ task = NoTask /\ saved # <<>>
  /\ LET s == saved[1]
     IN /\ keyframes' = s.keyframes /\ integrated' = s.integrated /\ gravity' = s.gravity
        /\ lists' = [k \in Keyframe |-> [t \in TrackId |-> IF t \in s.tracks[k] THEN <<t, 0>> ELSE NoLandmark]]
        /\ seenBy' = [t \in TrackId |-> {k \in Elements(s.keyframes) : t \in s.tracks[k]}]
        /\ position' = [l \in Landmark |-> IF l[2] = 0 THEN s.position[l[1]] ELSE "none"]
  /\ UNCHANGED <<service, added, saved, task>>

-----------------------------------------------------------------------------
(* The bundle adjustment task                                              *)

Chosen_unfiltered(k) == Listed(k)

\* the landmarks get_recent_submap takes from a keyframe: for the regular
\* service those that have a position and are seen from two keyframes
Chosen(k) ==
  IF service = "inertial" THEN Listed(k)
  ELSE {l \in Listed(k) : position[l] # "none" /\ Cardinality(seenBy[l[1]]) > 1}

\* get_recent_submap, at the beginning of service_task
TakeSubmap ==
  /\ task = NoTask /\ keyframes # <<>>
  /\ LET first == IF Len(keyframes) > SubmapSize THEN Len(keyframes) - SubmapSize + 1 ELSE 1
         recent == {keyframes[i] : i \in first .. Len(keyframes)}
     IN task' = [step |-> "count", round |-> 1, last |-> Chosen(Newest),
                 landmarks |-> UNION {Chosen(k) : k \in recent}]
  /\ UNCHANGED <<service, map, position, added, saved>>

\* run_imu_sba instead of run_sba
Fused == service = "inertial" /\ gravity

\* The loop that collects the points: run_imu_sba skips landmarks without a
\* position, run_sba reads the position whether there is one or not.
CountPoints ==
  /\ task.step = "count"
  /\ LET located == {l \in task.landmarks : position[l] # "none"}
     IN task' = [step |-> "observe", round |-> task.round, last |-> task.last,
                 landmarks |-> task.landmarks, fused |-> Fused,
                 points |-> IF Fused THEN located ELSE task.landmarks,
                 undefined |-> IF Fused THEN {} ELSE task.landmarks \ located]
  /\ UNCHANGED <<service, map, position, added, saved>>

\* The loop over the observations looks every landmark up that has a position
\* now: at() throws for one that run_imu_sba has not counted.
CollectObservations ==
  /\ task.step = "observe"
  /\ task' = [task EXCEPT !.step =
       IF {l \in task.landmarks : position[l] # "none"} \subseteq task.points THEN "solve" ELSE "thrown"]
  /\ UNCHANGED <<service, map, position, added, saved>>

Rounds == IF service = "winsorizing" THEN 2 ELSE 1

AfterSolving ==
  IF task.round < Rounds
  THEN [step |-> "winsorize", round |-> 2, last |-> task.last, landmarks |-> task.landmarks]
  ELSE NoTask

\* bundler.solve, which may not succeed; the positions are written back.
WriteBack ==
  /\ task.step = "solve"
  /\ \/ position' = [l \in Landmark |-> IF l \in task.undefined THEN "undefined"
                                        ELSE IF l \in task.points /\ position[l] = "none" THEN "triangulated"
                                        ELSE position[l]]
     \/ UNCHANGED position
  /\ task' = AfterSolving
  /\ UNCHANGED <<service, map, added, saved>>

\* winsorize takes the position from any of the landmarks of the last keyframe
\* whose error is among the largest.
Winsorize ==
  /\ task.step = "winsorize"
  /\ \E outliers \in SUBSET {l \in task.last : position[l] # "none"} :
       position' = [l \in Landmark |-> IF l \in outliers THEN "none" ELSE position[l]]
  /\ task' = [task EXCEPT !.step = "count"]
  /\ UNCHANGED <<service, map, added, saved>>

Next ==
  \/ AddKeyframe \/ SetGravity \/ Clear \/ SaveState \/ LoadState
  \/ TakeSubmap \/ CountPoints \/ CollectObservations \/ WriteBack \/ Winsorize

Spec == Init /\ [][Next]_vars

-----------------------------------------------------------------------------
(* Properties                                                              *)

\* The two indexes of the map list the same pairs of a keyframe in the map and
\* a track, through additions, removals, clearing and checkpoints; add_keyframe
\* and remove_tail_keyframe follow one into the other without looking.
IndexesAgree ==
  \A k \in Keyframe, t \in TrackId :
    k \in seenBy[t] <=> k \in Elements(keyframes) /\ lists[k][t] # NoLandmark

\* "one shared Landmark instance per alive track id" (map.h:122): what the task
\* or a later keyframe learns about a track reaches every keyframe.
OneLandmarkPerTrack ==
  \A t \in TrackId : \A j, k \in seenBy[t] : lists[j][t] = lists[k][t]

\* "last value should always have preint == nullptr!!!" (map.h:136), and all
\* others have one: every motion between keyframes is there once.
LastNotIntegrated ==
  integrated = {keyframes[i] : i \in 1 .. Len(keyframes) - 1}

\* A task of the regular service finds every point it looks up and reads no
\* position that is not there, whatever the tracking thread adds meanwhile.
RegularTaskIsDefined ==
  service = "regular" =>
    /\ task.step # "thrown"
    /\ \A l \in Landmark : position[l] # "undefined"

\* The landmarks that tracking takes from the map are triangulated:
\* track.setLocation3D(point_3d, TrackState::kTriangulated)
\* (track_online_inertial.cpp:576).
LocatedAreTriangulated ==
  \A i \in DOMAIN keyframes : \A l \in Listed(keyframes[i]) : position[l] # "undefined"
=============================================================================
