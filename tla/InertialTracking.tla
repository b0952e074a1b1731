-------------------------- MODULE InertialTracking --------------------------
(***************************************************************************)
(* Visual-inertial odometry: the state machine that decides when gravity   *)
(* is estimated and when a pose may be integrated from the IMU             *)
(* (pipelines/tracker_state_machine.cpp), together with the frame loop     *)
(* that feeds it and owns the keyframes, in its two forms: the stereo one  *)
(* (track_online_inertial.cpp) and the multisensor one                     *)
(* (imu_fusion_context.cpp, track_online_multisensor.cpp).                 *)
(*                                                                         *)
(* A frame is one action.  Whether it can be located, whether IMU samples  *)
(* were lost and whether the estimation of gravity converges are free.     *)
(* Frames have strictly increasing timestamps (Odometry::Track), so the    *)
(* timeline and the map are sets of timestamps.                            *)
(***************************************************************************)
EXTENDS Integers, FiniteSets

CONSTANTS
  MinKeyframes,    \* min_num_kf_for_gravity
  MinPeriod, MaxPeriod,  \* min_time_period_ns, max_time_period_ns
  MaxIntegration,  \* max_integration_time_ns
  UpdatePeriod,    \* gravity_update_period_ns
  Capacity,        \* of the map: 20, as many as min_num_kf_for_gravity
  MaxTime          \* bound of the model: the last timestamp

ASSUME InertialAssumption ==
  /\ MinKeyframes \in Nat \ {0} /\ Capacity \in Nat /\ MinKeyframes <= Capacity
  /\ MinPeriod \in Nat /\ MaxPeriod \in Nat /\ MaxIntegration \in Nat
  /\ UpdatePeriod \in Nat /\ MaxTime \in Nat

VARIABLES
  multisensor,  \* which of the two frame loops runs
  clock,        \* last_frame_timestamp_ns
  sm,           \* the state machine
  keyframes,    \* consecutive_keyframes of the map, by timestamp
  gravity,      \* the map has a gravity
  first,        \* is_first_run, and equivalently prev_pose_ts_ns = -1
  broken        \* history: last frame that was not located or lost samples

vars == <<multisensor, clock, sm, keyframes, gravity, first, broken>>

Time == 0 .. MaxTime
Machine == [state : {"Uninitialized", "Initializing", "Ok"}, timeline : SUBSET Time,
            lastOk : Time \cup {-1}, lastGravity : Time \cup {-1}]

\* reset
Fresh == [state |-> "Uninitialized", timeline |-> {}, lastOk |-> -1, lastGravity |-> -1]

Init ==
  /\ multisensor \in BOOLEAN
  /\ clock = -1 /\ broken = -1
  /\ sm = Fresh
  /\ keyframes = {} /\ gravity = FALSE /\ first = TRUE

-----------------------------------------------------------------------------
(* StateMachine::on_event                                                  *)

ReadyToInit_by_time_alone(m, ts) == \E t \in m.timeline : ts - t >= MinPeriod

ReadyToInit(m, ts) ==
  /\ Cardinality(m.timeline) >= MinKeyframes
  /\ \E t \in m.timeline : ts - t >= MinPeriod

Interrupted_keeps_timeline(m, ts) ==
  IF ts - m.lastOk > MaxIntegration THEN Fresh ELSE m

Interrupted_never_times_out(m, ts) ==
  IF m.state = "Ok" THEN m ELSE [m EXCEPT !.timeline = {}]

\* FrameFailed and FrameDropped
Interrupted(m, ts) ==
  IF ts - m.lastOk > MaxIntegration THEN Fresh
  ELSE IF m.state = "Ok" THEN m ELSE [m EXCEPT !.timeline = {}]

Appended_elapsed_time(m, ts, key) ==
  [m EXCEPT !.lastOk = ts - m.lastOk,
            !.timeline = IF key THEN {t \in @ \cup {ts} : ts - t <= MaxPeriod} ELSE @]

\* FrameOk, before gravity is considered
Appended(m, ts, key) ==
  [m EXCEPT !.lastOk = ts,
            !.timeline = IF key THEN {t \in @ \cup {ts} : ts - t <= MaxPeriod} ELSE @]

EstimationDue(m, ts) ==
  /\ ReadyToInit(m, ts)
  /\ m.state = "Ok" => m.lastGravity >= 0 /\ ts - m.lastGravity > UpdatePeriod

\* FrameOk, when gravity was estimated, was not, and was not asked for
Accepted(m, ts, key, estimated) ==
  LET a == Appended(m, ts, key)
  IN CASE ~EstimationDue(a, ts) -> a
       [] EstimationDue(a, ts) /\ estimated -> [a EXCEPT !.state = "Ok", !.lastGravity = ts]
       [] OTHER -> [a EXCEPT !.state = IF @ = "Ok" THEN @ ELSE "Initializing"]

-----------------------------------------------------------------------------
(* The frame loop                                                          *)

\* gravity_estimation_callback: all keyframes of the map, at least
\* MinKeyframes of them, and an optimisation that may or may not converge.
Estimates(key, ts, converges) ==
  /\ EstimationDue(Appended(sm, ts, key), ts)
  /\ Cardinality(keyframes) >= MinKeyframes
  /\ converges

WithKeyframe_drops_newest(ts) ==
  LET all == keyframes \cup {ts}
  IN {k \in all : Cardinality({j \in all : j < k}) < Capacity}

\* add_keyframe, which drops the oldest ones above the capacity
WithKeyframe(ts) ==
  LET all == keyframes \cup {ts}
  IN {k \in all : Cardinality({j \in all : j > k}) < Capacity}

SolverReset_keeps_state_machine == sm' = sm /\ first' = TRUE

SolverReset == sm' = Fresh /\ first' = TRUE

\* MultiVisualOdometryBase::reset
Reset == SolverReset /\ keyframes' = {} /\ gravity' = FALSE

\* No images, or the features are lost.
FeaturesLost(ts) ==
  /\ Reset
  /\ clock' = ts /\ broken' = ts

\* The first frame is not located; it may found the map.
FirstFrame(ts, key) ==
  /\ first
  /\ sm' = Interrupted(sm, ts)
  /\ keyframes' = IF key THEN WithKeyframe(ts) ELSE keyframes
  /\ first' = FALSE
  /\ clock' = ts /\ broken' = ts
  /\ UNCHANGED gravity

\* PnP against the landmarks of the map succeeds.
Located(ts, key, dropped, converges) ==
  /\ ~first /\ keyframes # {}
  /\ multisensor /\ sm.state = "Ok" => gravity
  /\ IF dropped
     THEN sm' = Interrupted(sm, ts) /\ broken' = ts /\ UNCHANGED gravity
     ELSE /\ sm' = Accepted(sm, ts, key, Estimates(key, ts, converges))
          /\ gravity' = (gravity \/ Estimates(key, ts, converges))
          /\ UNCHANGED broken
  /\ keyframes' = IF key THEN WithKeyframe(ts) ELSE keyframes
  /\ clock' = ts
  /\ UNCHANGED first

\* PnP fails, or there is no map.  The stereo loop trusts the IMU by the state
\* it read before the event, the multisensor loop by the state after it.
MayIntegrate(ts) ==
  IF multisensor THEN Interrupted(sm, ts).state = "Ok" /\ gravity ELSE sm.state = "Ok"

Integrated(ts, key) ==
  /\ ~first /\ MayIntegrate(ts)
  /\ sm' = Interrupted(sm, ts)
  /\ keyframes' = IF key /\ multisensor THEN WithKeyframe(ts) ELSE keyframes
  /\ clock' = ts /\ broken' = ts
  /\ UNCHANGED <<gravity, first>>

Lost(ts) ==
  /\ ~first /\ ~MayIntegrate(ts)
  /\ Reset
  /\ clock' = ts /\ broken' = ts

Next ==
  /\ UNCHANGED multisensor
  /\ \E ts \in Time : ts > clock /\
       \/ FeaturesLost(ts)
       \/ Lost(ts)
       \/ \E key \in BOOLEAN :
            \/ FirstFrame(ts, key)
            \/ Integrated(ts, key)
            \/ \E dropped, converges \in BOOLEAN : Located(ts, key, dropped, converges)

Spec == Init /\ [][Next]_vars

-----------------------------------------------------------------------------
(* Properties                                                              *)

TypeOK ==
  /\ multisensor \in BOOLEAN /\ gravity \in BOOLEAN /\ first \in BOOLEAN
  /\ clock \in Time \cup {-1} /\ broken \in Time \cup {-1}
  /\ sm \in Machine
  /\ keyframes \in SUBSET Time

\* The state machine and the map are reset by different calls, and gravity
\* lives in the map: while the state is Ok there is a gravity and a map to
\* integrate from (the assertion before runInertialPnP; predict_pose
\* dereferences the gravity without a test).
GravityKnownWhenOk == sm.state = "Ok" => gravity /\ keyframes # {}

\* Until gravity is known no frame since the oldest one in the timeline lost
\* samples or was not located: "the gravity callback fires only on a contiguous
\* stretch of healthy visual frames" (tracker_state_machine.cpp:56-60, which
\* clears the timeline at both events, as the test
\* FrameFailedDuringInitClearsTimeline expects).  The header contradicts it: a
\* failed frame does "NOT clear progress" (tracker_state_machine.h:59-60, :70);
\* that claim is FailureKeepsProgress, and the code does not keep it.  This
\* property holds by either reading, because both frame loops reset the whole
\* machine when a frame is not located before gravity is known (Lost).
HealthyWhileInitialising ==
  sm.state # "Ok" => \A t \in sm.timeline : t > broken

\* What the timeline counts is in the map, or has made room for newer
\* keyframes; and the map holds one keyframe more, the one that founded it.
TimelineInMap ==
  \A t \in sm.timeline :
    \/ t \in keyframes
    \/ Cardinality(keyframes) = Capacity /\ \A k \in keyframes : t < k

\* A pose is integrated from the IMU only if the previous frame came at most
\* MaxIntegration after the last one that was located ("it briefly continues
\* execution using user-provided IMU measurements", cuvslam2.h).
IntegrationIsBrief ==
  [][\A ts \in Time, key \in BOOLEAN :
       Integrated(ts, key) => clock - sm.lastOk <= MaxIntegration]_vars

\* When the state machine asks for gravity the map has the keyframes that its
\* timeline promises, although the current one is not in the map yet: the
\* callback's "not enough keyframes in map" cannot happen.
EstimatorFindsKeyframes ==
  [][sm'.lastOk = clock' /\ sm'.lastOk > sm.lastOk
       /\ EstimationDue([sm' EXCEPT !.state = sm.state, !.lastGravity = sm.lastGravity], clock')
     => Cardinality(keyframes) >= MinKeyframes]_vars

\* Not kept by the code: "Per-frame visual-tracking failures (Event::FrameFailed)
\* do NOT clear progress" (tracker_state_machine.h:59-60, and "no reset" at :70).
\* A frame that is not located and lost no samples is integrated or lost; the
\* event leaves Interrupted, short of the time-out with all that was counted,
\* whatever the loop does to the state machine afterwards.
FailureKeepsProgress ==
  [][\A ts \in Time, key \in BOOLEAN :
       (Integrated(ts, key) \/ Lost(ts)) /\ ts - sm.lastOk <= MaxIntegration
         => Interrupted(sm, ts).timeline = sm.timeline]_vars
=============================================================================
