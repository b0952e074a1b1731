----------------------------- MODULE ImuSamples -----------------------------
(***************************************************************************)
(* The IMU samples of visual-inertial odometry: how they are preintegrated *)
(* (imu/imu_preintegration.cpp) since the last frame, since the last       *)
(* keyframe and since the keyframe that poses are integrated from, by the  *)
(* multisensor loop (imu_fusion_context.cpp) and by the stereo one         *)
(* (track_online_inertial.cpp).                                            *)
(*                                                                         *)
(* A sample is its place in `times', the times of all samples ever         *)
(* registered.  Of a preintegration the samples it stores, those that its  *)
(* rotation, velocity and position sum up, and its time dT_s are kept.     *)
(* Whether a frame is located and what the state machine of                *)
(* InertialTracking answers are free; that it answers Ok only when there   *)
(* is a keyframe is InertialTracking!GravityKnownWhenOk.                   *)
(***************************************************************************)
EXTENDS Integers, Sequences, FiniteSets

CONSTANTS
  Period,        \* 1 / calib.frequency()
  StorageSize,   \* of imu_storage_: 1e5
  MapSize,       \* capacity of the map
  MinKeyframes,  \* min_num_kf_for_gravity
  LastTime, MaxSamples  \* bounds of the model: timestamps, and samples

VARIABLES
  multisensor,   \* which of the two loops runs
  last,          \* last_timestamp_ns of the odometry
  lastFrame,     \* last_frame_timestamp_ns, and prev_pose_ts_ns unless `first'
  first,         \* is_first_run
  times,         \* history: when the samples were registered
  upTo,          \* history: samples registered before the last frame
  stored,        \* the oldest sample that imu_storage_ has
  framePart,     \* last_frame_preint_
  keyframePart,  \* last_kf_preint_
  anchored,      \* integ_kf_: the keyframe it starts from, and its preintegration
  keyframes      \* of the map, each with its preintegration up to the next one

samples == <<last, times, stored>>
vars == <<multisensor, last, lastFrame, first, times, upTo, stored, framePart, keyframePart,
          anchored, keyframes>>

Time == 0 .. LastTime
Sample == 1 .. Len(times)
Newest == keyframes[Len(keyframes)]

Smallest(S) == CHOOSE i \in S : \A j \in S : i <= j
Largest(S) == CHOOSE i \in S : \A j \in S : j <= i

-----------------------------------------------------------------------------
(* IMUPreintegration                                                       *)

Preintegration == [samples : SUBSET Sample, summed : SUBSET Sample, time : Int]

Empty == [samples |-> {}, summed |-> {}, time |-> 0]

\* Initialize: the sums start again, the samples stay.
Initialized(p) == [p EXCEPT !.summed = {}, !.time = 0]

\* IntegrateNewMeasurement of sample i, taken at t
Extended(p, i, t) ==
  [samples |-> p.samples \cup {i}, summed |-> p.summed \cup {i},
   time |-> p.time + IF p.samples = {} THEN Period ELSE t - times[Largest(p.samples)]]

\* the time of some samples: a period for the first, then from one to the next
Span(S) == IF S = {} THEN 0 ELSE Period + times[Largest(S)] - times[Smallest(S)]

Whole(S) == [samples |-> S, summed |-> S, time |-> Span(S)]

\* Reintegrate with new biases
Reintegrated(p) == Whole(p.samples)

\* iterate_from_to: the stored samples of an interval, or the next one
FromTo(from, to) ==
  LET since == {i \in stored .. Len(times) : times[i] >= from}
      within == {i \in since : times[i] <= to}
  IN IF from <= to /\ within = {} /\ since # {} THEN {Smallest(since)} ELSE within

\* check_imu_drops, with all numbers of samples multiplied by two periods
Dropped(count, interval) ==
  LET jitter == IF 4 * Period < interval THEN 4 * Period ELSE interval
      missing == 2 * interval - 2 * Period * count - jitter
  IN interval > 0 /\ 10 * missing > 2 * interval

-----------------------------------------------------------------------------

Init ==
  /\ multisensor \in BOOLEAN
  /\ last = -1 /\ lastFrame = -1 /\ first = TRUE
  /\ times = <<>> /\ upTo = 0 /\ stored = 1
  /\ framePart = Empty /\ keyframePart = Empty
  /\ anchored = [at |-> -1, part |-> Empty]
  /\ keyframes = <<>>

\* RegisterImuMeasurement and add_measurement
Register(t) ==
  LET i == Len(times) + 1
  IN /\ t >= last /\ i <= MaxSamples
     /\ last' = t
     /\ times' = Append(times, t)
     /\ stored' = IF i - stored >= StorageSize THEN stored + 1 ELSE stored
     /\ framePart' = Extended(framePart, i, t)
     /\ keyframePart' = Extended(keyframePart, i, t)
     /\ anchored' = [anchored EXCEPT !.part = Extended(@, i, t)]
     /\ UNCHANGED <<multisensor, lastFrame, first, upTo, keyframes>>

\* integ_kf_ starts again from the newest keyframe.
Anchored(ts) == [at |-> Newest.time, part |-> Whole(FromTo(Newest.time, ts))]

\* The callback estimates gravity from all keyframes; each integrates again.
Reestimated(kfs) ==
  [k \in DOMAIN kfs |-> [kfs[k] EXCEPT !.part = IF @ = <<>> THEN @ ELSE <<Reintegrated(@[1])>>]]

\* add_keyframe: the preintegration is that of the keyframe before.
Committed(kfs, ts, part) ==
  LET linked == [k \in DOMAIN kfs |->
                  IF k = Len(kfs) THEN [kfs[k] EXCEPT !.part = <<part>>] ELSE kfs[k]]
      all == Append(linked, [time |-> ts, upTo |-> Len(times), part |-> <<>>])
  IN IF Len(kfs) >= MapSize THEN Tail(all) ELSE all

\* A pose is found by PnP, or integrated from the IMU, or the frame is the first.
Tracked(ts, key, located, trusted, estimated) ==
  LET since == IF first THEN framePart ELSE keyframePart
      kfs == IF estimated THEN Reestimated(keyframes) ELSE keyframes
      commits == key /\ (multisensor \/ located \/ ~trusted)
  IN /\ located => keyframes # <<>>
     /\ trusted => ~first /\ keyframes # <<>>
     /\ estimated =>
          /\ located /\ Len(keyframes) >= MinKeyframes
          /\ ~first => ~Dropped(Cardinality(framePart.samples), ts - lastFrame)
     /\ first \/ located \/ trusted
     /\ anchored' = IF keyframes # <<>> THEN Anchored(ts) ELSE [at |-> -1, part |-> framePart]
     /\ keyframes' = IF commits THEN Committed(kfs, ts, since) ELSE kfs
     /\ keyframePart' = IF commits THEN Empty ELSE since
     /\ framePart' = Empty
     /\ first' = FALSE /\ lastFrame' = ts /\ last' = ts /\ upTo' = Len(times)
     /\ UNCHANGED <<multisensor, times, stored>>

\* reset of the solver, which clears the storage but of the preintegrations only
\* the sums, and of the map
Reset(ts, frame, part) ==
  /\ framePart' = Initialized(frame)
  /\ keyframePart' = Initialized(keyframePart)
  /\ anchored' = [at |-> -1, part |-> IF multisensor THEN Empty ELSE Initialized(part)]
  /\ stored' = Len(times) + 1
  /\ keyframes' = <<>>
  /\ first' = TRUE /\ lastFrame' = ts /\ last' = ts /\ upTo' = Len(times)
  /\ UNCHANGED <<multisensor, times>>

\* No pose: the frame loop ends with a new preintegration, and is reset.
Lost(ts) ==
  /\ ~first
  /\ Reset(ts, Empty, IF keyframes # <<>> THEN Anchored(ts).part ELSE anchored.part)

\* No images, or no features: the solver is reset without a frame.
FeaturesLost(ts) == Reset(ts, framePart, anchored.part)

Next ==
  \E t \in Time :
    \/ Register(t)
    \/ /\ t > lastFrame /\ t >= last
       /\ \/ Lost(t)
          \/ FeaturesLost(t)
          \/ \E key, located, trusted, estimated \in BOOLEAN :
               Tracked(t, key, located, trusted, estimated)

Spec == Init /\ [][Next]_vars

-----------------------------------------------------------------------------
(* Properties                                                              *)

TypeOK ==
  /\ multisensor \in BOOLEAN /\ first \in BOOLEAN
  /\ last \in Time \cup {-1} /\ lastFrame \in Time \cup {-1}
  /\ times \in Seq(Time) /\ upTo \in 0 .. Len(times) /\ stored \in 1 .. Len(times) + 1
  /\ framePart \in Preintegration /\ keyframePart \in Preintegration
  /\ anchored \in [at : Time \cup {-1}, part : Preintegration]
  /\ keyframes \in Seq([time : Time, upTo : 0 .. Len(times),
                        part : Seq(Preintegration)])

\* The preintegration between two keyframes has the samples that came after the frame
\* of the one and before the frame of the other, each once, although Initialize leaves
\* the samples of before a reset in last_kf_preint_ and Reintegrate would sum them up.
FactorsHaveTheirSamples ==
  \A k \in 1 .. Len(keyframes) - 1 :
    keyframes[k].part = <<Whole(keyframes[k].upTo + 1 .. keyframes[k + 1].upTo)>>

\* The next frame is solved, and the next keyframe linked, with the samples since
\* the last one, whatever happened before.
LivePartsAreRecent ==
  /\ ~first => framePart = Whole(upTo + 1 .. Len(times))
  /\ keyframes # <<>> => keyframePart = Whole(Newest.upTo + 1 .. Len(times))

\* A pose that is integrated starts at a keyframe and uses all samples since, or as
\* many as the storage has.
IntegratesFromKeyframe ==
  anchored.at # -1 =>
    LET since == {i \in Sample : times[i] >= anchored.at}
    IN /\ anchored.part = Whole(anchored.part.samples)
       /\ anchored.part.samples \subseteq since
       /\ \/ anchored.part.samples = since
          \/ /\ Len(times) > StorageSize
             /\ Len(times) - StorageSize + 1 .. Len(times) \subseteq anchored.part.samples

\* An interval without a sample is reported, one with a sample in each period is not
\* ("normal sub-sample phase offsets don't flag as drops", imu_fusion_context.cpp).
DropsAreJudged ==
  \A ts \in Time :
    ~first /\ ts > lastFrame =>
      LET count == Cardinality(framePart.samples)
          interval == ts - lastFrame
      IN /\ count = 0 => Dropped(count, interval)
         /\ interval > Period /\ (count + 1) * Period >= interval => ~Dropped(count, interval)
=============================================================================
