------------------------------ MODULE PoseTail ------------------------------
(***************************************************************************)
(* The tail of recent poses (slam/async_slam/tail.h, tail.cpp).            *)
(*                                                                         *)
(* A keyframe handed to the SLAM thread is not in the pose graph yet; the  *)
(* tail keeps its pose, so that the current pose is                        *)
(*   PG_1 -> ... -> PG_N -> tail_1 -> ... -> tail_tip -> + odometry_delta  *)
(* The main thread appends to it (UpdateTimeByOdometry), the SLAM thread   *)
(* corrects it in the past (UpdatePoseBySLAM).  Every method locks         *)
(* tail_guard_ for its whole body, so each one is a single action here.    *)
(***************************************************************************)
EXTENDS PoseGroup, Integers, Sequences

CONSTANTS
  TsMin, TsMax,   \* std::numeric_limits<int64_t>::min() and max()
  Retention,      \* retention_time_ns_, an unsigned 64-bit integer
  MaxTailLength   \* bound of the model: entries the tail may hold

ASSUME TailAssumption ==
  /\ TsMin \in Int /\ TsMax \in Int /\ TsMin < TsMax
  /\ Retention \in Nat
  /\ MaxTailLength \in Nat \ {0}

VARIABLE tail     \* tail_, oldest entry first

Timestamp == TsMin .. TsMax
Entry == [ts : Timestamp, pose : Pose]

-----------------------------------------------------------------------------
(* The private helpers, as operators on a tail.                            *)

Latest(t) == t[Len(t)].ts

\* The int64_t subtraction is guarded so that it does not wrap.
OldestAllowedTimestamp(t) ==
  IF t = <<>> \/ Retention > TsMax \/ Latest(t) < TsMin + Retention
  THEN TsMin
  ELSE Latest(t) - Retention

TimestampIsRetained(t, ts) ==
  t # <<>> => (ts >= Latest(t) \/ ts >= OldestAllowedTimestamp(t))

\* The first index of t that pruning keeps: the newest entry is never dropped.
FirstKept(t) ==
  CHOOSE k \in 1 .. Len(t) :
    /\ k = Len(t) \/ t[k].ts >= OldestAllowedTimestamp(t)
    /\ \A j \in 1 .. k - 1 : t[j].ts < OldestAllowedTimestamp(t)

PruneOldTail_forgotten(t) == t
PruneOldTail(t) == SubSeq(t, FirstKept(t), Len(t))

\* The first entry that is not older than ts.
FirstNotBefore(t, ts) ==
  CHOOSE k \in 1 .. Len(t) :
    /\ t[k].ts >= ts
    /\ \A j \in 1 .. k - 1 : t[j].ts < ts

-----------------------------------------------------------------------------
(* What the public methods return or leave in the tail.                    *)

OdometryAccepted_never_refused(t, ts) == TRUE
OdometryAccepted(t, ts) == t # <<>> => Latest(t) <= ts

WithOdometry_time_difference(t, ts, p) ==
  PruneOldTail(Append(t, [ts |-> IF t = <<>> THEN ts ELSE ts - t[1].ts, pose |-> p]))
WithOdometry(t, ts, p) ==
  PruneOldTail(Append(t, [ts |-> ts, pose |-> p]))

Corrected_later_entries_only(t, k, p) ==
  LET delta == Mul(Inv(t[k].pose), p)
  IN  [i \in 1 .. Len(t) |->
         IF i <= k THEN t[i] ELSE [t[i] EXCEPT !.pose = Mul(@, delta)]]
Corrected_one_entry(t, k, p) == [t EXCEPT ![k].pose = p]

\* A correction of one past entry is carried to every later entry by
\* multiplying with the same motion on the right.
Corrected(t, k, p) ==
  LET delta == Mul(Inv(t[k].pose), p)
  IN  [i \in 1 .. Len(t) |->
         IF i < k THEN t[i] ELSE [t[i] EXCEPT !.pose = Mul(@, delta)]]

WithSlamPose(t, ts, p) ==
  IF t = <<>> \/ Latest(t) < ts
  THEN << [ts |-> ts, pose |-> p] >>
  ELSE LET k == FirstNotBefore(t, ts)
       IN  IF t[k].pose = p THEN t ELSE Corrected(t, k, p)

-----------------------------------------------------------------------------
Init == tail = <<>>

\* main thread; the caller sees FALSE and the tail is untouched when the tip
\* is newer than the frame
UpdateTimeByOdometry(ts, p) ==
  /\ OdometryAccepted(tail, ts)
  /\ Len(tail) < MaxTailLength
  /\ tail' = WithOdometry(tail, ts, p)

\* SLAM thread, after a pose graph optimisation or a localisation
UpdatePoseBySLAM(ts, p) ==
  /\ TimestampIsRetained(tail, ts)
  /\ tail' = WithSlamPose(tail, ts, p)

Clear == tail' = <<>>

Next ==
  \/ \E ts \in Timestamp, p \in Pose : UpdateTimeByOdometry(ts, p)
  \/ \E ts \in Timestamp, p \in Pose : UpdatePoseBySLAM(ts, p)
  \/ Clear

Spec == Init /\ [][Next]_tail

-----------------------------------------------------------------------------
(* Properties                                                              *)

TypeOK == tail \in Seq(Entry)

\* The tail is in time order: FirstNotBefore and the pruning loop walk it as
\* a sorted list, and an update of the past is applied to a suffix of it.
InTimeOrder ==
  \A i, j \in 1 .. Len(tail) : i < j => tail[i].ts <= tail[j].ts

\* Every entry the tail holds lies in the retention window of its tip, so an
\* entry a correction could still reach is always one the caller may name.
WithinRetention ==
  \A i \in 1 .. Len(tail) : TimestampIsRetained(tail, tail[i].ts)

\* An accepted update of the SLAM thread takes effect where it was aimed: the
\* first pose not older than its timestamp is the pose SLAM computed.
SlamPoseInstalled ==
  [][\A ts \in Timestamp, p \in Pose :
       UpdatePoseBySLAM(ts, p) =>
         /\ tail' # <<>>
         /\ Latest(tail') >= ts
         /\ tail'[FirstNotBefore(tail', ts)].pose = p]_tail

\* A correction of the past keeps every entry's place in the tail and moves
\* no entry older than the one it corrects; the later entries keep their
\* displacement from the corrected entry as seen in the world frame.
CorrectionIsOneShift ==
  [][\A ts \in Timestamp, p \in Pose :
       /\ UpdatePoseBySLAM(ts, p)
       /\ tail # <<>>
       /\ ts <= Latest(tail)
       =>
       LET k == FirstNotBefore(tail, ts)
       IN  /\ Len(tail') = Len(tail)
           /\ \A i \in 1 .. Len(tail) :
                /\ tail'[i].ts = tail[i].ts
                /\ i < k => tail'[i] = tail[i]
                /\ i >= k => Mul(tail'[i].pose, Inv(p))
                             = Mul(tail[i].pose, Inv(tail[k].pose))]_tail

\* A correction of the past keeps the motion between two later poses, as the
\* rig measured it: the tail is a chain of odometry motions (tail.h) and a
\* new estimate of one link's start does not change the links after it.
OdometryMotionsKept ==
  [][\A ts \in Timestamp, p \in Pose :
       /\ UpdatePoseBySLAM(ts, p)
       /\ tail # <<>>
       /\ ts <= Latest(tail)
       =>
       \A i, j \in FirstNotBefore(tail, ts) .. Len(tail) :
         Mul(Inv(tail'[i].pose), tail'[j].pose)
           = Mul(Inv(tail[i].pose), tail[j].pose)]_tail
=============================================================================
