------------------------------ MODULE PoseGroup ------------------------------
(***************************************************************************)
(* Rigid-body poses, abstracted to what the SLAM bookkeeping relies on.    *)
(*                                                                         *)
(* The code keeps every pose and every motion between two poses in an      *)
(* Isometry3T (common/isometry.h, an Eigen transform) and combines them    *)
(* with operator* and inverse().  The modules of this project need only    *)
(* that those two operations form a group, so the group is a parameter:    *)
(* what is proved here holds for the rigid motions of space, and TLC       *)
(* checks the two small groups at the end.                                 *)
(***************************************************************************)
EXTENDS Integers

CONSTANTS
  Pose,       \* the poses: world-from-rig transforms and relative motions
  Mul(_, _),  \* a * b
  Inv(_),     \* a.inverse()
  Id          \* Isometry3T::Identity()

ASSUME PoseGroupAssumption ==
  /\ Id \in Pose
  /\ \A a, b \in Pose : Mul(a, b) \in Pose
  /\ \A a \in Pose : Inv(a) \in Pose
  /\ \A a, b, c \in Pose : Mul(Mul(a, b), c) = Mul(a, Mul(b, c))
  /\ \A a \in Pose : Mul(Id, a) = a /\ Mul(a, Id) = a
  /\ \A a \in Pose : Mul(Inv(a), a) = Id /\ Mul(a, Inv(a)) = Id

-----------------------------------------------------------------------------
(* Two small groups for TLC.                                               *)
(*                                                                         *)
(* A turning pose is <<turned, position>> on a ring of RingSize places:    *)
(* `turned' says whether the rig faces backwards, and a rig facing         *)
(* backwards moves backwards when it moves forward.  This is the smallest  *)
(* group in which rotation and translation do not commute, as in space.    *)
(* A sliding pose never turns: it is a position on the ring.               *)

RingSize == 3

TurningPose == {0, 1} \X (0 .. RingSize - 1)
TurningId == <<0, 0>>
TurningMul(a, b) ==
  << (a[1] + b[1]) % 2,
     (IF a[1] = 1 THEN a[2] - b[2] ELSE a[2] + b[2]) % RingSize >>
TurningInv(a) ==
  << a[1], (IF a[1] = 1 THEN a[2] ELSE RingSize - a[2]) % RingSize >>
\* a step forward, and turning round
TurningSteps == {<<0, 1>>, <<1, 0>>}

SlidingPose == 0 .. RingSize - 1
SlidingId == 0
SlidingMul(a, b) == (a + b) % RingSize
SlidingInv(a) == (RingSize - a) % RingSize
=============================================================================
