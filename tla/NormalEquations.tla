-------------------------- MODULE NormalEquations --------------------------
(***************************************************************************)
(* One iteration of the two bundle adjustment solvers on the CPU: the      *)
(* visual one (schur_complement_bundler_cpu.cpp) and the inertial one      *)
(* (imu_sba_fixed_vel.cpp).  Both build the normal equations of a least    *)
(* squares problem, eliminate the points, solve for the poses and predict  *)
(* how much the cost falls, in separate pieces of code that have to agree  *)
(* on which term each keyframe takes part in.                              *)
(*                                                                         *)
(* The problem is linear and a number stands for each block of a matrix:   *)
(* a keyframe has one for its pose, and with an IMU one for velocity and   *)
(* for each bias.  Numbers are those of a finite field, in which the       *)
(* identities of exact arithmetic hold.                                    *)
(***************************************************************************)
EXTENDS Integers, FiniteSets, FiniteSetsExt

CONSTANTS
  Prime,    \* elements of the field
  Seeds,    \* sets of Jacobians, residuals and weights
  Lambdas   \* damping factors

VARIABLES
  problem,  \* the problem
  step,     \* where solve() is
  system,   \* FullSystem
  reduced,  \* ReducedSystem; its pose block is eliminated in place
  update    \* ParameterUpdate

vars == <<problem, step, system, reduced, update>>

None == [none |-> 0]

Element == 0 .. Prime - 1
Reciprocal(a) == CHOOSE b \in Element : (a * b) % Prime = 1
SumOf(S, f(_)) == MapThenSumSet(f, S) % Prime

\* A problem has 3 keyframes and 2 points.
Poses == 1 .. 3
Points == 1 .. 2
Inertials == 1 .. 2

InitWithWeight(weight) ==
  /\ problem \in [kind : {"visual", "imu"}, fixed : 1 .. 2, fixedPoints : 0 .. 1,
                  seed : Seeds, lambda : Lambdas, inertialWeight : {weight}]
  /\ problem.kind = "imu" => problem.fixedPoints = 0
  /\ step = "model" /\ system = None /\ reduced = None /\ update = None

\* The solver counts the residuals of the preintegrations as they are.
Init == InitWithWeight(1)

-----------------------------------------------------------------------------
(* The problem                                                             *)

WithIMU == problem.kind = "imu"
Parts == IF WithIMU THEN {"pose", "velocity", "gyro", "acc"} ELSE {"pose"}

\* The fixed keyframes are the first ones of an inertial problem and the last
\* ones of a visual problem, the fixed points the last ones.
IsFixed(i) == IF WithIMU THEN i <= problem.fixed ELSE i > 3 - problem.fixed
FreePoses == {i \in Poses : ~IsFixed(i)}
FreePoints == {q \in Points : q <= 2 - problem.fixedPoints}
BothFixed(i) == IsFixed(i) /\ IsFixed(i + 1)
Unknown == FreePoses \X Parts

Number(part) ==
  CASE part = "pose" -> 1 [] part = "velocity" -> 2 [] part = "gyro" -> 3 [] part = "acc" -> 4
    [] part = "point" -> 5 [] part = "residual" -> 6 [] part = "weight" -> 7

\* an entry of the model of the seed, for a term t and one of its parts
Value(t, part) == (problem.seed * Number(part) + t * t * Number(part) + t + problem.seed \div 3) % Prime

\* An observation is of a point q in a keyframe i by a camera c; a second camera
\* sees point 1.
Observed == {o \in Poses \X Points \X (1 .. 2) : o[3] = 1 \/ o[2] = 1}
InKeyframe(i) == {o \in Observed : o[1] = i}
OfPoint(q) == {o \in Observed : o[2] = q}

\* UpdateModel, of an observation: Jacobians, the residual and the robust weight
Observation(o) ==
  LET t == 10 * o[1] + o[2] + 5 * (o[3] - 1)
  IN [pose |-> Value(t, "pose"), point |-> Value(t, "point"),
      residual |-> Value(t, "residual"), weight |-> Value(t, "weight")]

\* UpdateModel, of the preintegration between keyframes i and i + 1: the later
\* one has no Jacobian for the biases.
InertialJacobian(i, a) ==
  IF a[1] = i THEN Value(40 + i, a[2])
  ELSE IF a[1] = i + 1 /\ a[2] \in {"pose", "velocity"} THEN Value(50 + i, a[2]) ELSE 0
InertialResidual(i) == Value(40 + i, "residual")
BiasDifference(i, b) == Value(60 + i, b)
Bias(i, b) == Value(70 + i, b)
Biases == {"gyro", "acc"}

\* effective_imu_penalty with the information of the preintegration
Penalty(i) == IF IsFixed(i) /\ ~IsFixed(i + 1) THEN Value(80, "weight") ELSE Value(90, "weight")
RandomWalkPenalty(i, b) == IF b = "acc" THEN Value(100, "weight") ELSE Penalty(i)
WeightedPenalty(i) == problem.inertialWeight * Penalty(i)
Prior(b) == Value(110, b)

\* An inertial residual is prediction minus measurement, a visual one the other
\* way round.
Sign == IF WithIMU THEN 1 ELSE -1

-----------------------------------------------------------------------------
(* EvaluateCost                                                            *)

Squared(a) == a * a

\* the update of an unknown; fixed ones are not updated
Of(change, a) == IF a \in DOMAIN change THEN change[a] ELSE 0

ReprojectionCost(change) ==
  SumOf(Observed, LAMBDA o :
    LET obs == Observation(o)
    IN obs.weight * Squared(obs.residual
         + Sign * (obs.pose * Of(change.pose, <<o[1], "pose">>) + obs.point * Of(change.point, o[2]))))

InertialCost(change) ==
  SumOf({i \in Inertials : ~BothFixed(i)}, LAMBDA i :
    LET unknowns == {a \in Unknown : a[1] \in {i, i + 1}}
    IN WeightedPenalty(i) * Squared(InertialResidual(i) +
         SumOf(unknowns, LAMBDA a : InertialJacobian(i, a) * change.pose[a])))

RandomWalkCost(change) ==
  SumOf({i \in Inertials : ~BothFixed(i)} \X Biases, LAMBDA t :
    RandomWalkPenalty(t[1], t[2]) *
      Squared(BiasDifference(t[1], t[2]) + Of(change.pose, t) - Of(change.pose, <<t[1] + 1, t[2]>>)))

\* The priors hold the biases of the oldest keyframe that is not fixed.
PriorCost(change) ==
  SumOf({problem.fixed + 1} \X Biases, LAMBDA a : Prior(a[2]) * Squared(Bias(a[1], a[2]) + change.pose[a]))

EvaluateCost(change) ==
  (ReprojectionCost(change) +
   IF WithIMU THEN InertialCost(change) + RandomWalkCost(change) + PriorCost(change) ELSE 0) % Prime

NoChange == [pose |-> [a \in Unknown |-> 0], point |-> [q \in FreePoints |-> 0]]

-----------------------------------------------------------------------------
(* BuildFullSystem                                                         *)

PointBlock(q) ==
  SumOf(OfPoint(q), LAMBDA o : Observation(o).weight * Squared(Observation(o).point))

CrossOf(o) == Observation(o).weight * Observation(o).point * Observation(o).pose
PointPoseBlock(q, i) == SumOf(OfPoint(q) \cap InKeyframe(i), CrossOf)

PointRhs(q) ==
  SumOf(OfPoint(q), LAMBDA o : -Sign * Observation(o).point * Observation(o).weight * Observation(o).residual)

\* Only the pose part of a keyframe sees the points.
ReprojectionBlock(a, b) ==
  IF a = b /\ a[2] = "pose"
  THEN SumOf(InKeyframe(a[1]), LAMBDA o : Observation(o).weight * Squared(Observation(o).pose)) ELSE 0

ReprojectionRhs(a) ==
  IF a[2] # "pose" THEN 0
  ELSE SumOf(InKeyframe(a[1]), LAMBDA o :
             -Sign * Observation(o).pose * Observation(o).weight * Observation(o).residual)

\* one of the 64 blocks of the five parts of a keyframe and three of the next
InertialTerm(i, a, b) == WeightedPenalty(i) * InertialJacobian(i, a) * InertialJacobian(i, b)

InertialBlock(a, b) ==
  SumOf({i \in Inertials : ~BothFixed(i)}, LAMBDA i : InertialTerm(i, a, b))

InertialRhs(a) ==
  SumOf({i \in Inertials : ~BothFixed(i)}, LAMBDA i :
    -InertialJacobian(i, a) * WeightedPenalty(i) * InertialResidual(i))

\* of the differences between the biases of two keyframes
RandomWalkBlock(a, b) ==
  IF a[2] # b[2] \/ a[2] \notin Biases THEN 0
  ELSE SumOf({i \in Inertials : ~BothFixed(i)}, LAMBDA i :
         RandomWalkPenalty(i, a[2]) *
           (IF a = b /\ a[1] \in {i, i + 1} THEN 1 ELSE IF a # b /\ {a[1], b[1]} = {i, i + 1} THEN -1 ELSE 0))

RandomWalkRhs(a) ==
  IF a[2] \notin Biases THEN 0
  ELSE SumOf({i \in Inertials : ~BothFixed(i)}, LAMBDA i :
         RandomWalkPenalty(i, a[2]) * BiasDifference(i, a[2]) *
           (IF a[1] = i THEN -1 ELSE IF a[1] = i + 1 THEN 1 ELSE 0))

HasPrior(a) == a[1] = problem.fixed + 1 /\ a[2] \in Biases
PriorBlock(a, b) == IF a = b /\ HasPrior(a) THEN Prior(a[2]) ELSE 0
PriorRhs(a) == IF HasPrior(a) THEN -Prior(a[2]) * Bias(a[1], a[2]) ELSE 0

PoseBlock(a, b) ==
  (ReprojectionBlock(a, b) +
   IF WithIMU THEN InertialBlock(a, b) + RandomWalkBlock(a, b) + PriorBlock(a, b) ELSE 0) % Prime

PoseRhs(a) ==
  (ReprojectionRhs(a) +
   IF WithIMU THEN InertialRhs(a) + RandomWalkRhs(a) + PriorRhs(a) ELSE 0) % Prime

BuildFullSystem ==
  /\ step = "model" /\ step' = "reduce"
  /\ system' = [pose |-> [ab \in Unknown \X Unknown |-> PoseBlock(ab[1], ab[2])],
                poseRhs |-> [a \in Unknown |-> PoseRhs(a)],
                point |-> [q \in FreePoints |-> PointBlock(q)],
                pointRhs |-> [q \in FreePoints |-> PointRhs(q)],
                cross |-> [qa \in FreePoints \X Unknown |->
                             IF qa[2][2] = "pose" THEN PointPoseBlock(qa[1], qa[2][1]) ELSE 0]]
  /\ UNCHANGED <<problem, reduced, update>>

-----------------------------------------------------------------------------
(* BuildReducedSystem                                                      *)

\* the diagonal of V with its damping
DampedPoint(q) == (system.point[q] * (1 + problem.lambda)) % Prime

DampingOf_reduced(a, schur) == schur

\* What damping multiplies is the full system, not the reduced one.
DampingOf(a, schur) == system.pose[<<a, a>>]

\* what remains of the pose block and its right hand side (Y * W^T, Y * point_rhs)
WithoutPoints(backsub, a, b) ==
  system.pose[<<a, b>>] - SumOf(FreePoints, LAMBDA q : backsub[<<q, a>>] * system.cross[<<q, b>>])
RhsWithoutPoints(backsub, a) ==
  system.poseRhs[a] - SumOf(FreePoints, LAMBDA q : backsub[<<q, a>>] * system.pointRhs[q])

\* A point whose block has no inverse is beyond this model of exact numbers.
BuildReducedSystem ==
  /\ step = "reduce"
  /\ IF \E q \in FreePoints : DampedPoint(q) = 0
     THEN step' = "singular" /\ UNCHANGED reduced
     ELSE LET inverse == [q \in FreePoints |-> Reciprocal(DampedPoint(q))]
              backsub == [qa \in FreePoints \X Unknown |-> (system.cross[qa] * inverse[qa[1]]) % Prime]
              schur(a, b) == WithoutPoints(backsub, a, b)
          IN /\ step' = "solve"
             /\ reduced' = [backsub |-> backsub,
                            pointRhs |-> [q \in FreePoints |-> (inverse[q] * system.pointRhs[q]) % Prime],
                            rows |-> [a \in Unknown |->
                              [b \in Unknown |-> (schur(a, b) +
                                 IF a = b THEN problem.lambda * DampingOf(a, schur(a, a)) ELSE 0) % Prime]],
                            rhs |-> [a \in Unknown |-> RhsWithoutPoints(backsub, a) % Prime],
                            pivots |-> [a \in {} |-> a]]
  /\ UNCHANGED <<problem, system, update>>

-----------------------------------------------------------------------------
(* ComputeUpdate                                                           *)

\* The linear solver: one unknown is eliminated from all rows but one.
Eliminate ==
  /\ step = "solve" /\ DOMAIN reduced.pivots # Unknown
  /\ LET c == CHOOSE a \in Unknown \ DOMAIN reduced.pivots : TRUE
         free == {r \in Unknown : (\A a \in DOMAIN reduced.pivots : reduced.pivots[a] # r) /\ reduced.rows[r][c] # 0}
     IN IF free = {} THEN step' = "singular" /\ UNCHANGED reduced
        ELSE LET r == CHOOSE x \in free : TRUE
                 scale == Reciprocal(reduced.rows[r][c])
                 factor(x) == IF x = r THEN 1 - scale ELSE reduced.rows[x][c] * scale
             IN /\ reduced' = [reduced EXCEPT
                     !.rows = [x \in Unknown |-> [b \in Unknown |-> (@[x][b] - factor(x) * @[r][b]) % Prime]],
                     !.rhs = [x \in Unknown |-> (@[x] - factor(x) * @[r]) % Prime],
                     !.pivots = [a \in DOMAIN @ \cup {c} |-> IF a = c THEN r ELSE @[a]]]
                /\ UNCHANGED step
  /\ UNCHANGED <<problem, system, update>>

\* the change of a point, from that of the poses
BackSubstituted(q, pose) ==
  (reduced.pointRhs[q] - SumOf(Unknown, LAMBDA a : reduced.backsub[<<q, a>>] * pose[a])) % Prime

ComputeUpdate ==
  /\ step = "solve" /\ DOMAIN reduced.pivots = Unknown
  /\ LET pose == [a \in Unknown |-> reduced.rhs[reduced.pivots[a]]]
     IN update' = [pose |-> pose, point |-> [q \in FreePoints |-> BackSubstituted(q, pose)]]
  /\ step' = "updated"
  /\ UNCHANGED <<problem, system, reduced>>

Next == BuildFullSystem \/ BuildReducedSystem \/ Eliminate \/ ComputeUpdate

Spec == Init /\ [][Next]_vars

-----------------------------------------------------------------------------
(* ComputePredictedRelativeReduction, times the current cost               *)

PoseTerm == SumOf(Unknown \X Unknown, LAMBDA ab : update.pose[ab[1]] * system.pose[ab] * update.pose[ab[2]])
CrossTerm == SumOf(FreePoints \X Unknown, LAMBDA qa : update.point[qa[1]] * system.cross[qa] * update.pose[qa[2]])
PointTerm == SumOf(FreePoints, LAMBDA q : system.point[q] * Squared(update.point[q]))

Scaling_once(term) == problem.lambda * term
Scaling(term) == 2 * problem.lambda * term

PredictedReduction ==
  LET diagonal == SumOf(Unknown, LAMBDA a : system.pose[<<a, a>>] * Squared(update.pose[a]))
  IN (PoseTerm + 2 * CrossTerm + PointTerm + Scaling(diagonal + PointTerm)) % Prime

-----------------------------------------------------------------------------
(* Properties                                                              *)

\* The step solves the damped normal equations of all unknowns, although the
\* points were eliminated and damped apart from the poses.
StepSolvesTheSystem ==
  step = "updated" =>
    /\ \A a \in Unknown :
         (system.poseRhs[a] - problem.lambda * system.pose[<<a, a>>] * update.pose[a]
          - SumOf(Unknown, LAMBDA b : system.pose[<<a, b>>] * update.pose[b])
          - SumOf(FreePoints, LAMBDA q : system.cross[<<q, a>>] * update.point[q])) % Prime = 0
    /\ \A q \in FreePoints :
         (system.pointRhs[q] - DampedPoint(q) * update.point[q]
          - SumOf(Unknown, LAMBDA a : system.cross[<<q, a>>] * update.pose[a])) % Prime = 0

\* On a linear problem the cost falls by what is predicted (rho = 1): cost,
\* matrix, right hand side and prediction count the same terms with the same
\* penalties, for whichever keyframes and points are fixed.
PredictionIsExact ==
  step = "updated" =>
    (EvaluateCost(NoChange) - EvaluateCost(update) - PredictedReduction) % Prime = 0
=============================================================================
