------------------------ MODULE GpuNormalEquations ------------------------
(***************************************************************************)
(* The same iteration on the GPU: the kernels of sba_imu_v1.cu for the     *)
(* inertial problem and of sba_v1.cu for the visual one, with the copies   *)
(* of the problem that their hosts make (imu_sba_gpu_fixed_vel.cpp,        *)
(* sba.cpp).  Kernels run one after the other on a stream; the threads of  *)
(* a kernel run together, so what two threads write to one place is the    *)
(* value of either.  Points and keyframes are spread over threads in ways  *)
(* the loops of the CPU know nothing of: lists of observations grouped by  *)
(* point and by keyframe, sums kept while the keyframe stays the same, one *)
(* thread for each block of the matrix, sums over groups of threads.       *)
(***************************************************************************)
EXTENDS NormalEquations, Sequences, SequencesExt

CONSTANTS
  Warp,     \* observations whose costs one group of threads adds up
  Orders    \* orders of the observations in the problem: "by keyframe", "by camera"

VARIABLES device   \* buffers of the GPU; None where the CPU solves

gpuVars == <<vars, device>>

OnDevice == device # None

\* ComputeHuberLoss and its derivative without a robustifier, which no caller
\* gives the residuals of the preintegrations
RobustWeight == Reciprocal(2)

\* The kernels build another problem than the CPU does: the one in which these
\* residuals count half.
GpuInit ==
  \/ device = None /\ Init
  \/ device \in [order : Orders, kernel : {"none"}] /\ InitWithWeight(RobustWeight)

-----------------------------------------------------------------------------
(* CopyToDevice, GPUBundleAdjustmentProblem::set                           *)

Rank(o) ==
  IF device.order = "by camera" THEN 100 * o[3] + 10 * o[1] + o[2] ELSE 100 * o[1] + 10 * o[3] + o[2]

\* the observations of the problem
Listed ==
  [k \in 1 .. Cardinality(Observed) |->
     CHOOSE o \in Observed : Cardinality({p \in Observed : Rank(p) <= Rank(o)}) = k]

\* The inertial host sorts the observations of a point by keyframe.
PointList(q) ==
  LET list == SelectSeq(Listed, LAMBDA o : o[2] = q)
  IN IF WithIMU THEN FoldLeft(LAMBDA acc, i : acc \o SelectSeq(list, LAMBDA o : o[1] = i), <<>>, <<1, 2, 3>>)
     ELSE list

\* The buffers still hold the system of an earlier problem.
Stale == 5

CopyToDevice ==
  /\ OnDevice /\ device.kernel = "none"
  /\ device' = [order |-> device.order, kernel |-> "clear",
                ofPoint |-> [q \in Points |-> PointList(q)],
                ofPose |-> [i \in FreePoses |-> SelectSeq(Listed, LAMBDA o : o[1] = i)],
                pose |-> [ab \in Unknown \X Unknown |-> Stale], poseRhs |-> [a \in Unknown |-> Stale],
                cross |-> [qi \in FreePoints \X FreePoses |-> Stale]]
  /\ UNCHANGED vars

-----------------------------------------------------------------------------
(* build_full_system                                                       *)

\* The visual kernel clears the matrix of the poses with the threads of a grid
\* that is laid out, in squares of 32, for the poses and the points.
Rounded(n) == ((n + 31) \div 32) * 32
Rows(i) == 6 * Cardinality({j \in FreePoses : j <= i})
InGrid(i) == WithIMU \/ Rows(i) <= Rounded(3 * Cardinality(FreePoints))

Cleared(ab) == IF InGrid(ab[2][1]) THEN 0 ELSE device.pose[ab]

ClearFullSystem ==
  /\ OnDevice /\ device.kernel = "clear"
  /\ device' = [device EXCEPT
       !.kernel = "points", !.pose = [ab \in DOMAIN @ |-> Cleared(ab)],
       !.poseRhs = [a \in DOMAIN @ |-> 0], !.cross = [qi \in DOMAIN @ |-> 0]]
  /\ UNCHANGED vars

\* The row of a point in the inertial kernel: a sum is written when the list
\* comes to another keyframe.
FlushedRow(q) ==
  LET row(sums) == IF sums.at = 0 THEN sums.row ELSE [sums.row EXCEPT ![sums.at] = sums.sum]
      add(sums, o) ==
        LET flush == o[1] # sums.at /\ sums.at # 0
            flushed == IF flush THEN [sums EXCEPT !.row = row(sums), !.sum = 0] ELSE sums
        IN IF IsFixed(o[1]) THEN flushed
           ELSE [flushed EXCEPT !.sum = @ + CrossOf(o), !.at = o[1]]
  IN row(FoldLeft(add, [row |-> [i \in FreePoses |-> device.cross[<<q, i>>]], sum |-> 0, at |-> 0],
                  device.ofPoint[q]))

\* The visual kernel adds to the row; columns of fixed keyframes are not read.
AddedRow(q) ==
  FoldLeft(LAMBDA row, o : IF IsFixed(o[1]) THEN row ELSE [row EXCEPT ![o[1]] = @ + CrossOf(o)],
           [i \in FreePoses |-> device.cross[<<q, i>>]], device.ofPoint[q])

PointRow(q) == IF WithIMU THEN FlushedRow(q) ELSE AddedRow(q)

\* build_full_system_stage_1_kernel, build_full_system_1_kernel: a point is one
\* group of threads, fixed points are not read.
BuildPoints ==
  LET summed(list, f(_)) == FoldLeft(LAMBDA acc, o : acc + f(o), 0, list) % Prime
      block(o) == Observation(o).weight * Squared(Observation(o).point)
      rhs(o) == -Sign * Observation(o).point * Observation(o).weight * Observation(o).residual
  IN /\ OnDevice /\ device.kernel = "points"
     /\ device' = [device EXCEPT !.kernel = "poses", !.cross = [qi \in DOMAIN @ |-> PointRow(qi[1])[qi[2]] % Prime]]
                  @@ [point |-> [q \in FreePoints |-> summed(device.ofPoint[q], block)],
                      pointRhs |-> [q \in FreePoints |-> summed(device.ofPoint[q], rhs)]]
     /\ UNCHANGED vars

\* The visual kernel adds to the cleared matrix and the inertial one writes.
AddToPose(old, sum) == IF WithIMU THEN sum % Prime ELSE (old + sum) % Prime

Published(full) ==
  [pose |-> full.pose, poseRhs |-> full.poseRhs, point |-> full.point, pointRhs |-> full.pointRhs,
   cross |-> [qa \in FreePoints \X Unknown |-> IF qa[2][2] = "pose" THEN full.cross[<<qa[1], qa[2][1]>>] ELSE 0]]

\* build_full_system_stage_2_kernel, build_full_system_2_kernel: the pose part
\* of a keyframe, which sees the points; it ends the visual system.
BuildPoses ==
  LET summed(list, f(_)) == FoldLeft(LAMBDA acc, o : acc + f(o), 0, list)
      block(o) == Observation(o).weight * Squared(Observation(o).pose)
      rhs(o) == -Sign * Observation(o).pose * Observation(o).weight * Observation(o).residual
      with == [device EXCEPT
                 !.kernel = IF WithIMU THEN "edges" ELSE "reduce",
                 !.pose = [ab \in DOMAIN @ |->
                   IF ab[1] = ab[2] /\ ab[1][2] = "pose"
                   THEN AddToPose(@[ab], summed(device.ofPose[ab[1][1]], block)) ELSE @[ab]],
                 !.poseRhs = [a \in DOMAIN @ |->
                   IF a[2] = "pose" THEN AddToPose(@[a], summed(device.ofPose[a[1]], rhs)) ELSE @[a]]]
  IN /\ OnDevice /\ device.kernel = "poses"
     /\ device' = with
     /\ IF WithIMU THEN UNCHANGED vars
        ELSE step' = "reduce" /\ system' = Published(with) /\ UNCHANGED <<problem, reduced, update>>

-----------------------------------------------------------------------------
(* build_full_system_stage_3_kernel                                        *)

\* A block of threads is a keyframe that is not fixed.  Thread <<x, y>> has the
\* column of part x and the row of part y: 1 to 4 are the parts of the keyframe,
\* 5 to 8 those of the next.
PartNumber == 1 .. 8
PartName(n) == <<"pose", "velocity", "gyro", "acc">>[IF n > 4 THEN n - 4 ELSE n]
PartOf(i, n) == <<IF n > 4 THEN i + 1 ELSE i, PartName(n)>>

\* The blocks of the next keyframe are those of its own threads; the last
\* keyframe has no next.
Returns(i, x, y) == (x > 4 /\ y > 4) \/ (i = 3 /\ (x > 4 \/ y > 4))

Least(x, y) == IF x < y THEN x ELSE y
Greatest(x, y) == IF x < y THEN y ELSE x

\* the edge from keyframe i to the next, with the penalty of edges between
\* keyframes that are not fixed
InnerPenalty == Value(90, "weight")
RandomWalkOfNext(b) == IF b = "acc" THEN Value(100, "weight") ELSE InnerPenalty

NextEdge(i, x, y) ==
  LET least == Least(x, y)  greatest == Greatest(x, y)
      jacobian(n) == InertialJacobian(i, PartOf(i, n))
      inertial == IF greatest < 7 THEN RobustWeight * InnerPenalty * jacobian(least) * jacobian(greatest) ELSE 0
      walk == IF greatest = least + 4 /\ least \in {3, 4} THEN -RandomWalkOfNext(PartName(least))
              ELSE IF x = y /\ x \in {3, 4} THEN RandomWalkOfNext(PartName(x)) ELSE 0
  IN inertial + walk

NextRhs(i, x) ==
  -RobustWeight * InnerPenalty * InertialJacobian(i, PartOf(i, x)) * InertialResidual(i)
  - (IF x \in {3, 4} THEN RandomWalkOfNext(PartName(x)) * BiasDifference(i, PartName(x)) ELSE 0)

PenaltyPrev_inner(i) == InnerPenalty

\* the edge from the keyframe before, which may be the boundary
PenaltyPrev(i) == IF i = problem.fixed + 1 THEN Value(80, "weight") ELSE InnerPenalty
RandomWalkPrev(i, b) == IF b = "acc" THEN Value(100, "weight") ELSE PenaltyPrev(i)

PrevEdge(i, x, y) ==
  LET jacobian(n) == InertialJacobian(i - 1, PartOf(i, n))
      inertial == IF x < 3 /\ y < 3 THEN RobustWeight * PenaltyPrev(i) * jacobian(x) * jacobian(y) ELSE 0
  IN inertial + IF x = y /\ x \in {3, 4} THEN RandomWalkPrev(i, PartName(x)) ELSE 0

PrevRhs(i, x) ==
  (IF x < 3 THEN -RobustWeight * PenaltyPrev(i) * InertialJacobian(i - 1, PartOf(i, x)) * InertialResidual(i - 1) ELSE 0)
  + (IF x \in {3, 4} THEN RandomWalkPrev(i, PartName(x)) * BiasDifference(i - 1, PartName(x)) ELSE 0)

\* What thread <<x, y>> of keyframe i writes, from what it read.
Written(i, x, y, old) ==
  (old + (IF i < 3 THEN NextEdge(i, x, y) ELSE 0) + PrevEdge(i, x, y)
   + IF i = problem.fixed + 1 /\ x = y /\ x \in {3, 4} THEN Prior(PartName(x)) ELSE 0) % Prime

WrittenRhs(i, x, old) ==
  (old + (IF i < 3 THEN NextRhs(i, x) ELSE 0) + PrevRhs(i, x)
   - IF i = problem.fixed + 1 /\ x \in {3, 4} THEN Prior(PartName(x)) * Bias(i, PartName(x)) ELSE 0) % Prime

Threads == {t \in FreePoses \X PartNumber \X PartNumber : ~Returns(t[1], t[2], t[3])}
Place(t) == <<PartOf(t[1], t[3]), PartOf(t[1], t[2])>>

\* Where several threads write a block, any of them may be the last: one choice
\* says whether the blocks of the earlier or of the later keyframe come last.
BuildEdges ==
  /\ OnDevice /\ device.kernel = "edges"
  /\ \E last \in {"earlier", "later"} :
       LET writers(ab) == {t \in Threads : Place(t) = ab}
           writer(ab) == CHOOSE t \in writers(ab) : \A u \in writers(ab) :
                           IF last = "earlier" THEN t[1] <= u[1] ELSE t[1] >= u[1]
           with == [device EXCEPT
             !.kernel = "reduce",
             !.pose = [ab \in DOMAIN @ |-> IF writers(ab) = {} THEN @[ab]
                         ELSE Written(writer(ab)[1], writer(ab)[2], writer(ab)[3], @[ab])],
             !.poseRhs = [a \in DOMAIN @ |->
               WrittenRhs(a[1], CHOOSE x \in 1 .. 4 : PartName(x) = a[2], @[a])]]
       IN device' = with /\ system' = Published(with)
  /\ step' = "reduce" /\ UNCHANGED <<problem, reduced, update>>

-----------------------------------------------------------------------------
(* build_reduced_system, calc_update                                       *)

\* build_reduced_system_stage_1_kernel, reduced_system_stage_1_kernel and
\* reduced_system_stage_12_kernel: a point is one group of threads.
EliminatePoints ==
  /\ OnDevice /\ device.kernel = "reduce"
  /\ IF \E q \in FreePoints : DampedPoint(q) = 0
     THEN step' = "singular" /\ UNCHANGED <<device, problem, system, reduced, update>>
     ELSE LET inverse == [q \in FreePoints |-> Reciprocal(DampedPoint(q))]
          IN /\ device' = [device EXCEPT !.kernel = "schur"]
                 @@ [backsub |-> [qi \in FreePoints \X FreePoses |-> (inverse[qi[1]] * device.cross[qi]) % Prime],
                     reducedRhs |-> [q \in FreePoints |-> (inverse[q] * device.pointRhs[q]) % Prime]]
             /\ UNCHANGED vars

\* the damping of the kernel, where row and column are the same
OnDiagonal(full, out) == out + problem.lambda * full

\* build_reduced_system_stage_2_kernel, reduced_system_stage_2_kernel and
\* reduced_system_stage_3_kernel: a block of threads is an entry of the matrix
\* or of the right hand side; only pose parts have points to sum over.
ReducePoses ==
  LET dot(a, f(_)) == IF a[2] = "pose" THEN SumOf(FreePoints, f) ELSE 0
      entry(a, b) ==
        LET product == IF b[2] = "pose" THEN dot(a, LAMBDA q : device.backsub[<<q, a[1]>>] * device.cross[<<q, b[1]>>]) ELSE 0
            out == device.pose[<<a, b>>] - product
        IN IF a = b THEN OnDiagonal(device.pose[<<a, b>>], out) ELSE out
  IN /\ OnDevice /\ device.kernel = "schur"
     /\ device' = [device EXCEPT !.kernel = "done"]
     /\ reduced' = [backsub |-> [qa \in FreePoints \X Unknown |->
                                   IF qa[2][2] = "pose" THEN device.backsub[<<qa[1], qa[2][1]>>] ELSE 0],
                    pointRhs |-> device.reducedRhs,
                    rows |-> [a \in Unknown |-> [b \in Unknown |-> entry(a, b) % Prime]],
                    rhs |-> [a \in Unknown |->
                      (device.poseRhs[a] - dot(a, LAMBDA q : device.backsub[<<q, a[1]>>] * device.pointRhs[q])) % Prime],
                    pivots |-> [a \in {} |-> a]]
     /\ step' = "solve" /\ UNCHANGED <<problem, system, update>>

\* calc_update_stage_1_kernel, calc_point_update_kernel
PointStep(q, pose) ==
  (device.reducedRhs[q] - SumOf(FreePoses, LAMBDA i : device.backsub[<<q, i>>] * pose[<<i, "pose">>])) % Prime

CalcUpdate ==
  /\ OnDevice /\ step = "solve" /\ DOMAIN reduced.pivots = Unknown
  /\ LET pose == [a \in Unknown |-> reduced.rhs[reduced.pivots[a]]]
     IN update' = [pose |-> pose, point |-> [q \in FreePoints |-> PointStep(q, pose)]]
  /\ step' = "updated"
  /\ UNCHANGED <<problem, system, reduced, device>>

GpuNext ==
  \/ CopyToDevice \/ ClearFullSystem \/ BuildPoints \/ BuildPoses \/ BuildEdges
  \/ EliminatePoints \/ ReducePoses \/ CalcUpdate
  \/ OnDevice /\ Eliminate /\ UNCHANGED device
  \/ ~OnDevice /\ Next /\ UNCHANGED device

GpuSpec == GpuInit /\ [][GpuNext]_gpuVars

-----------------------------------------------------------------------------
(* evaluate_cost, compute_predicted_reduction                              *)

\* evaluate_cost_stage_1_kernel: a keyframe is a thread, which has the prior and
\* the edge to the next keyframe.
PoseThreadCost(i, change) ==
  LET prior == IF i # problem.fixed + 1 THEN 0
               ELSE SumOf(Biases, LAMBDA b : Prior(b) * Squared(Bias(i, b) + change.pose[<<i, b>>]))
      penalty == IF i <= problem.fixed THEN Value(80, "weight") ELSE InnerPenalty
      parts == {i, i + 1} \X Parts
      inertial == InertialResidual(i) + SumOf(parts, LAMBDA a : InertialJacobian(i, a) * Of(change.pose, a))
      walk(b) == BiasDifference(i, b) + Of(change.pose, <<i, b>>) - Of(change.pose, <<i + 1, b>>)
      edge == RobustWeight * penalty * Squared(inertial) + penalty * Squared(walk("gyro"))
              + Value(100, "weight") * Squared(walk("acc"))
  IN prior + IF i # 3 /\ i + 1 > problem.fixed THEN edge ELSE 0

ObservationCost(o, change) ==
  Observation(o).weight * Squared(Observation(o).residual
     + Sign * (Observation(o).pose * Of(change.pose, <<o[1], "pose">>)
               + Observation(o).point * Of(change.point, o[2])))

\* max_partial_costs
PartialCosts == (Cardinality(Observed) + Warp - 1) \div Warp

\* evaluate_cost_stage_2_kernel and evaluate_cost_stage_2_reduce_kernel,
\* evaluate_cost_kernel
ReprojectionCostOnDevice(change) ==
  LET partial(g) == SumOf({k \in DOMAIN Listed : (k - 1) \div Warp = g}, LAMBDA k : ObservationCost(Listed[k], change))
  IN SumOf(0 .. PartialCosts - 1, partial)

CostOnDevice(change) ==
  (ReprojectionCostOnDevice(change) +
   IF WithIMU THEN SumOf(Poses, LAMBDA i : PoseThreadCost(i, change)) ELSE 0) % Prime

CrossTimes_once == 1

\* The visual kernels add the product of points and poses to both terms.
CrossTimes == 2

\* compute_predicted_reduction_stage_1_kernel and 2; v1T_x_M_x_v2, point_term,
\* pose_scaling_term and make_prediction
PredictedOnDevice ==
  LET diagonal(d) == d * (1 + 2 * problem.lambda)
      point(q) == diagonal(device.point[q]) * Squared(update.point[q])
                  + CrossTimes * update.point[q]
                    * SumOf(FreePoses, LAMBDA i : device.cross[<<q, i>>] * update.pose[<<i, "pose">>])
      entry(ab) == update.pose[ab[1]] * update.pose[ab[2]]
                   * IF ab[1] = ab[2] THEN diagonal(device.pose[ab]) ELSE device.pose[ab]
  IN (SumOf(FreePoints, point) + SumOf(Unknown \X Unknown, entry)) % Prime

-----------------------------------------------------------------------------
(* Properties                                                              *)

\* Each step of the kernels is a step of the solver on the CPU or none: the
\* device builds, reduces and solves the system of the problem in which the
\* residuals of the preintegrations count half, and no other term does,
\* whatever the order of the observations and whatever was in its buffers.
LikeTheCPU == [Next]_vars

\* Cost and prediction of the device, computed by other threads than the
\* matrix, agree with it: the cost falls by what is predicted.
DevicePredictionIsExact ==
  OnDevice /\ step = "updated" =>
    (CostOnDevice(NoChange) - CostOnDevice(update) - PredictedOnDevice) % Prime = 0
=============================================================================
