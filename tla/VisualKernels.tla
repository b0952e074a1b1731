--------------------------- MODULE VisualKernels ----------------------------
(***************************************************************************)
(* Bundle adjustment on the device (schur_complement_bundler_gpu.cpp,      *)
(* cuda_modules/sba.cpp, sba_v1.cu).  The host puts copies, clears and     *)
(* kernels into one stream and goes on; it waits for the stream only       *)
(* before it reads a result.  Here are the grids of the launches, the work *)
(* of their threads, the order of the stream and the size of the arrays;   *)
(* GpuNormalEquations has the numbers.                                     *)
(***************************************************************************)
EXTENDS DeviceWork

CONSTANTS
  PointCounts, PoseCounts, ObservationCounts,  \* sizes of the problems
  MaxSolves, MaxRounds,                        \* bounds
  OptimalPoses,                                \* MAX_OPTIMAL_POSES, 22 in the code
  FirstPoints, FirstPoses                      \* the arrays at first: 3000 and 20 in the code

VARIABLES
  size,    \* of the problem being solved
  room,    \* what the arrays hold
  stream,  \* operations not yet done
  memory,  \* what the arrays contain
  pc, round, solves,
  taken    \* results the host has read before they were there

kernelVars == <<size, room, stream, memory, pc, round, solves, taken>>

Cameras == 2

Sizes ==
  {n \in [points : PointCounts, poses : PoseCounts, fixed : {1}, observations : ObservationCounts] :
     n.points <= n.observations /\ n.observations <= Cameras * n.points * n.poses}

Free(n) == n.poses - n.fixed

Movable == {"points", "poses"}

Arrays ==
  {"rig", "points", "poses", "observations", "model", "full_points", "full_cross",
   "full_poses", "full_rhs", "red_points", "red_cross", "red_poses", "red_rhs", "factor", "pose_step",
   "point_update", "point_step", "pose_update", "cost", "skipped", "max_points", "max_poses",
   "point_hessian", "point_scaling", "pose_scaling", "pose_hessian", "prediction", "lambda",
   "host_cost", "host_max", "host_prediction", "host_points", "host_poses"}

-----------------------------------------------------------------------------
(* The kernels                                                             *)

CalcJacobians(g) ==
  [Idle EXCEPT !.did = <<Strided(g.threads[1], g.n.poses), Strided(g.threads[1], Cameras),
                         Guarded(g, g.n.observations)>>,
               !.reads = {"rig", "points", "poses", "observations"}, !.sets = {"model"}]

ClearBlocks(g) ==
  [Idle EXCEPT !.did = <<Cells(g, 6 * Free(g.n), 3 * g.n.points),
                         Cells(g, 6 * Free(g.n), 6 * Free(g.n))>>,
               !.clears = {"full_cross", "full_poses"}]

ClearRhs(g) == [Idle EXCEPT !.did = <<Guarded(g, 6 * Free(g.n))>>, !.clears = {"full_rhs"}]

\* A thread sums the observations of its point and adds to its own columns.
BuildPointBlocks(g) ==
  [Idle EXCEPT !.did = <<Guarded(g, g.n.points)>>,
               !.reads = {"points", "observations", "model"},
               !.sets = {"full_points"}, !.adds = {"full_cross"}]

BuildPoseBlocks(g) ==
  [Idle EXCEPT !.did = <<BlockEach(g, Free(g.n)), Strided(g.threads[1], g.n.observations)>>
                         \o Summed(g.threads[1]),
               !.reads = {"observations", "model"}, !.adds = {"full_poses", "full_rhs"}]

InvertPointBlocks(g) ==
  [Idle EXCEPT !.did = <<Guarded(g, g.n.points)>>,
               !.reads = {"full_points", "lambda"}, !.sets = {"red_points"}]

EliminateCross(g) ==
  [Idle EXCEPT !.did = <<BlockEach(g, g.n.points), Strided(g.threads[1], 18 * Free(g.n))>>,
               !.reads = {"full_cross", "red_points"}, !.sets = {"red_cross"}]

EliminatePoses(g) ==
  [Idle EXCEPT !.did = <<BlockCells(g, 6 * Free(g.n), 6 * Free(g.n)),
                         Strided(g.threads[1], 3 * g.n.points)>> \o Summed(g.threads[1]),
               !.reads = {"full_cross", "full_poses", "red_cross", "lambda"},
               !.sets = {"red_poses"}]

EliminateRhs(g) ==
  [Idle EXCEPT !.did = <<BlockEach(g, 6 * Free(g.n)), Strided(g.threads[1], 3 * g.n.points)>>
                         \o Summed(g.threads[1]),
               !.reads = {"full_points", "full_rhs", "red_cross"}, !.sets = {"red_rhs"}]

\* The threads of the first row of a block load the step, every thread one
\* element of the matrix, and those of row 0 sum a column each.
ColumnSums(g, rows, columns) ==
  <<[by |-> Same(Up(g.threads[2])), of |-> Up(rows)], Cells(g, columns, rows),
    Guarded(g, columns)>>

CalcPointUpdateXavier(g) ==
  [Idle EXCEPT !.did = ColumnSums(g, 6 * Free(g.n), 3 * g.n.points),
               !.reads = {"red_cross", "red_points", "pose_step"}, !.sets = {"point_update"}]

CalcPointUpdate(g) ==
  [Idle EXCEPT !.did = <<BlockEach(g, 3 * g.n.points), Strided(g.threads[1], 6 * Free(g.n))>>
                         \o Summed(g.threads[1]),
               !.reads = {"red_cross", "red_points", "pose_step"}, !.sets = {"point_update"}]

CalcPoseUpdate(g) ==
  [Idle EXCEPT !.did = <<Guarded(g, Free(g.n))>>,
               !.reads = {"pose_step"}, !.sets = {"pose_update"}]

\* One block: the maximum of a value with itself is that value, so that the
\* lanes may be counted more than once, but each has to be.
ReduceAbsMax(g, step, length, result) ==
  [Idle EXCEPT !.did = <<Strided(g.threads[1], length)>> \o Summed(g.threads[1]),
               !.reads = {step}, !.sets = {result}]

UpdatePoints(g) ==
  [Idle EXCEPT !.did = <<Guarded(g, g.n.points)>>,
               !.reads = {"points", "point_update"}, !.moves = {"points"}]

UpdatePoses(g) ==
  [Idle EXCEPT !.did = <<Guarded(g, Free(g.n))>>,
               !.reads = {"poses", "pose_update"}, !.moves = {"poses"}]

\* v1^T M^T v2 with a thread for each element, or a block for each row.
CrossTermXavier(g) ==
  [Idle EXCEPT !.did = ColumnSums(g, 6 * Free(g.n), 3 * g.n.points),
               !.reads = {"full_cross", "point_step", "pose_step"}, !.adds = {"point_hessian"}]

QuadraticTerm(g, rows, columns, reads, result) ==
  [Idle EXCEPT !.did = <<BlockEach(g, rows), Strided(g.threads[1], columns)>>
                         \o Summed(g.threads[1]),
               !.reads = reads, !.adds = {result}]

PoseScaling(g) ==
  [Idle EXCEPT !.did = <<Guarded(g, 6 * Free(g.n))>> \o Summed(g.threads[1]),
               !.reads = {"full_poses", "pose_step"}, !.adds = {"pose_scaling"}]

PointTerm(g, result) ==
  [Idle EXCEPT !.did = <<Guarded(g, g.n.points)>> \o Summed(g.threads[1]),
               !.reads = {"full_points", "point_step"}, !.adds = {result}]

MakePrediction(g) ==
  [Idle EXCEPT !.did = <<Guarded(g, 1)>>,
               !.reads = {"pose_hessian", "point_hessian", "pose_scaling", "point_scaling",
                          "lambda"},
               !.sets = {"prediction"}]

EvaluateCost(g) ==
  [Idle EXCEPT !.did = <<Strided(g.threads[1], Cameras), Guarded(g, g.n.observations)>>
                         \o Summed(g.threads[1]),
               !.reads = {"rig", "points", "poses", "observations", "point_update",
                          "pose_update"},
               !.adds = {"cost", "skipped"}]

\* GPUSolver: the factorisation of a copy, and the solution in place.
CopyToFactor == [Idle EXCEPT !.reads = {"red_poses"}, !.sets = {"factor"}]
Factorise == [Idle EXCEPT !.reads = {"factor"}, !.sets = {"factor"}]
CopyToStep == [Idle EXCEPT !.reads = {"red_rhs"}, !.sets = {"pose_step"}]
SolveInPlace == [Idle EXCEPT !.reads = {"factor", "pose_step"}, !.sets = {"pose_step"}]

CopyPointStep == [Idle EXCEPT !.reads = {"point_update"}, !.sets = {"point_step"}]
CopyCrossTerm == [Idle EXCEPT !.reads = {"point_hessian"}, !.sets = {"pose_hessian"}]

Work(g) ==
  CASE g.kernel = "upload" -> [Idle EXCEPT !.sets = g.n]
    [] g.kernel = "clear" -> [Idle EXCEPT !.clears = g.n]
    [] g.kernel = "download" -> [Idle EXCEPT !.reads = g.n[1], !.sets = {g.n[2]}]
    [] g.kernel = "calc_jacobians" -> CalcJacobians(g)
    [] g.kernel = "clear_full_system_stage_1" -> ClearBlocks(g)
    [] g.kernel = "clear_full_system_stage_2" -> ClearRhs(g)
    [] g.kernel = "build_full_system_1" -> BuildPointBlocks(g)
    [] g.kernel = "build_full_system_2" -> BuildPoseBlocks(g)
    [] g.kernel = "reduced_system_stage_1" -> InvertPointBlocks(g)
    [] g.kernel = "reduced_system_stage_12" -> EliminateCross(g)
    [] g.kernel = "reduced_system_stage_2" -> EliminatePoses(g)
    [] g.kernel = "reduced_system_stage_3" -> EliminateRhs(g)
    [] g.kernel = "copy to factor" -> CopyToFactor
    [] g.kernel = "potrf" -> Factorise
    [] g.kernel = "copy to step" -> CopyToStep
    [] g.kernel = "potrs" -> SolveInPlace
    [] g.kernel = "calc_point_update_xavier" -> CalcPointUpdateXavier(g)
    [] g.kernel = "calc_point_update" -> CalcPointUpdate(g)
    [] g.kernel = "calc_pose_update" -> CalcPoseUpdate(g)
    [] g.kernel = "copy to point step" -> CopyPointStep
    [] g.kernel = "abs_max of points" -> ReduceAbsMax(g, "point_step", 3 * g.n.points, "max_points")
    [] g.kernel = "abs_max of poses" -> ReduceAbsMax(g, "pose_step", 6 * Free(g.n), "max_poses")
    [] g.kernel = "evaluate_cost" -> EvaluateCost(g)
    [] g.kernel = "v1T_x_M_T_x_v2" -> CrossTermXavier(g)
    [] g.kernel = "v1T_x_M_x_v2 transposed" ->
         QuadraticTerm(g, 3 * g.n.points, 6 * Free(g.n),
                       {"full_cross", "point_step", "pose_step"}, "point_hessian")
    [] g.kernel = "copy cross term" -> CopyCrossTerm
    [] g.kernel = "v1T_x_M_x_v2" ->
         QuadraticTerm(g, 6 * Free(g.n), 6 * Free(g.n), {"full_poses", "pose_step"},
                       "pose_hessian")
    [] g.kernel = "point_term" -> PointTerm(g, "point_hessian")
    [] g.kernel = "point_term scaling" -> PointTerm(g, "point_scaling")
    [] g.kernel = "pose_scaling_term" -> PoseScaling(g)
    [] g.kernel = "make_prediction" -> MakePrediction(g)
    [] g.kernel = "update_points" -> UpdatePoints(g)
    [] g.kernel = "update_poses" -> UpdatePoses(g)

\* What an array holds when a kernel may read it: two terms of the prediction
\* have the cross term and one of their own.
Complete(g, a) ==
  IF g.kernel = "make_prediction" /\ a \in {"point_hessian", "pose_hessian"} THEN 2 ELSE 1

-----------------------------------------------------------------------------
(* The launches                                                            *)

UpdateModel(n) == <<Line("calc_jacobians", n.observations, MaxThreads, n)>>

BuildFullSystem(n) ==
  <<Launch("clear_full_system_stage_1",
           <<Blocks(6 * Free(n), WarpSize), Blocks(3 * n.points, WarpSize)>>,
           <<WarpSize, WarpSize>>, n),
    Line("clear_full_system_stage_2", 6 * Free(n), MaxThreads, n),
    Line("build_full_system_1", n.points, MaxThreads, n),
    Launch("build_full_system_2", <<Free(n), 1>>, <<MaxThreads, 1>>, n)>>

BuildReducedSystem(n) ==
  <<Line("reduced_system_stage_1", n.points, WarpSize, n),
    Launch("reduced_system_stage_12", <<n.points, 1>>, <<MaxThreads, 1>>, n),
    Launch("reduced_system_stage_2", <<6 * Free(n), 6 * Free(n)>>, <<MaxThreads, 1>>, n),
    Launch("reduced_system_stage_3", <<6 * Free(n), 1>>, <<MaxThreads, 1>>, n)>>

EvaluateCostOf(n) ==
  <<Memory("clear", {"cost"}), Memory("clear", {"skipped"}),
    Line("evaluate_cost", n.observations, MaxThreads, n)>>

SharedWidth == 8
Narrow(n) == Free(n) <= OptimalPoses

CalcUpdate(n) ==
  <<IF Narrow(n)
    THEN Launch("calc_point_update_xavier", <<Blocks(3 * n.points, SharedWidth), 1>>,
                <<SharedWidth, 6 * Free(n)>>, n)
    ELSE Launch("calc_point_update", <<3 * n.points, 1>>, <<MaxThreads, 1>>, n),
    Line("calc_pose_update", Free(n), MaxThreads, n)>>

SolveReduced ==
  <<Memory("copy to factor", {}), Memory("potrf", {}), Memory("copy to step", {}),
    Memory("potrs", {})>>

AbsMax(array, n) == Launch("abs_max of " \o array, <<1, 1>>, <<MaxThreads, 1>>, n)

ComputeUpdate(n) ==
  SolveReduced \o CalcUpdate(n) \o
  <<Memory("copy to point step", {}), AbsMax("points", n), AbsMax("poses", n)>>

UpdateParameters(n) ==
  <<Line("update_points", n.points, MaxThreads, n), Line("update_poses", Free(n), MaxThreads, n)>>

CrossTerm(n) ==
  IF Narrow(n)
  THEN Launch("v1T_x_M_T_x_v2", <<Blocks(3 * n.points, SharedWidth), 1>>,
              <<SharedWidth, 6 * Free(n)>>, n)
  ELSE Launch("v1T_x_M_x_v2 transposed", <<3 * n.points, 1>>, <<MaxThreads, 1>>, n)

PoseScalingTerm(n) == Line("pose_scaling_term", 6 * Free(n), MaxThreads, n)
PointTermOf(kernel, n) == Line(kernel, n.points, MaxThreads, n)
Prediction(n) == Launch("make_prediction", <<1, 1>>, <<1, 1>>, n)

\* The three terms are neighbours in one array and cleared at once.
RelativeReduction(n) ==
  <<Memory("clear", {"point_hessian", "point_scaling", "pose_scaling"}),
    CrossTerm(n), Memory("copy cross term", {}),
    Launch("v1T_x_M_x_v2", <<6 * Free(n), 1>>, <<MaxThreads, 1>>, n),
    PointTermOf("point_term", n), PoseScalingTerm(n), PointTermOf("point_term scaling", n),
    Prediction(n)>>

\* The damping is passed by value: what is launched before a change has the old one.
NewLambda == <<Memory("upload", {"lambda"})>>

SetProblem == <<Memory("upload", {"points"}), Memory("upload", {"poses"}),
                Memory("upload", {"observations"})>>
SetRig == <<Memory("upload", {"rig"})>>
SetUpdate == <<Memory("upload", {"point_update"}), Memory("upload", {"pose_update"})>>
GetProblem ==
  <<Memory("download", <<{"points"}, "host_points">>), Memory("download", <<{"poses"}, "host_poses">>)>>

GetMax == Memory("download", <<{"max_points", "max_poses"}, "host_max">>)
GetPrediction == Memory("download", <<{"prediction"}, "host_prediction">>)
GetCost == Memory("download", <<{"cost"}, "host_cost">>)

-----------------------------------------------------------------------------
(* The solver                                                              *)

Room(points, poses) ==
  [points |-> points, poses |-> poses, observations |-> Cameras * points * poses,
   model |-> Cameras * points * poses]

NoMemory == [a \in Arrays |-> NoArray]

Init ==
  /\ size \in Sizes
  /\ room = Room(FirstPoints, FirstPoses)
  /\ stream = <<>> /\ memory = NoMemory
  /\ pc = "idle" /\ round = 0 /\ solves = 0 /\ taken = {}

\* New arrays if the points or the poses do not fit; the observations grow alone.
\* Whether an array is made anew or not, what it has is not of this problem.
Solve ==
  /\ pc = "idle" /\ solves < MaxSolves
  /\ \E n \in Sizes :
       LET renewed == room.points < n.points \/ room.poses < n.poses
           made == IF renewed THEN Room(2 * n.points, 2 * n.poses) ELSE room
       IN /\ size' = n
          /\ room' = IF n.observations > made.observations
                     THEN [made EXCEPT !.observations = 2 * n.observations] ELSE made
          /\ memory' = NoMemory
          /\ stream' = SetRig \o SetProblem \o SetUpdate \o UpdateModel(n) \o BuildFullSystem(n) \o
                       EvaluateCostOf(n) \o <<GetCost>>
  /\ pc' = "initial cost" /\ solves' = solves + 1
  /\ UNCHANGED <<round, taken>>

\* The host reads these results.
Takes(arrays) == taken' = taken \cup {a \in arrays : memory[a].n /= 1}

InitialCost ==
  /\ pc = "initial cost" /\ stream = <<>>
  /\ Takes({"host_cost"})
  /\ \/ pc' = "idle" /\ UNCHANGED <<round, stream>>   \* no cost, or an infinite one
     \/ pc' = "iterate" /\ round' = 0 /\ stream' = NewLambda
  /\ UNCHANGED <<size, room, memory, solves>>

Iterate ==
  /\ pc = "iterate"
  /\ IF round < MaxRounds
     THEN /\ stream' = stream \o BuildReducedSystem(size) \o ComputeUpdate(size) \o
                       EvaluateCostOf(size) \o RelativeReduction(size) \o
                       <<GetMax, GetPrediction, GetCost>>
          /\ round' = round + 1 /\ pc' = "decide"
     ELSE stream' = stream \o GetProblem /\ pc' = "get" /\ UNCHANGED round
  /\ UNCHANGED <<size, room, memory, solves, taken>>

Decide ==
  /\ pc = "decide" /\ stream = <<>>
  /\ Takes({"host_max", "host_prediction", "host_cost"})
  /\ \/ pc' = "get" /\ stream' = GetProblem       \* converged
     \/ /\ pc' = "iterate"                       \* accepted
        /\ \E better \in BOOLEAN :
             stream' = UpdateParameters(size) \o UpdateModel(size) \o BuildFullSystem(size) \o
                       (IF better THEN NewLambda ELSE <<>>)
     \/ pc' = "iterate" /\ stream' = NewLambda     \* rejected
  /\ UNCHANGED <<size, room, memory, round, solves>>

Get ==
  /\ pc = "get" /\ stream = <<>>
  /\ Takes({"host_points", "host_poses"})
  /\ pc' = "idle"
  /\ UNCHANGED <<size, room, stream, memory, round, solves>>

\* The device takes the operations in order.
Run ==
  /\ stream /= <<>>
  /\ memory' = After(memory, Work(stream[1]), Movable)
  /\ stream' = Tail(stream)
  /\ UNCHANGED <<size, room, pc, round, solves, taken>>

Next == Solve \/ InitialCost \/ Iterate \/ Decide \/ Get \/ Run

Spec == Init /\ [][Next]_kernelVars

-----------------------------------------------------------------------------
(* Properties                                                              *)

\* Every launch is one the device takes, and its threads handle every item of
\* the problem once, with no partial sum lost or counted twice.
LaunchesWhole ==
  stream /= <<>> =>
    LET g == stream[1]
        did == Work(g).did
    IN Legal(g) /\ \A i \in DOMAIN did : Once(did[i])

\* What a kernel reads is complete and of the current parameters and damping,
\* and what it adds to was cleared.
NothingStale ==
  stream /= <<>> =>
    LET g == stream[1]
        w == Work(g)
    IN /\ \A a \in w.reads : memory[a].n = Complete(g, a)
       /\ \A a \in w.adds : memory[a].n \in {0, 1}

\* The host decides on results that are there, and they are of this round.
HostHasResults == taken = {}

\* The arrays are large enough for the problem.
FitsArrays ==
  stream /= <<>> =>
    /\ size.points <= room.points /\ size.poses <= room.poses
    /\ size.observations <= room.observations /\ size.observations <= room.model
=============================================================================
