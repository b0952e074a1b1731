-------------------------- MODULE InertialKernels ---------------------------
(***************************************************************************)
(* Bundle adjustment with an IMU on the device                             *)
(* (imu_sba_gpu_fixed_vel.cpp, sba_imu_v1.cu).  As in VisualKernels the    *)
(* host fills a stream and waits for it before it reads a result; here the *)
(* operations of an iteration may also be captured in three graphs, which  *)
(* live longer than a solve, and the preintegrated measurements go to the  *)
(* device anew after every accepted step.                                  *)
(***************************************************************************)
EXTENDS DeviceWork

CONSTANTS
  KnownPoints, KnownPoses, KnownObservations,  \* sizes of the problems
  MaxAdjustments, MaxTrials                    \* bounds

VARIABLES
  size,    \* of the problem being solved
  room,    \* what the arrays hold
  stream,  \* operations not yet done
  memory,  \* what the arrays contain
  pc, round, solves,
  taken,   \* results the host has read before they were there
  graphs,  \* the size of the problem each graph was captured for
  needed   \* the graphs to capture again; all of them if graphs are not used

kernelVars == <<size, room, stream, memory, pc, round, solves, taken, graphs, needed>>

Cameras == 2

Sizes ==
  {n \in [points : KnownPoints, poses : KnownPoses, fixed : {1, 2},
          observations : KnownObservations] :
     /\ n.points <= n.observations /\ n.observations <= Cameras * n.points * n.poses
     /\ n.fixed < n.poses}

Free(n) == n.poses - n.fixed

Movable == {"points", "poses"}

Arrays ==
  {"rig", "points", "poses", "preint", "observations", "update_points", "update_rotation",
   "update_other", "model", "model_imu", "full_points", "full_cross", "full_poses", "full_rhs",
   "red_points", "red_cross", "red_poses", "red_rhs", "factor", "pose_step", "point_step",
   "imu_poses", "partial", "cost", "skipped", "prediction", "significant", "lambda",
   "host_cost", "host_poses", "host_points"}

-----------------------------------------------------------------------------
(* The kernels                                                             *)

UpdateModelVisual(g) ==
  [Idle EXCEPT !.did = <<Guarded(g, g.n.observations)>>,
               !.reads = {"rig", "points", "poses", "observations"}, !.sets = {"model"}]

\* A warp for each pose that is not fixed and the edge before it; its first 27
\* lanes compute 9 by 3 derivatives.
UpdateModelInertial(g) ==
  [Idle EXCEPT !.did = <<[by |-> Same({e + g.n.fixed - 1 : e \in Up(g.blocks[1])}),
                          of |-> g.n.fixed - 1 .. g.n.poses - 2],
                         [by |-> {<<<<l \div 3, l % 3>>, l>> : l \in {m \in Up(WarpSize) : m \div 3 < 9}},
                          of |-> Up(9) \X Up(3)]>>,
               !.reads = {"poses", "preint"}, !.sets = {"model_imu"}]

\* Three points to a warp: nine lanes for the elements of a block, three by three.
Trios(g) ==
  [by |-> {<<<<3 * b + l \div 9, (l % 9) \div 3, l % 3>>, <<b, l>>>> :
             b \in Up(g.blocks[1]), l \in {m \in Up(WarpSize) : m \div 9 < 3}}
          \cap ((Up(g.n.points) \X Up(3) \X Up(3)) \X (Up(g.blocks[1]) \X Up(WarpSize))),
   of |-> Up(g.n.points) \X Up(3) \X Up(3)]

ClearCross(g) ==
  [Idle EXCEPT !.did = <<Cells(g, 6 * Free(g.n), 3 * g.n.points)>>, !.clears = {"full_cross"}]

ClearPoses(g) ==
  [Idle EXCEPT !.did = <<Cells(g, 15 * Free(g.n), 15 * Free(g.n))>>,
               !.clears = {"full_poses", "full_rhs"}]

BuildPoints(g) ==
  [Idle EXCEPT !.did = <<Trios(g)>>, !.reads = {"observations", "model"},
               !.sets = {"full_points"}, !.adds = {"full_cross"}]

BuildPoses(g) ==
  [Idle EXCEPT !.did = <<BlockEach(g, Free(g.n)), Strided(g.threads[1], g.n.observations)>>
                         \o Summed(g.threads[1]),
               !.reads = {"observations", "model"}, !.adds = {"full_poses", "full_rhs"}]

\* A block adds the edges of its pose: thread (x, y) has the 3 by 3 block in row y
\* and column x, five of them to a pose; the last pose has no edge after it.
BuildEdges(g) ==
  LET P == Free(g.n)
      Mine(b, x, y) ==
        /\ x < 5 \/ y < 5
        /\ b + g.n.fixed = g.n.poses - 1 => x < 5 /\ y < 5
  IN [Idle EXCEPT !.did =
        <<[by |-> {<<<<5 * t[1] + t[3], 5 * t[1] + t[2]>>, t>> :
                     t \in {s \in Up(g.blocks[1]) \X Up(g.threads[1]) \X Up(g.threads[2]) :
                              Mine(s[1], s[2], s[3])}},
           of |-> {c \in Up(5 * P) \X Up(5 * P) : (c[1] \div 5) - (c[2] \div 5) \in -1 .. 1}]>>,
               !.reads = {"poses", "preint", "model_imu"}, !.adds = {"full_poses", "full_rhs"}]

ReducePoints(g) ==
  [Idle EXCEPT !.did = <<Trios(g)>>, !.reads = {"full_points", "full_cross", "lambda"},
               !.sets = {"red_points", "red_cross"}]

\* The last column of the grid is the right-hand side.
ReducePoses(g) ==
  [Idle EXCEPT !.did = <<BlockCells(g, 15 * Free(g.n), 15 * Free(g.n) + 1),
                         Strided(g.threads[1], 3 * g.n.points),
                         BlockSum(g.threads[1], 2), SlotsWritten(g.threads[1], 2)>>,
               !.reads = {"full_points", "full_cross", "full_poses", "full_rhs", "red_cross",
                          "lambda"},
               !.sets = {"red_poses", "red_rhs"}]

\* In place: the matrix gives way to its factor, the right-hand side to the solution.
Factorise == [Idle EXCEPT !.reads = {"red_poses"}, !.sets = {"factor"}, !.ruins = {"red_poses"}]
SolveInPlace ==
  [Idle EXCEPT !.reads = {"factor", "red_rhs"}, !.sets = {"pose_step"}, !.ruins = {"red_rhs"}]

CalcPoints(g) ==
  [Idle EXCEPT !.did = <<Guarded(g, 3 * g.n.points)>>,
               !.reads = {"red_points", "pose_step", "red_cross"},
               !.sets = {"point_step", "update_points"}]

CalcPoses(g) ==
  [Idle EXCEPT !.did = <<Guarded(g, Free(g.n))>>, !.reads = {"pose_step"},
               !.sets = {"update_rotation", "update_other"}]

CostOfEdges(g) ==
  [Idle EXCEPT !.did = <<Guarded(g, g.n.poses), WarpSum(g.threads[1])>>,
               !.reads = {"poses", "preint", "update_rotation", "update_other"},
               !.sets = {"imu_poses"}, !.adds = {"cost"}]

\* A partial cost for each warp, if there is room for it.
CostOfObservations(g) ==
  [Idle EXCEPT !.did = <<Guarded(g, g.n.observations), WarpSum(g.threads[1]),
                         [by |-> Same({b \in Up(g.blocks[1]) :
                                         b < Blocks(g.n.observations, WarpSize)}),
                          of |-> Up(Blocks(g.n.observations, WarpSize))]>>,
               !.reads = {"rig", "points", "observations", "update_points", "imu_poses"},
               !.sets = {"partial"}, !.adds = {"skipped"}]

SumOfCosts(g) ==
  [Idle EXCEPT !.did = <<Strided(g.threads[1], Blocks(g.n.observations, WarpSize)),
                         WarpSum(g.threads[1])>>,
               !.reads = {"partial"}, !.adds = {"cost"}]

PredictPoints(g) ==
  [Idle EXCEPT !.did = <<Guarded(g, g.n.points), WarpSum(g.threads[1])>>,
               !.reads = {"full_points", "full_cross", "point_step", "pose_step", "lambda"},
               !.adds = {"prediction", "significant"}]

PredictPoses(g) ==
  [Idle EXCEPT !.did = <<Cells(g, 15 * Free(g.n), 15 * Free(g.n)), WarpSum(WarpSize)>>,
               !.reads = {"full_poses", "pose_step", "lambda"},
               !.adds = {"prediction", "significant"}]

MovePoints(g) ==
  [Idle EXCEPT !.did = <<Guarded(g, 3 * g.n.points)>>, !.reads = {"points", "update_points"},
               !.moves = {"points"}]

MovePoses(g) ==
  [Idle EXCEPT !.did = <<Guarded(g, Free(g.n))>>,
               !.reads = {"poses", "update_rotation", "update_other"}, !.moves = {"poses"}]

\* Nine threads for the elements of a rotation, seven poses to a block.
InitRotations(g) ==
  [Idle EXCEPT !.did = <<[by |-> Same(Up(Smaller(7 * g.blocks[1], Free(g.n)))), of |-> Up(Free(g.n))]>>,
               !.sets = {"update_rotation"}]

Work(g) ==
  CASE g.kernel = "upload" -> [Idle EXCEPT !.sets = g.n]
    [] g.kernel = "clear" -> [Idle EXCEPT !.clears = g.n]
    [] g.kernel = "zero" -> [Idle EXCEPT !.sets = g.n]
    [] g.kernel = "download" -> [Idle EXCEPT !.reads = g.n[1], !.sets = {g.n[2]}]
    [] g.kernel = "update_model_1" -> UpdateModelVisual(g)
    [] g.kernel = "update_model_2" -> UpdateModelInertial(g)
    [] g.kernel = "clear_full_1" -> ClearCross(g)
    [] g.kernel = "clear_full_2" -> ClearPoses(g)
    [] g.kernel = "build_full_1" -> BuildPoints(g)
    [] g.kernel = "build_full_2" -> BuildPoses(g)
    [] g.kernel = "build_full_3" -> BuildEdges(g)
    [] g.kernel = "build_reduced_1" -> ReducePoints(g)
    [] g.kernel = "build_reduced_2" -> ReducePoses(g)
    [] g.kernel = "potrf" -> Factorise
    [] g.kernel = "potrs" -> SolveInPlace
    [] g.kernel = "calc_update_1" -> CalcPoints(g)
    [] g.kernel = "calc_update_2" -> CalcPoses(g)
    [] g.kernel = "evaluate_cost_1" -> CostOfEdges(g)
    [] g.kernel = "evaluate_cost_2" -> CostOfObservations(g)
    [] g.kernel = "evaluate_cost_2_reduce" -> SumOfCosts(g)
    [] g.kernel = "predicted_reduction_1" -> PredictPoints(g)
    [] g.kernel = "predicted_reduction_2" -> PredictPoses(g)
    [] g.kernel = "update_state_1" -> MovePoints(g)
    [] g.kernel = "update_state_2" -> MovePoses(g)
    [] g.kernel = "init_update" -> InitRotations(g)

OnArrays == {"upload", "clear", "zero", "download"}

\* How many parts a sum has when it may be read.
Complete(g, a) ==
  IF a \in {"full_poses", "full_rhs", "cost", "prediction", "significant"} THEN 2 ELSE 1

-----------------------------------------------------------------------------
(* The launches                                                            *)

Square(kernel, rows, columns, dim, n) ==
  Launch(kernel, <<Blocks(rows, dim), Blocks(columns, dim)>>, <<dim, dim>>, n)

InitUpdate(n) ==
  <<Memory("zero", {"update_other"}), Memory("zero", {"update_points"}),
    Launch("init_update", <<Blocks(Free(n), 7), 1>>, <<9, 7>>, n)>>

UpdateModel(n) ==
  <<Line("update_model_1", n.observations, WarpSize, n),
    Launch("update_model_2", <<Free(n), 1>>, <<WarpSize, 1>>, n)>>

BuildFullSystem(n) ==
  <<Square("clear_full_1", 6 * Free(n), 3 * n.points, 8, n),
    Square("clear_full_2", 15 * Free(n), 15 * Free(n), 8, n),
    Launch("build_full_1", <<Blocks(n.points, 3), 1>>, <<WarpSize, 1>>, n),
    Launch("build_full_2", <<Free(n), 1>>, <<MaxThreads, 1>>, n),
    Launch("build_full_3", <<Free(n), 1>>, <<10, 10>>, n)>>

BuildReducedSystem(n) ==
  <<Launch("build_reduced_1", <<Blocks(n.points, 3), 1>>, <<WarpSize, 1>>, n),
    Launch("build_reduced_2", <<15 * Free(n), 15 * Free(n) + 1>>, <<64, 1>>, n)>>

CalcUpdate(n) ==
  <<Line("calc_update_1", 3 * n.points, WarpSize, n), Line("calc_update_2", Free(n), WarpSize, n)>>

ComputeUpdate(n) ==
  <<Launch("potrf", <<1, 1>>, <<1, 1>>, n), Launch("potrs", <<1, 1>>, <<1, 1>>, n)>> \o CalcUpdate(n)

EvaluateCost(n) ==
  <<Line("evaluate_cost_1", n.poses, WarpSize, n),
    Line("evaluate_cost_2", n.observations, WarpSize, n),
    Launch("evaluate_cost_2_reduce", <<1, 1>>, <<WarpSize, 1>>, n)>>

ComputePredictedReduction(n) ==
  <<Line("predicted_reduction_1", n.points, WarpSize, n),
    Square("predicted_reduction_2", 15 * Free(n), 15 * Free(n), 16, n)>>

UpdateState(n) ==
  <<Line("update_state_1", 3 * n.points, 64, n), Line("update_state_2", Free(n), WarpSize, n)>>

\* The preintegrated measurements are packed into one array of the host.
PackPreintegrationData == <<Memory("upload", {"preint"})>>

CopyToDevice ==
  <<Memory("upload", {"observations"}), Memory("upload", {"poses"})>> \o PackPreintegrationData \o
  <<Memory("upload", {"rig"}), Memory("upload", {"points"})>>

CopyPointChangesFromDevice == <<Memory("download", <<{"points"}, "host_points">>)>>

\* The cost, what it left out, the prediction and the flags are one record.
ClearCost == <<Memory("clear", {"cost", "skipped", "prediction", "significant"})>>
GetResults(which) == <<Memory("download", <<which, "host_cost">>)>>

\* The three graphs, which are also what is put into the stream without graphs.
Trial(n) ==
  <<Memory("upload", {"lambda"})>> \o BuildReducedSystem(n) \o ComputeUpdate(n) \o ClearCost \o
  EvaluateCost(n) \o ComputePredictedReduction(n) \o
  GetResults({"cost", "skipped", "prediction", "significant"})
Moved(n) == UpdateState(n) \o <<Memory("download", <<{"poses"}, "host_poses">>)>>
Linearised(n) == UpdateModel(n) \o BuildFullSystem(n)
Rebuilt(n) == PackPreintegrationData \o Linearised(n)

Operations(k, n) == CASE k = 1 -> Trial(n) [] k = 2 -> Moved(n) [] k = 3 -> Rebuilt(n)

-----------------------------------------------------------------------------
(* The solver                                                              *)

Larger(a, b) == IF a > b THEN a ELSE b

\* Every dimension grows for itself, and so do the blocks between points and poses.
AllocateBuffers(held, n) ==
  [observations |-> Larger(held.observations, n.observations),
   poses |-> Larger(held.poses, n.poses), points |-> Larger(held.points, n.points),
   free |-> Larger(held.free, Free(n)), edges |-> Larger(held.edges, n.poses - 1),
   cross |-> Larger(held.cross, 18 * n.points * Free(n))]

NoRoom == [observations |-> 0, poses |-> 0, points |-> 0, free |-> 0, edges |-> 0, cross |-> 0]

NoMemory == [a \in Arrays |-> NoArray]

AllGraphs == 1 .. 3
NotCaptured == [points |-> 0, poses |-> 0, fixed |-> 0, observations |-> 0]

Init ==
  /\ size \in Sizes
  /\ room = NoRoom
  /\ stream = <<>> /\ memory = NoMemory
  /\ pc = "idle" /\ round = 0 /\ solves = 0 /\ taken = {}
  /\ graphs \in {<<>>, [k \in AllGraphs |-> NotCaptured]}
  /\ needed = AllGraphs

WithGraphs == graphs /= <<>>

\* Whether an array is made anew or not, what it has is not of this problem.
Solve ==
  /\ pc = "idle" /\ solves < MaxAdjustments
  /\ \E n \in Sizes :
       /\ size' = n
       /\ room' = AllocateBuffers(room, n)
       /\ stream' = CopyToDevice \o InitUpdate(n) \o UpdateModel(n) \o ClearCost \o
                    EvaluateCost(n) \o GetResults({"cost", "skipped"})
  /\ memory' = NoMemory
  /\ pc' = "initial cost" /\ solves' = solves + 1 /\ round' = 0 /\ needed' = AllGraphs
  /\ UNCHANGED <<taken, graphs>>

\* The host reads these results.
Takes(arrays) == taken' = taken \cup {a \in arrays : memory[a].n /= 1}
UnpackPoseChangesFromDevice == Takes({"host_poses"})

\* One of the graphs is launched, captured first if this solve has not done so.
Enqueue(k, before) ==
  IF WithGraphs
  THEN /\ graphs' = IF k \in needed THEN [graphs EXCEPT ![k] = size] ELSE graphs
       /\ needed' = needed \ {k}
       /\ stream' = before \o Operations(k, graphs'[k])
  ELSE stream' = before \o Operations(k, size) /\ UNCHANGED <<graphs, needed>>

InitialCost ==
  /\ pc = "initial cost" /\ stream = <<>>
  /\ Takes({"host_cost"})
  /\ \/ pc' = "idle" /\ UNCHANGED stream   \* no cost, or an infinite one
     \/ pc' = "iterate" /\ stream' = BuildFullSystem(size)
  /\ UNCHANGED <<size, room, memory, round, solves, graphs, needed>>

Iterate ==
  /\ pc = "iterate"
  /\ IF round < MaxTrials
     THEN Enqueue(1, stream) /\ round' = round + 1 /\ pc' = "decide"
     ELSE /\ stream' = stream \o CopyPointChangesFromDevice
          /\ pc' = "finish" /\ UNCHANGED <<round, graphs, needed>>
  /\ UNCHANGED <<size, room, memory, solves, taken>>

Decide ==
  /\ pc = "decide" /\ stream = <<>>
  /\ Takes({"host_cost"})
  /\ \/ pc' = "idle" /\ UNCHANGED <<stream, graphs, needed>>   \* not a number, or infinite
     \/ /\ pc' = "finish"                                      \* converged
        /\ stream' = CopyPointChangesFromDevice
        /\ UNCHANGED <<graphs, needed>>
     \/ pc' = "unpack" /\ Enqueue(2, <<>>)                      \* accepted
     \/ pc' = "iterate" /\ UNCHANGED <<stream, graphs, needed>> \* rejected
  /\ UNCHANGED <<size, room, memory, round, solves>>

\* The poses are in the problem now; unless this was the last step their biases
\* go into the preintegrated measurements and these to the device.
Unpack ==
  /\ pc = "unpack" /\ stream = <<>>
  /\ UnpackPoseChangesFromDevice
  /\ IF round = MaxTrials
     THEN /\ stream' = CopyPointChangesFromDevice
          /\ pc' = "finish" /\ UNCHANGED <<graphs, needed>>
     ELSE Enqueue(3, <<>>) /\ pc' = "iterate"
  /\ UNCHANGED <<size, room, memory, round, solves>>

Finish ==
  /\ pc = "finish" /\ stream = <<>>
  /\ Takes({"host_points"})
  /\ pc' = "idle"
  /\ UNCHANGED <<size, room, stream, memory, round, solves, graphs, needed>>

\* The device takes the operations in order.
Run ==
  /\ stream /= <<>>
  /\ memory' = After(memory, Work(stream[1]), Movable)
  /\ stream' = Tail(stream)
  /\ UNCHANGED <<size, room, pc, round, solves, taken, graphs, needed>>

Next == Solve \/ InitialCost \/ Iterate \/ Decide \/ Unpack \/ Finish \/ Run

Spec == Init /\ [][Next]_kernelVars

-----------------------------------------------------------------------------
(* Properties                                                              *)

\* Every launch is one the device takes, and its threads handle every item of
\* the problem once, with no partial sum lost or counted twice
\* (sba_imu_v1.cu).
LaunchesWhole ==
  stream /= <<>> =>
    LET g == stream[1]
        did == Work(g).did
    IN Legal(g) /\ \A i \in DOMAIN did : Once(did[i])

\* What a kernel reads is complete and of the current parameters, measurements
\* and damping, and what it adds to was cleared (imu_sba_gpu_fixed_vel.cpp).
NothingStale ==
  stream /= <<>> =>
    LET g == stream[1]
        w == Work(g)
        whole(a) == Complete(g, a)
    IN /\ \A a \in w.reads : memory[a].n = whole(a)
       /\ \A a \in w.adds : memory[a].n \in {0, 1}

\* The host decides on results that are there, and they are of this round.
HostHasResults == taken = {}

\* Every kernel is launched for the problem that is being solved, also if its
\* graph was captured in an earlier solve, and the arrays are large enough.
FitsArrays ==
  stream /= <<>> /\ stream[1].kernel \notin OnArrays =>
    LET n == stream[1].n
    IN /\ n = size
       /\ n.observations <= room.observations /\ n.poses <= room.poses
       /\ n.points <= room.points /\ Free(n) <= room.free /\ n.poses - 1 <= room.edges
       /\ 18 * n.points * Free(n) <= room.cross
=============================================================================
