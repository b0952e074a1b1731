--------------------------- MODULE PoseEquations ---------------------------
(***************************************************************************)
(* The least squares problems of cuVSLAM that have no points to eliminate: *)
(* the pose graph (math/pgo.cpp), with and without a plane to stay in, the *)
(* pose and its predecessor from the IMU (imu/soft_inertial_pnp.cpp), the  *)
(* linear alignment, refinement and optimisation that find gravity         *)
(* (imu/inertial_optimization.cpp) and the three solvers of a pose from    *)
(* points (pnp/).  Each evaluates its cost in one function, builds its     *)
(* normal equations in another and predicts in a third place by how much   *)
(* the cost falls; the three have to count the same terms.                 *)
(*                                                                         *)
(* As in NormalEquations problems are linear, a number of a finite field   *)
(* stands for each block of a matrix, and the identities of exact          *)
(* arithmetic hold.  What a damped system has for a step is left out: the  *)
(* identities are checked for changes that span all there are.             *)
(***************************************************************************)
EXTENDS Integers, FiniteSets, FiniteSetsExt

CONSTANTS
  Prime,    \* elements of the field
  Seeds,    \* sets of Jacobians, residuals and weights
  Lambdas   \* damping factors

VARIABLES
  problem,  \* the problem
  at,       \* the values of the unknowns
  system,   \* the matrix, right hand side and scaling that are stored
  change    \* the change of the unknowns that is evaluated

vars == <<problem, at, system, change>>

SumOf(S, f(_)) == MapThenSumSet(f, S) % Prime
Reciprocal(a) == CHOOSE b \in 0 .. Prime - 1 : (a * b) % Prime = 1
Squared(a) == a * a

Graphs == {"graph", "planar"}
Aligners == {"gyroBias", "alignment", "refinement"}
FromPoints == {"mono", "multicam", "ICP"}
Damped == Graphs \cup FromPoints \cup {"inertial", "gravity"}

\* The inertial solver is called with all observations and again without its outliers.
Outliers == {{}, {1, 5}}

\* held: the first keyframe is constrained, freeze_bias, only a rotation is refined, or
\* there is no depth image; skipped: observations that are outliers, too near or have no
\* landmark, or intervals without samples
Problems ==
  [solver : Graphs, seed : Seeds, lambda : Lambdas, held : BOOLEAN, skipped : {{}}]
  \cup [solver : {"inertial"}, seed : Seeds, lambda : Lambdas, held : BOOLEAN, skipped : Outliers]
  \cup [solver : {"gravity"}, seed : Seeds, lambda : Lambdas, held : {FALSE}, skipped : {{}}]
  \cup [solver : Aligners, seed : Seeds, lambda : {0}, held : {FALSE}, skipped : {{}, {2}}]
  \cup [solver : {"mono"}, seed : Seeds, lambda : Lambdas, held : BOOLEAN, skipped : {{}, {1}, {2, 5}}]
  \cup [solver : {"multicam"}, seed : Seeds, lambda : Lambdas, held : {FALSE}, skipped : {{}, {2, 5}, 1 .. 5}]
  \cup [solver : {"ICP"}, seed : Seeds, lambda : Lambdas, held : BOOLEAN, skipped : {{}, {2, 5}, 1 .. 5}]

Is(solver) == problem.solver = solver
IsGraph == problem.solver \in Graphs
FindsVelocities == problem.solver \in {"alignment", "refinement", "gravity"}

Poses == 1 .. 4
PoseParts == {"rotation", "translation"}
Constrained == IF IsGraph /\ problem.held THEN {1} ELSE {}
Keyframes == 1 .. 3
Velocities == Keyframes \X {"velocity"}
Shared == {0} \X (CASE Is("gravity") -> {"direction", "gyro", "acc"}
                    [] Is("alignment") -> {"gravity", "acc"}
                    [] OTHER -> {"direction", "acc"})
Frame == {1, 2} \X (PoseParts \cup {"velocity", "gyro", "acc"})

\* The planar solver moves constrained poses too, without turning them.
Unknown ==
  CASE IsGraph -> ((Poses \ Constrained) \X PoseParts)
                    \cup IF Is("planar") THEN Constrained \X {"translation"} ELSE {}
    [] Is("inertial") -> Frame
    [] Is("gyroBias") -> {<<0, "gyro">>}
    [] FindsVelocities -> Velocities \cup Shared
    [] Is("mono") /\ problem.held -> {<<0, "rotation">>}
    [] OTHER -> {0} \X PoseParts

Number(part) ==
  CASE part = "rotation" -> 1 [] part = "translation" -> 2 [] part = "velocity" -> 3
    [] part = "gyro" -> 4 [] part = "acc" -> 5 [] part = "direction" -> 0 [] part = "gravity" -> 6
    [] part = "residual" -> 7 [] part = "weight" -> 8 [] part = "time" -> 9 [] part = "moved" -> 10

\* an entry of the model of the seed, for a term t and one of its parts
Value(t, part) == (problem.seed * Number(part) + t * t * (Number(part) + 1) + t + problem.seed \div 3) % Prime

Of(x, a) == IF a \in DOMAIN x THEN x[a] ELSE 0
Zero == [a \in Unknown |-> 0]
Order(a) == 20 * a[1] + Number(a[2])

-----------------------------------------------------------------------------
(* math/pgo.cpp                                                            *)

\* Two edges join the same keyframes, and not all are joined.
Edge == <<<<1, 2>>, <<2, 3>>, <<3, 1>>, <<2, 1>>, <<4, 3>>>>
BothConstrained(e) == Edge[e][1] \in Constrained /\ Edge[e][2] \in Constrained
Used == {e \in DOMAIN Edge : ~BothConstrained(e)}

EdgeValue(e, a) ==
  IF a[1] = Edge[e][2] THEN Value(20 + e, a[2]) ELSE IF a[1] = Edge[e][1] THEN -Value(30 + e, a[2]) ELSE 0

\* The edge sees a constrained pose where it was.
EdgeError(e, x) ==
  Value(20 + e, "residual")
    + SumOf((Poses \ Constrained) \X PoseParts, LAMBDA a : EdgeValue(e, a) * Of(x, a))

PlaneError(i, x) == Value(50 + i, "residual") + Value(50 + i, "translation") * Of(x, <<i, "translation">>)
PlanarWeight == Value(60, "weight")

GraphCost(x) == SumOf(Used, LAMBDA e : Value(e, "weight") * Squared(EdgeError(e, x)))
PlanarCost(x) == SumOf(Poses, LAMBDA i : PlanarWeight * Squared(PlaneError(i, x)))

\* calc_blocks, each pair once
IsBlock(a, b) ==
  \/ a[1] = b[1]
  \/ \E e \in DOMAIN Edge : {a[1], b[1]} = {Edge[e][1], Edge[e][2]} /\ {a[1], b[1]} \cap Constrained = {}

\* The planar solver clears the blocks it is going to add to.
Cleared(old, a, b) == IF Is("planar") /\ ~IsBlock(a, b) THEN Of(old, <<a, b>>) ELSE 0

\* A constrained pose has a system of its own, which only the plane gives terms.
EdgeBlock(a, b) ==
  IF {a[1], b[1]} \cap Constrained # {} THEN 0
  ELSE SumOf(Used, LAMBDA e : EdgeValue(e, a) * Value(e, "weight") * EdgeValue(e, b))

EdgeRhs(a, x) ==
  IF a[1] \in Constrained THEN 0
  ELSE SumOf(Used, LAMBDA e : -EdgeValue(e, a) * Value(e, "weight") * EdgeError(e, x))

PlaneBlock(a, b) ==
  IF Is("planar") /\ a = b /\ a[2] = "translation"
  THEN PlanarWeight * Squared(Value(50 + a[1], "translation")) ELSE 0

PlaneRhs(a, x) ==
  IF Is("planar") /\ a[2] = "translation"
  THEN -Value(50 + a[1], "translation") * PlanarWeight * PlaneError(a[1], x) ELSE 0

\* fill_sparse hands over the blocks of calc_blocks.
Sparse(m, a, b) == IF IsBlock(a, b) THEN m[<<a, b>>] ELSE 0

-----------------------------------------------------------------------------
(* imu/soft_inertial_pnp.cpp: the previous frame is 1, the current one 2   *)

Seen == (1 .. 5) \ problem.skipped
Biases == {"gyro", "acc"}
Both == {1, 2}

ReprojectionError(o, who, x) ==
  Value(o, "residual") + SumOf({who} \X PoseParts, LAMBDA a : Value(o, a[2]) * Of(x, a))

InertialValue(a) ==
  IF a = <<2, "gyro">> \/ a = <<2, "acc">> THEN 0 ELSE Value(70 + a[1], a[2])
InertialError(x) == Value(70, "residual") + SumOf(Frame, LAMBDA a : InertialValue(a) * Of(x, a))
Penalty(b) == IF b = "gyro" THEN Value(80, "weight") ELSE Value(81, "weight")
PriorBias(b) == IF b = "gyro" THEN Value(82, "weight") ELSE Value(83, "weight")

BiasOf(i, b, x) == Value(84 + i, b) + Of(x, <<i, b>>)
RandomWalk(b, x) == BiasOf(1, b, x) - BiasOf(2, b, x)

\* the distance from the previous frame as it was, with the information of its pose
Left == {a \in Frame : a[1] = 1}
LeftValue(a) == IF a[2] \in PoseParts THEN Value(90, a[2]) ELSE 1
LeftInfo(a, b) == Value(91 + Number(a[2]) * Number(b[2]), "weight")
LeftError(a, x) == Value(92, a[2]) + LeftValue(a) * Of(x, a)
TranslationValue(i) == IF i = 1 THEN Value(93, "translation") ELSE -Value(94, "translation")
TranslationError(x) ==
  Value(93, "residual") + SumOf(Both, LAMBDA i : TranslationValue(i) * Of(x, <<i, "translation">>))
TranslationConstraint == Value(95, "weight")

\* EvaluateCost
InertialCost(x) ==
  SumOf(Seen, LAMBDA o : Value(o, "weight") * Squared(ReprojectionError(o, 2, x)))
  + Value(70, "weight") * Squared(InertialError(x))
  + SumOf(Biases, LAMBDA b : Penalty(b) * Squared(RandomWalk(b, x)))
  + SumOf(Both \X Biases, LAMBDA t : PriorBias(t[2]) * Squared(BiasOf(t[1], t[2], x)))
  + TranslationConstraint * Squared(TranslationError(x))
  + SumOf(Left \X Left, LAMBDA ab : LeftError(ab[1], x) * LeftInfo(ab[1], ab[2]) * LeftError(ab[2], x))

\* build_hessian; a number of each 3 by 3 block
IsPoseOfRight(a) == a[1] = 2 /\ a[2] \in PoseParts
ReprojectionBlock(a, b) ==
  IF IsPoseOfRight(a) /\ IsPoseOfRight(b)
  THEN SumOf(Seen, LAMBDA o : Value(o, a[2]) * Value(o, "weight") * Value(o, b[2])) ELSE 0

RandomWalkBlock(a, b) ==
  IF a[2] \notin Biases \/ a[2] # b[2] THEN 0 ELSE IF a = b THEN Penalty(a[2]) ELSE -Penalty(a[2])

TranslationBlock(a, b) ==
  IF a[2] = "translation" /\ b[2] = "translation"
  THEN TranslationValue(a[1]) * TranslationConstraint * TranslationValue(b[1]) ELSE 0

LeftBlock(a, b) == IF a \in Left /\ b \in Left THEN LeftValue(a) * LeftInfo(a, b) * LeftValue(b) ELSE 0

FrameBlock(a, b) ==
  ReprojectionBlock(a, b) + InertialValue(a) * Value(70, "weight") * InertialValue(b)
  + RandomWalkBlock(a, b) + (IF a = b /\ a[2] \in Biases THEN PriorBias(a[2]) ELSE 0)
  + LeftBlock(a, b) + TranslationBlock(a, b)

FrameRhs(a, x) ==
  (IF IsPoseOfRight(a)
   THEN SumOf(Seen, LAMBDA o : -Value(o, a[2]) * Value(o, "weight") * ReprojectionError(o, 2, x)) ELSE 0)
  - InertialValue(a) * Value(70, "weight") * InertialError(x)
  - (IF a[2] \in Biases
     THEN (IF a[1] = 1 THEN 1 ELSE -1) * Penalty(a[2]) * RandomWalk(a[2], x)
          + PriorBias(a[2]) * BiasOf(a[1], a[2], x) ELSE 0)
  - (IF a \in Left THEN LeftValue(a) * SumOf(Left, LAMBDA b : LeftInfo(a, b) * LeftError(b, x)) ELSE 0)
  - (IF a[2] = "translation" THEN TranslationValue(a[1]) * TranslationConstraint * TranslationError(x) ELSE 0)

\* freeze_bias: the rows and columns of the biases keep a large number only.
Frozen(a) == Is("inertial") /\ problem.held /\ a[2] \in Biases
Locked == 10

-----------------------------------------------------------------------------
(* imu/inertial_optimization.cpp                                           *)

Intervals == (1 .. 2) \ problem.skipped
Duration(i) == Value(100 + i, "time")
OneHalf == Reciprocal(2)
AccPrior == Value(101, "weight")
Acc(x) == Value(102, "acc") + Of(x, <<0, "acc">>)
Ends(i) == {<<i, "velocity">>, <<i + 1, "velocity">>}

\* the Jacobian of an interval, of which a number stands for all nine rows
GravityValue(i, a) ==
  IF a = <<i, "velocity">> THEN -Value(103 + i, "velocity")
  ELSE IF a = <<i + 1, "velocity">> THEN Value(105 + i, "velocity")
  ELSE IF a \in Shared THEN Value(107 + i, a[2]) ELSE 0
GravityError(i, x) ==
  Value(103 + i, "residual") + SumOf(Ends(i) \cup Shared, LAMBDA a : GravityValue(i, a) * Of(x, a))

\* calc_cost_with_update
GravityCost(x) ==
  SumOf(Intervals, LAMBDA i : Value(103 + i, "weight") * Squared(GravityError(i, x))) + AccPrior * Squared(Acc(x))

\* build_hessian fills the lower triangle only.
GravityBlock(a, b) ==
  IF Order(a) < Order(b) THEN 0
  ELSE SumOf(Intervals, LAMBDA i : GravityValue(i, a) * Value(103 + i, "weight") * GravityValue(i, b))
       + IF a = b /\ a[2] = "acc" THEN AccPrior ELSE 0
GravityRhs(a, x) ==
  -SumOf(Intervals, LAMBDA i : GravityValue(i, a) * Value(103 + i, "weight") * GravityError(i, x))
  - IF a[2] = "acc" THEN AccPrior * Acc(x) ELSE 0

\* LinearAlignment and RefineGravity: velocities are found anew, gravity and the
\* bias by one of them anew and by the other as a correction.
Anew(a) == problem.solver \in {"gyroBias", "alignment"} \/ (Is("refinement") /\ a[2] = "velocity")
GravityUnknown == IF Is("alignment") THEN <<0, "gravity">> ELSE <<0, "direction">>

\* SolveGyroBias takes every interval.
GyroBlock == SumOf(1 .. 2, LAMBDA i : Squared(Value(122 + i, "gyro")))
GyroRhs == SumOf(1 .. 2, LAMBDA i : Value(122 + i, "gyro") * Value(122 + i, "residual"))

\* the row of the position and that of the velocity of an interval
RowValue(i, row, a) ==
  CASE a = <<i, "velocity">> -> IF row = "position" THEN -Duration(i) ELSE -1
    [] a = <<i + 1, "velocity">> -> IF row = "position" THEN 0 ELSE 1
    [] a[2] \in {"gravity", "direction"} ->
         -Duration(i) * (IF row = "position" THEN OneHalf * Duration(i) ELSE 1)
         * (IF Is("alignment") THEN 1 ELSE Value(109, "direction"))
    [] a[2] = "acc" -> -Value(IF row = "position" THEN 110 + i ELSE 112 + i, "acc")
    [] OTHER -> 0

\* tmp_b; gravity and the bias are those so far, or 0
RowTarget(i, row, x) ==
  LET gravity == IF Is("alignment") THEN 0 ELSE Value(114, "gravity") + Value(109, "direction") * Of(x, GravityUnknown)
      acc == IF Is("alignment") THEN 0 ELSE Acc(x)
  IN IF row = "position"
     THEN Value(115 + i, "translation") + Value(110 + i, "acc") * acc - Value(115 + i, "moved")
          + OneHalf * Squared(Duration(i)) * gravity
     ELSE Value(117 + i, "velocity") + Value(112 + i, "acc") * acc + Duration(i) * gravity

Rows == Intervals \X {"position", "velocity"}
AlignedBlock(a, b) ==
  SumOf(Rows, LAMBDA r : RowValue(r[1], r[2], a) * RowValue(r[1], r[2], b))
  + IF a = b /\ a[2] = "acc" THEN AccPrior ELSE 0

AlignedRhs(a, x) ==
  SumOf(Rows, LAMBDA r : RowValue(r[1], r[2], a) * RowTarget(r[1], r[2], x))
  - IF Is("refinement") /\ a[2] = "acc" THEN AccPrior * Acc(x) ELSE 0

\* Both sides are multiplied by a thousand, the prior with them.
Scale == 1000 % Prime

-----------------------------------------------------------------------------
(* pnp/: an observation is of camera 1 or 2                                *)

OfCamera(c) == IF c = 1 THEN 1 .. 3 ELSE 4 .. 5
Average(S, f(_)) == IF S = {} THEN 0 ELSE SumOf(S, f) * Reciprocal(Cardinality(S))
Weighted(o, x) == Value(o, "weight") * Squared(ReprojectionError(o, 0, x))
PointBlock(o, a, b) == Value(o, a[2]) * Value(o, "weight") * Value(o, b[2])
PointRhs(o, a, x) == -Value(o, a[2]) * Value(o, "weight") * ReprojectionError(o, 0, x)

\* RefineRotation is only called for one camera.
Stereo == Is("mono") /\ ~problem.held
SecondWeight == 2 * Reciprocal(3)

MonoCost(x) ==
  Average(OfCamera(1) \cap Seen, LAMBDA o : Weighted(o, x))
  + IF Stereo THEN SecondWeight * Average(OfCamera(2) \cap Seen, LAMBDA o : Weighted(o, x)) ELSE 0
MonoBlock(a, b) ==
  Average(OfCamera(1) \cap Seen, LAMBDA o : PointBlock(o, a, b))
  + IF Stereo THEN SecondWeight * Average(OfCamera(2) \cap Seen, LAMBDA o : PointBlock(o, a, b)) ELSE 0
MonoRhs(a, x) ==
  Average(OfCamera(1) \cap Seen, LAMBDA o : PointRhs(o, a, x))
  + IF Stereo THEN SecondWeight * Average(OfCamera(2) \cap Seen, LAMBDA o : PointRhs(o, a, x)) ELSE 0

\* PNPSolver and VisualICP take up at most so many observations of a camera, of the
\* oldest tracks that have a landmark, and pass over those that are too near.
MostOfCamera == 2
TakenUp ==
  LET known(c) == OfCamera(c) \ (problem.skipped \cap OfCamera(1))
      oldest(c) == {o \in known(c) : Cardinality({p \in known(c) : p < o}) < MostOfCamera}
  IN (oldest(1) \cup oldest(2)) \ problem.skipped

PointsCost(x) == Average(TakenUp, LAMBDA o : Weighted(o, x))
PointsBlock(a, b) == Average(TakenUp, LAMBDA o : PointBlock(o, a, b))
PointsRhs(a, x) == Average(TakenUp, LAMBDA o : PointRhs(o, a, x))

\* VisualICP blends them with the terms of the depth image, which the GPU sums up.
Alpha == Value(120, "weight")
DepthError(x) == Value(121, "residual") + SumOf({0} \X PoseParts, LAMBDA a : Value(121, a[2]) * Of(x, a))
Blended(visual, depth) == IF problem.held THEN visual ELSE Alpha * visual + (1 - Alpha) * depth

-----------------------------------------------------------------------------
(* What the solvers share                                                  *)

Cost(x) ==
  (CASE Is("graph") -> GraphCost(x)
     [] Is("planar") -> PlanarCost(x) + GraphCost(x)
     [] Is("inertial") -> InertialCost(x)
     [] Is("gravity") -> GravityCost(x)
     [] Is("mono") -> MonoCost(x)
     [] Is("multicam") -> PointsCost(x)
     [] OTHER -> Blended(PointsCost(x), Squared(DepthError(x)))) % Prime

BlockOf(old, a, b) ==
  (CASE IsGraph -> Cleared(old, a, b) + EdgeBlock(a, b) + PlaneBlock(a, b)
     [] Is("inertial") -> IF Frozen(a) \/ Frozen(b) THEN IF a = b THEN Locked ELSE 0 ELSE FrameBlock(a, b)
     [] Is("gravity") -> GravityBlock(a, b)
     [] Is("gyroBias") -> GyroBlock
     [] problem.solver \in Aligners -> Scale * AlignedBlock(a, b)
     [] Is("mono") -> MonoBlock(a, b)
     [] Is("multicam") -> PointsBlock(a, b)
     [] OTHER -> Blended(PointsBlock(a, b), Value(121, a[2]) * Value(121, b[2]))) % Prime

Rhs(a, x) ==
  (CASE IsGraph -> EdgeRhs(a, x) + PlaneRhs(a, x)
     [] Is("inertial") -> IF Frozen(a) THEN 0 ELSE FrameRhs(a, x)
     [] Is("gravity") -> GravityRhs(a, x)
     [] Is("gyroBias") -> GyroRhs
     [] problem.solver \in Aligners -> Scale * AlignedRhs(a, x)
     [] Is("mono") -> MonoRhs(a, x)
     [] Is("multicam") -> PointsRhs(a, x)
     [] OTHER -> Blended(PointsRhs(a, x), -Value(121, a[2]) * DepthError(x))) % Prime

\* Three of the solvers never let the scaling of an unknown decrease.
KeepsScaling == problem.solver \in {"inertial", "gravity", "mono"}

Built(old, x) ==
  LET block(a, b) == BlockOf(old.matrix, a, b)
      before(a) == IF KeepsScaling THEN Of(old.scaling, a) ELSE 0
  IN [matrix |-> [ab \in Unknown \X Unknown |-> block(ab[1], ab[2])],
      rhs |-> [a \in Unknown |-> Rhs(a, x)],
      scaling |-> [a \in Unknown |-> IF block(a, a) > before(a) THEN block(a, a) ELSE before(a)]]

\* what the decomposition reads: the blocks of a graph, or one triangle
Solved(a, b) ==
  IF IsGraph THEN Sparse(system.matrix, a, b)
  ELSE IF Order(a) >= Order(b) THEN system.matrix[<<a, b>>] ELSE system.matrix[<<b, a>>]

\* what lambda multiplies
Damping(a) == IF a[1] \in Constrained THEN 1 ELSE system.scaling[a]

Moved(a) == {b \in DOMAIN a : a[b] # 0}
Form(f(_, _), s) == SumOf(Moved(s) \X Moved(s), LAMBDA ab : s[ab[1]] * f(ab[1], ab[2]) * s[ab[2]])

\* predicted_relative_reduction, times the current cost
Predicted(s) ==
  (Form(LAMBDA a, b : system.matrix[<<a, b>>], s)
   + 2 * problem.lambda
     * SumOf(Moved(s), LAMBDA a : (IF problem.solver \in {"planar", "inertial"} THEN 1 ELSE Damping(a)) * Squared(s[a])))
  % Prime

-----------------------------------------------------------------------------

\* changes of one unknown, either way, and of two: they span all there are
Changes ==
  LET only(a, v) == [Zero EXCEPT ![a] = v]
  IN {only(a, v) : a \in Unknown, v \in {1, Prime - 1}}
     \cup {[b \in Unknown |-> IF b \in pair THEN 1 ELSE 0] : pair \in kSubset(2, Unknown)}

EverythingMoves == [a \in Unknown |-> 1 + (Order(a) % 3)]

Init ==
  /\ problem \in Problems
  /\ at = Zero /\ system = Built([matrix |-> <<>>, scaling |-> <<>>], Zero) /\ change = Zero

Evaluate ==
  /\ change = Zero
  /\ change' \in Changes \cup {EverythingMoves}
  /\ UNCHANGED <<problem, at, system>>

\* The step is taken and the system built again; RefineGravity finds velocities anew.
Accept ==
  /\ change = EverythingMoves /\ at = Zero
  /\ at' = [a \in Unknown |-> IF Anew(a) THEN 0 ELSE change[a]]
  /\ system' = Built(system, at')
  /\ change' = Zero
  /\ UNCHANGED problem

Next == Evaluate \/ Accept

Spec == Init /\ [][Next]_vars

-----------------------------------------------------------------------------
(* Properties                                                              *)

Changed == [a \in Unknown |-> at[a] + change[a]]
Linear == SumOf(Moved(change), LAMBDA a : system.rhs[a] * change[a])

\* The cost that is evaluated is, along every change, the one the matrix and the right
\* hand side stand for: cost functions, matrices and right hand sides count the same
\* terms with the same weights, whatever is constrained, skipped or blended, in the
\* system built first and in that built again in the same memory.
SystemsFitCosts ==
  problem.solver \in Damped /\ ~(\E a \in Moved(change) : Frozen(a)) =>
    (Cost(Changed) - Cost(at) + 2 * Linear - Form(Solved, change)) % Prime = 0

\* what the linear solvers should minimise: the error of the rotation, or of the position
\* and of the velocity over an interval and the bias, each as a whole
Aligned(x) ==
  IF Is("gyroBias")
  THEN SumOf(1 .. 2, LAMBDA i : Squared(Value(122 + i, "gyro") * x[<<0, "gyro">>] - Value(122 + i, "residual")))
  ELSE
  LET position(i) == Duration(i) * Of(x, <<i, "velocity">>)
      gravity == (IF Is("alignment") THEN 0 ELSE Value(114, "gravity"))
                 + (IF Is("alignment") THEN 1 ELSE Value(109, "direction")) * Of(x, GravityUnknown)
      acc == IF Is("alignment") THEN Of(x, <<0, "acc">>) ELSE Acc(x)
  IN SumOf(Intervals, LAMBDA i :
       Squared(Value(115 + i, "moved") - position(i) - OneHalf * Squared(Duration(i)) * gravity
               - Value(115 + i, "translation") - Value(110 + i, "acc") * acc)
       + Squared(Of(x, <<i + 1, "velocity">>) - Of(x, <<i, "velocity">>) - Duration(i) * gravity
                 - Value(117 + i, "velocity") - Value(112 + i, "acc") * acc))
     + AccPrior * Squared(acc)

\* Gravity is aligned to the least squares of the motion between keyframes, also when it
\* is refined again from where it was, with velocities found anew.
AlignmentFitsMotion ==
  problem.solver \in Aligners =>
    ((IF Is("gyroBias") THEN 1 ELSE Scale) * (Aligned(Changed) - Aligned(at)) + 2 * Linear - Form(Solved, change)) % Prime = 0

\* What a prediction leaves out: the planar and the inertial solver take the identity
\* for their damping, and that of gravity sums up the triangle that is stored.
Missed ==
  CASE problem.solver \in {"planar", "inertial"} ->
         2 * problem.lambda * SumOf(Moved(change), LAMBDA a : (Damping(a) - 1) * Squared(change[a]))
    [] Is("gravity") ->
         SumOf({ab \in Moved(change) \X Moved(change) : Order(ab[1]) > Order(ab[2])},
               LAMBDA ab : change[ab[1]] * system.matrix[ab] * change[ab[2]])
    [] OTHER -> 0

\* For the step of the damped system the cost falls by what is predicted, in five of the
\* solvers; in the others by what is predicted and left out.
PredictionsExplained ==
  LET remaining(a) ==
        system.rhs[a] - SumOf(Moved(change), LAMBDA b : Solved(a, b) * change[b])
        - problem.lambda * Damping(a) * change[a]
  IN problem.solver \in Damped /\ ~(\E a \in Moved(change) : Frozen(a)) =>
       (Cost(at) - Cost(Changed) - Predicted(change) - Missed
        - 2 * SumOf(Moved(change), LAMBDA a : change[a] * remaining(a))) % Prime = 0

\* A frozen bias has a row of its own: the step cannot move it.
FrozenStay ==
  \A a \in Unknown : Frozen(a) =>
    /\ system.rhs[a] = 0 /\ Solved(a, a) # 0
    /\ \A b \in Unknown \ {a} : Solved(a, b) = 0 /\ Solved(b, a) = 0
=============================================================================
