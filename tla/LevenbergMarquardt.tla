------------------------- MODULE LevenbergMarquardt -------------------------
(***************************************************************************)
(* The Levenberg-Marquardt loops that refine what cuVSLAM estimates: eleven*)
(* functions written one by one that should be the same algorithm.  Each   *)
(* evaluates the cost of its starting point, builds a linear system there, *)
(* and in every iteration solves the damped system for a step, evaluates   *)
(* the cost of the state the step leads to and keeps or drops the step.    *)
(* They differ in the costs they refuse, in how they stop, in what they    *)
(* call a success and in when the caller's variables get the result.       *)
(*                                                                         *)
(* States are numbered: 1 is the caller's, every accepted step makes the   *)
(* next.  Costs are a few numbers, with 0 for a cost below the threshold   *)
(* under which there is nothing to minimise.  How the damping factor grows *)
(* and shrinks is left out: a step is anything a damped system may give.   *)
(***************************************************************************)
EXTENDS Integers, Sequences

CONSTANTS
  MaxCost,        \* bound of the model: finite costs
  MaxIterations   \* max_iterations

VARIABLES
  solver,     \* the function
  phase,      \* where it is: "start", "loop", "judge", "end" or its result
  iteration,
  costs,      \* the cost of each state
  feasible,   \* whether it has an observation in front of a camera
  current,    \* current_cost
  systemOf,   \* state whose derivatives the linear system has
  trial,      \* the step being judged: its cost, ... and the state its system was of
  given       \* the state the caller has of the first and of the other variables

vars == <<solver, phase, iteration, costs, feasible, current, systemOf, trial, given>>

Infinite == 1000
NaN == 2000
Finite == 0 .. MaxCost
Cost == Finite \cup {Infinite, NaN}

At == Len(costs)
Both(s) == [first |-> s, rest |-> s]

\* Comparisons with a NaN are false.
Less(a, b) == a # NaN /\ b # NaN /\ a < b

NothingLeft == 0
Success == 2     \* cost_thresh, max_success_cost

Gravity == {"gravity", "gravity adaptive"}

\* The bundlers that count the observations they skip
CountSkipped == {"visual CPU", "inertial CPU", "inertial GPU"}

InfeasibleCost_as_summed ==
  CASE solver \in {"visual CPU", "inertial CPU"} -> Infinite
    [] solver = "mono PnP" -> NaN
    [] OTHER -> 0

\* The sum over no observation at all: the bundlers that count the skipped
\* observations call it infinite, RefinePose divides it by zero, the others
\* take it for 0.
InfeasibleCost ==
  CASE solver \in CountSkipped -> Infinite
    [] solver = "mono PnP" -> NaN
    [] OTHER -> 0

Skips == {"visual CPU", "visual GPU", "inertial CPU", "inertial GPU", "mono PnP", "multicam PnP", "ICP"}

\* what EvaluateCost may return for a state
Evaluations ==
  [cost : Cost, feasible : {TRUE}]
    \cup (IF solver \in Skips THEN {[cost |-> InfeasibleCost, feasible |-> FALSE]} ELSE {})

Init ==
  /\ solver \in {"visual CPU", "visual GPU", "inertial CPU", "inertial GPU", "inertial PnP",
                 "mono PnP", "multicam PnP", "ICP", "pose graph"} \cup Gravity
  /\ \E start \in Evaluations : costs = <<start.cost>> /\ feasible = <<start.feasible>>
  /\ current = costs[1]
  /\ phase = "start" /\ iteration = 0 /\ systemOf = 0
  /\ trial = [cost |-> 0, feasible |-> TRUE, small |-> FALSE, of |-> 0]
  \* The linear estimate of gravity and biases is state 1; of it the caller has
  \* the direction of gravity, not the biases.
  /\ given = IF solver \in Gravity THEN [first |-> 1, rest |-> 0] ELSE Both(1)

-----------------------------------------------------------------------------
(* What the loops share                                                    *)

Return(result, state) ==
  /\ phase' = result /\ given' = state
  /\ UNCHANGED <<solver, iteration, costs, feasible, current, systemOf, trial>>

\* The first system is built and the loop entered.
Enter ==
  /\ phase' = "loop" /\ systemOf' = 1
  /\ UNCHANGED <<solver, iteration, costs, feasible, current, trial, given>>

\* break
Stop(cost) ==
  /\ phase' = "end" /\ current' = cost
  /\ UNCHANGED <<solver, iteration, costs, feasible, systemOf, trial, given>>

Near(a, b) == a = b \/ (a \in Finite /\ b \in Finite /\ a - b \in {-1, 1})

\* An iteration solves the damped system and evaluates the step.
ComputeStep ==
  /\ phase = "loop" /\ iteration < MaxIterations
  /\ iteration' = iteration + 1
  /\ \E e \in Evaluations, small \in BOOLEAN :
       /\ small => Near(e.cost, current) /\ current # NaN
       /\ trial' = [cost |-> e.cost, feasible |-> e.feasible, small |-> small, of |-> systemOf]
  /\ phase' = "judge"
  /\ UNCHANGED <<solver, costs, feasible, current, systemOf, given>>

\* The two PnP loops that check it find the system indefinite and go on with
\* another damping factor.
Indefinite ==
  /\ phase = "loop" /\ iteration < MaxIterations /\ solver \in {"inertial PnP", "mono PnP"}
  /\ iteration' = iteration + 1
  /\ UNCHANGED <<solver, phase, costs, feasible, current, systemOf, trial, given>>

\* while (iteration < max_iterations)
LastIteration == phase = "loop" /\ iteration = MaxIterations /\ Stop(current)

Better_unless_infinite == Less(trial.cost, Infinite)

\* rho > 0.25f needs a lower cost and may still fail.
Better == Less(trial.cost, current)

Accept_without_rebuilding(now, rebuilds) ==
  /\ Better
  /\ costs' = Append(costs, trial.cost) /\ feasible' = Append(feasible, trial.feasible)
  /\ current' = trial.cost /\ given' = now
  /\ systemOf' = systemOf
  /\ phase' = "loop"
  /\ UNCHANGED <<solver, iteration, trial>>

\* The step is taken; now: what the caller has after it.
Accept(now, rebuilds) ==
  /\ Better
  /\ costs' = Append(costs, trial.cost) /\ feasible' = Append(feasible, trial.feasible)
  /\ current' = trial.cost /\ given' = now
  /\ systemOf' = IF rebuilds THEN At + 1 ELSE systemOf
  /\ phase' = "loop"
  /\ UNCHANGED <<solver, iteration, trial>>

Reject == phase' = "loop" /\ UNCHANGED <<solver, iteration, costs, feasible, current, systemOf, trial, given>>

NothingToMinimise == costs[1] = NothingLeft
Converged == current = NothingLeft \/ trial.small

-----------------------------------------------------------------------------
(* The functions                                                           *)

\* SchurComplementBundlerCpu::solve works on the caller's problem.
VisualCpu ==
  /\ solver = "visual CPU"
  /\ \/ /\ phase = "start"
        /\ IF NothingToMinimise THEN Return("true", given)
           ELSE IF costs[1] = Infinite THEN Return("false", given) ELSE Enter
     \/ /\ phase = "judge"
        /\ IF Converged THEN Return("true", given)
           ELSE Accept(Both(At + 1), TRUE) \/ Reject
     \/ phase = "end" /\ Return("true", given)

VisualGpu_returns_at_convergence ==
  /\ solver = "visual GPU"
  /\ \/ /\ phase = "start"
        /\ IF NothingToMinimise THEN Return("true", given)
           ELSE IF costs[1] = Infinite THEN Return("false", given) ELSE Enter
     \/ /\ phase = "judge"
        /\ IF Converged THEN Return("true", given)
           ELSE Accept(given, TRUE) \/ Reject
     \/ phase \in {"start", "loop", "judge", "end"} /\ Return("false", given)
     \/ phase = "end" /\ Return("true", Both(At))

\* SchurComplementBundlerGpu works on a copy that it writes back at the end; a
\* CUDA error makes it give up at any time.
VisualGpu ==
  /\ solver = "visual GPU"
  /\ \/ /\ phase = "start"
        /\ IF NothingToMinimise THEN Return("true", given)
           ELSE IF costs[1] = Infinite THEN Return("false", given) ELSE Enter
     \/ /\ phase = "judge"
        /\ IF Converged THEN Stop(current)
           ELSE Accept(given, TRUE) \/ Reject
     \/ phase \in {"start", "loop", "judge", "end"} /\ Return("false", given)
     \/ phase = "end" /\ Return("true", Both(At))

\* IMUBundlerCpuFixedVel::solve
InertialCpu ==
  /\ solver = "inertial CPU"
  /\ \/ /\ phase = "start"
        /\ IF NothingToMinimise THEN Return("true", given)
           ELSE IF costs[1] \in {Infinite, NaN} THEN Return("false", given) ELSE Enter
     \/ /\ phase = "judge"
        /\ IF trial.cost \in {Infinite, NaN} THEN Return("false", given)
           ELSE IF Converged THEN Return("true", given)
           ELSE Accept(Both(At + 1), TRUE) \/ Reject
     \/ phase = "end" /\ Return(IF Less(current, costs[1]) THEN "true" ELSE "false", given)

\* IMUBundlerGpuFixedVel::solve.  Poses are copied back after every accepted
\* step, points at the end; after the last iteration no system is built.
InertialGpu ==
  /\ solver = "inertial GPU"
  /\ \/ /\ phase = "start"
        /\ IF NothingToMinimise THEN Return("true", given)
           ELSE IF costs[1] \in {Infinite, NaN} THEN Return("false", given) ELSE Enter
     \/ /\ phase = "judge"
        /\ IF trial.cost \in {Infinite, NaN} THEN Return("false", given)
           ELSE IF Converged THEN Stop(current)
           ELSE Accept([given EXCEPT !.first = At + 1], iteration < MaxIterations) \/ Reject
     \/ /\ phase = "end"
        /\ Return(IF Less(current, costs[1]) THEN "true" ELSE "false", [given EXCEPT !.rest = At])

InertialPnP_not_restored ==
  /\ solver = "inertial PnP"
  /\ \/ phase = "start" /\ IF NothingToMinimise THEN Return("true", given) ELSE Enter
     \/ /\ phase = "judge"
        /\ IF trial.cost = Infinite THEN Return("false", given)
           ELSE IF trial.small THEN Stop(trial.cost)
           ELSE Accept(Both(At + 1), TRUE) \/ Reject
     \/ /\ phase = "end"
        /\ IF Less(current, costs[1]) THEN Return("true", given) ELSE Return("false", Both(1))

\* solve_inertial_pnp
InertialPnP ==
  /\ solver = "inertial PnP"
  /\ \/ phase = "start" /\ IF NothingToMinimise THEN Return("true", given) ELSE Enter
     \/ /\ phase = "judge"
        /\ IF trial.cost = Infinite THEN Return("false", Both(1))
           ELSE IF trial.small THEN Stop(trial.cost)
           ELSE Accept(Both(At + 1), TRUE) \/ Reject
     \/ /\ phase = "end"
        /\ IF Less(current, costs[1]) THEN Return("true", given) ELSE Return("false", Both(1))

\* MinimizeReprojectionError on a copy, of which RefinePose and RefineRotation
\* take over what it calls a success
MonoPnP ==
  /\ solver = "mono PnP"
  /\ \/ phase = "start" /\ IF NothingToMinimise THEN Return("true", given) ELSE Enter
     \/ /\ phase = "judge"
        /\ IF trial.small THEN Stop(trial.cost) ELSE Accept(given, TRUE) \/ Reject
     \/ /\ phase = "end"
        /\ IF Less(current, Success) THEN Return("true", Both(At)) ELSE Return("false", given)

\* PNPSolver::solve
MulticamPnP ==
  /\ solver = "multicam PnP"
  /\ \/ phase = "start" /\ IF NothingToMinimise THEN Return("true", given) ELSE Enter
     \/ /\ phase = "judge"
        /\ IF trial.small THEN Stop(trial.cost) ELSE Accept(Both(At + 1), TRUE) \/ Reject
     \/ /\ phase = "end"
        /\ Return(IF Less(current, Success) \/ Less(current, costs[1]) THEN "true" ELSE "false", given)

\* VisualICP::solve_level always reports success.
ICPLevel ==
  /\ solver = "ICP"
  /\ \/ phase = "start" /\ Enter
     \/ /\ phase = "judge"
        /\ IF trial.small THEN Stop(trial.cost) ELSE Accept(given, TRUE) \/ Reject
     \/ /\ phase = "end"
        /\ Return("true", IF Less(current, costs[1]) \/ (current # NaN /\ current = costs[1])
                          THEN Both(At) ELSE given)

\* PGO::pgo_regular; pgo_planar runs the same loop.
PoseGraphOptimisation ==
  /\ solver = "pose graph"
  /\ \/ phase = "start" /\ Enter
     \/ /\ phase = "judge"
        /\ IF trial.small THEN Stop(trial.cost) ELSE Accept(given, TRUE) \/ Reject
     \/ /\ phase = "end"
        /\ IF Less(current, costs[1]) \/ iteration = MaxIterations THEN Return("true", Both(At))
           ELSE Return("false", given)

\* InertialOptimizer::optimize_inertial moves gravity, velocities and the biases
\* of the preintegrations in place and hands over the keyframes' biases at the end.
OptimizeInertial ==
  /\ solver = "gravity"
  /\ \/ phase = "start" /\ IF NothingToMinimise THEN Return("true", Both(1)) ELSE Enter
     \/ /\ phase = "judge"
        /\ IF trial.small THEN Stop(trial.cost)
           ELSE Accept([given EXCEPT !.first = At + 1], TRUE) \/ Reject
     \/ phase = "end" /\ Return("true", Both(At))

\* OptimizeInertialAdaptive hands the biases over only if the loop has improved
\* on the linear estimate or converged, and succeeds only if it has improved.
\* Then it moves the poses of the keyframes, which the cost took as given.
OptimizeInertialAdaptive ==
  /\ solver = "gravity adaptive"
  /\ \/ phase = "start" /\ IF NothingToMinimise THEN Return("true", given) ELSE Enter
     \/ /\ phase = "judge"
        /\ IF trial.small
           THEN /\ phase' = "end" /\ current' = trial.cost /\ given' = Both(At)
                /\ UNCHANGED <<solver, iteration, costs, feasible, systemOf, trial>>
           ELSE Accept([given EXCEPT !.first = At + 1], TRUE) \/ Reject
     \/ /\ phase = "end"
        /\ IF Less(current, costs[1]) THEN Return("true", Both(At)) ELSE Return("false", given)

Next ==
  \/ ComputeStep \/ Indefinite \/ LastIteration
  \/ VisualCpu \/ VisualGpu \/ InertialCpu \/ InertialGpu \/ InertialPnP \/ MonoPnP \/ MulticamPnP
  \/ ICPLevel \/ PoseGraphOptimisation \/ OptimizeInertial \/ OptimizeInertialAdaptive

Spec == Init /\ [][Next]_vars

-----------------------------------------------------------------------------
(* Properties                                                              *)

\* Whatever mixture of accepted, rejected and converged steps there was, a
\* function that reports success leaves the caller with a state whose cost is
\* not above that of the state the caller gave.
SuccessIsNoWorse == phase = "true" => ~Less(costs[1], costs[given.first])

\* With a success the caller has every accepted step, of poses and points (or
\* gravity and biases) alike, although some of them are written back at once
\* and some at the end.  (OptimizeInertialAdaptive keeps the biases of before
\* when it finds nothing to minimise.)
SuccessHandsEverythingOver ==
  phase = "true" /\ (solver = "gravity adaptive" => iteration > 0) => given = Both(At)

\* "OUT: pose, prev_pose - updated poses if success, otherwise it's guaranteed
\* to be unchanged" (soft_inertial_pnp.cpp:672); so do the visual bundlers,
\* RefinePose and the pose graph optimiser.
FailureChangesNothing ==
  phase = "false" /\ solver \in {"inertial PnP", "visual CPU", "visual GPU", "mono PnP", "pose graph"} =>
    given = Both(1)

\* A step is computed from the derivatives at the state it starts from, never
\* from those of a state before the last accepted step.
StepFromTheCurrentState == phase = "judge" => trial.of = At

\* "We guarantee that initial cost is not infinity and we will never accept a step
\* that leads to an infinite cost" (schur_complement_bundler_gpu.cpp:199-203): once a
\* bundler has built a system, no state it started from or accepted leaves every
\* observation out.  The three that count what they skip keep this.  The visual one on
\* the GPU, where the comment stands, does not: it never reads the number (:187).
NeverInfeasible == solver \in CountSkipped /\ systemOf > 0 => \A s \in 1 .. At : feasible[s]
=============================================================================
