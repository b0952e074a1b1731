----------------------------- MODULE MonoBundle -----------------------------
(***************************************************************************)
(* The bundle adjustment of one camera: sparseBA (sba_mono_wrapper.cpp),   *)
(* which chooses what takes part, and its solver (mono_sba_solver.cpp),    *)
(* after algorithm A6.4 of Hartley and Zisserman.                          *)
(*                                                                         *)
(* A number stands for a pose, a position and each block, projections are  *)
(* linear, and numbers are those of a finite field, which has no order:    *)
(* whether a step lowers the residual is any choice.  Tracks are skipped   *)
(* for a step when they cannot be solved for, and until a step is accepted *)
(* when they come too close to a camera.                                   *)
(***************************************************************************)
EXTENDS Integers, FiniteSets, FiniteSetsExt

CONSTANTS
  Prime,       \* elements of the field
  Seeds,       \* sets of coordinates, Jacobians and weights
  LeastLambda, \* the least lambda_
  MaxLambda,   \* LAMBDA_MAX, as a power of ten times the least
  MaxSteps     \* maxIterations_ + 1

VARIABLES
  problem,     \* what sparseBA sets up
  phase,       \* where solve() is
  estimate,    \* a of the frames and b of the tracks
  skip,        \* the tracks that are skipped
  err,         \* err of the frames
  damping,     \* lambda_, as a power of ten times the least
  count,       \* steps that are left
  system,      \* Uo, V, W, errA and errB, and what they were computed from
  step,        \* da and db
  readmitted   \* the tracks that update() has taken back, that err was not computed for

bvars == <<problem, phase, estimate, skip, err, damping, count, system, step, readmitted>>

Frames == 1 .. 3
Tracks == 1 .. 2
None == [none |-> 0]

Element == 0 .. Prime - 1
Reciprocal(a) == CHOOSE b \in Element : (a * b) % Prime = 1
SumOf(S, f(_)) == MapThenSumSet(f, S) % Prime

-----------------------------------------------------------------------------
(* sparseBA                                                                *)

\* What takes part: tracks with a position that a free frame observes and one more.
TakesPart(p, t) ==
  /\ t \in p.located
  /\ \E f \in p.constrained + 1 .. 3 : <<f, t>> \in p.seen
  /\ Cardinality({f \in Frames : <<f, t>> \in p.seen}) >= 2

Free == problem.constrained + 1 .. 3
Active == {t \in Tracks : TakesPart(problem, t)}
FramesOf(t) == {f \in Frames : <<f, t>> \in problem.seen}
TracksOf(f) == {t \in Active : f \in FramesOf(t)}

\* an entry of the seed for an observation
Value(f, t, part) == (problem.seed * part + (5 * f + t) * (5 * f + t) * part + f) % Prime
Coord(f, t) == Value(f, t, 1)
A(f, t) == Value(f, t, 2)
B(f, t) == Value(f, t, 3)

\* infoMat times the weight, which the last accepted step has changed
Weight(f, t) == (Value(f, t, 4) + system.accepted) % Prime

Init ==
  /\ problem \in [seed : Seeds, constrained : 1 .. 2, located : {{1}, {1, 2}},
                  seen : {Frames \X Tracks, (Frames \X Tracks) \ {<<3, 2>>}}]
  /\ phase = "start" /\ skip = {} /\ damping = 1 /\ count = MaxSteps
  /\ estimate = [a |-> [f \in Frames |-> 1], b |-> [t \in Tracks |-> 2]]
  /\ err = [o \in Frames \X Tracks |-> 0]   \* setZero of addFrame
  /\ system = [accepted |-> 0] /\ step = None /\ readmitted = {}

-----------------------------------------------------------------------------
(* The solver                                                              *)

\* The error of an observation under an estimate
ErrorOf(e, f, t) == (Coord(f, t) - A(f, t) * e.a[f] - B(f, t) * e.b[t]) % Prime

\* calculateResidual sets err for the tracks that are not skipped.
Errors(e, skipped) ==
  [o \in Frames \X Tracks |->
     IF o[2] \in Active \ skipped /\ o[1] \in FramesOf(o[2]) THEN ErrorOf(e, o[1], o[2]) ELSE err[o]]

\* solve() up to its loop: filterHitherPoints may skip any track.
Start ==
  /\ phase = "start"
  /\ \E close \in SUBSET Active :
       /\ skip' = close
       /\ err' = Errors(estimate, close)
       /\ phase' = IF Active \subseteq close THEN "end" ELSE "build"
  /\ UNCHANGED <<problem, estimate, damping, count, system, step, readmitted>>

\* calculateU, of a frame
UBlock(f) ==
  SumOf(TracksOf(f) \ skip, LAMBDA t : A(f, t) * Weight(f, t) * A(f, t))
ErrA(f) ==
  SumOf(TracksOf(f) \ skip, LAMBDA t : A(f, t) * Weight(f, t) * err[<<f, t>>])

\* calculateV, of a track
VBlock(t) == SumOf(FramesOf(t), LAMBDA f : B(f, t) * Weight(f, t) * B(f, t))
ErrB(t) == SumOf(FramesOf(t), LAMBDA f : B(f, t) * Weight(f, t) * err[<<f, t>>])

\* calculateW
WBlock(f, t) == (A(f, t) * Weight(f, t) * B(f, t)) % Prime

\* The derivatives and blocks are computed when the estimate is new.
Build ==
  /\ phase = "build"
  /\ system' = [accepted |-> system.accepted, counted |-> Active \ skip, err |-> err,
                U |-> [f \in Free |-> UBlock(f)], errA |-> [f \in Free |-> ErrA(f)],
                V |-> [t \in Active \ skip |-> VBlock(t)], errB |-> [t \in Active \ skip |-> ErrB(t)],
                W |-> [o \in Free \X Active |-> IF o[1] \in FramesOf(o[2]) THEN WBlock(o[1], o[2]) ELSE 0]]
  /\ phase' = "step"
  /\ UNCHANGED <<problem, estimate, skip, err, damping, count, step, readmitted>>

Lambda == LeastLambda * 10 ^ damping
Damped(x) == (x * (1 + Lambda)) % Prime

\* stepUV: a track whose block has no inverse is skipped; it may be the determinant
\* that is too small for it.
Invertible(free) == \A t \in free : Damped(system.V[t]) # 0
Y(f, t) == system.W[<<f, t>>] * Reciprocal(Damped(system.V[t]))

\* The tracks that are skipped count in calculateEps.
Epsilon_of_all(f, free) ==
  (system.errA[f]
   - SumOf({t \in system.counted : Damped(system.V[t]) # 0}, LAMBDA t : Y(f, t) * system.errB[t])) % Prime

\* calculateEps
Epsilon(f, free) ==
  (system.errA[f] - SumOf(free, LAMBDA t : Y(f, t) * system.errB[t])) % Prime

\* calculateSMatrix
SBlock(f, g, free) ==
  ((IF f = g THEN Damped(system.U[f]) ELSE 0) - SumOf(free, LAMBDA t : Y(f, t) * system.W[<<g, t>>])) % Prime

\* calculateAdjustments: the solutions of the system of the frames
Adjustments(free) ==
  {da \in [Free -> Element] :
     \A f \in Free : (SumOf(Free, LAMBDA g : SBlock(f, g, free) * da[g]) - Epsilon(f, free)) % Prime = 0}

\* the change of a track that follows from those of the frames
DeltaB(t, da) ==
  ((system.errB[t] - SumOf(Free, LAMBDA f : system.W[<<f, t>>] * da[f]))
   * Reciprocal(Damped(system.V[t]))) % Prime

\* The blocks of the last estimate are kept after a step is rejected.
AfterRejection_rebuilt == "build"
AfterRejection == "step"

\* The loop ends at a lambda_ that is too great, when no steps are left, and when the
\* residual changes little.
Goes(next) ==
  phase' \in (IF damping' > MaxLambda \/ count' = 0 THEN {"end"} ELSE {next, "end"})

\* A step that cannot be solved for is rejected.
StepUV ==
  /\ phase = "step"
  /\ \E singular \in SUBSET (system.counted \ skip) :
       LET free == (system.counted \ skip) \ singular
           solutions == Adjustments(free)
       IN /\ Invertible(free)
          /\ skip' = skip \cup singular
          /\ IF Cardinality(solutions) = 1
             THEN /\ \E da \in solutions : step' = [a |-> da, b |-> [t \in free |-> DeltaB(t, da)]]
                  /\ phase' = "judge"
                  /\ UNCHANGED <<damping, count>>
             ELSE /\ damping' = damping + 1 /\ count' = count - 1
                  /\ Goes(AfterRejection)
                  /\ UNCHANGED step
  /\ UNCHANGED <<problem, estimate, err, system, readmitted>>

\* updateAdbD: aD and bD
Candidate ==
  [a |-> [f \in Frames |-> IF f \in Free THEN (estimate.a[f] + step.a[f]) % Prime ELSE estimate.a[f]],
   b |-> [t \in Tracks |-> IF t \in DOMAIN step.b THEN (estimate.b[t] + step.b[t]) % Prime
                           ELSE estimate.b[t]]]

\* update() takes every track back, and filterHitherPoints may skip any; the errors, for
\* the weights too, are those of calculateResidual.
Accept ==
  /\ phase = "judge" /\ ~ Active \subseteq skip
  /\ estimate' = Candidate /\ err' = Errors(Candidate, skip)
  /\ system' = [system EXCEPT !.accepted = @ + 1]
  /\ \E close \in SUBSET Active :
       /\ skip' = close
       /\ readmitted' = skip \ close
  /\ damping' = (IF damping > 0 THEN damping - 1 ELSE damping) /\ count' = count - 1
  /\ Goes("build")
  /\ UNCHANGED <<problem, step>>

Reject ==
  /\ phase = "judge" /\ ~ Active \subseteq skip
  /\ err' = Errors(Candidate, skip)
  /\ damping' = damping + 1 /\ count' = count - 1
  /\ Goes(AfterRejection)
  /\ UNCHANGED <<problem, estimate, skip, system, step, readmitted>>

\* No track is left: calculateResidual has nothing to add up.
GiveUp ==
  /\ phase = "judge" /\ Active \subseteq skip
  /\ phase' = "end"
  /\ UNCHANGED <<problem, estimate, skip, err, damping, count, system, step, readmitted>>

Next == Start \/ Build \/ StepUV \/ Accept \/ Reject \/ GiveUp

Spec == Init /\ [][Next]_bvars

-----------------------------------------------------------------------------
(* Properties                                                              *)

\* A step solves the damped normal equations of the frames and of the tracks that are
\* not skipped.  Those skipped since the equations were built keep their place and
\* still hold the frames; those skipped before have no part.
MonoStepSolves ==
  phase = "judge" =>
    LET counted == system.counted
        free == DOMAIN step.b
        weighted(f, t, g(_, _)) == g(f, t) * Weight(f, t) * system.err[<<f, t>>]
        w(f, t) == Weight(f, t)
    IN /\ \A f \in Free :
            ((1 + Lambda) * step.a[f]
               * SumOf(TracksOf(f) \cap counted, LAMBDA t : A(f, t) * w(f, t) * A(f, t))
             + SumOf(TracksOf(f) \cap free, LAMBDA t : A(f, t) * w(f, t) * B(f, t) * step.b[t])
             - SumOf(TracksOf(f) \cap counted, LAMBDA t : weighted(f, t, A))) % Prime = 0
       /\ \A t \in free :
            ((1 + Lambda) * step.b[t]
               * SumOf(FramesOf(t), LAMBDA f : B(f, t) * w(f, t) * B(f, t))
             + SumOf(FramesOf(t) \cap Free, LAMBDA f : A(f, t) * w(f, t) * B(f, t) * step.a[f])
             - SumOf(FramesOf(t), LAMBDA f : weighted(f, t, B))) % Prime = 0

ErrorsAreThoseOf(tracks) ==
  \A t \in tracks, f \in Frames : f \in FramesOf(t) => system.err[<<f, t>>] = ErrorOf(estimate, f, t)

\* The errors a step is computed from are those of the estimate it starts from, also
\* after steps were rejected, but for tracks that were taken back.
ErrorsOfTheEstimate ==
  phase = "judge" => ErrorsAreThoseOf(system.counted \ readmitted)

\* What the solver says of an accepted step: the errors were populated with new values
\* that correspond to the new estimate, for every track that is counted.
ErrorsAreNew == phase = "judge" => ErrorsAreThoseOf(system.counted)
=============================================================================
