----------------------------- MODULE Localizer ------------------------------
(***************************************************************************)
(* The search for a pose in a saved map (slam/localizer) and the solvers   *)
(* of loop closures it calls (slam/slam/loop_closure_solver).              *)
(*                                                                         *)
(* The localizer probes the poses around a hint, nearest first.  A fast    *)
(* solver, without RANSAC, screens a probe, and an accurate one, twice     *)
(* with RANSAC, is called where the fast one did better than before.  The  *)
(* search ends at the first probe that is farther than the best solution.  *)
(*                                                                         *)
(* Of landmarks and images only numbers of observations are kept: how many *)
(* the descriptors lose, find and RANSAC confirms is any number, and so is *)
(* whether a pose is computed from them.  A landmark counts once for each  *)
(* camera that finds it.  The map is the one that was saved, the head of   *)
(* its graph included.                                                     *)
(***************************************************************************)
EXTENDS Integers, FiniteSets, FiniteSetsExt

CONSTANTS
  HorizontalRadius, VerticalRadius, HorizontalStep, VerticalStep, Angles,
  MinPoints,        \* 3: observations a pose takes
  MinForRansac,     \* 5: observations RANSAC takes
  MinObservations,  \* 13: observations of a pose that is accepted
  MinLandmarks,     \* 40: of one that the two steps accept
  ManyLandmarks,    \* 200: where the least share of inliers stops to fall
  MaxFound,         \* bound of the model: observations that are found
  MaxLost           \* bound of the model: observations that are lost

VARIABLES
  trial,    \* trial_, from 1
  phase,    \* what is called next
  fast,     \* the weight that the fast solver gave the probe
  simple,   \* max_simple_loop_closure_status_.Weight()
  exact,    \* max_exact_loop_closure_status_
  status,   \* the counts of the last DetectLoopClosure
  truth,    \* what happened in it, when it succeeded
  solved    \* <<distance, weight>> of the accurate solutions that were found

lvars == <<trial, phase, fast, simple, exact, status, truth, solved>>

-----------------------------------------------------------------------------
(* The probes: steps that are not positive are only warned of; with them   *)
(* PrepareProbes does not end.                                             *)

Offsets(radius, step) == {x \in -radius .. radius : (x + radius) % step = 0}

Shifts ==
  Offsets(HorizontalRadius, HorizontalStep) \X Offsets(VerticalRadius, VerticalStep)
    \X Offsets(HorizontalRadius, HorizontalStep) \X Angles

\* The square of Shift::dist
Distance(shift) == shift[1] * shift[1] + shift[2] * shift[2] + shift[3] * shift[3]

\* shifts_[n - 1].dist(), squared: the shifts are sorted by their distance.
DistanceAt(n) ==
  Min({d \in {Distance(s) : s \in Shifts} : Cardinality({s \in Shifts : Distance(s) <= d}) >= n})

-----------------------------------------------------------------------------
(* The solvers                                                             *)

\* What there is to solve: observations found and lost, those RANSAC confirms, or
\* -1 when it finds no hypothesis, and whether a pose is computed.  A landmark that
\* is outside the image, has no descriptor or a position that cannot be normalised
\* is skipped without a word; one that correlates badly is lost.
Observed ==
  {o \in [found : 0 .. MaxFound, lost : 0 .. MaxLost, inliers : -1 .. MaxFound, posed : BOOLEAN] :
     o.inliers <= o.found}

Inliers(ransac, o) ==
  IF ~ransac THEN o.found ELSE IF o.found < MinForRansac THEN 0 ELSE o.inliers

\* LoopClosureSolverSimple::Solve: good are the observations of landmarks, the
\* others what it tells the callback.  RANSAC's share of the observations is left
\* for the solver with two steps.
NoAnswer(o) ==
  [success |-> FALSE, good |-> 0, lost |-> o.lost, outliers |-> 0, unposed |-> 0, share |-> <<1, 1>>]

SolveSimple(ransac, o) ==
  LET points == Inliers(ransac, o)
      share == IF ransac THEN <<points, o.found + 1>> ELSE <<1, 1>>
      outliers == IF ransac THEN o.found - points ELSE 0
  IN IF o.found < MinPoints THEN NoAnswer(o)
     ELSE IF points < MinPoints THEN [NoAnswer(o) EXCEPT !.share = share]
     ELSE IF ~o.posed \/ points < MinObservations
     THEN [NoAnswer(o) EXCEPT !.share = share, !.outliers = outliers, !.unposed = o.found]
     ELSE [success |-> TRUE, good |-> points, lost |-> o.lost, outliers |-> outliers,
           unposed |-> 0, share |-> share]

\* The least share of inliers of an accurate solution in percent: 50 with
\* MinLandmarks observations, 30 with ManyLandmarks and more.
LeastShare(good) ==
  50 - (20 * (Min({good, ManyLandmarks}) - MinLandmarks)) \div (ManyLandmarks - MinLandmarks)

\* The end of LoopClosureSolverTwoStepsEasy::Solve, after its second step.  Rotation
\* matrices all have the same norm, so comparing them is comparing rounding errors:
\* whether the second pose is refused for being farther from the first than from
\* the guess is any choice.
SecondStep(o, farther) ==
  LET s == SolveSimple(TRUE, o)
  IN [s EXCEPT !.success =
        /\ s.success /\ ~farther
        /\ s.good >= MinLandmarks
        /\ 100 * s.share[1] >= LeastShare(s.good) * s.share[2]]

\* SlamCheckHypothesis: the failures of the pose that were counted one by one are
\* replaced by the landmarks there are.
Checked(s) == [s EXCEPT !.unposed = IF s.success THEN @ ELSE s.good]

\* The observations are counted without the ones RANSAC refused.
StatusOf_without_outliers(s) ==
  [success |-> s.success, good |-> s.good, pnp |-> s.good + s.unposed,
   tracked |-> s.good + s.unposed, selected |-> s.good + s.unposed + s.lost]

\* DetectLoopClosure: the counts of a status
StatusOf(s) ==
  [success |-> s.success, good |-> s.good, pnp |-> s.good + s.unposed,
   tracked |-> s.good + s.unposed + s.outliers,
   selected |-> s.good + s.unposed + s.outliers + s.lost]

NoStatus == [success |-> FALSE, good |-> 0, pnp |-> 0, tracked |-> 0, selected |-> 0]

\* The arc tangent of a number of observations, in hundredths
Atan(n) == IF n > 8 THEN 147 ELSE <<79, 111, 125, 133, 137, 141, 143, 145>>[n]

\* LoopClosureStatus::Weight, a fraction
Weight(s) == IF s.tracked = 0 \/ ~s.success THEN <<0, 1>> ELSE <<s.good * Atan(s.good), s.tracked>>

Heavier(v, w) == v[1] * w[2] > w[1] * v[2]

-----------------------------------------------------------------------------
(* The search                                                              *)

Unsolved == [found |-> FALSE, distance |-> 0, weight |-> <<0, 1>>, keyframe |-> FALSE]
NothingObserved == [found |-> 0, lost |-> 0, inliers |-> 0, posed |-> FALSE]

\* What is remembered of a detection
Kept(o) == IF status'.success THEN o ELSE NothingObserved

Init ==
  /\ trial = 1 /\ phase = "probe" /\ fast = <<0, 1>> /\ simple = <<0, 1>>
  /\ exact = Unsolved /\ status = NoStatus /\ truth = NothingObserved /\ solved = {}

\* The search ends at the first solution.
ProbeIsOver_at_a_solution == trial <= Cardinality(Shifts) => exact.found

\* Step with FastLoopClosure: the next probe, unless there is none or the best
\* solution is nearer.  TryAccurateLoopClosure follows if it is the best so far.
ProbeIsOver ==
  trial <= Cardinality(Shifts) => exact.found /\ DistanceAt(trial) > exact.distance

Probe ==
  /\ phase = "probe" /\ ~ProbeIsOver
  /\ \E o \in Observed :
       /\ o.inliers = o.found   \* there is no RANSAC
       /\ status' = StatusOf(Checked(SolveSimple(FALSE, o)))
       /\ truth' = Kept(o)
       /\ fast' = Weight(status')
       /\ phase' = IF Heavier(fast', simple) THEN "first" ELSE "probe"
  /\ trial' = trial + 1
  /\ UNCHANGED <<simple, exact, solved>>

\* The first of the two steps: it tells the callbacks nothing.
FirstStep ==
  /\ phase = "first"
  /\ \E o \in Observed :
       LET s == SolveSimple(TRUE, o)
       IN /\ o.lost = 0
          /\ phase' = IF s.success THEN "second" ELSE "probe"
          /\ status' = IF s.success THEN status ELSE NoStatus
  /\ UNCHANGED <<trial, fast, simple, exact, truth, solved>>

\* The latest of two solutions is kept.
Improves_always(w) == w[1] > 0

Improves(w) == Heavier(w, exact.weight)

\* The second step, and the rest of AccurateLoopClosure and TryAccurateLoopClosure.
\* No keyframe is named when the landmarks have none but the head of the graph.
AccurateStep ==
  /\ phase = "second"
  /\ \E o \in Observed, farther, keyframe \in BOOLEAN :
       LET distance == DistanceAt(trial - 1)
           found == [found |-> TRUE, distance |-> distance, weight |-> Weight(status'),
                     keyframe |-> keyframe]
       IN /\ status' = StatusOf(Checked(SecondStep(o, farther)))
          /\ truth' = Kept(o)
          /\ simple' = IF status'.success THEN fast ELSE simple
          /\ exact' = IF status'.success /\ Improves(Weight(status'))
                      THEN found ELSE exact
          /\ solved' = IF status'.success THEN solved \cup {<<distance, Weight(status')>>}
                       ELSE solved
  /\ phase' = "probe"
  /\ UNCHANGED <<trial, fast>>

\* The end of Localize and of LocalizeInMapCmd, which selects the keyframe
Finish ==
  /\ phase = "probe" /\ ProbeIsOver
  /\ phase' = IF ~exact.found THEN "not localised"
              ELSE IF ~exact.keyframe THEN "internal error" ELSE "localised"
  /\ UNCHANGED <<trial, fast, simple, exact, status, truth, solved>>

Next == Probe \/ FirstStep \/ AccurateStep \/ Finish

Spec == Init /\ [][Next]_lvars /\ WF_lvars(Next)

-----------------------------------------------------------------------------
(* Properties                                                              *)

TypeOK ==
  /\ trial \in 1 .. Cardinality(Shifts) + 1
  /\ phase \in {"probe", "first", "second", "localised", "not localised", "internal error"}
  /\ fast \in Nat \X (Nat \ {0}) /\ simple \in Nat \X (Nat \ {0})
  /\ exact.found \in BOOLEAN /\ exact.keyframe \in BOOLEAN
  /\ truth \in Observed

\* What a successful detection reports is what happened in the solver: every
\* observation is counted once, as good, as refused by RANSAC or as lost, although
\* the callbacks name observations of two steps and name outliers twice.
CountsAgree ==
  status.success =>
    /\ status.tracked = truth.found
    /\ status.selected = truth.found + truth.lost
    /\ status.pnp = status.good /\ status.good <= status.tracked

\* The best of the accurate solutions is kept: none is nearer to the hint, and none
\* as near weighs more.
BestIsKept ==
  \A s \in solved :
    exact.found /\ s[1] = exact.distance /\ ~Heavier(s[2], exact.weight)

\* The search does not end before every probe as near as the solution was tried,
\* or every probe when there is none.
NearerAreTried ==
  phase \in {"localised", "not localised", "internal error"} =>
    \A n \in 1 .. Cardinality(Shifts) :
      ~exact.found \/ DistanceAt(n) <= exact.distance => n < trial

\* A solution of the localizer is applied (the caller selects its keyframe).
SolutionIsApplied == phase # "internal error"
=============================================================================
