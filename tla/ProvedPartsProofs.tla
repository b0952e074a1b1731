-------------------------- MODULE ProvedPartsProofs --------------------------
(***************************************************************************)
(* Proofs about the parts of ProvedParts, for any costs, frames, tracks,   *)
(* capacities and cameras: the loops of the solvers, the map of one camera *)
(* with its task, the map of several cameras, and the pool of images.      *)
(* Each part has an inductive invariant of its own; PartsInv is that of    *)
(* the part that runs.                                                     *)
(***************************************************************************)
EXTENDS ProvedParts, SequenceTheorems, FiniteSetTheorems, WellFoundedInduction, TLAPS

-----------------------------------------------------------------------------
(* The Levenberg-Marquardt loops                                           *)

Running == {"start", "loop", "judge", "end"}

LoopTypes ==
  /\ costs \in Seq(Loops!Cost) /\ costs # <<>>
  /\ current \in Loops!Cost /\ trial.cost \in Loops!Cost
  /\ iteration \in 0 .. MaxIterations
  /\ phase \in Running \cup {"true", "false"}
  /\ phase = "start" => Len(costs) = 1 /\ iteration = 0

\* Every accepted step has lowered the cost.
Descending == \A j \in 2 .. Len(costs) : Loops!Less(costs[j], costs[1])

\* The current cost is that of the last state; a step too small to matter is
\* not taken, but may leave its cost.
CurrentCost ==
  /\ phase \in {"start", "loop", "judge"} => current = costs[Loops!At]
  /\ phase = "judge" /\ trial.small => Loops!Near(trial.cost, current)
  /\ phase = "end" => Loops!Near(current, costs[Loops!At])

\* The system is that of the last state, but for the inertial GPU solver, which
\* does not build one that nobody needs.
SystemOfLast ==
  /\ phase = "loop" => systemOf = Loops!At \/ iteration = MaxIterations
  /\ phase = "judge" => systemOf = Loops!At /\ trial.of = Loops!At

\* The caller's variables follow every accepted step, the last one only, or
\* the first of them every step and the rest the last one.
AtOnce == {"visual CPU", "inertial CPU", "inertial PnP", "multicam PnP"}
AtTheEnd == {"visual GPU", "mono PnP", "ICP", "pose graph"}
Partly == {"inertial GPU", "gravity", "gravity adaptive"}
Solvers == AtOnce \cup AtTheEnd \cup Partly

\* What the caller has while a function runs
GivenWhile ==
  phase \in Running =>
    /\ solver \in AtOnce => given = Loops!Both(Loops!At)
    /\ solver \in AtTheEnd => given = Loops!Both(1)
    /\ solver \in Partly => given = [first |-> Loops!At, rest |-> given.rest]
    /\ solver = "inertial GPU" => given.rest = 1

\* Those whose failure changes nothing
Guaranteed == {"inertial PnP", "visual CPU", "visual GPU", "mono PnP", "pose graph"}

\* and what it has after it
GivenAfter ==
  /\ phase = "true" => /\ given.first = Loops!At
                       /\ (solver = "gravity adaptive" => iteration > 0) => given = Loops!Both(Loops!At)
  /\ phase = "false" /\ solver \in Guaranteed => given = Loops!Both(1)

LoopInv ==
  /\ solver \in Solvers
  /\ LoopTypes /\ Descending /\ CurrentCost /\ SystemOfLast /\ GivenWhile /\ GivenAfter

LEMMA EvaluationsAreCosts == ASSUME NEW e \in Loops!Evaluations PROVE e.cost \in Loops!Cost
<1>1. e.cost \in Loops!Cost \/ e.cost = Loops!InfeasibleCost
  <2>1. CASE e \in [cost : Loops!Cost, feasible : {TRUE}]
    BY <2>1
  <2>2. CASE e = [cost |-> Loops!InfeasibleCost, feasible |-> FALSE]
    BY <2>2
  <2> QED BY <2>1, <2>2 DEF Loops!Evaluations
<1>2. Loops!InfeasibleCost \in Loops!Cost
  <2>1. Loops!InfeasibleCost \in {Loops!Infinite, Loops!NaN, 0}
    BY DEF Loops!InfeasibleCost
  <2>2. 0 \in Loops!Finite
    BY ProvedPartsAssumption DEF Loops!Finite
  <2> QED BY <2>1, <2>2 DEF Loops!Cost
<1> QED BY <1>1, <1>2

LEMMA LoopInit == Loops!Init => LoopInv
<1> SUFFICES ASSUME Loops!Init PROVE LoopInv
  OBVIOUS
<1>1. PICK start \in Loops!Evaluations : costs = <<start.cost>> /\ feasible = <<start.feasible>>
  BY DEF Loops!Init
<1>2. start.cost \in Loops!Cost
  BY EvaluationsAreCosts
<1>3. costs \in Seq(Loops!Cost) /\ Len(costs) = 1 /\ costs[1] = start.cost /\ costs # <<>>
  BY <1>1, <1>2
<1>4. /\ current = costs[1] /\ phase = "start" /\ iteration = 0 /\ trial.cost = 0
      /\ given = IF solver \in Loops!Gravity THEN [first |-> 1, rest |-> 0] ELSE Loops!Both(1)
      /\ solver \in Solvers
  BY DEF Loops!Init, Loops!Gravity, Solvers, AtOnce, AtTheEnd, Partly
<1>5. LoopTypes
  BY <1>2, <1>3, <1>4, ProvedPartsAssumption DEF LoopTypes, Running, Loops!Cost, Loops!Finite
<1>6. Descending
  BY <1>3 DEF Descending
<1>7. CurrentCost /\ SystemOfLast /\ GivenWhile /\ GivenAfter
  BY <1>3, <1>4 DEF CurrentCost, SystemOfLast, GivenWhile, GivenAfter, Loops!At, Loops!Gravity,
     Loops!Both, AtOnce, AtTheEnd, Partly, Solvers
<1> QED BY <1>4, <1>5, <1>6, <1>7 DEF LoopInv

\* An accepted step
Lowered(rebuilt) ==
  /\ phase = "judge" /\ phase' = "loop" /\ Loops!Less(trial.cost, current)
  /\ costs' = Append(costs, trial.cost) /\ current' = trial.cost
  /\ systemOf' = (IF rebuilt THEN Loops!At + 1 ELSE systemOf)
  /\ rebuilt \/ iteration = MaxIterations
  /\ UNCHANGED <<solver, iteration, trial>>

\* and what the caller has of it
HandedOn(now) ==
  /\ solver \in AtOnce => now = Loops!Both(Loops!At + 1)
  /\ solver \in AtTheEnd => now = given
  /\ solver \in Partly => now = [given EXCEPT !.first = Loops!At + 1]

Accepted == \E now : \E rebuilt \in BOOLEAN : Lowered(rebuilt) /\ HandedOn(now) /\ given' = now

\* Less is transitive, and accepted costs are no NaN.
LEMMA LoweredDescends ==
  ASSUME LoopInv, NEW rebuilt \in BOOLEAN, Lowered(rebuilt)
  PROVE  Descending' /\ LoopTypes' /\ CurrentCost' /\ SystemOfLast' /\ Loops!At' = Loops!At + 1
<1>1. /\ costs \in Seq(Loops!Cost) /\ Len(costs) \in Nat \ {0} /\ trial.cost \in Loops!Cost
      /\ current = costs[Len(costs)] /\ costs # <<>>
  BY DEF LoopInv, LoopTypes, Lowered, CurrentCost, Loops!At
<1>2. /\ costs' \in Seq(Loops!Cost) /\ Len(costs') = Len(costs) + 1 /\ costs' # <<>>
      /\ costs'[Len(costs) + 1] = trial.cost /\ \A j \in 1 .. Len(costs) : costs'[j] = costs[j]
  BY <1>1 DEF Lowered
<1>3. Loops!Less(trial.cost, costs[1])
  <2>1. Loops!Cost \subseteq Int
    BY ProvedPartsAssumption DEF Loops!Cost, Loops!Finite, Loops!Infinite, Loops!NaN
  <2>2. Loops!Less(trial.cost, costs[Len(costs)])
    BY <1>1 DEF Lowered
  <2>3. Len(costs) = 1 \/ Loops!Less(costs[Len(costs)], costs[1])
    <3>1. Len(costs) = 1 \/ Len(costs) \in 2 .. Len(costs)
      BY <1>1
    <3> QED BY <3>1 DEF LoopInv, Descending
  <2>4. costs[1] \in Int /\ costs[Len(costs)] \in Int /\ trial.cost \in Int
    <3>1. 1 \in 1 .. Len(costs) /\ Len(costs) \in 1 .. Len(costs)
      BY <1>1
    <3>2. costs[1] \in Loops!Cost /\ costs[Len(costs)] \in Loops!Cost
      BY <1>1, <3>1
    <3> QED BY <1>1, <2>1, <3>2
  <2> QED BY <2>2, <2>3, <2>4 DEF Loops!Less
<1>4. Descending'
  <2> SUFFICES ASSUME NEW j \in 2 .. Len(costs) + 1 PROVE Loops!Less(costs'[j], costs'[1])
    BY <1>2 DEF Descending, Loops!Less
  <2>1. costs'[1] = costs[1]
    BY <1>1, <1>2
  <2>2. CASE j = Len(costs) + 1
    BY <1>2, <1>3, <2>1, <2>2
  <2>3. CASE j \in 2 .. Len(costs)
    <3>1. costs'[j] = costs[j] /\ Loops!Less(costs[j], costs[1])
      BY <1>2, <2>3 DEF LoopInv, Descending
    <3> QED BY <2>1, <3>1
  <2> QED BY <1>1, <2>2, <2>3
<1>5. LoopTypes'
  BY <1>1, <1>2 DEF Lowered, LoopInv, LoopTypes, Running
<1>6. CurrentCost' /\ SystemOfLast' /\ Loops!At' = Loops!At + 1
  BY <1>1, <1>2 DEF Lowered, CurrentCost, SystemOfLast, Loops!At
<1> QED BY <1>4, <1>5, <1>6

LEMMA WithNewState == LoopInv /\ Accepted => LoopInv'
<1> SUFFICES ASSUME LoopInv, NEW now, NEW rebuilt \in BOOLEAN,
                    Lowered(rebuilt), HandedOn(now), given' = now
             PROVE  LoopInv'
  BY DEF Accepted
<1>1. Descending' /\ LoopTypes' /\ CurrentCost' /\ SystemOfLast' /\ Loops!At' = Loops!At + 1
  BY LoweredDescends
<1>2. solver' = solver /\ solver \in Solvers /\ phase' = "loop" /\ phase \in Running
  BY DEF Lowered, LoopInv, Running
<1>3. GivenWhile'
  <2>1. CASE solver \in Partly
    <3>1. given = [first |-> Loops!At, rest |-> given.rest]
      BY <1>2, <2>1 DEF LoopInv, GivenWhile
    <3>2. given' = [first |-> Loops!At + 1, rest |-> given.rest]
      BY <2>1, <3>1 DEF HandedOn
    <3>3. given' = [first |-> Loops!At', rest |-> given'.rest] /\ given'.rest = given.rest
      BY <1>1, <3>2
    <3>4. solver = "inertial GPU" => given.rest = 1
      BY <1>2 DEF LoopInv, GivenWhile
    <3> QED BY <1>2, <2>1, <3>3, <3>4 DEF GivenWhile, Partly, AtOnce, AtTheEnd
  <2>2. CASE solver \in AtOnce
    BY <1>1, <1>2, <2>2 DEF HandedOn, GivenWhile, Partly, AtOnce, AtTheEnd, Loops!Both
  <2>3. CASE solver \in AtTheEnd
    BY <1>1, <1>2, <2>3 DEF HandedOn, GivenWhile, LoopInv, Partly, AtOnce, AtTheEnd, Loops!Both
  <2> QED BY <1>2, <2>1, <2>2, <2>3 DEF Solvers
<1>4. GivenAfter'
  BY <1>2 DEF GivenAfter
<1> QED BY <1>1, <1>2, <1>3, <1>4 DEF LoopInv

\* The ways to go on without a new state
Entered ==
  /\ phase = "start" /\ phase' = "loop" /\ systemOf' = 1
  /\ UNCHANGED <<solver, iteration, costs, current, trial, given>>

Dropped ==
  /\ phase = "judge" /\ phase' = "loop"
  /\ UNCHANGED <<solver, iteration, costs, current, systemOf, trial, given>>

Stopped ==
  /\ phase \in Running /\ phase' = "end"
  /\ Loops!Near(current', costs[Loops!At]) /\ current' \in Loops!Cost
  /\ \/ given' = given
     \/ solver = "gravity adaptive" /\ given' = Loops!Both(Loops!At)
  /\ UNCHANGED <<solver, iteration, costs, systemOf, trial>>

HandedOver(result, state) ==
  \/ /\ result = "true" /\ state.first = Loops!At
     /\ (solver = "gravity adaptive" => iteration > 0) => state = Loops!Both(Loops!At)
  \/ /\ result = "false"
     /\ state = Loops!Both(1) \/ solver \notin Guaranteed

Ended ==
  \E result, state :
    /\ HandedOver(result, state) /\ phase \in Running /\ phase' = result /\ given' = state
    /\ UNCHANGED <<solver, iteration, costs, current, systemOf, trial>>

LEMMA WithoutNewState == LoopInv /\ (Entered \/ Dropped \/ Stopped \/ Ended) => LoopInv'
<1> SUFFICES ASSUME LoopInv, Entered \/ Dropped \/ Stopped \/ Ended PROVE LoopInv'
  OBVIOUS
<1>1. /\ costs' = costs /\ solver' = solver /\ iteration' = iteration /\ trial' = trial
      /\ current' \in Loops!Cost /\ solver \in Solvers
  BY DEF Entered, Dropped, Stopped, Ended, LoopInv, LoopTypes
<1>2. phase' \in Running \cup {"true", "false"} /\ phase' # "start" /\ phase \in Running
  BY DEF Entered, Dropped, Stopped, Ended, HandedOver, Running
<1>3. Descending' /\ LoopTypes' /\ Loops!At' = Loops!At
  BY <1>1, <1>2 DEF LoopInv, Descending, LoopTypes, Loops!At, Loops!Less
<1>4. CurrentCost'
  BY <1>1, <1>3 DEF Entered, Dropped, Stopped, Ended, HandedOver, LoopInv, CurrentCost, Loops!Near, Loops!At
<1>5. SystemOfLast'
  BY <1>1, <1>3 DEF Entered, Dropped, Stopped, Ended, HandedOver, LoopInv, SystemOfLast, LoopTypes, Loops!At
<1>6. GivenWhile'
  <2>1. CASE given' = given
    BY <1>1, <1>2, <1>3, <2>1 DEF LoopInv, GivenWhile, Loops!Both
  <2>2. CASE Stopped /\ given' # given
    <3>1. solver = "gravity adaptive" /\ given' = [first |-> Loops!At, rest |-> Loops!At]
      BY <2>2 DEF Stopped, Loops!Both
    <3>2. given' = [first |-> Loops!At', rest |-> given'.rest]
      BY <1>3, <3>1
    <3> QED BY <1>1, <3>1, <3>2 DEF GivenWhile, AtOnce, AtTheEnd, Partly
  <2>3. CASE Ended
    BY <2>3 DEF Ended, HandedOver, GivenWhile, Running
  <2> QED BY <2>1, <2>2, <2>3 DEF Entered, Dropped
<1>7. GivenAfter'
  BY <1>1, <1>3 DEF Entered, Dropped, Stopped, Ended, HandedOver, GivenAfter, Loops!Both
<1> QED BY <1>1, <1>3, <1>4, <1>5, <1>6, <1>7 DEF LoopInv

-----------------------------------------------------------------------------
(* Every function does one of these things.                                *)

Acts == Entered \/ Dropped \/ Stopped \/ Ended \/ Accepted

LEMMA EnterIs == phase = "start" /\ Loops!Enter => Acts
BY DEF Loops!Enter, Acts, Entered

LEMMA RejectIs == phase = "judge" /\ Loops!Reject => Acts
BY DEF Loops!Reject, Acts, Dropped

LEMMA StopIs ==
  ASSUME LoopInv, \/ phase = "judge" /\ trial.small /\ Loops!Stop(trial.cost)
                  \/ phase \in {"loop", "judge"} /\ Loops!Stop(current)
  PROVE  Acts
<1>1. phase \in {"loop", "judge"} /\ current = costs[Loops!At] /\ current \in Loops!Cost
      /\ trial.cost \in Loops!Cost
  BY DEF LoopInv, CurrentCost, LoopTypes
<1>2. Loops!Near(current', costs[Loops!At]) /\ current' \in Loops!Cost
  BY <1>1 DEF Loops!Stop, LoopInv, CurrentCost, Loops!Near
<1>3. /\ phase' = "end" /\ given' = given
      /\ UNCHANGED <<solver, iteration, costs, systemOf, trial>>
  BY DEF Loops!Stop
<1>4. phase \in Running
  BY <1>1 DEF Running
<1>5. Stopped
  BY <1>2, <1>3, <1>4 DEF Stopped
<1> QED BY <1>5 DEF Acts

LEMMA ReturnIs ==
  ASSUME NEW result, NEW state, phase \in Running, Loops!Return(result, state),
         HandedOver(result, state)
  PROVE  Acts
BY DEF Loops!Return, Acts, Ended

LEMMA AcceptIs ==
  ASSUME NEW now, NEW rebuilt \in BOOLEAN, phase = "judge", Loops!Accept(now, rebuilt),
         HandedOn(now), rebuilt \/ iteration = MaxIterations
  PROVE  Acts
<1>1. Lowered(rebuilt)
  BY DEF Loops!Accept, Loops!Better, Lowered
<1>2. given' = now
  BY DEF Loops!Accept
<1> QED BY <1>1, <1>2 DEF Acts, Accepted

\* What a function hands over while its loop runs and when it returns
LEMMA Handing ==
  ASSUME LoopInv, phase \in Running
  PROVE  /\ solver \in AtOnce => HandedOver("true", given) /\ HandedOn(Loops!Both(Loops!At + 1))
         /\ solver \in AtTheEnd => HandedOver("false", given) /\ HandedOn(given)
         /\ solver \in Partly => HandedOn([given EXCEPT !.first = Loops!At + 1])
         /\ HandedOver("true", Loops!Both(Loops!At)) /\ HandedOver("false", Loops!Both(1))
         /\ solver \notin Guaranteed => \A state : HandedOver("false", state)
         /\ phase = "start" /\ solver \notin {"gravity"} =>
              HandedOver("true", given) /\ HandedOver("false", given)
         /\ phase = "start" => HandedOver("true", Loops!Both(1))
<1>1. phase = "start" => Loops!At = 1 /\ iteration = 0
  BY DEF LoopInv, LoopTypes, Loops!At
<1>2. /\ solver \in AtOnce => given = Loops!Both(Loops!At)
      /\ solver \in AtTheEnd => given = Loops!Both(1)
      /\ solver \in Partly => given = [first |-> Loops!At, rest |-> given.rest]
      /\ solver = "inertial GPU" => given.rest = 1
  BY DEF LoopInv, GivenWhile
<1>3. solver \in Solvers
  BY DEF LoopInv
<1>4. solver \in AtOnce => HandedOver("true", given) /\ HandedOn(Loops!Both(Loops!At + 1))
  <2> SUFFICES ASSUME solver \in AtOnce PROVE HandedOver("true", given) /\ HandedOn(Loops!Both(Loops!At + 1))
    OBVIOUS
  <2>1. HandedOn(Loops!Both(Loops!At + 1))
    BY DEF HandedOn, AtOnce, AtTheEnd, Partly
  <2>2. given = Loops!Both(Loops!At)
    BY <1>2
  <2>3. HandedOver("true", Loops!Both(Loops!At))
    BY DEF HandedOver, Loops!Both
  <2>4. HandedOver("true", given)
    BY <2>2, <2>3
  <2> QED BY <2>1, <2>4
<1>5. solver \in AtTheEnd => HandedOver("false", given) /\ HandedOn(given)
  BY <1>2 DEF HandedOver, HandedOn, AtOnce, AtTheEnd, Partly
<1>6. solver \in Partly => HandedOn([given EXCEPT !.first = Loops!At + 1])
  BY DEF HandedOn, AtOnce, AtTheEnd, Partly
<1>7. HandedOver("true", Loops!Both(Loops!At)) /\ HandedOver("false", Loops!Both(1))
  BY DEF HandedOver, Loops!Both
<1>8. solver \notin Guaranteed => \A state : HandedOver("false", state)
  BY DEF HandedOver
<1>9. solver = "gravity adaptive" /\ phase = "start" => HandedOver("true", given)
  <2>1. phase = "start" => ~(iteration > 0)
    <3>1. phase = "start" => iteration = 0
      BY <1>1
    <3> QED BY <3>1
  <2>2. ASSUME solver = "gravity adaptive" PROVE given.first = Loops!At
    <3> DEFINE r == given.rest
    <3> HIDE DEF r
    <3>1. given = [first |-> Loops!At, rest |-> r]
      BY <1>2, <2>2 DEF Partly, r
    <3> QED BY <3>1
  <2> QED BY <2>1, <2>2 DEF HandedOver
<1>10. phase = "start" => HandedOver("true", Loops!Both(1))
  BY <1>1, <1>7
<1>11. phase = "start" /\ solver # "gravity" => HandedOver("true", given) /\ HandedOver("false", given)
  <2> SUFFICES ASSUME phase = "start", solver # "gravity"
               PROVE  HandedOver("true", given) /\ HandedOver("false", given)
    OBVIOUS
  <2>1. CASE solver \in AtOnce \cup AtTheEnd
    <3>1. given = Loops!Both(1) /\ given = Loops!Both(Loops!At)
      BY <1>1, <1>2, <2>1
    <3> QED BY <1>7, <3>1
  <2>2. CASE solver = "inertial GPU"
    <3>1. given = [first |-> Loops!At, rest |-> 1]
      BY <1>2, <2>2 DEF Partly
    <3>2. given = Loops!Both(1) /\ given = Loops!Both(Loops!At)
      BY <1>1, <3>1 DEF Loops!Both
    <3> QED BY <1>7, <3>2
  <2>3. CASE solver = "gravity adaptive"
    BY <1>8, <1>9, <2>3 DEF Guaranteed
  <2> QED BY <1>3, <2>1, <2>2, <2>3 DEF Solvers, Partly
<1> QED BY <1>4, <1>5, <1>6, <1>7, <1>8, <1>10, <1>11

LEMMA VisualCpuActs == LoopInv /\ Loops!VisualCpu => Acts
<1> SUFFICES ASSUME LoopInv, Loops!VisualCpu PROVE Acts
  OBVIOUS
<1>1. solver \in AtOnce /\ solver # "gravity"
  BY DEF Loops!VisualCpu, AtOnce
<1>2. CASE phase = "start"
  <2>1. HandedOver("false", given) /\ HandedOver("true", given) /\ phase \in Running
    BY <1>1, <1>2, Handing DEF Running
  <2>2. \/ Loops!Return("true", given)
        \/ Loops!Return("false", given)
        \/ Loops!Enter
    BY <1>2 DEF Loops!VisualCpu
  <2> QED BY <1>2, <2>1, <2>2, EnterIs, ReturnIs
<1>3. CASE phase = "judge"
  <2>1. HandedOn(Loops!Both(Loops!At + 1)) /\ HandedOver("true", given) /\ phase \in Running
    BY <1>1, <1>3, Handing DEF Running
  <2>2. \/ Loops!Return("true", given)
        \/ Loops!Accept(Loops!Both(Loops!At + 1), TRUE)
        \/ Loops!Reject
    BY <1>3 DEF Loops!VisualCpu
  <2> QED BY <1>3, <2>1, <2>2, AcceptIs, RejectIs, ReturnIs
<1>4. CASE phase = "end"
  <2>1. HandedOver("true", given) /\ phase \in Running
    BY <1>1, <1>4, Handing DEF Running
  <2>2. Loops!Return("true", given)
    BY <1>4 DEF Loops!VisualCpu
  <2> QED BY <1>4, <2>1, <2>2, ReturnIs
<1> QED BY <1>2, <1>3, <1>4 DEF Loops!VisualCpu

LEMMA InertialCpuActs == LoopInv /\ Loops!InertialCpu => Acts
<1> SUFFICES ASSUME LoopInv, Loops!InertialCpu PROVE Acts
  OBVIOUS
<1>1. solver \in AtOnce /\ solver # "gravity" /\ solver \notin Guaranteed
  BY DEF Loops!InertialCpu, AtOnce, Guaranteed
<1>2. CASE phase = "start"
  <2>1. HandedOver("false", given) /\ HandedOver("true", given) /\ phase \in Running
    BY <1>1, <1>2, Handing DEF Running
  <2>2. \/ Loops!Return("true", given)
        \/ Loops!Return("false", given)
        \/ Loops!Enter
    BY <1>2 DEF Loops!InertialCpu
  <2> QED BY <1>2, <2>1, <2>2, EnterIs, ReturnIs
<1>3. CASE phase = "judge"
  <2>1. HandedOn(Loops!Both(Loops!At + 1)) /\ HandedOver("false", given) /\ HandedOver("true", given) /\ phase \in Running
    BY <1>1, <1>3, Handing DEF Running
  <2>2. \/ Loops!Return("true", given)
        \/ Loops!Return("false", given)
        \/ Loops!Accept(Loops!Both(Loops!At + 1), TRUE)
        \/ Loops!Reject
    BY <1>3 DEF Loops!InertialCpu
  <2> QED BY <1>3, <2>1, <2>2, AcceptIs, RejectIs, ReturnIs
<1>4. CASE phase = "end"
  <2>1. HandedOver("false", given) /\ HandedOver("true", given) /\ phase \in Running
    BY <1>1, <1>4, Handing DEF Running
  <2>2. \/ Loops!Return("true", given)
        \/ Loops!Return("false", given)
    BY <1>4 DEF Loops!InertialCpu
  <2> QED BY <1>4, <2>1, <2>2, ReturnIs
<1> QED BY <1>2, <1>3, <1>4 DEF Loops!InertialCpu

LEMMA InertialPnPActs == LoopInv /\ Loops!InertialPnP => Acts
<1> SUFFICES ASSUME LoopInv, Loops!InertialPnP PROVE Acts
  OBVIOUS
<1>1. solver \in AtOnce /\ solver # "gravity"
  BY DEF Loops!InertialPnP, AtOnce
<1>2. CASE phase = "start"
  <2>1. HandedOver("true", given) /\ phase \in Running
    BY <1>1, <1>2, Handing DEF Running
  <2>2. \/ Loops!Return("true", given)
        \/ Loops!Enter
    BY <1>2 DEF Loops!InertialPnP
  <2> QED BY <1>2, <2>1, <2>2, EnterIs, ReturnIs
<1>3. CASE phase = "judge"
  <2>1. HandedOn(Loops!Both(Loops!At + 1)) /\ HandedOver("false", Loops!Both(1)) /\ phase \in Running
    BY <1>1, <1>3, Handing DEF Running
  <2>2. \/ Loops!Return("false", Loops!Both(1))
        \/ (trial.small /\ Loops!Stop(trial.cost))
        \/ Loops!Accept(Loops!Both(Loops!At + 1), TRUE)
        \/ Loops!Reject
    BY <1>3 DEF Loops!InertialPnP
  <2> QED BY <1>3, <2>1, <2>2, AcceptIs, RejectIs, ReturnIs, StopIs
<1>4. CASE phase = "end"
  <2>1. HandedOver("false", Loops!Both(1)) /\ HandedOver("true", given) /\ phase \in Running
    BY <1>1, <1>4, Handing DEF Running
  <2>2. \/ Loops!Return("true", given)
        \/ Loops!Return("false", Loops!Both(1))
    BY <1>4 DEF Loops!InertialPnP
  <2> QED BY <1>4, <2>1, <2>2, ReturnIs
<1> QED BY <1>2, <1>3, <1>4 DEF Loops!InertialPnP

LEMMA MulticamPnPActs == LoopInv /\ Loops!MulticamPnP => Acts
<1> SUFFICES ASSUME LoopInv, Loops!MulticamPnP PROVE Acts
  OBVIOUS
<1>1. solver \in AtOnce /\ solver # "gravity" /\ solver \notin Guaranteed
  BY DEF Loops!MulticamPnP, AtOnce, Guaranteed
<1>2. CASE phase = "start"
  <2>1. HandedOver("true", given) /\ phase \in Running
    BY <1>1, <1>2, Handing DEF Running
  <2>2. \/ Loops!Return("true", given)
        \/ Loops!Enter
    BY <1>2 DEF Loops!MulticamPnP
  <2> QED BY <1>2, <2>1, <2>2, EnterIs, ReturnIs
<1>3. CASE phase = "judge"
  <2>1. HandedOn(Loops!Both(Loops!At + 1)) /\ phase \in Running
    BY <1>1, <1>3, Handing DEF Running
  <2>2. \/ (trial.small /\ Loops!Stop(trial.cost))
        \/ Loops!Accept(Loops!Both(Loops!At + 1), TRUE)
        \/ Loops!Reject
    BY <1>3 DEF Loops!MulticamPnP
  <2> QED BY <1>3, <2>1, <2>2, AcceptIs, RejectIs, StopIs
<1>4. CASE phase = "end"
  <2>1. HandedOver("false", given) /\ HandedOver("true", given) /\ phase \in Running
    BY <1>1, <1>4, Handing DEF Running
  <2>2. \/ Loops!Return("true", given)
        \/ Loops!Return("false", given)
    BY <1>4 DEF Loops!MulticamPnP
  <2> QED BY <1>4, <2>1, <2>2, ReturnIs
<1> QED BY <1>2, <1>3, <1>4 DEF Loops!MulticamPnP

LEMMA VisualGpuActs == LoopInv /\ Loops!VisualGpu => Acts
<1> SUFFICES ASSUME LoopInv, Loops!VisualGpu PROVE Acts
  OBVIOUS
<1>1. solver \in AtTheEnd /\ solver # "gravity"
  BY DEF Loops!VisualGpu, AtTheEnd
<1>2. CASE phase = "start"
  <2>1. HandedOver("false", given) /\ HandedOver("true", given) /\ phase \in Running
    BY <1>1, <1>2, Handing DEF Running
  <2>2. \/ Loops!Return("true", given)
        \/ Loops!Return("false", given)
        \/ Loops!Enter
    BY <1>2 DEF Loops!VisualGpu
  <2> QED BY <1>2, <2>1, <2>2, EnterIs, ReturnIs
<1>3. CASE phase = "judge"
  <2>1. HandedOn(given) /\ HandedOver("false", given) /\ phase \in Running
    BY <1>1, <1>3, Handing DEF Running
  <2>2. \/ Loops!Return("false", given)
        \/ Loops!Stop(current)
        \/ Loops!Accept(given, TRUE)
        \/ Loops!Reject
    BY <1>3 DEF Loops!VisualGpu
  <2> QED BY <1>3, <2>1, <2>2, AcceptIs, RejectIs, ReturnIs, StopIs
<1>4. CASE phase = "end"
  <2>1. HandedOver("false", given) /\ HandedOver("true", Loops!Both(Loops!At)) /\ phase \in Running
    BY <1>1, <1>4, Handing DEF Running
  <2>2. \/ Loops!Return("false", given)
        \/ Loops!Return("true", Loops!Both(Loops!At))
    BY <1>4 DEF Loops!VisualGpu
  <2> QED BY <1>4, <2>1, <2>2, ReturnIs
<1>5. CASE phase = "loop"
  <2>1. HandedOver("false", given) /\ phase \in Running
    BY <1>1, <1>5, Handing DEF Running
  <2>2. Loops!Return("false", given)
    BY <1>5 DEF Loops!VisualGpu
  <2> QED BY <2>1, <2>2, ReturnIs
<1> QED BY <1>2, <1>3, <1>4, <1>5 DEF Loops!VisualGpu

LEMMA MonoPnPActs == LoopInv /\ Loops!MonoPnP => Acts
<1> SUFFICES ASSUME LoopInv, Loops!MonoPnP PROVE Acts
  OBVIOUS
<1>1. solver \in AtTheEnd /\ solver # "gravity"
  BY DEF Loops!MonoPnP, AtTheEnd
<1>2. CASE phase = "start"
  <2>1. HandedOver("true", given) /\ phase \in Running
    BY <1>1, <1>2, Handing DEF Running
  <2>2. \/ Loops!Return("true", given)
        \/ Loops!Enter
    BY <1>2 DEF Loops!MonoPnP
  <2> QED BY <1>2, <2>1, <2>2, EnterIs, ReturnIs
<1>3. CASE phase = "judge"
  <2>1. HandedOn(given) /\ phase \in Running
    BY <1>1, <1>3, Handing DEF Running
  <2>2. \/ (trial.small /\ Loops!Stop(trial.cost))
        \/ Loops!Accept(given, TRUE)
        \/ Loops!Reject
    BY <1>3 DEF Loops!MonoPnP
  <2> QED BY <1>3, <2>1, <2>2, AcceptIs, RejectIs, StopIs
<1>4. CASE phase = "end"
  <2>1. HandedOver("false", given) /\ HandedOver("true", Loops!Both(Loops!At)) /\ phase \in Running
    BY <1>1, <1>4, Handing DEF Running
  <2>2. \/ Loops!Return("true", Loops!Both(Loops!At))
        \/ Loops!Return("false", given)
    BY <1>4 DEF Loops!MonoPnP
  <2> QED BY <1>4, <2>1, <2>2, ReturnIs
<1> QED BY <1>2, <1>3, <1>4 DEF Loops!MonoPnP

LEMMA PoseGraphOptimisationActs == LoopInv /\ Loops!PoseGraphOptimisation => Acts
<1> SUFFICES ASSUME LoopInv, Loops!PoseGraphOptimisation PROVE Acts
  OBVIOUS
<1>1. solver \in AtTheEnd /\ solver # "gravity"
  BY DEF Loops!PoseGraphOptimisation, AtTheEnd
<1>2. CASE phase = "start"
  <2>1. phase \in Running
    BY <1>1, <1>2, Handing DEF Running
  <2>2. Loops!Enter
    BY <1>2 DEF Loops!PoseGraphOptimisation
  <2> QED BY <1>2, <2>1, <2>2, EnterIs
<1>3. CASE phase = "judge"
  <2>1. HandedOn(given) /\ phase \in Running
    BY <1>1, <1>3, Handing DEF Running
  <2>2. \/ (trial.small /\ Loops!Stop(trial.cost))
        \/ Loops!Accept(given, TRUE)
        \/ Loops!Reject
    BY <1>3 DEF Loops!PoseGraphOptimisation
  <2> QED BY <1>3, <2>1, <2>2, AcceptIs, RejectIs, StopIs
<1>4. CASE phase = "end"
  <2>1. HandedOver("false", given) /\ HandedOver("true", Loops!Both(Loops!At)) /\ phase \in Running
    BY <1>1, <1>4, Handing DEF Running
  <2>2. \/ Loops!Return("true", Loops!Both(Loops!At))
        \/ Loops!Return("false", given)
    BY <1>4 DEF Loops!PoseGraphOptimisation
  <2> QED BY <1>4, <2>1, <2>2, ReturnIs
<1> QED BY <1>2, <1>3, <1>4 DEF Loops!PoseGraphOptimisation

LEMMA InertialGpuActs == LoopInv /\ Loops!InertialGpu => Acts
<1> SUFFICES ASSUME LoopInv, Loops!InertialGpu PROVE Acts
  OBVIOUS
<1>1. solver \in Partly /\ solver # "gravity" /\ solver \notin Guaranteed
  BY DEF Loops!InertialGpu, Partly, Guaranteed
<1>2. CASE phase = "start"
  <2>1. HandedOver("false", given) /\ HandedOver("true", given) /\ phase \in Running
    BY <1>1, <1>2, Handing DEF Running
  <2>2. \/ Loops!Return("true", given)
        \/ Loops!Return("false", given)
        \/ Loops!Enter
    BY <1>2 DEF Loops!InertialGpu
  <2> QED BY <1>2, <2>1, <2>2, EnterIs, ReturnIs
<1>3. CASE phase = "judge"
  <2>1. HandedOn([given EXCEPT !.first = Loops!At + 1]) /\ HandedOver("false", given) /\ phase \in Running
    BY <1>1, <1>3, Handing DEF Running
  <2>2. \/ Loops!Return("false", given)
        \/ Loops!Stop(current)
        \/ Loops!Accept([given EXCEPT !.first = Loops!At + 1], iteration < MaxIterations)
        \/ Loops!Reject
    BY <1>3 DEF Loops!InertialGpu
  <2>3. (iteration < MaxIterations) \in BOOLEAN /\ (iteration < MaxIterations \/ iteration = MaxIterations)
    BY ProvedPartsAssumption DEF LoopInv, LoopTypes
  <2> QED BY <1>3, <2>1, <2>2, <2>3, AcceptIs, RejectIs, ReturnIs, StopIs
<1>4. CASE phase = "end"
  <2>1. phase \in Running /\ HandedOver("true", Loops!Both(Loops!At)) /\ \A state : HandedOver("false", state)
    BY <1>1, <1>4, Handing DEF Running
  <2>2. [given EXCEPT !.rest = Loops!At] = Loops!Both(Loops!At)
    <3>1. given = [first |-> Loops!At, rest |-> 1]
      BY <1>4, <2>1 DEF LoopInv, GivenWhile, Partly, Loops!InertialGpu
    <3> QED BY <3>1 DEF Loops!Both
  <2>3. \E r \in {"true", "false"} : Loops!Return(r, [given EXCEPT !.rest = Loops!At])
    BY <1>4 DEF Loops!InertialGpu
  <2> QED BY <2>1, <2>2, <2>3, ReturnIs
<1> QED BY <1>2, <1>3, <1>4 DEF Loops!InertialGpu

LEMMA OptimizeInertialActs == LoopInv /\ Loops!OptimizeInertial => Acts
<1> SUFFICES ASSUME LoopInv, Loops!OptimizeInertial PROVE Acts
  OBVIOUS
<1>1. solver \in Partly /\ solver \notin Guaranteed
  BY DEF Loops!OptimizeInertial, Partly, Guaranteed
<1>2. CASE phase = "start"
  <2>1. HandedOver("true", Loops!Both(1)) /\ phase \in Running
    BY <1>1, <1>2, Handing DEF Running
  <2>2. \/ Loops!Return("true", Loops!Both(1))
        \/ Loops!Enter
    BY <1>2 DEF Loops!OptimizeInertial
  <2> QED BY <1>2, <2>1, <2>2, EnterIs, ReturnIs
<1>3. CASE phase = "judge"
  <2>1. HandedOn([given EXCEPT !.first = Loops!At + 1]) /\ phase \in Running
    BY <1>1, <1>3, Handing DEF Running
  <2>2. \/ (trial.small /\ Loops!Stop(trial.cost))
        \/ Loops!Accept([given EXCEPT !.first = Loops!At + 1], TRUE)
        \/ Loops!Reject
    BY <1>3 DEF Loops!OptimizeInertial
  <2> QED BY <1>3, <2>1, <2>2, AcceptIs, RejectIs, StopIs
<1>4. CASE phase = "end"
  <2>1. HandedOver("true", Loops!Both(Loops!At)) /\ phase \in Running
    BY <1>1, <1>4, Handing DEF Running
  <2>2. Loops!Return("true", Loops!Both(Loops!At))
    BY <1>4 DEF Loops!OptimizeInertial
  <2> QED BY <1>4, <2>1, <2>2, ReturnIs
<1> QED BY <1>2, <1>3, <1>4 DEF Loops!OptimizeInertial

LEMMA ICPLevelActs == LoopInv /\ Loops!ICPLevel => Acts
<1> SUFFICES ASSUME LoopInv, Loops!ICPLevel PROVE Acts
  OBVIOUS
<1>1. solver \in AtTheEnd
  BY DEF Loops!ICPLevel, AtTheEnd
<1>2. CASE phase = "start"
  BY <1>2, EnterIs DEF Loops!ICPLevel
<1>3. CASE phase = "judge"
  <2>1. HandedOn(given)
    BY <1>1, <1>3, Handing DEF Running
  <2>2. \/ (trial.small /\ Loops!Stop(trial.cost))
        \/ Loops!Accept(given, TRUE)
        \/ Loops!Reject
    BY <1>3 DEF Loops!ICPLevel
  <2>3. CASE Loops!Accept(given, TRUE)
    BY <1>3, <2>1, <2>3, AcceptIs
  <2>4. CASE Loops!Reject
    BY <1>3, <2>1, <2>4, RejectIs
  <2>5. CASE trial.small /\ Loops!Stop(trial.cost)
    BY <1>3, <2>1, <2>5, StopIs
  <2> QED BY <2>2, <2>3, <2>4, <2>5
<1>4. CASE phase = "end"
  <2> DEFINE better == Loops!Less(current, costs[1]) \/ (current # Loops!NaN /\ current = costs[1])
  <2>1. /\ Loops!At \in Nat \ {0} /\ (Loops!At = 1 \/ Loops!Less(costs[Loops!At], costs[1]))
        /\ Loops!Near(current, costs[Loops!At]) /\ current \in Loops!Cost
    <3>1. costs \in Seq(Loops!Cost) /\ costs # <<>>
      BY DEF LoopInv, LoopTypes
    <3>2. Len(costs) \in Nat \ {0}
      BY <3>1
    <3>3. Len(costs) = 1 \/ Len(costs) \in 2 .. Len(costs)
      <4>1. \A n \in Nat \ {0} : n = 1 \/ n \in 2 .. n
        OBVIOUS
      <4> QED BY <3>2, <4>1, Zenon
    <3>4. Loops!At = 1 \/ Loops!Less(costs[Loops!At], costs[1])
      <4>1. \A i \in 2 .. Len(costs) : Loops!Less(costs[i], costs[1])
        BY DEF LoopInv, Descending
      <4> QED BY <3>3, <4>1 DEF Loops!At
    <3>5. Loops!Near(current, costs[Loops!At]) /\ current \in Loops!Cost
      <4>1. CurrentCost /\ LoopTypes
        BY DEF LoopInv
      <4>2. current \in Loops!Cost
        BY <4>1 DEF LoopTypes
      <4> QED BY <1>4, <4>1, <4>2 DEF CurrentCost
    <3> QED BY <3>2, <3>4, <3>5 DEF Loops!At
  <2>2. better \/ Loops!At = 1
    <3>1. CASE current = costs[Loops!At]
      BY <2>1, <3>1
    <3>2. CASE current # costs[Loops!At] /\ Loops!At # 1
      <4> DEFINE last == costs[Loops!At]
                 start == costs[1]
      <4>1. current \in Loops!Finite /\ last \in Loops!Finite /\ current - last \in {-1, 1}
        BY <2>1, <3>2 DEF Loops!Near
      <4>2. Loops!Less(last, start) /\ start \in Loops!Cost
        <5>1. costs \in Seq(Loops!Cost) /\ costs # <<>>
          BY DEF LoopInv, LoopTypes
        <5> QED BY <2>1, <3>2, <5>1
      <4> HIDE DEF last
      <4>3. current \in 0 .. 999 /\ last \in 0 .. 999 /\ start \in Int
        BY <4>1, <4>2, ProvedPartsAssumption
           DEF Loops!Finite, Loops!Cost, Loops!Infinite, Loops!NaN
      <4>4. last < start /\ start # Loops!NaN
        BY <4>2 DEF Loops!Less
      <4> HIDE DEF start
      <4>5. current < start \/ current = start
        BY <4>1, <4>3, <4>4
      <4>6. current # Loops!NaN
        BY <4>3 DEF Loops!NaN
      <4>7. Loops!Less(current, start) \/ (current # Loops!NaN /\ current = start)
        BY <4>4, <4>5, <4>6 DEF Loops!Less
      <4> QED BY <4>7 DEF start
    <3> QED BY <3>1, <3>2
  <2>3. Loops!Return("true", IF better THEN Loops!Both(Loops!At) ELSE given)
    BY <1>4 DEF Loops!ICPLevel
  <2>4. given = Loops!Both(1) /\ phase \in Running
    BY <1>1, <1>4 DEF LoopInv, GivenWhile, Running
  <2> HIDE DEF better
  <2>5. HandedOver("true", IF better THEN Loops!Both(Loops!At) ELSE given)
    <3>1. (IF better THEN Loops!Both(Loops!At) ELSE given) = Loops!Both(Loops!At)
      BY <2>2, <2>4
    <3> QED BY <2>4, <3>1, Handing
  <2> QED BY <2>3, <2>4, <2>5, ReturnIs
<1> QED BY <1>2, <1>3, <1>4 DEF Loops!ICPLevel

LEMMA AdaptiveActs == LoopInv /\ Loops!OptimizeInertialAdaptive => Acts
<1> SUFFICES ASSUME LoopInv, Loops!OptimizeInertialAdaptive PROVE Acts
  OBVIOUS
<1>1. solver = "gravity adaptive" /\ solver \in Partly /\ solver # "gravity"
  BY DEF Loops!OptimizeInertialAdaptive, Partly
<1>2. CASE phase = "start"
  <2>1. HandedOver("true", given) /\ phase \in Running
    BY <1>1, <1>2, Handing DEF Running
  <2>2. Loops!Return("true", given) \/ Loops!Enter
    BY <1>2 DEF Loops!OptimizeInertialAdaptive
  <2> QED BY <1>2, <2>1, <2>2, EnterIs, ReturnIs
<1>3. CASE phase = "judge" /\ trial.small
  <2>1. /\ phase' = "end" /\ current' = trial.cost /\ given' = Loops!Both(Loops!At)
        /\ UNCHANGED <<solver, iteration, costs, systemOf, trial>>
    BY <1>3 DEF Loops!OptimizeInertialAdaptive
  <2>2. current' \in Loops!Cost /\ Loops!Near(current', costs[Loops!At]) /\ phase \in Running
    BY <1>3, <2>1 DEF LoopInv, LoopTypes, CurrentCost, Running
  <2> QED BY <1>1, <2>1, <2>2 DEF Acts, Stopped
<1>4. CASE phase = "judge" /\ ~ trial.small
  <2>1. HandedOn([given EXCEPT !.first = Loops!At + 1])
    BY <1>1, <1>4, Handing DEF Running
  <2>2. Loops!Accept([given EXCEPT !.first = Loops!At + 1], TRUE) \/ Loops!Reject
    BY <1>4 DEF Loops!OptimizeInertialAdaptive
  <2> QED BY <1>4, <2>1, <2>2, AcceptIs, RejectIs
<1>5. CASE phase = "end"
  <2>1. HandedOver("false", given) /\ HandedOver("true", Loops!Both(Loops!At)) /\ phase \in Running
    BY <1>1, <1>5, Handing DEF Running, Guaranteed
  <2>2. Loops!Return("true", Loops!Both(Loops!At)) \/ Loops!Return("false", given)
    BY <1>5 DEF Loops!OptimizeInertialAdaptive
  <2> QED BY <2>1, <2>2, ReturnIs
<1> QED BY <1>2, <1>3, <1>4, <1>5 DEF Loops!OptimizeInertialAdaptive

\* An iteration judges a step from the derivatives at the current state.
LEMMA ComputeStepInv == LoopInv /\ Loops!ComputeStep => LoopInv'
<1> SUFFICES ASSUME LoopInv, Loops!ComputeStep PROVE LoopInv'
  OBVIOUS
<1>1. PICK e \in Loops!Evaluations, small \in BOOLEAN :
        /\ small => Loops!Near(e.cost, current)
        /\ trial' = [cost |-> e.cost, feasible |-> e.feasible, small |-> small, of |-> systemOf]
  BY DEF Loops!ComputeStep
<1>2. /\ phase = "loop" /\ phase' = "judge" /\ iteration < MaxIterations /\ iteration' = iteration + 1
      /\ UNCHANGED <<solver, costs, current, systemOf, given>>
  BY DEF Loops!ComputeStep
<1>3. trial'.cost = e.cost /\ trial'.small = small /\ trial'.of = systemOf
  BY <1>1
<1>4. e.cost \in Loops!Cost
  BY EvaluationsAreCosts
<1>5. LoopTypes'
  BY <1>2, <1>3, <1>4, ProvedPartsAssumption DEF LoopInv, LoopTypes, Running
<1>6. Descending' /\ Loops!At' = Loops!At
  BY <1>2 DEF LoopInv, Descending, Loops!Less, Loops!At
<1>7. CurrentCost'
  BY <1>1, <1>2, <1>3 DEF LoopInv, CurrentCost, Loops!Near, Loops!At
<1>8. SystemOfLast'
  BY <1>2, <1>3, ProvedPartsAssumption DEF LoopInv, LoopTypes, SystemOfLast, Loops!At
<1>9. GivenWhile' /\ GivenAfter'
  BY <1>2, <1>6 DEF LoopInv, GivenWhile, GivenAfter, Loops!Both, Running
<1> QED BY <1>2, <1>5, <1>6, <1>7, <1>8, <1>9 DEF LoopInv

LEMMA LoopStep == LoopInv /\ Loops!Next => LoopInv'
<1> SUFFICES ASSUME LoopInv, Loops!Next PROVE LoopInv'
  OBVIOUS
<1>1. CASE Loops!ComputeStep
  BY <1>1, ComputeStepInv
<1>2. CASE Loops!Indefinite
  <2>1. /\ phase = "loop" /\ iteration < MaxIterations /\ iteration' = iteration + 1
        /\ UNCHANGED <<solver, phase, costs, current, systemOf, trial, given>>
    BY <1>2 DEF Loops!Indefinite
  <2>2. LoopTypes' /\ SystemOfLast'
    BY <2>1, ProvedPartsAssumption DEF LoopInv, LoopTypes, SystemOfLast, Loops!At
  <2>3. Descending' /\ CurrentCost' /\ GivenWhile' /\ GivenAfter'
    BY <2>1 DEF LoopInv, Descending, CurrentCost, GivenWhile, GivenAfter, Loops!Less, Loops!At,
       Loops!Near, Loops!Both
  <2> QED BY <2>1, <2>2, <2>3 DEF LoopInv
<1>3. CASE Loops!LastIteration
  <2>1. phase = "loop" /\ Loops!Stop(current)
    BY <1>3 DEF Loops!LastIteration
  <2>2. Acts
    BY <2>1, StopIs
  <2> QED BY <2>2, WithNewState, WithoutNewState DEF Acts
<1>4. CASE ~ (Loops!ComputeStep \/ Loops!Indefinite \/ Loops!LastIteration)
  <2>1. Acts
    BY <1>4, VisualCpuActs, VisualGpuActs, InertialCpuActs, InertialGpuActs, InertialPnPActs,
       MonoPnPActs, MulticamPnPActs, ICPLevelActs, PoseGraphOptimisationActs, OptimizeInertialActs,
       AdaptiveActs DEF Loops!Next
  <2> QED BY <2>1, WithNewState, WithoutNewState DEF Acts
<1> QED BY <1>1, <1>2, <1>3, <1>4

\* Of the bundlers that count skipped observations: a state without any has an infinite
\* cost, and none is behind them once they have entered the loop.
Judged ==
  solver \in Loops!CountSkipped =>
    /\ feasible \in Seq(BOOLEAN) /\ Len(feasible) = Len(costs)
    /\ feasible[1] \/ costs[1] = Loops!Infinite
    /\ trial.feasible \in BOOLEAN /\ (trial.feasible \/ trial.cost = Loops!Infinite)
    /\ phase \in {"loop", "judge", "end"} \/ systemOf > 0 => \A s \in 1 .. Len(costs) : feasible[s]

LEMMA EvaluationsAreJudged ==
  ASSUME NEW e \in Loops!Evaluations, solver \in Loops!CountSkipped
  PROVE  e.feasible \in BOOLEAN /\ (e.feasible \/ e.cost = Loops!Infinite)
<1>1. CASE e \in [cost : Loops!Cost, feasible : {TRUE}]
  BY <1>1
<1>2. CASE e = [cost |-> Loops!InfeasibleCost, feasible |-> FALSE]
  <2>1. solver # "mono PnP"
    BY DEF Loops!CountSkipped
  <2>2. Loops!InfeasibleCost = Loops!Infinite
    BY <2>1 DEF Loops!InfeasibleCost
  <2> QED BY <1>2, <2>2
<1> QED BY <1>1, <1>2 DEF Loops!Evaluations

LEMMA JudgedInit == Loops!Init => Judged
<1> SUFFICES ASSUME Loops!Init, solver \in Loops!CountSkipped PROVE Judged
  BY DEF Judged
<1>1. PICK start \in Loops!Evaluations : costs = <<start.cost>> /\ feasible = <<start.feasible>>
  BY DEF Loops!Init
<1>2. start.feasible \in BOOLEAN /\ (start.feasible \/ start.cost = Loops!Infinite)
  BY EvaluationsAreJudged
<1>3. phase = "start" /\ systemOf = 0 /\ trial.feasible = TRUE
  BY DEF Loops!Init
<1>4. feasible \in Seq(BOOLEAN) /\ Len(feasible) = 1 /\ Len(costs) = 1
  BY <1>1, <1>2
<1>5. feasible[1] = start.feasible /\ costs[1] = start.cost
  BY <1>1
<1>6. feasible[1] \/ costs[1] = Loops!Infinite
  BY <1>2, <1>5
<1>7. ~ (phase \in {"loop", "judge", "end"} \/ systemOf > 0)
  BY <1>3
<1> QED BY <1>3, <1>4, <1>6, <1>7, Zenon DEF Judged

\* A step that keeps the states and does not enter the loop.
LEMMA JudgedKept ==
  ASSUME Judged,
         \/ \E result \in {"true", "false"} : \E state : Loops!Return(result, state)
         \/ phase \in {"loop", "judge"} /\ \E cost : Loops!Stop(cost)
         \/ phase = "judge" /\ Loops!Reject
  PROVE  Judged'
<1>1. UNCHANGED <<solver, costs, feasible, systemOf, trial>>
  BY DEF Loops!Return, Loops!Stop, Loops!Reject
<1>2. phase' \in {"loop", "judge", "end"} => phase \in {"loop", "judge", "end"}
  BY DEF Loops!Return, Loops!Stop, Loops!Reject
<1> QED BY <1>1, <1>2 DEF Judged

\* The loop is entered from a state whose cost is finite.
LEMMA JudgedEnter ==
  ASSUME LoopInv, Judged, phase = "start", costs[1] # Loops!Infinite, Loops!Enter
  PROVE  Judged'
<1>1. UNCHANGED <<solver, costs, feasible, trial>>
  BY DEF Loops!Enter
<1>2. Len(costs) = 1
  BY DEF LoopInv, LoopTypes
<1> QED BY <1>1, <1>2 DEF Judged

\* An infinite cost is lower than none.
LEMMA JudgedAccept ==
  ASSUME LoopInv, Judged, solver \in Loops!CountSkipped, phase = "judge",
         NEW now, NEW rebuilds, Loops!Accept(now, rebuilds)
  PROVE  Judged'
<1>1. /\ costs' = Append(costs, trial.cost) /\ feasible' = Append(feasible, trial.feasible)
      /\ Loops!Less(trial.cost, current) /\ UNCHANGED <<solver, trial>>
  BY DEF Loops!Accept, Loops!Better
<1>2. costs \in Seq(Loops!Cost) /\ costs # <<>> /\ current \in Loops!Cost
  BY DEF LoopInv, LoopTypes
<1>3. /\ feasible \in Seq(BOOLEAN) /\ Len(feasible) = Len(costs)
      /\ feasible[1] \/ costs[1] = Loops!Infinite
      /\ trial.feasible \in BOOLEAN /\ (trial.feasible \/ trial.cost = Loops!Infinite)
      /\ \A s \in 1 .. Len(costs) : feasible[s]
  BY DEF Judged
<1>4. trial.cost # Loops!Infinite
  BY <1>1, <1>2, ProvedPartsAssumption
     DEF Loops!Less, Loops!Cost, Loops!Finite, Loops!Infinite, Loops!NaN
<1>5. trial.feasible
  BY <1>3, <1>4
<1>6. Len(costs) \in Nat \ {0}
  BY <1>2
<1>7. /\ feasible' \in Seq(BOOLEAN) /\ Len(feasible') = Len(costs) + 1
      /\ feasible'[Len(costs) + 1] = trial.feasible
      /\ \A s \in 1 .. Len(costs) : feasible'[s] = feasible[s]
  BY <1>1, <1>3, <1>6
<1>8. Len(costs') = Len(costs) + 1
  BY <1>1, <1>2
<1>9. \A s \in 1 .. Len(costs) + 1 : feasible'[s]
  <2> SUFFICES ASSUME NEW s \in 1 .. Len(costs) + 1 PROVE feasible'[s]
    OBVIOUS
  <2>1. s \in 1 .. Len(costs) \/ s = Len(costs) + 1
    BY <1>6
  <2>2. CASE s \in 1 .. Len(costs)
    <3>1. feasible[s] /\ feasible'[s] = feasible[s]
      BY <1>3, <1>7, <2>2, Zenon
    <3> QED BY <3>1, Zenon
  <2>3. CASE s = Len(costs) + 1
    <3>1. feasible'[s] = trial.feasible
      BY <1>7, <2>3, Zenon
    <3> QED BY <1>5, <3>1, Zenon
  <2> QED BY <2>1, <2>2, <2>3
<1>10. feasible'[1]
  <2>1. 1 \in 1 .. Len(costs) + 1
    BY <1>6
  <2> QED BY <1>9, <2>1, Zenon
<1> QED BY <1>1, <1>3, <1>7, <1>8, <1>9, <1>10 DEF Judged

LEMMA JudgedStep == LoopInv /\ Judged /\ Loops!Next => Judged'
<1> SUFFICES ASSUME LoopInv, Judged, Loops!Next PROVE Judged'
  OBVIOUS
<1>1. CASE Loops!ComputeStep
  <2>1. PICK e \in Loops!Evaluations, small \in BOOLEAN :
          trial' = [cost |-> e.cost, feasible |-> e.feasible, small |-> small, of |-> systemOf]
    BY <1>1 DEF Loops!ComputeStep
  <2>2. /\ phase = "loop" /\ UNCHANGED <<solver, costs, feasible, systemOf>>
        /\ trial'.cost = e.cost /\ trial'.feasible = e.feasible
    BY <1>1, <2>1 DEF Loops!ComputeStep
  <2>3. solver \in Loops!CountSkipped =>
          e.feasible \in BOOLEAN /\ (e.feasible \/ e.cost = Loops!Infinite)
    BY EvaluationsAreJudged
  <2> QED BY <2>2, <2>3 DEF Judged
<1>2. CASE Loops!Indefinite
  BY <1>2 DEF Loops!Indefinite, Judged
<1>3. CASE Loops!LastIteration
  BY <1>3, JudgedKept DEF Loops!LastIteration
<1>4. CASE Loops!VisualCpu
  <2>1. solver \in Loops!CountSkipped
    BY <1>4 DEF Loops!VisualCpu, Loops!CountSkipped
  <2>2. CASE phase = "start"
    BY <1>4, <2>2, JudgedKept, JudgedEnter DEF Loops!VisualCpu
  <2>3. CASE phase = "judge"
    BY <1>4, <2>1, <2>3, JudgedKept, JudgedAccept DEF Loops!VisualCpu
  <2>4. CASE phase = "end"
    BY <1>4, <2>4, JudgedKept DEF Loops!VisualCpu
  <2> QED BY <1>4, <2>2, <2>3, <2>4 DEF Loops!VisualCpu
<1>5. CASE Loops!InertialCpu
  <2>1. solver \in Loops!CountSkipped
    BY <1>5 DEF Loops!InertialCpu, Loops!CountSkipped
  <2>2. CASE phase = "start"
    BY <1>5, <2>2, JudgedKept, JudgedEnter DEF Loops!InertialCpu
  <2>3. CASE phase = "judge"
    BY <1>5, <2>1, <2>3, JudgedKept, JudgedAccept DEF Loops!InertialCpu
  <2>4. CASE phase = "end"
    BY <1>5, <2>4, JudgedKept DEF Loops!InertialCpu
  <2> QED BY <1>5, <2>2, <2>3, <2>4 DEF Loops!InertialCpu
<1>6. CASE Loops!InertialGpu
  <2>1. solver \in Loops!CountSkipped
    BY <1>6 DEF Loops!InertialGpu, Loops!CountSkipped
  <2>2. CASE phase = "start"
    BY <1>6, <2>2, JudgedKept, JudgedEnter DEF Loops!InertialGpu
  <2>3. CASE phase = "judge"
    BY <1>6, <2>1, <2>3, JudgedKept, JudgedAccept DEF Loops!InertialGpu
  <2>4. CASE phase = "end"
    BY <1>6, <2>4, JudgedKept DEF Loops!InertialGpu
  <2> QED BY <1>6, <2>2, <2>3, <2>4 DEF Loops!InertialGpu
<1>7. CASE /\ ~ (Loops!ComputeStep \/ Loops!Indefinite \/ Loops!LastIteration)
           /\ ~ (Loops!VisualCpu \/ Loops!InertialCpu \/ Loops!InertialGpu)
  <2>1. solver \notin Loops!CountSkipped
    BY <1>7 DEF Loops!Next, Loops!CountSkipped, Loops!VisualGpu, Loops!InertialPnP, Loops!MonoPnP,
       Loops!MulticamPnP, Loops!ICPLevel, Loops!PoseGraphOptimisation, Loops!OptimizeInertial,
       Loops!OptimizeInertialAdaptive
  <2>2. Acts
    BY <1>7, VisualGpuActs, InertialPnPActs, MonoPnPActs, MulticamPnPActs, ICPLevelActs,
       PoseGraphOptimisationActs, OptimizeInertialActs, AdaptiveActs DEF Loops!Next
  <2>3. solver' = solver
    BY <2>2 DEF Acts, Entered, Dropped, Stopped, Ended, Accepted, Lowered
  <2> QED BY <2>1, <2>3 DEF Judged, Loops!CountSkipped
<1> QED BY <1>1, <1>2, <1>3, <1>4, <1>5, <1>6, <1>7

LEMMA NoneInfeasible == Judged => Loops!NeverInfeasible
BY DEF Judged, Loops!NeverInfeasible, Loops!At

\* The invariant says what the four properties say.
LEMMA LoopPromises ==
  LoopInv => /\ Loops!SuccessIsNoWorse /\ Loops!SuccessHandsEverythingOver
             /\ Loops!FailureChangesNothing /\ Loops!StepFromTheCurrentState
<1> SUFFICES ASSUME LoopInv
             PROVE  /\ Loops!SuccessIsNoWorse /\ Loops!SuccessHandsEverythingOver
                    /\ Loops!FailureChangesNothing /\ Loops!StepFromTheCurrentState
  OBVIOUS
<1>1. Loops!SuccessHandsEverythingOver /\ Loops!FailureChangesNothing
  BY DEF LoopInv, GivenAfter, Guaranteed, Loops!SuccessHandsEverythingOver, Loops!FailureChangesNothing
<1>2. Loops!StepFromTheCurrentState
  BY DEF LoopInv, SystemOfLast, Loops!StepFromTheCurrentState
<1>3. Loops!SuccessIsNoWorse
  <2> SUFFICES ASSUME phase = "true" PROVE ~ Loops!Less(costs[1], costs[given.first])
    BY DEF Loops!SuccessIsNoWorse
  <2>1. costs \in Seq(Loops!Cost) /\ costs # <<>> /\ given.first = Len(costs)
    BY DEF LoopInv, LoopTypes, GivenAfter, Loops!At
  <2>2. Len(costs) \in Nat \ {0} /\ 1 \in 1 .. Len(costs) /\ Len(costs) \in 1 .. Len(costs)
    BY <2>1
  <2>3. Len(costs) = 1 \/ Loops!Less(costs[Len(costs)], costs[1])
    <3>1. Len(costs) \in Nat \ {0}
      BY <2>1
    <3>2. Len(costs) = 1 \/ Len(costs) \in 2 .. Len(costs)
      BY <3>1
    <3> QED BY <3>2 DEF LoopInv, Descending
  <2>4. costs[1] \in Int /\ costs[Len(costs)] \in Int
    <3>1. costs[1] \in Loops!Cost /\ costs[Len(costs)] \in Loops!Cost
      BY <2>1, <2>2
    <3> QED BY <3>1, ProvedPartsAssumption DEF Loops!Cost, Loops!Finite, Loops!Infinite, Loops!NaN
  <2> QED BY <2>1, <2>3, <2>4 DEF Loops!Less
<1> QED BY <1>1, <1>2, <1>3

-----------------------------------------------------------------------------
(* The map of one camera                                                   *)

Observations == UNION {[S -> SUBSET Nat] : S \in SUBSET Nat}
Lasts == UNION {[S -> Nat] : S \in SUBSET Nat}
Maps == [keys : Seq(Nat), seen : Observations, last : Lasts, located : SUBSET Nat]

Ascends(keys) == \A i, j \in 1 .. Len(keys) : i < j => keys[i] < keys[j]

\* A map without its bound: the keyframes are those with observations, in order, and a
\* track knows the last keyframe that observes it.
Whole(m) ==
  /\ m \in Maps /\ Ascends(m.keys)
  /\ DOMAIN m.seen = Mono!ToSet(m.keys)
  /\ \A t \in DOMAIN m.last : m.last[t] \in DOMAIN m.seen /\ t \in m.seen[m.last[t]]
  /\ \A k \in DOMAIN m.seen : \A t \in m.seen[k] : t \in DOMAIN m.last /\ k <= m.last[t]
  /\ m.located \subseteq DOMAIN m.last

LEMMA MapTypes ==
  ASSUME NEW m \in Maps
  PROVE  /\ m = [keys |-> m.keys, seen |-> m.seen, last |-> m.last, located |-> m.located]
         /\ m.keys \in Seq(Nat) /\ m.seen \in Observations /\ m.last \in Lasts
         /\ DOMAIN m.seen \in SUBSET Nat /\ \A k \in DOMAIN m.seen : m.seen[k] \in SUBSET Nat
         /\ DOMAIN m.last \in SUBSET Nat /\ \A t \in DOMAIN m.last : m.last[t] \in Nat
         /\ m.located \in SUBSET Nat
<1>1. /\ m = [keys |-> m.keys, seen |-> m.seen, last |-> m.last, located |-> m.located]
      /\ m.keys \in Seq(Nat) /\ m.seen \in Observations /\ m.last \in Lasts
      /\ m.located \in SUBSET Nat
  BY DEF Maps
<1>2. PICK S \in SUBSET Nat : m.seen \in [S -> SUBSET Nat]
  BY <1>1 DEF Observations
<1>3. PICK T \in SUBSET Nat : m.last \in [T -> Nat]
  BY <1>1 DEF Lasts
<1>4. DOMAIN m.seen \in SUBSET Nat /\ \A k \in DOMAIN m.seen : m.seen[k] \in SUBSET Nat
  BY <1>2
<1>5. DOMAIN m.last \in SUBSET Nat /\ \A t \in DOMAIN m.last : m.last[t] \in Nat
  BY <1>3
<1> QED BY <1>1, <1>4, <1>5

LEMMA AddedIsWhole ==
  ASSUME NEW m, Whole(m), NEW f \in Nat, NEW tracks \in SUBSET Nat,
         \A i \in 1 .. Len(m.keys) : m.keys[i] < f
  PROVE  /\ Whole(Mono!Added(m, f, tracks))
         /\ Mono!Added(m, f, tracks).keys = Append(m.keys, f)
         /\ tracks \subseteq DOMAIN Mono!Added(m, f, tracks).last
         /\ Mono!Added(m, f, tracks).located = m.located
<1> DEFINE a == Mono!Added(m, f, tracks)
           seen == [k \in DOMAIN m.seen \cup {f} |-> IF k = f THEN tracks ELSE m.seen[k]]
           last == [t \in DOMAIN m.last \cup tracks |-> IF t \in tracks THEN f ELSE m.last[t]]
<1>1. m \in Maps
  BY DEF Whole
<1>2. a = [keys |-> Append(m.keys, f), seen |-> seen, last |-> last, located |-> m.located]
  <2>1. a = [m EXCEPT !.keys = Append(m.keys, f), !.seen = seen, !.last = last]
    BY DEF Mono!Added
  <2>2. m = [keys |-> m.keys, seen |-> m.seen, last |-> m.last, located |-> m.located]
    BY <1>1, MapTypes
  <2> HIDE DEF seen, last, a
  <2> QED BY <2>1, <2>2
<1>3. m.keys \in Seq(Nat) /\ m.seen \in Observations /\ m.last \in Lasts /\ m.located \in SUBSET Nat
  BY <1>1 DEF Maps
<1>4. /\ DOMAIN m.seen \in SUBSET Nat /\ \A k \in DOMAIN m.seen : m.seen[k] \in SUBSET Nat
      /\ DOMAIN m.last \in SUBSET Nat /\ \A t \in DOMAIN m.last : m.last[t] \in Nat
  BY <1>1, MapTypes
<1>5. seen \in [DOMAIN m.seen \cup {f} -> SUBSET Nat]
  BY <1>4
<1>6. last \in [DOMAIN m.last \cup tracks -> Nat]
  BY <1>4
<1>7. seen \in Observations /\ last \in Lasts
  <2>1. DOMAIN m.seen \cup {f} \in SUBSET Nat /\ DOMAIN m.last \cup tracks \in SUBSET Nat
    BY <1>4
  <2> QED BY <1>5, <1>6, <2>1 DEF Observations, Lasts
<1>8. Append(m.keys, f) \in Seq(Nat) /\ Len(Append(m.keys, f)) = Len(m.keys) + 1 /\ Len(m.keys) \in Nat
  BY <1>3
<1>9. \A i \in 1 .. Len(m.keys) + 1 : Append(m.keys, f)[i] = IF i = Len(m.keys) + 1 THEN f ELSE m.keys[i]
  BY <1>3
<1>10. \A i \in 1 .. Len(m.keys) : m.keys[i] \in Nat
  BY <1>3
<1>11. Ascends(a.keys)
  BY <1>2, <1>8, <1>9, <1>10 DEF Ascends, Whole
<1>12. DOMAIN a.seen = Mono!ToSet(a.keys)
  <2>1. Mono!ToSet(a.keys) = {Append(m.keys, f)[i] : i \in 1 .. Len(m.keys) + 1}
    <3> DEFINE keys == Append(m.keys, f)
    <3>1. DOMAIN keys = 1 .. Len(m.keys) + 1
      BY <1>8
    <3>2. a.keys = keys
      BY <1>2
    <3> HIDE DEF keys
    <3>3. Mono!ToSet(keys) = {keys[i] : i \in 1 .. Len(m.keys) + 1}
      BY <3>1 DEF Mono!ToSet
    <3> QED BY <3>2, <3>3 DEF keys
  <2>2. Mono!ToSet(m.keys) = {m.keys[i] : i \in 1 .. Len(m.keys)}
    BY <1>3 DEF Mono!ToSet
  <2>3. Mono!ToSet(a.keys) = Mono!ToSet(m.keys) \cup {f}
    <3>1. 1 .. Len(m.keys) + 1 = 1 .. Len(m.keys) \cup {Len(m.keys) + 1}
      BY <1>8
    <3>2. \A i \in 1 .. Len(m.keys) : Append(m.keys, f)[i] = m.keys[i]
      BY <1>8, <1>9
    <3>3. Append(m.keys, f)[Len(m.keys) + 1] = f
      BY <1>8, <1>9
    <3> HIDE <1>9
    <3> QED BY <2>1, <2>2, <3>1, <3>2, <3>3
  <2> QED BY <2>3, <1>2 DEF Whole
<1>13. \A k \in DOMAIN m.seen : k \in Nat /\ k < f
  <2>1. DOMAIN m.seen = {m.keys[i] : i \in 1 .. Len(m.keys)}
    BY <1>3 DEF Mono!ToSet, Whole
  <2> QED BY <2>1, <1>10
<1>14. \A t \in DOMAIN last : last[t] \in DOMAIN seen /\ t \in seen[last[t]]
  BY <1>13 DEF Whole
<1>15. \A k \in DOMAIN seen : \A t \in seen[k] : t \in DOMAIN last /\ k <= last[t]
  BY <1>13, <1>4 DEF Whole
<1>16. m.located \subseteq DOMAIN last /\ tracks \subseteq DOMAIN last
  BY DEF Whole
<1> HIDE DEF seen, last
<1>17. a \in Maps
  BY <1>2, <1>3, <1>7, <1>8 DEF Maps
<1> QED BY <1>2, <1>11, <1>12, <1>14, <1>15, <1>16, <1>17 DEF Whole

LEMMA EradicatedIsWhole ==
  ASSUME NEW m, Whole(m)
  PROVE  /\ Whole(Mono!Eradicated(m))
         /\ Len(m.keys) <= MaxKeyframes + 1 => Len(Mono!Eradicated(m).keys) <= MaxKeyframes
         /\ m.keys # <<>> => /\ Mono!Eradicated(m).keys # <<>>
                             /\ Mono!Last(Mono!Eradicated(m).keys) = Mono!Last(m.keys)
<1>1. m \in Maps
  BY DEF Whole
<1>2. m.keys \in Seq(Nat) /\ m.seen \in Observations /\ m.last \in Lasts /\ m.located \in SUBSET Nat
  BY <1>1 DEF Maps
<1>3. Len(m.keys) \in Nat /\ MaxKeyframes \in Nat \ {0}
  BY <1>2, ProvedPartsAssumption
<1>4. CASE Len(m.keys) <= MaxKeyframes
  BY <1>4 DEF Mono!Eradicated
<1>5. CASE Len(m.keys) > MaxKeyframes
  <2> DEFINE from == Len(m.keys) - MaxKeyframes + 1
             keys == SubSeq(m.keys, from, Len(m.keys))
             kept == {t \in DOMAIN m.last : m.last[t] >= keys[1]}
             seen == [k \in Mono!ToSet(keys) |-> m.seen[k]]
             last == [t \in kept |-> m.last[t]]
             e == Mono!Eradicated(m)
  <2>1. e = [keys |-> keys, seen |-> seen, last |-> last, located |-> m.located \cap kept]
    <3>1. ~ (Len(m.keys) <= MaxKeyframes)
      BY <1>3, <1>5
    <3> QED BY <3>1 DEF Mono!Eradicated
  <2>2. from \in 2 .. Len(m.keys) /\ Len(m.keys) - from + 1 = MaxKeyframes
    BY <1>3, <1>5
  <2>3. \A i \in 1 .. Len(m.keys) : m.keys[i] \in Nat
    BY <1>2
  <2>4. /\ keys \in Seq(Nat) /\ Len(keys) = MaxKeyframes
        /\ \A i \in 1 .. MaxKeyframes : keys[i] = m.keys[from + i - 1]
    <3>1. \A i \in from .. Len(m.keys) : m.keys[i] \in Nat
      BY <2>2, <2>3
    <3> HIDE DEF from
    <3>2. from \in Int /\ Len(m.keys) \in Int /\ from <= Len(m.keys)
      BY <2>2, <1>3
    <3> QED BY <3>1, <3>2, <2>2, SubSeqProperties
  <2> HIDE DEF from, keys
  <2>5. \A i \in 1 .. MaxKeyframes : from + i - 1 \in 1 .. Len(m.keys)
    BY <2>2, <1>3
  <2>6. Ascends(keys)
    <3> SUFFICES ASSUME NEW i \in 1 .. MaxKeyframes, NEW j \in 1 .. MaxKeyframes, i < j
                 PROVE  keys[i] < keys[j]
      BY <2>4 DEF Ascends
    <3>1. from + i - 1 < from + j - 1
      BY <2>2, <1>3
    <3>2. m.keys[from + i - 1] < m.keys[from + j - 1]
      BY <3>1, <2>5 DEF Whole, Ascends
    <3> QED BY <3>2, <2>4
  <2>7. Mono!ToSet(keys) = {keys[i] : i \in 1 .. MaxKeyframes}
    BY <2>4 DEF Mono!ToSet
  <2>8. DOMAIN m.seen = {m.keys[i] : i \in 1 .. Len(m.keys)}
    BY <1>2 DEF Mono!ToSet, Whole
  <2>9. 1 \in 1 .. MaxKeyframes /\ keys[1] = m.keys[from] /\ keys[1] \in Nat
    <3>1. 1 \in 1 .. MaxKeyframes /\ from + 1 - 1 = from
      BY <1>3, <2>2
    <3>2. from \in 1 .. Len(m.keys)
      BY <2>2, <1>3
    <3> QED BY <3>1, <3>2, <2>4, <2>3
  <2>10. Mono!ToSet(keys) = {k \in DOMAIN m.seen : k >= keys[1]}
    <3>1. ASSUME NEW i \in 1 .. MaxKeyframes
          PROVE  keys[i] \in DOMAIN m.seen /\ keys[i] >= keys[1]
      <4>1. keys[i] \in DOMAIN m.seen
        BY <2>4, <2>5, <2>8
      <4>2. i = 1 \/ keys[1] < keys[i]
        BY <2>6, <2>9, <2>4, <1>3 DEF Ascends
      <4>3. keys[i] \in Nat
        BY <2>4, <2>5, <2>3
      <4> QED BY <4>1, <4>2, <4>3, <2>9
    <3>2. ASSUME NEW i \in 1 .. Len(m.keys), m.keys[i] >= keys[1]
          PROVE  m.keys[i] \in Mono!ToSet(keys)
      <4>1. m.keys[i] \in Nat /\ ~ (m.keys[i] < m.keys[from])
        BY <3>2, <2>3, <2>9
      <4>2. ~ (i < from)
        BY <4>1, <2>2, <1>3 DEF Whole, Ascends
      <4>3. i - from + 1 \in 1 .. MaxKeyframes /\ from + (i - from + 1) - 1 = i
        BY <4>2, <2>2, <1>3
      <4>4. keys[i - from + 1] = m.keys[i]
        BY <4>3, <2>4
      <4> QED BY <4>3, <4>4, <2>7
    <3> QED BY <3>1, <3>2, <2>7, <2>8
  <2>11. /\ DOMAIN m.seen \in SUBSET Nat /\ \A k \in DOMAIN m.seen : m.seen[k] \in SUBSET Nat
         /\ DOMAIN m.last \in SUBSET Nat /\ \A t \in DOMAIN m.last : m.last[t] \in Nat
    BY <1>1, MapTypes
  <2>12. seen \in Observations /\ last \in Lasts /\ kept \in SUBSET Nat
    <3>1. Mono!ToSet(keys) \in SUBSET Nat /\ kept \in SUBSET Nat
      BY <2>10, <2>11
    <3>2. seen \in [Mono!ToSet(keys) -> SUBSET Nat] /\ last \in [kept -> Nat]
      BY <2>10, <2>11
    <3> QED BY <3>1, <3>2 DEF Observations, Lasts
  <2>13. \A t \in DOMAIN last : last[t] \in DOMAIN seen /\ t \in seen[last[t]]
    BY <2>10 DEF Whole
  <2>14. \A k \in DOMAIN seen : \A t \in seen[k] : t \in DOMAIN last /\ k <= last[t]
    <3> SUFFICES ASSUME NEW k \in DOMAIN seen, NEW t \in seen[k]
                 PROVE  t \in DOMAIN last /\ k <= last[t]
      OBVIOUS
    <3>1. k \in DOMAIN m.seen /\ k >= keys[1] /\ t \in m.seen[k] /\ k \in Nat
      BY <2>10, <2>11
    <3>2. t \in DOMAIN m.last /\ k <= m.last[t] /\ m.last[t] \in Nat
      BY <3>1, <2>11 DEF Whole
    <3> QED BY <3>1, <3>2, <2>9
  <2>15. m.located \cap kept \subseteq DOMAIN last /\ m.located \cap kept \in SUBSET Nat
    BY <1>2
  <2>16. keys # <<>> /\ m.keys # <<>> /\ Mono!Last(keys) = Mono!Last(m.keys)
    <3>1. Len(keys) # 0 /\ Len(m.keys) # 0
      BY <2>4, <1>3, <1>5
    <3>2. MaxKeyframes \in 1 .. MaxKeyframes /\ from + MaxKeyframes - 1 = Len(m.keys)
      BY <2>2, <1>3
    <3>3. keys[MaxKeyframes] = m.keys[Len(m.keys)]
      BY <3>2, <2>4
    <3> QED BY <3>1, <3>3, <2>4, <1>2 DEF Mono!Last
  <2>17. DOMAIN seen = Mono!ToSet(keys)
    OBVIOUS
  <2> HIDE DEF seen, last, kept
  <2>18. e \in Maps
    BY <2>1, <2>4, <2>12, <2>15 DEF Maps
  <2>19. Whole(e)
    BY <2>1, <2>6, <2>13, <2>14, <2>15, <2>17, <2>18 DEF Whole
  <2>20. Len(e.keys) <= MaxKeyframes
    BY <2>1, <2>4, <1>3
  <2> QED BY <2>1, <2>16, <2>19, <2>20
<1> QED BY <1>3, <1>4, <1>5

LEMMA LocatedMayChange ==
  ASSUME NEW m, Whole(m), NEW located \in SUBSET DOMAIN m.last
  PROVE  LET w == [m EXCEPT !.located = located]
         IN Whole(w) /\ w.keys = m.keys /\ w.seen = m.seen /\ w.last = m.last /\ w.located = located
<1> DEFINE w == [m EXCEPT !.located = located]
<1>1. m \in Maps
  BY DEF Whole
<1>2. w \in Maps /\ w.keys = m.keys /\ w.seen = m.seen /\ w.last = m.last /\ w.located = located
  <2>1. m = [keys |-> m.keys, seen |-> m.seen, last |-> m.last, located |-> m.located]
    BY <1>1, MapTypes
  <2>2. w = [keys |-> m.keys, seen |-> m.seen, last |-> m.last, located |-> located]
    BY <2>1
  <2>3. m.keys \in Seq(Nat) /\ m.seen \in Observations /\ m.last \in Lasts /\ located \in SUBSET Nat
    BY <1>1, MapTypes
  <2> QED BY <2>2, <2>3 DEF Maps
<1> HIDE DEF w
<1>3. Whole(w)
  BY <1>2 DEF Whole
<1> QED BY <1>2, <1>3 DEF w

\* The frames that are kept are those since the last keyframe.
Kept ==
  /\ Len(ahead) = monoFrame - 1 - lastKeyframe
  /\ \A i \in 1 .. Len(ahead) : ahead[i].frame = lastKeyframe + i

\* What the task works on is the map, which a frame meanwhile leaves as it is.
Copied ==
  monoTask # "none" =>
    /\ monoMap.keys # <<>>
    /\ copy.keys = monoMap.keys /\ copy.seen = monoMap.seen /\ copy.last = monoMap.last
    /\ copy.located \subseteq monoMap.located
    /\ monoTask = "running" => copy = monoMap
    /\ Kept

MonoTypes ==
  /\ monoFrame \in Nat /\ lastKeyframe \in Nat /\ monoPrev \in Nat \cup {Mono!NoFrame}
  /\ monoView \in SUBSET (1 .. MaxTrack)
  /\ started \in BOOLEAN /\ nodal \in BOOLEAN /\ thrown \in BOOLEAN
  /\ monoTask \in {"none", "running", "done", "crashed"}
  /\ ahead \in Seq([frame : Nat, tracks : SUBSET (1 .. MaxTrack)])

\* Only a map with keyframes has a last one, tracks a camera and runs a task.
Begun ==
  /\ monoMap.keys # <<>> => /\ lastKeyframe = Mono!Last(monoMap.keys) /\ ~ thrown
                            /\ lastKeyframe < monoFrame
  /\ monoMap.keys = <<>> => ~ started /\ monoTask = "none"
  /\ monoFrame = 0 => monoMap.keys = <<>> /\ ~ thrown

MonoInv ==
  /\ MonoTypes /\ Whole(monoMap) /\ Len(monoMap.keys) <= MaxKeyframes
  /\ Begun /\ Copied
  /\ Mono!NothingKeptInVain /\ Mono!PoseInThisMap

LEMMA MonoInit == Mono!Init => MonoInv
<1> SUFFICES ASSUME Mono!Init PROVE MonoInv
  OBVIOUS
<1>1. /\ monoFrame \in {0, 1} /\ monoView = {} /\ lastKeyframe = 0 /\ started = FALSE
      /\ nodal = FALSE /\ monoPrev = 0 /\ monoTask = "none" /\ ahead = <<>> /\ thrown = FALSE
      /\ monoMap = [keys |-> <<>>, seen |-> <<>>, last |-> <<>>, located |-> {}]
  BY DEF Mono!Init, Mono!EmptyMap
<1>2. MonoTypes /\ Begun /\ Copied /\ Mono!NothingKeptInVain /\ Mono!PoseInThisMap
  <2>1. monoMap.keys = <<>>
    BY <1>1
  <2>2. <<>> \in Seq([frame : Nat, tracks : SUBSET (1 .. MaxTrack)])
    OBVIOUS
  <2>3. MonoTypes
    <3>1. monoFrame \in Nat
      BY <1>1
    <3>2. monoView \in SUBSET (1 .. MaxTrack)
      BY <1>1
    <3>3. started \in BOOLEAN /\ nodal \in BOOLEAN /\ thrown \in BOOLEAN
      BY <1>1
    <3> QED BY <1>1, <2>2, <3>1, <3>2, <3>3 DEF MonoTypes
  <2> QED BY <1>1, <2>1, <2>3 DEF Begun, Copied, Mono!NothingKeptInVain, Mono!PoseInThisMap
<1>3. Whole(monoMap) /\ Len(monoMap.keys) = 0
  <2>1. <<>> \in [{} -> SUBSET Nat] /\ <<>> \in [{} -> Nat] /\ <<>> \in Seq(Nat)
    OBVIOUS
  <2>2. <<>> \in Observations /\ <<>> \in Lasts
    BY <2>1 DEF Observations, Lasts
  <2>3. monoMap \in Maps
    BY <1>1, <2>1, <2>2 DEF Maps
  <2> QED BY <1>1, <2>3 DEF Whole, Ascends, Mono!ToSet
<1> QED BY <1>2, <1>3, ProvedPartsAssumption DEF MonoInv

LEMMA KeysArePast ==
  ASSUME MonoInv
  PROVE  \A i \in 1 .. Len(monoMap.keys) : monoMap.keys[i] < monoFrame
<1> SUFFICES ASSUME NEW i \in 1 .. Len(monoMap.keys) PROVE monoMap.keys[i] < monoFrame
  OBVIOUS
<1>1. monoMap.keys \in Seq(Nat)
  BY MapTypes DEF MonoInv, Whole
<1>2. Len(monoMap.keys) \in Nat \ {0} /\ monoMap.keys # <<>>
  BY <1>1
<1>3. monoMap.keys[Len(monoMap.keys)] < monoFrame
  BY <1>2 DEF MonoInv, Begun, Mono!Last
<1>4. i = Len(monoMap.keys) \/ monoMap.keys[i] < monoMap.keys[Len(monoMap.keys)]
  BY <1>2 DEF MonoInv, Whole, Ascends
<1>5. monoMap.keys[i] \in Nat /\ monoMap.keys[Len(monoMap.keys)] \in Nat /\ monoFrame \in Nat
  BY <1>1, <1>2 DEF MonoInv, MonoTypes
<1> QED BY <1>3, <1>4, <1>5

\* What the task leaves takes positions away, and nothing else.
LEMMA MergedIsWhole ==
  ASSUME MonoInv
  PROVE  /\ Whole(Mono!Merged) /\ Mono!Merged.keys = monoMap.keys /\ Mono!Merged.seen = monoMap.seen
         /\ Mono!Merged.last = monoMap.last
         /\ monoTask # "done" => Mono!Merged = monoMap
<1>1. CASE monoTask # "done"
  BY <1>1 DEF Mono!Merged, MonoInv
<1>2. CASE monoTask = "done"
  <2>1. Mono!Merged = [monoMap EXCEPT !.last = copy.last, !.located = copy.located]
    BY <1>2 DEF Mono!Merged
  <2>2. copy.last = monoMap.last /\ copy.located \in SUBSET DOMAIN monoMap.last
    BY <1>2 DEF MonoInv, Copied, Whole
  <2>3. [monoMap EXCEPT !.last = monoMap.last, !.located = copy.located] =
          [monoMap EXCEPT !.located = copy.located]
    <3>1. monoMap = [keys |-> monoMap.keys, seen |-> monoMap.seen, last |-> monoMap.last,
                     located |-> monoMap.located]
      BY MapTypes DEF MonoInv, Whole
    <3> QED BY <3>1
  <2> DEFINE w == [monoMap EXCEPT !.located = copy.located]
  <2>4. Whole(w) /\ w.keys = monoMap.keys /\ w.seen = monoMap.seen /\ w.last = monoMap.last
    BY <2>2, LocatedMayChange DEF MonoInv
  <2>5. Mono!Merged = w
    BY <2>1, <2>2, <2>3
  <2> HIDE DEF w
  <2> QED BY <1>2, <2>4, <2>5
<1> QED BY <1>1, <1>2

\* The poses that the next frame may start from are in this map.
LEMMA ReplayedIsInMap ==
  ASSUME MonoInv, NEW before \in Mono!Replayed
  PROVE  /\ before \in Nat \cup {Mono!NoFrame}
         /\ before # Mono!NoFrame /\ monoMap.keys # <<>> => before >= lastKeyframe
<1> USE DEF Mono!NoFrame
<1>1. CASE monoTask = "crashed"
  BY <1>1 DEF Mono!Replayed
<1>2. CASE monoTask \in {"none", "running"}
  BY <1>2 DEF Mono!Replayed, MonoInv, MonoTypes, Mono!PoseInThisMap
<1>3. CASE monoTask = "done"
  <2>1. before = Mono!Last(copy.keys) \/ \E i \in 1 .. Len(ahead) : before = ahead[i].frame
    BY <1>3 DEF Mono!Replayed
  <2>2. Mono!Last(copy.keys) = lastKeyframe
    BY <1>3 DEF MonoInv, Copied, Begun
  <2>3. Kept /\ lastKeyframe \in Nat
    BY <1>3 DEF MonoInv, Copied, MonoTypes
  <2>4. Len(ahead) \in Nat
    BY DEF MonoInv, MonoTypes
  <2> QED BY <2>1, <2>2, <2>3, <2>4 DEF Kept
<1> QED BY <1>1, <1>2, <1>3 DEF MonoInv, MonoTypes

LEMMA EndTaskInv == MonoInv /\ Mono!EndTask => MonoInv'
<1> SUFFICES ASSUME MonoInv, Mono!EndTask PROVE MonoInv'
  OBVIOUS
<1>1. /\ monoTask = "running" /\ monoTask' \in {"done", "crashed"}
      /\ UNCHANGED <<monoFrame, monoView, monoMap, lastKeyframe, started, nodal, monoPrev, ahead, thrown>>
  BY DEF Mono!EndTask
<1>2. copy = monoMap /\ Kept /\ monoMap.keys # <<>> /\ Whole(monoMap)
  BY <1>1 DEF MonoInv, Copied
<1>3. /\ copy'.keys = copy.keys /\ copy'.seen = copy.seen /\ copy'.last = copy.last
      /\ copy'.located \subseteq copy.located
  <2>1. CASE copy' = copy
    BY <2>1
  <2>2. CASE copy' \in Mono!Winsorized(copy, copy.keys)
    <3>1. PICK lost : copy' = [copy EXCEPT !.located = copy.located \ lost]
      BY <2>2 DEF Mono!Winsorized
    <3>2. copy.located \ lost \in SUBSET DOMAIN copy.last
      BY <1>2 DEF Whole
    <3> QED BY <1>2, <3>1, <3>2, LocatedMayChange
  <2> QED BY <2>1, <2>2 DEF Mono!EndTask
<1>4. Copied'
  BY <1>1, <1>2, <1>3 DEF Copied, Kept
<1>5. MonoTypes' /\ Begun' /\ Mono!NothingKeptInVain' /\ Mono!PoseInThisMap'
  BY <1>1, <1>2 DEF MonoInv, MonoTypes, Begun, Mono!NothingKeptInVain, Mono!PoseInThisMap
<1> QED BY <1>1, <1>2, <1>4, <1>5 DEF MonoInv

\* Tracks of a frame are those of the last one and new ones.
LEMMA TracksOfAFrame ==
  ASSUME MonoInv, NEW kept \in SUBSET monoView, NEW new
  PROVE  kept \cup Mono!New(new) \in SUBSET (1 .. MaxTrack)
BY DEF MonoInv, MonoTypes, Mono!New, Mono!Unused

\* What a frame does to the map and the task
FirstKeyframe(tracks) ==
  /\ monoFrame = 0 /\ monoMap' = Mono!Added(monoMap, 0, tracks)
  /\ lastKeyframe' = 0 /\ monoPrev' = 0 /\ ahead' = Mono!Remaining
  /\ UNCHANGED <<started, nodal, monoTask, copy, thrown>>

Refused ==
  /\ monoFrame # 0 /\ monoMap.keys = <<>> /\ ahead' = Mono!Remaining /\ thrown' = TRUE
  /\ UNCHANGED <<monoMap, lastKeyframe, started, nodal, monoPrev, monoTask, copy>>

Solved(tracks) ==
  /\ monoMap.keys # <<>> /\ monoTask # "running"
  /\ \E new \in SUBSET tracks :
       LET grown == Mono!Added(Mono!Merged, monoFrame, tracks)
       IN monoMap' = Mono!Eradicated([grown EXCEPT !.located = grown.located \cup new])
  /\ nodal' \in BOOLEAN
  /\ \/ nodal' /\ copy' = copy /\ monoTask' = "none"
     \/ ~ nodal' /\ copy' = monoMap' /\ monoTask' = "running"
  /\ lastKeyframe' = monoFrame /\ started' = TRUE /\ monoPrev' = monoFrame
  /\ ahead' = <<>> /\ UNCHANGED thrown

RestartedAt(tracks) ==
  /\ monoMap.keys # <<>> /\ monoTask # "running"
  /\ monoMap' = Mono!Restarted(monoFrame, tracks)
  /\ lastKeyframe' = monoFrame /\ monoPrev' \in {monoFrame, Mono!NoFrame}
  /\ started' \in BOOLEAN /\ monoTask' = "none" /\ nodal' \in BOOLEAN /\ ~ nodal'
  /\ ahead' = <<>> /\ UNCHANGED <<copy, thrown>>

Unsolved(pose) ==
  /\ monoMap.keys # <<>> /\ monoTask # "running"
  /\ monoMap' = Mono!Merged /\ monoPrev' = pose /\ started' \in BOOLEAN
  /\ monoTask' = "none" /\ nodal' \in BOOLEAN /\ ~ nodal'
  /\ ahead' = <<>> /\ UNCHANGED <<lastKeyframe, copy, thrown>>

Between(tracks, pose) ==
  /\ monoFrame # 0 /\ monoMap' = Mono!Merged /\ monoPrev' = pose /\ started' \in BOOLEAN
  /\ started' => started
  /\ \/ monoTask = "running" /\ monoTask' = "running"
        /\ ahead' = Append(ahead, [frame |-> monoFrame, tracks |-> tracks])
     \/ monoTask # "running" /\ monoTask' = "none" /\ ahead' = <<>>
  /\ UNCHANGED <<lastKeyframe, nodal, copy, thrown>>

LEMMA RemainingIsNothing ==
  MonoInv /\ monoTask # "running" => Mono!Remaining = <<>>
BY DEF MonoInv, MonoTypes, Mono!NothingKeptInVain, Mono!Remaining

LEMMA FrameActs ==
  ASSUME MonoInv, Mono!Frame
  PROVE  \E tracks \in SUBSET (1 .. MaxTrack), pose \in Nat \cup {Mono!NoFrame} :
           /\ monoView' = tracks /\ monoFrame' = monoFrame + 1
           /\ pose # Mono!NoFrame /\ monoMap.keys # <<>> => pose >= lastKeyframe
           /\ \/ FirstKeyframe(tracks) \/ Refused
              \/ Solved(tracks) \/ RestartedAt(tracks) \/ Unsolved(pose) \/ Between(tracks, pose)
<1>1. PICK isKeyFrame \in BOOLEAN, kept \in SUBSET monoView, new \in 0 .. 2 :
        LET tracks == kept \cup Mono!New(new)
            shared == Mono!Shared(tracks)
            infinity == IF nodal THEN shared ELSE {}
        IN /\ (monoMap.keys = <<>> /\ ~thrown => isKeyFrame) /\ ~Mono!MustWait(isKeyFrame)
           /\ new <= Mono!Cardinality(Mono!Unused)
           /\ monoView' = tracks /\ monoFrame' = monoFrame + 1
           /\ \E before \in Mono!Replayed,
                 resectioned \in IF started THEN Mono!Resectioned(Mono!Merged, infinity, tracks) ELSE {FALSE} :
                LET pose == IF resectioned THEN monoFrame ELSE before
                IN /\ IF isKeyFrame THEN
                        /\ ahead' = Mono!Remaining
                        /\ IF monoFrame = 0 THEN
                             /\ monoMap' = Mono!Added(monoMap, 0, tracks)
                             /\ lastKeyframe' = 0 /\ monoPrev' = 0
                             /\ UNCHANGED <<started, nodal, monoTask, copy, thrown>>
                           ELSE IF monoMap.keys = <<>> THEN
                             /\ thrown' = TRUE
                             /\ UNCHANGED <<monoMap, lastKeyframe, started, nodal, monoPrev, monoTask, copy>>
                           ELSE Mono!Keyframe(tracks, shared, resectioned, pose)
                      ELSE
                        /\ monoMap' = Mono!Merged /\ monoPrev' = pose
                        /\ started' = resectioned
                        /\ monoTask' = Mono!Pending
                        /\ ahead' = (IF monoTask' = "none" THEN Mono!Remaining
                                     ELSE Append(ahead, [frame |-> monoFrame, tracks |-> tracks]))
                        /\ UNCHANGED <<lastKeyframe, nodal, copy, thrown>>
  BY DEF Mono!Frame
<1> DEFINE tracks == kept \cup Mono!New(new)
           shared == Mono!Shared(tracks)
           infinity == IF nodal THEN shared ELSE {}
<1>2. PICK before \in Mono!Replayed,
           resectioned \in IF started THEN Mono!Resectioned(Mono!Merged, infinity, tracks) ELSE {FALSE} :
        IF isKeyFrame THEN
          /\ ahead' = Mono!Remaining
          /\ IF monoFrame = 0 THEN
               /\ monoMap' = Mono!Added(monoMap, 0, tracks)
               /\ lastKeyframe' = 0 /\ monoPrev' = 0
               /\ UNCHANGED <<started, nodal, monoTask, copy, thrown>>
             ELSE IF monoMap.keys = <<>> THEN
               /\ thrown' = TRUE
               /\ UNCHANGED <<monoMap, lastKeyframe, started, nodal, monoPrev, monoTask, copy>>
             ELSE Mono!Keyframe(tracks, shared, resectioned, IF resectioned THEN monoFrame ELSE before)
        ELSE
          /\ monoMap' = Mono!Merged /\ monoPrev' = IF resectioned THEN monoFrame ELSE before
          /\ started' = resectioned
          /\ monoTask' = Mono!Pending
          /\ ahead' = (IF monoTask' = "none" THEN Mono!Remaining
                       ELSE Append(ahead, [frame |-> monoFrame, tracks |-> tracks]))
          /\ UNCHANGED <<lastKeyframe, nodal, copy, thrown>>
  BY <1>1
<1> DEFINE pose == IF resectioned THEN monoFrame ELSE before
<1>3. tracks \in SUBSET (1 .. MaxTrack)
  BY TracksOfAFrame
<1>4. resectioned \in BOOLEAN /\ (resectioned => started)
  BY DEF Mono!Resectioned
<1>5. /\ pose \in Nat \cup {Mono!NoFrame}
      /\ pose # Mono!NoFrame /\ monoMap.keys # <<>> => pose >= lastKeyframe
  BY ReplayedIsInMap DEF MonoInv, MonoTypes, Begun
<1>6. monoView' = tracks /\ monoFrame' = monoFrame + 1
  BY <1>1
<1>7. /\ monoMap.keys = <<>> /\ ~ thrown => isKeyFrame
      /\ isKeyFrame => monoTask # "running"
  BY <1>1 DEF Mono!MustWait
<1> HIDE DEF tracks, shared, infinity
<1>8. \/ FirstKeyframe(tracks) \/ Refused
      \/ Solved(tracks) \/ RestartedAt(tracks) \/ Unsolved(pose) \/ Between(tracks, pose)
  <2>1. CASE ~ isKeyFrame
    <3>1. /\ monoMap' = Mono!Merged /\ monoPrev' = pose /\ started' = resectioned
          /\ monoTask' = Mono!Pending
          /\ ahead' = (IF monoTask' = "none" THEN Mono!Remaining
                       ELSE Append(ahead, [frame |-> monoFrame, tracks |-> tracks]))
          /\ UNCHANGED <<lastKeyframe, nodal, copy, thrown>>
      BY <1>2, <2>1
    <3>2. monoFrame # 0
      BY <1>7, <2>1 DEF MonoInv, Begun
    <3> HIDE DEF pose
    <3>3. CASE monoTask = "running"
      BY <3>1, <3>2, <3>3, <1>4 DEF Between, Mono!Pending
    <3>4. CASE monoTask # "running"
      BY <3>1, <3>2, <3>4, <1>4, RemainingIsNothing DEF Between, Mono!Pending
    <3> QED BY <3>3, <3>4
  <2>2. CASE isKeyFrame /\ monoFrame = 0
    BY <1>2, <2>2 DEF FirstKeyframe
  <2>3. CASE isKeyFrame /\ monoFrame # 0 /\ monoMap.keys = <<>>
    BY <1>2, <2>3 DEF Refused
  <2>4. CASE isKeyFrame /\ monoFrame # 0 /\ monoMap.keys # <<>>
    <3>1. Mono!Keyframe(tracks, shared, resectioned, pose) /\ monoTask # "running" /\ ahead' = <<>>
      BY <1>2, <1>7, <2>4, RemainingIsNothing
    <3> HIDE DEF pose
    <3>2. PICK relation \in Mono!Relations(shared) :
            IF relation # "none" THEN Mono!SolveKeyframe(tracks, shared, relation)
            ELSE /\ IF ~resectioned /\ Mono!Cardinality(shared) < MinPoints THEN
                      /\ monoMap' = Mono!Restarted(monoFrame, tracks)
                      /\ lastKeyframe' = monoFrame
                      /\ monoPrev' = (IF pose = Mono!NoFrame THEN Mono!NoFrame ELSE monoFrame)
                    ELSE /\ monoMap' = Mono!Merged /\ monoPrev' = pose
                         /\ UNCHANGED lastKeyframe
                 /\ Mono!SolveFrameRange(relation)
                 /\ started' = resectioned /\ monoTask' = Mono!Pending
                 /\ UNCHANGED <<copy, thrown>>
      BY <3>1 DEF Mono!Keyframe
    <3>3. CASE relation = "none"
      <4>1. nodal' \in BOOLEAN /\ ~ nodal' /\ monoTask' = "none"
        BY <3>1, <3>2, <3>3 DEF Mono!SolveFrameRange, Mono!Pending
      <4> QED BY <3>1, <3>2, <3>3, <4>1, <2>4, <1>4 DEF RestartedAt, Unsolved
    <3>4. CASE relation # "none"
      <4>1. Mono!SolveKeyframe(tracks, shared, relation)
        BY <3>2, <3>4
      <4>2. PICK left \in Mono!Purged(shared) :
              \E triangulated \in Mono!Triangulated(Mono!Added(Mono!Merged, monoFrame, tracks), left) :
                /\ monoMap' = Mono!Eradicated(triangulated)
                /\ Mono!SolveFrameRange(relation)
                /\ Mono!Refined(monoMap', nodal')
        BY <4>1 DEF Mono!SolveKeyframe
      <4>3. PICK more \in SUBSET left :
              LET grown == Mono!Added(Mono!Merged, monoFrame, tracks)
              IN /\ monoMap' = Mono!Eradicated([grown EXCEPT !.located = grown.located \cup more])
                 /\ Mono!SolveFrameRange(relation)
                 /\ Mono!Refined(monoMap', nodal')
        BY <4>2 DEF Mono!Triangulated
      <4>4. more \in SUBSET tracks
        BY <2>4 DEF Mono!Purged, Mono!Shared, shared
      <4>5. nodal' \in BOOLEAN
        BY <4>3 DEF Mono!SolveFrameRange
      <4>6. lastKeyframe' = monoFrame /\ started' = TRUE /\ monoPrev' = monoFrame /\ UNCHANGED thrown
        BY <4>1 DEF Mono!SolveKeyframe
      <4>7. \/ nodal' /\ copy' = copy /\ monoTask' = "none"
            \/ ~ nodal' /\ copy' = monoMap' /\ monoTask' = "running"
        BY <4>3, <4>5 DEF Mono!Refined
      <4> QED BY <2>4, <3>1, <4>3, <4>4, <4>5, <4>6, <4>7 DEF Solved
    <3> QED BY <3>3, <3>4
  <2> QED BY <2>1, <2>2, <2>3, <2>4
<1> QED BY <1>3, <1>5, <1>6, <1>8

LEMMA FirstKeyframeInv ==
  ASSUME MonoInv, NEW tracks \in SUBSET (1 .. MaxTrack), monoView' = tracks, monoFrame' = monoFrame + 1,
         FirstKeyframe(tracks)
  PROVE  MonoInv'
<1>1. monoFrame = 0 /\ monoMap.keys = <<>> /\ ~ thrown /\ monoTask = "none" /\ Whole(monoMap)
  BY DEF MonoInv, Begun, FirstKeyframe
<1>2. /\ Whole(monoMap') /\ monoMap'.keys = Append(monoMap.keys, 0)
  <2>1. \A i \in 1 .. Len(monoMap.keys) : monoMap.keys[i] < 0
    BY <1>1
  <2>2. tracks \in SUBSET Nat
    BY ProvedPartsAssumption
  <2> QED BY <1>1, <2>1, <2>2, AddedIsWhole DEF FirstKeyframe
<1>3. monoMap'.keys = <<0>> /\ Len(monoMap'.keys) = 1
  BY <1>1, <1>2
<1>4. ahead' = <<>>
  BY <1>1, RemainingIsNothing DEF FirstKeyframe
<1>5. MonoTypes'
  BY <1>1, <1>4 DEF MonoInv, MonoTypes, FirstKeyframe
<1>6. Begun' /\ Copied' /\ Mono!NothingKeptInVain' /\ Mono!PoseInThisMap'
  BY <1>1, <1>3, <1>4 DEF MonoInv, Begun, Copied, Mono!NothingKeptInVain, Mono!PoseInThisMap,
    FirstKeyframe, Mono!Last
<1> QED BY <1>2, <1>3, <1>5, <1>6, ProvedPartsAssumption DEF MonoInv

LEMMA RefusedInv ==
  ASSUME MonoInv, NEW tracks \in SUBSET (1 .. MaxTrack), monoView' = tracks, monoFrame' = monoFrame + 1,
         Refused
  PROVE  MonoInv'
<1>1. monoTask = "none" /\ monoMap.keys = <<>> /\ ~ started
  BY DEF MonoInv, Begun, Refused
<1>2. ahead' = <<>>
  BY <1>1, RemainingIsNothing DEF Refused
<1>3. MonoTypes'
  BY <1>2 DEF MonoInv, MonoTypes, Refused
<1>4. Begun' /\ Copied' /\ Mono!NothingKeptInVain' /\ Mono!PoseInThisMap'
  BY <1>1, <1>2 DEF MonoInv, MonoTypes, Begun, Copied, Mono!NothingKeptInVain, Mono!PoseInThisMap, Refused
<1>5. Whole(monoMap') /\ Len(monoMap'.keys) <= MaxKeyframes
  BY DEF MonoInv, Refused
<1> QED BY <1>3, <1>4, <1>5 DEF MonoInv

LEMMA LastOfAppended ==
  ASSUME NEW s \in Seq(Nat), NEW f \in Nat
  PROVE  /\ Append(s, f) # <<>> /\ Mono!Last(Append(s, f)) = f
         /\ Len(Append(s, f)) = Len(s) + 1
BY DEF Mono!Last

LEMMA SolvedInv ==
  ASSUME MonoInv, NEW tracks \in SUBSET (1 .. MaxTrack), monoView' = tracks, monoFrame' = monoFrame + 1,
         Solved(tracks)
  PROVE  MonoInv'
<1> DEFINE grown == Mono!Added(Mono!Merged, monoFrame, tracks)
<1>1. PICK new \in SUBSET tracks :
        monoMap' = Mono!Eradicated([grown EXCEPT !.located = grown.located \cup new])
  BY DEF Solved
<1>2. monoFrame \in Nat /\ tracks \in SUBSET Nat /\ monoMap.keys \in Seq(Nat)
  <2>1. Whole(monoMap) /\ monoFrame \in Nat
    BY DEF MonoInv, MonoTypes
  <2>2. monoMap.keys \in Seq(Nat)
    BY <2>1, MapTypes DEF Whole
  <2>3. 1 .. MaxTrack \subseteq Nat
    BY ProvedPartsAssumption
  <2> QED BY <2>1, <2>2, <2>3
<1>3. /\ Whole(grown) /\ grown.keys = Append(monoMap.keys, monoFrame)
      /\ tracks \subseteq DOMAIN grown.last /\ grown.located = Mono!Merged.located
  BY <1>2, KeysArePast, MergedIsWhole, AddedIsWhole
<1> HIDE DEF grown
<1> DEFINE located == grown.located \cup new
           w == [grown EXCEPT !.located = located]
<1>4. located \in SUBSET DOMAIN grown.last
  BY <1>3 DEF Whole
<1>5. Whole(w) /\ w.keys = grown.keys
  BY <1>3, <1>4, LocatedMayChange
<1>6. monoMap' = Mono!Eradicated(w)
  BY <1>1
<1> HIDE DEF w
<1>7. w.keys # <<>> /\ Mono!Last(w.keys) = monoFrame /\ Len(w.keys) <= MaxKeyframes + 1
  <2>1. Len(monoMap.keys) <= MaxKeyframes /\ Len(monoMap.keys) \in Nat /\ MaxKeyframes \in Nat
    BY <1>2, ProvedPartsAssumption DEF MonoInv
  <2> QED BY <2>1, <1>2, <1>3, <1>5, LastOfAppended
<1>8. /\ Whole(monoMap') /\ Len(monoMap'.keys) <= MaxKeyframes
      /\ monoMap'.keys # <<>> /\ Mono!Last(monoMap'.keys) = monoFrame
  BY <1>5, <1>6, <1>7, EradicatedIsWhole
<1>9. ahead' = <<>> /\ lastKeyframe' = monoFrame /\ monoPrev' = monoFrame /\ started' = TRUE
      /\ nodal' \in BOOLEAN /\ thrown' = thrown /\ ~ thrown
  BY DEF Solved, MonoInv, Begun
<1>10. MonoTypes'
  <2>1. monoTask' \in {"none", "running"}
    BY DEF Solved
  <2>2. started' \in BOOLEAN
    BY <1>9
  <2>3. ahead' \in Seq([frame : Nat, tracks : SUBSET (1 .. MaxTrack)])
    BY <1>9
  <2> QED BY <1>9, <2>1, <2>2, <2>3 DEF MonoInv, MonoTypes
<1>11. Begun'
  BY <1>2, <1>8, <1>9 DEF Begun
<1>12. Copied'
  <2>1. monoTask' # "none" => monoTask' = "running" /\ copy' = monoMap'
    BY DEF Solved
  <2>2. Kept'
    BY <1>2, <1>9 DEF Kept
  <2> QED BY <1>8, <2>1, <2>2 DEF Copied
<1>13. Mono!NothingKeptInVain' /\ Mono!PoseInThisMap'
  <2>1. nodal' => monoTask' = "none"
    BY DEF Solved
  <2> QED BY <1>2, <1>9, <2>1 DEF Mono!NothingKeptInVain, Mono!PoseInThisMap
<1> QED BY <1>8, <1>10, <1>11, <1>12, <1>13 DEF MonoInv

LEMMA RestartedInv ==
  ASSUME MonoInv, NEW tracks \in SUBSET (1 .. MaxTrack), monoView' = tracks, monoFrame' = monoFrame + 1,
         RestartedAt(tracks)
  PROVE  MonoInv'
<1>1. monoFrame \in Nat /\ tracks \in SUBSET Nat /\ MaxKeyframes \in Nat \ {0}
  BY ProvedPartsAssumption DEF MonoInv, MonoTypes
<1>2. Whole(Mono!EmptyMap) /\ Mono!EmptyMap.keys = <<>>
  <2>1. <<>> \in [{} -> SUBSET Nat] /\ <<>> \in [{} -> Nat] /\ <<>> \in Seq(Nat)
    OBVIOUS
  <2>2. <<>> \in Observations /\ <<>> \in Lasts
    BY <2>1 DEF Observations, Lasts
  <2>3. Mono!EmptyMap \in Maps
    BY <2>1, <2>2 DEF Maps, Mono!EmptyMap
  <2> QED BY <2>3 DEF Whole, Ascends, Mono!ToSet, Mono!EmptyMap
<1>3. monoMap' = Mono!Added(Mono!EmptyMap, monoFrame, tracks)
  BY DEF RestartedAt, Mono!Restarted
<1>4. \A i \in 1 .. Len(Mono!EmptyMap.keys) : Mono!EmptyMap.keys[i] < monoFrame
  BY <1>2
<1>5. /\ Whole(monoMap') /\ monoMap'.keys = Append(Mono!EmptyMap.keys, monoFrame)
  BY <1>1, <1>2, <1>3, <1>4, AddedIsWhole
<1>6. monoMap'.keys = Append(<<>>, monoFrame) /\ <<>> \in Seq(Nat)
  BY <1>2, <1>5
<1>7. monoMap'.keys # <<>> /\ Mono!Last(monoMap'.keys) = monoFrame /\ Len(monoMap'.keys) = 1
  <2>1. Len(<<>>) = 0
    OBVIOUS
  <2>2. /\ Append(<<>>, monoFrame) # <<>> /\ Mono!Last(Append(<<>>, monoFrame)) = monoFrame
        /\ Len(Append(<<>>, monoFrame)) = Len(<<>>) + 1
    BY <1>1, <1>6, LastOfAppended
  <2> QED BY <1>6, <2>1, <2>2
<1>8. ahead' = <<>> /\ lastKeyframe' = monoFrame /\ monoPrev' \in {monoFrame, Mono!NoFrame}
      /\ started' \in BOOLEAN /\ ~ nodal' /\ nodal' \in BOOLEAN /\ thrown' = thrown /\ ~ thrown
      /\ monoTask' = "none"
  BY DEF RestartedAt, MonoInv, Begun
<1>9. MonoTypes'
  <2>1. ahead' \in Seq([frame : Nat, tracks : SUBSET (1 .. MaxTrack)])
    BY <1>8
  <2> QED BY <1>8, <2>1 DEF MonoInv, MonoTypes
<1>10. Begun' /\ Copied' /\ Mono!NothingKeptInVain' /\ Mono!PoseInThisMap'
  BY <1>1, <1>7, <1>8 DEF Begun, Copied, Mono!NothingKeptInVain, Mono!PoseInThisMap
<1> QED BY <1>1, <1>5, <1>7, <1>9, <1>10 DEF MonoInv

LEMMA UnsolvedInv ==
  ASSUME MonoInv, NEW tracks \in SUBSET (1 .. MaxTrack), monoView' = tracks, monoFrame' = monoFrame + 1,
         NEW pose \in Nat \cup {Mono!NoFrame},
         pose # Mono!NoFrame /\ monoMap.keys # <<>> => pose >= lastKeyframe,
         Unsolved(pose)
  PROVE  MonoInv'
<1>1. Whole(monoMap') /\ monoMap'.keys = monoMap.keys /\ Len(monoMap'.keys) <= MaxKeyframes
  BY MergedIsWhole DEF Unsolved, MonoInv
<1>2. /\ monoMap.keys # <<>> /\ monoPrev' = pose /\ started' \in BOOLEAN /\ monoTask' = "none"
      /\ ~ nodal' /\ nodal' \in BOOLEAN /\ ahead' = <<>> /\ lastKeyframe' = lastKeyframe
      /\ thrown' = thrown
  BY DEF Unsolved
<1>3. MonoTypes'
  <2>1. ahead' \in Seq([frame : Nat, tracks : SUBSET (1 .. MaxTrack)])
    BY <1>2
  <2> QED BY <1>2, <2>1 DEF MonoInv, MonoTypes
<1>4. Begun'
  BY <1>1, <1>2 DEF MonoInv, MonoTypes, Begun
<1>5. Copied' /\ Mono!NothingKeptInVain' /\ Mono!PoseInThisMap'
  BY <1>1, <1>2 DEF Copied, Mono!NothingKeptInVain, Mono!PoseInThisMap
<1> QED BY <1>1, <1>3, <1>4, <1>5 DEF MonoInv

LEMMA BetweenInv ==
  ASSUME MonoInv, NEW tracks \in SUBSET (1 .. MaxTrack), monoView' = tracks, monoFrame' = monoFrame + 1,
         NEW pose \in Nat \cup {Mono!NoFrame},
         pose # Mono!NoFrame /\ monoMap.keys # <<>> => pose >= lastKeyframe,
         Between(tracks, pose)
  PROVE  MonoInv'
<1>1. Whole(monoMap') /\ monoMap'.keys = monoMap.keys /\ Len(monoMap'.keys) <= MaxKeyframes
  BY MergedIsWhole DEF Between, MonoInv
<1>2. /\ monoFrame # 0 /\ monoPrev' = pose /\ started' \in BOOLEAN /\ lastKeyframe' = lastKeyframe
      /\ (started' => started) /\ nodal' = nodal /\ copy' = copy /\ thrown' = thrown
  BY DEF Between
<1>3. CASE monoTask # "running"
  <2>1. monoTask' = "none" /\ ahead' = <<>>
    BY <1>3 DEF Between
  <2>2. ahead' \in Seq([frame : Nat, tracks : SUBSET (1 .. MaxTrack)])
    BY <2>1
  <2>3. MonoTypes'
    BY <1>2, <2>1, <2>2 DEF MonoInv, MonoTypes
  <2>4. Begun'
    BY <1>1, <1>2, <2>1 DEF MonoInv, MonoTypes, Begun
  <2>5. Copied' /\ Mono!NothingKeptInVain' /\ Mono!PoseInThisMap'
    BY <1>1, <1>2, <2>1 DEF Copied, Mono!NothingKeptInVain, Mono!PoseInThisMap
  <2> QED BY <1>1, <2>3, <2>4, <2>5 DEF MonoInv
<1>4. CASE monoTask = "running"
  <2>1. monoTask' = "running" /\ ahead' = Append(ahead, [frame |-> monoFrame, tracks |-> tracks])
    BY <1>4 DEF Between
  <2>2. monoFrame \in Nat /\ lastKeyframe \in Nat
        /\ ahead \in Seq([frame : Nat, tracks : SUBSET (1 .. MaxTrack)])
    BY DEF MonoInv, MonoTypes
  <2>3. [frame |-> monoFrame, tracks |-> tracks] \in [frame : Nat, tracks : SUBSET (1 .. MaxTrack)]
    BY <2>2
  <2>4. ahead' \in Seq([frame : Nat, tracks : SUBSET (1 .. MaxTrack)])
    BY <2>1, <2>2, <2>3
  <2>5. MonoTypes'
    BY <1>2, <2>1, <2>4 DEF MonoInv, MonoTypes
  <2>6. Begun'
    BY <1>1, <1>2, <1>4 DEF MonoInv, MonoTypes, Begun
  <2>7. Mono!NothingKeptInVain' /\ Mono!PoseInThisMap'
    BY <1>1, <1>2, <1>4, <2>1 DEF MonoInv, Mono!NothingKeptInVain, Mono!PoseInThisMap
  <2>8. Kept'
    <3>1. /\ Len(ahead') = Len(ahead) + 1 /\ Len(ahead) \in Nat
          /\ \A i \in 1 .. Len(ahead) : ahead'[i] = ahead[i]
          /\ ahead'[Len(ahead) + 1].frame = monoFrame
      BY <2>1, <2>2
    <3>2. /\ Len(ahead) = monoFrame - 1 - lastKeyframe
          /\ \A i \in 1 .. Len(ahead) : ahead[i].frame = lastKeyframe + i
      BY <1>4 DEF MonoInv, Copied, Kept
    <3>3. Len(ahead') = monoFrame' - 1 - lastKeyframe'
      BY <3>1, <3>2, <2>2, <1>2
    <3>4. ASSUME NEW i \in 1 .. Len(ahead') PROVE ahead'[i].frame = lastKeyframe' + i
      <4>1. i = Len(ahead) + 1 \/ i \in 1 .. Len(ahead)
        BY <3>1
      <4>2. CASE i = Len(ahead) + 1
        BY <4>2, <3>1, <3>2, <2>2, <1>2
      <4>3. CASE i \in 1 .. Len(ahead)
        BY <4>3, <3>1, <3>2, <1>2
      <4> QED BY <4>1, <4>2, <4>3
    <3> QED BY <3>3, <3>4 DEF Kept
  <2>9. Copied'
    <3>1. monoMap' = monoMap
      BY <1>4, MergedIsWhole DEF Between
    <3> QED BY <1>2, <1>4, <2>1, <2>8, <3>1 DEF MonoInv, Copied
  <2> QED BY <1>1, <2>5, <2>6, <2>7, <2>9 DEF MonoInv
<1> QED BY <1>3, <1>4

LEMMA MonoStep == MonoInv /\ Mono!Next => MonoInv'
BY FrameActs, FirstKeyframeInv, RefusedInv, SolvedInv, RestartedInv, UnsolvedInv, BetweenInv, EndTaskInv
   DEF Mono!Next

LEMMA MonoPromises ==
  MonoInv => Mono!MapIsWhole /\ Mono!UpdateNotLost /\ Mono!PoseInThisMap /\ Mono!NothingKeptInVain
<1> SUFFICES ASSUME MonoInv PROVE Mono!MapIsWhole /\ Mono!UpdateNotLost
  BY DEF MonoInv
<1>1. Mono!MapIsWhole
  <2>1. /\ monoMap.keys \in Seq(Nat) /\ DOMAIN monoMap.seen \in SUBSET Nat
        /\ \A t \in DOMAIN monoMap.last : monoMap.last[t] \in Nat
    BY MapTypes DEF MonoInv, Whole
  <2>2. DOMAIN monoMap.last = UNION {monoMap.seen[k] : k \in DOMAIN monoMap.seen}
    BY DEF MonoInv, Whole
  <2>3. \A i \in 2 .. Len(monoMap.keys) : monoMap.keys[i - 1] < monoMap.keys[i]
    <3> SUFFICES ASSUME NEW i \in 2 .. Len(monoMap.keys) PROVE monoMap.keys[i - 1] < monoMap.keys[i]
      OBVIOUS
    <3>1. Len(monoMap.keys) \in Nat
      BY <2>1
    <3>2. i - 1 \in 1 .. Len(monoMap.keys) /\ i \in 1 .. Len(monoMap.keys) /\ i - 1 < i
      BY <3>1
    <3> QED BY <3>2 DEF MonoInv, Whole, Ascends
  <2> QED BY <2>2, <2>3 DEF MonoInv, Whole, Begun, Mono!MapIsWhole
<1>2. Mono!UpdateNotLost
  <2> SUFFICES ASSUME monoTask # "none"
               PROVE  [i \in 1 .. Len(ahead) |-> ahead[i].frame] =
                        [i \in 1 .. monoFrame - 1 - lastKeyframe |-> lastKeyframe + i]
    BY DEF MonoInv, Copied, Mono!UpdateNotLost
  <2>1. Kept
    BY DEF MonoInv, Copied
  <2> QED BY <2>1 DEF Kept
<1> QED BY <1>1, <1>2

-----------------------------------------------------------------------------
(* The map of several cameras                                              *)

Places == {"none", "triangulated", "undefined"}

\* All keyframes of a map but the newest
AllButNewest(keys) == {keys[i] : i \in 1 .. Len(keys) - 1}

KeyframesOf(keys) == keys \in Seq(1 .. added) /\ Ascends(keys) /\ Len(keys) <= MapCapacity

UnifiedTypes ==
  /\ service \in {"regular", "winsorizing", "inertial"}
  /\ added \in 0 .. MaxKeyframe /\ KeyframesOf(keyframes)
  /\ lists \in [Map!Keyframe -> [TrackId -> Map!Landmark \cup {Map!NoLandmark}]]
  /\ seenBy \in [TrackId -> SUBSET Map!Keyframe]
  /\ position \in [Map!Landmark -> Places]

\* What a checkpoint holds can be loaded.
SavedIsWhole ==
  saved # <<>> =>
    /\ KeyframesOf(saved[1].keyframes)
    /\ saved[1].integrated = AllButNewest(saved[1].keyframes)
    /\ saved[1].tracks \in [Map!Keyframe -> SUBSET TrackId]
    /\ saved[1].position \in [TrackId -> Places]
    /\ service = "regular" => \A t \in TrackId : saved[1].position[t] # "undefined"

\* The landmarks of a task of the regular service have positions, and keep them.
RegularTask ==
  service = "regular" =>
    /\ task.step \in {"idle", "count", "observe", "solve"}
    /\ task.step # "idle" =>
         /\ task.round = 1 /\ task.landmarks \subseteq Map!Landmark
         /\ \A l \in task.landmarks : position[l] # "none"
    /\ task.step \in {"observe", "solve"} =>
         task = [step |-> task.step, round |-> 1, last |-> task.last, landmarks |-> task.landmarks,
                 fused |-> task.fused, points |-> task.landmarks, undefined |-> {}]
    /\ \A l \in Map!Landmark : position[l] # "undefined"

UnifiedInv ==
  /\ UnifiedTypes /\ SavedIsWhole /\ RegularTask
  /\ Map!IndexesAgree /\ Map!OneLandmarkPerTrack /\ Map!LastNotIntegrated

LEMMA ElementsDecide ==
  ASSUME NEW S, NEW T, NEW s \in Seq(S), \A i \in 1 .. Len(s) : s[i] \in T
  PROVE  s \in Seq(T)
OBVIOUS

LEMMA LandmarksAreSomething == Map!NoLandmark \notin Map!Landmark
BY DEF Map!NoLandmark, Map!Landmark

LEMMA AppendedKeys ==
  ASSUME NEW s \in Seq(Nat), Ascends(s), NEW k \in Nat, \A i \in 1 .. Len(s) : s[i] < k
  PROVE  /\ Append(s, k) \in Seq(Nat) /\ Ascends(Append(s, k)) /\ Len(Append(s, k)) = Len(s) + 1
         /\ Map!Elements(Append(s, k)) = Map!Elements(s) \cup {k}
         /\ AllButNewest(Append(s, k)) = Map!Elements(s)
         /\ Append(s, k)[1] = IF s = <<>> THEN k ELSE s[1]
<1>1. /\ Append(s, k) \in Seq(Nat) /\ Len(Append(s, k)) = Len(s) + 1 /\ Len(s) \in Nat
      /\ \A i \in 1 .. Len(s) : Append(s, k)[i] = s[i] /\ s[i] \in Nat
      /\ Append(s, k)[Len(s) + 1] = k
  OBVIOUS
<1> DEFINE a == Append(s, k)
<1>2. DOMAIN a = 1 .. Len(s) + 1 /\ DOMAIN s = 1 .. Len(s) /\ (s = <<>> <=> Len(s) = 0)
  BY <1>1
<1> HIDE DEF a
<1>3. /\ Len(a) = Len(s) + 1 /\ \A i \in 1 .. Len(s) : a[i] = s[i] /\ s[i] \in Nat
      /\ a[Len(s) + 1] = k
  BY <1>1 DEF a
<1>4. 1 .. Len(s) + 1 = 1 .. Len(s) \cup {Len(s) + 1}
  BY <1>1
<1>5. Map!Elements(a) = Map!Elements(s) \cup {k}
  BY <1>2, <1>3, <1>4 DEF Map!Elements
<1>6. AllButNewest(a) = Map!Elements(s)
  <2>1. Len(a) - 1 = Len(s)
    BY <1>1, <1>3
  <2> QED BY <2>1, <1>2, <1>3 DEF AllButNewest, Map!Elements
<1>7. Ascends(a)
  <2> SUFFICES ASSUME NEW i \in 1 .. Len(s) + 1, NEW j \in 1 .. Len(s) + 1, i < j
               PROVE  a[i] < a[j]
    BY <1>3 DEF Ascends
  <2>1. i \in 1 .. Len(s)
    BY <1>1
  <2>2. j \in 1 .. Len(s) \/ j = Len(s) + 1
    BY <1>1
  <2> QED BY <2>1, <2>2, <1>3 DEF Ascends
<1>8. a[1] = IF s = <<>> THEN k ELSE s[1]
  <2>1. CASE Len(s) = 0
    BY <2>1, <1>2, <1>3
  <2>2. CASE Len(s) # 0
    <3>1. 1 \in 1 .. Len(s)
      BY <2>2, <1>1
    <3> QED BY <3>1, <2>2, <1>2, <1>3
  <2> QED BY <2>1, <2>2
<1> QED BY <1>1, <1>5, <1>6, <1>7, <1>8 DEF a

LEMMA RestOfKeys ==
  ASSUME NEW s \in Seq(Nat), Ascends(s), s # <<>>
  PROVE  /\ Tail(s) \in Seq(Nat) /\ Ascends(Tail(s)) /\ Len(Tail(s)) = Len(s) - 1
         /\ Map!Elements(Tail(s)) = Map!Elements(s) \ {s[1]}
         /\ AllButNewest(Tail(s)) = AllButNewest(s) \ {s[1]}
<1>1. /\ Tail(s) \in Seq(Nat) /\ Len(Tail(s)) = Len(s) - 1 /\ Len(s) \in Nat \ {0}
      /\ \A i \in 1 .. Len(s) - 1 : Tail(s)[i] = s[i + 1]
      /\ \A i \in 1 .. Len(s) : s[i] \in Nat
  OBVIOUS
<1> DEFINE r == Tail(s)
<1>2. DOMAIN r = 1 .. Len(s) - 1 /\ DOMAIN s = 1 .. Len(s)
  BY <1>1
<1> HIDE DEF r
<1>3. Len(r) = Len(s) - 1 /\ \A i \in 1 .. Len(s) - 1 : r[i] = s[i + 1]
  BY <1>1 DEF r
<1>4. Ascends(r)
  <2> SUFFICES ASSUME NEW i \in 1 .. Len(s) - 1, NEW j \in 1 .. Len(s) - 1, i < j
               PROVE  r[i] < r[j]
    BY <1>3 DEF Ascends
  <2>1. i + 1 \in 1 .. Len(s) /\ j + 1 \in 1 .. Len(s) /\ i + 1 < j + 1
    BY <1>1
  <2> QED BY <2>1, <1>3 DEF Ascends
<1>5. \A i \in 2 .. Len(s) : s[i] # s[1] /\ i - 1 \in 1 .. Len(s) - 1 /\ r[i - 1] = s[i]
  <2> SUFFICES ASSUME NEW i \in 2 .. Len(s)
               PROVE  s[i] # s[1] /\ i - 1 \in 1 .. Len(s) - 1 /\ r[i - 1] = s[i]
    OBVIOUS
  <2>1. 1 \in 1 .. Len(s) /\ i \in 1 .. Len(s) /\ 1 < i /\ i - 1 \in 1 .. Len(s) - 1 /\ (i - 1) + 1 = i
    BY <1>1
  <2>2. s[1] < s[i]
    BY <2>1 DEF Ascends
  <2> QED BY <2>1, <2>2, <1>1, <1>3
<1>6. \A i \in 1 .. Len(s) - 1 : i + 1 \in 2 .. Len(s)
  BY <1>1
<1>7. Map!Elements(r) = Map!Elements(s) \ {s[1]}
  <2>1. Map!Elements(r) = {r[i] : i \in 1 .. Len(s) - 1} /\ Map!Elements(s) = {s[i] : i \in 1 .. Len(s)}
    BY <1>2 DEF Map!Elements
  <2>2. 1 .. Len(s) = 2 .. Len(s) \cup {1}
    BY <1>1
  <2>3. {r[i] : i \in 1 .. Len(s) - 1} = {s[i] : i \in 2 .. Len(s)}
    <3>1. ASSUME NEW i \in 1 .. Len(s) - 1 PROVE r[i] \in {s[j] : j \in 2 .. Len(s)}
      BY <1>3, <1>6
    <3>2. ASSUME NEW i \in 2 .. Len(s) PROVE s[i] \in {r[j] : j \in 1 .. Len(s) - 1}
      BY <1>5
    <3> QED BY <3>1, <3>2
  <2>4. s[1] \notin {s[i] : i \in 2 .. Len(s)}
    BY <1>5
  <2>5. {s[i] : i \in 1 .. Len(s)} = {s[i] : i \in 2 .. Len(s)} \cup {s[1]}
    BY <2>2
  <2> QED BY <2>1, <2>3, <2>4, <2>5
<1>8. AllButNewest(r) = AllButNewest(s) \ {s[1]}
  <2>1. AllButNewest(r) = {r[i] : i \in 1 .. Len(s) - 2} /\ AllButNewest(s) = {s[i] : i \in 1 .. Len(s) - 1}
    BY <1>1, <1>3 DEF AllButNewest
  <2>2. \A i \in 1 .. Len(s) - 2 : i + 1 \in 2 .. Len(s) - 1 /\ i \in 1 .. Len(s) - 1
    BY <1>1
  <2>3. \A i \in 2 .. Len(s) - 1 : i - 1 \in 1 .. Len(s) - 2 /\ i \in 2 .. Len(s)
    BY <1>1
  <2>4. {r[i] : i \in 1 .. Len(s) - 2} = {s[i] : i \in 2 .. Len(s) - 1}
    <3>1. ASSUME NEW i \in 1 .. Len(s) - 2 PROVE r[i] \in {s[j] : j \in 2 .. Len(s) - 1}
      BY <1>3, <2>2
    <3>2. ASSUME NEW i \in 2 .. Len(s) - 1 PROVE s[i] \in {r[j] : j \in 1 .. Len(s) - 2}
      BY <1>5, <2>3
    <3> QED BY <3>1, <3>2
  <2>5. 1 .. Len(s) - 1 = (2 .. Len(s) - 1) \cup (IF Len(s) = 1 THEN {} ELSE {1})
    BY <1>1
  <2>6. {s[i] : i \in 2 .. Len(s) - 1} = {s[i] : i \in 1 .. Len(s) - 1} \ {s[1]}
    <3>1. ASSUME NEW i \in 2 .. Len(s) - 1 PROVE s[i] \in {s[j] : j \in 1 .. Len(s) - 1} /\ s[i] # s[1]
      BY <2>3, <2>5, <1>5
    <3>2. ASSUME NEW i \in 1 .. Len(s) - 1, s[i] # s[1] PROVE s[i] \in {s[j] : j \in 2 .. Len(s) - 1}
      BY <2>5, <3>2
    <3> QED BY <3>1, <3>2
  <2> QED BY <2>1, <2>4, <2>6
<1> QED BY <1>1, <1>4, <1>7, <1>8 DEF r

LEMMA UnifiedInit == Map!Init => UnifiedInv
<1> SUFFICES ASSUME Map!Init PROVE UnifiedInv
  OBVIOUS
<1>1. /\ keyframes = <<>> /\ integrated = {} /\ lists = Map!NoLists /\ seenBy = Map!Nobody
      /\ position = [l \in Map!Landmark |-> "none"] /\ added = 0 /\ saved = <<>>
      /\ task = [step |-> "idle"] /\ service \in {"regular", "winsorizing", "inertial"}
  BY DEF Map!Init, Map!NoTask
<1>2. KeyframesOf(keyframes) /\ Len(keyframes) = 0
  <2>1. <<>> \in Seq(1 .. 0) /\ Len(<<>>) = 0
    OBVIOUS
  <2> QED BY <1>1, <2>1, ProvedPartsAssumption DEF KeyframesOf, Ascends
<1>3. UnifiedTypes
  <2>1. lists \in [Map!Keyframe -> [TrackId -> Map!Landmark \cup {Map!NoLandmark}]]
    BY <1>1 DEF Map!NoLists
  <2>2. seenBy \in [TrackId -> SUBSET Map!Keyframe]
    BY <1>1 DEF Map!Nobody
  <2>3. position \in [Map!Landmark -> Places]
    BY <1>1 DEF Places
  <2>4. added \in 0 .. MaxKeyframe
    BY <1>1, ProvedPartsAssumption
  <2> QED BY <1>1, <1>2, <2>1, <2>2, <2>3, <2>4 DEF UnifiedTypes
<1>4. SavedIsWhole /\ RegularTask
  BY <1>1 DEF SavedIsWhole, RegularTask
<1>5. Map!IndexesAgree /\ Map!OneLandmarkPerTrack
  BY <1>1 DEF Map!IndexesAgree, Map!OneLandmarkPerTrack, Map!Nobody, Map!NoLists
<1>6. Map!LastNotIntegrated
  BY <1>1, <1>2 DEF Map!LastNotIntegrated
<1> QED BY <1>3, <1>4, <1>5, <1>6 DEF UnifiedInv

\* A track's landmark is that of any keyframe that sees it.
LEMMA LandmarkOfTrack ==
  ASSUME UnifiedInv, NEW t \in TrackId, NEW k \in Map!Keyframe
  PROVE  /\ Map!LandmarkOf(t, k) \in Map!Landmark
         /\ \A j \in seenBy[t] : lists[j][t] = Map!LandmarkOf(t, k)
<1>1. CASE seenBy[t] = {}
  <2>1. <<t, k>> \in Map!Landmark
    BY ProvedPartsAssumption DEF Map!Landmark, Map!Keyframe
  <2> QED BY <1>1, <2>1 DEF Map!LandmarkOf
<1>2. CASE seenBy[t] # {}
  <2> DEFINE j == CHOOSE i \in seenBy[t] : TRUE
  <2>1. j \in seenBy[t] /\ Map!LandmarkOf(t, k) = lists[j][t]
    BY <1>2 DEF Map!LandmarkOf
  <2> HIDE DEF j
  <2>2. j \in Map!Keyframe /\ lists[j][t] # Map!NoLandmark
    BY <2>1 DEF UnifiedInv, UnifiedTypes, Map!IndexesAgree
  <2>3. lists[j][t] \in Map!Landmark
    BY <2>2 DEF UnifiedInv, UnifiedTypes
  <2>4. \A i \in seenBy[t] : lists[i][t] = lists[j][t]
    BY <2>1 DEF UnifiedInv, Map!OneLandmarkPerTrack
  <2> QED BY <2>1, <2>3, <2>4
<1> QED BY <1>1, <1>2

\* Adding a keyframe: the new keyframe, its list of landmarks and the keyframe that leaves
NewList(observed, k) ==
  [t \in TrackId |-> IF t \in observed THEN Map!LandmarkOf(t, k) ELSE Map!NoLandmark]

NewSeen(observed, k) ==
  [t \in TrackId |-> IF t \in observed THEN seenBy[t] \cup {k} ELSE seenBy[t]]

Adds(k, observed) ==
  /\ k = added + 1 /\ k \in Map!Keyframe /\ added' = k /\ UNCHANGED <<service, saved, task>>
  /\ \/ /\ Len(keyframes) # MapCapacity
        /\ keyframes' = Append(keyframes, k) /\ integrated' = Map!Preintegrated(k)
        /\ lists' = [lists EXCEPT ![k] = NewList(observed, k)]
        /\ seenBy' = NewSeen(observed, k)
     \/ /\ Len(keyframes) = MapCapacity
        /\ keyframes' = Tail(Append(keyframes, k))
        /\ integrated' = Map!Preintegrated(k) \ {Head(keyframes)}
        /\ lists' = [lists EXCEPT ![k] = NewList(observed, k),
                                  ![Head(keyframes)] = Map!NoLists[Head(keyframes)]]
        /\ seenBy' = Map!Unlisted(Head(keyframes), NewSeen(observed, k))

\* A landmark may get a position, and loses none.
PositionsStay ==
  /\ position' \in [Map!Landmark -> Places]
  /\ \A l \in Map!Landmark :
       position'[l] = position[l] \/ (position[l] = "none" /\ position'[l] = "triangulated")

LEMMA AddKeyframeAdds ==
  ASSUME UnifiedInv, Map!AddKeyframe
  PROVE  PositionsStay /\ \E observed \in SUBSET TrackId : Adds(added + 1, observed)
<1> DEFINE k == added + 1
<1>1. PICK observed \in SUBSET TrackId \ {{}}, triangulated \in SUBSET TrackId :
        LET full == Len(keyframes) = MapCapacity
            oldest == Head(keyframes)
            all == Append(keyframes, k)
            list == [t \in TrackId |-> IF t \in observed THEN Map!LandmarkOf(t, k) ELSE Map!NoLandmark]
            seeing == [t \in TrackId |-> IF t \in observed THEN seenBy[t] \cup {k} ELSE seenBy[t]]
        IN /\ triangulated \subseteq observed
           /\ added' = k
           /\ position' = [l \in Map!Landmark |->
                IF position[l] = "none" /\ \E t \in triangulated : l = Map!LandmarkOf(t, k)
                THEN "triangulated" ELSE position[l]]
           /\ keyframes' = IF full THEN Tail(all) ELSE all
           /\ integrated' = Map!Preintegrated(k) \ (IF full THEN {oldest} ELSE {})
           /\ lists' = [lists EXCEPT ![k] = list,
                                     ![IF full THEN oldest ELSE k] = IF full THEN Map!NoLists[oldest] ELSE list]
           /\ seenBy' = IF full THEN Map!Unlisted(oldest, seeing) ELSE seeing
  BY DEF Map!AddKeyframe
<1>2. PositionsStay
  <2>1. position' = [l \in Map!Landmark |->
          IF position[l] = "none" /\ \E t \in triangulated : l = Map!LandmarkOf(t, k)
          THEN "triangulated" ELSE position[l]]
    BY <1>1
  <2>2. position \in [Map!Landmark -> Places]
    BY DEF UnifiedInv, UnifiedTypes
  <2> QED BY <2>1, <2>2 DEF PositionsStay, Places
<1>3. k \in Map!Keyframe /\ UNCHANGED <<service, saved, task>>
  BY ProvedPartsAssumption DEF Map!AddKeyframe, UnifiedInv, UnifiedTypes, Map!Keyframe
<1>4. Adds(k, observed)
  <2> HIDE DEF k
  <2>1. CASE Len(keyframes) # MapCapacity
    <3>1. lists' = [lists EXCEPT ![k] = NewList(observed, k), ![k] = NewList(observed, k)]
      BY <1>1, <2>1 DEF NewList
    <3>2. lists' = [lists EXCEPT ![k] = NewList(observed, k)]
      BY <3>1
    <3>3. /\ keyframes' = Append(keyframes, k) /\ integrated' = Map!Preintegrated(k)
          /\ seenBy' = NewSeen(observed, k) /\ added' = k
      BY <1>1, <2>1 DEF NewSeen
    <3> QED BY <1>3, <2>1, <3>2, <3>3 DEF Adds, k
  <2>2. CASE Len(keyframes) = MapCapacity
    <3>1. /\ lists' = [lists EXCEPT ![k] = NewList(observed, k),
                                    ![Head(keyframes)] = Map!NoLists[Head(keyframes)]]
      BY <1>1, <2>2 DEF NewList
    <3>2. /\ keyframes' = Tail(Append(keyframes, k)) /\ added' = k
          /\ integrated' = Map!Preintegrated(k) \ {Head(keyframes)}
          /\ seenBy' = Map!Unlisted(Head(keyframes), NewSeen(observed, k))
      BY <1>1, <2>2 DEF NewSeen
    <3> QED BY <1>3, <2>2, <3>1, <3>2 DEF Adds, k
  <2> QED BY <2>1, <2>2
<1> QED BY <1>2, <1>4

LEMMA KeysAreAdded ==
  ASSUME UnifiedInv
  PROVE  /\ keyframes \in Seq(Nat) /\ Ascends(keyframes) /\ Len(keyframes) \in Nat
         /\ added \in Nat /\ \A i \in 1 .. Len(keyframes) : keyframes[i] \in 1 .. added
         /\ Map!Elements(keyframes) \subseteq Map!Keyframe
         /\ added + 1 \notin Map!Elements(keyframes)
<1>1. keyframes \in Seq(1 .. added) /\ added \in 0 .. MaxKeyframe /\ Ascends(keyframes)
  BY DEF UnifiedInv, UnifiedTypes, KeyframesOf
<1>2. \A i \in 1 .. Len(keyframes) : keyframes[i] \in 1 .. added
  BY <1>1
<1>3. Len(keyframes) \in Nat /\ DOMAIN keyframes = 1 .. Len(keyframes)
  BY <1>1
<1>4. \A i \in 1 .. added : i \in Map!Keyframe /\ i # added + 1 /\ i \in Nat
  BY <1>1, ProvedPartsAssumption DEF Map!Keyframe
<1>5. keyframes \in Seq(Nat)
  BY <1>1, <1>4
<1>6. added \in Nat
  BY <1>1
<1>7. Map!Elements(keyframes) \subseteq Map!Keyframe /\ added + 1 \notin Map!Elements(keyframes)
  BY <1>2, <1>3, <1>4 DEF Map!Elements
<1> QED BY <1>1, <1>2, <1>3, <1>5, <1>6, <1>7

\* The keyframe before the new one gets its preintegration.
LEMMA AllIntegrated ==
  ASSUME UnifiedInv, NEW k
  PROVE  Map!Preintegrated(k) = Map!Elements(keyframes)
<1>1. keyframes \in Seq(Nat) /\ Len(keyframes) \in Nat /\ DOMAIN keyframes = 1 .. Len(keyframes)
  BY KeysAreAdded
<1>2. integrated = {keyframes[i] : i \in 1 .. Len(keyframes) - 1}
  BY DEF UnifiedInv, Map!LastNotIntegrated
<1>3. CASE keyframes = <<>>
  BY <1>3 DEF Map!Preintegrated, Map!Elements
<1>4. CASE keyframes # <<>>
  <2>1. Len(keyframes) \in Nat \ {0}
    BY <1>1, <1>4
  <2>2. 1 .. Len(keyframes) = 1 .. Len(keyframes) - 1 \cup {Len(keyframes)}
    BY <2>1
  <2>3. Map!Preintegrated(k) = {keyframes[i] : i \in 1 .. Len(keyframes) - 1} \cup {keyframes[Len(keyframes)]}
    BY <1>2, <1>4 DEF Map!Preintegrated, Map!Newest
  <2> QED BY <1>1, <2>2, <2>3 DEF Map!Elements
<1> QED BY <1>3, <1>4

LEMMA AddsIndexes ==
  ASSUME UnifiedInv, NEW observed \in SUBSET TrackId, Adds(added + 1, observed)
  PROVE  /\ KeyframesOf(keyframes)' /\ Map!LastNotIntegrated' /\ Map!IndexesAgree' /\ Map!OneLandmarkPerTrack'
         /\ lists' \in [Map!Keyframe -> [TrackId -> Map!Landmark \cup {Map!NoLandmark}]]
         /\ seenBy' \in [TrackId -> SUBSET Map!Keyframe]
<1> DEFINE k == added + 1
           all == Append(keyframes, k)
<1>1. /\ keyframes \in Seq(Nat) /\ Ascends(keyframes) /\ Len(keyframes) \in Nat /\ added \in Nat
      /\ \A i \in 1 .. Len(keyframes) : keyframes[i] \in 1 .. added
      /\ Map!Elements(keyframes) \subseteq Map!Keyframe /\ k \notin Map!Elements(keyframes)
  BY KeysAreAdded
<1>2. k \in Map!Keyframe /\ added' = k /\ k \in Nat /\ \A i \in 1 .. Len(keyframes) : keyframes[i] < k
  BY <1>1 DEF Adds
<1> HIDE DEF k
<1>3. /\ all \in Seq(Nat) /\ Ascends(all) /\ Len(all) = Len(keyframes) + 1
      /\ Map!Elements(all) = Map!Elements(keyframes) \cup {k}
      /\ AllButNewest(all) = Map!Elements(keyframes)
      /\ all[1] = IF keyframes = <<>> THEN k ELSE keyframes[1]
  BY <1>1, <1>2, AppendedKeys
<1>4. all \in Seq(1 .. k)
  <2>1. \A i \in 1 .. Len(keyframes) : keyframes[i] \in 1 .. k
    BY <1>1, <1>2
  <2>2. keyframes \in Seq(1 .. k)
    BY <1>1, <2>1, ElementsDecide
  <2>3. k \in 1 .. k
    BY <1>1, <1>2 DEF k
  <2> QED BY <2>2, <2>3
<1>5. Map!Preintegrated(k) = Map!Elements(keyframes)
  BY AllIntegrated
<1>6. NewList(observed, k) \in [TrackId -> Map!Landmark \cup {Map!NoLandmark}]
  BY <1>2, LandmarkOfTrack DEF NewList
<1>7. NewSeen(observed, k) \in [TrackId -> SUBSET Map!Keyframe]
  BY <1>2 DEF NewSeen, UnifiedInv, UnifiedTypes
<1>8. /\ lists \in [Map!Keyframe -> [TrackId -> Map!Landmark \cup {Map!NoLandmark}]]
      /\ seenBy \in [TrackId -> SUBSET Map!Keyframe]
      /\ \A j \in Map!Keyframe, t \in TrackId :
           j \in seenBy[t] <=> j \in Map!Elements(keyframes) /\ lists[j][t] # Map!NoLandmark
      /\ \A t \in TrackId : \A i, j \in seenBy[t] : lists[i][t] = lists[j][t]
  BY DEF UnifiedInv, UnifiedTypes, Map!IndexesAgree, Map!OneLandmarkPerTrack
\* Both indexes with the new keyframe, before the oldest one leaves
<1> DEFINE listed == [lists EXCEPT ![k] = NewList(observed, k)]
           seeing == NewSeen(observed, k)
<1>9. listed \in [Map!Keyframe -> [TrackId -> Map!Landmark \cup {Map!NoLandmark}]]
  BY <1>2, <1>6, <1>8
<1>10. ASSUME NEW j \in Map!Keyframe, NEW t \in TrackId
       PROVE  j \in seeing[t] <=> j \in Map!Elements(all) /\ listed[j][t] # Map!NoLandmark
  <2>1. CASE j = k
    <3>1. j \in seeing[t] <=> t \in observed
      BY <2>1, <1>1, <1>8 DEF NewSeen
    <3>2. listed[j][t] = IF t \in observed THEN Map!LandmarkOf(t, k) ELSE Map!NoLandmark
      BY <2>1, <1>2, <1>8 DEF NewList
    <3>3. Map!LandmarkOf(t, k) # Map!NoLandmark
      BY <1>2, LandmarkOfTrack, LandmarksAreSomething
    <3> QED BY <2>1, <3>1, <3>2, <3>3, <1>3
  <2>2. CASE j # k
    <3>1. j \in seeing[t] <=> j \in seenBy[t]
      BY <2>2 DEF NewSeen
    <3>2. listed[j][t] = lists[j][t]
      BY <2>2, <1>8
    <3> QED BY <2>2, <3>1, <3>2, <1>3, <1>8
  <2> QED BY <2>1, <2>2
<1>11. ASSUME NEW t \in TrackId, NEW i \in seeing[t]
       PROVE  listed[i][t] = Map!LandmarkOf(t, k)
  <2>1. CASE i = k
    <3>1. i \in Map!Elements(all) /\ listed[i][t] # Map!NoLandmark
      BY <1>10, <2>1, <1>2
    <3> QED BY <2>1, <3>1, <1>2, <1>8 DEF NewList
  <2>2. CASE i # k
    <3>1. i \in seenBy[t]
      BY <2>2 DEF NewSeen
    <3>2. listed[i][t] = lists[i][t]
      BY <2>2, <3>1, <1>8
    <3> QED BY <3>1, <3>2, <1>2, LandmarkOfTrack
  <2> QED BY <2>1, <2>2
<1> HIDE DEF listed, seeing, all
<1>12. CASE Len(keyframes) # MapCapacity
  <2>1. keyframes' = all /\ integrated' = Map!Elements(keyframes) /\ lists' = listed /\ seenBy' = seeing
    BY <1>12, <1>5 DEF Adds, k, listed, seeing, all
  <2>2. KeyframesOf(keyframes)'
    <3>1. Len(keyframes) <= MapCapacity
      BY DEF UnifiedInv, UnifiedTypes, KeyframesOf
    <3> QED BY <2>1, <1>1, <1>2, <1>3, <1>4, <1>12, <3>1, ProvedPartsAssumption DEF KeyframesOf, Ascends
  <2>3. Map!LastNotIntegrated'
    BY <2>1, <1>3 DEF Map!LastNotIntegrated, AllButNewest
  <2>4. Map!IndexesAgree'
    BY <2>1, <1>10 DEF Map!IndexesAgree, Map!Elements, Map!NoLandmark
  <2>5. Map!OneLandmarkPerTrack'
    BY <2>1, <1>11 DEF Map!OneLandmarkPerTrack
  <2> QED BY <2>1, <2>2, <2>3, <2>4, <2>5, <1>7, <1>9 DEF seeing
<1>13. CASE Len(keyframes) = MapCapacity
  <2> DEFINE oldest == Head(keyframes)
  <2>1. /\ keyframes # <<>> /\ oldest = keyframes[1] /\ all[1] = oldest /\ all # <<>>
        /\ oldest \in Map!Elements(keyframes)
    <3>1. Len(keyframes) \in Nat \ {0} /\ Len(all) # 0
      BY <1>13, <1>1, <1>3, ProvedPartsAssumption
    <3>2. keyframes # <<>> /\ all # <<>> /\ oldest = keyframes[1]
      BY <3>1, <1>1, <1>3
    <3>3. DOMAIN keyframes = 1 .. Len(keyframes) /\ 1 \in 1 .. Len(keyframes)
      BY <3>1, <1>1
    <3> QED BY <3>2, <3>3, <1>3 DEF Map!Elements
  <2>2. /\ keyframes' = Tail(all) /\ integrated' = Map!Elements(keyframes) \ {oldest}
        /\ lists' = [listed EXCEPT ![oldest] = Map!NoLists[oldest]]
        /\ seenBy' = Map!Unlisted(oldest, seeing)
    BY <1>13, <1>5 DEF Adds, k, listed, seeing, all
  <2>3. oldest \in Map!Keyframe /\ oldest # k
    BY <2>1, <1>1
  <2> HIDE DEF oldest
  <2>4. /\ Tail(all) \in Seq(Nat) /\ Ascends(Tail(all)) /\ Len(Tail(all)) = Len(all) - 1
        /\ Map!Elements(Tail(all)) = Map!Elements(all) \ {oldest}
        /\ AllButNewest(Tail(all)) = AllButNewest(all) \ {oldest}
    BY <1>3, <2>1, RestOfKeys
  <2>5. KeyframesOf(keyframes)'
    <3>1. Tail(all) \in Seq(1 .. k)
      BY <1>4, <2>1
    <3>2. Len(Tail(all)) = MapCapacity
      BY <2>4, <1>3, <1>13, <1>1
    <3> QED BY <2>2, <2>4, <1>2, <3>1, <3>2, ProvedPartsAssumption DEF KeyframesOf, Ascends
  <2>6. Map!LastNotIntegrated'
    <3>1. integrated' = AllButNewest(keyframes')
      BY <2>2, <2>4, <1>3
    <3> QED BY <3>1 DEF Map!LastNotIntegrated, AllButNewest
  <2>7. Map!NoLists[oldest] = [t \in TrackId |-> Map!NoLandmark]
    BY <2>3 DEF Map!NoLists
  <2>8. lists' \in [Map!Keyframe -> [TrackId -> Map!Landmark \cup {Map!NoLandmark}]]
    BY <2>2, <2>3, <2>7, <1>9
  <2>9. ASSUME NEW j \in Map!Keyframe, NEW t \in TrackId
        PROVE  /\ lists'[j][t] = IF j = oldest THEN Map!NoLandmark ELSE listed[j][t]
               /\ j \in seenBy'[t] <=> j \in seeing[t] /\ j # oldest
    <3>1. lists'[j][t] = IF j = oldest THEN Map!NoLandmark ELSE listed[j][t]
      BY <2>2, <2>3, <2>7, <1>9
    <3>2. lists[oldest][t] = listed[oldest][t]
      BY <2>3, <1>8 DEF listed
    <3>3. oldest \in seeing[t] => listed[oldest][t] # Map!NoLandmark
      BY <2>3, <1>10
    <3>4. seenBy'[t] = IF lists[oldest][t] = Map!NoLandmark THEN seeing[t] ELSE seeing[t] \ {oldest}
      BY <2>2 DEF Map!Unlisted
    <3> QED BY <3>1, <3>2, <3>3, <3>4
  <2>10. seenBy' \in [TrackId -> SUBSET Map!Keyframe]
    <3>1. seeing \in [TrackId -> SUBSET Map!Keyframe]
      BY <1>7 DEF seeing
    <3> QED BY <2>2, <3>1 DEF Map!Unlisted
  <2>11. Map!IndexesAgree'
    <3> SUFFICES ASSUME NEW j \in Map!Keyframe, NEW t \in TrackId
                 PROVE  j \in seenBy'[t] <=> j \in Map!Elements(keyframes') /\ lists'[j][t] # Map!NoLandmark
      BY DEF Map!IndexesAgree, Map!Elements, Map!NoLandmark
    <3> QED BY <2>2, <2>4, <2>9, <1>10
  <2>12. Map!OneLandmarkPerTrack'
    <3> SUFFICES ASSUME NEW t \in TrackId, NEW i \in seenBy'[t], NEW j \in seenBy'[t]
                 PROVE  lists'[i][t] = lists'[j][t]
      BY DEF Map!OneLandmarkPerTrack
    <3>1. i \in Map!Keyframe /\ j \in Map!Keyframe
      BY <2>10
    <3> QED BY <3>1, <2>9, <1>11
  <2> QED BY <2>5, <2>6, <2>8, <2>10, <2>11, <2>12
<1> QED BY <1>12, <1>13

\* Keyframes stay those that were added when more are.
LEMMA MoreAdded ==
  ASSUME NEW keys, KeyframesOf(keys), added \in Nat, added' \in Nat, added <= added'
  PROVE  keys \in Seq(1 .. added')
<1>1. keys \in Seq(1 .. added)
  BY DEF KeyframesOf
<1>2. \A i \in 1 .. added : i \in 1 .. added'
  OBVIOUS
<1> QED BY <1>1, <1>2

LEMMA AddKeyframeInv == UnifiedInv /\ Map!AddKeyframe => UnifiedInv'
<1> SUFFICES ASSUME UnifiedInv, Map!AddKeyframe PROVE UnifiedInv'
  OBVIOUS
<1>1. PositionsStay
  BY AddKeyframeAdds
<1>2. PICK observed \in SUBSET TrackId : Adds(added + 1, observed)
  BY AddKeyframeAdds
<1>3. /\ KeyframesOf(keyframes)' /\ Map!LastNotIntegrated' /\ Map!IndexesAgree' /\ Map!OneLandmarkPerTrack'
      /\ lists' \in [Map!Keyframe -> [TrackId -> Map!Landmark \cup {Map!NoLandmark}]]
      /\ seenBy' \in [TrackId -> SUBSET Map!Keyframe]
  BY <1>2, AddsIndexes
<1>4. added' = added + 1 /\ added' \in Map!Keyframe /\ UNCHANGED <<service, saved, task>>
  BY <1>2 DEF Adds
<1>5. added \in Nat /\ added' \in Nat /\ added <= added' /\ added' \in 0 .. MaxKeyframe
  BY <1>4, KeysAreAdded, ProvedPartsAssumption DEF Map!Keyframe
<1>6. UnifiedTypes'
  <2>1. (Map!Landmark)' = Map!Landmark /\ (Map!Keyframe)' = Map!Keyframe /\ (Map!NoLandmark)' = Map!NoLandmark
    BY DEF Map!Landmark, Map!Keyframe, Map!NoLandmark
  <2>2. service' \in {"regular", "winsorizing", "inertial"} /\ position' \in [Map!Landmark -> Places]
    BY <1>1, <1>4 DEF PositionsStay, UnifiedInv, UnifiedTypes
  <2> QED BY <1>3, <1>5, <2>1, <2>2 DEF UnifiedTypes
<1>7. SavedIsWhole'
  <2> SUFFICES ASSUME saved # <<>> PROVE KeyframesOf(saved[1].keyframes)'
    BY <1>4 DEF UnifiedInv, SavedIsWhole, AllButNewest, Map!Keyframe
  <2>1. KeyframesOf(saved[1].keyframes)
    BY DEF UnifiedInv, SavedIsWhole
  <2>2. saved[1].keyframes \in Seq(1 .. added')
    BY <2>1, <1>5, MoreAdded
  <2> QED BY <1>4, <2>1, <2>2 DEF KeyframesOf, Ascends
<1>8. RegularTask'
  BY <1>1, <1>4 DEF UnifiedInv, RegularTask, PositionsStay, Map!Landmark
<1> QED BY <1>3, <1>6, <1>7, <1>8 DEF UnifiedInv

\* Nothing changes in the map and its indexes.
LEMMA MapStays ==
  ASSUME UnifiedInv, UNCHANGED <<service, added, keyframes, integrated, lists, seenBy>>,
         position' \in [Map!Landmark -> Places], SavedIsWhole', RegularTask'
  PROVE  UnifiedInv'
<1>1. (Map!Landmark)' = Map!Landmark /\ (Map!Keyframe)' = Map!Keyframe /\ (Map!NoLandmark)' = Map!NoLandmark
  BY DEF Map!Landmark, Map!Keyframe, Map!NoLandmark
<1>2. UnifiedTypes'
  BY <1>1 DEF UnifiedInv, UnifiedTypes, KeyframesOf, Ascends
<1>3. Map!IndexesAgree' /\ Map!OneLandmarkPerTrack' /\ Map!LastNotIntegrated'
  BY DEF UnifiedInv, Map!IndexesAgree, Map!OneLandmarkPerTrack, Map!LastNotIntegrated, Map!Elements,
     Map!Keyframe, Map!NoLandmark
<1> QED BY <1>2, <1>3 DEF UnifiedInv

LEMMA SavedStays ==
  ASSUME UnifiedInv, UNCHANGED <<service, added, saved>>
  PROVE  SavedIsWhole'
BY DEF UnifiedInv, SavedIsWhole, KeyframesOf, Ascends, AllButNewest, Map!Keyframe

LEMMA UnifiedStutters ==
  UnifiedInv /\ UNCHANGED <<service, keyframes, integrated, lists, seenBy, position, added, saved, task>>
    => UnifiedInv'
<1> SUFFICES ASSUME UnifiedInv,
                    UNCHANGED <<service, keyframes, integrated, lists, seenBy, position, added, saved, task>>
             PROVE  UnifiedInv'
  OBVIOUS
<1>1. position' \in [Map!Landmark -> Places]
  BY DEF UnifiedInv, UnifiedTypes
<1>2. RegularTask'
  BY DEF UnifiedInv, RegularTask, Map!Landmark
<1> QED BY <1>1, <1>2, SavedStays, MapStays

LEMMA SetGravityInv == UnifiedInv /\ Map!SetGravity => UnifiedInv'
BY UnifiedStutters DEF Map!SetGravity

LEMMA ClearInv == UnifiedInv /\ Map!Clear => UnifiedInv'
<1> SUFFICES ASSUME UnifiedInv, Map!Clear PROVE UnifiedInv'
  OBVIOUS
<1>1. /\ keyframes' = <<>> /\ integrated' = {} /\ lists' = Map!NoLists /\ seenBy' = Map!Nobody
      /\ UNCHANGED <<service, position, added, saved, task>>
  BY DEF Map!Clear
<1>2. (Map!Landmark)' = Map!Landmark /\ (Map!Keyframe)' = Map!Keyframe /\ (Map!NoLandmark)' = Map!NoLandmark
  BY DEF Map!Landmark, Map!Keyframe, Map!NoLandmark
<1>3. <<>> \in Seq(1 .. added) /\ Len(<<>>) = 0
  OBVIOUS
<1>4. UnifiedTypes'
  <2>1. KeyframesOf(keyframes)'
    BY <1>1, <1>3, ProvedPartsAssumption DEF KeyframesOf, Ascends
  <2>2. lists' \in [Map!Keyframe -> [TrackId -> Map!Landmark \cup {Map!NoLandmark}]]
        /\ seenBy' \in [TrackId -> SUBSET Map!Keyframe]
    BY <1>1 DEF Map!NoLists, Map!Nobody
  <2> QED BY <1>1, <1>2, <2>1, <2>2 DEF UnifiedInv, UnifiedTypes
<1>5. Map!IndexesAgree' /\ Map!OneLandmarkPerTrack'
  BY <1>1 DEF Map!IndexesAgree, Map!OneLandmarkPerTrack, Map!Nobody, Map!NoLists, Map!Elements
<1>6. Map!LastNotIntegrated'
  BY <1>1, <1>3 DEF Map!LastNotIntegrated
<1>7. SavedIsWhole'
  BY <1>1, SavedStays
<1>8. RegularTask'
  BY <1>1, <1>2 DEF UnifiedInv, RegularTask
<1> QED BY <1>4, <1>5, <1>6, <1>7, <1>8 DEF UnifiedInv

LEMMA SaveStateInv == UnifiedInv /\ Map!SaveState => UnifiedInv'
<1> SUFFICES ASSUME UnifiedInv, Map!SaveState PROVE UnifiedInv'
  OBVIOUS
<1> DEFINE tracks == [k \in Map!Keyframe |-> {t \in TrackId : lists[k][t] # Map!NoLandmark}]
           places == [t \in TrackId |->
             IF seenBy[t] = {} THEN "none" ELSE position[lists[CHOOSE k \in seenBy[t] : TRUE][t]]]
<1>1. saved' = <<[keyframes |-> keyframes, integrated |-> integrated, gravity |-> gravity,
                  tracks |-> tracks, position |-> places]>>
      /\ UNCHANGED <<service, keyframes, integrated, lists, seenBy, position, added, task>>
  BY DEF Map!SaveState, Map!map
<1>2. tracks \in [Map!Keyframe -> SUBSET TrackId]
  OBVIOUS
<1>3. ASSUME NEW t \in TrackId
      PROVE  places[t] \in Places /\ (service = "regular" => places[t] # "undefined")
  <2>1. CASE seenBy[t] = {}
    BY <2>1 DEF Places
  <2>2. CASE seenBy[t] # {}
    <3> DEFINE k == CHOOSE i \in seenBy[t] : TRUE
    <3>1. k \in seenBy[t] /\ places[t] = position[lists[k][t]]
      BY <2>2
    <3> HIDE DEF k, places
    <3>2. k \in Map!Keyframe /\ lists[k][t] # Map!NoLandmark
      BY <3>1 DEF UnifiedInv, UnifiedTypes, Map!IndexesAgree
    <3>3. lists[k][t] \in Map!Landmark
      BY <3>2 DEF UnifiedInv, UnifiedTypes
    <3> QED BY <3>1, <3>3 DEF UnifiedInv, UnifiedTypes, RegularTask
  <2> QED BY <2>1, <2>2
<1>4. places \in [TrackId -> Places]
  BY <1>3
<1> HIDE DEF tracks, places
<1>5. SavedIsWhole'
  <2>1. /\ saved'[1].keyframes = keyframes /\ saved'[1].integrated = integrated
        /\ saved'[1].tracks = tracks /\ saved'[1].position = places
    BY <1>1
  <2>2. KeyframesOf(keyframes)' /\ integrated = AllButNewest(keyframes)
    BY <1>1 DEF UnifiedInv, UnifiedTypes, KeyframesOf, Ascends, Map!LastNotIntegrated, AllButNewest
  <2> QED BY <1>1, <1>2, <1>3, <1>4, <2>1, <2>2 DEF SavedIsWhole, KeyframesOf, Ascends, AllButNewest, Map!Keyframe
<1>6. position' \in [Map!Landmark -> Places]
  BY <1>1 DEF UnifiedInv, UnifiedTypes
<1>7. RegularTask'
  BY <1>1 DEF UnifiedInv, RegularTask, Map!Landmark
<1> QED BY <1>1, <1>5, <1>6, <1>7, MapStays

LEMMA LoadStateInv == UnifiedInv /\ Map!LoadState => UnifiedInv'
<1> SUFFICES ASSUME UnifiedInv, Map!LoadState PROVE UnifiedInv'
  OBVIOUS
<1> DEFINE s == saved[1]
<1>1. /\ task = Map!NoTask /\ UNCHANGED <<service, added, saved, task>>
      /\ keyframes' = s.keyframes /\ integrated' = s.integrated
      /\ lists' = [k \in Map!Keyframe |-> [t \in TrackId |-> IF t \in s.tracks[k] THEN <<t, 0>> ELSE Map!NoLandmark]]
      /\ seenBy' = [t \in TrackId |-> {k \in Map!Elements(s.keyframes) : t \in s.tracks[k]}]
      /\ position' = [l \in Map!Landmark |-> IF l[2] = 0 THEN s.position[l[1]] ELSE "none"]
  BY DEF Map!LoadState
<1>2. /\ KeyframesOf(s.keyframes) /\ s.integrated = AllButNewest(s.keyframes)
      /\ s.tracks \in [Map!Keyframe -> SUBSET TrackId] /\ s.position \in [TrackId -> Places]
      /\ service = "regular" => \A t \in TrackId : s.position[t] # "undefined"
  BY DEF UnifiedInv, SavedIsWhole, Map!LoadState
<1> HIDE DEF s
<1>3. Map!Elements(s.keyframes) \subseteq Map!Keyframe
  <2>1. s.keyframes \in Seq(1 .. added) /\ added \in 0 .. MaxKeyframe
    BY <1>2 DEF KeyframesOf, UnifiedInv, UnifiedTypes
  <2>2. \A i \in DOMAIN s.keyframes : s.keyframes[i] \in 1 .. added
    BY <2>1
  <2> QED BY <2>1, <2>2, ProvedPartsAssumption DEF Map!Elements, Map!Keyframe
<1>4. \A t \in TrackId : <<t, 0>> \in Map!Landmark /\ <<t, 0>> # Map!NoLandmark
  BY ProvedPartsAssumption DEF Map!Landmark, Map!NoLandmark
<1>5. \A l \in Map!Landmark : l[1] \in TrackId
  BY DEF Map!Landmark
<1>6. lists' \in [Map!Keyframe -> [TrackId -> Map!Landmark \cup {Map!NoLandmark}]]
  BY <1>1, <1>4
<1>7. seenBy' \in [TrackId -> SUBSET Map!Keyframe]
  BY <1>1, <1>3
<1>8. position' \in [Map!Landmark -> Places]
  BY <1>1, <1>2, <1>5 DEF Places
<1>9. UnifiedTypes'
  <2>1. (Map!Landmark)' = Map!Landmark /\ (Map!Keyframe)' = Map!Keyframe /\ (Map!NoLandmark)' = Map!NoLandmark
    BY DEF Map!Landmark, Map!Keyframe, Map!NoLandmark
  <2>2. KeyframesOf(keyframes)'
    BY <1>1, <1>2 DEF KeyframesOf, Ascends
  <2> QED BY <1>1, <1>6, <1>7, <1>8, <2>1, <2>2 DEF UnifiedInv, UnifiedTypes
<1>10. Map!IndexesAgree'
  <2> SUFFICES ASSUME NEW k \in Map!Keyframe, NEW t \in TrackId
               PROVE  k \in seenBy'[t] <=> k \in Map!Elements(keyframes') /\ lists'[k][t] # Map!NoLandmark
    BY DEF Map!IndexesAgree, Map!Elements, Map!Keyframe, Map!NoLandmark
  <2>1. lists'[k][t] = IF t \in s.tracks[k] THEN <<t, 0>> ELSE Map!NoLandmark
    BY <1>1
  <2>2. k \in seenBy'[t] <=> k \in Map!Elements(keyframes') /\ t \in s.tracks[k]
    BY <1>1
  <2> QED BY <2>1, <2>2, <1>4
<1>11. Map!OneLandmarkPerTrack'
  <2> SUFFICES ASSUME NEW t \in TrackId, NEW j \in seenBy'[t], NEW k \in seenBy'[t]
               PROVE  lists'[j][t] = lists'[k][t]
    BY DEF Map!OneLandmarkPerTrack
  <2>1. j \in Map!Keyframe /\ k \in Map!Keyframe /\ t \in s.tracks[j] /\ t \in s.tracks[k]
    BY <1>1, <1>3
  <2> QED BY <2>1, <1>1
<1>12. Map!LastNotIntegrated'
  BY <1>1, <1>2 DEF Map!LastNotIntegrated, AllButNewest
<1>13. SavedIsWhole'
  BY <1>1, SavedStays
<1>14. RegularTask'
  <2>1. service = "regular" => \A l \in Map!Landmark : position'[l] # "undefined"
    BY <1>1, <1>2, <1>5
  <2> QED BY <1>1, <2>1 DEF RegularTask, Map!NoTask, Map!Landmark
<1> QED BY <1>9, <1>10, <1>11, <1>12, <1>13, <1>14 DEF UnifiedInv

\* A step of the task leaves the map alone.
LEMMA TaskActs ==
  ASSUME UnifiedInv, UNCHANGED <<service, Map!map, added, saved>>,
         position' \in [Map!Landmark -> Places], service = "regular" => RegularTask'
  PROVE  UnifiedInv'
<1>1. RegularTask'
  BY DEF RegularTask
<1>2. UNCHANGED <<service, added, keyframes, integrated, lists, seenBy, saved>>
  BY DEF Map!map
<1> QED BY <1>1, <1>2, SavedStays, MapStays

LEMMA TakeSubmapInv == UnifiedInv /\ Map!TakeSubmap => UnifiedInv'
<1> SUFFICES ASSUME UnifiedInv, Map!TakeSubmap PROVE UnifiedInv'
  OBVIOUS
<1> DEFINE first == IF Len(keyframes) > SubmapSize THEN Len(keyframes) - SubmapSize + 1 ELSE 1
           recent == {keyframes[i] : i \in first .. Len(keyframes)}
           landmarks == UNION {Map!Chosen(k) : k \in recent}
<1>1. /\ task' = [step |-> "count", round |-> 1, last |-> Map!Chosen(Map!Newest), landmarks |-> landmarks]
      /\ UNCHANGED <<service, Map!map, position, added, saved>>
  BY DEF Map!TakeSubmap, Map!map
<1>2. recent \subseteq Map!Keyframe
  <2>1. \A i \in first .. Len(keyframes) : i \in 1 .. Len(keyframes)
    BY KeysAreAdded, ProvedPartsAssumption
  <2>2. \A i \in 1 .. Len(keyframes) : keyframes[i] \in Map!Keyframe
    <3>1. added \in 0 .. MaxKeyframe
      BY DEF UnifiedInv, UnifiedTypes
    <3> QED BY <3>1, KeysAreAdded, ProvedPartsAssumption DEF Map!Keyframe
  <2> QED BY <2>1, <2>2
<1>3. position \in [Map!Landmark -> Places]
  BY DEF UnifiedInv, UnifiedTypes
<1> HIDE DEF recent, first
<1>4. ASSUME service = "regular" PROVE RegularTask'
  <2>1. ASSUME NEW l \in landmarks PROVE l \in Map!Landmark /\ position[l] # "none"
    <3>1. PICK k \in recent : l \in Map!Chosen(k)
      OBVIOUS
    <3>2. l \in Map!Listed(k) /\ position[l] # "none"
      BY <3>1, <1>4 DEF Map!Chosen
    <3>3. k \in Map!Keyframe
      BY <3>1, <1>2
    <3> QED BY <3>2, <3>3 DEF Map!Listed, UnifiedInv, UnifiedTypes
  <2>2. \A l \in Map!Landmark : position[l] # "undefined"
    BY <1>4 DEF UnifiedInv, RegularTask
  <2> HIDE DEF landmarks
  <2>3. task'.step = "count" /\ task'.round = 1 /\ task'.landmarks = landmarks
    BY <1>1
  <2>4. position' = position /\ (Map!Landmark)' = Map!Landmark
    BY <1>1 DEF Map!Landmark
  <2> QED BY <2>1, <2>2, <2>3, <2>4 DEF RegularTask
<1> QED BY <1>1, <1>3, <1>4, TaskActs

\* What a task of the regular service has in its hands
LEMMA RegularHas ==
  ASSUME UnifiedInv, service = "regular"
  PROVE  /\ task.step \in {"idle", "count", "observe", "solve"}
         /\ task.step # "idle" =>
              /\ task.round = 1 /\ task.landmarks \subseteq Map!Landmark
              /\ \A l \in task.landmarks : position[l] # "none"
         /\ task.step \in {"observe", "solve"} =>
              task = [step |-> task.step, round |-> 1, last |-> task.last, landmarks |-> task.landmarks,
                      fused |-> task.fused, points |-> task.landmarks, undefined |-> {}]
         /\ \A l \in Map!Landmark : position[l] # "undefined"
BY DEF UnifiedInv, RegularTask

LEMMA CountPointsInv == UnifiedInv /\ Map!CountPoints => UnifiedInv'
<1> SUFFICES ASSUME UnifiedInv, Map!CountPoints PROVE UnifiedInv'
  OBVIOUS
<1>1. UNCHANGED <<service, Map!map, position, added, saved>> /\ task.step = "count"
  BY DEF Map!CountPoints, Map!map
<1>2. position \in [Map!Landmark -> Places]
  BY DEF UnifiedInv, UnifiedTypes
<1>3. ASSUME service = "regular" PROVE RegularTask'
  <2>1. {l \in task.landmarks : position[l] # "none"} = task.landmarks
    BY <1>1, <1>3, RegularHas
  <2>2. Map!Fused = FALSE /\ task.round = 1
    BY <1>1, <1>3, RegularHas DEF Map!Fused
  <2>3. task' = [step |-> "observe", round |-> 1, last |-> task.last, landmarks |-> task.landmarks,
                 fused |-> FALSE, points |-> task.landmarks, undefined |-> {}]
    BY <2>1, <2>2 DEF Map!CountPoints
  <2>4. position' = position /\ (Map!Landmark)' = Map!Landmark
    BY <1>1 DEF Map!Landmark
  <2> QED BY <1>1, <1>3, <2>3, <2>4, RegularHas DEF RegularTask
<1> QED BY <1>1, <1>2, <1>3, TaskActs

LEMMA CollectObservationsInv == UnifiedInv /\ Map!CollectObservations => UnifiedInv'
<1> SUFFICES ASSUME UnifiedInv, Map!CollectObservations PROVE UnifiedInv'
  OBVIOUS
<1>1. UNCHANGED <<service, Map!map, position, added, saved>> /\ task.step = "observe"
  BY DEF Map!CollectObservations, Map!map
<1>2. position \in [Map!Landmark -> Places]
  BY DEF UnifiedInv, UnifiedTypes
<1>3. ASSUME service = "regular" PROVE RegularTask'
  <2>1. task = [step |-> "observe", round |-> 1, last |-> task.last, landmarks |-> task.landmarks,
                fused |-> task.fused, points |-> task.landmarks, undefined |-> {}]
    BY <1>1, <1>3, RegularHas
  <2>2. {l \in task.landmarks : position[l] # "none"} \subseteq task.points
    BY <2>1
  <2>3. task' = [task EXCEPT !.step = "solve"]
    BY <2>2 DEF Map!CollectObservations
  <2>4. task' = [step |-> "solve", round |-> 1, last |-> task.last, landmarks |-> task.landmarks,
                 fused |-> task.fused, points |-> task.landmarks, undefined |-> {}]
    BY <2>1, <2>3
  <2>5. position' = position /\ (Map!Landmark)' = Map!Landmark
    BY <1>1 DEF Map!Landmark
  <2> QED BY <1>1, <1>3, <2>4, <2>5, RegularHas DEF RegularTask
<1> QED BY <1>1, <1>2, <1>3, TaskActs

LEMMA WriteBackInv == UnifiedInv /\ Map!WriteBack => UnifiedInv'
<1> SUFFICES ASSUME UnifiedInv, Map!WriteBack PROVE UnifiedInv'
  OBVIOUS
<1>1. UNCHANGED <<service, Map!map, added, saved>> /\ task.step = "solve" /\ task' = Map!AfterSolving
  BY DEF Map!WriteBack, Map!map
<1>2. \/ position' = [l \in Map!Landmark |-> IF l \in task.undefined THEN "undefined"
                        ELSE IF l \in task.points /\ position[l] = "none" THEN "triangulated"
                        ELSE position[l]]
      \/ position' = position
  BY DEF Map!WriteBack
<1>3. position \in [Map!Landmark -> Places]
  BY DEF UnifiedInv, UnifiedTypes
<1>4. position' \in [Map!Landmark -> Places]
  BY <1>2, <1>3 DEF Places
<1>5. ASSUME service = "regular" PROVE RegularTask'
  <2>1. task.undefined = {} /\ task.points = task.landmarks /\ task.round = 1
    BY <1>1, <1>5, RegularHas
  <2>2. \A l \in Map!Landmark : position'[l] = position[l]
    BY <1>1, <1>2, <1>3, <1>5, <2>1, RegularHas
  <2>3. task' = [step |-> "idle"]
    BY <1>1, <1>5, <2>1 DEF Map!AfterSolving, Map!Rounds, Map!NoTask
  <2> QED BY <1>1, <1>5, <2>2, <2>3, RegularHas DEF RegularTask, Map!Landmark
<1> QED BY <1>1, <1>4, <1>5, TaskActs

LEMMA WinsorizeInv == UnifiedInv /\ Map!Winsorize => UnifiedInv'
<1> SUFFICES ASSUME UnifiedInv, Map!Winsorize PROVE UnifiedInv'
  OBVIOUS
<1>1. UNCHANGED <<service, Map!map, added, saved>> /\ task.step = "winsorize"
  BY DEF Map!Winsorize, Map!map
<1>2. PICK outliers \in SUBSET {l \in task.last : position[l] # "none"} :
        position' = [l \in Map!Landmark |-> IF l \in outliers THEN "none" ELSE position[l]]
  BY DEF Map!Winsorize
<1>3. position' \in [Map!Landmark -> Places]
  BY <1>2 DEF UnifiedInv, UnifiedTypes, Places
<1>4. service # "regular"
  BY <1>1, RegularHas
<1> QED BY <1>1, <1>3, <1>4, TaskActs

LEMMA UnifiedStep == UnifiedInv /\ Map!Next => UnifiedInv'
BY AddKeyframeInv, SetGravityInv, ClearInv, SaveStateInv, LoadStateInv, TakeSubmapInv, CountPointsInv,
   CollectObservationsInv, WriteBackInv, WinsorizeInv DEF Map!Next

LEMMA UnifiedPromises ==
  UnifiedInv => /\ Map!IndexesAgree /\ Map!OneLandmarkPerTrack /\ Map!LastNotIntegrated
                /\ Map!RegularTaskIsDefined
<1>1. UnifiedInv => Map!RegularTaskIsDefined
  BY RegularHas DEF Map!RegularTaskIsDefined
<1> QED BY <1>1 DEF UnifiedInv

-----------------------------------------------------------------------------
(***************************************************************************)
(* The pool of images                                                      *)
(*                                                                         *)
(* A camera gets the context whose place among the free ones of its pool   *)
(* is its own place among the cameras that ask: two cameras never get the  *)
(* same, and there is one for each as long as the pool has enough.         *)
(***************************************************************************)

LEMMA LeastElement ==
  ASSUME NEW X, X \subseteq Nat, X # {}
  PROVE  \E m \in X : \A i \in X : m <= i
<1> DEFINE R == {ss \in Nat \X Nat : ss[1] < ss[2]}
<1>1. IsWellFoundedOn(R, Nat)
  BY NatLessThanWellFounded DEF OpToRel
<1> HIDE DEF R
<1>2. PICK m \in X : \A i \in X : <<i, m>> \notin R
  BY <1>1, WFMin
<1>3. ASSUME NEW i \in X PROVE m <= i
  <2>1. i \in Nat /\ m \in Nat /\ <<i, m>> \in Nat \X Nat
    OBVIOUS
  <2>2. <<i, m>>[1] = i /\ <<i, m>>[2] = m
    OBVIOUS
  <2>3. ~ (i < m)
    BY <1>2, <2>1, <2>2 DEF R
  <2> QED
    BY <2>1, <2>3
<1> QED
  BY <1>3

\* An element with the least key
LEMMA LeastKey ==
  ASSUME NEW S, NEW f \in [S -> Nat], NEW U, U \subseteq S, U # {}
  PROVE  \E x \in U : \A y \in U : f[x] <= f[y]
<1> DEFINE X == {f[y] : y \in U}
<1>1. X \subseteq Nat /\ X # {}
  OBVIOUS
<1> HIDE DEF X
<1>2. PICK m \in X : \A i \in X : m <= i
  BY <1>1, LeastElement
<1> QED
  BY <1>2 DEF X

\* Those with a key up to that of x
UpTo(S, f, x) == {y \in S : f[y] <= f[x]}

\* A finite set with different keys has an element at every place.
LEMMA PlaceExists ==
  ASSUME NEW S, IsFiniteSet(S), NEW f \in [S -> Nat],
         \A x, y \in S : f[x] = f[y] => x = y, NEW k \in 1 .. Cardinality(S)
  PROVE  \E x \in S : Cardinality(UpTo(S, f, x)) = k
<1> DEFINE Bad == {j \in 1 .. Cardinality(S) : \A x \in S : Cardinality(UpTo(S, f, x)) # j}
<1> SUFFICES ASSUME Bad # {} PROVE FALSE
  OBVIOUS
<1>1. Cardinality(S) \in Nat
  BY FS_CardinalityType
<1>2. PICK m \in Bad : \A j \in Bad : m <= j
  <2>1. Bad \subseteq Nat
    BY <1>1
  <2> HIDE DEF Bad
  <2> QED
    BY <2>1, LeastElement
<1>3. m \in 1 .. Cardinality(S) /\ \A x \in S : Cardinality(UpTo(S, f, x)) # m
  BY <1>2
<1>4. CASE m = 1
  <2>1. S # {}
    BY <1>1, <1>3, FS_EmptySet
  <2>2. PICK x \in S : \A y \in S : f[x] <= f[y]
    BY <2>1, LeastKey
  <2>3. UpTo(S, f, x) = {x}
    <3>1. ASSUME NEW y \in S, f[y] <= f[x] PROVE y = x
      <4>1. f[x] \in Nat /\ f[y] \in Nat /\ f[x] <= f[y]
        BY <2>2
      <4>2. f[x] = f[y]
        BY <3>1, <4>1
      <4> QED
        BY <4>2
    <3>2. x \in UpTo(S, f, x)
      <4>1. f[x] \in Nat
        OBVIOUS
      <4> QED
        BY <4>1 DEF UpTo
    <3> QED
      BY <3>1, <3>2 DEF UpTo
  <2> QED
    BY <1>3, <1>4, <2>3, FS_Singleton
<1>5. CASE m # 1
  <2>1. m - 1 \in 1 .. Cardinality(S) /\ ~ (m <= m - 1) /\ m - 1 + 1 = m /\ m - 1 # Cardinality(S)
    BY <1>1, <1>3, <1>5
  <2>2. PICK x \in S : Cardinality(UpTo(S, f, x)) = m - 1
    BY <1>2, <2>1
  <2> DEFINE U == {y \in S : ~ (f[y] <= f[x])}
  <2>3. U # {}
    <3>1. UpTo(S, f, x) # S
      BY <2>1, <2>2
    <3> QED
      BY <3>1 DEF UpTo
  <2>4. PICK z \in U : \A y \in U : f[z] <= f[y]
    <3>1. U \subseteq S
      OBVIOUS
    <3> HIDE DEF U
    <3> QED
      BY <2>3, <3>1, LeastKey
  <2>5. z \in S /\ z \notin UpTo(S, f, x) /\ f[z] \in Nat /\ f[x] \in Nat /\ f[x] < f[z]
    <3>1. z \in S /\ ~ (f[z] <= f[x]) /\ f[z] \in Nat /\ f[x] \in Nat
      OBVIOUS
    <3> QED
      BY <3>1 DEF UpTo
  <2>6. UpTo(S, f, z) = UpTo(S, f, x) \cup {z}
    <3>1. ASSUME NEW y \in S, f[y] <= f[z], ~ (f[y] <= f[x]) PROVE y = z
      <4>1. f[z] <= f[y]
        BY <2>4, <3>1
      <4>2. f[y] \in Nat
        OBVIOUS
      <4>3. f[y] = f[z]
        BY <2>5, <3>1, <4>1, <4>2
      <4> QED
        BY <2>5, <4>3
    <3>2. ASSUME NEW y \in S, f[y] <= f[x] PROVE f[y] <= f[z]
      <4>1. f[y] \in Nat
        OBVIOUS
      <4> QED
        BY <2>5, <3>2, <4>1
    <3>3. f[z] <= f[z]
      BY <2>5
    <3> HIDE DEF U
    <3> QED
      BY <2>5, <3>1, <3>2, <3>3 DEF UpTo
  <2>7. IsFiniteSet(UpTo(S, f, x))
    BY FS_Subset DEF UpTo
  <2>8. Cardinality(UpTo(S, f, z)) = m
    BY <2>1, <2>2, <2>5, <2>6, <2>7, FS_AddElement
  <2> QED
    BY <1>3, <2>5, <2>8
<1> QED
  BY <1>4, <1>5

\* The cameras whose images come from one pool
Kind(depth) == IF depth THEN DepthCamera ELSE ImageCamera \ DepthCamera

LEMMA CameraFacts ==
  /\ ImageCamera \subseteq Int /\ IsFiniteSet(ImageCamera) /\ DepthCamera \subseteq ImageCamera
  /\ FrameCameras \subseteq SUBSET ImageCamera /\ MaxFrames \in Nat /\ MaxQueue \in Nat
BY ProvedPartsAssumption

LEMMA SameCardinality == \A S : Images!Cardinality(S) = Cardinality(S)
BY DEF Images!Cardinality, Cardinality

LEMMA PoolFacts ==
  ASSUME NEW depth \in BOOLEAN
  PROVE  /\ IsFiniteSet(Kind(depth)) /\ Cardinality(Kind(depth)) \in Nat
         /\ \A x \in Images!Pool(depth) : x = <<depth, x[2]>> /\ x[2] \in Nat /\ x # Images!NoContext
         /\ IsFiniteSet(Images!Pool(depth))
         /\ Cardinality(Images!Pool(depth)) = 4 * Cardinality(Kind(depth))
         /\ Images!Pool(depth) \subseteq Images!Context
<1> DEFINE n == Cardinality(Kind(depth))
<1>1. IsFiniteSet(Kind(depth)) /\ n \in Nat
  <2>1. Kind(depth) \subseteq ImageCamera
    BY CameraFacts DEF Kind
  <2> QED
    BY <2>1, CameraFacts, FS_Subset, FS_CardinalityType
<1>2. Images!Pool(depth) = {depth} \X (1 .. 4 * n)
  BY SameCardinality, Zenon DEF Images!Pool, Images!CacheSize, Kind
<1> HIDE DEF n
<1>3. \A x \in Images!Pool(depth) : x = <<depth, x[2]>> /\ x[2] \in 1 .. 4 * n
  BY <1>2
<1>4. \A x \in Images!Pool(depth) : x[2] \in Nat /\ x # Images!NoContext
  <2>1. Images!NoContext[2] = 0
    BY DEF Images!NoContext
  <2> QED
    BY <1>1, <1>3, <2>1
<1>5. IsFiniteSet(Images!Pool(depth)) /\ Cardinality(Images!Pool(depth)) = 4 * n
  <2> DEFINE g == [i \in 1 .. 4 * n |-> <<depth, i>>]
  <2>1. g \in Surjection(1 .. 4 * n, Images!Pool(depth)) /\ g \in Injection(1 .. 4 * n, Images!Pool(depth))
    <3>1. g \in [1 .. 4 * n -> Images!Pool(depth)]
      BY <1>2
    <3>2. \A i, j \in 1 .. 4 * n : g[i] = g[j] => i = j
      OBVIOUS
    <3>3. \A x \in Images!Pool(depth) : \E i \in 1 .. 4 * n : g[i] = x
      BY <1>3
    <3> HIDE DEF g
    <3> QED
      BY <3>1, <3>2, <3>3 DEF Surjection, Injection, IsInjective
  <2>2. IsFiniteSet(1 .. 4 * n) /\ Cardinality(1 .. 4 * n) = 4 * n
    <3>1. 4 * n \in Nat
      BY <1>1
    <3> HIDE DEF n
    <3>2. 1 \in Int /\ 4 * n \in Int /\ (1 > 4 * n => 4 * n = 0) /\ 4 * n - 1 + 1 = 4 * n
      BY <3>1
    <3> QED
      BY <3>2, FS_Interval
  <2> HIDE DEF g
  <2> QED
    BY <2>1, <2>2, FS_Surjection
<1>6. Images!Pool(depth) \subseteq Images!Context
  BY DEF Images!Context
<1> QED
  BY <1>1, <1>3, <1>4, <1>5, <1>6 DEF n

LEMMA PoolsApart ==
  ASSUME NEW d \in BOOLEAN, NEW e \in BOOLEAN, NEW x, x \in Images!Pool(d), x \in Images!Pool(e)
  PROVE  d = e
BY PoolFacts

\* The cameras that ask before c for a context of its pool, and what is free there
Asking(asked, depths, c) == {d \in asked : d <= c /\ (d \in depths) = (c \in depths)}
FreeFor(depths, free, c) == free \cap Images!Pool(c \in depths)

LEMMA AskingFacts ==
  ASSUME NEW asked, asked \subseteq ImageCamera, NEW depths, NEW free, NEW c \in asked
  PROVE  /\ c \in Int /\ c \in Asking(asked, depths, c)
         /\ IsFiniteSet(Asking(asked, depths, c)) /\ IsFiniteSet(FreeFor(depths, free, c))
         /\ Cardinality(Asking(asked, depths, c)) \in Nat /\ Cardinality(Asking(asked, depths, c)) >= 1
         /\ Cardinality(FreeFor(depths, free, c)) \in Nat
         /\ \A x \in FreeFor(depths, free, c) : x = <<c \in depths, x[2]>> /\ x[2] \in Nat
<1>1. c \in Int /\ c \in Asking(asked, depths, c)
  BY CameraFacts DEF Asking
<1>2. Asking(asked, depths, c) \subseteq ImageCamera
  BY DEF Asking
<1>3. IsFiniteSet(Asking(asked, depths, c)) /\ Cardinality(Asking(asked, depths, c)) \in Nat
  BY <1>2, CameraFacts, FS_Subset, FS_CardinalityType
<1>4. Cardinality(Asking(asked, depths, c)) >= 1
  <2>1. Cardinality(Asking(asked, depths, c)) # 0
    BY <1>1, <1>3, FS_EmptySet
  <2> QED
    BY <1>3, <2>1
<1>5. (c \in depths) \in BOOLEAN
  OBVIOUS
<1>6. FreeFor(depths, free, c) \subseteq Images!Pool(c \in depths)
  BY DEF FreeFor
<1>7. /\ IsFiniteSet(Images!Pool(c \in depths))
      /\ \A x \in Images!Pool(c \in depths) : x = <<c \in depths, x[2]>> /\ x[2] \in Nat
  BY <1>5, PoolFacts
<1>8. IsFiniteSet(FreeFor(depths, free, c)) /\ Cardinality(FreeFor(depths, free, c)) \in Nat
  BY <1>6, <1>7, FS_Subset, FS_CardinalityType
<1> QED
  BY <1>1, <1>3, <1>4, <1>6, <1>7, <1>8

\* What is at the place of c among the free contexts
AtPlace(asked, depths, free, c, x) ==
  Cardinality({y \in FreeFor(depths, free, c) : y[2] <= x[2]}) = Cardinality(Asking(asked, depths, c))

LEMMA SomethingAtPlace ==
  ASSUME NEW asked, asked \subseteq ImageCamera, NEW depths, NEW free, NEW c \in asked,
         Cardinality(Asking(asked, depths, c)) <= Cardinality(FreeFor(depths, free, c))
  PROVE  \E x \in FreeFor(depths, free, c) : AtPlace(asked, depths, free, c, x)
<1> DEFINE S == FreeFor(depths, free, c)
           f == [x \in S |-> x[2]]
           k == Cardinality(Asking(asked, depths, c))
<1>1. IsFiniteSet(S) /\ k \in 1 .. Cardinality(S) /\ \A x \in S : x = <<c \in depths, x[2]>> /\ x[2] \in Nat
  <2>1. IsFiniteSet(S) /\ k \in Nat /\ k >= 1 /\ Cardinality(S) \in Nat /\ k <= Cardinality(S)
    BY AskingFacts
  <2>2. \A x \in S : x = <<c \in depths, x[2]>> /\ x[2] \in Nat
    BY AskingFacts
  <2> HIDE DEF S, k
  <2>3. k \in 1 .. Cardinality(S)
    BY <2>1
  <2> QED
    BY <2>1, <2>2, <2>3
<1>2. f \in [S -> Nat] /\ \A x, y \in S : f[x] = f[y] => x = y
  <2> HIDE DEF S
  <2>1. f \in [S -> Nat]
    BY <1>1
  <2>2. ASSUME NEW x \in S, NEW y \in S, f[x] = f[y] PROVE x = y
    <3>1. x[2] = y[2]
      BY <2>2
    <3> QED
      BY <1>1, <3>1
  <2> QED
    BY <2>1, <2>2
<1> HIDE DEF S, k
<1>3. PICK x \in S : Cardinality(UpTo(S, f, x)) = k
  <2> HIDE DEF f
  <2> QED
    BY <1>1, <1>2, PlaceExists
<1>4. UpTo(S, f, x) = {y \in S : y[2] <= x[2]}
  BY DEF UpTo
<1> QED
  BY <1>3, <1>4 DEF AtPlace, S, k

\* The contexts that are given out: each from the pool of its camera, free, and
\* given once
LEMMA AcquiredFacts ==
  ASSUME NEW asked, asked \subseteq ImageCamera, NEW depths, NEW free, free \subseteq Images!Context,
         NEW got, got = Images!Acquired(asked, depths, free)
  PROVE  /\ got \in Images!ImageSet
         /\ \A c \in ImageCamera : got[c] # Images!NoContext =>
              c \in asked /\ got[c] \in free /\ got[c] \in Images!Pool(c \in depths)
         /\ \A c, d \in ImageCamera : c # d /\ got[c] = got[d] => got[c] = Images!NoContext
         /\ \A c \in asked : got[c] = Images!NoContext =>
              \E d \in asked : Cardinality(FreeFor(depths, free, d)) < Cardinality(Asking(asked, depths, d))
<1> DEFINE Rivals(c) == {d \in asked : d <= c /\ (d \in depths) = (c \in depths)}
           InPool(c) == free \cap Images!Pool(c \in depths)
           Got(c) == \A d \in asked : d <= c => Images!Cardinality(Rivals(d)) <= Images!Cardinality(InPool(d))
           Turn(c, x) == Images!Cardinality({y \in InPool(c) : y[2] <= x[2]}) = Images!Cardinality(Rivals(c))
<1>1. got = [c \in ImageCamera |-> IF c \in asked /\ Got(c) THEN CHOOSE x \in InPool(c) : Turn(c, x)
                                  ELSE Images!NoContext]
  BY DEF Images!Acquired
<1>2. ASSUME NEW c \in asked
      PROVE  /\ c \in ImageCamera /\ InPool(c) = FreeFor(depths, free, c) /\ Rivals(c) = Asking(asked, depths, c)
             /\ \A x : Turn(c, x) <=> AtPlace(asked, depths, free, c, x)
  BY SameCardinality DEF FreeFor, Asking, AtPlace
<1>3. \A c \in asked : Got(c) <=> \A d \in asked : d <= c =>
        Cardinality(Asking(asked, depths, d)) <= Cardinality(FreeFor(depths, free, d))
  BY <1>2, SameCardinality
<1> HIDE DEF Rivals, InPool, Got, Turn
<1>4. ASSUME NEW c \in asked, Got(c)
      PROVE  /\ got[c] \in FreeFor(depths, free, c) /\ AtPlace(asked, depths, free, c, got[c])
             /\ got[c] # Images!NoContext
  <2>1. c <= c /\ c \in ImageCamera
    BY <1>2, AskingFacts
  <2>2. PICK x \in FreeFor(depths, free, c) : AtPlace(asked, depths, free, c, x)
    BY <1>3, <1>4, <2>1, SomethingAtPlace
  <2>3. \E y \in InPool(c) : Turn(c, y)
    BY <1>2, <2>2
  <2>4. got[c] = CHOOSE y \in InPool(c) : Turn(c, y)
    BY <1>1, <1>4, <2>1
  <2>5. got[c] \in InPool(c) /\ Turn(c, got[c])
    BY <2>3, <2>4
  <2>6. got[c] \in FreeFor(depths, free, c) /\ AtPlace(asked, depths, free, c, got[c])
    BY <1>2, <2>5
  <2>7. got[c] # Images!NoContext
    <3>1. got[c] \in Images!Pool(c \in depths) /\ (c \in depths) \in BOOLEAN
      BY <2>6 DEF FreeFor
    <3> QED
      BY <3>1, PoolFacts
  <2> QED
    BY <2>6, <2>7
<1>5. ASSUME NEW c \in ImageCamera, got[c] # Images!NoContext PROVE c \in asked /\ Got(c)
  BY <1>1, <1>5
<1>6. \A c \in ImageCamera : got[c] # Images!NoContext =>
        c \in asked /\ got[c] \in free /\ got[c] \in Images!Pool(c \in depths)
  BY <1>4, <1>5 DEF FreeFor
<1>7. got \in Images!ImageSet
  <2>1. got = [c \in ImageCamera |-> got[c]]
    BY <1>1
  <2>2. \A c \in ImageCamera : got[c] \in Images!Context \cup {Images!NoContext}
    BY <1>6
  <2> QED
    BY <2>1, <2>2 DEF Images!ImageSet
<1>8. ASSUME NEW c \in ImageCamera, NEW d \in ImageCamera, c < d, got[c] = got[d], got[c] # Images!NoContext
      PROVE  FALSE
  <2>1. c \in asked /\ Got(c) /\ d \in asked /\ Got(d)
    BY <1>5, <1>8
  <2>2. (c \in depths) = (d \in depths)
    <3>1. (c \in depths) \in BOOLEAN /\ (d \in depths) \in BOOLEAN
      OBVIOUS
    <3> QED
      BY <1>6, <1>8, <3>1, PoolsApart
  <2>3. FreeFor(depths, free, c) = FreeFor(depths, free, d)
    BY <2>2 DEF FreeFor
  <2>4. Cardinality(Asking(asked, depths, c)) = Cardinality(Asking(asked, depths, d))
    BY <1>4, <1>8, <2>1, <2>3 DEF AtPlace
  <2>5. Asking(asked, depths, c) \subseteq Asking(asked, depths, d)
    <3>1. \A e \in asked : e \in Int
      BY AskingFacts
    <3> QED
      BY <1>8, <2>1, <2>2, <3>1 DEF Asking
  <2>6. Asking(asked, depths, c) = Asking(asked, depths, d)
    BY <2>1, <2>4, <2>5, AskingFacts, FS_Subset
  <2>7. d \in Asking(asked, depths, c) /\ c \in Int /\ d \in Int
    BY <2>1, <2>6, AskingFacts
  <2> QED
    BY <1>8, <2>7 DEF Asking
<1>9. \A c, d \in ImageCamera : c # d /\ got[c] = got[d] => got[c] = Images!NoContext
  <2>1. \A c, d \in ImageCamera : c # d => c < d \/ d < c
    BY CameraFacts
  <2> QED
    BY <1>8, <2>1
<1>10. ASSUME NEW c \in asked, got[c] = Images!NoContext
       PROVE  \E d \in asked : Cardinality(FreeFor(depths, free, d)) < Cardinality(Asking(asked, depths, d))
  <2>1. PICK d \in asked : ~ (Cardinality(Asking(asked, depths, d)) <= Cardinality(FreeFor(depths, free, d)))
    BY <1>3, <1>4, <1>10
  <2> QED
    BY <2>1, AskingFacts
<1> QED
  BY <1>6, <1>7, <1>9, <1>10

Frames == Images!Frame \cup {Images!NoFrame}

\* Every camera has an image of its own, from its pool, or none.
Proper(s) ==
  /\ s \in Images!ImageSet
  /\ \A c \in ImageCamera : s[c] # Images!NoContext => s[c] \in Images!Pool(c \in DepthCamera)
  /\ \A c, d \in ImageCamera : c # d /\ s[c] = s[d] => s[c] = Images!NoContext

\* The images of s hold the frame f.
OfFrame(s, held, f) == \A c \in ImageCamera : s[c] # Images!NoContext => held[s[c]] = f

\* The raw images are of frames that were counted, and a camera gives depth or not.
Remembered(frames, depths, number) ==
  \A c \in ImageCamera :
    /\ frames[c] < number
    /\ frames[c] # Images!NoFrame => (depths[c] # Images!NoFrame <=> c \in DepthCamera)

Checkpoint == [frameId : 0 .. MaxFrames, raw : [ImageCamera -> Frames], rawDepth : [ImageCamera -> Frames]]

WrittenIsWhole ==
  written = <<>> \/ \E s \in Checkpoint : written = <<s>> /\ Remembered(s.raw, s.rawDepth, s.frameId)

ImageTypes ==
  /\ frameId \in 0 .. MaxFrames
  /\ imageResult \in {"none", "refused", "tracked", "loaded", "failed", "unloaded"}
  /\ raw \in [ImageCamera -> Frames] /\ rawDepth \in [ImageCamera -> Frames]
  /\ content \in [Images!Context -> Frames]
  /\ queued \in 0 .. MaxQueue /\ busy \in BOOLEAN

ImagesInv ==
  /\ ImageTypes /\ WrittenIsWhole
  /\ Proper(curr) /\ Proper(prev) /\ Proper(contexts)
  /\ Proper(imageState.images) /\ Proper(processing) /\ Proper(working)
  /\ OfFrame(contexts, content, frameId - 1)
  /\ OfFrame(imageState.images, content, imageState.frame)
  /\ \E f : OfFrame(processing, content, f)
  /\ \E f : OfFrame(working, content, f)
  /\ Remembered(raw, rawDepth, frameId)
  /\ Images!RawIsRecent

LEMMA NothingIsProper ==
  /\ Proper(Images!NoImages)
  /\ \A held, f : OfFrame(Images!NoImages, held, f)
  /\ \A c \in ImageCamera : Images!NoImages[c] = Images!NoContext
<1>1. Images!NoImages \in Images!ImageSet /\ \A c \in ImageCamera : Images!NoImages[c] = Images!NoContext
  BY DEF Images!NoImages, Images!ImageSet
<1> QED
  BY <1>1 DEF Proper, OfFrame

LEMMA ImagesInit == Images!Init => ImagesInv
<1> SUFFICES ASSUME Images!Init PROVE ImagesInv
  OBVIOUS
<1>1. /\ frameId = 0 /\ imageResult = "none"
      /\ curr = Images!NoImages /\ prev = Images!NoImages /\ contexts = Images!NoImages
      /\ raw = [c \in ImageCamera |-> Images!NoFrame] /\ rawDepth = [c \in ImageCamera |-> Images!NoFrame]
      /\ content = [x \in Images!Context |-> Images!NoFrame]
      /\ imageState.images = Images!NoImages /\ written = <<>>
      /\ processing = Images!NoImages /\ queued = 0 /\ working = Images!NoImages /\ busy = FALSE
  BY DEF Images!Init, Images!NoState
<1>2. ImageTypes
  <2>1. 0 \in 0 .. MaxFrames /\ 0 \in 0 .. MaxQueue
    BY CameraFacts
  <2>2. Images!NoFrame \in Frames
    BY DEF Frames
  <2> QED
    BY <1>1, <2>1, <2>2 DEF ImageTypes
<1>3. Remembered(raw, rawDepth, frameId)
  BY <1>1 DEF Remembered, Images!NoFrame
<1>4. WrittenIsWhole
  BY <1>1 DEF WrittenIsWhole
<1>5. Images!RawIsRecent
  BY <1>1, NothingIsProper DEF Images!RawIsRecent
<1> QED
  BY <1>1, <1>2, <1>3, <1>4, <1>5, NothingIsProper DEF ImagesInv

\* The cameras that have an image asked for one, and it holds their frame.
Fills(asked, got, frames, held, free) ==
  \A c \in ImageCamera : got[c] # Images!NoContext => c \in asked /\ held[got[c]] = frames[c] /\ got[c] \in free

\* The images of the holders, of the caller and of the SLAM thread are as they were.
Spares(holders, held, heldThen, free) ==
  \A s \in holders \cup {imageState.images, processing, working}, c \in ImageCamera :
    s[c] \in Images!Context => heldThen[s[c]] = held[s[c]] /\ s[c] \notin free

\* Images are taken and filled: each camera that asks gets one of its own, no
\* holder's image is touched, and only an empty pool refuses one.
LEMMA GivenOut ==
  ASSUME content \in [Images!Context -> Frames],
         NEW asked, asked \subseteq ImageCamera, NEW depths,
         \A c \in asked : c \in depths <=> c \in DepthCamera, NEW holders,
         NEW got, got = Images!Acquired(asked, depths, Images!Free(holders)),
         NEW frames \in [ImageCamera -> Frames],
         content' = Images!Filled(got, frames, Images!Free(holders))
  PROVE  /\ Proper(got) /\ content' \in [Images!Context -> Frames]
         /\ Fills(asked, got, frames, content', Images!Free(holders))
         /\ Spares(holders, content, content', Images!Free(holders))
<1> DEFINE free == Images!Free(holders)
<1>1. free \subseteq Images!Context
      /\ \A s \in holders \cup {imageState.images, processing, working}, c \in ImageCamera : s[c] \notin free
  BY DEF Images!Free, Images!Held
<1>2. content' = [x \in Images!Context |->
         IF x \in Images!Held(got) THEN frames[CHOOSE c \in ImageCamera : got[c] = x]
         ELSE IF x \in free THEN Images!NoFrame ELSE content[x]]
  BY DEF Images!Filled
<1>0. got = Images!Acquired(asked, depths, free)
  OBVIOUS
<1> HIDE DEF free
<1>3. /\ got \in Images!ImageSet
      /\ \A c \in ImageCamera : got[c] # Images!NoContext =>
           c \in asked /\ got[c] \in free /\ got[c] \in Images!Pool(c \in depths)
      /\ \A c, d \in ImageCamera : c # d /\ got[c] = got[d] => got[c] = Images!NoContext
  <2>1. free \subseteq Images!Context
    BY <1>1
  <2>2. got \in Images!ImageSet
    BY <1>0, <2>1, AcquiredFacts
  <2>3. \A c \in ImageCamera : got[c] # Images!NoContext =>
           c \in asked /\ got[c] \in free /\ got[c] \in Images!Pool(c \in depths)
    BY <1>0, <2>1, AcquiredFacts
  <2>4. \A c, d \in ImageCamera : c # d /\ got[c] = got[d] => got[c] = Images!NoContext
    BY <1>0, <2>1, AcquiredFacts
  <2> QED
    BY <2>2, <2>3, <2>4
<1>4. Proper(got)
  <2>1. ASSUME NEW c \in ImageCamera, got[c] # Images!NoContext PROVE got[c] \in Images!Pool(c \in DepthCamera)
    <3>1. c \in asked /\ got[c] \in Images!Pool(c \in depths)
      BY <1>3, <2>1
    <3>2. (c \in depths) = (c \in DepthCamera)
      BY <3>1
    <3> QED
      BY <3>1, <3>2
  <2> QED
    BY <1>3, <2>1 DEF Proper
<1>5. Images!NoContext \notin Images!Context
  BY PoolFacts DEF Images!Context
<1>6. \A x \in Images!Context : x \in Images!Held(got) =>
        (CHOOSE c \in ImageCamera : got[c] = x) \in ImageCamera
  BY DEF Images!Held
<1>7. content' \in [Images!Context -> Frames]
  <2>1. Images!NoFrame \in Frames
    BY DEF Frames
  <2> QED
    BY <1>2, <1>6, <2>1
<1>8. ASSUME NEW c \in ImageCamera, got[c] # Images!NoContext PROVE content'[got[c]] = frames[c]
  <2>1. got[c] \in Images!Context /\ got[c] \in Images!Held(got)
    BY <1>1, <1>3, <1>8 DEF Images!Held
  <2>2. (CHOOSE d \in ImageCamera : got[d] = got[c]) = c
    BY <1>3, <1>8
  <2> QED
    BY <1>2, <2>1, <2>2
<1>9. ASSUME NEW s \in holders \cup {imageState.images, processing, working}, NEW c \in ImageCamera,
             s[c] \in Images!Context
      PROVE  content'[s[c]] = content[s[c]] /\ s[c] \notin free
  <2>1. s[c] \notin free
    BY <1>1
  <2>2. s[c] \notin Images!Held(got)
    BY <1>3, <1>5, <1>9, <2>1 DEF Images!Held
  <2> QED
    BY <1>2, <1>9, <2>1, <2>2
<1> QED
  BY <1>3, <1>4, <1>7, <1>8, <1>9 DEF free, Fills, Spares

\* What nothing has touched
LEMMA StaysOfFrame ==
  ASSUME NEW s, Proper(s), NEW f, OfFrame(s, content, f),
         \A c \in ImageCamera : s[c] \in Images!Context => content'[s[c]] = content[s[c]]
  PROVE  OfFrame(s, content', f)
BY DEF Proper, OfFrame, Images!ImageSet

\* A frame is tracked, or one of its images was refused.
LEMMA TrackIs ==
  ASSUME ImagesInv, Images!Track
  PROVE  \E asked \in FrameCameras :
           LET depths == DepthCamera \cap asked
               taken == {c \in ImageCamera : contexts'[c] # Images!NoContext}
           IN  /\ frameId' = frameId + 1 /\ frameId \in Images!Frame /\ frameId' \in 0 .. MaxFrames
               /\ contexts' = Images!Acquired(asked, depths, Images!Free({prev}))
               /\ curr' = contexts'
               /\ content' = Images!Filled(contexts', [c \in ImageCamera |-> frameId], Images!Free({prev}))
               /\ raw' = [c \in ImageCamera |-> IF c \in taken THEN frameId ELSE raw[c]]
               /\ rawDepth' = [c \in ImageCamera |-> IF c \notin taken THEN rawDepth[c]
                               ELSE IF c \in depths THEN frameId ELSE Images!NoFrame]
               /\ \/ /\ prev' = [c \in ImageCamera |-> IF c \in taken THEN contexts'[c] ELSE prev[c]]
                     /\ imageResult' = "tracked"
                  \/ prev' = prev /\ imageResult' = "failed" /\ ~ (asked \subseteq taken)
               /\ UNCHANGED <<imageState, written, processing, queued, working, busy>>
<1>1. frameId < MaxFrames /\ frameId' = frameId + 1
  BY DEF Images!Track
<1>2. PICK asked \in FrameCameras, d \in SUBSET DepthCamera :
       /\ d \subseteq asked
       /\ FALSE \/ d = DepthCamera \cap asked
       /\ contexts' = Images!Acquired(asked, d, Images!Free({prev}))
       /\ curr' = contexts'
       /\ content' = Images!Filled(contexts', [c \in ImageCamera |-> frameId], Images!Free({prev}))
       /\ LET taken == {c \in ImageCamera : contexts'[c] # Images!NoContext}
          IN /\ raw' = Images!RawAfter(taken)
             /\ rawDepth' = [c \in ImageCamera |-> IF c \notin taken THEN rawDepth[c]
                                                    ELSE IF c \in d THEN frameId ELSE Images!NoFrame]
             /\ \/ /\ asked \subseteq taken
                   /\ prev' = [c \in ImageCamera |-> IF c \in taken THEN contexts'[c] ELSE prev[c]]
                   /\ imageResult' = "tracked"
                \/ /\ ~(asked \subseteq taken)
                   /\ imageResult' = "failed"
                   /\ UNCHANGED prev
  BY DEF Images!Track
<1>3. UNCHANGED <<imageState, written, processing, queued, working, busy>>
  BY DEF Images!Track, Images!slam
<1>4. frameId \in Images!Frame /\ frameId' \in 0 .. MaxFrames
  BY <1>1, CameraFacts DEF ImagesInv, ImageTypes, Images!Frame
<1>5. d = DepthCamera \cap asked
  BY <1>2
<1> QED
  BY <1>1, <1>2, <1>3, <1>4, <1>5 DEF Images!RawAfter

\* What the caller and the SLAM thread hold is what it was.
LEMMA HeldAsItWas ==
  ASSUME ImagesInv, UNCHANGED <<imageState, processing, working>>,
         \A s \in {imageState.images, processing, working}, c \in ImageCamera :
           s[c] \in Images!Context => content'[s[c]] = content[s[c]]
  PROVE  /\ (Proper(imageState.images) /\ Proper(processing) /\ Proper(working))'
         /\ OfFrame(imageState.images, content, imageState.frame)'
         /\ (\E f : OfFrame(processing, content, f))'
         /\ (\E f : OfFrame(working, content, f))'
<1>1. Proper(imageState.images) /\ Proper(processing) /\ Proper(working)
  BY DEF ImagesInv
<1>2. OfFrame(imageState.images, content, imageState.frame)
      /\ (\E f : OfFrame(processing, content, f)) /\ (\E f : OfFrame(working, content, f))
  BY DEF ImagesInv
<1>3. OfFrame(imageState.images, content', imageState.frame)
  BY <1>1, <1>2, StaysOfFrame
<1>4. \E f : OfFrame(processing, content', f)
  <2>1. PICK f : OfFrame(processing, content, f)
    BY <1>2
  <2>2. OfFrame(processing, content', f)
    BY <1>1, <2>1, StaysOfFrame
  <2> QED
    BY <2>2
<1>5. \E f : OfFrame(working, content', f)
  <2>1. PICK f : OfFrame(working, content, f)
    BY <1>2
  <2>2. OfFrame(working, content', f)
    BY <1>1, <2>1, StaysOfFrame
  <2> QED
    BY <2>2
<1> QED
  BY <1>1, <1>3, <1>4, <1>5 DEF Proper, OfFrame

LEMMA TrackGives ==
  ASSUME ImagesInv, frameId \in Images!Frame, NEW asked \in FrameCameras,
         contexts' = Images!Acquired(asked, DepthCamera \cap asked, Images!Free({prev})),
         content' = Images!Filled(contexts', [c \in ImageCamera |-> frameId], Images!Free({prev}))
  PROVE  /\ Proper(contexts') /\ content' \in [Images!Context -> Frames]
         /\ Fills(asked, contexts', [c \in ImageCamera |-> frameId], content', Images!Free({prev}))
         /\ Spares({prev}, content, content', Images!Free({prev}))
<1> DEFINE frames == [c \in ImageCamera |-> frameId]
           got == contexts'
           holders == {prev}
           depths == DepthCamera \cap asked
<1>1. /\ got = Images!Acquired(asked, depths, Images!Free(holders))
      /\ content' = Images!Filled(got, frames, Images!Free(holders))
  OBVIOUS
<1>2. frames \in [ImageCamera -> Frames]
  BY DEF Frames
<1>3. asked \subseteq ImageCamera /\ \A c \in asked : c \in depths <=> c \in DepthCamera
  BY CameraFacts
<1>4. content \in [Images!Context -> Frames]
  BY DEF ImagesInv, ImageTypes
<1> HIDE DEF frames, got, holders, depths
<1>5. Proper(got) /\ content' \in [Images!Context -> Frames]
      /\ Fills(asked, got, frames, content', Images!Free(holders))
      /\ Spares(holders, content, content', Images!Free(holders))
  BY <1>1, <1>2, <1>3, <1>4, GivenOut
<1> QED
  BY <1>5 DEF frames, got, holders

LEMMA TrackInv == ImagesInv /\ Images!Track => ImagesInv'
<1> SUFFICES ASSUME ImagesInv, Images!Track PROVE ImagesInv'
  OBVIOUS
<1> DEFINE taken == {c \in ImageCamera : contexts'[c] # Images!NoContext}
<1>1. PICK asked \in FrameCameras :
       LET depths == DepthCamera \cap asked
       IN  /\ frameId' = frameId + 1 /\ frameId \in Images!Frame /\ frameId' \in 0 .. MaxFrames
           /\ contexts' = Images!Acquired(asked, depths, Images!Free({prev}))
           /\ curr' = contexts'
           /\ content' = Images!Filled(contexts', [c \in ImageCamera |-> frameId], Images!Free({prev}))
           /\ raw' = [c \in ImageCamera |-> IF c \in taken THEN frameId ELSE raw[c]]
           /\ rawDepth' = [c \in ImageCamera |-> IF c \notin taken THEN rawDepth[c]
                           ELSE IF c \in depths THEN frameId ELSE Images!NoFrame]
           /\ \/ /\ prev' = [c \in ImageCamera |-> IF c \in taken THEN contexts'[c] ELSE prev[c]]
                 /\ imageResult' = "tracked"
              \/ prev' = prev /\ imageResult' = "failed" /\ ~ (asked \subseteq taken)
           /\ UNCHANGED <<imageState, written, processing, queued, working, busy>>
  BY TrackIs
<1> DEFINE depths == DepthCamera \cap asked
<1>2. asked \subseteq ImageCamera /\ \A c \in asked : c \in depths <=> c \in DepthCamera
  BY CameraFacts
<1>3. ImageTypes /\ WrittenIsWhole /\ Proper(prev) /\ Remembered(raw, rawDepth, frameId) /\ Images!RawIsRecent
  BY DEF ImagesInv
<1>4. frameId \in Frames /\ [c \in ImageCamera |-> frameId] \in [ImageCamera -> Frames] /\ frameId \in Int
      /\ frameId >= 0 /\ Images!NoFrame \in Frames /\ frameId # Images!NoFrame
  BY <1>1, CameraFacts DEF Frames, Images!Frame, Images!NoFrame
<1>5. content \in [Images!Context -> Frames]
  BY <1>3 DEF ImageTypes
<1>6. /\ Proper(contexts') /\ content' \in [Images!Context -> Frames]
      /\ Fills(asked, contexts', [c \in ImageCamera |-> frameId], content', Images!Free({prev}))
      /\ Spares({prev}, content, content', Images!Free({prev}))
  BY <1>1, TrackGives
<1>7. \A c \in taken : content'[contexts'[c]] = frameId /\ c \in asked /\ contexts'[c] \in Images!Free({prev})
  BY <1>6 DEF Fills
<1>8. \A c \in ImageCamera : prev[c] # Images!NoContext =>
        prev[c] \in Images!Context /\ content'[prev[c]] = content[prev[c]] /\ prev[c] \notin Images!Free({prev})
  BY <1>3, <1>6 DEF Proper, Images!ImageSet, Spares
<1>9. \A c \in ImageCamera : (c \in taken) <=> contexts'[c] # Images!NoContext
  OBVIOUS
<1>10. UNCHANGED <<imageState, written, processing, queued, working, busy>> /\ curr' = contexts'
       /\ frameId' = frameId + 1 /\ frameId' \in 0 .. MaxFrames
       /\ raw' = [c \in ImageCamera |-> IF c \in taken THEN frameId ELSE raw[c]]
       /\ rawDepth' = [c \in ImageCamera |-> IF c \notin taken THEN rawDepth[c]
                       ELSE IF c \in depths THEN frameId ELSE Images!NoFrame]
       /\ imageResult' \in {"tracked", "failed"}
  BY <1>1
<1>11. prev' = prev \/ prev' = [c \in ImageCamera |-> IF c \in taken THEN contexts'[c] ELSE prev[c]]
  BY <1>1
<1> HIDE DEF taken, depths
<1>12. ImageTypes'
  BY <1>3, <1>4, <1>6, <1>10 DEF ImageTypes
<1>13. WrittenIsWhole'
  BY <1>3, <1>10 DEF WrittenIsWhole
<1>14. Proper(prev)'
  <2>1. CASE prev' = prev
    BY <1>3, <2>1 DEF Proper
  <2>2. CASE prev' = [c \in ImageCamera |-> IF c \in taken THEN contexts'[c] ELSE prev[c]]
    <3>1. \A c \in ImageCamera : prev'[c] = IF c \in taken THEN contexts'[c] ELSE prev[c]
      BY <2>2
    <3>2. prev' \in Images!ImageSet
      BY <1>3, <1>6, <2>2 DEF Proper, Images!ImageSet
    <3>3. \A c \in ImageCamera : prev'[c] # Images!NoContext => prev'[c] \in Images!Pool(c \in DepthCamera)
      BY <1>3, <1>6, <3>1 DEF Proper
    <3>4. \A c, d \in ImageCamera : c # d /\ prev'[c] = prev'[d] => prev'[c] = Images!NoContext
      BY <1>3, <1>6, <1>7, <1>8, <3>1 DEF Proper
    <3> QED
      BY <3>2, <3>3, <3>4 DEF Proper
  <2> QED
    BY <1>11, <2>1, <2>2
<1>15. (Proper(imageState.images) /\ Proper(processing) /\ Proper(working))'
       /\ OfFrame(imageState.images, content, imageState.frame)'
       /\ (\E f : OfFrame(processing, content, f))' /\ (\E f : OfFrame(working, content, f))'
  BY <1>6, <1>10, HeldAsItWas DEF Spares
<1>16. OfFrame(contexts, content, frameId - 1)'
  <2>1. \A c \in ImageCamera : contexts'[c] # Images!NoContext => content'[contexts'[c]] = frameId
    BY <1>7, <1>9
  <2>2. frameId' - 1 = frameId
    BY <1>4, <1>10
  <2> QED
    BY <2>1, <2>2 DEF OfFrame
<1>17. Remembered(raw, rawDepth, frameId)'
  <2> SUFFICES ASSUME NEW c \in ImageCamera
               PROVE  /\ raw'[c] < frameId'
                      /\ raw'[c] # Images!NoFrame => (rawDepth'[c] # Images!NoFrame <=> c \in DepthCamera)
    BY DEF Remembered
  <2>1. CASE c \in taken
    <3>1. raw'[c] = frameId /\ rawDepth'[c] = IF c \in depths THEN frameId ELSE Images!NoFrame
      BY <1>10, <2>1
    <3>2. c \in depths <=> c \in DepthCamera
      BY <1>2, <1>7, <2>1
    <3> QED
      BY <1>4, <1>10, <3>1, <3>2
  <2>2. CASE c \notin taken
    <3>1. raw'[c] = raw[c] /\ rawDepth'[c] = rawDepth[c]
      BY <1>10, <2>2
    <3>2. raw[c] \in Int
      <4>1. raw[c] \in Frames
        BY <1>3 DEF ImageTypes
      <4> QED
        BY <4>1, CameraFacts DEF Frames, Images!Frame, Images!NoFrame
    <3> QED
      BY <1>3, <1>4, <1>10, <3>1, <3>2 DEF Remembered
  <2> QED
    BY <2>1, <2>2
<1>18. Images!RawIsRecent'
  <2> SUFFICES ASSUME NEW c \in ImageCamera, prev'[c] # Images!NoContext
               PROVE  raw'[c] >= content'[prev'[c]]
    BY DEF Images!RawIsRecent
  <2>1. raw'[c] = IF c \in taken THEN frameId ELSE raw[c]
    BY <1>10
  <2>2. CASE prev'[c] = prev[c]
    <3>1. content'[prev'[c]] = content[prev[c]] /\ raw[c] >= content[prev[c]] /\ prev[c] \in Images!Context
      BY <1>3, <1>8, <2>2 DEF Images!RawIsRecent
    <3>2. raw[c] < frameId /\ raw[c] \in Frames /\ content[prev[c]] \in Frames
      BY <1>3, <1>5, <3>1 DEF Remembered, ImageTypes
    <3>3. \A f \in Frames : f \in Int
      BY CameraFacts DEF Frames, Images!Frame, Images!NoFrame
    <3>4. raw[c] \in Int /\ content[prev[c]] \in Int
      BY <3>2, <3>3
    <3>5. raw'[c] = frameId \/ raw'[c] = raw[c]
      BY <2>1
    <3> QED
      BY <1>4, <3>1, <3>2, <3>4, <3>5
  <2>3. CASE prev'[c] # prev[c]
    <3>1. c \in taken /\ prev'[c] = contexts'[c]
      BY <1>11, <2>3
    <3>2. content'[prev'[c]] = frameId /\ raw'[c] = frameId
      BY <1>7, <2>1, <3>1
    <3> QED
      BY <1>4, <3>2
  <2> QED
    BY <2>2, <2>3
<1> QED
  BY <1>6, <1>10, <1>12, <1>13, <1>14, <1>15, <1>16, <1>17, <1>18 DEF ImagesInv

LEMMA LoadGives ==
  ASSUME ImagesInv, NEW w \in Checkpoint, Remembered(w.raw, w.rawDepth, w.frameId),
         prev' = Images!Acquired({c \in ImageCamera : w.raw[c] # Images!NoFrame},
                                 {c \in ImageCamera : w.rawDepth[c] # Images!NoFrame}, Images!Free({curr})),
         content' = Images!Filled(prev', w.raw, Images!Free({curr}))
  PROVE  /\ Proper(prev') /\ content' \in [Images!Context -> Frames]
         /\ Fills({c \in ImageCamera : w.raw[c] # Images!NoFrame}, prev', w.raw, content', Images!Free({curr}))
         /\ Spares({curr}, content, content', Images!Free({curr}))
<1> DEFINE frames == w.raw
           got == prev'
           holders == {curr}
           asked == {c \in ImageCamera : w.raw[c] # Images!NoFrame}
           depths == {c \in ImageCamera : w.rawDepth[c] # Images!NoFrame}
<1>1. /\ got = Images!Acquired(asked, depths, Images!Free(holders))
      /\ content' = Images!Filled(got, frames, Images!Free(holders))
      /\ frames \in [ImageCamera -> Frames]
  BY DEF Checkpoint
<1>2. asked \subseteq ImageCamera /\ \A c \in asked : c \in depths <=> c \in DepthCamera
  BY DEF Remembered
<1>3. content \in [Images!Context -> Frames]
  BY DEF ImagesInv, ImageTypes
<1> HIDE DEF frames, got, holders, asked, depths
<1>4. Proper(got) /\ content' \in [Images!Context -> Frames]
      /\ Fills(asked, got, frames, content', Images!Free(holders))
      /\ Spares(holders, content, content', Images!Free(holders))
  BY <1>1, <1>2, <1>3, GivenOut
<1> QED
  BY <1>4 DEF frames, got, holders, asked

LEMMA ImagesLoadedInv == ImagesInv /\ Images!LoadState => ImagesInv'
<1> SUFFICES ASSUME ImagesInv, Images!LoadState PROVE ImagesInv'
  OBVIOUS
<1>1. ImageTypes /\ WrittenIsWhole /\ Proper(curr)
  BY DEF ImagesInv
<1>2. PICK w \in Checkpoint : written = <<w>> /\ Remembered(w.raw, w.rawDepth, w.frameId)
  BY <1>1 DEF WrittenIsWhole, Images!LoadState
<1>3. written[1] = w /\ w.raw \in [ImageCamera -> Frames] /\ w.rawDepth \in [ImageCamera -> Frames]
      /\ w.frameId \in 0 .. MaxFrames
  BY <1>2 DEF Checkpoint
<1> DEFINE asked == {c \in ImageCamera : w.raw[c] # Images!NoFrame}
           depths == {c \in ImageCamera : w.rawDepth[c] # Images!NoFrame}
<1>4. /\ prev' = Images!Acquired(asked, depths, Images!Free({curr}))
      /\ content' = Images!Filled(prev', w.raw, Images!Free({curr}))
      /\ imageResult' \in {"loaded", "unloaded"}
      /\ frameId' = w.frameId /\ raw' = w.raw /\ rawDepth' = w.rawDepth /\ contexts' = Images!NoImages
      /\ UNCHANGED <<curr, imageState, written, processing, queued, working, busy>>
  BY <1>3 DEF Images!LoadState, Images!slam
<1>7. /\ Proper(prev') /\ content' \in [Images!Context -> Frames]
      /\ Fills(asked, prev', w.raw, content', Images!Free({curr}))
      /\ Spares({curr}, content, content', Images!Free({curr}))
  BY <1>2, <1>4, LoadGives
<1> HIDE DEF asked, depths
<1>8. ImageTypes'
  BY <1>1, <1>3, <1>4, <1>7 DEF ImageTypes
<1>9. WrittenIsWhole'
  BY <1>1, <1>4 DEF WrittenIsWhole
<1>10. Proper(prev)' /\ Proper(curr)' /\ Proper(contexts)'
  BY <1>1, <1>4, <1>7, NothingIsProper DEF Proper
<1>11. (Proper(imageState.images) /\ Proper(processing) /\ Proper(working))'
       /\ OfFrame(imageState.images, content, imageState.frame)'
       /\ (\E f : OfFrame(processing, content, f))' /\ (\E f : OfFrame(working, content, f))'
  BY <1>4, <1>7, HeldAsItWas DEF Spares
<1>12. OfFrame(contexts, content, frameId - 1)'
  BY <1>4, NothingIsProper DEF OfFrame
<1>13. Remembered(raw, rawDepth, frameId)'
  BY <1>2, <1>4 DEF Remembered
<1>14. Images!RawIsRecent'
  <2> SUFFICES ASSUME NEW c \in ImageCamera, prev'[c] # Images!NoContext
               PROVE  raw'[c] >= content'[prev'[c]]
    BY DEF Images!RawIsRecent
  <2>1. content'[prev'[c]] = raw'[c]
    BY <1>4, <1>7 DEF Fills
  <2>2. raw'[c] \in Int
    BY <1>3, <1>4, CameraFacts DEF Frames, Images!Frame, Images!NoFrame
  <2> QED
    BY <2>1, <2>2
<1> QED
  BY <1>8, <1>9, <1>10, <1>11, <1>12, <1>13, <1>14 DEF ImagesInv

\* The context that is given to nobody leaves what the others hold.
LEMMA NothingWritten ==
  ASSUME ImagesInv, UNCHANGED <<prev, raw, content, written>>
  PROVE  WrittenIsWhole' /\ Proper(prev)' /\ Images!RawIsRecent'
BY DEF ImagesInv, WrittenIsWhole, Proper, Images!RawIsRecent

LEMMA TrackRefusedInv == ImagesInv /\ Images!TrackRefused => ImagesInv'
<1> SUFFICES ASSUME ImagesInv, Images!TrackRefused PROVE ImagesInv'
  OBVIOUS
<1>1. /\ frameId < MaxFrames /\ frameId' = frameId + 1
      /\ contexts' = Images!NoImages /\ curr' = Images!NoImages /\ imageResult' = "refused"
      /\ UNCHANGED <<prev, raw, rawDepth, content, imageState, written, processing, queued, working, busy>>
  BY DEF Images!TrackRefused, Images!slam
<1>2. ImageTypes /\ Remembered(raw, rawDepth, frameId)
  BY DEF ImagesInv
<1>3. frameId \in Nat /\ frameId' \in 0 .. MaxFrames
  BY <1>1, <1>2, CameraFacts DEF ImageTypes
<1>4. ImageTypes'
  BY <1>1, <1>2, <1>3 DEF ImageTypes
<1>5. WrittenIsWhole' /\ Proper(prev)' /\ Images!RawIsRecent'
  BY <1>1, NothingWritten
<1>6. (Proper(imageState.images) /\ Proper(processing) /\ Proper(working))'
      /\ OfFrame(imageState.images, content, imageState.frame)'
      /\ (\E f : OfFrame(processing, content, f))' /\ (\E f : OfFrame(working, content, f))'
  BY <1>1, HeldAsItWas
<1>7. Proper(curr)' /\ Proper(contexts)' /\ OfFrame(contexts, content, frameId - 1)'
  BY <1>1, NothingIsProper DEF Proper, OfFrame
<1>8. Remembered(raw, rawDepth, frameId)'
  <2> SUFFICES ASSUME NEW c \in ImageCamera PROVE raw[c] < frameId + 1
    BY <1>1, <1>2 DEF Remembered
  <2>1. raw[c] < frameId /\ raw[c] \in Frames
    BY <1>2 DEF Remembered, ImageTypes
  <2>2. raw[c] \in Int
    BY <2>1, CameraFacts DEF Frames, Images!Frame, Images!NoFrame
  <2> QED
    BY <1>3, <2>1, <2>2
<1> QED
  BY <1>4, <1>5, <1>6, <1>7, <1>8 DEF ImagesInv

LEMMA GetStateInv == ImagesInv /\ Images!GetState => ImagesInv'
<1> SUFFICES ASSUME ImagesInv, Images!GetState PROVE ImagesInv'
  OBVIOUS
<1>1. /\ imageState' = [frame |-> frameId - 1, images |-> contexts]
      /\ UNCHANGED <<frameId, imageResult, curr, prev, contexts, raw, rawDepth, content, written,
                     processing, queued, working, busy>>
  BY DEF Images!GetState, Images!odometry, Images!slam
<1>2. imageState'.images = contexts /\ imageState'.frame = frameId - 1
  BY <1>1
<1>3. ImageTypes' /\ WrittenIsWhole' /\ Images!RawIsRecent' /\ Remembered(raw, rawDepth, frameId)'
  BY <1>1 DEF ImagesInv, ImageTypes, WrittenIsWhole, Images!RawIsRecent, Remembered
<1>4. (Proper(curr) /\ Proper(prev) /\ Proper(contexts) /\ Proper(processing) /\ Proper(working))'
  BY <1>1 DEF ImagesInv, Proper
<1>5. Proper(imageState.images)'
  BY <1>2 DEF ImagesInv, Proper
<1>6. OfFrame(contexts, content, frameId - 1)' /\ OfFrame(imageState.images, content, imageState.frame)'
      /\ (\E f : OfFrame(processing, content, f))' /\ (\E f : OfFrame(working, content, f))'
  BY <1>1, <1>2 DEF ImagesInv, OfFrame
<1> QED
  BY <1>3, <1>4, <1>5, <1>6 DEF ImagesInv

LEMMA ImagesSavedInv == ImagesInv /\ Images!SaveState => ImagesInv'
<1> SUFFICES ASSUME ImagesInv, Images!SaveState PROVE ImagesInv'
  OBVIOUS
<1>1. /\ written' = <<[frameId |-> frameId, raw |-> raw, rawDepth |-> rawDepth]>>
      /\ UNCHANGED <<frameId, imageResult, curr, prev, contexts, raw, rawDepth, content, imageState,
                     processing, queued, working, busy>>
  BY DEF Images!SaveState, Images!odometry, Images!slam
<1>2. WrittenIsWhole'
  <2> DEFINE w == [frameId |-> frameId, raw |-> raw, rawDepth |-> rawDepth]
  <2>1. w \in Checkpoint
    BY DEF ImagesInv, ImageTypes, Checkpoint
  <2>2. Remembered(w.raw, w.rawDepth, w.frameId)
    BY DEF ImagesInv
  <2>3. written' = <<w>>
    BY <1>1
  <2> HIDE DEF w
  <2> QED
    BY <2>1, <2>2, <2>3 DEF WrittenIsWhole, Remembered
<1>3. ImageTypes' /\ Images!RawIsRecent' /\ Remembered(raw, rawDepth, frameId)'
  BY <1>1 DEF ImagesInv, ImageTypes, Images!RawIsRecent, Remembered
<1>4. (Proper(curr) /\ Proper(prev) /\ Proper(contexts) /\ Proper(imageState.images)
        /\ Proper(processing) /\ Proper(working))'
  BY <1>1 DEF ImagesInv, Proper
<1>5. OfFrame(contexts, content, frameId - 1)' /\ OfFrame(imageState.images, content, imageState.frame)'
      /\ (\E f : OfFrame(processing, content, f))' /\ (\E f : OfFrame(working, content, f))'
  BY <1>1 DEF ImagesInv, OfFrame
<1> QED
  BY <1>2, <1>3, <1>4, <1>5 DEF ImagesInv

\* SLAM hands on the images of a state, or of the keyframe before.
LEMMA SlamInv ==
  ASSUME ImagesInv, queued' \in 0 .. MaxQueue, busy' \in BOOLEAN,
         processing' \in {processing, imageState.images},
         working' \in {working, processing, Images!NoImages},
         UNCHANGED <<frameId, imageResult, curr, prev, contexts, raw, rawDepth, content, imageState, written>>
  PROVE  ImagesInv'
<1>1. ImageTypes' /\ WrittenIsWhole' /\ Images!RawIsRecent' /\ Remembered(raw, rawDepth, frameId)'
  BY DEF ImagesInv, ImageTypes, WrittenIsWhole, Images!RawIsRecent, Remembered
<1>2. (Proper(curr) /\ Proper(prev) /\ Proper(contexts) /\ Proper(imageState.images))'
  BY DEF ImagesInv, Proper
<1>3. Proper(processing)' /\ (\E f : OfFrame(processing, content, f))'
  <2>1. CASE processing' = processing
    BY <2>1 DEF ImagesInv, Proper, OfFrame
  <2>2. CASE processing' = imageState.images
    BY <2>2 DEF ImagesInv, Proper, OfFrame
  <2> QED
    BY <2>1, <2>2
<1>4. Proper(working)' /\ (\E f : OfFrame(working, content, f))'
  <2>1. CASE working' = working
    BY <2>1 DEF ImagesInv, Proper, OfFrame
  <2>2. CASE working' = processing
    BY <2>2 DEF ImagesInv, Proper, OfFrame
  <2>3. CASE working' = Images!NoImages
    BY <2>3, NothingIsProper DEF Proper, OfFrame
  <2> QED
    BY <2>1, <2>2, <2>3
<1>5. OfFrame(contexts, content, frameId - 1)' /\ OfFrame(imageState.images, content, imageState.frame)'
  BY DEF ImagesInv, OfFrame
<1> QED
  BY <1>1, <1>2, <1>3, <1>4, <1>5 DEF ImagesInv

\* Every step keeps the invariant.
LEMMA ImagesStep == ImagesInv /\ Images!Next => ImagesInv'
<1> SUFFICES ASSUME ImagesInv, Images!Next PROVE ImagesInv'
  OBVIOUS
<1>0. queued \in 0 .. MaxQueue /\ queued \in Nat /\ busy \in BOOLEAN /\ MaxQueue \in Nat
  BY CameraFacts DEF ImagesInv, ImageTypes
<1>1. CASE Images!SlamTrack
  <2>1. processing' = imageState.images /\ queued < MaxQueue /\ queued' \in {queued, queued + 1}
        /\ UNCHANGED <<frameId, imageResult, curr, prev, contexts, raw, rawDepth, content, imageState,
                       written, working, busy>>
    BY <1>1 DEF Images!SlamTrack, Images!Handed, Images!odometry
  <2>2. queued' \in 0 .. MaxQueue
    BY <1>0, <2>1
  <2> QED
    BY <1>0, <2>1, <2>2, SlamInv
<1>2. CASE Images!TakeKeyframe
  <2>1. queued > 0 /\ busy' = TRUE /\ queued' = queued - 1 /\ working' = processing
        /\ UNCHANGED <<frameId, imageResult, curr, prev, contexts, raw, rawDepth, content, imageState,
                       written, processing>>
    BY <1>2 DEF Images!TakeKeyframe, Images!odometry
  <2>2. queued' \in 0 .. MaxQueue /\ busy' \in BOOLEAN
    BY <1>0, <2>1
  <2> QED
    BY <2>1, <2>2, SlamInv
<1>3. CASE Images!TakeImagesAgain
  <2>1. working' = processing
        /\ UNCHANGED <<frameId, imageResult, curr, prev, contexts, raw, rawDepth, content, imageState,
                       written, processing, queued, busy>>
    BY <1>3 DEF Images!TakeImagesAgain, Images!odometry
  <2> QED
    BY <1>0, <2>1, SlamInv
<1>4. CASE Images!Processed
  <2>1. working' = Images!NoImages /\ busy' = FALSE
        /\ UNCHANGED <<frameId, imageResult, curr, prev, contexts, raw, rawDepth, content, imageState,
                       written, processing, queued>>
    BY <1>4 DEF Images!Processed, Images!odometry
  <2> QED
    BY <1>0, <2>1, SlamInv
<1> QED
  BY <1>1, <1>2, <1>3, <1>4, TrackRefusedInv, TrackInv, GetStateInv, ImagesSavedInv, ImagesLoadedInv
     DEF Images!Next

\* What the runs check of the images.
LEMMA ImagesPromises ==
  ImagesInv => /\ Images!TypeOK /\ Images!FramesNotMixed /\ Images!StateHasItsImages
               /\ Images!NotShared /\ Images!RawIsRecent
<1> SUFFICES ASSUME ImagesInv
             PROVE  /\ Images!TypeOK /\ Images!FramesNotMixed /\ Images!StateHasItsImages
                    /\ Images!NotShared /\ Images!RawIsRecent
  OBVIOUS
<1>1. \A s \in {curr, prev, contexts, imageState.images, processing, working} : Proper(s)
  BY DEF ImagesInv
<1>2. Images!TypeOK
  BY <1>1 DEF ImagesInv, ImageTypes, Proper, Frames, Images!TypeOK
<1>3. Images!FramesNotMixed
  <2>1. \A s \in {imageState.images, processing, working} : \E f : OfFrame(s, content, f)
    BY DEF ImagesInv
  <2> QED
    BY <2>1 DEF OfFrame, Images!FramesNotMixed
<1>4. Images!StateHasItsImages
  BY DEF ImagesInv, OfFrame, Images!StateHasItsImages
<1>5. Images!NotShared
  BY <1>1 DEF Proper, Images!NotShared
<1> QED
  BY <1>2, <1>3, <1>4, <1>5 DEF ImagesInv

LEMMA ImagesAreSpared == ImagesInv /\ Images!Next => Images!ImagesUntouched
<1> SUFFICES ASSUME ImagesInv, Images!Next, NEW s \in {imageState.images, processing, working},
                    NEW c \in ImageCamera, s[c] # Images!NoContext
             PROVE  content'[s[c]] = content[s[c]]
  BY DEF Images!ImagesUntouched, Images!Held
<1>1. s[c] \in Images!Context
  BY DEF ImagesInv, Proper, Images!ImageSet
<1>2. CASE Images!Track
  <2>1. PICK asked \in FrameCameras :
          /\ frameId \in Images!Frame
          /\ contexts' = Images!Acquired(asked, DepthCamera \cap asked, Images!Free({prev}))
          /\ content' = Images!Filled(contexts', [d \in ImageCamera |-> frameId], Images!Free({prev}))
    BY <1>2, TrackIs
  <2>2. Spares({prev}, content, content', Images!Free({prev}))
    BY <2>1, TrackGives
  <2> QED
    BY <1>1, <2>2 DEF Spares
<1>3. CASE Images!LoadState
  <2>1. PICK w \in Checkpoint : written = <<w>> /\ Remembered(w.raw, w.rawDepth, w.frameId)
    BY <1>3 DEF ImagesInv, WrittenIsWhole, Images!LoadState
  <2>2. written[1] = w
    BY <2>1
  <2>3. /\ prev' = Images!Acquired({d \in ImageCamera : w.raw[d] # Images!NoFrame},
                                   {d \in ImageCamera : w.rawDepth[d] # Images!NoFrame}, Images!Free({curr}))
        /\ content' = Images!Filled(prev', w.raw, Images!Free({curr}))
    BY <1>3, <2>2 DEF Images!LoadState
  <2>4. Spares({curr}, content, content', Images!Free({curr}))
    BY <2>1, <2>3, LoadGives
  <2> QED
    BY <1>1, <2>4 DEF Spares
<1>4. CASE content' = content
  BY <1>4
<1>5. Images!Track \/ Images!LoadState \/ content' = content
  BY DEF Images!Next, Images!TrackRefused, Images!GetState, Images!SaveState, Images!SlamTrack,
         Images!TakeKeyframe, Images!TakeImagesAgain, Images!Processed, Images!odometry
<1> QED
  BY <1>2, <1>3, <1>4, <1>5

\* No holder has more contexts of a pool than the pool has cameras.
LEMMA HeldOfPool ==
  ASSUME NEW s, Proper(s), NEW b \in BOOLEAN
  PROVE  /\ IsFiniteSet(Images!Held(s) \cap Images!Pool(b))
         /\ Cardinality(Images!Held(s) \cap Images!Pool(b)) \in Nat
         /\ Cardinality(Images!Held(s) \cap Images!Pool(b)) <= Cardinality(Kind(b))
<1> DEFINE T == Images!Held(s) \cap Images!Pool(b)
           D == {c \in Kind(b) : s[c] \in T}
           f == [c \in D |-> s[c]]
<1>1. f \in Surjection(D, T)
  <2>1. ASSUME NEW x \in T PROVE \E c \in D : f[c] = x
    <3>1. PICK c \in ImageCamera : s[c] = x
      BY DEF Images!Held
    <3>2. s[c] # Images!NoContext
      BY <3>1, PoolFacts
    <3>3. (c \in DepthCamera) \in BOOLEAN /\ s[c] \in Images!Pool(c \in DepthCamera)
      BY <3>2 DEF Proper
    <3>4. (c \in DepthCamera) = b
      BY <3>1, <3>3, PoolsApart
    <3>5. c \in Kind(b)
      BY <3>1, <3>4 DEF Kind
    <3> QED
      BY <3>1, <3>5
  <2>2. f \in [D -> T]
    OBVIOUS
  <2> HIDE DEF f, D, T
  <2> QED
    BY <2>1, <2>2 DEF Surjection
<1>2. IsFiniteSet(D) /\ Cardinality(D) <= Cardinality(Kind(b)) /\ Cardinality(D) \in Nat
      /\ Cardinality(Kind(b)) \in Nat
  <2>1. D \in SUBSET Kind(b)
    OBVIOUS
  <2> HIDE DEF D
  <2> QED
    BY <2>1, PoolFacts, FS_Subset, FS_CardinalityType
<1> HIDE DEF f, D, T
<1>3. IsFiniteSet(T) /\ Cardinality(T) <= Cardinality(D) /\ Cardinality(T) \in Nat
  BY <1>1, <1>2, FS_Surjection, FS_CardinalityType
<1>4. Cardinality(T) <= Cardinality(Kind(b))
  BY <1>2, <1>3
<1> QED
  BY <1>3, <1>4 DEF T

\* What three sets take from a finite one
LEMMA ThreeTaken ==
  ASSUME NEW P, IsFiniteSet(P), NEW A, NEW B, NEW C, NEW k \in Nat,
         IsFiniteSet(A), IsFiniteSet(B), IsFiniteSet(C), Cardinality(P) = 4 * k,
         Cardinality(A) <= k, Cardinality(B) <= k, Cardinality(C) <= k
  PROVE  Cardinality(P \ (A \cup B \cup C)) >= k
<1>1. IsFiniteSet(A \cup B) /\ Cardinality(A \cup B) <= 2 * k
  <2>1. Cardinality(A) \in Nat /\ Cardinality(B) \in Nat /\ Cardinality(A \cap B) \in Nat
    BY FS_CardinalityType, FS_Intersection
  <2>2. IsFiniteSet(A \cup B) /\ Cardinality(A \cup B) = Cardinality(A) + Cardinality(B) - Cardinality(A \cap B)
    BY FS_Union
  <2> QED
    BY <2>1, <2>2
<1> DEFINE U == A \cup B
           V == U \cup C
<1> HIDE DEF U
<1>2. IsFiniteSet(V) /\ Cardinality(V) <= 3 * k
  <2>0. IsFiniteSet(U) /\ Cardinality(U) <= 2 * k
    BY <1>1 DEF U
  <2>1. Cardinality(U) \in Nat /\ Cardinality(C) \in Nat /\ Cardinality(U \cap C) \in Nat
    BY <2>0, FS_CardinalityType, FS_Intersection
  <2>2. IsFiniteSet(U \cup C) /\ Cardinality(U \cup C) = Cardinality(U) + Cardinality(C) - Cardinality(U \cap C)
    BY <2>0, FS_Union
  <2> QED
    BY <2>0, <2>1, <2>2
<1> HIDE DEF V
<1>3. Cardinality(P \cap V) <= 3 * k /\ Cardinality(P \cap V) \in Nat
  <2>1. Cardinality(P \cap V) <= Cardinality(V) /\ IsFiniteSet(P \cap V)
    BY <1>2, FS_Intersection
  <2>2. Cardinality(P \cap V) \in Nat /\ Cardinality(V) \in Nat
    BY <1>2, <2>1, FS_CardinalityType
  <2> QED
    BY <1>2, <2>1, <2>2
<1>4. Cardinality(P \ V) = 4 * k - Cardinality(P \cap V)
  BY FS_Difference
<1>5. Cardinality(P \ V) >= k
  BY <1>3, <1>4
<1> QED
  BY <1>5 DEF V, U

\* Four contexts a camera: a frame that got none is one of a caller who keeps the
\* state of an earlier frame.
LEMMA FourSuffice == ImagesInv => Images!PoolSuffices
<1> SUFFICES ASSUME ImagesInv, imageResult' = "failed", Images!Track,
                    Images!Held(imageState.images) \subseteq Images!Held(prev) \cup {Images!NoContext}
             PROVE  FALSE
  BY DEF Images!PoolSuffices, Images!OldStateKept
<1>1. PICK asked \in FrameCameras :
        /\ contexts' = Images!Acquired(asked, DepthCamera \cap asked, Images!Free({prev}))
        /\ ~ (asked \subseteq {c \in ImageCamera : contexts'[c] # Images!NoContext})
  BY TrackIs
<1> DEFINE depths == DepthCamera \cap asked
           free == Images!Free({prev})
           got == contexts'
<1>2. asked \subseteq ImageCamera /\ free \subseteq Images!Context /\ got = Images!Acquired(asked, depths, free)
      /\ \E c \in asked : got[c] = Images!NoContext
  BY <1>1, CameraFacts DEF Images!Free
<1>3. PICK d \in asked : Cardinality(FreeFor(depths, free, d)) < Cardinality(Asking(asked, depths, d))
  <2> HIDE DEF depths, free, got
  <2> QED
    BY <1>2, AcquiredFacts
<1> DEFINE b == d \in DepthCamera
           k == Cardinality(Kind(b))
<1>4. b \in BOOLEAN /\ (d \in depths) = b
  OBVIOUS
<1>5. IsFiniteSet(Images!Pool(b)) /\ Cardinality(Images!Pool(b)) = 4 * k /\ k \in Nat
      /\ Images!Pool(b) \subseteq Images!Context /\ Images!NoContext \notin Images!Pool(b)
      /\ IsFiniteSet(Kind(b))
  BY <1>4, PoolFacts
<1>6. Asking(asked, depths, d) \subseteq Kind(b)
  BY <1>2, <1>4 DEF Asking, Kind
<1>7. Cardinality(Asking(asked, depths, d)) <= k /\ Cardinality(Asking(asked, depths, d)) \in Nat
      /\ Cardinality(FreeFor(depths, free, d)) \in Nat
  <2>1. Cardinality(Asking(asked, depths, d)) <= k
    BY <1>5, <1>6, FS_Subset
  <2>2. Cardinality(Asking(asked, depths, d)) \in Nat /\ Cardinality(FreeFor(depths, free, d)) \in Nat
    BY <1>2, AskingFacts
  <2> QED
    BY <2>1, <2>2
<1> DEFINE A == Images!Held(prev) \cap Images!Pool(b)
           B == Images!Held(processing) \cap Images!Pool(b)
           C == Images!Held(working) \cap Images!Pool(b)
<1>8. FreeFor(depths, free, d) = Images!Pool(b) \ (A \cup B \cup C)
  <2>1. free = Images!Context \ UNION {Images!Held(s) : s \in {prev} \cup {imageState.images, processing, working}}
    BY DEF Images!Free
  <2>2. UNION {Images!Held(s) : s \in {prev} \cup {imageState.images, processing, working}} =
          Images!Held(prev) \cup Images!Held(imageState.images) \cup Images!Held(processing) \cup Images!Held(working)
    OBVIOUS
  <2>3. FreeFor(depths, free, d) = free \cap Images!Pool(b)
    BY <1>4 DEF FreeFor
  <2> QED
    BY <1>5, <2>1, <2>2, <2>3
<1>9. IsFiniteSet(A) /\ Cardinality(A) <= k /\ IsFiniteSet(B) /\ Cardinality(B) <= k
      /\ IsFiniteSet(C) /\ Cardinality(C) <= k
  <2>1. Proper(prev) /\ Proper(processing) /\ Proper(working)
    BY DEF ImagesInv
  <2> HIDE DEF b
  <2> QED
    BY <1>4, <2>1, HeldOfPool
<1> HIDE DEF A, B, C, k, b, free, depths
<1>10. Cardinality(Images!Pool(b) \ (A \cup B \cup C)) >= k
  BY <1>5, <1>9, ThreeTaken
<1> QED
  BY <1>3, <1>5, <1>7, <1>8, <1>10

LEMMA ImagesStutter == ImagesInv /\ UNCHANGED images => ImagesInv'
<1> SUFFICES ASSUME ImagesInv, UNCHANGED images PROVE ImagesInv'
  OBVIOUS
<1>1. UNCHANGED <<frameId, imageResult, curr, prev, contexts, raw, rawDepth, content, imageState, written,
                  processing, working, queued, busy>>
  BY DEF images
<1>2. queued' \in 0 .. MaxQueue /\ busy' \in BOOLEAN
  BY <1>1 DEF ImagesInv, ImageTypes
<1> QED
  BY <1>1, <1>2, SlamInv

-----------------------------------------------------------------------------
(* The parts together                                                      *)

LEMMA LoopStutters == LoopInv /\ UNCHANGED loops => LoopInv'
<1> SUFFICES ASSUME LoopInv, UNCHANGED loops PROVE LoopInv'
  OBVIOUS
<1>1. UNCHANGED <<solver, phase, iteration, costs, current, systemOf, trial, given>>
  BY DEF loops
<1>2. (Loops!Cost)' = Loops!Cost /\ (Loops!At)' = Loops!At
  BY <1>1 DEF Loops!Cost, Loops!At
<1>3. LoopTypes'
  BY <1>1, <1>2 DEF LoopInv, LoopTypes
<1>4. Descending' /\ CurrentCost'
  BY <1>1, <1>2 DEF LoopInv, Descending, CurrentCost, Loops!Near, Loops!Less
<1>5. SystemOfLast'
  BY <1>1, <1>2 DEF LoopInv, SystemOfLast
<1>6. GivenWhile'
  BY <1>1, <1>2 DEF LoopInv, GivenWhile, Loops!Both
<1>7. GivenAfter'
  BY <1>1, <1>2 DEF LoopInv, GivenAfter, Loops!Both
<1> QED BY <1>1, <1>3, <1>4, <1>5, <1>6, <1>7 DEF LoopInv

LEMMA MonoStutters == MonoInv /\ UNCHANGED mono => MonoInv'
BY DEF MonoInv, mono, MonoTypes, Begun, Copied, Kept, Mono!NothingKeptInVain, Mono!PoseInThisMap

\* The invariant of the part that runs
PartsInv ==
  /\ part = "loops" => LoopInv /\ Judged
  /\ part = "mono" => MonoInv
  /\ part = "map" => UnifiedInv
  /\ part = "images" => ImagesInv

LEMMA PartsInit == Init => PartsInv
<1> SUFFICES ASSUME Init PROVE PartsInv
  OBVIOUS
<1>1. (part = "loops" => Loops!Init) /\ (part = "mono" => Mono!Init) /\ (part = "map" => Map!Init)
     /\ (part = "images" => Images!Init)
  BY DEF Init
<1> QED BY <1>1, LoopInit, JudgedInit, MonoInit, UnifiedInit, ImagesInit DEF PartsInv

LEMMA PartsStep == PartsInv /\ [Next]_vars => PartsInv'
<1> SUFFICES ASSUME PartsInv, [Next]_vars PROVE PartsInv'
  OBVIOUS
<1>1. CASE part = "loops" /\ Loops!Next /\ UNCHANGED <<part, mono, map, images>>
  BY <1>1, LoopStep, JudgedStep DEF PartsInv
<1>2. CASE part = "mono" /\ Mono!Next /\ UNCHANGED <<part, loops, map, images>>
  BY <1>2, MonoStep DEF PartsInv
<1>3. CASE part = "map" /\ Map!Next /\ UNCHANGED <<part, loops, mono, images>>
  BY <1>3, UnifiedStep DEF PartsInv
<1>4. CASE part = "images" /\ Images!Next /\ UNCHANGED <<part, loops, mono, map>>
  BY <1>4, ImagesStep DEF PartsInv
<1>5. CASE UNCHANGED vars
  <2>1. UNCHANGED part /\ UNCHANGED loops /\ UNCHANGED mono /\ UNCHANGED map /\ UNCHANGED images
    BY <1>5 DEF vars
  <2>2. LoopInv => LoopInv'
    BY <2>1, LoopStutters
  <2>6. Judged => Judged'
    BY <2>1 DEF loops, Judged, Loops!CountSkipped
  <2>3. MonoInv => MonoInv'
    BY <2>1, MonoStutters
  <2>4. UnifiedInv => UnifiedInv'
    BY <2>1, UnifiedStutters DEF map
  <2>5. ImagesInv => ImagesInv'
    BY <2>1, ImagesStutter
  <2> QED BY <2>1, <2>2, <2>3, <2>4, <2>5, <2>6 DEF PartsInv
<1> QED BY <1>1, <1>2, <1>3, <1>4, <1>5 DEF Next

\* Whatever the costs of its steps, a solver that reports success leaves a state that
\* is no worse than the first and hands every accepted step over, one that reports
\* failure leaves its caller's variables as they were where the code promises it, every
\* step is computed at the state it starts from, and a bundler that counts the
\* observations it skips neither starts from nor accepts a state without any
\* (cuda_modules/sba.cpp, sba_imu.cpp, imu/*, pnp/*, refinement/*, slam/*/pgo.cpp).
THEOREM SolversAreHonest == Spec => []SolversHonest
<1>1. PartsInv => SolversHonest
  BY LoopPromises, NoneInfeasible DEF PartsInv, SolversHonest
<1> QED BY PartsInit, PartsStep, <1>1, PTL DEF Spec

\* Whatever frames come, whatever is found in them and whenever the task ends, the map
\* of one camera (track_online_mono.cpp) holds what is looked up in it, its task loses
\* nothing that was added, and the frames that are kept for it are those since; the two
\* indexes of the map of several cameras (map.cpp) agree, a track has one landmark in
\* all its keyframes, all keyframes but the newest have a preintegration, and the
\* regular bundle adjustment (service_sba.h) reads no position that is not there.
THEOREM MapsAreKept == Spec => []MapsKept
<1>1. PartsInv => MapsKept
  BY MonoPromises, UnifiedPromises DEF PartsInv, MapsKept
<1> QED BY PartsInit, PartsStep, <1>1, PTL DEF Spec

\* Whatever frames come, whichever states the caller keeps and however far the SLAM
\* thread is behind, a set of images is of one frame, a state the caller keeps has the
\* images of its frame, no two cameras share a context, and a written state is no older
\* than the images the next frame is compared with (image_manager.cpp, cuvslam2.cpp).
THEOREM ImagesAreOfOneFrame == Spec => []ImagesOfOneFrame
<1>1. PartsInv => ImagesOfOneFrame
  BY ImagesPromises DEF PartsInv, ImagesOfOneFrame
<1> QED BY PartsInit, PartsStep, <1>1, PTL DEF Spec

\* No call fills a context the caller or the SLAM thread has, and, for any number of
\* cameras, four contexts a camera are enough for Track while the caller keeps no state
\* of an earlier frame (ImageManager::acquire, cuvslam2.cpp:786).
THEOREM HeldImagesAreKept == Spec => HeldImagesStay
<1>1. ASSUME PartsInv, [Next]_vars
      PROVE  [part = "images" => Images!ImagesUntouched /\ Images!PoolSuffices]_vars
  <2> SUFFICES ASSUME Next, part = "images" PROVE Images!ImagesUntouched /\ Images!PoolSuffices
    BY <1>1
  <2>1. Images!Next /\ ImagesInv
    BY <1>1 DEF Next, PartsInv
  <2> QED
    BY <2>1, ImagesAreSpared, FourSuffice
<1> QED BY PartsInit, PartsStep, <1>1, PTL DEF Spec, HeldImagesStay
=============================================================================
