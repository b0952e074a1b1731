----------------------- MODULE InertialTrackingProofs -----------------------
(***************************************************************************)
(* Proofs about InertialTracking, for any settings of the state machine    *)
(* and any capacity of the map.                                            *)
(***************************************************************************)
EXTENDS InertialTracking, FiniteSetTheorems, WellFoundedInduction, TLAPS

\* Nothing known to the tracker is younger than its last frame.
NothingIsYounger ==
  /\ broken <= clock /\ sm.lastOk <= clock
  /\ \A t \in sm.timeline : t <= clock
  /\ \A k \in keyframes : k <= clock

\* What a reset leaves behind.
FirstIsFresh == first => sm.timeline = {} /\ sm.state # "Ok"

\* An initialised state machine has located a frame not long before the last.
OkIsRecent == sm.state = "Ok" => clock - sm.lastOk <= MaxIntegration

\* The inductive invariant.
IInv ==
  /\ TypeOK /\ NothingIsYounger /\ FirstIsFresh
  /\ OkIsRecent /\ HealthyWhileInitialising /\ GravityKnownWhenOk

USE DEF Time

-----------------------------------------------------------------------------
(* The operators of the state machine                                      *)

\* A failed or dropped frame resets the machine, or leaves it Ok with its
\* timeline and within the integration time, or empties its timeline.
LEMMA InterruptedMachine ==
  ASSUME NEW m \in Machine, NEW ts \in Time
  PROVE  /\ Interrupted(m, ts) \in Machine
         /\ Interrupted(m, ts).timeline \subseteq m.timeline
         /\ Interrupted(m, ts).lastOk \in {m.lastOk, -1}
         /\ Interrupted(m, ts).state = "Ok" =>
              m.state = "Ok" /\ ts - Interrupted(m, ts).lastOk <= MaxIntegration
         /\ Interrupted(m, ts).state # "Ok" => Interrupted(m, ts).timeline = {}
BY InertialAssumption DEF Machine, Interrupted, Fresh

\* A located frame becomes the last one that was, its timeline takes in at most
\* that frame, and the machine turns Ok only when gravity was estimated.
LEMMA AcceptedMachine ==
  ASSUME NEW m \in Machine, NEW ts \in Time, NEW key, NEW est
  PROVE  /\ Accepted(m, ts, key, est) \in Machine
         /\ Accepted(m, ts, key, est).timeline \subseteq m.timeline \cup {ts}
         /\ Accepted(m, ts, key, est).lastOk = ts
         /\ Accepted(m, ts, key, est).state = "Ok" => m.state = "Ok" \/ est
         /\ m.state = "Ok" => Accepted(m, ts, key, est).state = "Ok"
<1> DEFINE a == Appended(m, ts, key)
<1>1. a \in Machine /\ a.timeline \subseteq m.timeline \cup {ts} /\ a.lastOk = ts
        /\ a.state = m.state
  BY DEF Machine, Appended
<1>2. Accepted(m, ts, key, est) \in {a, [a EXCEPT !.state = "Ok", !.lastGravity = ts],
        [a EXCEPT !.state = IF @ = "Ok" THEN @ ELSE "Initializing"]}
  BY DEF Accepted
<1>3. Accepted(m, ts, key, est) = [a EXCEPT !.state = "Ok", !.lastGravity = ts] =>
        est \/ Accepted(m, ts, key, est) = a \/ m.state = "Ok"
  BY <1>1 DEF Accepted, Machine
<1> QED BY <1>1, <1>2, <1>3 DEF Machine

\* A frame that is not a keyframe adds nothing to the timeline.
LEMMA AcceptedWithoutKeyframe ==
  ASSUME NEW m \in Machine, NEW ts \in Time, NEW est
  PROVE  Accepted(m, ts, FALSE, est).timeline \subseteq m.timeline
<1> DEFINE a == Appended(m, ts, FALSE)
<1>1. a \in Machine /\ a.timeline = m.timeline
  BY DEF Machine, Appended
<1>2. Accepted(m, ts, FALSE, est) \in {a, [a EXCEPT !.state = "Ok", !.lastGravity = ts],
        [a EXCEPT !.state = IF @ = "Ok" THEN @ ELSE "Initializing"]}
  BY DEF Accepted
<1> HIDE DEF a
<1> QED
  BY <1>1, <1>2 DEF Machine

\* The newest keyframe is never the one that makes room.
LEMMA NewKeyframeStays ==
  ASSUME TypeOK, NothingIsYounger, NEW ts \in Time, ts > clock
  PROVE  /\ WithKeyframe(ts) \subseteq keyframes \cup {ts}
         /\ ts \in WithKeyframe(ts)
<1>1. {j \in keyframes \cup {ts} : j > ts} = {}
  <2>1. ASSUME NEW j \in keyframes PROVE ~(j > ts)
    BY <2>1 DEF TypeOK, NothingIsYounger
  <2> QED BY <2>1
<1>2. Cardinality({j \in keyframes \cup {ts} : j > ts}) < Capacity
  BY <1>1, FS_EmptySet, InertialAssumption
<1> QED BY <1>2 DEF WithKeyframe

-----------------------------------------------------------------------------
(* Each kind of frame preserves the invariant                              *)

LEMMA ResetKeepsInv ==
  ASSUME IInv, NEW ts \in Time, ts > clock, UNCHANGED multisensor,
         Reset, clock' = ts, broken' = ts
  PROVE  IInv'
<1>1. sm' = Fresh /\ keyframes' = {} /\ gravity' = FALSE /\ first' = TRUE
  BY DEF Reset, SolverReset
<1>2. TypeOK'
  BY <1>1 DEF IInv, TypeOK, Fresh, Machine
<1>3. NothingIsYounger'
  BY <1>1 DEF NothingIsYounger, Fresh
<1>4. FirstIsFresh' /\ OkIsRecent'
  BY <1>1 DEF Fresh, FirstIsFresh, OkIsRecent
<1>5. HealthyWhileInitialising' /\ GravityKnownWhenOk'
  BY <1>1 DEF Fresh, HealthyWhileInitialising, GravityKnownWhenOk
<1> QED BY <1>2, <1>3, <1>4, <1>5 DEF IInv

LEMMA FirstFrameKeepsInv ==
  ASSUME IInv, NEW ts \in Time, ts > clock, UNCHANGED multisensor,
         NEW key \in BOOLEAN, FirstFrame(ts, key)
  PROVE  IInv'
<1>1. sm \in Machine
  BY DEF IInv, TypeOK, Machine
<1>2. keyframes' \subseteq keyframes \cup {ts}
  BY NewKeyframeStays DEF FirstFrame, IInv
<1>3. sm' \in Machine /\ sm'.timeline = {} /\ sm'.state # "Ok" /\ sm'.lastOk <= ts
  BY <1>1, InterruptedMachine DEF FirstFrame, IInv, FirstIsFresh, NothingIsYounger, TypeOK, Machine
<1>5. TypeOK'
  BY <1>2, <1>3 DEF FirstFrame, IInv, TypeOK
<1>6. NothingIsYounger'
  BY <1>2, <1>3 DEF FirstFrame, IInv, TypeOK, NothingIsYounger, Machine
<1>7. FirstIsFresh' /\ OkIsRecent'
  BY <1>2, <1>3 DEF FirstFrame, IInv, FirstIsFresh, OkIsRecent, Machine
<1>8. HealthyWhileInitialising' /\ GravityKnownWhenOk'
  BY <1>2, <1>3 DEF FirstFrame, IInv, TypeOK, HealthyWhileInitialising, GravityKnownWhenOk
<1> QED BY <1>5, <1>6, <1>7, <1>8 DEF IInv

LEMMA IntegratedKeepsInv ==
  ASSUME IInv, NEW ts \in Time, ts > clock, UNCHANGED multisensor,
         NEW key \in BOOLEAN, Integrated(ts, key)
  PROVE  IInv'
<1>1. sm \in Machine
  BY DEF IInv, TypeOK, Machine
<1>2. keyframes' \subseteq keyframes \cup {ts} /\ (keyframes # {} => keyframes' # {})
  BY NewKeyframeStays DEF Integrated, IInv
<1>3. /\ sm' \in Machine /\ sm'.timeline \subseteq sm.timeline
      /\ sm'.lastOk \in {sm.lastOk, -1}
      /\ sm'.state = "Ok" => sm.state = "Ok" /\ ts - sm'.lastOk <= MaxIntegration
      /\ sm'.state # "Ok" => sm'.timeline = {}
  BY <1>1, InterruptedMachine DEF Integrated
<1>5. TypeOK'
  BY <1>1, <1>2, <1>3 DEF Integrated, IInv, TypeOK
<1>6. NothingIsYounger'
  BY <1>1, <1>2, <1>3 DEF Integrated, IInv, TypeOK, NothingIsYounger, Machine
<1>7. FirstIsFresh' /\ OkIsRecent'
  BY <1>1, <1>2, <1>3 DEF Integrated, IInv, FirstIsFresh, OkIsRecent, Machine
<1>8. HealthyWhileInitialising' /\ GravityKnownWhenOk'
  BY <1>1, <1>2, <1>3 DEF Integrated, IInv, TypeOK, HealthyWhileInitialising, GravityKnownWhenOk
<1> QED BY <1>5, <1>6, <1>7, <1>8 DEF IInv

LEMMA LocatedKeepsInv ==
  ASSUME IInv, NEW ts \in Time, ts > clock, UNCHANGED multisensor,
         NEW key \in BOOLEAN, NEW dropped \in BOOLEAN, NEW converges \in BOOLEAN,
         Located(ts, key, dropped, converges)
  PROVE  IInv'
<1>1. sm \in Machine
  BY DEF IInv, TypeOK, Machine
<1>2. keyframes' \subseteq keyframes \cup {ts} /\ keyframes' # {}
  BY NewKeyframeStays DEF Located, IInv
<1>3. CASE dropped
  <2>1. /\ sm' \in Machine /\ sm'.timeline \subseteq sm.timeline
        /\ sm'.lastOk \in {sm.lastOk, -1}
        /\ sm'.state = "Ok" => sm.state = "Ok" /\ ts - sm'.lastOk <= MaxIntegration
        /\ sm'.state # "Ok" => sm'.timeline = {}
    BY <1>1, <1>3, InterruptedMachine DEF Located
  <2>3. TypeOK'
    BY <1>1, <1>2, <1>3, <2>1 DEF Located, IInv, TypeOK
  <2>4. NothingIsYounger'
    BY <1>1, <1>2, <1>3, <2>1 DEF Located, IInv, TypeOK, NothingIsYounger, Machine
  <2>5. FirstIsFresh' /\ OkIsRecent'
    BY <1>1, <1>2, <1>3, <2>1 DEF Located, IInv, FirstIsFresh, OkIsRecent, Machine
  <2>6. HealthyWhileInitialising' /\ GravityKnownWhenOk'
    BY <1>1, <1>2, <1>3, <2>1 DEF Located, IInv, TypeOK, HealthyWhileInitialising, GravityKnownWhenOk
  <2> QED BY <2>3, <2>4, <2>5, <2>6 DEF IInv
<1>4. CASE ~dropped
  <2>2. PICK est \in BOOLEAN :
          sm' = Accepted(sm, ts, key, est) /\ gravity' = (gravity \/ est) /\ broken' = broken
    BY <1>4 DEF Located, Estimates
  <2>3. /\ sm' \in Machine /\ sm'.timeline \subseteq sm.timeline \cup {ts}
        /\ sm'.lastOk = ts
        /\ sm'.state = "Ok" => sm.state = "Ok" \/ est
        /\ sm.state = "Ok" => sm'.state = "Ok"
    <3> DEFINE m == Accepted(sm, ts, key, est)
    <3>1. /\ m \in Machine /\ m.timeline \subseteq sm.timeline \cup {ts}
          /\ m.lastOk = ts
          /\ m.state = "Ok" => sm.state = "Ok" \/ est
          /\ sm.state = "Ok" => m.state = "Ok"
      BY <1>1, AcceptedMachine
    <3> HIDE DEF m
    <3> QED BY <2>2, <3>1 DEF m
  <2>4. gravity' \in BOOLEAN /\ (sm'.state = "Ok" => gravity')
    BY <2>2, <2>3 DEF IInv, TypeOK, GravityKnownWhenOk
  <2>5. TypeOK'
    BY <1>2, <2>2, <2>3, <2>4 DEF IInv, TypeOK, Located, Machine
  <2>6. NothingIsYounger'
    BY <1>1, <1>2, <2>2, <2>3 DEF IInv, TypeOK, NothingIsYounger, Located, Machine
  <2>7. HealthyWhileInitialising'
    BY <1>1, <2>2, <2>3 DEF IInv, TypeOK, NothingIsYounger, HealthyWhileInitialising, Machine
  <2>8. FirstIsFresh' /\ OkIsRecent'
    BY <2>3, InertialAssumption DEF Located, FirstIsFresh, OkIsRecent
  <2> QED BY <1>2, <2>4, <2>5, <2>6, <2>7, <2>8 DEF IInv, GravityKnownWhenOk
<1> QED BY <1>3, <1>4

\* The invariant is inductive.
LEMMA InvInductive ==
  /\ Init => IInv
  /\ IInv /\ [Next]_vars => IInv'
<1>1. Init => IInv
  <2> SUFFICES ASSUME Init PROVE IInv
    OBVIOUS
  <2>1. TypeOK
    BY DEF Init, Fresh, Machine, TypeOK
  <2>2. NothingIsYounger /\ FirstIsFresh /\ OkIsRecent
    BY DEF Init, Fresh, NothingIsYounger, FirstIsFresh, OkIsRecent
  <2>3. HealthyWhileInitialising /\ GravityKnownWhenOk
    BY DEF Init, Fresh, HealthyWhileInitialising, GravityKnownWhenOk
  <2> QED BY <2>1, <2>2, <2>3 DEF IInv
<1>2. IInv /\ [Next]_vars => IInv'
  <2> SUFFICES ASSUME IInv, [Next]_vars PROVE IInv'
    OBVIOUS
  <2>1. CASE UNCHANGED vars
    BY <2>1 DEF vars, IInv, TypeOK, NothingIsYounger, FirstIsFresh, OkIsRecent,
       HealthyWhileInitialising, GravityKnownWhenOk
  <2>2. CASE Next
    <3>1. PICK ts \in Time : ts > clock /\
            \/ FeaturesLost(ts)
            \/ Lost(ts)
            \/ \E key \in BOOLEAN :
                 \/ FirstFrame(ts, key)
                 \/ Integrated(ts, key)
                 \/ \E dropped, converges \in BOOLEAN : Located(ts, key, dropped, converges)
      BY <2>2 DEF Next
    <3>2. UNCHANGED multisensor
      BY <2>2 DEF Next
    <3>3. CASE FeaturesLost(ts)
      BY <3>1, <3>2, <3>3, ResetKeepsInv DEF FeaturesLost
    <3>4. CASE Lost(ts)
      BY <3>1, <3>2, <3>4, ResetKeepsInv DEF Lost
    <3>5. ASSUME NEW key \in BOOLEAN, FirstFrame(ts, key) PROVE IInv'
      BY <3>1, <3>2, <3>5, FirstFrameKeepsInv
    <3>6. ASSUME NEW key \in BOOLEAN, Integrated(ts, key) PROVE IInv'
      BY <3>1, <3>2, <3>6, IntegratedKeepsInv
    <3>7. ASSUME NEW key \in BOOLEAN, NEW dropped \in BOOLEAN, NEW converges \in BOOLEAN,
                 Located(ts, key, dropped, converges)
          PROVE IInv'
      BY <3>1, <3>2, <3>7, LocatedKeepsInv
    <3> QED BY <3>1, <3>3, <3>4, <3>5, <3>6, <3>7
  <2> QED BY <2>1, <2>2
<1> QED BY <1>1, <1>2

LEMMA InvHolds == Spec => []IInv
BY InvInductive, PTL DEF Spec

-----------------------------------------------------------------------------

\* The state machine, the map and the flags keep their types.
THEOREM InertialTypes == Spec => []TypeOK
BY InvHolds, PTL DEF IInv

\* The assertion before the inertial PnP, and every use of the gravity to
\* integrate a pose: while the state machine is Ok the map has keyframes and
\* a gravity, whatever fails, is dropped, times out or is reset.
THEOREM GravityKnown == Spec => []GravityKnownWhenOk
BY InvHolds, PTL DEF IInv

\* on_event clears the timeline whenever the stretch of healthy frames breaks.
THEOREM TimelineHealthy == Spec => []HealthyWhileInitialising
BY InvHolds, PTL DEF IInv

\* No pose is integrated once the previous frame is too far from the last one
\* that was located, whichever side of the event the loop reads the state.
THEOREM IntegrationBrief == Spec => IntegrationIsBrief
<1>1. IInv /\ [Next]_vars =>
        [\A ts \in Time, key \in BOOLEAN :
           Integrated(ts, key) => clock - sm.lastOk <= MaxIntegration]_vars
  <2> SUFFICES ASSUME IInv, NEW ts \in Time, NEW key \in BOOLEAN, Integrated(ts, key)
               PROVE  clock - sm.lastOk <= MaxIntegration
    OBVIOUS
  <2>1. sm \in Machine
    BY DEF IInv, TypeOK, Machine
  <2>2. sm.state = "Ok"
    BY <2>1, InterruptedMachine DEF Integrated, MayIntegrate
  <2> QED BY <2>2 DEF IInv, OkIsRecent
<1> QED BY <1>1, InvHolds, PTL DEF Spec, IntegrationIsBrief

-----------------------------------------------------------------------------
(***************************************************************************)
(* The timeline of the state machine and the keyframes of the map.  They   *)
(* drop entries by different rules, the timeline by age and the map by     *)
(* number; to compare them the invariant also says that the map is within  *)
(* its capacity and, until it is full, still holds the keyframe that       *)
(* founded it, which the timeline never counted.                           *)
(***************************************************************************)
AtCapacity == Cardinality(keyframes) <= Capacity
FounderInMap ==
  keyframes # {} =>
    Cardinality(keyframes) = Capacity \/ \E k \in keyframes : k \notin sm.timeline

MapInv == AtCapacity /\ FounderInMap /\ TimelineInMap

\* A nonempty set of natural numbers has a least element.
LEMMA LeastElement ==
  ASSUME NEW X, X \subseteq Nat, X # {}
  PROVE  \E m \in X : \A i \in X : m <= i
<1> DEFINE R == {ss \in Nat \X Nat : ss[1] < ss[2]}
<1>1. IsWellFoundedOn(R, Nat)
  BY NatLessThanWellFounded DEF OpToRel
<1> HIDE DEF R
<1>2. PICK m \in X : \A i \in X : <<i, m>> \notin R
  BY <1>1, WFMin
<1>3. ASSUME NEW i \in X PROVE m <= i
  <2>1. i \in Nat /\ m \in Nat /\ <<i, m>> \in Nat \X Nat
    OBVIOUS
  <2>2. <<i, m>>[1] = i /\ <<i, m>>[2] = m
    OBVIOUS
  <2>3. ~ (i < m)
    BY <1>2, <2>1, <2>2 DEF R
  <2> QED
    BY <2>1, <2>3
<1> QED
  BY <1>3

LEMMA TimesAreFinite ==
  ASSUME NEW S \in SUBSET Time
  PROVE  IsFiniteSet(S) /\ Cardinality(S) \in Nat
<1>1. IsFiniteSet(Time)
  BY FS_Interval, InertialAssumption
<1> QED
  BY <1>1, FS_Subset, FS_CardinalityType

\* A keyframe in the full map takes the place of the oldest one.
LEMMA KeyframesMakeRoom ==
  ASSUME TypeOK, NothingIsYounger, AtCapacity, NEW ts \in Time, ts > clock
  PROVE  /\ Cardinality(WithKeyframe(ts)) <= Capacity
         /\ \/ Cardinality(keyframes) < Capacity /\ WithKeyframe(ts) = keyframes \cup {ts}
            \/ /\ Cardinality(keyframes) = Capacity
               /\ Cardinality(WithKeyframe(ts)) = Capacity
               /\ \E m \in keyframes :
                    /\ \A k \in keyframes : m <= k
                    /\ WithKeyframe(ts) = (keyframes \cup {ts}) \ {m}
<1> DEFINE all == keyframes \cup {ts}
           Newer(k) == {j \in all : j > k}
<1>1. keyframes \in SUBSET Time /\ all \in SUBSET Time /\ ts \in Nat /\ Capacity \in Nat /\ Capacity > 0
      /\ all \subseteq Nat
  BY InertialAssumption DEF TypeOK
<1>2. ts \notin keyframes /\ \A k \in keyframes : k < ts
  BY <1>1 DEF TypeOK, NothingIsYounger
<1>3. /\ IsFiniteSet(all) /\ IsFiniteSet(keyframes) /\ Cardinality(keyframes) \in Nat
      /\ Cardinality(all) = Cardinality(keyframes) + 1
  BY <1>1, <1>2, TimesAreFinite, FS_AddElement
<1>4. WithKeyframe(ts) = {k \in all : Cardinality(Newer(k)) < Capacity}
  BY DEF WithKeyframe
<1>5. ASSUME NEW k \in all
      PROVE  Cardinality(Newer(k)) \in Nat /\ Cardinality(Newer(k)) <= Cardinality(keyframes)
  <2>1. Newer(k) \in SUBSET (all \ {k}) /\ Newer(k) \in SUBSET Time
    <3>1. \A j \in all : j > k => j # k
      BY <1>1
    <3> QED
      BY <1>1, <3>1
  <2>2. IsFiniteSet(all \ {k}) /\ Cardinality(all \ {k}) = Cardinality(keyframes)
    BY <1>3, FS_RemoveElement
  <2> QED
    BY <2>1, <2>2, FS_Subset, TimesAreFinite
<1>6. CASE Cardinality(keyframes) < Capacity
  <2>1. \A k \in all : Cardinality(Newer(k)) < Capacity
    <3> HIDE DEF Newer, all
    <3> QED
      BY <1>1, <1>3, <1>5, <1>6
  <2>2. WithKeyframe(ts) = all
    BY <1>4, <2>1
  <2> QED
    BY <1>1, <1>3, <1>6, <2>2
<1>7. CASE Cardinality(keyframes) = Capacity
  <2>1. keyframes # {}
    BY <1>1, <1>7, FS_EmptySet
  <2>2. PICK m \in keyframes : \A k \in keyframes : m <= k
    <3>1. keyframes \subseteq Nat
      BY <1>1
    <3> QED
      BY <2>1, <3>1, LeastElement
  <2>3. \A k \in all : m <= k
    BY <1>1, <1>2, <2>2
  <2>4. Newer(m) = all \ {m}
    <3>1. \A k \in all : k > m <=> k # m
      BY <1>1, <2>2, <2>3
    <3> QED
      BY <3>1
  <2>5. Cardinality(all \ {m}) = Capacity
    <3>1. m \in all
      OBVIOUS
    <3> HIDE DEF all
    <3> QED
      <4>1. Cardinality(all \ {m}) = Cardinality(all) - 1
        BY <1>3, <3>1, FS_RemoveElement
      <4> QED
        BY <1>1, <1>3, <1>7, <4>1
  <2>6. ASSUME NEW k \in all, k # m PROVE Cardinality(Newer(k)) < Capacity
    <3>1. Newer(k) \in SUBSET ((all \ {m}) \ {k})
      BY <1>1, <2>3
    <3>2. k \in all \ {m} /\ IsFiniteSet(all \ {m})
      BY <1>3, <2>6, FS_RemoveElement
    <3>3. IsFiniteSet((all \ {m}) \ {k}) /\ Cardinality((all \ {m}) \ {k}) = Capacity - 1
      BY <2>5, <3>2, FS_RemoveElement
    <3>4. Cardinality(Newer(k)) <= Capacity - 1
      BY <3>1, <3>3, FS_Subset
    <3> QED
      BY <1>1, <1>5, <3>4
  <2>7. WithKeyframe(ts) = all \ {m}
    <3>1. ~ (Cardinality(Newer(m)) < Capacity)
      BY <1>1, <2>4, <2>5
    <3> HIDE DEF Newer, all
    <3> QED
      BY <1>4, <2>6, <3>1
  <2> QED
    BY <1>1, <1>7, <2>2, <2>5, <2>7
<1> QED
  BY <1>1, <1>3, <1>6, <1>7 DEF AtCapacity

\* Steps that change the map and the timeline as a frame does: the map takes
\* in the frame if it is a keyframe, the timeline at most what the map did.
LEMMA FrameKeepsMapInv ==
  ASSUME IInv, MapInv, NEW ts \in Time, ts > clock, sm' \in Machine,
         \/ keyframes' = keyframes /\ sm'.timeline \subseteq sm.timeline
         \/ keyframes' = WithKeyframe(ts) /\ sm'.timeline \subseteq sm.timeline \cup {ts},
         keyframes = {} => sm'.timeline = {}
  PROVE  MapInv'
<1>1. TypeOK /\ NothingIsYounger /\ AtCapacity /\ FounderInMap /\ TimelineInMap
      /\ sm.timeline \in SUBSET Time /\ keyframes \in SUBSET Time
  BY DEF IInv, MapInv, TypeOK, Machine
<1>2. CASE keyframes' = keyframes /\ sm'.timeline \subseteq sm.timeline
  BY <1>1, <1>2 DEF MapInv, AtCapacity, FounderInMap, TimelineInMap
<1>3. CASE keyframes' = WithKeyframe(ts) /\ sm'.timeline \subseteq sm.timeline \cup {ts}
  <2>1. /\ Cardinality(keyframes') <= Capacity
        /\ \/ Cardinality(keyframes) < Capacity /\ keyframes' = keyframes \cup {ts}
           \/ /\ Cardinality(keyframes) = Capacity
              /\ Cardinality(keyframes') = Capacity
              /\ \E m \in keyframes :
                   /\ \A k \in keyframes : m <= k
                   /\ keyframes' = (keyframes \cup {ts}) \ {m}
    BY <1>1, <1>3, KeyframesMakeRoom
  <2>2. /\ ts \in Int /\ \A t \in sm.timeline : t < ts /\ t \in Int
        /\ \A k \in keyframes : k < ts /\ k \in Int
    BY <1>1 DEF NothingIsYounger, TypeOK
  <2>3. CASE Cardinality(keyframes) < Capacity /\ keyframes' = keyframes \cup {ts}
    <3>0. ~ (Cardinality(keyframes) = Capacity)
      BY <1>1, <2>3, TimesAreFinite, InertialAssumption
    <3>1. TimelineInMap'
      BY <1>1, <1>3, <2>3, <3>0 DEF TimelineInMap
    <3>2. FounderInMap'
      <4>1. CASE keyframes = {}
        BY <2>3, <4>1 DEF FounderInMap
      <4>2. CASE keyframes # {}
        <5>1. PICK k \in keyframes : k \notin sm.timeline
          BY <1>1, <3>0, <4>2 DEF FounderInMap
        <5>2. k \in keyframes' /\ k \notin sm'.timeline
          BY <1>3, <2>2, <2>3, <5>1
        <5> QED
          BY <5>2 DEF FounderInMap
      <4> QED
        BY <4>1, <4>2
    <3> QED
      BY <2>1, <3>1, <3>2 DEF MapInv, AtCapacity
  <2>4. ASSUME Cardinality(keyframes') = Capacity,
               NEW m \in keyframes, \A k \in keyframes : m <= k,
               keyframes' = (keyframes \cup {ts}) \ {m}
        PROVE  MapInv'
    <3>1. ASSUME NEW t \in sm'.timeline
          PROVE  t \in keyframes' \/ \A k \in keyframes' : t < k
      <4>1. CASE t = ts
        BY <2>2, <2>4, <4>1
      <4>2. CASE t \in sm.timeline /\ t \in keyframes /\ t # m
        BY <2>4, <4>2
      <4>3. CASE t = m
        <5>1. ASSUME NEW k \in keyframes' PROVE t < k
          <6>1. k = ts \/ (k \in keyframes /\ k # m)
            BY <2>4
          <6> QED
            BY <2>2, <2>4, <4>3, <6>1
        <5> QED
          BY <5>1
      <4>4. CASE t \in sm.timeline /\ t \notin keyframes
        <5>1. \A k \in keyframes : t < k
          BY <1>1, <4>4 DEF TimelineInMap
        <5>2. t < ts
          BY <2>2, <4>4
        <5> QED
          BY <2>4, <5>1, <5>2
      <4> QED
        BY <1>3, <4>1, <4>2, <4>3, <4>4
    <3>2. TimelineInMap'
      BY <2>4, <3>1 DEF TimelineInMap
    <3> QED
      BY <2>1, <2>4, <3>2 DEF MapInv, AtCapacity, FounderInMap
  <2> QED
    BY <2>1, <2>3, <2>4
<1> QED
  BY <1>2, <1>3

LEMMA MapInvInductive ==
  /\ Init => MapInv
  /\ IInv /\ MapInv /\ [Next]_vars => MapInv'
<1>1. ASSUME Init PROVE MapInv
  <2>1. keyframes = {} /\ sm.timeline = {} /\ Cardinality(keyframes) = 0
    BY <1>1, FS_EmptySet DEF Init, Fresh
  <2> QED
    BY <2>1, InertialAssumption DEF MapInv, AtCapacity, FounderInMap, TimelineInMap
<1>2. ASSUME IInv, MapInv, [Next]_vars PROVE MapInv'
  <2>1. CASE UNCHANGED vars
    BY <1>2, <2>1 DEF vars, MapInv, AtCapacity, FounderInMap, TimelineInMap
  <2>2. ASSUME Reset PROVE MapInv'
    <3>1. keyframes' = {} /\ sm'.timeline = {} /\ Cardinality(keyframes') = 0
      BY <2>2, FS_EmptySet DEF Reset, SolverReset, Fresh
    <3> QED
      BY <3>1, InertialAssumption DEF MapInv, AtCapacity, FounderInMap, TimelineInMap
  <2>3. sm \in Machine /\ sm' \in Machine
    <3>1. IInv'
      BY <1>2, InvInductive
    <3> QED
      BY <1>2, <3>1 DEF IInv, TypeOK, Machine
  <2>4. ASSUME NEW ts \in Time, ts > clock, NEW key \in BOOLEAN,
               FirstFrame(ts, key) \/ Integrated(ts, key)
        PROVE  MapInv'
    <3>1. sm' = Interrupted(sm, ts) /\ (keyframes' = keyframes \/ keyframes' = WithKeyframe(ts))
      BY <2>4 DEF FirstFrame, Integrated
    <3>2. sm'.timeline \subseteq sm.timeline
      BY <2>3, <3>1, InterruptedMachine
    <3>3. keyframes = {} => sm'.timeline = {}
      <4>1. CASE FirstFrame(ts, key)
        BY <1>2, <3>2, <4>1 DEF FirstFrame, IInv, FirstIsFresh
      <4>2. CASE Integrated(ts, key)
        <5>1. sm.state = "Ok"
          BY <2>3, <4>2, InterruptedMachine DEF Integrated, MayIntegrate
        <5> QED
          BY <1>2, <5>1 DEF IInv, GravityKnownWhenOk
      <4> QED
        BY <2>4, <4>1, <4>2
    <3> QED
      BY <1>2, <2>3, <2>4, <3>1, <3>2, <3>3, FrameKeepsMapInv
  <2>5. ASSUME NEW ts \in Time, ts > clock, NEW key \in BOOLEAN, NEW dropped \in BOOLEAN,
               NEW converges \in BOOLEAN, Located(ts, key, dropped, converges)
        PROVE  MapInv'
    <3>1. /\ keyframes # {} /\ keyframes' = IF key THEN WithKeyframe(ts) ELSE keyframes
          /\ \/ sm' = Interrupted(sm, ts)
             \/ sm' = Accepted(sm, ts, key, Estimates(key, ts, converges))
      BY <2>5 DEF Located
    <3>2. sm'.timeline \subseteq sm.timeline \/ (key /\ sm'.timeline \subseteq sm.timeline \cup {ts})
      <4> DEFINE est == Estimates(key, ts, converges)
      <4> HIDE DEF est
      <4>1. CASE sm' = Interrupted(sm, ts)
        BY <2>3, <4>1, InterruptedMachine
      <4>2. CASE sm' = Accepted(sm, ts, key, est) /\ key
        <5> DEFINE m == Accepted(sm, ts, key, est)
        <5>1. m.timeline \subseteq sm.timeline \cup {ts}
          BY <2>3, AcceptedMachine
        <5> HIDE DEF m
        <5> QED
          BY <4>2, <5>1 DEF m
      <4>3. CASE sm' = Accepted(sm, ts, key, est) /\ ~ key
        <5>1. key = FALSE
          BY <4>3
        <5>2. Accepted(sm, ts, FALSE, est).timeline \subseteq sm.timeline
          BY <2>3, AcceptedWithoutKeyframe
        <5> QED
          BY <4>3, <5>1, <5>2
      <4> QED
        BY <3>1, <4>1, <4>2, <4>3 DEF est
    <3>3. \/ keyframes' = keyframes /\ sm'.timeline \subseteq sm.timeline
          \/ keyframes' = WithKeyframe(ts) /\ sm'.timeline \subseteq sm.timeline \cup {ts}
      BY <3>1, <3>2
    <3> QED
      BY <1>2, <2>3, <2>5, <3>1, <3>3, FrameKeepsMapInv
  <2> QED
    BY <1>2, <2>1, <2>2, <2>4, <2>5 DEF Next, FeaturesLost, Lost
<1> QED
  BY <1>1, <1>2

LEMMA MapInvHolds == Spec => []MapInv
BY InvHolds, MapInvInductive, PTL DEF Spec

\* What the timeline counts is in the map or has made room for newer keyframes,
\* so a timeline that is long enough never outruns the map (on_event,
\* add_keyframe).
THEOREM TimelineIsInMap == Spec => []TimelineInMap
BY MapInvHolds, PTL DEF MapInv

\* When the state machine asks for gravity the map has enough keyframes for the
\* callback, which does not count the current one (gravity_estimation_callback).
THEOREM EstimatorHasKeyframes == Spec => EstimatorFindsKeyframes
<1> DEFINE Due == /\ sm'.lastOk = clock' /\ sm'.lastOk > sm.lastOk
                  /\ EstimationDue([sm' EXCEPT !.state = sm.state, !.lastGravity = sm.lastGravity], clock')
<1>1. ASSUME IInv, MapInv, Next, Due PROVE Cardinality(keyframes) >= MinKeyframes
  <2>1. sm \in Machine /\ sm' \in Machine /\ keyframes \in SUBSET Time
    <3>1. IInv'
      BY <1>1, InvInductive
    <3> QED
      BY <1>1, <3>1 DEF IInv, TypeOK, Machine
  <2>2. Cardinality(sm'.timeline) >= MinKeyframes
    BY <1>1, <2>1 DEF EstimationDue, ReadyToInit, Machine
  <2>4. PICK ts \in Time : ts > clock /\ clock' = ts /\ keyframes # {}
                           /\ sm'.timeline \subseteq sm.timeline \cup {ts}
    <3>1. ASSUME NEW ts \in Time, sm' = Interrupted(sm, ts), clock' = ts PROVE FALSE
      BY <1>1, <2>1, <3>1, InterruptedMachine DEF Machine
    <3>2. ASSUME NEW ts \in Time, Reset, clock' = ts PROVE FALSE
      BY <1>1, <3>2 DEF Reset, SolverReset, Fresh
    <3>3. ASSUME NEW ts \in Time, ts > clock, NEW key \in BOOLEAN, NEW dropped \in BOOLEAN,
                 NEW converges \in BOOLEAN, Located(ts, key, dropped, converges)
          PROVE  clock' = ts /\ keyframes # {} /\ sm'.timeline \subseteq sm.timeline \cup {ts}
      <4> DEFINE est == Estimates(key, ts, converges)
      <4> HIDE DEF est
      <4>1. /\ keyframes # {} /\ clock' = ts
            /\ sm' = Interrupted(sm, ts) \/ sm' = Accepted(sm, ts, key, est)
        BY <3>3 DEF Located, est
      <4>2. CASE sm' = Interrupted(sm, ts)
        BY <3>1, <4>1, <4>2
      <4>3. CASE sm' = Accepted(sm, ts, key, est)
        <5> DEFINE m == Accepted(sm, ts, key, est)
        <5>1. m.timeline \subseteq sm.timeline \cup {ts}
          BY <2>1, AcceptedMachine
        <5> HIDE DEF m
        <5> QED
          BY <4>1, <4>3, <5>1 DEF m
      <4> QED
        BY <4>1, <4>2, <4>3
    <3> QED
      BY <1>1, <3>1, <3>2, <3>3 DEF Next, FeaturesLost, Lost, FirstFrame, Integrated
  <2>5. /\ IsFiniteSet(keyframes) /\ Cardinality(keyframes) \in Nat
        /\ IsFiniteSet(sm.timeline) /\ Cardinality(sm.timeline) \in Nat
        /\ IsFiniteSet(sm'.timeline) /\ Cardinality(sm'.timeline) \in Nat
    BY <2>1, TimesAreFinite DEF Machine
  <2>6. CASE Cardinality(keyframes) = Capacity
    BY <2>6, InertialAssumption
  <2>7. CASE Cardinality(keyframes) # Capacity
    <3>1. PICK k \in keyframes : k \notin sm.timeline
      BY <1>1, <2>4, <2>7 DEF MapInv, FounderInMap
    <3>2. sm.timeline \cup {k} \in SUBSET keyframes
      BY <1>1, <2>7, <3>1 DEF MapInv, TimelineInMap
    <3>3. Cardinality(sm.timeline \cup {k}) = Cardinality(sm.timeline) + 1
      BY <2>5, <3>1, FS_AddElement
    <3>4. Cardinality(sm.timeline) + 1 <= Cardinality(keyframes)
      BY <2>5, <3>2, <3>3, FS_Subset
    <3>5. IsFiniteSet(sm.timeline \cup {ts}) /\ Cardinality(sm.timeline \cup {ts}) \in Nat
          /\ Cardinality(sm.timeline \cup {ts}) <= Cardinality(sm.timeline) + 1
      <4> DEFINE T == sm.timeline
      <4>1. IsFiniteSet(T) /\ Cardinality(T) \in Nat
        BY <2>5
      <4> HIDE DEF T
      <4>2. /\ IsFiniteSet(T \cup {ts})
            /\ Cardinality(T \cup {ts}) = IF ts \in T THEN Cardinality(T) ELSE Cardinality(T) + 1
        BY <4>1, FS_AddElement
      <4>3. Cardinality(T \cup {ts}) = Cardinality(T) \/ Cardinality(T \cup {ts}) = Cardinality(T) + 1
        BY <4>2
      <4> QED
        BY <4>1, <4>2, <4>3 DEF T
    <3>6. Cardinality(sm'.timeline) <= Cardinality(sm.timeline \cup {ts})
      BY <2>4, <3>5, FS_Subset
    <3> QED
      BY <2>2, <2>5, <3>4, <3>5, <3>6, InertialAssumption
  <2> QED
    BY <2>6, <2>7
<1>2. IInv /\ MapInv /\ [Next]_vars =>
        [sm'.lastOk = clock' /\ sm'.lastOk > sm.lastOk
           /\ EstimationDue([sm' EXCEPT !.state = sm.state, !.lastGravity = sm.lastGravity], clock')
         => Cardinality(keyframes) >= MinKeyframes]_vars
  BY <1>1
<1> QED
  BY <1>2, InvHolds, MapInvHolds, PTL DEF Spec, EstimatorFindsKeyframes
=============================================================================
