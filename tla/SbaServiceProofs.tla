-------------------------- MODULE SbaServiceProofs --------------------------
(***************************************************************************)
(* Proofs about the bundle adjustment service, for any settings, capacity  *)
(* and interruptions, with or without a worker thread.                     *)
(*                                                                         *)
(* The argument: once restart has been called, stop_ is set for good, so a *)
(* worker joined by restart never starts another task; and the flag that   *)
(* starts a task is only set right after a keyframe was added.             *)
(***************************************************************************)
EXTENDS SbaService, FiniteSetTheorems, TLAPS

\* Keyframes are numbered in the order they are added, also over a clear.
NumbersAscend ==
  /\ keyframes \subseteq 1 .. added /\ cleared <= added
  /\ \A k \in keyframes : k > cleared

\* From restart on the worker is told to stop.
Stopping ==
  /\ worker = "none" <=> ~async
  /\ async /\ main \in {"reset", "save", "clear", "write"} => stop

\* A task can only become due while the map has keyframes.
DueWithKeyframes ==
  /\ main = "trigger" => keyframes # {}
  /\ inputsReady => async
  /\ inputsReady /\ ~stop => keyframes # {}

IInv ==
  /\ TypeOK /\ NumbersAscend /\ Stopping /\ DueWithKeyframes
  /\ MapIsQuiet /\ TaskHasKeyframes /\ RefinesLiveMap

-----------------------------------------------------------------------------
(* The operators                                                           *)

\* The newest keyframes of a map are keyframes of that map.
LEMMA NewestAreMembers ==
  ASSUME NEW n, NEW s PROVE Newest(n, s) \subseteq s
BY DEF Newest

\* A bounded map that has just taken a keyframe is not empty.
LEMMA NewestKeepsTheLast ==
  ASSUME NEW n \in Nat \ {0}, NEW k \in Nat, NEW s, s \subseteq 1 .. k
  PROVE  k + 1 \in Newest(n, s \cup {k + 1})
<1>1. {j \in s \cup {k + 1} : j > k + 1} = {}
  <2>1. \A j \in s : j \in Nat /\ j <= k
    OBVIOUS
  <2>2. \A j \in s \cup {k + 1} : ~ (j > k + 1)
    BY <2>1
  <2> QED BY <2>2
<1>2. Cardinality({}) < n
  BY FS_EmptySet
<1> QED
  BY <1>1, <1>2 DEF Newest

\* Bundle adjustment is never solved for an empty set of keyframes.
LEMMA SolvableIsNotEmpty ==
  ASSUME NEW s, NEW with, Solvable(s, with) PROVE s # {}
BY FS_EmptySet DEF Solvable, CalcNumFixedKeyframes

-----------------------------------------------------------------------------
LEMMA InitIInv == Init => IInv
<1> SUFFICES ASSUME Init PROVE IInv
  OBVIOUS
<1> USE SbaAssumption DEF Init, InitSettings
<1>3. worker \in {"none", "wait"} /\ main = "track" /\ ~inputsReady /\ async \in BOOLEAN
  OBVIOUS
<1>1. TypeOK
  <2>1. /\ added = 0 /\ triggered = 0 /\ served = 0 /\ cleared = 0
        /\ 0 \in 0 .. MaxKeyframes
    OBVIOUS
  <2>2. keyframes = {} /\ submap = {} /\ stop = FALSE /\ inputsReady = FALSE
    OBVIOUS
  <2>3. settings \in Settings /\ pending \in Settings /\ current \in Settings /\ asked \in Settings
    OBVIOUS
  <2> HIDE DEF Init, InitSettings
  <2> QED
    BY <1>3, <2>1, <2>2, <2>3 DEF TypeOK
<1>2. NumbersAscend
  BY DEF NumbersAscend
<1>4. Stopping
  BY DEF Stopping
<1> QED
  BY <1>1, <1>2, <1>3, <1>4 DEF IInv, DueWithKeyframes, MapIsQuiet, TaskHasKeyframes, RefinesLiveMap

LEMMA AddKeyframePreserves == IInv /\ AddKeyframe /\ UNCHANGED async => IInv'
<1> SUFFICES ASSUME IInv, AddKeyframe, UNCHANGED async PROVE IInv'
  OBVIOUS
<1> USE SbaAssumption DEF IInv, AddKeyframe, flags, workVars, told
<1>1. /\ added \in Nat /\ added' = added + 1 /\ added' \in 0 .. MaxKeyframes
      /\ keyframes \subseteq 1 .. added
  BY DEF TypeOK, NumbersAscend
<1>2. keyframes' = Newest(Capacity, keyframes \cup {added'})
  OBVIOUS
<1>3. keyframes' \subseteq keyframes \cup {added'}
  BY <1>2, NewestAreMembers
<1>4. added' \in keyframes'
  <2>1. added + 1 \in Newest(Capacity, keyframes \cup {added + 1})
    BY <1>1, NewestKeepsTheLast
  <2> QED
    BY <1>1, <1>2, <2>1
<1>5. keyframes' \subseteq 1 .. added'
  <2>1. \A k \in keyframes' : k \in 1 .. added \/ k = added + 1
    BY <1>1, <1>3
  <2>2. \A k : k \in 1 .. added \/ k = added + 1 => k \in 1 .. added + 1
    BY <1>1
  <2> QED
    BY <1>1, <2>1, <2>2
<1>6. TypeOK'
  <2>1. \A k : k \in 1 .. added' => k \in 1 .. MaxKeyframes
    BY <1>1
  <2>2. keyframes' \subseteq 1 .. MaxKeyframes
    BY <1>5, <2>1
  <2> QED
    BY <1>1, <2>2 DEF TypeOK
<1>7. NumbersAscend'
  <2>1. cleared' = cleared /\ cleared \in Nat /\ cleared <= added
    BY DEF TypeOK, NumbersAscend
  <2>2. added + 1 > cleared
    BY <1>1, <2>1
  <2>3. \A k \in keyframes' : k > cleared
    BY <1>1, <1>3, <2>2 DEF NumbersAscend
  <2>4. cleared' <= added'
    BY <1>1, <2>1
  <2> QED
    BY <1>5, <2>1, <2>3, <2>4 DEF NumbersAscend
<1>8. Stopping' /\ DueWithKeyframes' /\ MapIsQuiet' /\ TaskHasKeyframes' /\ RefinesLiveMap'
  BY <1>4 DEF Stopping, DueWithKeyframes, MapIsQuiet, TaskHasKeyframes, RefinesLiveMap
<1> QED
  BY <1>6, <1>7, <1>8

LEMMA TrackingPreserves ==
  IInv /\ UNCHANGED async /\ ( \/ \E s \in Settings : ApplyParameters(s)
            \/ Trigger \/ RunInline
            \/ \E i \in {"reset", "save"} : Restart(i)
            \/ Reset \/ ClearMap \/ Save \/ WriteMap ) => IInv'
<1> SUFFICES ASSUME IInv, UNCHANGED async,
                    \/ \E s \in Settings : ApplyParameters(s)
                    \/ Trigger \/ RunInline
                    \/ \E i \in {"reset", "save"} : Restart(i)
                    \/ Reset \/ ClearMap \/ Save \/ WriteMap
             PROVE IInv'
  OBVIOUS
<1> USE SbaAssumption DEF IInv, TypeOK, NumbersAscend, Stopping, DueWithKeyframes,
        MapIsQuiet, TaskHasKeyframes, RefinesLiveMap, mapVars, flags, workVars, told
<1>1. CASE \E s \in Settings : ApplyParameters(s)
  BY <1>1 DEF ApplyParameters
<1>2. CASE Trigger
  BY <1>2 DEF Trigger
<1>3. CASE RunInline
  <2>1. submap' \subseteq keyframes
    BY <1>3, NewestAreMembers DEF RunInline
  <2>2. submap' \subseteq 1 .. MaxKeyframes
    BY <2>1
  <2>3. /\ current' \in Settings /\ pending' \in Settings /\ asked' \in Settings
        /\ triggered' = added /\ served' = added
    BY <1>3 DEF RunInline
  <2>4. worker = "none" /\ worker' = "none" /\ main' = "track"
    BY <1>3 DEF RunInline
  <2> QED
    BY <1>3, <2>2, <2>3, <2>4 DEF RunInline
<1>4. CASE \E i \in {"reset", "save"} : Restart(i)
  <2>1. PICK i \in {"reset", "save"} : Restart(i)
    BY <1>4
  <2>2. main = "track" /\ main' \in {"reset", "save"} /\ (async => stop') /\ stop' \in BOOLEAN
    BY <2>1 DEF Restart
  <2> QED
    BY <2>1, <2>2 DEF Restart
<1>5. CASE Reset
  BY <1>5 DEF Reset, Joined
<1>6. CASE ClearMap
  <2>1. keyframes' = {} /\ cleared' = added /\ added' = added /\ main = "clear" /\ main' = "track"
    BY <1>6 DEF ClearMap
  <2>2. worker' = worker /\ worker \notin {"task", "solve"} /\ (inputsReady' /\ ~stop' => ~async)
    BY <1>6 DEF ClearMap
  <2> QED
    BY <1>6, <2>1, <2>2 DEF ClearMap
<1>7. CASE Save
  BY <1>7 DEF Save, Joined
<1>8. CASE WriteMap
  BY <1>8 DEF WriteMap
<1> QED
  BY <1>1, <1>2, <1>3, <1>4, <1>5, <1>6, <1>7, <1>8

LEMMA WorkerPreserves == IInv /\ Worker /\ UNCHANGED async => IInv'
<1> SUFFICES ASSUME IInv, Worker, UNCHANGED async PROVE IInv'
  OBVIOUS
<1> USE SbaAssumption DEF IInv, TypeOK, NumbersAscend, Stopping, DueWithKeyframes,
        MapIsQuiet, TaskHasKeyframes, RefinesLiveMap, mapVars, flags, told
<1>1. CASE Exit
  BY <1>1 DEF Exit
<1>2. CASE StartTask
  BY <1>2 DEF StartTask
<1>3. CASE TakeSubmap
  <2>1. submap' \subseteq keyframes
    BY <1>3, NewestAreMembers DEF TakeSubmap
  <2>2. submap' \subseteq 1 .. MaxKeyframes /\ \A k \in submap' : k > cleared
    BY <2>1
  <2>3. worker' = "solve" => submap' # {}
    BY <1>3, SolvableIsNotEmpty DEF TakeSubmap
  <2> QED
    BY <1>3, <2>2, <2>3 DEF TakeSubmap
<1>4. CASE FinishTask
  <2>1. served' \in submap
    BY <1>4 DEF FinishTask
  <2> QED
    BY <1>4, <2>1 DEF FinishTask
<1> QED
  BY <1>1, <1>2, <1>3, <1>4 DEF Worker

\* Every step of the service, in its conjuncts, and doing nothing.
LEMMA NextPreserves == IInv /\ [Next]_vars => IInv'
<1> SUFFICES ASSUME IInv, [Next]_vars PROVE IInv'
  OBVIOUS
<1>1. CASE AddKeyframe /\ UNCHANGED async
  BY <1>1, AddKeyframePreserves
<1>2. CASE Worker /\ UNCHANGED async
  BY <1>2, WorkerPreserves
<1>3. CASE UNCHANGED vars
  BY <1>3 DEF IInv, TypeOK, NumbersAscend, Stopping, DueWithKeyframes, MapIsQuiet,
     TaskHasKeyframes, RefinesLiveMap, vars, mapVars, flags, workVars, told
<1> QED
  BY <1>1, <1>2, <1>3, TrackingPreserves DEF Next, Continue

LEMMA Invariance == Spec => []IInv
BY InitIInv, NextPreserves, PTL DEF Spec

\* The variables keep their types.
THEOREM SbaTypes == Spec => []TypeOK
BY Invariance, PTL DEF IInv

\* No bundle adjustment is under way while the map is written to a checkpoint
\* or cleared, whatever the worker was doing when that was asked for.
THEOREM MapQuietWhileTaken == Spec => []MapIsQuiet
BY Invariance, PTL DEF IInv

\* A task that runs finds keyframes in the map, also after resets.
THEOREM TasksFindKeyframes == Spec => []TaskHasKeyframes
BY Invariance, PTL DEF IInv

\* The poses a task is about to write belong to keyframes added since the map
\* was last cleared.
THEOREM RefinesOnlyLiveMap == Spec => []RefinesLiveMap
BY Invariance, PTL DEF IInv

-----------------------------------------------------------------------------
\* With trigger, the pending settings are those of the last call.
LEMMA PendingIsAsked ==
  ASSUME UsesTrigger PROVE Spec => [](pending = asked)
<1>1. Init => pending = asked
  BY DEF Init, InitSettings
<1>2. pending = asked /\ [Next]_vars => (pending = asked)'
  <2> SUFFICES ASSUME pending = asked, [Next]_vars PROVE pending' = asked'
    OBVIOUS
  <2> USE DEF vars, mapVars, flags, workVars, told
  <2>1. CASE Trigger \/ RunInline
    BY <2>1, UsesTrigger DEF Trigger, RunInline
  <2>2. CASE Worker
    BY <2>2 DEF Worker, Exit, StartTask, TakeSubmap, FinishTask
  <2>3. CASE \/ \E s \in Settings : ApplyParameters(s)
             \/ \E i \in {"reset", "save"} : Restart(i)
    BY <2>3 DEF ApplyParameters, Restart
  <2>4. CASE AddKeyframe \/ Reset \/ ClearMap \/ Save \/ WriteMap
    BY <2>4 DEF AddKeyframe, Reset, ClearMap, Save, WriteMap
  <2>5. CASE UNCHANGED vars
    BY <2>5
  <2> QED
    BY <2>1, <2>2, <2>3, <2>4, <2>5 DEF Next, Continue
<1> QED
  BY <1>1, <1>2, PTL DEF Spec

\* Where the service is driven through trigger, a task runs with the settings
\* in force at the last trigger.  (Driven through notify it does not.)
THEOREM TriggeredSettingsReachTask ==
  ASSUME UsesTrigger PROVE Spec => SettingsReachTask
<1>1. pending = asked /\ [Next]_vars => [StartTask \/ RunInline => current' = asked']_vars
  BY UsesTrigger DEF StartTask, RunInline, told
<1>2. Spec => [](pending = asked)
  BY PendingIsAsked, UsesTrigger
<1>3. Spec => [][StartTask \/ RunInline => current' = asked']_vars
  BY <1>1, <1>2, PTL DEF Spec
<1> QED
  BY <1>3 DEF SettingsReachTask
=============================================================================
