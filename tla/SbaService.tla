----------------------------- MODULE SbaService -----------------------------
(***************************************************************************)
(* The bundle adjustment service of visual odometry: the worker thread of  *)
(* map/service.cpp, its settings hand-over in pipelines/service_sba.h, and *)
(* the tracking thread that feeds, resets and saves                        *)
(* (pipelines/track_online_multi.cpp, odometry/multi_visual_odometry_base  *)
(* .cpp, and their RGBD and multisensor counterparts).                     *)
(*                                                                         *)
(* The tracking thread adds a keyframe to the map and triggers the         *)
(* service; the worker refines the most recent keyframes of the map.       *)
(* Everything done under mutex_ is one action.  Keyframes are numbered in  *)
(* the order they are added.                                               *)
(***************************************************************************)
EXTENDS Integers, FiniteSets

CONSTANTS
  UsesTrigger,   \* trigger(settings), or notify() as multisensor odometry does
  FrameCounts,   \* values of num_sba_frames
  FixedCounts,   \* values of num_fixed_sba_frames
  Capacity,      \* capacity_ of the map
  Interruption,  \* subset of {"reset", "save"}: what the tracking thread does besides
  MaxKeyframes   \* bound of the model: keyframes added

ASSUME SbaAssumption ==
  /\ UsesTrigger \in BOOLEAN
  /\ FrameCounts \subseteq Nat /\ FixedCounts \subseteq Nat
  /\ Capacity \in Nat \ {0} /\ Interruption \subseteq {"reset", "save"}
  /\ MaxKeyframes \in Nat

\* sba_settings
Settings == [frames : FrameCounts, fixed : FixedCounts]

VARIABLES
  async,       \* async_, const: there is a worker thread
  keyframes,   \* consecutive_keyframes_ of the map, as a set: numbers are in order
  added,       \* number of keyframes added so far
  main,        \* what the tracking thread is doing
  settings,    \* svo_settings.sba_settings
  inputsReady, stop,  \* inputs_ready_, stop_
  pending, current,   \* pending_, current_
  worker,      \* where the worker thread is
  submap,      \* the keyframes the worker took from the map
  triggered,   \* history: newest keyframe the service was told of
  asked,       \* history: settings in force when it was told
  served,      \* history: newest keyframe of the map when the last finished task read it
  cleared      \* history: newest keyframe when the map was last cleared

mapVars == <<keyframes, added, cleared>>
flags == <<inputsReady, stop, pending>>
workVars == <<worker, current, submap, served>>
told == <<triggered, asked>>
vars == <<async, mapVars, main, settings, flags, workVars, told>>

\* pending_ and current_ are set by the constructor, to the settings it is given.
InitSettings == pending = settings /\ current = settings

Init ==
  /\ async \in BOOLEAN
  /\ keyframes = {} /\ added = 0 /\ cleared = 0
  /\ main = "track" /\ settings \in Settings
  /\ inputsReady = FALSE /\ stop = FALSE
  /\ InitSettings
  /\ worker = IF async THEN "wait" ELSE "none"
  /\ submap = {} /\ served = 0
  /\ triggered = 0 /\ asked = settings

\* The n newest members of a set of keyframes.
Newest(n, s) == {k \in s : Cardinality({j \in s : j > k}) < n}

\* run_sba returns without solving when no keyframe would be fixed.
CalcNumFixedKeyframes(size, fixed) ==
  IF size < 2 THEN 0 ELSE IF size < fixed + 1 THEN 1 ELSE fixed
Solvable(s, with) == CalcNumFixedKeyframes(Cardinality(s), with.fixed) >= 1

-----------------------------------------------------------------------------
(* The tracking thread                                                     *)

\* ApplyPersistentInternalParameters
ApplyParameters(s) ==
  /\ main = "track" /\ s # settings
  /\ settings' = s
  /\ UNCHANGED <<mapVars, main, flags, workVars, told>>

AddKeyframe ==
  /\ main = "track" /\ added < MaxKeyframes
  /\ added' = added + 1
  /\ keyframes' = Newest(Capacity, keyframes \cup {added'})
  /\ main' = "trigger"
  /\ UNCHANGED <<cleared, settings, flags, workVars, told>>

Trigger_first_settings_win ==
  /\ main = "trigger" /\ async
  /\ inputsReady' = TRUE
  /\ pending' = IF UsesTrigger /\ ~inputsReady THEN settings ELSE pending
  /\ triggered' = added /\ asked' = settings
  /\ main' = "track"
  /\ UNCHANGED <<mapVars, settings, stop, workVars>>

\* trigger or notify with a worker thread.
Trigger ==
  /\ main = "trigger" /\ async
  /\ inputsReady' = TRUE
  /\ pending' = IF UsesTrigger THEN settings ELSE pending
  /\ triggered' = added /\ asked' = settings
  /\ main' = "track"
  /\ UNCHANGED <<mapVars, settings, stop, workVars>>

RunInline_previous_settings ==
  /\ main = "trigger" /\ ~async
  /\ pending' = settings
  /\ current' = pending
  /\ submap' = Newest(current'.frames, keyframes)
  /\ triggered' = added /\ asked' = settings /\ served' = added
  /\ main' = "track"
  /\ UNCHANGED <<mapVars, settings, inputsReady, stop, worker>>

\* trigger or notify without one: the task runs in the tracking thread.
RunInline ==
  /\ main = "trigger" /\ ~async
  /\ pending' = IF UsesTrigger THEN settings ELSE pending
  /\ current' = IF UsesTrigger THEN settings ELSE current
  /\ submap' = Newest(current'.frames, keyframes)
  /\ triggered' = added /\ asked' = settings /\ served' = added
  /\ main' = "track"
  /\ UNCHANGED <<mapVars, settings, inputsReady, stop, worker>>

\* reset() after a failed frame, and save_state(), both start with
\* ServiceBase::restart, which tells the worker to stop,
Restart(interruption) ==
  /\ main = "track" /\ interruption \in Interruption
  /\ stop' = IF async THEN TRUE ELSE stop
  /\ main' = interruption
  /\ UNCHANGED <<mapVars, settings, inputsReady, pending, workVars, told>>

Joined == ~async \/ worker = "exited"

Reset_without_waiting ==
  /\ main = "reset"
  /\ main' = "clear"
  /\ UNCHANGED <<mapVars, settings, flags, workVars, told>>

\* waits for it and starts a new thread; reset() goes on to clear the map,
Reset ==
  /\ main = "reset" /\ Joined
  /\ worker' = IF async THEN "wait" ELSE worker
  /\ main' = "clear"
  /\ UNCHANGED <<mapVars, settings, flags, current, submap, served, told>>

ClearMap ==
  /\ main = "clear"
  /\ keyframes' = {} /\ cleared' = added
  /\ main' = "track"
  /\ UNCHANGED <<added, settings, flags, workVars, told>>

\* and save_state() to write the map.
Save ==
  /\ main = "save" /\ Joined
  /\ worker' = IF async THEN "wait" ELSE worker
  /\ main' = "write"
  /\ UNCHANGED <<mapVars, settings, flags, current, submap, served, told>>

WriteMap ==
  /\ main = "write"
  /\ main' = "track"
  /\ UNCHANGED <<mapVars, settings, flags, workVars, told>>

-----------------------------------------------------------------------------
(* The worker thread: run and service_task                                 *)

Exit ==
  /\ worker = "wait" /\ stop
  /\ worker' = "exited"
  /\ UNCHANGED <<mapVars, main, settings, flags, current, submap, served, told>>

StartTask_despite_stop ==
  /\ worker = "wait" /\ inputsReady
  /\ inputsReady' = FALSE
  /\ current' = pending
  /\ worker' = "task"
  /\ UNCHANGED <<mapVars, main, settings, stop, pending, submap, served, told>>

StartTask ==
  /\ worker = "wait" /\ ~stop /\ inputsReady
  /\ inputsReady' = FALSE
  /\ current' = pending
  /\ worker' = "task"
  /\ UNCHANGED <<mapVars, main, settings, stop, pending, submap, served, told>>

TakeSubmap ==
  /\ worker = "task"
  /\ submap' = Newest(current.frames, keyframes)
  /\ worker' = IF Solvable(submap', current) THEN "solve" ELSE "wait"
  /\ served' = IF worker' = "wait" THEN added ELSE served
  /\ UNCHANGED <<mapVars, main, settings, flags, current, told>>

FinishTask_clears_flag ==
  /\ worker = "solve"
  /\ served' \in {k \in submap : \A j \in submap : j <= k}
  /\ worker' = "wait" /\ inputsReady' = FALSE
  /\ UNCHANGED <<mapVars, main, settings, stop, pending, current, submap, told>>

\* The refined poses are written to the keyframes and landmarks of submap.
FinishTask ==
  /\ worker = "solve"
  /\ served' \in {k \in submap : \A j \in submap : j <= k}
  /\ worker' = "wait"
  /\ UNCHANGED <<mapVars, main, settings, flags, current, submap, told>>

Worker == Exit \/ StartTask \/ TakeSubmap \/ FinishTask

\* What the tracking thread has begun it finishes; it need not track on.
Continue == Trigger \/ RunInline \/ Reset \/ ClearMap \/ Save \/ WriteMap

Next ==
  /\ UNCHANGED async
  /\ \/ \E s \in Settings : ApplyParameters(s)
     \/ AddKeyframe
     \/ \E i \in {"reset", "save"} : Restart(i)
     \/ Continue \/ Worker

Spec == Init /\ [][Next]_vars
FairSpec ==
  Spec /\ WF_vars(Worker /\ UNCHANGED async) /\ WF_vars(Continue /\ UNCHANGED async)

-----------------------------------------------------------------------------
(* Properties                                                              *)

TypeOK ==
  /\ async \in BOOLEAN
  /\ keyframes \subseteq 1 .. MaxKeyframes /\ added \in 0 .. MaxKeyframes
  /\ main \in {"track", "trigger", "reset", "save", "clear", "write"}
  /\ settings \in Settings /\ pending \in Settings
  /\ current \in Settings /\ asked \in Settings
  /\ inputsReady \in BOOLEAN /\ stop \in BOOLEAN
  /\ worker \in {"none", "wait", "task", "solve", "exited"}
  /\ submap \subseteq 1 .. MaxKeyframes
  /\ triggered \in 0 .. MaxKeyframes /\ served \in 0 .. MaxKeyframes
  /\ cleared \in 0 .. MaxKeyframes

\* While the map is written to a checkpoint or cleared no bundle adjustment
\* is under way that would write to its keyframes ("quiesces async SBA before
\* the map is serialized", multi_visual_odometry_base.cpp).
MapIsQuiet == main \in {"clear", "write"} => worker \notin {"task", "solve"}

\* A task never finds an empty map, although the flag that starts it stays set
\* over a reset: service_task takes the last keyframe without a test.
TaskHasKeyframes == worker = "task" => keyframes # {}

\* What a task refines is still in the map or was removed at its old end; in
\* particular no task works on keyframes of a map that has been cleared.
RefinesLiveMap ==
  worker = "solve" => submap # {} /\ \A k \in submap : k > cleared

\* Parameters apply from the next keyframe on, and only the latest ones (the
\* warning in ApplyPersistentInternalParameters): a task that starts runs with
\* the settings in force when the service was last triggered.
SettingsReachTask ==
  [][StartTask \/ RunInline => current' = asked']_vars

\* Every trigger is served, also one that arrives while a task runs: some task
\* that started after it finishes, or the service is stopped.
TriggersServed ==
  \A k \in 1 .. MaxKeyframes :
    triggered >= k ~> (served >= k \/ stop)

\* Not kept by the code: after the service was "restarted" (service.h), the
\* triggers of new keyframes are served as before.
ServedAfterRestart ==
  \A k \in 1 .. MaxKeyframes :
    triggered >= k ~> (served >= k \/ cleared >= k)
=============================================================================
