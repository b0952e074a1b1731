----------------------------- MODULE AsyncSlam -----------------------------
(***************************************************************************)
(* The asynchronous SLAM front end (slam/async_slam/async_slam.cpp,        *)
(* async_slam_localize.cpp) with a background thread.                      *)
(*                                                                         *)
(* The main thread feeds odometry frames (TrackResult): it accumulates the *)
(* motion since the last keyframe, appends keyframes to the tail and       *)
(* pushes them to input_queue_.  The SLAM thread drains the queue into the *)
(* pose graph of slam_, closes loops, optimises, corrects the tail, and    *)
(* executes localisation commands, which replace the whole map.            *)
(*                                                                         *)
(* Of the pose graph only the head keyframe is kept here: its pose and     *)
(* timestamp are all the two threads exchange through the tail.            *)
(* Steps under slam_mutex_ are single actions, except the localisation's   *)
(* critical section, which the main thread can enter through the tail.     *)
(***************************************************************************)
EXTENDS PoseGroup, Integers, Sequences, SequencesExt

CONSTANTS
  TsMin, TsMax,   \* the range of timestamps; frames have positive ones
  Retention,      \* retention_time_ms, as in PoseTail
  Throttling,     \* throttling_time_ns_
  Wrap,           \* 2^64: timestamps are subtracted as unsigned integers
  Request,        \* localisation requests
  MaxTailLength   \* bound of the model: entries of the tail

ASSUME AsyncSlamAssumption ==
  /\ TsMin \in Int /\ TsMin <= 0 /\ TsMax \in Nat \ {0}
  /\ Retention \in Nat /\ Throttling \in Nat
  /\ Wrap \in Nat /\ Wrap > TsMax
  /\ MaxTailLength \in Nat /\ MaxTailLength > TsMax

VARIABLES
  isFirstFrame, \* is_first_frame_
  trackData,    \* track_data_: the last frame's timestamp, motion from_keyframe
  call,         \* the keyframe inside TrackResult, between reading and writing the tail
  tail,         \* tail_, see PoseTail
  images,       \* the frame of processing_images_, 0 if none; frames are named by their timestamps
  queue,        \* input_queue_: keyframes and localisation commands
  aborted,      \* abort_ of input_queue_
  head,         \* head keyframe of slam_'s pose graph
  pc,           \* where the SLAM thread is
  input,        \* the last keyframe ProcessInput added in this round, 0 if none
  command,      \* the localisation being executed and its result.pose_in_slam
  lastClosure,  \* timestamp of last_loop_closures_stamped_.back(), 0 if none
  answer,       \* what each localisation request was told through its callbacks
  drift         \* history: what has parted the tail from the pose graph

mainVars == <<isFirstFrame, trackData, call, images>>
slamVars == <<head, pc, input, command, lastClosure>>
vars == <<mainVars, tail, queue, aborted, slamVars, answer, drift>>

PT == INSTANCE PoseTail

Timestamp == 1 .. TsMax
NoFrame == 0
NoCall == [ts |-> 0, pose |-> Id]
NoCommand == [request |-> "none", ts |-> 0, pose |-> Id]
EmptyGraph == [ts |-> 0, pose |-> Id]   \* GetCurrentPose of an empty graph

Keyframe == [kind : {"keyframe"}, ts : Timestamp, from : Pose]
Localisation == [kind : {"localise"}, request : Request, ts : Timestamp]

Input == Keyframe \cup Localisation
TailEntry == [ts : Timestamp, pose : Pose]
Placed == [ts : 0 .. TsMax, pose : Pose]      \* the head of the graph, a call
Motion == [ts : 0 .. TsMax, from : Pose]
Command == [request : Request \cup {"none"}, ts : 0 .. TsMax, pose : Pose]

Tip == tail[Len(tail)]

\* slam_mutex_ is held between two actions only in Execute's critical section.
SlamMutexFree == pc # "swap"

\* GetSlamPose
SlamPose(t, from) == IF t = <<>> THEN Id ELSE Mul(t[Len(t)].pose, from)

\* The causes of a drift between the tip of the tail and the pose graph.
Cause == {"first keyframe moved", "stale tip", "counted twice",
          "outside retention", "same timestamp", "motions changed",
          "cleared by first frame"}

-----------------------------------------------------------------------------
Init ==
  /\ isFirstFrame = TRUE /\ trackData = [ts |-> 0, from |-> Id] /\ call = NoCall
  /\ tail = <<>> /\ images = 0 /\ queue = <<>> /\ aborted = FALSE
  /\ head = EmptyGraph /\ pc = "wait" /\ input = NoFrame /\ command = NoCommand
  /\ lastClosure = 0
  /\ answer = [r \in Request |-> "none"]
  /\ drift = {}

(***************************************************************************)
(* The main thread.                                                        *)
(***************************************************************************)
\* The part of TrackResult every frame goes through.  Odometry gives frames
\* with strictly increasing timestamps.
CountFrame(ts, delta) ==
  /\ ~aborted /\ call = NoCall
  /\ ts > trackData.ts
  /\ isFirstFrame' = FALSE
  /\ tail' = IF isFirstFrame THEN <<>> ELSE tail
  /\ trackData' = [ts |-> ts, from |-> Mul(trackData.from, delta)]
  /\ drift' = IF isFirstFrame /\ tail # <<>>
              THEN drift \cup {"cleared by first frame"} ELSE drift

TrackFrame(ts, delta) ==
  /\ CountFrame(ts, delta)
  /\ UNCHANGED <<call, images, queue, aborted, slamVars, answer>>

\* TrackResult for a keyframe with images, up to its call of GetSlamPose.
TrackKeyframe(ts, delta) ==
  /\ SlamMutexFree
  /\ CountFrame(ts, delta)
  /\ call' = [ts |-> ts, pose |-> SlamPose(tail', trackData'.from)]
  /\ UNCHANGED <<images, queue, aborted, slamVars, answer>>

\* VO_ResetFrameData
ResetMotion == trackData' = [trackData EXCEPT !.from = Id]

\* Tail::UpdateTimeByOdometry and Tail::UpdatePoseBySLAM return false otherwise.
Accepted_always == TRUE
Accepted == PT!OdometryAccepted(tail, call.ts)
Retained_always(ts) == TRUE
Retained(ts) == PT!TimestampIsRetained(tail, ts)

\* The rest of TrackResult: the keyframe goes to the tail and to the queue,
\* unless the tail is already newer; its motion is reset in both cases.
HandOver ==
  /\ call # NoCall
  /\ images' = call.ts
  /\ IF Accepted
     THEN /\ tail' = PT!WithOdometry(tail, call.ts, call.pose)
          /\ queue' = Append(queue, [kind |-> "keyframe", ts |-> call.ts,
                                     from |-> trackData.from])
          /\ drift' = drift
               \cup {c \in {"first keyframe moved"} : tail = <<>> /\ trackData.from # Id}
               \cup {c \in {"stale tip"} : call.pose # SlamPose(tail, trackData.from)}
     ELSE UNCHANGED <<tail, queue, drift>>
  /\ ResetMotion
  /\ call' = NoCall
  /\ UNCHANGED <<isFirstFrame, aborted, slamVars, answer>>

\* May be called from any thread, at any time.
LocalizeInMap(r, ts) ==
  /\ ~aborted /\ answer[r] = "none"
  /\ answer' = [answer EXCEPT ![r] = "queued"]
  /\ queue' = Append(queue, [kind |-> "localise", request |-> r, ts |-> ts])
  /\ UNCHANGED <<mainVars, tail, aborted, slamVars, drift>>

\* The destructor: Abort, then join.
Shutdown ==
  /\ ~aborted /\ call = NoCall
  /\ aborted' = TRUE
  /\ UNCHANGED <<mainVars, tail, queue, slamVars, answer, drift>>

(***************************************************************************)
(* The SLAM thread: Run and ProcessInput.                                  *)
(***************************************************************************)
Wait ==
  /\ pc = "wait"
  /\ \/ aborted /\ pc' = "stopped"
     \/ ~aborted /\ queue # <<>> /\ pc' = "drain"
  /\ input' = NoFrame
  /\ UNCHANGED <<mainVars, tail, queue, aborted, head, command, lastClosure, answer, drift>>

\* A keyframe older than the head of the graph is dropped, any other one is the
\* new head.
TooOld(h, kf) == h # EmptyGraph /\ kf.ts < h.ts
HeadAfter(h, kf) ==
  IF TooOld(h, kf) THEN h ELSE [ts |-> kf.ts, pose |-> Mul(h.pose, kf.from)]

TakeKeyframe ==
  /\ pc = "drain" /\ queue # <<>> /\ Head(queue).kind = "keyframe"
  /\ LET kf == Head(queue)
     IN  /\ head' = HeadAfter(head, kf)
         /\ input' = IF TooOld(head, kf) THEN input ELSE kf.ts
  /\ queue' = Tail(queue)
  /\ UNCHANGED <<mainVars, tail, aborted, pc, command, lastClosure, answer, drift>>

\* Time since the last loop closure, as an unsigned difference.
SinceLastClosure == (input - lastClosure) % Wrap
Throttled == lastClosure # 0 /\ SinceLastClosure < Throttling

\* A loop is looked for when the images are still those of the last keyframe.
Drained ==
  /\ pc = "drain" /\ queue = <<>>
  /\ pc' = IF input # NoFrame /\ images = input /\ ~Throttled
           THEN "close" ELSE "wait"
  /\ UNCHANGED <<mainVars, tail, queue, aborted, head, input, command, lastClosure, answer, drift>>

NoLoop ==
  /\ pc = "close"
  /\ pc' = "wait"
  /\ UNCHANGED <<mainVars, tail, queue, aborted, head, input, command, lastClosure, answer, drift>>

\* The mutated form keeps the end of the throttling time instead of its start.
CloseLoop_end_of_throttling ==
  /\ pc = "close"
  /\ lastClosure' \in {lastClosure, input + Throttling}
  /\ pc' = "wait" /\ head' = head
  /\ UNCHANGED <<mainVars, tail, queue, aborted, input, command, answer, drift>>

\* A loop is found; its edge may be refused (ApplyLoopClosureResult) and the
\* optimisation may fail; a successful one moves the head keyframe.
CloseLoop ==
  /\ pc = "close"
  /\ lastClosure' \in {lastClosure, input}
  /\ \/ pc' = "wait" /\ head' = head
     \/ /\ pc' = "tail"
        /\ \E p \in Pose : head' = [head EXCEPT !.pose = p]
  /\ UNCHANGED <<mainVars, tail, queue, aborted, input, command, answer, drift>>

\* A correction moves the later poses by one motion on their right.  When the
\* rig has turned that changes the motions between them (OdometryMotionsKept of
\* PoseTail), which the graph keeps.
MotionsChanged(t, ts, p) ==
  /\ t # <<>> /\ ts <= PT!Latest(t)
  /\ LET k == PT!FirstNotBefore(t, ts)
         r == PT!WithSlamPose(t, ts, p)
     IN  \E i \in k .. Len(t) :
           Mul(Inv(p), r[i].pose) # Mul(Inv(t[k].pose), t[i].pose)

\* The tail is corrected after the optimisation, outside slam_mutex_.
CorrectTail ==
  /\ pc = "tail"
  /\ IF Retained(head.ts)
     THEN /\ tail' = PT!WithSlamPose(tail, head.ts, head.pose)
          /\ drift' = drift
               \cup {c \in {"same timestamp"} :
                      \E i \in 1 .. Len(tail) - 1 :
                        tail[i].ts = head.ts /\ tail[i + 1].ts = head.ts}
               \cup {c \in {"motions changed"} : MotionsChanged(tail, head.ts, head.pose)}
     ELSE /\ drift' = drift \cup {"outside retention"}
          /\ UNCHANGED tail
  /\ pc' = "wait"
  /\ UNCHANGED <<mainVars, queue, aborted, head, input, command, lastClosure, answer>>

(***************************************************************************)
(* The SLAM thread: LocalizeInMapCmd::Execute.                             *)
(***************************************************************************)
TakeLocalisation ==
  /\ pc = "drain" /\ queue # <<>> /\ Head(queue).kind = "localise"
  /\ command' = [request |-> Head(queue).request, ts |-> Head(queue).ts, pose |-> Id]
  /\ queue' = Tail(queue)
  /\ answer' = [answer EXCEPT ![Head(queue).request] = "started"]
  /\ pc' = "localise"
  /\ UNCHANGED <<mainVars, tail, aborted, head, input, lastClosure, drift>>

Finish(outcome) ==
  /\ answer' = [answer EXCEPT ![command.request] = outcome]
  /\ command' = NoCommand
  /\ pc' = "drain"

NotLocalised_unanswered ==
  /\ pc = "localise"
  /\ pc' = "drain" /\ command' = NoCommand
  /\ UNCHANGED <<mainVars, tail, queue, aborted, head, input, lastClosure, answer, drift>>

NotLocalised ==
  /\ pc = "localise"
  /\ Finish("error")
  /\ UNCHANGED <<mainVars, tail, queue, aborted, head, input, lastClosure, drift>>

\* Localised at p: the critical section starts with the tail.
LocalisedAt(p) ==
  /\ pc = "localise"
  /\ IF Retained(command.ts)
     THEN /\ tail' = PT!WithSlamPose(tail, command.ts, p)
          /\ command' = [command EXCEPT !.pose = p]
          /\ pc' = "swap"
          /\ UNCHANGED answer
     ELSE Finish("error") /\ UNCHANGED tail
  /\ UNCHANGED <<mainVars, queue, aborted, head, input, lastClosure, drift>>

\* The head of the loaded map once the fake keyframes are in it.
SwappedHead_without_tail_tip == [ts |-> command.ts, pose |-> command.pose]
SwappedHead ==
  IF tail = <<>> THEN [ts |-> command.ts, pose |-> command.pose] ELSE Tip

\* The loaded map replaces the current one; two keyframes without landmarks
\* are added to it, for the localised pose and for the tip of the tail.
SwapMap ==
  /\ pc = "swap"
  /\ head' = SwappedHead
  /\ pc' = "reply"
  /\ drift' = (IF tail = <<>> THEN drift ELSE {})
       \cup {c \in {"counted twice"} : \E i \in 1 .. Len(queue) :
               queue[i].kind = "keyframe" /\ queue[i].ts = head'.ts}
  /\ UNCHANGED <<mainVars, tail, queue, aborted, input, command, lastClosure, answer>>

Localised ==
  /\ pc = "reply"
  /\ Finish("success")
  /\ UNCHANGED <<mainVars, tail, queue, aborted, head, input, lastClosure, drift>>

-----------------------------------------------------------------------------
MainThread ==
  \/ \E ts \in Timestamp, delta \in Pose : TrackFrame(ts, delta)
  \/ \E ts \in Timestamp, delta \in Pose : TrackKeyframe(ts, delta)
  \/ HandOver
  \/ Shutdown

SlamThread ==
  \/ Wait \/ TakeKeyframe \/ Drained \/ NoLoop \/ CloseLoop \/ CorrectTail
  \/ TakeLocalisation \/ NotLocalised \/ Localised \/ SwapMap
  \/ \E p \in Pose : LocalisedAt(p)

Next ==
  \/ MainThread
  \/ SlamThread
  \/ \E r \in Request, ts \in Timestamp : LocalizeInMap(r, ts)

Spec == Init /\ [][Next]_vars

\* A thread that can run does run; frames and requests may stop coming.
FairSpec == Spec /\ WF_vars(SlamThread) /\ WF_vars(HandOver)

-----------------------------------------------------------------------------
(* Properties                                                              *)

TypeOK ==
  /\ isFirstFrame \in BOOLEAN /\ trackData \in Motion /\ call \in Placed
  /\ images \in 0 .. TsMax
  /\ tail \in Seq(TailEntry)
  /\ queue \in Seq(Input) /\ aborted \in BOOLEAN
  /\ head \in Placed
  /\ pc \in {"wait", "drain", "close", "tail", "localise", "swap", "reply", "stopped"}
  /\ input \in 0 .. TsMax
  /\ command \in Command
  /\ lastClosure \in 0 .. TsMax
  /\ answer \in [Request -> {"none", "queued", "started", "success", "error"}]
  /\ drift \subseteq Cause

\* Where the head of the graph h is after each element of the queue q; commands
\* are not counted.
HeadsAlong(h, q) ==
  LET after[i \in 0 .. Len(q)] ==
        IF i = 0 THEN h
        ELSE IF q[i].kind = "keyframe" THEN HeadAfter(after[i - 1], q[i])
        ELSE after[i - 1]
  IN  after
HeadAfterQueue == HeadsAlong(head, queue)[Len(queue)]

\* The schema of tail.h: the tip of the tail is the head of the pose graph
\* followed by the motions of the keyframes still in the queue.  So when the
\* SLAM thread has caught up, the pose GetSlamPose reports is the pose in the
\* map.  Only the causes recorded in drift part them, and only a correction
\* of the tail that is still to come.
TipIsHeadPlusQueue ==
  drift = {} /\ pc \notin {"tail", "swap"} =>
    IF tail = <<>> THEN HeadAfterQueue = EmptyGraph ELSE HeadAfterQueue = Tip

\* The unsigned difference of timestamps in the throttling test never wraps:
\* a keyframe that reaches the test is not older than the last loop closure.
ThrottlingNeverWraps ==
  pc = "drain" /\ input # NoFrame => SinceLastClosure = input - lastClosure

\* Seen from the tail, the two threads only perform the methods of Tail: each
\* step clears it, appends an odometry pose or applies a pose of SLAM, so the
\* properties proved of the tail hold here.
TailMethodsOnly == PT!Spec

\* The requests waiting in the queue q, after each of its elements.
WaitingAlong(q) ==
  LET after[i \in 0 .. Len(q)] ==
        IF i = 0 THEN <<>>
        ELSE IF q[i].kind = "localise" THEN Append(after[i - 1], q[i].request)
        ELSE after[i - 1]
  IN  after
LS == INSTANCE LocalisationService WITH
        waiting <- WaitingAlong(queue)[Len(queue)],
        open <- ~aborted
\* Localisation requests are served as Slam::LocalizeInMap promises: in order,
\* one at a time, each started once and answered once, and answered at all
\* unless the object is destroyed.
RequestsServed == LS!Spec
=============================================================================
