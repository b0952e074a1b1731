--------------------------- MODULE AsyncSlamProofs ---------------------------
(***************************************************************************)
(* Proofs about the asynchronous SLAM front end, for any poses, number of  *)
(* frames and requests, retention time and throttling time.                *)
(*                                                                         *)
(* First: whatever the two threads do, each of their steps is a method of  *)
(* the tail or leaves it alone, so all that PoseTailProofs proves of the   *)
(* tail holds of the tail of AsyncSlam.                                    *)
(***************************************************************************)
EXTENDS AsyncSlam, SequenceTheorems, FiniteSetTheorems, WellFoundedInduction, TLAPS

TP == INSTANCE PoseTailProofs

\* Nothing is handed to the SLAM thread before the first frame, nor while the
\* tail is empty.
NothingYet == input = NoFrame /\ lastClosure = 0 /\ \A i \in 1 .. Len(queue) : queue[i].kind # "keyframe"
HandedOver ==
  /\ isFirstFrame => call = NoCall
  /\ isFirstFrame \/ tail = <<>> => NothingYet
  /\ call # NoCall => call.ts = trackData.ts /\ call.ts >= 1

\* What the SLAM thread has seen, or will see, is not newer than the tail, and
\* the head of the graph is not older than what was done with it.
SeenByThread ==
  /\ tail # <<>> =>
       /\ input <= Tip.ts /\ lastClosure <= Tip.ts
       /\ \A i \in 1 .. Len(queue) : queue[i].kind = "keyframe" => queue[i].ts <= Tip.ts
  /\ lastClosure <= head.ts /\ input <= head.ts
  /\ input # NoFrame => lastClosure <= input
  /\ pc \in {"close", "tail"} => input # NoFrame
  /\ pc \in {"localise", "swap"} => command.ts >= 1

\* All entries of the tail but the first come from different frames.
EntriesApart ==
  /\ \A i \in 1 .. Len(tail) : tail[i].ts >= i - 1
  /\ \A i \in 2 .. Len(tail) : /\ tail[i].ts <= trackData.ts
                               /\ call # NoCall => tail[i].ts < call.ts

Core == TypeOK /\ HandedOver /\ SeenByThread /\ EntriesApart

-----------------------------------------------------------------------------
(* The tail                                                                *)

\* The axioms of the group, one at a time
LEMMA ProductIsPose == \A a, b \in Pose : Mul(a, b) \in Pose
BY PoseGroupAssumption

LEMMA InverseIsPose == \A a \in Pose : Inv(a) \in Pose /\ Mul(Inv(a), a) = Id /\ Mul(a, Id) = a
BY PoseGroupAssumption

LEMMA ProductAssociates ==
  ASSUME NEW a \in Pose, NEW b \in Pose, NEW c \in Pose
  PROVE  Mul(Mul(a, b), c) = Mul(a, Mul(b, c))
BY PoseGroupAssumption

\* The tail of AsyncSlam is a tail.
LEMMA EntryFacts ==
  ASSUME NEW t \in Seq(TailEntry)
  PROVE  /\ t \in Seq(TP!Entry) /\ Len(t) \in Nat /\ (t # <<>> <=> Len(t) >= 1)
         /\ \A i \in 1 .. Len(t) : t[i] \in TailEntry /\ t[i].ts \in Timestamp /\ t[i].ts \in Int
<1>1. TailEntry \subseteq TP!Entry
  BY AsyncSlamAssumption DEF TailEntry, Timestamp, TP!Entry, TP!Timestamp
<1>2. Len(t) \in Nat /\ (t # <<>> <=> Len(t) >= 1)
  BY EmptySeq, LenProperties
<1>3. \A i \in 1 .. Len(t) : t[i] \in TailEntry
  BY ElementOfSeq
<1>4. t \in Seq(TP!Entry)
  BY <1>1, <1>2, <1>3, SeqDef
<1> QED
  BY <1>2, <1>3, <1>4 DEF TailEntry, Timestamp

LEMMA SameOperators ==
  ASSUME NEW t, NEW ts, NEW p
  PROVE  /\ PT!WithOdometry(t, ts, p) = TP!WithOdometry(t, ts, p)
         /\ PT!WithSlamPose(t, ts, p) = TP!WithSlamPose(t, ts, p)
         /\ PT!OdometryAccepted(t, ts) = TP!OdometryAccepted(t, ts)
         /\ PT!TimestampIsRetained(t, ts) = TP!TimestampIsRetained(t, ts)
<1>1. PT!TimestampIsRetained(t, ts) = TP!TimestampIsRetained(t, ts)
  BY DEF PT!TimestampIsRetained, TP!TimestampIsRetained, PT!OldestAllowedTimestamp,
         TP!OldestAllowedTimestamp, PT!Latest, TP!Latest
<1>2. PT!OdometryAccepted(t, ts) = TP!OdometryAccepted(t, ts)
  BY DEF PT!OdometryAccepted, TP!OdometryAccepted, PT!Latest, TP!Latest
<1>3. PT!WithOdometry(t, ts, p) = TP!WithOdometry(t, ts, p)
  BY DEF PT!WithOdometry, TP!WithOdometry, PT!PruneOldTail, TP!PruneOldTail, PT!FirstKept,
         TP!FirstKept, PT!OldestAllowedTimestamp, TP!OldestAllowedTimestamp, PT!Latest, TP!Latest
<1>4. PT!WithSlamPose(t, ts, p) = TP!WithSlamPose(t, ts, p)
  BY DEF PT!WithSlamPose, TP!WithSlamPose, PT!FirstNotBefore, TP!FirstNotBefore,
         PT!Corrected, TP!Corrected, PT!Latest, TP!Latest
<1> QED
  BY <1>1, <1>2, <1>3, <1>4

\* What WithOdometry makes of the tail.
LEMMA OdometryFacts ==
  ASSUME NEW t \in Seq(TailEntry), NEW ts \in Timestamp, NEW p \in Pose
  PROVE  LET r == PT!WithOdometry(t, ts, p)
             k == TP!Kept(t, ts, p)
         IN  /\ r \in Seq(TailEntry) /\ r # <<>> /\ r[Len(r)] = [ts |-> ts, pose |-> p]
             /\ k \in 1 .. Len(t) + 1 /\ Len(r) = Len(t) + 2 - k
             /\ \A i \in 1 .. Len(r) - 1 : r[i] = t[k + i - 1]
             /\ \A j \in 1 .. k - 1 : ~ PT!TimestampIsRetained(r, t[j].ts)
<1> DEFINE r == TP!WithOdometry(t, ts, p)
           k == TP!Kept(t, ts, p)
<1>1. t \in Seq(TP!Entry) /\ ts \in TP!Timestamp
  BY EntryFacts, AsyncSlamAssumption DEF Timestamp, TP!Timestamp
<1> USE TP!WithOdometryFacts, AsyncSlamAssumption, PoseGroupAssumption
<1>2. r \in Seq(TP!Entry) /\ r # <<>> /\ r[Len(r)] = [ts |-> ts, pose |-> p]
  BY <1>1 DEF TP!Kept, TP!WithOdometry
<1>5. k \in 1 .. Len(t) + 1 /\ Len(r) = Len(t) + 2 - k
  BY <1>1 DEF TP!Kept, TP!WithOdometry
<1>6. \A i \in 1 .. Len(r) - 1 : r[i] = t[k + i - 1]
  BY <1>1 DEF TP!Kept, TP!WithOdometry
<1>7. \A j \in 1 .. k - 1 : ~ TP!TimestampIsRetained(r, t[j].ts)
  BY <1>1, SMTT(30) DEF TP!Kept, TP!WithOdometry
<1> HIDE TP!WithOdometryFacts, AsyncSlamAssumption, PoseGroupAssumption DEF r, k
<1>3. r = PT!WithOdometry(t, ts, p)
      /\ \A u, s : PT!TimestampIsRetained(u, s) = TP!TimestampIsRetained(u, s)
  BY SameOperators DEF r
<1>4. r \in Seq(TailEntry)
  <2> SUFFICES ASSUME NEW i \in 1 .. Len(r) PROVE r[i] \in TailEntry
    BY <1>2, SeqDef, LenProperties
  <2>2. Len(t) \in Nat
    BY EntryFacts
  <2>3. CASE i = Len(r)
    BY <1>2, <2>3 DEF TailEntry
  <2>4. CASE i # Len(r)
    <3>1. Len(r) \in Nat
      BY <1>2, LenProperties
    <3>2. i \in 1 .. Len(r) - 1 /\ k + i - 1 \in 1 .. Len(t)
      BY <1>5, <2>2, <2>4, <3>1
    <3> QED
      BY <1>6, <3>2, EntryFacts
  <2> QED
    BY <2>3, <2>4
<1> QED
  BY <1>2, <1>3, <1>4, <1>5, <1>6, <1>7 DEF k

\* What WithSlamPose makes of it: a new tail, or the same times with the poses
\* from the corrected entry on moved.
LEMMA CorrectionFacts ==
  ASSUME NEW t \in Seq(TailEntry), NEW ts \in Timestamp, NEW p \in Pose
  PROVE  LET r == PT!WithSlamPose(t, ts, p)
             k == TP!FirstNotBefore(t, ts)
         IN  /\ r \in Seq(TailEntry) /\ r # <<>>
             /\ \/ r = << [ts |-> ts, pose |-> p] >> /\ (t = <<>> \/ t[Len(t)].ts < ts)
                \/ /\ t # <<>> /\ t[Len(t)].ts >= ts
                   /\ Len(r) = Len(t) /\ k \in 1 .. Len(t)
                   /\ t[k].ts >= ts /\ \A j \in 1 .. k - 1 : t[j].ts < ts
                   /\ \A i \in 1 .. Len(t) : r[i].ts = t[i].ts
                   /\ \A i \in 1 .. Len(t) :
                        i >= k => r[i].pose = Mul(t[i].pose, Mul(Inv(t[k].pose), p))
<1> DEFINE r == TP!WithSlamPose(t, ts, p)
           k == TP!FirstNotBefore(t, ts)
<1>1. t \in Seq(TP!Entry) /\ ts \in TP!Timestamp /\ ts \in Int
  BY EntryFacts, AsyncSlamAssumption DEF Timestamp, TP!Timestamp
<1>2. \/ r = << [ts |-> ts, pose |-> p] >> /\ (t = <<>> \/ TP!Latest(t) < ts)
      \/ /\ t # <<>> /\ TP!Latest(t) >= ts
         /\ r \in Seq(TP!Entry) /\ Len(r) = Len(t) /\ k \in 1 .. Len(t)
         /\ \A i \in 1 .. Len(t) : r[i].ts = t[i].ts
         /\ \A i \in 1 .. Len(t) : i < k => r[i] = t[i]
         /\ \A i \in 1 .. Len(t) : i >= k => r[i].pose = Mul(t[i].pose, Mul(Inv(t[k].pose), p))
  BY <1>1, TP!WithSlamPoseFacts, AsyncSlamAssumption, PoseGroupAssumption
<1>3. r = PT!WithSlamPose(t, ts, p)
  BY SameOperators
<1>4. t # <<>> /\ TP!Latest(t) >= ts =>
        k \in 1 .. Len(t) /\ t[k].ts >= ts /\ \A j \in 1 .. k - 1 : t[j].ts < ts
  BY <1>1, TP!FirstNotBeforeFacts, AsyncSlamAssumption, PoseGroupAssumption
<1> HIDE DEF r, k
<1>5. CASE r = << [ts |-> ts, pose |-> p] >> /\ (t = <<>> \/ TP!Latest(t) < ts)
  <2>1. r \in Seq(TailEntry) /\ r # <<>>
    BY <1>5 DEF TailEntry
  <2> QED
    BY <1>3, <1>5, <2>1 DEF TP!Latest, r, k
<1>6. CASE /\ t # <<>> /\ TP!Latest(t) >= ts
           /\ r \in Seq(TP!Entry) /\ Len(r) = Len(t) /\ k \in 1 .. Len(t)
           /\ \A i \in 1 .. Len(t) : r[i].ts = t[i].ts
           /\ \A i \in 1 .. Len(t) : i < k => r[i] = t[i]
           /\ \A i \in 1 .. Len(t) : i >= k => r[i].pose = Mul(t[i].pose, Mul(Inv(t[k].pose), p))
  <2>1. \A i \in 1 .. Len(r) : r[i] \in TailEntry
    <3> SUFFICES ASSUME NEW i \in 1 .. Len(r) PROVE r[i] \in TailEntry
      OBVIOUS
    <3>1. r[i] \in TP!Entry /\ r[i].ts \in Timestamp
      BY <1>6, ElementOfSeq, EntryFacts
    <3> QED
      BY <3>1 DEF TP!Entry, TailEntry
  <2>2. r \in Seq(TailEntry)
    BY <1>6, <2>1, SeqDef, LenProperties
  <2>3. r # <<>>
    BY <1>6, EntryFacts, EmptySeq
  <2> QED
    BY <1>3, <1>4, <1>6, <2>2, <2>3 DEF TP!Latest, r, k
<1> QED
  BY <1>2, <1>5, <1>6

-----------------------------------------------------------------------------
(* What the types say                                                      *)

LEMMA TypeFacts ==
  ASSUME TypeOK
  PROVE  /\ tail \in Seq(TailEntry) /\ queue \in Seq(Input) /\ Len(queue) \in Nat
         /\ trackData.ts \in Int /\ trackData.ts >= 0 /\ trackData.ts <= TsMax /\ trackData.from \in Pose
         /\ call.ts \in Int /\ call.ts <= TsMax /\ call.pose \in Pose
         /\ head.ts \in Int /\ head.ts >= 0 /\ head.ts <= TsMax /\ head.pose \in Pose
         /\ head = [ts |-> head.ts, pose |-> head.pose]
         /\ command.ts \in Int /\ command.ts >= 0 /\ command.ts <= TsMax /\ command.pose \in Pose
         /\ input \in Int /\ input >= 0 /\ input <= TsMax
         /\ lastClosure \in Int /\ lastClosure >= 0 /\ lastClosure <= TsMax
         /\ TsMax \in Int
<1>1. tail \in Seq(TailEntry) /\ queue \in Seq(Input) /\ Len(queue) \in Nat
  BY LenProperties DEF TypeOK
<1>2. trackData \in Motion /\ call \in Placed /\ head \in Placed /\ command \in Command
      /\ input \in 0 .. TsMax /\ lastClosure \in 0 .. TsMax /\ TsMax \in Int
  BY AsyncSlamAssumption DEF TypeOK
<1> QED
  BY <1>1, <1>2 DEF Motion, Placed, Command

LEMMA InputFacts ==
  ASSUME NEW q \in Seq(Input), NEW i \in 1 .. Len(q)
  PROVE  /\ q[i] \in Input
         /\ q[i].kind = "keyframe" => /\ q[i] \in Keyframe /\ q[i].ts \in Timestamp
                                     /\ q[i].ts \in Int /\ q[i].ts >= 1 /\ q[i].from \in Pose
<1>1. q[i] \in Input
  BY ElementOfSeq
<1> QED
  BY <1>1 DEF Input, Keyframe, Localisation, Timestamp

LEMMA TimestampFacts ==
  ASSUME NEW ts \in Timestamp
  PROVE  /\ ts \in Int /\ ts >= 1 /\ ts <= TsMax /\ ts \in 0 .. TsMax /\ ts \in PT!Timestamp
BY AsyncSlamAssumption DEF Timestamp, PT!Timestamp

\* The tip is an entry.
LEMMA TipFacts ==
  ASSUME NEW t \in Seq(TailEntry), t # <<>>
  PROVE  /\ Len(t) \in 1 .. Len(t) /\ t[Len(t)] \in TailEntry
         /\ t[Len(t)].ts \in Timestamp /\ t[Len(t)].ts \in Int /\ t[Len(t)].pose \in Pose
<1>1. Len(t) \in 1 .. Len(t)
  BY EntryFacts
<1> QED
  BY <1>1, EntryFacts DEF TailEntry

-----------------------------------------------------------------------------
(* The steps of the two threads                                            *)

LEMMA InitCore == Init => Core /\ PT!Init
<1> SUFFICES ASSUME Init PROVE Core /\ PT!Init
  OBVIOUS
<1>1. TypeOK
  <2>1. tail \in Seq(TailEntry) /\ queue \in Seq(Input)
    BY DEF Init
  <2>2. trackData \in Motion /\ call \in Placed /\ head \in Placed /\ command \in Command
    BY AsyncSlamAssumption, PoseGroupAssumption
       DEF Init, NoCall, EmptyGraph, NoCommand, Motion, Placed, Command
  <2>3. drift = {} /\ images \in 0 .. TsMax /\ input \in 0 .. TsMax /\ lastClosure \in 0 .. TsMax
    BY AsyncSlamAssumption DEF Init, NoFrame
  <2>4. answer \in [Request -> {"none", "queued", "started", "success", "error"}] /\ pc = "wait"
        /\ isFirstFrame \in BOOLEAN /\ aborted \in BOOLEAN
    BY DEF Init
  <2> QED
    BY <2>1, <2>2, <2>3, <2>4 DEF TypeOK
<1>2. HandedOver /\ SeenByThread /\ EntriesApart
  BY DEF Init, NoCall, EmptyGraph, NoFrame, HandedOver, NothingYet, SeenByThread, EntriesApart
<1> QED
  BY <1>1, <1>2 DEF Core, PT!Init, Init

\* The part every frame goes through.
LEMMA CountFrameKeeps ==
  ASSUME Core, NEW ts \in Timestamp, NEW delta \in Pose, CountFrame(ts, delta),
         call' \in Placed, call' # NoCall => call'.ts = ts,
         UNCHANGED <<images, queue, aborted, slamVars, answer>>
  PROVE  Core' /\ (tail' = tail \/ PT!Clear)
<1>1. /\ call = NoCall /\ ts > trackData.ts /\ isFirstFrame' = FALSE
      /\ tail' = IF isFirstFrame THEN <<>> ELSE tail
      /\ trackData' = [ts |-> ts, from |-> Mul(trackData.from, delta)]
      /\ drift' \subseteq drift \cup Cause
      /\ UNCHANGED <<images, queue, aborted, head, pc, input, command, lastClosure, answer>>
  BY DEF CountFrame, slamVars, Cause
<1>2. TypeOK /\ HandedOver /\ SeenByThread /\ EntriesApart
  BY DEF Core
<1>3. /\ tail \in Seq(TailEntry) /\ trackData.from \in Pose /\ trackData.ts \in Int
      /\ ts \in Int /\ ts >= 1 /\ ts \in 0 .. TsMax
  BY <1>2, TypeFacts, TimestampFacts
<1>4. TypeOK'
  <2>1. tail' \in Seq(TailEntry)
    BY <1>1, <1>3
  <2>2. trackData' \in Motion
    BY <1>1, <1>3, PoseGroupAssumption DEF Motion
  <2>3. isFirstFrame' \in BOOLEAN
    BY <1>1
  <2> QED
    BY <1>1, <1>2, <2>1, <2>2, <2>3 DEF TypeOK
<1>5. HandedOver'
  BY <1>1, <1>2, <1>3 DEF HandedOver, NothingYet
<1>6. SeenByThread'
  BY <1>1, <1>2 DEF SeenByThread, Tip
<1>7. EntriesApart'
  <2>1. CASE tail' = <<>>
    BY <2>1 DEF EntriesApart
  <2>2. CASE tail' = tail
    <3>1. \A i \in 2 .. Len(tail) : tail[i].ts < ts
      <4> SUFFICES ASSUME NEW i \in 2 .. Len(tail) PROVE tail[i].ts < ts
        OBVIOUS
      <4>1. Len(tail) \in Nat
        BY <1>3, EntryFacts
      <4>2. i \in 1 .. Len(tail)
        BY <4>1
      <4>3. tail[i].ts \in Int /\ tail[i].ts <= trackData.ts
        BY <1>2, <1>3, <4>2, EntryFacts DEF EntriesApart
      <4> QED
        BY <1>1, <1>3, <4>3
    <3>2. \A i \in 2 .. Len(tail) : tail[i].ts <= ts
      BY <1>3, <3>1, EntryFacts
    <3>3. trackData'.ts = ts
      BY <1>1
    <3> QED
      BY <1>2, <2>2, <3>1, <3>2, <3>3 DEF EntriesApart
  <2> QED
    BY <1>1, <2>1, <2>2
<1> QED
  BY <1>1, <1>4, <1>5, <1>6, <1>7 DEF Core, PT!Clear

\* The pose a keyframe is handed over with.
LEMMA SlamPoseTyped ==
  ASSUME NEW t \in Seq(TailEntry), NEW p \in Pose PROVE SlamPose(t, p) \in Pose
BY TipFacts, PoseGroupAssumption DEF SlamPose

LEMMA TrackKeeps ==
  ASSUME Core, NEW ts \in Timestamp, NEW delta \in Pose,
         TrackFrame(ts, delta) \/ TrackKeyframe(ts, delta)
  PROVE  Core' /\ (tail' = tail \/ PT!Clear)
<1>1. CountFrame(ts, delta) /\ UNCHANGED <<images, queue, aborted, slamVars, answer>>
  BY DEF TrackFrame, TrackKeyframe
<1>2. call' \in Placed /\ (call' # NoCall => call'.ts = ts)
  <2>1. CASE TrackFrame(ts, delta)
    <3>1. call' = NoCall /\ call \in Placed /\ call' = call
      BY <2>1 DEF TrackFrame, CountFrame, Core, TypeOK
    <3> QED
      BY <3>1
  <2>2. CASE TrackKeyframe(ts, delta)
    <3>1. tail \in Seq(TailEntry) /\ trackData.from \in Pose
      BY TypeFacts DEF Core
    <3>2. tail' \in Seq(TailEntry) /\ trackData'.from \in Pose
      <4>1. tail' = tail \/ tail' = <<>>
        BY <1>1 DEF CountFrame
      <4>2. trackData'.from = Mul(trackData.from, delta)
        BY <1>1 DEF CountFrame
      <4>3. <<>> \in Seq(TailEntry)
        OBVIOUS
      <4> QED
        BY <3>1, <4>1, <4>2, <4>3, ProductIsPose
    <3>3. SlamPose(tail', trackData'.from) \in Pose
      BY <3>2, SlamPoseTyped
    <3>4. call' = [ts |-> ts, pose |-> SlamPose(tail', trackData'.from)]
      BY <2>2 DEF TrackKeyframe
    <3> QED
      BY <3>3, <3>4, TimestampFacts DEF Placed
  <2> QED
    BY <2>1, <2>2
<1> QED
  BY <1>1, <1>2, CountFrameKeeps

\* What HandOver does, in plain terms.
LEMMA HandOverFacts ==
  ASSUME Core, HandOver
  PROVE  /\ call.ts \in Timestamp /\ trackData.ts = call.ts /\ trackData'.ts = call.ts
         /\ trackData' \in Motion /\ call' = NoCall /\ call' \in Placed /\ images' \in 0 .. TsMax
         /\ ~ isFirstFrame /\ call # NoCall
         /\ UNCHANGED <<isFirstFrame, aborted, head, pc, input, command, lastClosure, answer>>
         /\ \/ ~ Accepted /\ UNCHANGED <<tail, queue, drift>>
            \/ /\ Accepted /\ tail' = PT!WithOdometry(tail, call.ts, call.pose)
               /\ queue' = Append(queue, [kind |-> "keyframe", ts |-> call.ts, from |-> trackData.from])
               /\ drift' \subseteq drift \cup Cause
<1>1. call # NoCall /\ TypeOK /\ HandedOver
  BY DEF HandOver, Core
<1>2. call.ts = trackData.ts /\ call.ts >= 1 /\ ~ isFirstFrame
  BY <1>1 DEF HandedOver
<1>3. call.ts \in Timestamp /\ call.ts \in 0 .. TsMax
  BY <1>1, <1>2, TypeFacts DEF Timestamp
<1>4. trackData' \in Motion /\ trackData'.ts = trackData.ts
  <2>1. trackData \in Motion /\ trackData' = [trackData EXCEPT !.from = Id]
    BY <1>1 DEF HandOver, ResetMotion, TypeOK
  <2> QED
    BY <2>1, PoseGroupAssumption DEF Motion
<1>5. call' = NoCall /\ call' \in Placed
  <2>1. NoCall \in Placed
    BY AsyncSlamAssumption, PoseGroupAssumption DEF NoCall, Placed
  <2> QED
    BY <2>1 DEF HandOver
<1>6. images' = call.ts /\ UNCHANGED <<isFirstFrame, aborted, head, pc, input, command, lastClosure, answer>>
  BY DEF HandOver, slamVars
<1>7. \/ ~ Accepted /\ UNCHANGED <<tail, queue, drift>>
      \/ /\ Accepted /\ tail' = PT!WithOdometry(tail, call.ts, call.pose)
         /\ queue' = Append(queue, [kind |-> "keyframe", ts |-> call.ts, from |-> trackData.from])
         /\ drift' \subseteq drift \cup Cause
  BY DEF HandOver, Cause
<1> QED
  BY <1>1, <1>2, <1>3, <1>4, <1>5, <1>6, <1>7

\* A keyframe is appended to the tail as UpdateTimeByOdometry does it.
LEMMA HandOverKeeps ==
  ASSUME Core, HandOver
  PROVE  /\ Core'
         /\ tail' = tail \/ PT!UpdateTimeByOdometry(call.ts, call.pose)
<1>1. TypeOK /\ HandedOver /\ SeenByThread /\ EntriesApart
  BY DEF Core
<1>2. /\ call.ts \in Timestamp /\ trackData.ts = call.ts /\ trackData'.ts = call.ts
      /\ trackData' \in Motion /\ call' = NoCall /\ call' \in Placed /\ images' \in 0 .. TsMax
      /\ ~ isFirstFrame /\ call # NoCall
      /\ UNCHANGED <<isFirstFrame, aborted, head, pc, input, command, lastClosure, answer>>
  BY HandOverFacts
<1>3. /\ tail \in Seq(TailEntry) /\ Len(tail) \in Nat /\ queue \in Seq(Input) /\ Len(queue) \in Nat
      /\ \A i \in 1 .. Len(tail) : tail[i].ts \in Int
      /\ call.ts \in Int /\ call.ts >= 1 /\ call.ts <= TsMax /\ TsMax \in Int
      /\ call.pose \in Pose /\ trackData.from \in Pose /\ input \in Int /\ lastClosure \in Int
  BY <1>1, <1>2, TypeFacts, EntryFacts, TimestampFacts
<1>4. CASE UNCHANGED <<tail, queue, drift>>
  <2>1. TypeOK'
    BY <1>1, <1>2, <1>4 DEF TypeOK
  <2>2. HandedOver' /\ SeenByThread' /\ EntriesApart'
    BY <1>1, <1>2, <1>4 DEF HandedOver, SeenByThread, NothingYet, Tip, EntriesApart
  <2> QED
    BY <1>4, <2>1, <2>2 DEF Core
<1>5. CASE /\ Accepted /\ tail' = PT!WithOdometry(tail, call.ts, call.pose)
           /\ queue' = Append(queue, [kind |-> "keyframe", ts |-> call.ts, from |-> trackData.from])
           /\ drift' \subseteq drift \cup Cause
  <2> DEFINE k == TP!Kept(tail, call.ts, call.pose)
             e == [kind |-> "keyframe", ts |-> call.ts, from |-> trackData.from]
  <2>2. /\ tail' \in Seq(TailEntry) /\ tail' # <<>>
        /\ tail'[Len(tail')] = [ts |-> call.ts, pose |-> call.pose]
        /\ k \in 1 .. Len(tail) + 1 /\ Len(tail') = Len(tail) + 2 - k
        /\ \A i \in 1 .. Len(tail') - 1 : tail'[i] = tail[k + i - 1]
    <3> DEFINE r == PT!WithOdometry(tail, call.ts, call.pose)
    <3>1. /\ r \in Seq(TailEntry) /\ r # <<>> /\ r[Len(r)] = [ts |-> call.ts, pose |-> call.pose]
          /\ k \in 1 .. Len(tail) + 1 /\ Len(r) = Len(tail) + 2 - k
          /\ \A i \in 1 .. Len(r) - 1 : r[i] = tail[k + i - 1]
      <4>1. tail \in Seq(TailEntry) /\ call.ts \in Timestamp /\ call.pose \in Pose
        BY <1>2, <1>3
      <4>2. r \in Seq(TailEntry) /\ r # <<>> /\ r[Len(r)] = [ts |-> call.ts, pose |-> call.pose]
        BY <4>1, OdometryFacts, ZenonT(40)
      <4>3. k \in 1 .. Len(tail) + 1 /\ Len(r) = Len(tail) + 2 - k
        BY <4>1, OdometryFacts, ZenonT(40)
      <4>4. \A i \in 1 .. Len(r) - 1 : r[i] = tail[k + i - 1]
        BY <4>1, OdometryFacts, ZenonT(40)
      <4> HIDE DEF r, k
      <4> QED
        BY <4>2, <4>3, <4>4
    <3>2. tail' = r
      BY <1>5
    <3> HIDE DEF r, k
    <3> QED
      BY <3>1, <3>2
  <2> HIDE DEF k
  <2>3. /\ queue' \in Seq(Input) /\ Len(queue') = Len(queue) + 1
        /\ \A i \in 1 .. Len(queue) : queue'[i] = queue[i]
        /\ queue'[Len(queue) + 1] = e
    <3>1. e \in Input /\ queue' = Append(queue, e)
      BY <1>2, <1>3, <1>5 DEF Keyframe, Input
    <3> HIDE DEF e
    <3> QED
      BY <1>3, <3>1, AppendProperties
  <2>4. TypeOK'
    <3>1. drift' \subseteq Cause
      BY <1>1, <1>5 DEF TypeOK
    <3> QED
      BY <1>1, <1>2, <2>2, <2>3, <3>1 DEF TypeOK
  <2>5. HandedOver'
    BY <1>2, <2>2 DEF HandedOver
  <2>6. tail # <<>> => Tip.ts <= call.ts /\ Tip.ts \in Int
    BY <1>3, <1>5, TipFacts DEF Tip, Accepted, PT!OdometryAccepted, PT!Latest
  <2>7. SeenByThread'
    <3>1. Tip'.ts = call.ts
      BY <2>2 DEF Tip
    <3>3. input <= call.ts /\ lastClosure <= call.ts
      <4>1. CASE tail = <<>>
        BY <1>1, <1>3, <4>1 DEF HandedOver, NothingYet, NoFrame
      <4>2. CASE tail # <<>>
        BY <1>1, <1>3, <2>6, <4>2 DEF SeenByThread
      <4> QED
        BY <4>1, <4>2
    <3>4. \A i \in 1 .. Len(queue') : queue'[i].kind = "keyframe" => queue'[i].ts <= call.ts
      <4> SUFFICES ASSUME NEW i \in 1 .. Len(queue'), queue'[i].kind = "keyframe"
                   PROVE  queue'[i].ts <= call.ts
        OBVIOUS
      <4>1. CASE i = Len(queue) + 1
        BY <1>3, <2>3, <4>1
      <4>2. CASE i # Len(queue) + 1
        <5>1. i \in 1 .. Len(queue)
          BY <1>3, <2>3, <4>2
        <5>2. queue'[i] = queue[i] /\ queue[i].kind = "keyframe"
          BY <2>3, <5>1
        <5>3. queue[i].ts \in Int
          BY <1>3, <5>1, <5>2, InputFacts
        <5>4. tail # <<>>
          BY <1>1, <5>1, <5>2 DEF HandedOver, NothingYet
        <5>5. queue[i].ts <= Tip.ts
          BY <1>1, <5>1, <5>2, <5>4 DEF SeenByThread
        <5> QED
          BY <1>3, <2>6, <5>2, <5>3, <5>4, <5>5
      <4> QED
        BY <4>1, <4>2
    <3> QED
      BY <1>1, <1>2, <3>1, <3>3, <3>4 DEF SeenByThread
  <2>8. \A i \in 2 .. Len(tail) : tail[i].ts >= i - 1 /\ tail[i].ts < call.ts
    BY <1>1, <1>2, <1>3 DEF EntriesApart
  <2>9. Len(tail) <= call.ts
    <3>1. CASE Len(tail) >= 2
      <4>1. Len(tail) \in 2 .. Len(tail) /\ Len(tail) \in 1 .. Len(tail)
        BY <1>3, <3>1
      <4>2. tail[Len(tail)].ts >= Len(tail) - 1 /\ tail[Len(tail)].ts < call.ts
            /\ tail[Len(tail)].ts \in Int
        BY <1>3, <2>8, <4>1
      <4> QED
        BY <1>3, <4>2
    <3>2. CASE ~ (Len(tail) >= 2)
      BY <1>3, <3>2
    <3> QED
      BY <3>1, <3>2
  <2>10. EntriesApart'
    <3>1. Len(tail') \in Nat /\ k \in Int /\ k >= 1
      <4>1. k \in 1 .. Len(tail) + 1
        BY <2>2
      <4> QED
        BY <1>3, <2>2, <4>1, EntryFacts
    <3>0. Len(tail') = Len(tail) + 2 - k
      BY <2>2
    <3>2. ASSUME NEW i \in 1 .. Len(tail')
          PROVE  tail'[i].ts >= i - 1 /\ (i >= 2 => tail'[i].ts <= call.ts)
      <4>1. CASE i = Len(tail')
        <5>1. i <= Len(tail) + 1 /\ tail'[i].ts = call.ts
          BY <1>3, <2>2, <3>1, <4>1
        <5> QED
          BY <1>3, <2>9, <5>1
      <4>2. CASE i # Len(tail')
        <5> DEFINE j == k + i - 1
        <5>1. i \in 1 .. Len(tail') - 1 /\ j \in 1 .. Len(tail) /\ j >= i /\ i \in Int /\ j \in Int
              /\ (i >= 2 => j \in 2 .. Len(tail))
          <6>1. i \in Int /\ i >= 1 /\ i <= Len(tail') - 1 /\ k >= 1 /\ Len(tail') = Len(tail) + 2 - k
                /\ Len(tail) \in Int /\ k \in Int
            BY <1>3, <3>0, <3>1, <4>2
          <6> HIDE DEF k
          <6> QED
            BY <6>1
        <5>2. tail'[i] = tail[j]
          BY <2>2, <5>1
        <5> HIDE DEF j
        <5>3. tail[j].ts >= j - 1 /\ tail[j].ts \in Int
          BY <1>1, <1>3, <5>1 DEF EntriesApart
        <5>4. i >= 2 => tail[j].ts < call.ts
          BY <2>8, <5>1
        <5>5. tail[j].ts >= i - 1
          BY <5>1, <5>3
        <5>6. i >= 2 => tail[j].ts <= call.ts
          BY <1>3, <5>3, <5>4
        <5> QED
          BY <5>2, <5>5, <5>6
      <4> QED
        BY <4>1, <4>2
    <3>3. \A i \in 2 .. Len(tail') : i \in 1 .. Len(tail') /\ i >= 2
      BY <3>1
    <3> QED
      BY <1>2, <3>2, <3>3 DEF EntriesApart
  <2>11. PT!UpdateTimeByOdometry(call.ts, call.pose)
    <3>1. Len(tail) < MaxTailLength
      BY <1>3, <2>9, AsyncSlamAssumption
    <3> QED
      BY <1>5, <3>1 DEF PT!UpdateTimeByOdometry, Accepted
  <2> QED
    BY <2>4, <2>5, <2>7, <2>10, <2>11 DEF Core
<1> QED
  BY <1>4, <1>5, HandOverFacts

\* A correction of the tail leaves its times as they were, or newer.
LEMMA CorrectionKeeps ==
  ASSUME Core, NEW ts \in Timestamp, NEW p \in Pose, tail' = PT!WithSlamPose(tail, ts, p),
         UNCHANGED <<call, trackData>>
  PROVE  /\ tail' \in Seq(TailEntry) /\ tail' # <<>>
         /\ tail # <<>> => Tip'.ts >= Tip.ts
         /\ EntriesApart'
<1>1. TypeOK /\ EntriesApart /\ tail \in Seq(TailEntry) /\ ts \in Int /\ ts >= 1
  BY TypeFacts, TimestampFacts DEF Core
<1> DEFINE k == TP!FirstNotBefore(tail, ts)
           r == PT!WithSlamPose(tail, ts, p)
<1>2. /\ r \in Seq(TailEntry) /\ r # <<>>
      /\ \/ r = << [ts |-> ts, pose |-> p] >> /\ (tail = <<>> \/ tail[Len(tail)].ts < ts)
         \/ /\ tail # <<>> /\ tail[Len(tail)].ts >= ts /\ Len(r) = Len(tail)
            /\ \A i \in 1 .. Len(tail) : r[i].ts = tail[i].ts
  BY <1>1, CorrectionFacts
<1>3. tail' = r
  OBVIOUS
<1> HIDE DEF r
<1>4. CASE r = << [ts |-> ts, pose |-> p] >> /\ (tail = <<>> \/ tail[Len(tail)].ts < ts)
  <2>1. Len(tail') = 1 /\ tail'[1].ts = ts /\ Tip'.ts = ts
    BY <1>3, <1>4 DEF Tip
  <2>2. tail # <<>> => Tip'.ts >= Tip.ts
    BY <1>1, <1>4, <2>1, TipFacts DEF Tip
  <2>3. \A i \in 1 .. Len(tail') : i = 1
    BY <2>1
  <2>4. \A i \in 2 .. Len(tail') : FALSE
    BY <2>1
  <2>5. EntriesApart'
    BY <1>1, <2>1, <2>3, <2>4 DEF EntriesApart
  <2> QED
    BY <1>2, <1>3, <2>2, <2>5
<1>5. CASE /\ tail # <<>> /\ Len(r) = Len(tail)
           /\ \A i \in 1 .. Len(tail) : r[i].ts = tail[i].ts
  <2>1. Tip'.ts = Tip.ts /\ Tip.ts \in Int
    BY <1>1, <1>3, <1>5, TipFacts DEF Tip
  <2>2. \A i \in 2 .. Len(tail) : i \in 1 .. Len(tail)
    BY <1>1, EntryFacts
  <2>3. EntriesApart'
    BY <1>1, <1>3, <1>5, <2>2 DEF EntriesApart
  <2> QED
    BY <1>2, <1>3, <2>1, <2>3
<1> QED
  BY <1>2, <1>4, <1>5

LEMMA CorrectTailKeeps ==
  ASSUME Core, CorrectTail
  PROVE  Core' /\ (tail' = tail \/ PT!UpdatePoseBySLAM(head.ts, head.pose)) /\ head.ts \in Timestamp
<1>1. /\ pc = "tail" /\ pc' = "wait"
      /\ UNCHANGED <<isFirstFrame, trackData, call, images, queue, aborted, head, input, command,
                     lastClosure, answer>>
      /\ drift' \subseteq drift \cup Cause
      /\ \/ Retained(head.ts) /\ tail' = PT!WithSlamPose(tail, head.ts, head.pose)
         \/ tail' = tail
  BY DEF CorrectTail, mainVars, Cause
<1>2. TypeOK /\ HandedOver /\ SeenByThread /\ EntriesApart
  BY DEF Core
<1>3. head.ts \in Timestamp /\ head.pose \in Pose /\ input # NoFrame
  BY <1>1, <1>2, TypeFacts DEF SeenByThread, NoFrame, Timestamp
<1>4. tail # <<>> /\ ~ isFirstFrame
  BY <1>2, <1>3 DEF HandedOver, NothingYet
<1>5. tail' \in Seq(TailEntry) /\ tail' # <<>> /\ Tip'.ts >= Tip.ts /\ Tip.ts \in Int
      /\ Tip'.ts \in Int /\ EntriesApart'
  <2>1. tail \in Seq(TailEntry)
    BY <1>2, TypeFacts
  <2>2. CASE tail' = tail
    BY <1>1, <1>2, <1>4, <2>1, <2>2, TipFacts DEF Tip, EntriesApart
  <2>3. CASE tail' = PT!WithSlamPose(tail, head.ts, head.pose)
    <3>1. tail' \in Seq(TailEntry) /\ tail' # <<>> /\ Tip'.ts >= Tip.ts /\ EntriesApart'
      BY <1>1, <1>3, <1>4, <2>3, CorrectionKeeps
    <3> QED
      BY <1>4, <2>1, <3>1, TipFacts DEF Tip
  <2> QED
    BY <1>1, <2>2, <2>3
<1>6. TypeOK'
  <2>1. drift' \subseteq Cause
    BY <1>1, <1>2 DEF TypeOK
  <2> QED
    BY <1>1, <1>2, <1>5, <2>1 DEF TypeOK
<1>7. HandedOver'
  BY <1>1, <1>2, <1>4, <1>5 DEF HandedOver
<1>8. SeenByThread'
  <2>1. \A i \in 1 .. Len(queue) : queue[i].kind = "keyframe" => queue[i].ts \in Int
    BY <1>2, TypeFacts, InputFacts
  <2>2. input \in Int /\ lastClosure \in Int
    BY <1>2, TypeFacts
  <2> QED
    BY <1>1, <1>2, <1>4, <1>5, <2>1, <2>2 DEF SeenByThread
<1>9. tail' = tail \/ PT!UpdatePoseBySLAM(head.ts, head.pose)
  BY <1>1 DEF Retained, PT!UpdatePoseBySLAM
<1> QED
  BY <1>3, <1>5, <1>6, <1>7, <1>8, <1>9 DEF Core

LEMMA LocalisedAtKeeps ==
  ASSUME Core, NEW p \in Pose, LocalisedAt(p)
  PROVE  /\ Core' /\ command.ts \in Timestamp
         /\ tail' = tail \/ PT!UpdatePoseBySLAM(command.ts, p)
<1>1. /\ pc = "localise"
      /\ UNCHANGED <<isFirstFrame, trackData, call, images, queue, aborted, head, input, lastClosure, drift>>
      /\ \/ /\ Retained(command.ts) /\ tail' = PT!WithSlamPose(tail, command.ts, p)
            /\ command' = [command EXCEPT !.pose = p] /\ pc' = "swap" /\ answer' = answer
         \/ /\ tail' = tail /\ command' = NoCommand /\ pc' = "drain"
            /\ answer' = [answer EXCEPT ![command.request] = "error"]
  BY DEF LocalisedAt, Finish, mainVars
<1>2. TypeOK /\ HandedOver /\ SeenByThread /\ EntriesApart
  BY DEF Core
<1>3. command.ts \in Timestamp /\ tail \in Seq(TailEntry)
  BY <1>1, <1>2, TypeFacts DEF SeenByThread, Timestamp
<1>4. command' \in Command /\ (pc' = "swap" => command'.ts >= 1)
  <2>1. command \in Command /\ NoCommand \in Command
    BY <1>2, AsyncSlamAssumption, PoseGroupAssumption DEF TypeOK, NoCommand, Command
  <2>2. CASE command' = NoCommand /\ pc' = "drain"
    BY <2>1, <2>2
  <2>3. CASE command' = [command EXCEPT !.pose = p]
    BY <1>3, <2>1, <2>3, TimestampFacts DEF Command
  <2> QED
    BY <1>1, <2>2, <2>3
<1>5. answer' \in [Request -> {"none", "queued", "started", "success", "error"}]
  BY <1>1, <1>2 DEF TypeOK
<1>6. /\ tail' \in Seq(TailEntry) /\ (tail' = tail \/ tail' # <<>>)
      /\ tail # <<>> => Tip'.ts >= Tip.ts /\ Tip.ts \in Int
      /\ tail' # <<>> => Tip'.ts \in Int
      /\ EntriesApart'
  <2>2. CASE tail' = tail
    BY <1>1, <1>2, <1>3, <2>2, TipFacts DEF Tip, EntriesApart
  <2>3. CASE tail' = PT!WithSlamPose(tail, command.ts, p)
    <3>1. /\ tail' \in Seq(TailEntry) /\ tail' # <<>> /\ EntriesApart'
          /\ tail # <<>> => Tip'.ts >= Tip.ts
      BY <1>1, <1>3, <2>3, CorrectionKeeps
    <3> QED
      BY <1>3, <3>1, TipFacts DEF Tip
  <2> QED
    BY <1>1, <2>2, <2>3
<1>7. TypeOK'
  BY <1>1, <1>2, <1>4, <1>5, <1>6 DEF TypeOK
<1>8. HandedOver'
  BY <1>1, <1>2, <1>6 DEF HandedOver, NothingYet
<1>9. SeenByThread'
  <2>1. \A i \in 1 .. Len(queue) : queue[i].kind = "keyframe" => queue[i].ts \in Int
    BY <1>2, TypeFacts, InputFacts
  <2>2. /\ input \in Int /\ lastClosure \in Int
        /\ tail' # <<>> => Tip'.ts \in Int
    BY <1>2, <1>6, TypeFacts
  <2>3. CASE tail = <<>> /\ tail' # <<>>
    <3>1. Tip'.ts >= 0
      BY <1>6, <2>3, TipFacts, TimestampFacts DEF Tip
    <3> QED
      BY <1>1, <1>2, <1>4, <2>2, <2>3, <3>1 DEF SeenByThread, HandedOver, NothingYet, NoFrame
  <2>4. CASE tail # <<>> /\ tail' # <<>>
    BY <1>1, <1>2, <1>4, <1>6, <2>1, <2>2, <2>4 DEF SeenByThread
  <2>5. CASE tail' = <<>>
    BY <1>1, <1>2, <1>4, <2>5 DEF SeenByThread
  <2> QED
    BY <2>3, <2>4, <2>5
<1>10. tail' = tail \/ PT!UpdatePoseBySLAM(command.ts, p)
  BY <1>1 DEF Retained, PT!UpdatePoseBySLAM
<1> QED
  BY <1>3, <1>6, <1>7, <1>8, <1>9, <1>10 DEF Core

-----------------------------------------------------------------------------
(* The queue                                                               *)

LEMMA PopFacts ==
  ASSUME NEW q \in Seq(Input), q # <<>>
  PROVE  /\ Tail(q) \in Seq(Input) /\ Len(Tail(q)) = Len(q) - 1 /\ Len(q) \in Nat /\ Len(q) >= 1
         /\ \A i \in 1 .. Len(q) - 1 : i + 1 \in 1 .. Len(q) /\ Tail(q)[i] = q[i + 1]
         /\ Head(q) = q[1] /\ 1 \in 1 .. Len(q)
<1> DEFINE S == Input
<1> HIDE DEF S
<1>1. q \in Seq(S)
  BY DEF S
<1>2. /\ Tail(q) \in Seq(S) /\ Len(Tail(q)) = Len(q) - 1 /\ Len(q) \in Nat /\ Len(q) >= 1
      /\ \A i \in 1 .. Len(q) - 1 : Tail(q)[i] = q[i + 1]
      /\ Head(q) = q[1]
  BY <1>1, HeadTailProperties, EmptySeq, LenProperties
<1> QED
  BY <1>2 DEF S

LEMMA PushFacts ==
  ASSUME NEW q \in Seq(Input), NEW e \in Input
  PROVE  /\ Append(q, e) \in Seq(Input) /\ Len(Append(q, e)) = Len(q) + 1 /\ Len(q) \in Nat
         /\ \A i \in 1 .. Len(q) : Append(q, e)[i] = q[i]
         /\ Append(q, e)[Len(q) + 1] = e
BY AppendProperties, LenProperties

\* Keyframes and commands leave the queue.
LEMMA TakeKeeps ==
  ASSUME Core, TakeKeyframe \/ TakeLocalisation
  PROVE  Core' /\ tail' = tail
<1>1. TypeOK /\ HandedOver /\ SeenByThread /\ EntriesApart /\ queue \in Seq(Input)
  BY TypeFacts DEF Core
<1>2. /\ queue # <<>> /\ queue' = Tail(queue) /\ pc = "drain"
      /\ UNCHANGED <<isFirstFrame, trackData, call, images, tail, aborted, lastClosure, drift>>
  BY DEF TakeKeyframe, TakeLocalisation, mainVars
<1>3. /\ queue' \in Seq(Input) /\ Len(queue') = Len(queue) - 1 /\ Head(queue) = queue[1]
      /\ Len(queue) \in Nat /\ 1 \in 1 .. Len(queue)
      /\ \A i \in 1 .. Len(queue') : i + 1 \in 1 .. Len(queue) /\ queue'[i] = queue[i + 1]
  BY <1>1, <1>2, PopFacts
<1>4. EntriesApart'
  BY <1>1, <1>2 DEF EntriesApart
<1>5. \A n : (\A i \in 1 .. Len(queue) : queue[i].kind = "keyframe" => queue[i].ts <= n)
         => (\A i \in 1 .. Len(queue') : queue'[i].kind = "keyframe" => queue'[i].ts <= n)
  BY <1>3
<1>6. CASE TakeKeyframe
  <2> DEFINE kf == queue[1]
  <2>1. kf.kind = "keyframe" /\ kf.ts \in Int /\ kf.ts >= 1 /\ kf.ts \in 0 .. TsMax /\ kf.from \in Pose
    BY <1>1, <1>3, <1>6, InputFacts, TimestampFacts DEF TakeKeyframe
  <2>2. UNCHANGED <<pc, command, answer>>
    BY <1>6 DEF TakeKeyframe
  <2>3. \/ TooOld(head, kf) /\ head' = head /\ input' = input
        \/ /\ ~ TooOld(head, kf) /\ head' = [ts |-> kf.ts, pose |-> Mul(head.pose, kf.from)]
           /\ input' = kf.ts
    BY <1>3, <1>6 DEF TakeKeyframe, HeadAfter
  <2>4. tail # <<>> /\ ~ isFirstFrame /\ kf.ts <= Tip.ts
    BY <1>1, <1>3, <2>1 DEF HandedOver, NothingYet, SeenByThread
  <2> HIDE DEF kf
  <2>5. head \in Placed /\ head.pose \in Pose /\ head.ts \in Int /\ lastClosure \in Int /\ lastClosure >= 0
    BY <1>1, TypeFacts DEF TypeOK
  <2>6. TypeOK'
    <3>1. head' \in Placed /\ input' \in 0 .. TsMax
      <4>1. input \in 0 .. TsMax /\ Mul(head.pose, kf.from) \in Pose
        BY <1>1, <2>1, <2>5, PoseGroupAssumption DEF TypeOK
      <4> QED
        BY <2>1, <2>3, <2>5, <4>1 DEF Placed
    <3> QED
      BY <1>1, <1>2, <1>3, <2>2, <3>1 DEF TypeOK
  <2>7. HandedOver'
    BY <1>1, <1>2, <2>4 DEF HandedOver
  <2>8. SeenByThread'
    <3>1. tail' # <<>> /\ Tip' = Tip
      BY <1>2, <2>4 DEF Tip
    <3>2. CASE input' = input /\ head' = head
      BY <1>1, <1>2, <1>5, <2>2, <2>4, <3>1, <3>2 DEF SeenByThread
    <3>3. CASE ~ TooOld(head, kf) /\ head'.ts = kf.ts /\ input' = kf.ts
      <4>1. lastClosure <= kf.ts
        <5>1. CASE head = EmptyGraph
          BY <1>1, <2>1, <2>5, <5>1 DEF SeenByThread, EmptyGraph
        <5>2. CASE head # EmptyGraph
          BY <1>1, <2>1, <2>5, <3>3, <5>2 DEF SeenByThread, TooOld
        <5> QED
          BY <5>1, <5>2
      <4> QED
        BY <1>1, <1>2, <1>5, <2>1, <2>2, <2>4, <3>1, <3>3, <4>1 DEF SeenByThread
    <3> QED
      BY <2>3, <3>2, <3>3
  <2> QED
    BY <1>2, <1>4, <2>6, <2>7, <2>8 DEF Core
<1>7. CASE TakeLocalisation
  <2>1. queue[1] \in Localisation
    <3>1. queue[1] \in Input /\ queue[1].kind = "localise"
      BY <1>1, <1>3, <1>7, InputFacts DEF TakeLocalisation
    <3> QED
      BY <3>1 DEF Input, Keyframe
  <2>2. /\ command' = [request |-> queue[1].request, ts |-> queue[1].ts, pose |-> Id]
        /\ answer' = [answer EXCEPT ![queue[1].request] = "started"]
        /\ pc' = "localise" /\ UNCHANGED <<head, input>>
    BY <1>3, <1>7 DEF TakeLocalisation
  <2>3. command' \in Command /\ command'.ts >= 1
    BY <2>1, <2>2, PoseGroupAssumption, TimestampFacts DEF Command, Localisation
  <2>4. TypeOK'
    BY <1>1, <1>2, <1>3, <2>2, <2>3 DEF TypeOK
  <2>5. HandedOver'
    BY <1>1, <1>2, <1>3, <2>2 DEF HandedOver, NothingYet
  <2>6. SeenByThread'
    BY <1>1, <1>2, <1>5, <2>2, <2>3 DEF SeenByThread, Tip
  <2> QED
    BY <1>2, <1>4, <2>4, <2>5, <2>6 DEF Core
<1> QED
  BY <1>6, <1>7

\* The other steps: none of them touches the tail.
LEMMA OthersKeep ==
  ASSUME Core, \/ Shutdown \/ Wait \/ Drained \/ NoLoop \/ CloseLoop \/ NotLocalised \/ Localised
               \/ SwapMap \/ UNCHANGED vars
               \/ \E r \in Request, ts \in Timestamp : LocalizeInMap(r, ts)
  PROVE  Core' /\ tail' = tail
<1>1. TypeOK /\ HandedOver /\ SeenByThread /\ EntriesApart /\ queue \in Seq(Input)
  BY TypeFacts DEF Core
<1>2. UNCHANGED <<isFirstFrame, trackData, call, images, tail>>
  BY DEF Shutdown, Wait, Drained, NoLoop, CloseLoop, NotLocalised, Localised, SwapMap, LocalizeInMap,
         vars, mainVars
<1>3. EntriesApart' /\ Tip' = Tip
  BY <1>1, <1>2 DEF EntriesApart, Tip
<1>4. CASE Shutdown \/ Wait \/ Drained \/ NoLoop \/ UNCHANGED vars
  <2>1. UNCHANGED <<queue, head, lastClosure, answer, drift, command>>
    BY <1>4 DEF Shutdown, Wait, Drained, NoLoop, vars, slamVars
  <2>2. aborted' \in BOOLEAN /\ pc' \in {"wait", "drain", "close", "tail", "localise", "swap", "reply", "stopped"}
    BY <1>1, <1>4 DEF Shutdown, Wait, Drained, NoLoop, vars, slamVars, TypeOK
  <2>3. input' = input \/ input' = NoFrame
    BY <1>4 DEF Shutdown, Wait, Drained, NoLoop, vars, slamVars
  <2>4. TypeOK'
    <3>1. input' \in 0 .. TsMax
      BY <1>1, <2>3, AsyncSlamAssumption DEF TypeOK, NoFrame
    <3> QED
      BY <1>1, <1>2, <2>1, <2>2, <3>1 DEF TypeOK
  <2>5. HandedOver'
    BY <1>1, <1>2, <2>1, <2>3 DEF HandedOver, NothingYet
  <2>6. SeenByThread'
    <3>1. /\ pc' \in {"close", "tail"} => input' # NoFrame
          /\ pc' \in {"localise", "swap"} => command'.ts >= 1
      BY <1>1, <1>4, <2>1 DEF Shutdown, Wait, Drained, NoLoop, vars, slamVars, SeenByThread
    <3>2. head.ts \in Int /\ head.ts >= 0
      BY <1>1, TypeFacts
    <3>3. tail # <<>> => Tip.ts >= 0
      BY <1>1, TypeFacts, TipFacts, TimestampFacts DEF Tip
    <3> QED
      BY <1>1, <1>2, <1>3, <2>1, <2>3, <3>1, <3>2, <3>3 DEF SeenByThread, NoFrame
  <2> QED
    BY <1>2, <1>3, <2>4, <2>5, <2>6 DEF Core
<1>5. CASE CloseLoop
  <2>1. /\ pc = "close" /\ pc' \in {"wait", "tail"} /\ lastClosure' \in {lastClosure, input}
        /\ head' = head \/ \E p \in Pose : head' = [head EXCEPT !.pose = p]
        /\ UNCHANGED <<queue, aborted, input, command, answer, drift>>
    BY <1>5 DEF CloseLoop
  <2>2. head \in Placed
    BY <1>1 DEF TypeOK
  <2>3. head' \in Placed /\ head'.ts = head.ts
    BY <2>1, <2>2 DEF Placed
  <2>4. TypeOK'
    BY <1>1, <1>2, <2>1, <2>3 DEF TypeOK
  <2>5. input # NoFrame
    BY <1>1, <2>1 DEF SeenByThread
  <2>6. tail # <<>> /\ ~ isFirstFrame
    BY <1>1, <2>5 DEF HandedOver, NothingYet
  <2>7. HandedOver'
    BY <1>1, <1>2, <2>6 DEF HandedOver
  <2>8. SeenByThread'
    <3>1. input <= Tip.ts /\ lastClosure <= Tip.ts /\ input <= head.ts /\ lastClosure <= head.ts
          /\ lastClosure <= input /\ input \in Int
      BY <1>1, <2>5, <2>6, TypeFacts DEF SeenByThread
    <3> QED
      BY <1>1, <1>2, <1>3, <2>1, <2>3, <2>5, <3>1 DEF SeenByThread
  <2> QED
    BY <1>2, <1>3, <2>4, <2>7, <2>8 DEF Core
<1>6. CASE NotLocalised \/ Localised
  <2>1. /\ UNCHANGED <<queue, aborted, head, input, lastClosure, drift>>
        /\ command' = NoCommand /\ pc' = "drain"
        /\ \E o \in {"error", "success"} : answer' = [answer EXCEPT ![command.request] = o]
    BY <1>6 DEF NotLocalised, Localised, Finish
  <2>2. command' \in Command
    BY <2>1, AsyncSlamAssumption, PoseGroupAssumption DEF NoCommand, Command
  <2>3. answer' \in [Request -> {"none", "queued", "started", "success", "error"}]
    BY <1>1, <2>1 DEF TypeOK
  <2>4. TypeOK'
    BY <1>1, <1>2, <2>1, <2>2, <2>3 DEF TypeOK
  <2>5. HandedOver' /\ SeenByThread'
    BY <1>1, <1>2, <1>3, <2>1 DEF HandedOver, NothingYet, SeenByThread
  <2> QED
    BY <1>2, <1>3, <2>4, <2>5 DEF Core
<1>7. CASE SwapMap
  <2>1. /\ UNCHANGED <<queue, aborted, input, lastClosure, command, answer>>
        /\ head' = SwappedHead /\ pc' = "reply" /\ drift' \subseteq drift \cup Cause
    BY <1>7 DEF SwapMap, Cause
  <2>2. tail # <<>> => head' = Tip
    BY <2>1 DEF SwappedHead
  <2>3. tail = <<>> => head' = [ts |-> command.ts, pose |-> command.pose]
    BY <2>1 DEF SwappedHead
  <2>4. head' \in Placed /\ head'.ts \in Int /\ head'.ts >= 0
    <3>1. CASE tail # <<>>
      <4>1. Tip \in TailEntry /\ Tip.ts \in Timestamp
        BY <1>1, <3>1, TypeFacts, TipFacts DEF Tip
      <4> QED
        BY <2>2, <3>1, <4>1, TimestampFacts DEF TailEntry, Placed
    <3>2. CASE tail = <<>>
      BY <1>1, <2>3, <3>2, TypeFacts DEF Placed
    <3> QED
      BY <3>1, <3>2
  <2>5. TypeOK'
    <3>1. drift' \subseteq Cause
      BY <1>1, <2>1 DEF TypeOK
    <3> QED
      BY <1>1, <1>2, <2>1, <2>4, <3>1 DEF TypeOK
  <2>6. HandedOver'
    BY <1>1, <1>2, <2>1 DEF HandedOver, NothingYet
  <2>7. SeenByThread'
    <3>1. lastClosure <= head'.ts /\ input <= head'.ts
      <4>1. CASE tail # <<>>
        BY <1>1, <2>2, <4>1 DEF SeenByThread
      <4>2. CASE tail = <<>>
        BY <1>1, <2>4, <4>2 DEF HandedOver, NothingYet, NoFrame
      <4> QED
        BY <4>1, <4>2
    <3> QED
      BY <1>1, <1>2, <1>3, <2>1, <3>1 DEF SeenByThread
  <2> QED
    BY <1>2, <1>3, <2>5, <2>6, <2>7 DEF Core
<1>8. ASSUME NEW r \in Request, NEW ts \in Timestamp, LocalizeInMap(r, ts) PROVE Core'
  <2> DEFINE e == [kind |-> "localise", request |-> r, ts |-> ts]
  <2>1. /\ UNCHANGED <<aborted, head, pc, input, command, lastClosure, drift>>
        /\ queue' = Append(queue, e) /\ answer' = [answer EXCEPT ![r] = "queued"]
    BY <1>8 DEF LocalizeInMap, slamVars
  <2>2. e \in Input /\ e.kind # "keyframe"
    BY DEF Input, Localisation
  <2> HIDE DEF e
  <2>3. /\ queue' \in Seq(Input) /\ Len(queue') = Len(queue) + 1 /\ Len(queue) \in Nat
        /\ \A i \in 1 .. Len(queue) : queue'[i] = queue[i]
        /\ queue'[Len(queue) + 1] = e
    BY <1>1, <2>1, <2>2, PushFacts
  <2>4. \A i \in 1 .. Len(queue') : queue'[i].kind = "keyframe" =>
           i \in 1 .. Len(queue) /\ queue'[i] = queue[i]
    BY <2>2, <2>3
  <2>5. TypeOK'
    <3>1. answer' \in [Request -> {"none", "queued", "started", "success", "error"}]
      BY <1>1, <2>1 DEF TypeOK
    <3> QED
      BY <1>1, <1>2, <2>1, <2>3, <3>1 DEF TypeOK
  <2>6. HandedOver'
    BY <1>1, <1>2, <2>1, <2>4 DEF HandedOver, NothingYet
  <2>7. SeenByThread'
    BY <1>1, <1>2, <1>3, <2>1, <2>4 DEF SeenByThread
  <2> QED
    BY <1>3, <2>5, <2>6, <2>7 DEF Core
<1> QED
  BY <1>2, <1>4, <1>5, <1>6, <1>7, <1>8

LEMMA CoreStep ==
  ASSUME Core, [Next]_vars
  PROVE  Core' /\ [PT!Next]_tail
<1>0. command.ts \in Timestamp => command.ts \in PT!Timestamp
  BY TimestampFacts
<1>1. CASE \E ts \in Timestamp, delta \in Pose : TrackFrame(ts, delta) \/ TrackKeyframe(ts, delta)
  BY <1>1, TrackKeeps DEF PT!Next
<1>2. CASE HandOver
  <2>1. call.ts \in PT!Timestamp /\ call.pose \in Pose
    <3>1. call.ts \in Timestamp /\ call.pose \in Pose
      BY <1>2, HandOverFacts, TypeFacts DEF Core
    <3> QED
      BY <3>1, TimestampFacts
  <2> QED
    BY <1>2, <2>1, HandOverKeeps DEF PT!Next
<1>3. CASE CorrectTail
  <2>1. head.pose \in Pose
    BY TypeFacts DEF Core
  <2>2. Core' /\ (tail' = tail \/ PT!UpdatePoseBySLAM(head.ts, head.pose)) /\ head.ts \in Timestamp
    BY <1>3, CorrectTailKeeps
  <2>3. head.ts \in PT!Timestamp
    BY <2>2, TimestampFacts
  <2> QED
    BY <2>1, <2>2, <2>3 DEF PT!Next
<1>4. CASE \E p \in Pose : LocalisedAt(p)
  <2>1. PICK p \in Pose : LocalisedAt(p)
    BY <1>4
  <2>2. Core' /\ (tail' = tail \/ PT!UpdatePoseBySLAM(command.ts, p)) /\ command.ts \in Timestamp
    BY <2>1, LocalisedAtKeeps
  <2> QED
    BY <1>0, <2>2 DEF PT!Next
<1>5. CASE TakeKeyframe \/ TakeLocalisation
  BY <1>5, TakeKeeps
<1>6. CASE \/ Shutdown \/ Wait \/ Drained \/ NoLoop \/ CloseLoop \/ NotLocalised \/ Localised
           \/ SwapMap \/ UNCHANGED vars
           \/ \E r \in Request, ts \in Timestamp : LocalizeInMap(r, ts)
  BY <1>6, OthersKeep
<1> QED
  BY <1>1, <1>2, <1>3, <1>4, <1>5, <1>6 DEF Next, MainThread, SlamThread

LEMMA CoreInvariant == Spec => []Core
BY InitCore, CoreStep, PTL DEF Spec

\* Every variable of the front end keeps its type.
THEOREM AsyncSlamTypes == Spec => []TypeOK
<1>1. Core => TypeOK
  BY DEF Core
<1> QED
  BY <1>1, CoreInvariant, PTL

\* The unsigned difference of timestamps in the throttling test never wraps: a
\* keyframe that reaches the test is not older than the last loop closure, also
\* after a localisation replaced the map (ProcessInput).
THEOREM ThrottlingIsSafe == Spec => []ThrottlingNeverWraps
<1>1. Core => ThrottlingNeverWraps
  <2> SUFFICES ASSUME Core, input # NoFrame PROVE SinceLastClosure = input - lastClosure
    BY DEF ThrottlingNeverWraps
  <2>1. lastClosure <= input /\ input \in Int /\ lastClosure \in Int /\ lastClosure >= 0 /\ input <= TsMax
    BY TypeFacts DEF Core, SeenByThread
  <2>2. \A d, w \in Nat : d < w => d % w = d
    OBVIOUS
  <2>3. input - lastClosure \in Nat /\ input - lastClosure < Wrap /\ Wrap \in Nat
    BY <2>1, AsyncSlamAssumption
  <2> QED
    BY <2>2, <2>3 DEF SinceLastClosure
<1> QED
  BY <1>1, CoreInvariant, PTL

\* Each step of the two threads is a method of the tail or leaves it alone.
THEOREM OnlyTailMethods == Spec => TailMethodsOnly
<1>1. Init => PT!Init
  BY InitCore
<1>2. Core /\ [Next]_vars => [PT!Next]_tail
  BY CoreStep
<1> QED
  BY <1>1, <1>2, CoreInvariant, PTL DEF Spec, TailMethodsOnly, PT!Spec

\* So what PoseTailProofs shows of the tail holds here: it is in time order and
\* within its window, whichever way the two threads interleave.
THEOREM TailStaysSorted == Spec => []TP!IInv
<1>1. PT!Init => TP!Init
  BY DEF PT!Init, TP!Init
<1>2. [PT!Next]_tail => [TP!Next]_tail
  <2>1. \A ts, p : PT!UpdateTimeByOdometry(ts, p) => TP!UpdateTimeByOdometry(ts, p)
    BY SameOperators DEF PT!UpdateTimeByOdometry, TP!UpdateTimeByOdometry
  <2>2. \A ts, p : PT!UpdatePoseBySLAM(ts, p) => TP!UpdatePoseBySLAM(ts, p)
    BY SameOperators DEF PT!UpdatePoseBySLAM, TP!UpdatePoseBySLAM
  <2>3. PT!Clear => TP!Clear
    BY DEF PT!Clear, TP!Clear
  <2>4. PT!Timestamp = TP!Timestamp
    BY DEF PT!Timestamp, TP!Timestamp
  <2> QED
    BY <2>1, <2>2, <2>3, <2>4 DEF PT!Next, TP!Next
<1>3. TP!Spec => []TP!IInv
  BY TP!TailInvariant, AsyncSlamAssumption, PoseGroupAssumption
<1> QED
  BY <1>1, <1>2, <1>3, OnlyTailMethods, PTL DEF TailMethodsOnly, PT!Spec, TP!Spec

-----------------------------------------------------------------------------
(***************************************************************************)
(* The tip of the tail and the pose graph.                                 *)
(*                                                                         *)
(* HeadsAlong is a recursive function; what it computes is shown by        *)
(* induction over the queue, in the form that a nonempty set of natural    *)
(* numbers has a least element.                                            *)
(***************************************************************************)
LEMMA LeastElement ==
  ASSUME NEW X, X \subseteq Nat, X # {}
  PROVE  \E m \in X : \A i \in X : m <= i
<1> DEFINE R == {ss \in Nat \X Nat : ss[1] < ss[2]}
<1>1. IsWellFoundedOn(R, Nat)
  BY NatLessThanWellFounded DEF OpToRel
<1> HIDE DEF R
<1>2. PICK m \in X : \A i \in X : <<i, m>> \notin R
  BY <1>1, WFMin
<1>3. ASSUME NEW i \in X PROVE m <= i
  <2>1. i \in Nat /\ m \in Nat /\ <<i, m>> \in Nat \X Nat
    OBVIOUS
  <2>2. <<i, m>>[1] = i /\ <<i, m>>[2] = m
    OBVIOUS
  <2>3. ~ (i < m)
    BY <1>2, <2>1, <2>2 DEF R
  <2> QED
    BY <2>1, <2>3
<1> QED
  BY <1>3

LEMMA Induction ==
  ASSUME NEW S, NEW n \in Nat, 0 \in S, \A i \in 0 .. n - 1 : i \in S => i + 1 \in S
  PROVE  \A i \in 0 .. n : i \in S
<1> DEFINE T == {i \in 0 .. n : i \notin S}
<1> SUFFICES ASSUME T # {} PROVE FALSE
  OBVIOUS
<1>1. T \subseteq Nat
  OBVIOUS
<1>2. PICK m \in T : \A i \in T : m <= i
  <2>1. T # {}
    OBVIOUS
  <2> HIDE DEF T
  <2> QED
    BY <1>1, <2>1, LeastElement
<1>3. m \in 0 .. n /\ m \notin S /\ m # 0
  BY <1>2
<1>4. m - 1 \in 0 .. n - 1 /\ m - 1 \in 0 .. n /\ ~ (m <= m - 1) /\ m - 1 + 1 = m
  BY <1>3
<1>5. m - 1 \in S
  BY <1>2, <1>4
<1> QED
  BY <1>3, <1>4, <1>5

\* One element of the queue, as the graph takes it.
Taken(h, e) == IF e.kind = "keyframe" THEN HeadAfter(h, e) ELSE h

LEMMA TakenFacts ==
  ASSUME NEW h \in Placed, NEW e \in Input
  PROVE  Taken(h, e) \in Placed /\ h.ts \in Int /\ Taken(h, e).ts \in Int /\ Taken(h, e).ts >= h.ts
<1>1. h.ts \in 0 .. TsMax /\ h.ts \in Int /\ h.ts >= 0 /\ h.pose \in Pose
  BY DEF Placed
<1>2. CASE e.kind # "keyframe"
  BY <1>1, <1>2 DEF Taken
<1>3. CASE e.kind = "keyframe"
  <2>1. e.ts \in Timestamp /\ e.from \in Pose
    BY <1>3 DEF Input, Keyframe, Localisation
  <2>2. e.ts \in Int /\ e.ts >= 1 /\ e.ts \in 0 .. TsMax /\ Mul(h.pose, e.from) \in Pose
    BY <1>1, <2>1, TimestampFacts, PoseGroupAssumption
  <2>3. CASE TooOld(h, e)
    BY <1>1, <1>3, <2>3 DEF Taken, HeadAfter
  <2>4. CASE ~ TooOld(h, e)
    <3>1. Taken(h, e) = [ts |-> e.ts, pose |-> Mul(h.pose, e.from)]
      BY <1>3, <2>4 DEF Taken, HeadAfter
    <3>2. e.ts >= h.ts
      BY <1>1, <2>2, <2>4 DEF TooOld, EmptyGraph
    <3> QED
      BY <1>1, <2>2, <3>1, <3>2 DEF Placed
  <2> QED
    BY <2>3, <2>4
<1> QED
  BY <1>2, <1>3

\* A function that follows the queue from h.
Follows(f, h, q) == f[0] = h /\ \A i \in 1 .. Len(q) : f[i] = Taken(f[i - 1], q[i])

\* There is one ...
LEMMA FollowerExists ==
  ASSUME NEW h \in Placed, NEW q \in Seq(Input)
  PROVE  \E f \in [0 .. Len(q) -> Placed] : Follows(f, h, q)
<1> DEFINE UpTo(f, n) == f[0] = h /\ \A i \in 1 .. n : f[i] = Taken(f[i - 1], q[i])
           S == {n \in Nat : \E f \in [0 .. n -> Placed] : UpTo(f, n)}
<1>1. Len(q) \in Nat
  BY LenProperties
<1>2. 0 \in S
  <2> DEFINE f == [i \in 0 .. 0 |-> h]
  <2>1. f \in [0 .. 0 -> Placed] /\ UpTo(f, 0)
    OBVIOUS
  <2> QED
    BY <2>1
<1>3. ASSUME NEW n \in 0 .. Len(q) - 1, n \in S PROVE n + 1 \in S
  <2>1. n \in Nat /\ n + 1 \in 1 .. Len(q)
    BY <1>1
  <2>2. PICK f \in [0 .. n -> Placed] : UpTo(f, n)
    BY <1>3
  <2> DEFINE g == [i \in 0 .. n + 1 |-> IF i <= n THEN f[i] ELSE Taken(f[n], q[n + 1])]
  <2>3. Taken(f[n], q[n + 1]) \in Placed
    <3>1. f[n] \in Placed /\ q[n + 1] \in Input
      BY <2>1, <2>2, InputFacts
    <3> QED
      BY <3>1, TakenFacts
  <2>4. g \in [0 .. n + 1 -> Placed]
    BY <2>1, <2>2, <2>3
  <2>5. g[0] = h
    BY <2>1, <2>2
  <2>6. ASSUME NEW i \in 1 .. n + 1 PROVE g[i] = Taken(g[i - 1], q[i])
    <3>1. CASE i = n + 1
      <4>1. g[i] = Taken(f[n], q[n + 1]) /\ g[i - 1] = f[n]
        BY <2>1, <3>1
      <4> QED
        BY <3>1, <4>1
    <3>2. CASE i # n + 1
      <4>1. i \in 1 .. n /\ g[i] = f[i] /\ g[i - 1] = f[i - 1]
        BY <2>1, <3>2
      <4>2. f[i] = Taken(f[i - 1], q[i])
        BY <2>2, <4>1
      <4> QED
        BY <4>1, <4>2
    <3> QED
      BY <3>1, <3>2
  <2> HIDE DEF g
  <2>7. UpTo(g, n + 1)
    BY <2>5, <2>6
  <2> HIDE DEF UpTo
  <2> QED
    BY <2>1, <2>4, <2>7
<1> HIDE DEF S
<1>4. \A i \in 0 .. Len(q) : i \in S
  BY <1>1, <1>2, <1>3, Induction
<1>5. Len(q) \in S
  BY <1>1, <1>4
<1> QED
  BY <1>5 DEF S, Follows

\* ... and only one.
LEMMA FollowersAgree ==
  ASSUME NEW h, NEW q \in Seq(Input), NEW f, NEW g, Follows(f, h, q), Follows(g, h, q)
  PROVE  \A i \in 0 .. Len(q) : f[i] = g[i]
<1> DEFINE S == {i \in Nat : f[i] = g[i]}
<1>1. Len(q) \in Nat
  BY LenProperties
<1>2. 0 \in S
  BY DEF Follows
<1>3. ASSUME NEW n \in 0 .. Len(q) - 1, n \in S PROVE n + 1 \in S
  <2>1. n + 1 \in 1 .. Len(q) /\ n + 1 \in Nat /\ n + 1 - 1 = n
    BY <1>1
  <2>2. f[n + 1] = Taken(f[n], q[n + 1]) /\ g[n + 1] = Taken(g[n], q[n + 1])
    <3>1. f[n + 1] = Taken(f[n + 1 - 1], q[n + 1]) /\ g[n + 1] = Taken(g[n + 1 - 1], q[n + 1])
      BY <2>1 DEF Follows
    <3> QED
      BY <2>1, <3>1
  <2> QED
    BY <1>3, <2>1, <2>2
<1> HIDE DEF S
<1>4. \A i \in 0 .. Len(q) : i \in S
  BY <1>1, <1>2, <1>3, Induction
<1> QED
  BY <1>4 DEF S

\* HeadsAlong follows the queue; the heads are placed and not older than h.
LEMMA HeadsAlongFollows ==
  ASSUME NEW h \in Placed, NEW q \in Seq(Input)
  PROVE  /\ Follows(HeadsAlong(h, q), h, q)
         /\ \A i \in 0 .. Len(q) : HeadsAlong(h, q)[i] \in Placed
<1> DEFINE F(g) == [i \in 0 .. Len(q) |->
                      IF i = 0 THEN h
                      ELSE IF q[i].kind = "keyframe" THEN HeadAfter(g[i - 1], q[i])
                      ELSE g[i - 1]]
<1>1. PICK f \in [0 .. Len(q) -> Placed] : Follows(f, h, q)
  BY FollowerExists
<1>2. Len(q) \in Nat
  BY LenProperties
<1>3. f = F(f)
  <2>1. \A i \in 0 .. Len(q) : f[i] = F(f)[i]
    <3> SUFFICES ASSUME NEW i \in 0 .. Len(q) PROVE f[i] = F(f)[i]
      OBVIOUS
    <3>1. CASE i = 0
      BY <1>1, <3>1 DEF Follows
    <3>2. CASE i # 0
      <4>1. i \in 1 .. Len(q)
        BY <1>2, <3>2
      <4>2. f[i] = Taken(f[i - 1], q[i])
        BY <1>1, <4>1 DEF Follows
      <4> QED
        BY <3>2, <4>2 DEF Taken
    <3> QED
      BY <3>1, <3>2
  <2>2. f = [i \in 0 .. Len(q) |-> f[i]]
    BY <1>1
  <2> QED
    BY <2>1, <2>2
<1>4. HeadsAlong(h, q) = CHOOSE g : g = F(g)
  BY DEF HeadsAlong
<1> DEFINE c == HeadsAlong(h, q)
<1>5. c = F(c)
  BY <1>3, <1>4
<1> HIDE DEF c
<1>6. Follows(c, h, q)
  <2>1. c[0] = h
    BY <1>2, <1>5
  <2>2. ASSUME NEW i \in 1 .. Len(q) PROVE c[i] = Taken(c[i - 1], q[i])
    <3>1. i \in 0 .. Len(q) /\ i # 0
      BY <1>2
    <3>2. F(c)[i] = Taken(c[i - 1], q[i])
      BY <3>1 DEF Taken
    <3> HIDE DEF F
    <3> QED
      BY <1>5, <3>2
  <2> QED
    BY <2>1, <2>2 DEF Follows
<1>7. \A i \in 0 .. Len(q) : f[i] = c[i]
  BY <1>1, <1>6, FollowersAgree
<1> QED
  BY <1>1, <1>6, <1>7 DEF c

\* What follows the queue from h is HeadsAlong.
LEMMA HeadsAlongIs ==
  ASSUME NEW h \in Placed, NEW q \in Seq(Input), NEW f, Follows(f, h, q)
  PROVE  \A i \in 0 .. Len(q) : HeadsAlong(h, q)[i] = f[i]
BY HeadsAlongFollows, FollowersAgree

\* The heads along a queue with one more element ...
LEMMA HeadsAppend ==
  ASSUME NEW h \in Placed, NEW q \in Seq(Input), NEW e \in Input
  PROVE  /\ \A i \in 0 .. Len(q) : HeadsAlong(h, Append(q, e))[i] = HeadsAlong(h, q)[i]
         /\ HeadsAlong(h, Append(q, e))[Len(q) + 1] = Taken(HeadsAlong(h, q)[Len(q)], e)
         /\ Append(q, e) \in Seq(Input) /\ Len(Append(q, e)) = Len(q) + 1
<1> DEFINE c == HeadsAlong(h, q)
           r == Append(q, e)
           f == [i \in 0 .. Len(q) + 1 |-> IF i <= Len(q) THEN c[i] ELSE Taken(c[Len(q)], e)]
<1>1. Len(q) \in Nat /\ r \in Seq(Input) /\ Len(r) = Len(q) + 1
      /\ r[Len(q) + 1] = e /\ \A i \in 1 .. Len(q) : r[i] = q[i]
  BY AppendProperties, LenProperties
<1>2. Follows(c, h, q)
  BY HeadsAlongFollows
<1> HIDE DEF c, r
<1>3. f[0] = h
  BY <1>1, <1>2 DEF Follows
<1>4. ASSUME NEW i \in 1 .. Len(r) PROVE f[i] = Taken(f[i - 1], r[i])
  <2>1. CASE i = Len(q) + 1
    <3>1. f[i] = Taken(c[Len(q)], e) /\ f[i - 1] = c[Len(q)] /\ r[i] = e
      BY <1>1, <2>1
    <3> QED
      BY <3>1
  <2>2. CASE i # Len(q) + 1
    <3>1. i \in 1 .. Len(q) /\ f[i] = c[i] /\ f[i - 1] = c[i - 1] /\ r[i] = q[i]
      BY <1>1, <2>2
    <3> QED
      BY <1>2, <3>1 DEF Follows
  <2> QED
    BY <2>1, <2>2
<1>5. \A i \in 0 .. Len(q) : f[i] = c[i] /\ i \in 0 .. Len(q) + 1
  BY <1>1
<1>6. f[Len(q) + 1] = Taken(c[Len(q)], e) /\ Len(q) + 1 \in 0 .. Len(q) + 1
  BY <1>1
<1> HIDE DEF f
<1>7. Follows(f, h, r)
  BY <1>3, <1>4 DEF Follows
<1>8. \A i \in 0 .. Len(q) + 1 : HeadsAlong(h, r)[i] = f[i]
  BY <1>1, <1>7, HeadsAlongIs
<1> QED
  BY <1>1, <1>5, <1>6, <1>8 DEF c, r

\* ... and after its first element.
LEMMA HeadsTail ==
  ASSUME NEW h \in Placed, NEW q \in Seq(Input), q # <<>>
  PROVE  /\ Taken(h, Head(q)) \in Placed
         /\ Tail(q) \in Seq(Input) /\ Len(Tail(q)) = Len(q) - 1
         /\ \A i \in 0 .. Len(q) - 1 :
              HeadsAlong(Taken(h, Head(q)), Tail(q))[i] = HeadsAlong(h, q)[i + 1]
<1> DEFINE c == HeadsAlong(h, q)
           g == Taken(h, Head(q))
           f == [i \in 0 .. Len(q) - 1 |-> c[i + 1]]
<1>1. /\ Len(q) \in Nat /\ Len(q) >= 1 /\ Head(q) = q[1] /\ Head(q) \in Input
      /\ Tail(q) \in Seq(Input) /\ Len(Tail(q)) = Len(q) - 1
      /\ \A i \in 1 .. Len(q) - 1 : Tail(q)[i] = q[i + 1]
  BY HeadTailProperties, LenProperties, EmptySeq, ElementOfSeq
<1>2. Follows(c, h, q)
  BY HeadsAlongFollows
<1>3. g \in Placed
  BY <1>1, TakenFacts
<1> HIDE DEF c
<1>4. f[0] = g
  <2>1. c[1] = Taken(c[1 - 1], q[1]) /\ c[0] = h
    BY <1>1, <1>2 DEF Follows
  <2> QED
    BY <1>1, <2>1
<1>5. ASSUME NEW i \in 1 .. Len(q) - 1 PROVE f[i] = Taken(f[i - 1], Tail(q)[i])
  <2>1. i + 1 \in 1 .. Len(q) /\ i + 1 - 1 = i /\ i - 1 + 1 = i
        /\ i \in 0 .. Len(q) - 1 /\ i - 1 \in 0 .. Len(q) - 1
    BY <1>1
  <2>2. c[i + 1] = Taken(c[i + 1 - 1], q[i + 1])
    BY <1>2, <2>1 DEF Follows
  <2>3. f[i] = c[i + 1] /\ f[i - 1] = c[i]
    BY <2>1
  <2> HIDE DEF f
  <2> QED
    BY <1>1, <2>1, <2>2, <2>3
<1>6. \A i \in 0 .. Len(q) - 1 : f[i] = c[i + 1]
  OBVIOUS
<1> HIDE DEF f, g
<1>7. Follows(f, g, Tail(q))
  BY <1>1, <1>4, <1>5 DEF Follows
<1> DEFINE r == Tail(q)
<1> HIDE DEF r
<1>8. \A i \in 0 .. Len(r) : HeadsAlong(g, r)[i] = f[i]
  <2>1. r \in Seq(Input) /\ Follows(f, g, r)
    BY <1>1, <1>7 DEF r
  <2> QED
    BY <1>3, <2>1, HeadsAlongIs
<1> QED
  BY <1>1, <1>3, <1>6, <1>8 DEF c, g, r

\* No head along the queue is older than the first.
LEMMA HeadsNotOlder ==
  ASSUME NEW h \in Placed, NEW q \in Seq(Input)
  PROVE  \A i \in 0 .. Len(q) : HeadsAlong(h, q)[i].ts \in Int /\ HeadsAlong(h, q)[i].ts >= h.ts
<1> DEFINE c == HeadsAlong(h, q)
           S == {i \in Nat : c[i].ts \in Int /\ c[i].ts >= h.ts}
<1>1. Len(q) \in Nat /\ h.ts \in Int
  BY LenProperties DEF Placed
<1>2. Follows(c, h, q) /\ \A i \in 0 .. Len(q) : c[i] \in Placed
  BY HeadsAlongFollows
<1> HIDE DEF c
<1>3. 0 \in S
  BY <1>1, <1>2 DEF Follows
<1>4. ASSUME NEW n \in 0 .. Len(q) - 1, n \in S PROVE n + 1 \in S
  <2>1. n + 1 \in 1 .. Len(q) /\ n + 1 \in Nat /\ n + 1 - 1 = n /\ n \in 0 .. Len(q)
    BY <1>1
  <2>2. c[n + 1] = Taken(c[n + 1 - 1], q[n + 1])
    BY <1>2, <2>1 DEF Follows
  <2>3. c[n] \in Placed /\ q[n + 1] \in Input
    BY <1>2, <2>1, InputFacts
  <2>4. c[n + 1].ts \in Int /\ c[n].ts \in Int /\ c[n + 1].ts >= c[n].ts
    BY <2>1, <2>2, <2>3, TakenFacts
  <2> QED
    BY <1>1, <1>4, <2>1, <2>4
<1> HIDE DEF S
<1>5. \A i \in 0 .. Len(q) : i \in S
  BY <1>1, <1>3, <1>4, Induction
<1> QED
  BY <1>5 DEF S, c

\* A queue whose keyframes are all older than h leaves h the head.
LEMMA HeadsStay ==
  ASSUME NEW h \in Placed, NEW q \in Seq(Input), h # EmptyGraph,
         \A i \in 1 .. Len(q) : q[i].kind = "keyframe" => q[i].ts < h.ts
  PROVE  \A i \in 0 .. Len(q) : HeadsAlong(h, q)[i] = h
<1> DEFINE f == [i \in 0 .. Len(q) |-> h]
<1>1. Len(q) \in Nat
  BY LenProperties
<1>2. ASSUME NEW i \in 1 .. Len(q) PROVE f[i] = Taken(f[i - 1], q[i])
  <2>1. f[i] = h /\ f[i - 1] = h
    BY <1>1
  <2> QED
    BY <2>1 DEF Taken, HeadAfter, TooOld
<1>3. Follows(f, h, q)
  BY <1>1, <1>2 DEF Follows
<1>4. \A i \in 0 .. Len(q) : f[i] = h
  OBVIOUS
<1> HIDE DEF f
<1> QED
  BY <1>3, <1>4, HeadsAlongIs

-----------------------------------------------------------------------------
(* The tail t is aligned with the graph when the heads along the queue are *)
(* its entries, as far as it still holds them, and the last head its tip.  *)

TipOf(t) == IF t = <<>> THEN EmptyGraph ELSE t[Len(t)]
KnownTo(t, g) ==
  g = EmptyGraph \/ ~ PT!TimestampIsRetained(t, g.ts) \/ \E j \in 1 .. Len(t) : t[j] = g
Aligned(h, q, t) ==
  /\ HeadsAlong(h, q)[Len(q)] = TipOf(t)
  /\ \A i \in 0 .. Len(q) : KnownTo(t, HeadsAlong(h, q)[i])

\* A keyframe taken by the graph leaves it aligned.
LEMMA TakenAligned ==
  ASSUME NEW h \in Placed, NEW q \in Seq(Input), q # <<>>, NEW t, Aligned(h, q, t)
  PROVE  Aligned(Taken(h, Head(q)), Tail(q), t)
<1> DEFINE g == Taken(h, Head(q))
           r == Tail(q)
<1>1. Len(q) \in Nat /\ Len(q) >= 1
  BY LenProperties, EmptySeq
<1>2. Len(r) = Len(q) - 1 /\ \A i \in 0 .. Len(q) - 1 : HeadsAlong(g, r)[i] = HeadsAlong(h, q)[i + 1]
  BY HeadsTail
<1> HIDE DEF g, r
<1>3. Len(r) \in 0 .. Len(q) - 1 /\ Len(r) + 1 = Len(q)
  BY <1>1, <1>2
<1>4. HeadsAlong(g, r)[Len(r)] = TipOf(t)
  BY <1>2, <1>3 DEF Aligned
<1>5. ASSUME NEW i \in 0 .. Len(r) PROVE KnownTo(t, HeadsAlong(g, r)[i])
  <2>1. i \in 0 .. Len(q) - 1 /\ i + 1 \in 0 .. Len(q)
    BY <1>1, <1>3
  <2> QED
    BY <1>2, <2>1 DEF Aligned
<1> QED
  BY <1>4, <1>5 DEF Aligned, g, r

\* So does a localisation command that is queued.
LEMMA CommandAligned ==
  ASSUME NEW h \in Placed, NEW q \in Seq(Input), NEW e \in Input, e.kind # "keyframe",
         NEW t, Aligned(h, q, t)
  PROVE  Aligned(h, Append(q, e), t)
<1> DEFINE r == Append(q, e)
<1>1. /\ \A i \in 0 .. Len(q) : HeadsAlong(h, r)[i] = HeadsAlong(h, q)[i]
      /\ HeadsAlong(h, r)[Len(q) + 1] = Taken(HeadsAlong(h, q)[Len(q)], e)
      /\ Len(r) = Len(q) + 1
  BY HeadsAppend
<1>2. Len(q) \in Nat
  BY LenProperties
<1> HIDE DEF r
<1>3. HeadsAlong(h, r)[Len(r)] = HeadsAlong(h, q)[Len(q)]
  BY <1>1 DEF Taken
<1>4. ASSUME NEW i \in 0 .. Len(r) PROVE KnownTo(t, HeadsAlong(h, r)[i])
  <2>1. Len(q) \in 0 .. Len(q)
    BY <1>2
  <2>2. CASE i = Len(r)
    BY <1>3, <2>1, <2>2 DEF Aligned
  <2>3. CASE i # Len(r)
    <3>1. i \in 0 .. Len(q)
      BY <1>1, <1>2, <2>3
    <3> QED
      BY <1>1, <3>1 DEF Aligned
  <2> QED
    BY <2>2, <2>3
<1> QED
  BY <1>3, <1>4 DEF Aligned, r

\* What a tail has dropped, or is too old for it, stays so when it grows.
LEMMA DroppedStaysDropped ==
  ASSUME NEW t \in Seq(TailEntry), NEW ts \in Timestamp, NEW p \in Pose, PT!OdometryAccepted(t, ts),
         NEW g \in Placed, KnownTo(t, g)
  PROVE  KnownTo(PT!WithOdometry(t, ts, p), g)
<1> DEFINE r == PT!WithOdometry(t, ts, p)
           k == TP!Kept(t, ts, p)
<1>1. /\ r \in Seq(TailEntry) /\ r # <<>> /\ r[Len(r)] = [ts |-> ts, pose |-> p]
      /\ k \in 1 .. Len(t) + 1 /\ Len(r) = Len(t) + 2 - k
      /\ \A i \in 1 .. Len(r) - 1 : r[i] = t[k + i - 1]
      /\ \A j \in 1 .. k - 1 : ~ PT!TimestampIsRetained(r, t[j].ts)
  BY OdometryFacts
<1>2. Len(t) \in Nat /\ ts \in Int /\ g.ts \in Int /\ g.ts >= 0
  BY EntryFacts, TimestampFacts DEF Placed
<1> HIDE DEF r, k
<1>3. CASE ~ PT!TimestampIsRetained(t, g.ts)
  <2>1. t # <<>> /\ g.ts < PT!Latest(t) /\ g.ts < PT!OldestAllowedTimestamp(t)
        /\ PT!Latest(t) \in Int /\ PT!Latest(t) <= ts /\ PT!Latest(r) = ts
    <3>1. (PT!Latest(t) \in Int /\ PT!OldestAllowedTimestamp(t) \in Int) \/ t = <<>>
      BY TipFacts, AsyncSlamAssumption DEF PT!Latest, PT!OldestAllowedTimestamp
    <3> QED
      BY <1>1, <1>2, <1>3, <3>1 DEF PT!TimestampIsRetained, PT!Latest, PT!OdometryAccepted
  <2>2. ~ (Retention > TsMax) /\ ~ (PT!Latest(t) < TsMin + Retention)
    BY <1>2, <2>1, AsyncSlamAssumption DEF PT!OldestAllowedTimestamp
  <2>3. PT!OldestAllowedTimestamp(t) = PT!Latest(t) - Retention
    BY <2>1, <2>2 DEF PT!OldestAllowedTimestamp
  <2>4. PT!OldestAllowedTimestamp(r) = ts - Retention
    BY <1>1, <1>2, <2>1, <2>2, AsyncSlamAssumption DEF PT!OldestAllowedTimestamp
  <2>5. ~ (g.ts >= ts) /\ ~ (g.ts >= ts - Retention)
    BY <1>2, <2>1, <2>3, AsyncSlamAssumption
  <2> QED
    BY <1>1, <2>1, <2>4, <2>5 DEF KnownTo, PT!TimestampIsRetained, r
<1>4. ASSUME NEW j \in 1 .. Len(t), t[j] = g PROVE KnownTo(r, g)
  <2>1. CASE j < k
    <3>1. j \in 1 .. k - 1
      BY <1>1, <1>2, <2>1
    <3> QED
      BY <1>1, <1>4, <3>1 DEF KnownTo
  <2>2. CASE ~ (j < k)
    <3>1. j - k + 1 \in 1 .. Len(r) - 1 /\ k + (j - k + 1) - 1 = j /\ j - k + 1 \in 1 .. Len(r)
      BY <1>1, <1>2, <2>2
    <3>2. r[j - k + 1] = g
      BY <1>1, <1>4, <3>1
    <3> QED
      BY <3>1, <3>2 DEF KnownTo
  <2> QED
    BY <2>1, <2>2
<1>5. CASE g = EmptyGraph
  BY <1>5 DEF KnownTo
<1> QED
  BY <1>3, <1>4, <1>5 DEF KnownTo, r

\* A keyframe handed over, at the pose GetSlamPose gives it, leaves the tail
\* aligned with the graph.
LEMMA HandedOverAligned ==
  ASSUME NEW h \in Placed, NEW q \in Seq(Input), NEW t \in Seq(TailEntry), Aligned(h, q, t),
         NEW e \in Keyframe, PT!OdometryAccepted(t, e.ts), t = <<>> => e.from = Id
  PROVE  Aligned(h, Append(q, e), PT!WithOdometry(t, e.ts, SlamPose(t, e.from)))
<1> DEFINE r == Append(q, e)
           p == SlamPose(t, e.from)
           s == PT!WithOdometry(t, e.ts, p)
           c == HeadsAlong(h, q)
<1>0. e \in Input /\ e.kind = "keyframe" /\ e.ts \in Timestamp /\ e.from \in Pose
      /\ e.ts \in Int /\ e.ts >= 1
  BY TimestampFacts DEF Input, Keyframe
<1>1. /\ \A i \in 0 .. Len(q) : HeadsAlong(h, r)[i] = c[i]
      /\ HeadsAlong(h, r)[Len(q) + 1] = Taken(c[Len(q)], e)
      /\ Len(r) = Len(q) + 1
  BY <1>0, HeadsAppend
<1>2. Len(q) \in Nat
  BY LenProperties
<1>3. p \in Pose
  BY <1>0, SlamPoseTyped
<1>4. s \in Seq(TailEntry) /\ s # <<>> /\ s[Len(s)] = [ts |-> e.ts, pose |-> p]
  BY <1>0, <1>3, OdometryFacts
<1>5. \A i \in 0 .. Len(q) : c[i] \in Placed
  BY HeadsAlongFollows
<1>6. c[Len(q)] = TipOf(t) /\ \A i \in 0 .. Len(q) : KnownTo(t, c[i])
  BY DEF Aligned
<1>7. Taken(TipOf(t), e) = [ts |-> e.ts, pose |-> p]
  <2>1. CASE t = <<>>
    <3>1. TipOf(t) = EmptyGraph /\ p = Id /\ Mul(EmptyGraph.pose, e.from) = Id
      BY <2>1, PoseGroupAssumption DEF TipOf, EmptyGraph, SlamPose
    <3> QED
      BY <1>0, <3>1 DEF Taken, HeadAfter, TooOld
  <2>2. CASE t # <<>>
    <3>1. TipOf(t) = t[Len(t)] /\ p = Mul(t[Len(t)].pose, e.from)
      BY <2>2 DEF TipOf, SlamPose
    <3>2. t[Len(t)].ts <= e.ts /\ t[Len(t)].ts \in Int
      BY <2>2, TipFacts DEF PT!OdometryAccepted, PT!Latest
    <3> QED
      BY <1>0, <3>1, <3>2 DEF Taken, HeadAfter, TooOld
  <2> QED
    BY <2>1, <2>2
<1>8. \A i \in 0 .. Len(q) : KnownTo(s, c[i])
  BY <1>0, <1>3, <1>5, <1>6, DroppedStaysDropped
<1> HIDE DEF r, p, s, c
<1>9. HeadsAlong(h, r)[Len(r)] = [ts |-> e.ts, pose |-> p] /\ TipOf(s) = [ts |-> e.ts, pose |-> p]
  BY <1>1, <1>4, <1>6, <1>7 DEF TipOf
<1>10. ASSUME NEW i \in 0 .. Len(r) PROVE KnownTo(s, HeadsAlong(h, r)[i])
  <2>1. CASE i = Len(r)
    <3>1. Len(s) \in 1 .. Len(s)
      BY <1>4, TipFacts
    <3> QED
      BY <1>4, <1>9, <2>1, <3>1 DEF KnownTo
  <2>2. CASE i # Len(r)
    <3>1. i \in 0 .. Len(q)
      BY <1>1, <1>2, <2>2
    <3> QED
      BY <1>1, <1>8, <3>1
  <2> QED
    BY <2>1, <2>2
<1> QED
  BY <1>9, <1>10 DEF Aligned, r, p, s

\* A graph whose head is the tip is aligned when every queued keyframe is older.
LEMMA SwappedAligned ==
  ASSUME NEW t \in Seq(TailEntry), t # <<>>, NEW q \in Seq(Input),
         \A i \in 1 .. Len(q) : q[i].kind = "keyframe" => q[i].ts < t[Len(t)].ts
  PROVE  Aligned(t[Len(t)], q, t)
<1> DEFINE h == t[Len(t)]
<1>1. Len(t) \in 1 .. Len(t) /\ h \in TailEntry /\ h.ts \in Int /\ Len(q) \in 0 .. Len(q)
  BY TipFacts, LenProperties
<1>2. h \in Placed /\ h # EmptyGraph
  <2>1. h.ts \in Timestamp /\ h = [ts |-> h.ts, pose |-> h.pose] /\ h.pose \in Pose
    BY <1>1 DEF TailEntry
  <2>2. h.ts \in 0 .. TsMax /\ h.ts # 0
    BY <2>1, TimestampFacts
  <2> QED
    BY <2>1, <2>2 DEF Placed, EmptyGraph
<1>3. \A i \in 0 .. Len(q) : HeadsAlong(h, q)[i] = h
  BY <1>2, HeadsStay
<1>4. KnownTo(t, h) /\ TipOf(t) = h
  BY <1>1 DEF KnownTo, TipOf
<1> HIDE DEF h
<1> QED
  BY <1>1, <1>3, <1>4 DEF Aligned, h

\* Moving the head moves every later head by the same motion, from the left.
LEMMA HeadsShifted ==
  ASSUME NEW h \in Placed, h.ts >= 1, NEW q \in Seq(Input), NEW d \in Pose
  PROVE  /\ [ts |-> h.ts, pose |-> Mul(d, h.pose)] \in Placed
         /\ \A i \in 0 .. Len(q) :
              HeadsAlong([ts |-> h.ts, pose |-> Mul(d, h.pose)], q)[i]
                = [ts |-> HeadsAlong(h, q)[i].ts, pose |-> Mul(d, HeadsAlong(h, q)[i].pose)]
<1> DEFINE c == HeadsAlong(h, q)
           g == [ts |-> h.ts, pose |-> Mul(d, h.pose)]
           f == [i \in 0 .. Len(q) |-> [ts |-> c[i].ts, pose |-> Mul(d, c[i].pose)]]
<1>1. Len(q) \in Nat
  BY LenProperties
<1>2. Follows(c, h, q) /\ \A i \in 0 .. Len(q) : c[i] \in Placed
  BY HeadsAlongFollows
<1>3. \A i \in 0 .. Len(q) : c[i].ts \in Int /\ c[i].ts >= h.ts
  BY HeadsNotOlder
<1>4. g \in Placed
  BY PoseGroupAssumption DEF Placed
<1>5. h.ts \in Int
  BY DEF Placed
<1> HIDE DEF c
<1>6. f[0] = g
  BY <1>1, <1>2 DEF Follows
<1>7. ASSUME NEW i \in 1 .. Len(q) PROVE f[i] = Taken(f[i - 1], q[i])
  <2> DEFINE a == c[i - 1]
             e == q[i]
             b == [ts |-> a.ts, pose |-> Mul(d, a.pose)]
  <2>1. i \in 0 .. Len(q) /\ i - 1 \in 0 .. Len(q)
    BY <1>1
  <2>2. c[i] = Taken(a, e) /\ a \in Placed /\ a.ts \in Int /\ a.ts >= 1
    BY <1>2, <1>3, <1>5, <2>1 DEF Follows
  <2>3. a.pose \in Pose /\ a = [ts |-> a.ts, pose |-> a.pose]
    BY <2>2 DEF Placed
  <2>4. f[i - 1] = b /\ f[i] = [ts |-> c[i].ts, pose |-> Mul(d, c[i].pose)]
    BY <2>1
  <2>5. e.kind = "keyframe" => e.from \in Pose /\ e.ts \in Int
    BY InputFacts
  <2> HIDE DEF a, e, f
  <2>6. a # EmptyGraph /\ b # EmptyGraph /\ b.ts = a.ts /\ b.pose = Mul(d, a.pose)
    BY <2>2 DEF EmptyGraph
  <2> HIDE DEF b
  <2>7. CASE e.kind # "keyframe" \/ TooOld(a, e)
    <3>1. Taken(a, e) = a /\ Taken(b, e) = b
      BY <2>6, <2>7 DEF Taken, HeadAfter, TooOld
    <3> QED
      BY <2>2, <2>4, <3>1 DEF b, e
  <2>8. CASE e.kind = "keyframe" /\ ~ TooOld(a, e)
    <3>1. Taken(a, e) = [ts |-> e.ts, pose |-> Mul(a.pose, e.from)]
          /\ Taken(b, e) = [ts |-> e.ts, pose |-> Mul(Mul(d, a.pose), e.from)]
      BY <2>6, <2>8 DEF Taken, HeadAfter, TooOld
    <3>2. Mul(Mul(d, a.pose), e.from) = Mul(d, Mul(a.pose, e.from))
      BY <2>3, <2>5, <2>8, ProductAssociates
    <3>3. f[i] = [ts |-> e.ts, pose |-> Mul(d, Mul(a.pose, e.from))]
      BY <2>2, <2>4, <3>1
    <3> QED
      BY <2>4, <3>1, <3>2, <3>3 DEF e
  <2> QED
    BY <2>7, <2>8
<1>8. \A i \in 0 .. Len(q) : f[i] = [ts |-> c[i].ts, pose |-> Mul(d, c[i].pose)]
  OBVIOUS
<1> HIDE DEF f, g
<1>9. Follows(f, g, q)
  BY <1>6, <1>7 DEF Follows
<1>10. \A i \in 0 .. Len(q) : HeadsAlong(g, q)[i] = f[i]
  BY <1>4, <1>9, HeadsAlongIs
<1> QED
  BY <1>4, <1>8, <1>10 DEF c, g

\* A pose that is to p as y is to b was moved by the motion from b to p.
LEMMA MovedFromTheLeft ==
  ASSUME NEW p \in Pose, NEW b \in Pose, NEW x \in Pose, NEW y \in Pose,
         Mul(Inv(p), x) = Mul(Inv(b), y)
  PROVE  x = Mul(Mul(p, Inv(b)), y)
<1>1. Inv(p) \in Pose /\ Inv(b) \in Pose
  BY PoseGroupAssumption
<1>2. Mul(p, Mul(Inv(p), x)) = Mul(Mul(p, Inv(p)), x)
  BY <1>1, PoseGroupAssumption
<1>3. Mul(Mul(p, Inv(p)), x) = x
  BY PoseGroupAssumption
<1>4. Mul(p, Mul(Inv(b), y)) = Mul(Mul(p, Inv(b)), y)
  BY <1>1, PoseGroupAssumption
<1> QED
  BY <1>2, <1>3, <1>4

\* A correction of the tail follows a head that was moved, unless two entries
\* of the tail have its timestamp or the correction changes motions.
LEMMA CorrectedAligned ==
  ASSUME NEW h \in Placed, h.ts >= 1, NEW q \in Seq(Input),
         NEW t \in Seq(TailEntry), \A i, j \in 1 .. Len(t) : i < j => t[i].ts <= t[j].ts,
         Aligned(h, q, t), PT!TimestampIsRetained(t, h.ts),
         ~ \E i \in 1 .. Len(t) - 1 : t[i].ts = h.ts /\ t[i + 1].ts = h.ts,
         NEW p \in Pose, ~ MotionsChanged(t, h.ts, p)
  PROVE  Aligned([ts |-> h.ts, pose |-> p], q, PT!WithSlamPose(t, h.ts, p))
<1> DEFINE c == HeadsAlong(h, q)
           r == PT!WithSlamPose(t, h.ts, p)
           k == TP!FirstNotBefore(t, h.ts)
           g == [ts |-> h.ts, pose |-> p]
           d == Mul(p, Inv(h.pose))
<1>1. /\ Len(q) \in Nat /\ Len(t) \in Nat /\ h.ts \in Int /\ h.ts \in Timestamp /\ h.pose \in Pose
      /\ \A i \in 1 .. Len(t) : t[i].ts \in Int /\ t[i] \in TailEntry
  BY LenProperties, EntryFacts DEF Placed, Timestamp
<1>2. c[0] = h /\ \A i \in 0 .. Len(q) : c[i] \in Placed
  BY HeadsAlongFollows DEF Follows
<1>3. \A i \in 0 .. Len(q) : c[i].ts \in Int /\ c[i].ts >= h.ts
  BY HeadsNotOlder
<1>4. c[Len(q)] = TipOf(t) /\ \A i \in 0 .. Len(q) : KnownTo(t, c[i])
  BY DEF Aligned
<1>5. d \in Pose /\ Mul(d, h.pose) = p /\ Inv(h.pose) \in Pose
  <2>1. Inv(h.pose) \in Pose
    BY <1>1, PoseGroupAssumption
  <2>2. Mul(Mul(p, Inv(h.pose)), h.pose) = Mul(p, Mul(Inv(h.pose), h.pose))
    BY <1>1, <2>1, ProductAssociates
  <2>3. Mul(Inv(h.pose), h.pose) = Id /\ Mul(p, Id) = p
    BY <1>1, PoseGroupAssumption
  <2> QED
    BY <2>1, <2>2, <2>3, PoseGroupAssumption
<1> HIDE DEF c
<1>6. PICK j \in 1 .. Len(t) : t[j] = h
  <2>1. KnownTo(t, h) /\ h # EmptyGraph
    BY <1>1, <1>2, <1>4 DEF EmptyGraph
  <2> QED
    BY <2>1 DEF KnownTo
<1>7. t # <<>> /\ Len(t) >= 1 /\ t[Len(t)].ts >= h.ts
  <2>1. Len(t) >= 1 /\ t # <<>> /\ Len(t) \in 1 .. Len(t)
    BY <1>1, <1>6, EntryFacts
  <2>2. j < Len(t) => t[j].ts <= t[Len(t)].ts
    BY <2>1
  <2> QED
    BY <1>1, <1>6, <2>1, <2>2
<1>8. /\ r \in Seq(TailEntry) /\ r # <<>> /\ Len(r) = Len(t) /\ k \in 1 .. Len(t)
      /\ t[k].ts >= h.ts /\ \A i \in 1 .. k - 1 : t[i].ts < h.ts
      /\ \A i \in 1 .. Len(t) : r[i].ts = t[i].ts
      /\ \A i \in 1 .. Len(t) : i >= k => r[i].pose = Mul(t[i].pose, Mul(Inv(t[k].pose), p))
  <2>1. ~ (t[Len(t)].ts < h.ts)
    BY <1>1, <1>7
  <2> QED
    <3>1. t \in Seq(TailEntry) /\ h.ts \in Timestamp /\ p \in Pose
      BY <1>1
    <3> QED
      BY <2>1, <3>1, CorrectionFacts
<1> HIDE DEF k, r
<1>9. t[k] = h
  <2>1. k <= j
    BY <1>1, <1>6, <1>8
  <2>2. t[k].ts = h.ts
    BY <1>1, <1>6, <1>8, <2>1
  <2>3. ASSUME k < j PROVE FALSE
    <3>1. k \in 1 .. Len(t) - 1 /\ k + 1 \in 1 .. Len(t) /\ k + 1 <= j /\ k < k + 1
      BY <1>1, <1>6, <1>8, <2>3
    <3>2. t[k + 1].ts >= t[k].ts /\ t[k + 1].ts <= t[j].ts
      BY <1>1, <1>6, <1>8, <3>1
    <3>3. t[k + 1].ts = h.ts
      BY <1>1, <1>6, <2>2, <3>1, <3>2
    <3> QED
      BY <2>2, <3>1, <3>3
  <2> QED
    BY <1>1, <1>6, <1>8, <2>1, <2>3
<1>10. \A i \in 1 .. Len(t) : i >= k => r[i] = [ts |-> t[i].ts, pose |-> Mul(d, t[i].pose)]
  <2> SUFFICES ASSUME NEW i \in 1 .. Len(t), i >= k
               PROVE  r[i] = [ts |-> t[i].ts, pose |-> Mul(d, t[i].pose)]
    OBVIOUS
  <2>1. r[i] \in TailEntry
    BY <1>8, EntryFacts
  <2>2. r[i] = [ts |-> r[i].ts, pose |-> r[i].pose] /\ r[i].pose \in Pose /\ t[i].pose \in Pose
    BY <1>1, <2>1 DEF TailEntry
  <2>3. Mul(Inv(p), r[i].pose) = Mul(Inv(h.pose), t[i].pose)
    <3>1. i \in k .. Len(t) /\ h.ts <= PT!Latest(t)
      BY <1>1, <1>7, <1>8 DEF PT!Latest
    <3>2. k = PT!FirstNotBefore(t, h.ts)
      BY DEF k, PT!FirstNotBefore, TP!FirstNotBefore
    <3> QED
      BY <1>7, <1>9, <3>1, <3>2 DEF MotionsChanged, r
  <2>5. r[i].pose = Mul(d, t[i].pose)
    BY <1>1, <2>2, <2>3, MovedFromTheLeft DEF d
  <2> QED
    BY <1>8, <2>2, <2>5
<1>11. g \in Placed /\ \A i \in 0 .. Len(q) :
         HeadsAlong(g, q)[i] = [ts |-> c[i].ts, pose |-> Mul(d, c[i].pose)]
  BY <1>5, HeadsShifted DEF c
<1> HIDE DEF d, g
<1>12. HeadsAlong(g, q)[Len(q)] = TipOf(r)
  <2>1. TipOf(r) = r[Len(t)] /\ TipOf(t) = t[Len(t)]
    BY <1>7, <1>8 DEF TipOf
  <2>2. r[Len(t)] = [ts |-> t[Len(t)].ts, pose |-> Mul(d, t[Len(t)].pose)]
    <3>1. Len(t) \in 1 .. Len(t) /\ Len(t) >= k
      BY <1>1, <1>7, <1>8
    <3> QED
      BY <1>10, <3>1
  <2>3. Len(q) \in 0 .. Len(q)
    BY <1>1
  <2> QED
    BY <1>4, <1>11, <2>1, <2>2, <2>3
<1>13. ASSUME NEW i \in 0 .. Len(q) PROVE KnownTo(r, HeadsAlong(g, q)[i])
  <2> DEFINE a == c[i]
             b == [ts |-> a.ts, pose |-> Mul(d, a.pose)]
  <2>1. HeadsAlong(g, q)[i] = b /\ KnownTo(t, a) /\ a.ts \in Int /\ a.ts >= h.ts /\ a # EmptyGraph
    BY <1>1, <1>3, <1>4, <1>11 DEF EmptyGraph
  <2> HIDE DEF a
  <2>2. CASE ~ PT!TimestampIsRetained(t, a.ts)
    <3>1. r # <<>> /\ PT!Latest(r) = PT!Latest(t)
      <4>1. Len(t) \in 1 .. Len(t)
        BY <1>1, <1>7
      <4> QED
        BY <1>8, <4>1 DEF PT!Latest
    <3>2. ~ PT!TimestampIsRetained(r, a.ts)
      BY <1>7, <2>2, <3>1 DEF PT!TimestampIsRetained, PT!OldestAllowedTimestamp
    <3> QED
      BY <2>1, <3>2 DEF KnownTo
  <2>3. ASSUME NEW l \in 1 .. Len(t), t[l] = a PROVE KnownTo(r, b)
    <3>1. l >= k
      BY <1>1, <1>8, <2>1, <2>3
    <3>2. r[l] = b /\ l \in 1 .. Len(r)
      BY <1>8, <1>10, <2>3, <3>1
    <3> HIDE DEF b
    <3> QED
      BY <3>2 DEF KnownTo
  <2> HIDE DEF b
  <2> QED
    BY <2>1, <2>2, <2>3 DEF KnownTo
<1> QED
  BY <1>12, <1>13 DEF Aligned, g, r

-----------------------------------------------------------------------------
(* While nothing has parted them the tail is aligned with the graph; after *)
(* an optimisation, with the graph before it, until the tail is corrected. *)
(* A localisation makes the tip of the tail the head of the new map.       *)

HeadAt(p) == [ts |-> head.ts, pose |-> p]
InStep ==
  drift = {} =>
    /\ pc \notin {"tail", "swap"} => Aligned(head, queue, tail)
    /\ pc = "tail" => \E p \in Pose : Aligned(HeadAt(p), queue, tail)
    /\ pc = "swap" => tail # <<>>

LEMMA InitInStep == Init => InStep
<1> SUFFICES ASSUME Init PROVE Aligned(head, queue, tail)
  BY DEF Init, InStep
<1>1. head = EmptyGraph /\ queue = <<>> /\ tail = <<>> /\ head \in Placed /\ queue \in Seq(Input)
      /\ Len(queue) = 0
  BY AsyncSlamAssumption, PoseGroupAssumption DEF Init, EmptyGraph, Placed
<1>2. HeadsAlong(head, queue)[0] = head
  BY <1>1, HeadsAlongFollows DEF Follows
<1> QED
  BY <1>1, <1>2 DEF Aligned, TipOf, KnownTo

\* Steps that only add to the queue or the tail.
LEMMA GrownInStep ==
  ASSUME TypeOK, InStep, drift' = {} => drift = {}, pc' = pc, head' = head,
         \A h \in Placed : Aligned(h, queue, tail) => Aligned(h, queue', tail'),
         tail # <<>> => tail' # <<>>
  PROVE  InStep'
<1> SUFFICES ASSUME drift' = {}, drift = {} PROVE InStep'
  BY DEF InStep
<1>1. head \in Placed /\ \A p \in Pose : HeadAt(p) \in Placed /\ HeadAt(p)' = HeadAt(p)
  BY TypeFacts DEF TypeOK, Placed, HeadAt
<1> QED
  BY <1>1 DEF InStep

LEMMA TrackInStep ==
  ASSUME Core, InStep, NEW ts \in Timestamp, NEW delta \in Pose,
         TrackFrame(ts, delta) \/ TrackKeyframe(ts, delta)
  PROVE  InStep'
<1>1. UNCHANGED <<queue, head, pc>> /\ (drift' = {} => drift = {} /\ tail' = tail)
  BY DEF TrackFrame, TrackKeyframe, CountFrame, slamVars
<1> QED
  BY <1>1 DEF InStep, HeadAt

LEMMA HandOverInStep ==
  ASSUME Core, InStep, HandOver
  PROVE  InStep'
<1>1. UNCHANGED <<head, pc>> /\ TypeOK
  BY HandOverFacts DEF Core
<1>2. CASE ~ Accepted
  BY <1>1, <1>2 DEF HandOver, InStep, HeadAt
<1>3. CASE Accepted
  <2> DEFINE e == [kind |-> "keyframe", ts |-> call.ts, from |-> trackData.from]
  <2>1. /\ tail' = PT!WithOdometry(tail, call.ts, call.pose) /\ queue' = Append(queue, e)
        /\ drift' = {} => /\ drift = {}
                          /\ tail = <<>> => trackData.from = Id
                          /\ call.pose = SlamPose(tail, trackData.from)
    BY <1>3 DEF HandOver
  <2>2. e \in Keyframe /\ e.ts = call.ts /\ e.from = trackData.from /\ call.ts \in Timestamp
        /\ tail \in Seq(TailEntry) /\ queue \in Seq(Input) /\ PT!OdometryAccepted(tail, e.ts)
        /\ call.pose \in Pose
    BY <1>1, <1>3, HandOverFacts, TypeFacts DEF Keyframe, Accepted
  <2>3. tail' # <<>>
    <3>1. PT!WithOdometry(tail, call.ts, call.pose) # <<>>
      BY <2>2, OdometryFacts
    <3> QED
      BY <2>1, <3>1
  <2> HIDE DEF e
  <2>4. ASSUME drift' = {}, NEW h \in Placed, Aligned(h, queue, tail)
        PROVE  Aligned(h, queue', tail')
    <3>1. call.pose = SlamPose(tail, e.from) /\ (tail = <<>> => e.from = Id)
      BY <2>1, <2>2, <2>4
    <3> QED
      BY <2>1, <2>2, <2>4, <3>1, HandedOverAligned
  <2>5. CASE drift' # {}
    BY <2>5 DEF InStep
  <2>6. CASE drift' = {}
    BY <1>1, <2>1, <2>3, <2>4, <2>6, GrownInStep
  <2> QED
    BY <2>5, <2>6
<1> QED
  BY <1>2, <1>3

LEMMA LocalizeInStep ==
  ASSUME Core, InStep, NEW r \in Request, NEW ts \in Timestamp, LocalizeInMap(r, ts)
  PROVE  InStep'
<1> DEFINE e == [kind |-> "localise", request |-> r, ts |-> ts]
<1>1. queue' = Append(queue, e) /\ UNCHANGED <<tail, head, pc, drift>> /\ TypeOK
  BY DEF LocalizeInMap, slamVars, Core
<1>2. e \in Input /\ e.kind # "keyframe" /\ queue \in Seq(Input)
  BY <1>1, TypeFacts DEF Input, Localisation
<1> HIDE DEF e
<1>3. \A h \in Placed : Aligned(h, queue, tail) => Aligned(h, queue', tail')
  BY <1>1, <1>2, CommandAligned
<1> QED
  BY <1>1, <1>3, GrownInStep

LEMMA PopInStep ==
  ASSUME Core, InStep, TakeKeyframe \/ TakeLocalisation
  PROVE  InStep'
<1>1. /\ queue # <<>> /\ queue' = Tail(queue) /\ UNCHANGED <<tail, drift>>
      /\ pc = "drain" /\ pc' \in {"drain", "localise"} /\ head' = Taken(head, Head(queue))
  BY DEF TakeKeyframe, TakeLocalisation, Taken
<1>2. head \in Placed /\ queue \in Seq(Input)
  BY DEF Core, TypeOK
<1>3. drift = {} => Aligned(head', queue', tail')
  BY <1>1, <1>2, TakenAligned DEF InStep
<1> QED
  BY <1>1, <1>3 DEF InStep

LEMMA CloseInStep ==
  ASSUME Core, InStep, CloseLoop
  PROVE  InStep'
<1>1. UNCHANGED <<tail, queue, drift>> /\ pc = "close"
  BY DEF CloseLoop
<1>2. CASE pc' = "wait" /\ head' = head
  BY <1>1, <1>2 DEF InStep
<1>3. ASSUME pc' = "tail", NEW p \in Pose, head' = [head EXCEPT !.pose = p]
      PROVE  InStep'
  <2>1. head \in Placed /\ head.pose \in Pose /\ head = [ts |-> head.ts, pose |-> head.pose]
    BY TypeFacts DEF Core, TypeOK
  <2>2. head'.ts = head.ts
    BY <1>3, <2>1 DEF Placed
  <2>3. HeadAt(head.pose)' = [ts |-> head'.ts, pose |-> head'.pose]
    BY DEF HeadAt
  <2>4. \A q : [ts |-> head'.ts, pose |-> q] = [ts |-> head.ts, pose |-> q]
    BY <2>2
  <2>5. drift = {} => Aligned([ts |-> head'.ts, pose |-> head.pose], queue', tail')
    BY <1>1, <2>1, <2>2 DEF InStep
  <2> QED
    BY <1>1, <1>3, <2>1, <2>5 DEF InStep, HeadAt
<1> QED
  BY <1>2, <1>3 DEF CloseLoop

LEMMA CorrectTailInStep ==
  ASSUME Core, TP!InTimeOrder, InStep, CorrectTail
  PROVE  InStep'
<1> SUFFICES ASSUME drift' = {} PROVE InStep'
  BY DEF InStep
<1>1. /\ pc = "tail" /\ pc' = "wait" /\ UNCHANGED <<queue, head>> /\ drift = {}
      /\ Retained(head.ts) /\ tail' = PT!WithSlamPose(tail, head.ts, head.pose)
      /\ ~ \E i \in 1 .. Len(tail) - 1 : tail[i].ts = head.ts /\ tail[i + 1].ts = head.ts
      /\ ~ MotionsChanged(tail, head.ts, head.pose)
  BY DEF CorrectTail
<1>2. /\ tail \in Seq(TailEntry) /\ queue \in Seq(Input) /\ head \in Placed
      /\ head = [ts |-> head.ts, pose |-> head.pose] /\ head.pose \in Pose
  BY TypeFacts DEF Core, TypeOK
<1>3. head.ts >= 1
  BY <1>1, TypeFacts DEF Core, SeenByThread, NoFrame
<1>4. PICK p \in Pose : Aligned(HeadAt(p), queue, tail)
  BY <1>1 DEF InStep
<1>5. HeadAt(p) \in Placed /\ HeadAt(p).ts = head.ts
  BY <1>2 DEF HeadAt, Placed
<1> DEFINE h == HeadAt(p)
<1>6. PT!TimestampIsRetained(tail, h.ts) /\ h \in Placed /\ h.ts >= 1 /\ Aligned(h, queue, tail)
      /\ h.ts = head.ts
  BY <1>1, <1>3, <1>4, <1>5 DEF Retained
<1>7. \A i, j \in 1 .. Len(tail) : i < j => tail[i].ts <= tail[j].ts
  BY DEF TP!InTimeOrder
<1> HIDE DEF h
<1>8. Aligned([ts |-> h.ts, pose |-> head.pose], queue, PT!WithSlamPose(tail, h.ts, head.pose))
  BY <1>1, <1>2, <1>6, <1>7, CorrectedAligned
<1>9. Aligned(head', queue', tail')
  BY <1>1, <1>2, <1>6, <1>8
<1> QED
  BY <1>1, <1>9 DEF InStep

LEMMA LocalisedAtInStep ==
  ASSUME Core, InStep, NEW p \in Pose, LocalisedAt(p)
  PROVE  InStep'
<1>1. pc = "localise" /\ UNCHANGED <<queue, head, drift>>
  BY DEF LocalisedAt
<1>2. CASE Retained(command.ts)
  <2>1. pc' = "swap" /\ tail' = PT!WithSlamPose(tail, command.ts, p)
    BY <1>2 DEF LocalisedAt
  <2>2. command.ts \in Timestamp /\ tail \in Seq(TailEntry)
    BY <1>1, TypeFacts DEF Core, SeenByThread, Timestamp
  <2>3. tail' # <<>>
    BY <2>1, <2>2, CorrectionFacts
  <2> QED
    BY <2>1, <2>3 DEF InStep
<1>3. CASE ~ Retained(command.ts)
  BY <1>1, <1>3 DEF LocalisedAt, Finish, InStep
<1> QED
  BY <1>2, <1>3

LEMMA SwapInStep ==
  ASSUME Core, InStep, SwapMap
  PROVE  InStep'
<1> SUFFICES ASSUME drift' = {} PROVE InStep'
  BY DEF InStep
<1>1. /\ pc = "swap" /\ pc' = "reply" /\ UNCHANGED <<tail, queue>> /\ head' = SwappedHead
      /\ ~ \E i \in 1 .. Len(queue) : queue[i].kind = "keyframe" /\ queue[i].ts = head'.ts
      /\ tail = <<>> => drift = {}
  BY DEF SwapMap
<1>2. tail # <<>>
  BY <1>1 DEF InStep
<1>3. head' = tail[Len(tail)] /\ tail \in Seq(TailEntry) /\ queue \in Seq(Input)
  BY <1>1, <1>2, TypeFacts DEF SwappedHead, Tip, Core
<1>4. ASSUME NEW i \in 1 .. Len(queue), queue[i].kind = "keyframe"
      PROVE  queue[i].ts < tail[Len(tail)].ts
  <2>1. queue[i].ts <= tail[Len(tail)].ts /\ queue[i].ts # tail[Len(tail)].ts
    BY <1>1, <1>2, <1>3, <1>4 DEF Core, SeenByThread, Tip
  <2>2. queue[i].ts \in Int /\ tail[Len(tail)].ts \in Int
    BY <1>2, <1>3, <1>4, InputFacts, TipFacts
  <2> QED
    BY <2>1, <2>2
<1>5. Aligned(tail[Len(tail)], queue, tail)
  BY <1>2, <1>3, <1>4, SwappedAligned
<1> QED
  BY <1>1, <1>3, <1>5 DEF InStep

LEMMA InStepInductive == Core /\ TP!InTimeOrder /\ InStep /\ [Next]_vars => InStep'
<1> SUFFICES ASSUME Core, TP!InTimeOrder, InStep, [Next]_vars PROVE InStep'
  OBVIOUS
<1>1. CASE MainThread
  <2>1. CASE Shutdown
    BY <2>1 DEF Shutdown, slamVars, InStep, HeadAt
  <2> QED
    BY <1>1, <2>1, TrackInStep, HandOverInStep DEF MainThread
<1>2. CASE SlamThread
  <2>1. CASE Wait \/ Drained \/ NoLoop
    BY <2>1 DEF Wait, Drained, NoLoop, InStep, HeadAt
  <2>2. CASE NotLocalised \/ Localised
    BY <2>2 DEF NotLocalised, Localised, Finish, InStep, HeadAt
  <2> QED
    BY <1>2, <2>1, <2>2, PopInStep, CloseInStep, CorrectTailInStep, LocalisedAtInStep, SwapInStep
       DEF SlamThread
<1>3. CASE \E r \in Request, ts \in Timestamp : LocalizeInMap(r, ts)
  BY <1>3, LocalizeInStep
<1>4. CASE UNCHANGED vars
  BY <1>4 DEF vars, mainVars, slamVars, InStep, HeadAt
<1> QED
  BY <1>1, <1>2, <1>3, <1>4 DEF Next

\* The schema of tail.h: the tip of the tail is the head of the pose graph
\* followed by the motions of the keyframes still in the queue, whichever way
\* the two threads interleave, unless one of the causes in drift parted them.
THEOREM TipFollowsGraph == Spec => []TipIsHeadPlusQueue
<1>1. Core /\ InStep => TipIsHeadPlusQueue
  BY DEF InStep, Aligned, TipOf, TipIsHeadPlusQueue, HeadAfterQueue, Tip
<1>2. TP!IInv => TP!InTimeOrder
  BY DEF TP!IInv
<1> QED
  BY <1>1, <1>2, InitInStep, InStepInductive, CoreInvariant, TailStaysSorted, PTL DEF Spec

-----------------------------------------------------------------------------
(***************************************************************************)
(* Localisation requests: the requests in the queue are served as the      *)
(* abstract LocalisationService does, step by step.                        *)
(***************************************************************************)

\* What one element of the queue adds to the requests w
Asked(w, e) == IF e.kind = "localise" THEN Append(w, e.request) ELSE w

LEMMA AskedFacts ==
  ASSUME NEW w \in Seq(Request), NEW e \in Input
  PROVE  Asked(w, e) \in Seq(Request) /\ (e.kind = "localise" => e.request \in Request)
<1>1. e.kind = "localise" => e.request \in Request
  BY DEF Input, Keyframe, Localisation
<1> QED
  BY <1>1, AppendProperties DEF Asked

\* A function that collects the requests of the queue.
Collects(f, q) == f[0] = <<>> /\ \A i \in 1 .. Len(q) : f[i] = Asked(f[i - 1], q[i])

LEMMA CollectorExists ==
  ASSUME NEW q \in Seq(Input)
  PROVE  \E f \in [0 .. Len(q) -> Seq(Request)] : Collects(f, q)
<1> DEFINE UpTo(f, n) == f[0] = <<>> /\ \A i \in 1 .. n : f[i] = Asked(f[i - 1], q[i])
           S == {n \in Nat : \E f \in [0 .. n -> Seq(Request)] : UpTo(f, n)}
<1>1. Len(q) \in Nat
  BY LenProperties
<1>2. 0 \in S
  <2> DEFINE f == [i \in 0 .. 0 |-> <<>>]
  <2>1. <<>> \in Seq(Request)
    OBVIOUS
  <2>2. f \in [0 .. 0 -> Seq(Request)] /\ UpTo(f, 0)
    BY <2>1
  <2> QED
    BY <2>2
<1>3. ASSUME NEW n \in 0 .. Len(q) - 1, n \in S PROVE n + 1 \in S
  <2>1. n \in Nat /\ n + 1 \in 1 .. Len(q)
    BY <1>1
  <2>2. PICK f \in [0 .. n -> Seq(Request)] : UpTo(f, n)
    BY <1>3
  <2> DEFINE g == [i \in 0 .. n + 1 |-> IF i <= n THEN f[i] ELSE Asked(f[n], q[n + 1])]
  <2>3. Asked(f[n], q[n + 1]) \in Seq(Request)
    <3>1. f[n] \in Seq(Request) /\ q[n + 1] \in Input
      BY <2>1, <2>2, InputFacts
    <3> QED
      BY <3>1, AskedFacts
  <2>4. g \in [0 .. n + 1 -> Seq(Request)]
    BY <2>1, <2>2, <2>3
  <2>5. g[0] = <<>>
    BY <2>1, <2>2
  <2>6. ASSUME NEW i \in 1 .. n + 1 PROVE g[i] = Asked(g[i - 1], q[i])
    <3>1. CASE i = n + 1
      <4>1. g[i] = Asked(f[n], q[n + 1]) /\ g[i - 1] = f[n]
        BY <2>1, <3>1
      <4> QED
        BY <3>1, <4>1
    <3>2. CASE i # n + 1
      <4>1. i \in 1 .. n /\ g[i] = f[i] /\ g[i - 1] = f[i - 1]
        BY <2>1, <3>2
      <4>2. f[i] = Asked(f[i - 1], q[i])
        BY <2>2, <4>1
      <4> QED
        BY <4>1, <4>2
    <3> QED
      BY <3>1, <3>2
  <2> HIDE DEF g
  <2>7. UpTo(g, n + 1)
    BY <2>5, <2>6
  <2> HIDE DEF UpTo
  <2> QED
    BY <2>1, <2>4, <2>7
<1> HIDE DEF S
<1>4. \A i \in 0 .. Len(q) : i \in S
  BY <1>1, <1>2, <1>3, Induction
<1>5. Len(q) \in S
  BY <1>1, <1>4
<1> QED
  BY <1>5 DEF S, Collects

\* WaitingAlong collects them.
LEMMA WaitingCollects ==
  ASSUME NEW q \in Seq(Input)
  PROVE  /\ Collects(WaitingAlong(q), q)
         /\ \A i \in 0 .. Len(q) : WaitingAlong(q)[i] \in Seq(Request)
<1> DEFINE F(g) == [i \in 0 .. Len(q) |->
                      IF i = 0 THEN <<>>
                      ELSE IF q[i].kind = "localise" THEN Append(g[i - 1], q[i].request)
                      ELSE g[i - 1]]
           c == WaitingAlong(q)
<1>1. PICK f \in [0 .. Len(q) -> Seq(Request)] : Collects(f, q)
  BY CollectorExists
<1>2. Len(q) \in Nat
  BY LenProperties
<1>3. f = F(f)
  <2>1. \A i \in 0 .. Len(q) : f[i] = F(f)[i]
    <3> SUFFICES ASSUME NEW i \in 0 .. Len(q) PROVE f[i] = F(f)[i]
      OBVIOUS
    <3>1. CASE i = 0
      BY <1>1, <3>1 DEF Collects
    <3>2. CASE i # 0
      <4>1. i \in 1 .. Len(q)
        BY <1>2, <3>2
      <4>2. f[i] = Asked(f[i - 1], q[i])
        BY <1>1, <4>1 DEF Collects
      <4> QED
        BY <3>2, <4>2 DEF Asked
    <3> QED
      BY <3>1, <3>2
  <2>2. f = [i \in 0 .. Len(q) |-> f[i]]
    BY <1>1
  <2> QED
    BY <2>1, <2>2
<1>4. c = CHOOSE g : g = F(g)
  BY DEF WaitingAlong
<1>5. c = F(c)
  BY <1>3, <1>4
<1> HIDE DEF c
<1>6. Collects(c, q)
  <2>1. c[0] = <<>>
    BY <1>2, <1>5
  <2>2. ASSUME NEW i \in 1 .. Len(q) PROVE c[i] = Asked(c[i - 1], q[i])
    <3>1. i \in 0 .. Len(q) /\ i # 0
      BY <1>2
    <3>2. F(c)[i] = Asked(c[i - 1], q[i])
      BY <3>1 DEF Asked
    <3> HIDE DEF F
    <3> QED
      BY <1>5, <3>2
  <2> QED
    BY <2>1, <2>2 DEF Collects
<1>7. \A i \in 0 .. Len(q) : c[i] \in Seq(Request)
  <2> DEFINE S == {i \in Nat : c[i] \in Seq(Request)}
  <2>1. 0 \in S
    <3>1. <<>> \in Seq(Request)
      OBVIOUS
    <3> QED
      BY <1>6, <3>1 DEF Collects
  <2>2. ASSUME NEW n \in 0 .. Len(q) - 1, n \in S PROVE n + 1 \in S
    <3>1. n + 1 \in 1 .. Len(q) /\ n + 1 \in Nat /\ n + 1 - 1 = n
      BY <1>2
    <3>2. c[n + 1] = Asked(c[n], q[n + 1])
      <4>1. c[n + 1] = Asked(c[n + 1 - 1], q[n + 1])
        BY <1>6, <3>1 DEF Collects
      <4> QED
        BY <3>1, <4>1
    <3>3. q[n + 1] \in Input /\ c[n] \in Seq(Request)
      BY <2>2, <3>1, InputFacts
    <3> QED
      BY <3>1, <3>2, <3>3, AskedFacts
  <2> HIDE DEF S
  <2>3. \A i \in 0 .. Len(q) : i \in S
    BY <1>2, <2>1, <2>2, Induction
  <2> QED
    BY <2>3 DEF S
<1> QED
  BY <1>6, <1>7 DEF c

\* The requests in a queue, in its order
Waiting(q) == WaitingAlong(q)[Len(q)]

LEMMA WaitingAppend ==
  ASSUME NEW q \in Seq(Input), NEW e \in Input
  PROVE  Waiting(Append(q, e)) = Asked(Waiting(q), e)
<1> DEFINE c == WaitingAlong(q)
           r == Append(q, e)
           d == WaitingAlong(r)
           S == {i \in Nat : d[i] = c[i]}
<1>1. Len(q) \in Nat /\ r \in Seq(Input) /\ Len(r) = Len(q) + 1
      /\ r[Len(q) + 1] = e /\ \A i \in 1 .. Len(q) : r[i] = q[i]
  BY PushFacts
<1>2. Collects(c, q) /\ Collects(d, r)
  BY <1>1, WaitingCollects
<1> HIDE DEF c, d, r
<1>3. 0 \in S
  BY <1>2 DEF Collects
<1>4. ASSUME NEW n \in 0 .. Len(q) - 1, n \in S PROVE n + 1 \in S
  <2>1. n + 1 \in 1 .. Len(q) /\ n + 1 \in 1 .. Len(r) /\ n + 1 \in Nat /\ n + 1 - 1 = n
    BY <1>1
  <2>2. c[n + 1] = Asked(c[n + 1 - 1], q[n + 1]) /\ d[n + 1] = Asked(d[n + 1 - 1], r[n + 1])
    BY <1>2, <2>1 DEF Collects
  <2>3. r[n + 1] = q[n + 1] /\ d[n] = c[n]
    BY <1>1, <1>4, <2>1
  <2>4. c[n + 1] = Asked(c[n], q[n + 1]) /\ d[n + 1] = Asked(d[n], r[n + 1])
    BY <2>1, <2>2
  <2> QED
    BY <2>1, <2>3, <2>4
<1> HIDE DEF S
<1>5. \A i \in 0 .. Len(q) : i \in S
  BY <1>1, <1>3, <1>4, Induction
<1>6. d[Len(q)] = c[Len(q)]
  BY <1>1, <1>5 DEF S
<1>7. d[Len(r)] = Asked(d[Len(q)], e)
  <2>1. Len(q) + 1 \in 1 .. Len(r) /\ Len(q) + 1 - 1 = Len(q)
    BY <1>1
  <2>2. d[Len(q) + 1] = Asked(d[Len(q) + 1 - 1], r[Len(q) + 1])
    BY <1>2, <2>1 DEF Collects
  <2> QED
    BY <1>1, <2>1, <2>2
<1> QED
  BY <1>6, <1>7 DEF Waiting, c, d, r

LEMMA AppendAfter ==
  ASSUME NEW a \in Seq(Request), NEW b \in Seq(Request), NEW r \in Request
  PROVE  Append(a \o b, r) = a \o Append(b, r)
<1> DEFINE e == <<r>>
<1>1. e \in Seq(Request)
  OBVIOUS
<1>2. a \o b \in Seq(Request)
  BY ConcatProperties
<1>3. Append(b, r) = b \o e /\ Append(a \o b, r) = (a \o b) \o e
  BY <1>2, AppendIsConcat
<1> HIDE DEF e
<1>4. (a \o b) \o e = a \o (b \o e)
  BY <1>1, ConcatAssociative
<1> QED
  BY <1>3, <1>4

\* The request at the head of the queue is the first, and the others keep their order.
LEMMA WaitingTail ==
  ASSUME NEW q \in Seq(Input), q # <<>>
  PROVE  /\ Waiting(Tail(q)) \in Seq(Request)
         /\ Waiting(q) = IF Head(q).kind = "localise"
                         THEN <<Head(q).request>> \o Waiting(Tail(q)) ELSE Waiting(Tail(q))
<1> DEFINE t == Tail(q)
           c == WaitingAlong(q)
           d == WaitingAlong(t)
           first == Asked(<<>>, Head(q))
           S == {i \in Nat : c[i + 1] = first \o d[i]}
<1>1. /\ t \in Seq(Input) /\ Len(t) = Len(q) - 1 /\ Len(q) \in Nat /\ Len(q) >= 1
      /\ \A i \in 1 .. Len(q) - 1 : i + 1 \in 1 .. Len(q) /\ t[i] = q[i + 1]
      /\ Head(q) = q[1] /\ 1 \in 1 .. Len(q)
  BY PopFacts
<1>2. Collects(c, q) /\ Collects(d, t) /\ \A i \in 0 .. Len(t) : d[i] \in Seq(Request)
  BY <1>1, WaitingCollects
<1>3. Head(q) \in Input /\ <<>> \in Seq(Request)
  BY <1>1, InputFacts
<1>4. first \in Seq(Request)
  BY <1>3, AskedFacts
<1> HIDE DEF c, d, t
<1>5. c[1] = first
  <2>1. c[1] = Asked(c[1 - 1], q[1]) /\ c[0] = <<>>
    BY <1>1, <1>2 DEF Collects
  <2> QED
    BY <1>1, <2>1
<1>6. 0 \in S
  <2>1. d[0] = <<>>
    BY <1>2 DEF Collects
  <2>2. first \o <<>> = first
    BY <1>4, ConcatEmptySeq
  <2>3. c[0 + 1] = first \o d[0]
    BY <1>5, <2>1, <2>2
  <2> HIDE DEF first
  <2> QED
    BY <2>3
<1>7. ASSUME NEW n \in 0 .. Len(t) - 1, n \in S PROVE n + 1 \in S
  <2>1. n + 1 \in 1 .. Len(t) /\ n + 2 \in 1 .. Len(q) /\ n + 1 \in Nat /\ n + 2 - 1 = n + 1
        /\ n + 1 - 1 = n /\ n + 1 + 1 = n + 2 /\ n \in 0 .. Len(t)
    BY <1>1
  <2>2. c[n + 2] = Asked(c[n + 2 - 1], q[n + 2]) /\ d[n + 1] = Asked(d[n + 1 - 1], t[n + 1])
    BY <1>2, <2>1 DEF Collects
  <2>3. c[n + 2] = Asked(c[n + 1], q[n + 2]) /\ d[n + 1] = Asked(d[n], t[n + 1])
    BY <2>1, <2>2
  <2>4. t[n + 1] = q[n + 2]
    <3>1. n + 1 \in 1 .. Len(q) - 1
      BY <1>1, <2>1
    <3> QED
      BY <1>1, <2>1, <3>1
  <2>5. c[n + 1] = first \o d[n] /\ d[n] \in Seq(Request)
    BY <1>2, <1>7, <2>1
  <2>6. t[n + 1] \in Input
    BY <1>1, <2>1, InputFacts
  <2> HIDE DEF first
  <2>7. Asked(first \o d[n], t[n + 1]) = first \o Asked(d[n], t[n + 1])
    <3>1. CASE t[n + 1].kind = "localise"
      <4>1. t[n + 1].request \in Request
        BY <2>6, <3>1, <1>3, AskedFacts
      <4>2. Append(first \o d[n], t[n + 1].request) = first \o Append(d[n], t[n + 1].request)
        BY <1>4, <2>5, <4>1, AppendAfter
      <4> QED
        BY <3>1, <4>2 DEF Asked
    <3>2. CASE t[n + 1].kind # "localise"
      BY <3>2 DEF Asked
    <3> QED
      BY <3>1, <3>2
  <2> QED
    BY <2>1, <2>3, <2>4, <2>5, <2>7
<1> HIDE DEF S, first
<1>8. \A i \in 0 .. Len(t) : i \in S
  <2>1. Len(t) \in Nat
    BY <1>1
  <2> QED
    BY <2>1, <1>6, <1>7, Induction
<1>9. Len(t) \in S /\ Len(t) + 1 = Len(q) /\ Len(t) \in 0 .. Len(t)
  BY <1>1, <1>8
<1>10. c[Len(q)] = first \o d[Len(t)] /\ d[Len(t)] \in Seq(Request)
  BY <1>2, <1>9 DEF S
<1>11. first = IF Head(q).kind = "localise" THEN <<Head(q).request>> ELSE <<>>
  <2>1. Head(q).kind = "localise" => Append(<<>>, Head(q).request) = <<Head(q).request>>
    OBVIOUS
  <2> QED
    BY <2>1 DEF first, Asked
<1>12. <<>> \o d[Len(t)] = d[Len(t)]
  BY <1>10
<1> QED
  BY <1>10, <1>11, <1>12 DEF Waiting, c, d, t

\* At most one request is started, that of the command being executed.
Executing == pc \in {"localise", "swap", "reply"}
Serving ==
  /\ \A r \in Request : answer[r] = "started" => Executing /\ r = command.request
  /\ Executing => command.request \in Request /\ answer[command.request] = "started"

LEMMA InitServes == Init => Serving /\ LS!Init
<1> SUFFICES ASSUME Init PROVE Serving /\ LS!Init
  OBVIOUS
<1>1. queue = <<>> /\ answer = [r \in Request |-> "none"] /\ pc = "wait" /\ aborted = FALSE
  BY DEF Init
<1>2. Serving
  BY <1>1 DEF Serving, Executing
<1>3. Waiting(queue) = <<>>
  <2>1. queue \in Seq(Input) /\ Len(queue) = 0
    BY <1>1
  <2> QED
    BY <2>1, WaitingCollects DEF Collects, Waiting
<1> QED
  BY <1>1, <1>2, <1>3 DEF LS!Init, Waiting

\* A request is queued.
LEMMA LocalizeServes ==
  ASSUME TypeOK, Serving, NEW r \in Request, NEW ts \in Timestamp, LocalizeInMap(r, ts)
  PROVE  Serving' /\ LS!Ask(r)
<1> DEFINE e == [kind |-> "localise", request |-> r, ts |-> ts]
<1>1. /\ ~aborted /\ answer[r] = "none" /\ answer' = [answer EXCEPT ![r] = "queued"]
      /\ queue' = Append(queue, e) /\ aborted' = aborted /\ pc' = pc /\ command' = command
      /\ queue \in Seq(Input) /\ answer \in [Request -> {"none", "queued", "started", "success", "error"}]
  BY TypeFacts DEF LocalizeInMap, slamVars, TypeOK
<1>2. e \in Input /\ e.kind = "localise" /\ e.request = r
  BY DEF Input, Localisation
<1> HIDE DEF e
<1>3. Waiting(queue') = Append(Waiting(queue), r)
  BY <1>1, <1>2, WaitingAppend DEF Asked
<1>4. Serving'
  BY <1>1 DEF Serving, Executing
<1> QED
  BY <1>1, <1>3, <1>4 DEF LS!Ask, Waiting

\* The request at the head of the queue is started.
LEMMA TakeServes ==
  ASSUME TypeOK, Serving, TakeLocalisation
  PROVE  Serving' /\ LS!Start
<1> DEFINE h == Head(queue)
<1>1. /\ pc = "drain" /\ queue # <<>> /\ h.kind = "localise" /\ command'.request = h.request
      /\ queue' = Tail(queue) /\ answer' = [answer EXCEPT ![h.request] = "started"]
      /\ pc' = "localise" /\ aborted' = aborted /\ queue \in Seq(Input)
      /\ answer \in [Request -> {"none", "queued", "started", "success", "error"}]
  BY TypeFacts DEF TakeLocalisation, TypeOK
<1>2. h \in Input
  BY <1>1, PopFacts, InputFacts
<1>3. h.request \in Request
  BY <1>1, <1>2, AskedFacts, EmptySeq
<1>4. Waiting(queue) = <<h.request>> \o Waiting(queue') /\ Waiting(queue') \in Seq(Request)
  BY <1>1, WaitingTail
<1> HIDE DEF h
<1>5. Head(Waiting(queue)) = h.request /\ Tail(Waiting(queue)) = Waiting(queue') /\ Waiting(queue) # <<>>
  BY <1>3, <1>4
<1>6. \A r \in Request : answer[r] # "started"
  BY <1>1 DEF Serving, Executing
<1>7. Serving'
  BY <1>1, <1>3, <1>6 DEF Serving, Executing
<1> QED
  BY <1>1, <1>5, <1>6, <1>7 DEF LS!Start, Waiting

\* A keyframe leaves the queue, or joins it.
LEMMA KeyframesServe ==
  ASSUME TypeOK, Core, Serving, TakeKeyframe \/ HandOver
  PROVE  Serving' /\ UNCHANGED LS!serviceVars
<1>1. queue \in Seq(Input)
  BY TypeFacts
<1>2. answer' = answer /\ pc' = pc /\ command' = command /\ aborted' = aborted
  BY DEF TakeKeyframe, HandOver, slamVars
<1>3. Waiting(queue') = Waiting(queue)
  <2>1. CASE TakeKeyframe
    <3>1. queue # <<>> /\ Head(queue).kind # "localise" /\ queue' = Tail(queue)
      BY <2>1 DEF TakeKeyframe
    <3> QED
      BY <1>1, <3>1, WaitingTail
  <2>2. CASE HandOver
    <3> DEFINE e == [kind |-> "keyframe", ts |-> call.ts, from |-> trackData.from]
    <3>1. queue' = queue \/ queue' = Append(queue, e)
      BY <2>2 DEF HandOver
    <3>2. e \in Input /\ e.kind # "localise"
      <4>1. call.ts \in Timestamp /\ trackData.from \in Pose
        BY <2>2, HandOverFacts, TypeFacts DEF Core
      <4> QED
        BY <4>1 DEF Input, Keyframe
    <3> HIDE DEF e
    <3> QED
      BY <1>1, <3>1, <3>2, WaitingAppend DEF Asked
  <2> QED
    BY <2>1, <2>2
<1>4. Serving'
  BY <1>2 DEF Serving, Executing
<1> QED
  BY <1>2, <1>3, <1>4 DEF LS!serviceVars, Waiting

\* A command is answered.
LEMMA FinishServes ==
  ASSUME TypeOK, Serving, Executing, NEW outcome \in {"success", "error"}, Finish(outcome),
         UNCHANGED <<queue, aborted>>
  PROVE  Serving' /\ LS!Answer
<1>1. answer' = [answer EXCEPT ![command.request] = outcome] /\ pc' = "drain"
      /\ answer \in [Request -> {"none", "queued", "started", "success", "error"}]
      /\ command.request \in Request /\ answer[command.request] = "started"
  BY DEF Finish, TypeOK, Serving
<1>2. Serving'
  BY <1>1 DEF Serving, Executing
<1>3. LS!Finish(command.request, outcome)
  BY <1>1 DEF LS!Finish
<1> QED
  BY <1>1, <1>2, <1>3 DEF LS!Answer

\* The other steps leave the service alone.
LEMMA OthersServe ==
  ASSUME Serving, UNCHANGED <<queue, aborted, answer>>, UNCHANGED command \/ UNCHANGED command.request,
         Executing' = Executing
  PROVE  Serving' /\ UNCHANGED LS!serviceVars
BY DEF Serving, Executing, LS!serviceVars

LEMMA ServingInductive == Core /\ Serving /\ [Next]_vars => Serving' /\ [LS!Next]_(LS!serviceVars)
<1> SUFFICES ASSUME Core, Serving, [Next]_vars PROVE Serving' /\ [LS!Next]_(LS!serviceVars)
  OBVIOUS
<1>0. TypeOK
  BY DEF Core
<1>1. CASE \E r \in Request, ts \in Timestamp : LocalizeInMap(r, ts)
  BY <1>0, <1>1, LocalizeServes DEF LS!Next
<1>2. CASE TakeLocalisation
  BY <1>0, <1>2, TakeServes DEF LS!Next
<1>3. CASE TakeKeyframe \/ HandOver
  BY <1>0, <1>3, KeyframesServe
<1>4. CASE NotLocalised \/ Localised
  <2>1. Executing /\ UNCHANGED <<queue, aborted>> /\ (Finish("error") \/ Finish("success"))
    BY <1>4 DEF NotLocalised, Localised, Executing, mainVars
  <2> QED
    BY <1>0, <2>1, FinishServes DEF LS!Next
<1>5. CASE \E p \in Pose : LocalisedAt(p)
  <2>1. PICK p \in Pose : LocalisedAt(p)
    BY <1>5
  <2>2. Executing /\ UNCHANGED <<queue, aborted>>
    BY <2>1 DEF LocalisedAt, Executing
  <2>3. CASE Finish("error")
    BY <1>0, <2>2, <2>3, FinishServes DEF LS!Next
  <2>4. CASE ~Finish("error")
    <3>1. command' = [command EXCEPT !.pose = p] /\ answer' = answer /\ pc' = "swap"
      BY <2>1, <2>4 DEF LocalisedAt
    <3>2. command'.request = command.request
      BY <1>0, <3>1 DEF TypeOK, Command
    <3> QED
      BY <2>2, <3>1, <3>2, OthersServe DEF Executing
  <2> QED
    BY <2>3, <2>4
<1>6. CASE Shutdown
  <2>1. ~aborted /\ aborted' = TRUE /\ queue' = queue /\ answer' = answer /\ pc' = pc /\ command' = command
    BY <1>6 DEF Shutdown, slamVars
  <2>2. Serving'
    BY <2>1 DEF Serving, Executing
  <2> QED
    BY <2>1, <2>2 DEF LS!Next, LS!Close
<1>7. CASE \/ \E ts \in Timestamp, delta \in Pose : TrackFrame(ts, delta) \/ TrackKeyframe(ts, delta)
           \/ Wait \/ Drained \/ NoLoop \/ CloseLoop \/ CorrectTail \/ SwapMap \/ UNCHANGED vars
  <2>1. UNCHANGED <<queue, aborted, answer, command>> /\ Executing' = Executing
    <3>1. CASE \/ \E ts \in Timestamp, delta \in Pose : TrackFrame(ts, delta) \/ TrackKeyframe(ts, delta)
               \/ UNCHANGED vars
      BY <3>1 DEF TrackFrame, TrackKeyframe, slamVars, vars, Executing
    <3>2. CASE Wait \/ Drained \/ NoLoop
      BY <3>2 DEF Wait, Drained, NoLoop, Executing
    <3>3. CASE CloseLoop
      BY <3>3 DEF CloseLoop, Executing
    <3>4. CASE CorrectTail
      <4>1. UNCHANGED <<queue, aborted, answer, command>> /\ pc = "tail" /\ pc' = "wait"
        BY <3>4 DEF CorrectTail
      <4> QED
        BY <4>1 DEF Executing
    <3>5. CASE SwapMap
      <4>1. UNCHANGED <<queue, aborted, answer, command>> /\ pc = "swap" /\ pc' = "reply"
        BY <3>5 DEF SwapMap
      <4> QED
        BY <4>1 DEF Executing
    <3> QED
      BY <1>7, <3>1, <3>2, <3>3, <3>4, <3>5
  <2> QED
    BY <2>1, OthersServe
<1> QED
  BY <1>1, <1>2, <1>3, <1>4, <1>5, <1>6, <1>7 DEF Next, MainThread, SlamThread

\* Every step of the front end is a step of the abstract localisation service
\* or leaves it alone: requests are started in the order of the calls, one at a
\* time, and each is answered once (LocalizeInMap and LocalizeInMapCmd::Execute).
THEOREM RequestsInOrder == Spec => LS!Init /\ [][LS!Next]_(LS!serviceVars)
BY InitServes, ServingInductive, CoreInvariant, PTL DEF Spec
=============================================================================
