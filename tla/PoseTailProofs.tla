--------------------------- MODULE PoseTailProofs ---------------------------
(* Proofs that the tail keeps its order, its window and its poses for      *)
(* every pose group, every timestamp range and every retention time.       *)
EXTENDS PoseTail, TLAPS, SequenceTheorems, WellFoundedInduction

(* A nonempty set of natural numbers has a least element.                  *)
LEMMA LeastNatural ==
  ASSUME NEW X, X \subseteq Nat, X # {}
  PROVE  \E m \in X : \A i \in X : m <= i
<1> DEFINE R == {ss \in Nat \X Nat : ss[1] < ss[2]}
<1>1. IsWellFoundedOn(R, Nat)
  BY NatLessThanWellFounded DEF OpToRel
<1> HIDE DEF R
<1>2. PICK m \in X : \A i \in X : <<i, m>> \notin R
  BY <1>1, WFMin
<1>3. ASSUME NEW i \in X PROVE m <= i
  <2>1. i \in Nat /\ m \in Nat /\ <<i, m>> \in Nat \X Nat
    OBVIOUS
  <2>2. <<i, m>>[1] = i /\ <<i, m>>[2] = m
    OBVIOUS
  <2>3. ~ (i < m)
    BY <1>2, <2>1, <2>2 DEF R
  <2> QED
    BY <2>1, <2>3
<1> QED
  BY <1>3

(* A tail is a sequence of entries; its tip is its last entry.             *)
LEMMA TailFacts ==
  ASSUME NEW t \in Seq(Entry)
  PROVE  /\ Len(t) \in Nat
         /\ t # <<>> => Len(t) >= 1
         /\ \A i \in 1 .. Len(t) : /\ t[i] \in Entry
                                   /\ t[i].ts \in Int
                                   /\ t[i].ts \in Timestamp
                                   /\ t[i].pose \in Pose
         /\ t # <<>> => Latest(t) \in Int
<1>1. Len(t) \in Nat /\ (t # <<>> => Len(t) >= 1)
  BY EmptySeq, LenProperties
<1>2. ASSUME NEW i \in 1 .. Len(t)
      PROVE  t[i] \in Entry /\ t[i].ts \in Int /\ t[i].ts \in Timestamp
             /\ t[i].pose \in Pose
  <2>1. t[i] \in Entry
    BY ElementOfSeq
  <2> QED BY <2>1, TailAssumption DEF Entry, Timestamp
<1>3. t # <<>> => Latest(t) \in Int
  BY <1>1, <1>2 DEF Latest
<1> QED BY <1>1, <1>2, <1>3

(* The oldest allowed timestamp is an integer not newer than the tip.      *)
LEMMA OldestAllowedFacts ==
  ASSUME NEW t \in Seq(Entry), t # <<>>
  PROVE  OldestAllowedTimestamp(t) \in Int /\ OldestAllowedTimestamp(t) <= Latest(t)
<1>1. Latest(t) \in Timestamp /\ Latest(t) \in Int
  BY TailFacts DEF Latest
<1> QED BY <1>1, TailAssumption DEF OldestAllowedTimestamp, Timestamp

(* The walk of PruneOldTail over the front of the list ends at an entry.   *)
LEMMA FirstKeptFacts ==
  ASSUME NEW t \in Seq(Entry), t # <<>>
  PROVE  /\ FirstKept(t) \in 1 .. Len(t)
         /\ \/ FirstKept(t) = Len(t)
            \/ t[FirstKept(t)].ts >= OldestAllowedTimestamp(t)
         /\ \A j \in 1 .. FirstKept(t) - 1 : t[j].ts < OldestAllowedTimestamp(t)
<1> DEFINE S == {k \in 1 .. Len(t) : k = Len(t) \/ t[k].ts >= OldestAllowedTimestamp(t)}
<1>1. Len(t) \in S /\ S \subseteq Nat
  BY TailFacts
<1>2. PICK m \in S : \A n \in S : m <= n
  BY <1>1, LeastNatural
<1>3. ASSUME NEW j \in 1 .. m - 1
      PROVE  t[j].ts < OldestAllowedTimestamp(t)
  <2>1. j \in 1 .. Len(t) /\ j \notin S
    BY <1>1, <1>2, TailFacts
  <2> QED BY <2>1, TailFacts, OldestAllowedFacts
<1>4. \E k \in 1 .. Len(t) :
        /\ k = Len(t) \/ t[k].ts >= OldestAllowedTimestamp(t)
        /\ \A j \in 1 .. k - 1 : t[j].ts < OldestAllowedTimestamp(t)
  BY <1>2, <1>3
<1> HIDE DEF S
<1> QED BY <1>4 DEF FirstKept

(* A correction in the past finds the entry it is aimed at.                *)
LEMMA FirstNotBeforeFacts ==
  ASSUME NEW t \in Seq(Entry), t # <<>>, NEW ts \in Int, Latest(t) >= ts
  PROVE  /\ FirstNotBefore(t, ts) \in 1 .. Len(t)
         /\ t[FirstNotBefore(t, ts)].ts >= ts
         /\ \A j \in 1 .. FirstNotBefore(t, ts) - 1 : t[j].ts < ts
<1> DEFINE S == {k \in 1 .. Len(t) : t[k].ts >= ts}
<1>1. Len(t) \in S /\ S \subseteq Nat
  BY TailFacts DEF Latest
<1>2. PICK m \in S : \A n \in S : m <= n
  BY <1>1, LeastNatural
<1>3. ASSUME NEW j \in 1 .. m - 1
      PROVE  t[j].ts < ts
  <2>1. j \in 1 .. Len(t) /\ j \notin S
    BY <1>1, <1>2, TailFacts
  <2> QED BY <2>1, TailFacts
<1>4. \E k \in 1 .. Len(t) :
        t[k].ts >= ts /\ \A j \in 1 .. k - 1 : t[j].ts < ts
  BY <1>2, <1>3
<1> QED BY <1>4 DEF FirstNotBefore

(* Pruning keeps a suffix that ends in the same tip.                       *)
LEMMA PruneFacts ==
  ASSUME NEW t \in Seq(Entry), t # <<>>
  PROVE  /\ PruneOldTail(t) \in Seq(Entry)
         /\ PruneOldTail(t) # <<>>
         /\ Len(PruneOldTail(t)) = Len(t) - FirstKept(t) + 1
         /\ \A i \in 1 .. Len(PruneOldTail(t)) :
              PruneOldTail(t)[i] = t[FirstKept(t) + i - 1]
         /\ Latest(PruneOldTail(t)) = Latest(t)
<1> DEFINE k == FirstKept(t)
           n == Len(t)
<1>1. k \in 1 .. n /\ n \in Nat /\ k \in Int /\ n \in Int
  BY FirstKeptFacts, TailFacts
<1> HIDE DEF k, n
<1>2. \A i \in k .. n : t[i] \in Entry
  BY <1>1, TailFacts DEF n
<1>3. /\ SubSeq(t, k, n) \in Seq(Entry)
      /\ Len(SubSeq(t, k, n)) = n - k + 1
      /\ \A i \in 1 .. n - k + 1 : SubSeq(t, k, n)[i] = t[k + i - 1]
  BY <1>1, <1>2, SubSeqProperties
<1>4. SubSeq(t, k, n)[n - k + 1] = t[n]
  BY <1>1, <1>3
<1>5. SubSeq(t, k, n) # <<>>
  BY <1>1, <1>3, EmptySeq
<1> QED BY <1>1, <1>3, <1>4, <1>5 DEF PruneOldTail, Latest, k, n

(* What an odometry update leaves: the old tail and the new tip, pruned.   *)
LEMMA AppendFacts ==
  ASSUME NEW t \in Seq(Entry), NEW ts \in Timestamp, NEW p \in Pose
  PROVE  LET s == Append(t, [ts |-> ts, pose |-> p])
         IN  /\ s \in Seq(Entry)
             /\ s # <<>>
             /\ Len(s) = Len(t) + 1
             /\ \A i \in 1 .. Len(t) : s[i] = t[i]
             /\ s[Len(t) + 1].ts = ts
             /\ Latest(s) = ts
<1>1. [ts |-> ts, pose |-> p] \in Entry
  BY DEF Entry
<1> DEFINE s == Append(t, [ts |-> ts, pose |-> p])
<1>2. /\ s \in Seq(Entry) /\ s # <<>> /\ Len(s) = Len(t) + 1
      /\ \A i \in 1 .. Len(t) : s[i] = t[i]
      /\ s[Len(t) + 1] = [ts |-> ts, pose |-> p]
  BY <1>1, AppendProperties
<1> QED BY <1>2 DEF Latest

(* The first entry of t that is left after an odometry update.              *)
Kept(t, ts, p) == FirstKept(Append(t, [ts |-> ts, pose |-> p]))

(* An odometry update ends in the new pose, and what it dropped from the    *)
(* front is out of reach for corrections.                                   *)
LEMMA WithOdometryFacts ==
  ASSUME NEW t \in Seq(Entry), NEW ts \in Timestamp, NEW p \in Pose
  PROVE  /\ WithOdometry(t, ts, p) \in Seq(Entry) /\ WithOdometry(t, ts, p) # <<>>
         /\ Latest(WithOdometry(t, ts, p)) = ts
         /\ WithOdometry(t, ts, p)[Len(WithOdometry(t, ts, p))] = [ts |-> ts, pose |-> p]
         /\ Kept(t, ts, p) \in 1 .. Len(t) + 1
         /\ Len(WithOdometry(t, ts, p)) = Len(t) + 2 - Kept(t, ts, p)
         /\ \A i \in 1 .. Len(WithOdometry(t, ts, p)) - 1 :
              WithOdometry(t, ts, p)[i] = t[Kept(t, ts, p) + i - 1]
         /\ \A j \in 1 .. Kept(t, ts, p) - 1 :
              ~ TimestampIsRetained(WithOdometry(t, ts, p), t[j].ts)
<1> DEFINE s == Append(t, [ts |-> ts, pose |-> p])
           k == FirstKept(s)
           r == WithOdometry(t, ts, p)
<1>1. /\ s \in Seq(Entry) /\ s # <<>> /\ Len(s) = Len(t) + 1
      /\ \A i \in 1 .. Len(t) : s[i] = t[i]
      /\ Latest(s) = ts /\ Len(t) \in Nat
  BY AppendFacts, TailFacts
<1>2. s[Len(t) + 1] = [ts |-> ts, pose |-> p]
  BY AppendProperties DEF Entry
<1>3. r = PruneOldTail(s)
  BY DEF WithOdometry
<1> HIDE DEF s, r
<1>4. /\ r \in Seq(Entry) /\ r # <<>> /\ Len(r) = Len(s) - k + 1
      /\ \A i \in 1 .. Len(r) : r[i] = s[k + i - 1]
      /\ Latest(r) = Latest(s)
  BY <1>1, <1>3, PruneFacts
<1>5. k \in 1 .. Len(s) /\ \A j \in 1 .. k - 1 : s[j].ts < OldestAllowedTimestamp(s)
  BY <1>1, FirstKeptFacts
<1> HIDE DEF k
<1>6. r[Len(r)] = [ts |-> ts, pose |-> p] /\ Latest(r) = ts
  <2>1. Len(r) \in 1 .. Len(r) /\ k + Len(r) - 1 = Len(t) + 1
    BY <1>1, <1>4, <1>5
  <2> QED BY <1>1, <1>2, <1>4, <2>1
<1>7. \A i \in 1 .. Len(r) - 1 : r[i] = t[k + i - 1]
  <2> SUFFICES ASSUME NEW i \in 1 .. Len(r) - 1 PROVE r[i] = t[k + i - 1]
    OBVIOUS
  <2>1. k + i - 1 \in 1 .. Len(t) /\ i \in 1 .. Len(r)
    BY <1>1, <1>4, <1>5
  <2> QED BY <1>1, <1>4, <2>1
<1>8. \A j \in 1 .. k - 1 : ~ TimestampIsRetained(r, t[j].ts)
  <2> SUFFICES ASSUME NEW j \in 1 .. k - 1 PROVE ~ TimestampIsRetained(r, t[j].ts)
    OBVIOUS
  <2>1. OldestAllowedTimestamp(r) = OldestAllowedTimestamp(s)
    BY <1>1, <1>4 DEF OldestAllowedTimestamp
  <2>2. OldestAllowedTimestamp(s) \in Int /\ OldestAllowedTimestamp(s) <= Latest(s)
    BY <1>1, OldestAllowedFacts
  <2>3. j \in 1 .. Len(t) /\ t[j].ts < OldestAllowedTimestamp(s)
    BY <1>1, <1>5
  <2>4. t[j].ts \in Int /\ Latest(s) \in Int
    BY <1>1, <2>3, TailFacts
  <2> QED BY <1>4, <2>1, <2>2, <2>3, <2>4 DEF TimestampIsRetained
<1>9. k \in 1 .. Len(t) + 1 /\ Len(r) = Len(t) + 2 - k
  BY <1>1, <1>4, <1>5
<1> QED BY <1>4, <1>6, <1>7, <1>8, <1>9 DEF Kept, k, s, r

(* A correction keeps the entries' number and times; it multiplies the     *)
(* poses from the corrected entry on.                                      *)
LEMMA CorrectedFacts ==
  ASSUME NEW t \in Seq(Entry), NEW k \in 1 .. Len(t), NEW p \in Pose
  PROVE  /\ Corrected(t, k, p) \in Seq(Entry)
         /\ Len(Corrected(t, k, p)) = Len(t)
         /\ \A i \in 1 .. Len(t) :
              /\ Corrected(t, k, p)[i].ts = t[i].ts
              /\ i < k => Corrected(t, k, p)[i] = t[i]
              /\ i >= k => Corrected(t, k, p)[i].pose
                             = Mul(t[i].pose, Mul(Inv(t[k].pose), p))
<1> DEFINE delta == Mul(Inv(t[k].pose), p)
           e(i) == IF i < k THEN t[i] ELSE [t[i] EXCEPT !.pose = Mul(@, delta)]
           s == [i \in 1 .. Len(t) |-> e(i)]
<1>1. delta \in Pose
  BY TailFacts, PoseGroupAssumption
<1>2. \A i \in 1 .. Len(t) :
        /\ e(i) \in Entry
        /\ e(i).ts = t[i].ts
        /\ i < k => e(i) = t[i]
        /\ i >= k => e(i).pose = Mul(t[i].pose, delta)
  <2> SUFFICES ASSUME NEW i \in 1 .. Len(t)
               PROVE  /\ e(i) \in Entry
                      /\ e(i).ts = t[i].ts
                      /\ i < k => e(i) = t[i]
                      /\ i >= k => e(i).pose = Mul(t[i].pose, delta)
    OBVIOUS
  <2>1. t[i] \in Entry /\ t[i].pose \in Pose /\ Mul(t[i].pose, delta) \in Pose
    BY <1>1, TailFacts, PoseGroupAssumption
  <2>2. i \in Int /\ k \in Int
    BY TailFacts
  <2> HIDE DEF delta
  <2> QED BY <2>1, <2>2 DEF Entry
<1> HIDE DEF e
<1>3. s \in [1 .. Len(t) -> Entry] /\ Len(t) \in Nat
  BY <1>2, TailFacts
<1>4. s \in Seq(Entry) /\ Len(s) = Len(t)
  BY <1>3
<1> QED BY <1>2, <1>4 DEF Corrected, e

(* A correction by b^-1 * p on the right takes b itself to p.              *)
LEMMA CorrectionReaches ==
  ASSUME NEW b \in Pose, NEW p \in Pose
  PROVE  Mul(b, Mul(Inv(b), p)) = p
<1>1. Mul(b, Mul(Inv(b), p)) = Mul(Mul(b, Inv(b)), p)
  BY PoseGroupAssumption
<1> QED BY <1>1, PoseGroupAssumption

(* ... and takes any other a to the pose displaced from p as a was from b. *)
LEMMA CorrectionShifts ==
  ASSUME NEW a \in Pose, NEW b \in Pose, NEW p \in Pose
  PROVE  Mul(Mul(a, Mul(Inv(b), p)), Inv(p)) = Mul(a, Inv(b))
<1>1. Inv(b) \in Pose /\ Inv(p) \in Pose /\ Mul(Inv(b), p) \in Pose
  BY PoseGroupAssumption
<1>2. Mul(Mul(a, Mul(Inv(b), p)), Inv(p)) = Mul(a, Mul(Mul(Inv(b), p), Inv(p)))
  BY <1>1, PoseGroupAssumption
<1>3. Mul(Mul(Inv(b), p), Inv(p)) = Mul(Inv(b), Mul(p, Inv(p)))
  BY <1>1, PoseGroupAssumption
<1>4. Mul(Inv(b), Mul(p, Inv(p))) = Inv(b)
  BY <1>1, PoseGroupAssumption
<1> QED BY <1>2, <1>3, <1>4

(* Updates that leave the timestamps alone leave the corrected place.      *)
LEMMA SamePlace ==
  ASSUME NEW s \in Seq(Entry), NEW t \in Seq(Entry), t # <<>>,
         Len(s) = Len(t), \A i \in 1 .. Len(t) : s[i].ts = t[i].ts,
         NEW ts \in Timestamp, Latest(t) >= ts
  PROVE  FirstNotBefore(s, ts) = FirstNotBefore(t, ts)
<1>1. ts \in Int
  BY TailAssumption DEF Timestamp
<1>2. s # <<>> /\ Latest(s) = Latest(t)
  BY TailFacts, EmptySeq DEF Latest
<1> DEFINE k == FirstNotBefore(t, ts)
           l == FirstNotBefore(s, ts)
<1>3. /\ k \in 1 .. Len(t) /\ t[k].ts >= ts
      /\ \A j \in 1 .. k - 1 : t[j].ts < ts
  BY <1>1, FirstNotBeforeFacts
<1>4. /\ l \in 1 .. Len(t) /\ s[l].ts >= ts
      /\ \A j \in 1 .. l - 1 : s[j].ts < ts
  BY <1>1, <1>2, FirstNotBeforeFacts
<1>5. \A i \in 1 .. Len(t) : s[i].ts \in Int /\ t[i].ts \in Int
  BY TailFacts
<1> HIDE DEF k, l
<1>6. ~ (l < k)
  <2> SUFFICES ASSUME l < k PROVE FALSE
    OBVIOUS
  <2>1. l \in 1 .. k - 1
    BY <1>3, <1>4, TailFacts
  <2> QED BY <1>1, <1>3, <1>4, <1>5, <2>1
<1>7. ~ (k < l)
  <2> SUFFICES ASSUME k < l PROVE FALSE
    OBVIOUS
  <2>1. k \in 1 .. l - 1
    BY <1>3, <1>4, TailFacts
  <2> QED BY <1>1, <1>3, <1>4, <1>5, <2>1
<1>8. k \in Int /\ l \in Int
  BY <1>3, <1>4, TailFacts
<1> QED BY <1>6, <1>7, <1>8 DEF k, l

-----------------------------------------------------------------------------
(* The inductive invariant.  Order is needed for the window (what pruning  *)
(* keeps after the first kept entry is not older), and types for both.     *)
IInv == TypeOK /\ InTimeOrder /\ WithinRetention

LEMMA OdometryKeepsIInv ==
  ASSUME IInv, NEW ts \in Timestamp, NEW p \in Pose,
         UpdateTimeByOdometry(ts, p)
  PROVE  IInv'
<1> DEFINE s == Append(tail, [ts |-> ts, pose |-> p])
           k == FirstKept(s)
<1>1. tail \in Seq(Entry) /\ ts \in Int
  BY TailAssumption DEF IInv, TypeOK, Timestamp
<1>2. /\ s \in Seq(Entry) /\ s # <<>> /\ Len(s) = Len(tail) + 1
      /\ \A i \in 1 .. Len(tail) : s[i] = tail[i]
      /\ s[Len(tail) + 1].ts = ts /\ Latest(s) = ts
  BY <1>1, AppendFacts
<1>3. tail' = PruneOldTail(s)
  BY DEF UpdateTimeByOdometry, WithOdometry
<1> HIDE DEF s
<1>4. /\ tail' \in Seq(Entry) /\ tail' # <<>>
      /\ Len(tail') = Len(s) - k + 1
      /\ \A i \in 1 .. Len(tail') : tail'[i] = s[k + i - 1]
      /\ Latest(tail') = Latest(s)
  BY <1>2, <1>3, PruneFacts
<1>5. /\ k \in 1 .. Len(s)
      /\ k = Len(s) \/ s[k].ts >= OldestAllowedTimestamp(s)
  BY <1>2, FirstKeptFacts
<1>6. \A i \in 1 .. Len(s) : s[i].ts \in Int
  BY <1>2, TailFacts
<1> HIDE DEF k
<1>7. \A i, j \in 1 .. Len(s) : i < j => s[i].ts <= s[j].ts
  <2> SUFFICES ASSUME NEW i \in 1 .. Len(s), NEW j \in 1 .. Len(s), i < j
               PROVE  s[i].ts <= s[j].ts
    OBVIOUS
  <2>1. Len(tail) \in Nat
    BY <1>1, TailFacts
  <2>2. CASE j <= Len(tail)
    BY <1>2, <2>1, <2>2 DEF IInv, InTimeOrder
  <2>3. CASE j = Len(tail) + 1
    <3>1. i \in 1 .. Len(tail) /\ tail # <<>>
      BY <1>1, <1>2, <2>1, <2>3, EmptySeq
    <3>2. tail[i].ts <= Latest(tail)
      <4>1. i = Len(tail) \/ i < Len(tail)
        BY <3>1, <2>1
      <4> QED BY <1>1, <3>1, <4>1, <2>1, TailFacts DEF IInv, InTimeOrder, Latest
    <3>3. Latest(tail) <= ts
      BY <3>1 DEF UpdateTimeByOdometry, OdometryAccepted
    <3>4. tail[i].ts \in Int /\ Latest(tail) \in Int
      BY <1>1, <3>1, TailFacts
    <3> QED BY <1>1, <1>2, <2>3, <3>1, <3>2, <3>3, <3>4
  <2> QED BY <1>2, <2>1, <2>2, <2>3
<1>8. TypeOK'
  BY <1>4 DEF TypeOK
<1>9. InTimeOrder'
  <2>1. \A i \in 1 .. Len(tail') : k + i - 1 \in 1 .. Len(s)
    BY <1>2, <1>4, <1>5, TailFacts
  <2> SUFFICES ASSUME NEW i \in 1 .. Len(tail'), NEW j \in 1 .. Len(tail'), i < j
               PROVE  tail'[i].ts <= tail'[j].ts
    BY DEF InTimeOrder
  <2>2. k \in Int /\ i \in Int /\ j \in Int
    BY <1>5
  <2>3. k + i - 1 < k + j - 1
    BY <2>2
  <2> QED BY <1>4, <1>7, <2>1, <2>3
<1>10. WithinRetention'
  <2> SUFFICES ASSUME NEW i \in 1 .. Len(tail')
               PROVE  TimestampIsRetained(tail', tail'[i].ts)
    BY DEF WithinRetention
  <2>1. k + i - 1 \in 1 .. Len(s) /\ k \in Int /\ i \in Int /\ k <= k + i - 1
        /\ Len(s) \in Int
    BY <1>2, <1>4, <1>5, TailFacts
  <2>2. s[k].ts <= s[k + i - 1].ts
    BY <1>5, <1>6, <1>7, <2>1
  <2>3. OldestAllowedTimestamp(tail') = OldestAllowedTimestamp(s)
    BY <1>2, <1>4 DEF OldestAllowedTimestamp
  <2>4. OldestAllowedTimestamp(s) \in Int
    BY <1>2, OldestAllowedFacts
  <2>5. CASE k = Len(s)
    <3>1. tail'[i].ts = Latest(tail')
      BY <1>4, <2>1, <2>5 DEF Latest
    <3> QED BY <1>4, <3>1, TailFacts DEF TimestampIsRetained
  <2>6. CASE s[k].ts >= OldestAllowedTimestamp(s)
    <3>1. k \in 1 .. Len(s)
      BY <1>5, <2>1
    <3>2. s[k].ts \in Int /\ s[k + i - 1].ts \in Int
      BY <1>6, <2>1, <3>1
    <3>3. s[k + i - 1].ts >= OldestAllowedTimestamp(s)
      BY <2>2, <2>4, <2>6, <3>2
    <3>4. tail'[i].ts = s[k + i - 1].ts
      BY <1>4
    <3> QED BY <2>3, <3>3, <3>4 DEF TimestampIsRetained
  <2> QED BY <1>5, <2>5, <2>6
<1> QED BY <1>8, <1>9, <1>10 DEF IInv

(* The two outcomes of an accepted update of the SLAM thread.  Either it is *)
(* newer than the tail and replaces it, or it corrects the entry k, and     *)
(* every entry keeps its time and the later ones are shifted.               *)
LEMMA WithSlamPoseFacts ==
  ASSUME NEW t \in Seq(Entry), NEW ts \in Timestamp, NEW p \in Pose
  PROVE  \/ WithSlamPose(t, ts, p) = << [ts |-> ts, pose |-> p] >>
            /\ (t = <<>> \/ Latest(t) < ts)
         \/ /\ t # <<>> /\ Latest(t) >= ts
            /\ WithSlamPose(t, ts, p) \in Seq(Entry) /\ Len(WithSlamPose(t, ts, p)) = Len(t)
            /\ FirstNotBefore(t, ts) \in 1 .. Len(t)
            /\ \A i \in 1 .. Len(t) : WithSlamPose(t, ts, p)[i].ts = t[i].ts
            /\ \A i \in 1 .. Len(t) :
                 i < FirstNotBefore(t, ts) => WithSlamPose(t, ts, p)[i] = t[i]
            /\ \A i \in 1 .. Len(t) :
                 i >= FirstNotBefore(t, ts) =>
                   WithSlamPose(t, ts, p)[i].pose
                     = Mul(t[i].pose, Mul(Inv(t[FirstNotBefore(t, ts)].pose), p))
<1> DEFINE r == WithSlamPose(t, ts, p)
<1>1. ts \in Int
  BY TailAssumption DEF Timestamp
<1>2. CASE t = <<>> \/ Latest(t) < ts
  BY <1>2 DEF WithSlamPose
<1>3. CASE t # <<>> /\ ~ (Latest(t) < ts)
  <2> DEFINE k == FirstNotBefore(t, ts)
             delta == Mul(Inv(t[k].pose), p)
  <2>1. Latest(t) >= ts
    BY <1>1, <1>3, TailFacts
  <2>2. k \in 1 .. Len(t)
    BY <1>1, <1>3, <2>1, FirstNotBeforeFacts
  <2>3. r = IF t[k].pose = p THEN t ELSE Corrected(t, k, p)
    BY <1>3 DEF WithSlamPose
  <2> HIDE DEF k, r
  <2>4. CASE t[k].pose = p
    <3>1. delta = Id /\ r = t
      BY <2>3, <2>4, PoseGroupAssumption
    <3>2. \A i \in 1 .. Len(t) : r[i].pose = Mul(t[i].pose, delta)
      BY <3>1, TailFacts, PoseGroupAssumption
    <3> QED BY <1>3, <2>1, <2>2, <3>1, <3>2 DEF k, r
  <2>5. CASE t[k].pose # p
    <3>1. r = Corrected(t, k, p)
      BY <2>3, <2>5
    <3>2. /\ r \in Seq(Entry) /\ Len(r) = Len(t)
          /\ \A i \in 1 .. Len(t) :
               /\ r[i].ts = t[i].ts
               /\ i < k => r[i] = t[i]
               /\ i >= k => r[i].pose = Mul(t[i].pose, delta)
      BY <2>2, <3>1, CorrectedFacts
    <3> QED BY <1>3, <2>1, <2>2, <3>2 DEF k, r
  <2> QED BY <2>4, <2>5
<1> QED BY <1>2, <1>3

LEMMA SlamUpdateFacts ==
  ASSUME TypeOK, NEW ts \in Timestamp, NEW p \in Pose, UpdatePoseBySLAM(ts, p)
  PROVE  \/ tail' = << [ts |-> ts, pose |-> p] >>
            /\ (tail = <<>> \/ Latest(tail) < ts)
         \/ /\ tail # <<>> /\ Latest(tail) >= ts
            /\ tail' \in Seq(Entry) /\ Len(tail') = Len(tail)
            /\ FirstNotBefore(tail, ts) \in 1 .. Len(tail)
            /\ \A i \in 1 .. Len(tail) : tail'[i].ts = tail[i].ts
            /\ \A i \in 1 .. Len(tail) :
                 i < FirstNotBefore(tail, ts) => tail'[i] = tail[i]
            /\ \A i \in 1 .. Len(tail) :
                 i >= FirstNotBefore(tail, ts) =>
                   tail'[i].pose
                     = Mul(tail[i].pose,
                           Mul(Inv(tail[FirstNotBefore(tail, ts)].pose), p))
<1>1. tail \in Seq(Entry) /\ tail' = WithSlamPose(tail, ts, p)
  BY DEF TypeOK, UpdatePoseBySLAM
<1> QED BY <1>1, WithSlamPoseFacts

LEMMA SlamKeepsIInv ==
  ASSUME IInv, NEW ts \in Timestamp, NEW p \in Pose, UpdatePoseBySLAM(ts, p)
  PROVE  IInv'
<1>1. tail \in Seq(Entry) /\ TypeOK
  BY DEF IInv, TypeOK
<1>2. CASE tail' = << [ts |-> ts, pose |-> p] >>
  <2>1. [ts |-> ts, pose |-> p] \in Entry
    BY DEF Entry
  <2>2. tail' \in Seq(Entry) /\ Len(tail') = 1 /\ tail' # <<>>
    BY <1>2, <2>1
  <2>3. \A i \in 1 .. Len(tail') : i = Len(tail') /\ i = 1
    BY <2>2
  <2>4. InTimeOrder'
    BY <2>3 DEF InTimeOrder
  <2>5. WithinRetention'
    <3> SUFFICES ASSUME NEW i \in 1 .. Len(tail')
                 PROVE  TimestampIsRetained(tail', tail'[i].ts)
      BY DEF WithinRetention
    <3>1. tail'[i].ts = Latest(tail')
      BY <2>3 DEF Latest
    <3>2. Latest(tail') \in Int
      BY <2>2, TailFacts
    <3> QED BY <3>1, <3>2 DEF TimestampIsRetained
  <2> QED BY <2>2, <2>4, <2>5 DEF IInv, TypeOK
<1>3. CASE /\ tail # <<>> /\ tail' \in Seq(Entry) /\ Len(tail') = Len(tail)
           /\ \A i \in 1 .. Len(tail) : tail'[i].ts = tail[i].ts
  <2>1. tail' # <<>> /\ Latest(tail') = Latest(tail)
    BY <1>1, <1>3, TailFacts, EmptySeq DEF Latest
  <2>2. OldestAllowedTimestamp(tail') = OldestAllowedTimestamp(tail)
    BY <1>3, <2>1 DEF OldestAllowedTimestamp
  <2>3. InTimeOrder'
    BY <1>3 DEF IInv, InTimeOrder
  <2>4. WithinRetention'
    BY <1>3, <2>1, <2>2 DEF IInv, WithinRetention, TimestampIsRetained
  <2> QED BY <1>3, <2>3, <2>4 DEF IInv, TypeOK
<1> QED BY <1>1, <1>2, <1>3, SlamUpdateFacts

LEMMA IInvInductive ==
  /\ Init => IInv
  /\ IInv /\ [Next]_tail => IInv'
<1>1. Init => IInv
  BY EmptySeq DEF Init, IInv, TypeOK, InTimeOrder, WithinRetention
<1>2. IInv /\ [Next]_tail => IInv'
  <2> SUFFICES ASSUME IInv, [Next]_tail PROVE IInv'
    OBVIOUS
  <2>1. ASSUME NEW ts \in Timestamp, NEW p \in Pose, UpdateTimeByOdometry(ts, p)
        PROVE  IInv'
    BY <2>1, OdometryKeepsIInv
  <2>2. ASSUME NEW ts \in Timestamp, NEW p \in Pose, UpdatePoseBySLAM(ts, p)
        PROVE  IInv'
    BY <2>2, SlamKeepsIInv
  <2>3. CASE Clear
    BY <2>3, EmptySeq DEF Clear, IInv, TypeOK, InTimeOrder, WithinRetention
  <2>4. CASE UNCHANGED tail
    BY <2>4 DEF IInv, TypeOK, InTimeOrder, WithinRetention
  <2> QED BY <2>1, <2>2, <2>3, <2>4 DEF Next
<1> QED BY <1>1, <1>2

LEMMA TailInvariant == Spec => []IInv
  BY IInvInductive, PTL DEF Spec

(* The tail holds timestamped poses, whatever the two threads do.          *)
THEOREM TailTypes == Spec => []TypeOK
  BY TailInvariant, PTL DEF IInv

(* The tail is always sorted by time: UpdateTimeByOdometry refuses older   *)
(* frames and a correction of the past keeps the timestamps.               *)
THEOREM TailSorted == Spec => []InTimeOrder
  BY TailInvariant, PTL DEF IInv

(* Every entry lies in the retention window of the tip: PruneOldTail runs  *)
(* whenever the tip moves on.                                              *)
THEOREM TailInWindow == Spec => []WithinRetention
  BY TailInvariant, PTL DEF IInv

(* An update of the SLAM thread that UpdatePoseBySLAM accepts installs the *)
(* pose SLAM computed at the place it was aimed at.                        *)
THEOREM SlamPoseIsInstalled == Spec => SlamPoseInstalled
<1>1. ASSUME TypeOK, NEW ts \in Timestamp, NEW p \in Pose, UpdatePoseBySLAM(ts, p)
      PROVE  /\ tail' # <<>>
             /\ Latest(tail') >= ts
             /\ tail'[FirstNotBefore(tail', ts)].pose = p
  <2>1. tail \in Seq(Entry) /\ ts \in Int
    BY <1>1, TailAssumption DEF TypeOK, Timestamp
  <2>2. CASE tail' = << [ts |-> ts, pose |-> p] >>
    <3>1. tail' \in Seq(Entry) /\ Len(tail') = 1 /\ tail' # <<>>
      BY <2>2 DEF Entry
    <3>2. Latest(tail') = ts
      BY <2>2 DEF Latest
    <3>3. FirstNotBefore(tail', ts) \in 1 .. 1
      BY <2>1, <3>1, <3>2, FirstNotBeforeFacts
    <3> QED BY <2>1, <2>2, <3>1, <3>2, <3>3
  <2>3. CASE /\ tail # <<>> /\ Latest(tail) >= ts
             /\ tail' \in Seq(Entry) /\ Len(tail') = Len(tail)
             /\ FirstNotBefore(tail, ts) \in 1 .. Len(tail)
             /\ \A i \in 1 .. Len(tail) : tail'[i].ts = tail[i].ts
             /\ \A i \in 1 .. Len(tail) :
                  i >= FirstNotBefore(tail, ts) =>
                    tail'[i].pose
                      = Mul(tail[i].pose,
                            Mul(Inv(tail[FirstNotBefore(tail, ts)].pose), p))
    <3> DEFINE k == FirstNotBefore(tail, ts)
    <3>1. FirstNotBefore(tail', ts) = k
      BY <2>1, <2>3, SamePlace
    <3>2. tail' # <<>> /\ Latest(tail') = Latest(tail)
      BY <2>1, <2>3, TailFacts, EmptySeq DEF Latest
    <3>3. tail[k].pose \in Pose /\ k \in Int
      BY <2>1, <2>3, TailFacts
    <3>4. tail'[k].pose = Mul(tail[k].pose, Mul(Inv(tail[k].pose), p))
      BY <2>3, <3>3
    <3> QED BY <2>3, <3>1, <3>2, <3>3, <3>4, CorrectionReaches
  <2> QED BY <1>1, <2>2, <2>3, SlamUpdateFacts
<1>2. TypeOK /\ [Next]_tail =>
        [\A ts \in Timestamp, p \in Pose :
           UpdatePoseBySLAM(ts, p) =>
             /\ tail' # <<>>
             /\ Latest(tail') >= ts
             /\ tail'[FirstNotBefore(tail', ts)].pose = p]_tail
  BY <1>1
<1> QED BY <1>2, TailTypes, PTL DEF Spec, SlamPoseInstalled

(* A correction of the past leaves the older entries and every timestamp,  *)
(* and moves the later poses as one rigid world-frame displacement.        *)
THEOREM PastCorrectionIsOneShift == Spec => CorrectionIsOneShift
<1>1. ASSUME TypeOK, NEW ts \in Timestamp, NEW p \in Pose,
             UpdatePoseBySLAM(ts, p), tail # <<>>, ts <= Latest(tail)
      PROVE  LET k == FirstNotBefore(tail, ts)
             IN  /\ Len(tail') = Len(tail)
                 /\ \A i \in 1 .. Len(tail) :
                      /\ tail'[i].ts = tail[i].ts
                      /\ i < k => tail'[i] = tail[i]
                      /\ i >= k => Mul(tail'[i].pose, Inv(p))
                                   = Mul(tail[i].pose, Inv(tail[k].pose))
  <2> DEFINE k == FirstNotBefore(tail, ts)
  <2>1. tail \in Seq(Entry) /\ ts \in Int
    BY <1>1, TailAssumption DEF TypeOK, Timestamp
  <2>2. Latest(tail) \in Int
    BY <1>1, <2>1, TailFacts
  <2>3. ~ (Latest(tail) < ts)
    BY <1>1, <2>1, <2>2
  <2>4. /\ Len(tail') = Len(tail)
        /\ k \in 1 .. Len(tail)
        /\ \A i \in 1 .. Len(tail) :
             /\ tail'[i].ts = tail[i].ts
             /\ i < k => tail'[i] = tail[i]
             /\ i >= k => tail'[i].pose
                          = Mul(tail[i].pose, Mul(Inv(tail[k].pose), p))
    BY <1>1, <2>3, SlamUpdateFacts
  <2>5. \A i \in 1 .. Len(tail) : tail[i].pose \in Pose
    BY <2>1, TailFacts
  <2> HIDE DEF k
  <2>6. \A i \in 1 .. Len(tail) :
          i >= k => Mul(tail'[i].pose, Inv(p))
                      = Mul(tail[i].pose, Inv(tail[k].pose))
    BY <2>4, <2>5, CorrectionShifts
  <2> QED BY <2>4, <2>6 DEF k
<1>2. TypeOK /\ [Next]_tail =>
        [\A ts \in Timestamp, p \in Pose :
           /\ UpdatePoseBySLAM(ts, p)
           /\ tail # <<>>
           /\ ts <= Latest(tail)
           =>
           LET k == FirstNotBefore(tail, ts)
           IN  /\ Len(tail') = Len(tail)
               /\ \A i \in 1 .. Len(tail) :
                    /\ tail'[i].ts = tail[i].ts
                    /\ i < k => tail'[i] = tail[i]
                    /\ i >= k => Mul(tail'[i].pose, Inv(p))
                                 = Mul(tail[i].pose, Inv(tail[k].pose))]_tail
  BY <1>1
<1> QED BY <1>2, TailTypes, PTL DEF Spec, CorrectionIsOneShift

-----------------------------------------------------------------------------
(* The motions between later poses.                                        *)

Commutative == \A a, b \in Pose : Mul(a, b) = Mul(b, a)

(* The inverse of a product of commuting poses is the product of theirs.   *)
LEMMA InverseOfProduct ==
  ASSUME Commutative, NEW a \in Pose, NEW d \in Pose
  PROVE  Inv(Mul(a, d)) = Mul(Inv(a), Inv(d))
<1> DEFINE ad == Mul(a, d)
           x == Mul(Inv(a), Inv(d))
<1>1. /\ Inv(a) \in Pose /\ Inv(d) \in Pose /\ ad \in Pose /\ Inv(ad) \in Pose
      /\ x \in Pose
  BY PoseGroupAssumption
<1>2. Mul(ad, x) = Id
  <2>1. x = Mul(Inv(d), Inv(a))
    BY <1>1 DEF Commutative
  <2>2. Mul(ad, Mul(Inv(d), Inv(a))) = Mul(a, Mul(d, Mul(Inv(d), Inv(a))))
    BY <1>1, PoseGroupAssumption
  <2>3. Mul(d, Mul(Inv(d), Inv(a))) = Mul(Mul(d, Inv(d)), Inv(a))
    BY <1>1, PoseGroupAssumption
  <2>4. Mul(Mul(d, Inv(d)), Inv(a)) = Inv(a)
    BY <1>1, PoseGroupAssumption
  <2> QED BY <1>1, <2>1, <2>2, <2>3, <2>4, PoseGroupAssumption
<1> HIDE DEF ad, x
<1>3. Mul(Inv(ad), Mul(ad, x)) = Mul(Mul(Inv(ad), ad), x)
  BY <1>1, PoseGroupAssumption
<1>4. Mul(Mul(Inv(ad), ad), x) = x
  BY <1>1, PoseGroupAssumption
<1>5. Mul(Inv(ad), Id) = Inv(ad)
  BY <1>1, PoseGroupAssumption
<1> QED BY <1>2, <1>3, <1>4, <1>5 DEF ad, x

(* Two poses moved by one commuting displacement keep the motion between.  *)
LEMMA MotionKept ==
  ASSUME Commutative, NEW a \in Pose, NEW b \in Pose, NEW d \in Pose
  PROVE  Mul(Inv(Mul(a, d)), Mul(b, d)) = Mul(Inv(a), b)
<1>1. /\ Inv(a) \in Pose /\ Inv(d) \in Pose /\ Mul(d, b) \in Pose
      /\ Mul(b, d) = Mul(d, b)
  BY PoseGroupAssumption DEF Commutative
<1>2. Inv(Mul(a, d)) = Mul(Inv(a), Inv(d))
  BY InverseOfProduct
<1>3. Mul(Mul(Inv(a), Inv(d)), Mul(d, b)) = Mul(Inv(a), Mul(Inv(d), Mul(d, b)))
  BY <1>1, PoseGroupAssumption
<1>4. Mul(Inv(d), Mul(d, b)) = Mul(Mul(Inv(d), d), b)
  BY <1>1, PoseGroupAssumption
<1>5. Mul(Mul(Inv(d), d), b) = b
  BY <1>1, PoseGroupAssumption
<1> QED BY <1>1, <1>2, <1>3, <1>4, <1>5

(* For rigs that never turn (poses commute) a correction of the past keeps *)
(* every later odometry motion.  For rigs that turn it does not: a turn    *)
(* that is corrected turns the motions that follow.                        *)
THEOREM MotionsKeptWithoutTurning == Commutative => (Spec => OdometryMotionsKept)
<1> SUFFICES ASSUME Commutative PROVE Spec => OdometryMotionsKept
  OBVIOUS
<1>1. ASSUME TypeOK, NEW ts \in Timestamp, NEW p \in Pose,
             UpdatePoseBySLAM(ts, p), tail # <<>>, ts <= Latest(tail)
      PROVE  \A i, j \in FirstNotBefore(tail, ts) .. Len(tail) :
               Mul(Inv(tail'[i].pose), tail'[j].pose)
                 = Mul(Inv(tail[i].pose), tail[j].pose)
  <2> DEFINE k == FirstNotBefore(tail, ts)
             delta == Mul(Inv(tail[k].pose), p)
  <2>1. tail \in Seq(Entry) /\ ts \in Int
    BY <1>1, TailAssumption DEF TypeOK, Timestamp
  <2>2. Latest(tail) \in Int /\ Len(tail) \in Nat
    BY <1>1, <2>1, TailFacts
  <2>3. ~ (Latest(tail) < ts)
    BY <1>1, <2>1, <2>2
  <2>4. /\ k \in 1 .. Len(tail)
        /\ \A i \in 1 .. Len(tail) :
             i >= k => tail'[i].pose = Mul(tail[i].pose, delta)
    BY <1>1, <2>3, SlamUpdateFacts
  <2>5. \A i \in 1 .. Len(tail) : tail[i].pose \in Pose
    BY <2>1, TailFacts
  <2>6. delta \in Pose
    BY <2>4, <2>5, PoseGroupAssumption
  <2> HIDE DEF k, delta
  <2>7. \A i \in k .. Len(tail) : /\ tail[i].pose \in Pose
                                  /\ tail'[i].pose = Mul(tail[i].pose, delta)
    BY <2>2, <2>4, <2>5
  <2> QED BY <2>6, <2>7, MotionKept DEF k
<1>2. TypeOK /\ [Next]_tail =>
        [\A ts \in Timestamp, p \in Pose :
           /\ UpdatePoseBySLAM(ts, p)
           /\ tail # <<>>
           /\ ts <= Latest(tail)
           =>
           \A i, j \in FirstNotBefore(tail, ts) .. Len(tail) :
             Mul(Inv(tail'[i].pose), tail'[j].pose)
               = Mul(Inv(tail[i].pose), tail[j].pose)]_tail
  BY <1>1
<1> QED BY <1>2, TailTypes, PTL DEF Spec, OdometryMotionsKept
=============================================================================
