--------------------------- MODULE MapPartsProofs ----------------------------
(***************************************************************************)
(* Proofs about MapParts, for every value of its constants.                *)
(*                                                                         *)
(* The parts share no variable, so each has an inductive invariant of its  *)
(* own (ViewsInv, LandmarksInv, FramesInv, LookupInv), with lemmas that    *)
(* its Init gives it, each of its actions keeps it and the properties      *)
(* follow from it; the end of the module puts them together.               *)
(***************************************************************************)
EXTENDS MapParts, SequenceTheorems, FiniteSetTheorems, WellFoundedInduction, TLAPS

\* A set of numbers has a least element.
LEMMA LeastElement ==
  ASSUME NEW X, X \subseteq Nat, X # {}
  PROVE  \E m \in X : \A i \in X : m <= i
<1> DEFINE R == {ss \in Nat \X Nat : ss[1] < ss[2]}
<1>1. IsWellFoundedOn(R, Nat)
  BY NatLessThanWellFounded DEF OpToRel
<1> HIDE DEF R
<1>2. PICK m \in X : \A i \in X : <<i, m>> \notin R
  BY <1>1, WFMin
<1>3. ASSUME NEW i \in X PROVE m <= i
  <2>1. i \in Nat /\ m \in Nat /\ <<i, m>> \in Nat \X Nat
    OBVIOUS
  <2>2. <<i, m>>[1] = i /\ <<i, m>>[2] = m
    OBVIOUS
  <2>3. ~ (i < m)
    BY <1>2, <2>1, <2>2 DEF R
  <2> QED
    BY <2>1, <2>3
<1> QED
  BY <1>3

\* A bounded set has a greatest element.
LEMMA GreatestElement ==
  ASSUME NEW n \in Nat, NEW X, X \subseteq 0 .. n, X # {}
  PROVE  \E m \in X : \A i \in X : i <= m
<1> DEFINE Y == {n - i : i \in X}
<1>1. Y \subseteq Nat /\ Y # {}
  OBVIOUS
<1>2. PICK m \in Y : \A i \in Y : m <= i
  <2> HIDE DEF Y
  <2> QED BY <1>1, LeastElement
<1>3. PICK x \in X : m = n - x
  OBVIOUS
<1>4. ASSUME NEW i \in X PROVE i <= x
  <2>1. n - i \in Y /\ i \in Int /\ x \in Int
    OBVIOUS
  <2>2. m <= n - i
    BY <1>2, <2>1
  <2> QED BY <1>3, <2>1, <2>2
<1> QED BY <1>4

LEMMA ViewFacts ==
  /\ ViewCapacity \in Nat \ {0} /\ MaxItems \in Nat /\ MaxTime \in Nat
BY MapPartsAssumption

-----------------------------------------------------------------------------
(* Views                                                                   *)

LEMMA OneIsAPower == Views!PowerOfTwo(1)
BY DEF Views!PowerOfTwo

LEMMA DoubleIsAPower ==
  ASSUME NEW d \in Nat \ {0}, Views!PowerOfTwo(d) PROVE Views!PowerOfTwo(2 * d)
<1> SUFFICES ASSUME NEW p \in 2 .. 2 * d, (2 * d) % p = 0, p % 2 # 0 PROVE FALSE
  BY DEF Views!PowerOfTwo
<1>1. PICK q \in Int : 2 * d = p * q
  OBVIOUS
<1>2. PICK r \in Int : p = 2 * r + 1
  OBVIOUS
<1>3. PICK h \in Int : q = 2 * h
  <2>1. q = 2 * (d - r * q)
    BY <1>1, <1>2
  <2>2. d - r * q \in Int
    OBVIOUS
  <2> QED BY <2>1, <2>2
<1>4. d = p * h
  BY <1>1, <1>3
<1>5. p <= d /\ d % p = 0
  <2>1. h >= 1
    <3>1. h <= 0 => p * h <= 0
      OBVIOUS
    <3> QED BY <1>4, <3>1
  <2>2. p * h >= p
    BY <2>1
  <2>3. (p * h) % p = 0
    OBVIOUS
  <2> QED BY <1>4, <2>2, <2>3
<1> QED BY <1>5 DEF Views!PowerOfTwo

LEMMA HalfOfAPower ==
  ASSUME NEW d \in Nat, d > 1, Views!PowerOfTwo(d)
  PROVE  \E h \in 1 .. d : d = 2 * h /\ h < d /\ Views!PowerOfTwo(h)
<1>1. d % 2 = 0
  BY DEF Views!PowerOfTwo
<1>2. PICK h \in 1 .. d : d = 2 * h /\ h < d
  BY <1>1
<1>3. ASSUME NEW p \in 2 .. h, h % p = 0 PROVE p % 2 = 0
  <2>1. PICK q \in Int : h = p * q
    BY <1>3
  <2>2. d = p * (2 * q)
    BY <1>2, <2>1
  <2>3. d % p = 0
    BY <2>2
  <2> QED BY <1>2, <2>3 DEF Views!PowerOfTwo
<1> QED BY <1>2, <1>3 DEF Views!PowerOfTwo

\* EachDiv is the smallest power of two with which n items fit.
LEMMA EachDivFits ==
  ASSUME NEW n \in Nat \ {0}
  PROVE  LET e == Views!EachDiv(n)
         IN /\ e \in 1 .. 2 * n /\ e * ViewCapacity >= n
            /\ e = 1 \/ \E h \in 1 .. e : e = 2 * h /\ h * ViewCapacity < n
<1> DEFINE S == {d \in 1 .. 2 * n : Views!PowerOfTwo(d) /\ d * ViewCapacity >= n}
<1>1. S # {}
  <2> DEFINE T == {d \in 1 .. n : Views!PowerOfTwo(d)}
  <2>1. T \subseteq 0 .. n /\ 1 \in T
    BY OneIsAPower
  <2>2. PICK m \in T : \A i \in T : i <= m
    <3> HIDE DEF T
    <3> QED BY <2>1, GreatestElement
  <2>3. Views!PowerOfTwo(2 * m) /\ m \in 1 .. n
    BY DoubleIsAPower
  <2>4. 2 * m > n
    BY <2>2, <2>3
  <2>5. 2 * m * ViewCapacity >= n
    <3>1. 2 * m * ViewCapacity >= 2 * m
      BY <2>3, ViewFacts
    <3> QED BY <2>3, <2>4, <3>1, ViewFacts
  <2> QED BY <2>3, <2>5
<1>2. PICK e \in S : \A i \in S : e <= i
  <2>1. S \subseteq Nat
    OBVIOUS
  <2> HIDE DEF S
  <2> QED BY <1>1, <2>1, LeastElement
<1>3. Views!EachDiv(n) = CHOOSE x \in S : \A y \in S : x <= y
  BY DEF Views!EachDiv, Views!Min
<1>4. /\ Views!EachDiv(n) \in S
      /\ \A i \in S : Views!EachDiv(n) <= i
  <2> HIDE DEF S
  <2> QED BY <1>2, <1>3
<1> DEFINE f == Views!EachDiv(n)
<1>5. f \in 1 .. 2 * n /\ f * ViewCapacity >= n /\ Views!PowerOfTwo(f)
  BY <1>4
<1>6. ASSUME f # 1 PROVE \E h \in 1 .. f : f = 2 * h /\ h * ViewCapacity < n
  <2> HIDE DEF f
  <2>1. PICK h \in 1 .. f : f = 2 * h /\ h < f /\ Views!PowerOfTwo(h)
    BY <1>5, <1>6, HalfOfAPower
  <2>2. h \in 1 .. 2 * n /\ h * ViewCapacity \in Int
    BY <1>5, <2>1, ViewFacts
  <2>3. ~ (h * ViewCapacity >= n)
    <3>1. h * ViewCapacity >= n => h \in S
      BY <2>1, <2>2
    <3> QED BY <1>4, <1>5, <2>1, <2>2, <3>1 DEF f
  <2> QED BY <2>1, <2>2, <2>3
<1> HIDE DEF f
<1>7. LET e1 == f IN
            /\ e1 \in 1 .. 2 * n /\ e1 * ViewCapacity >= n
            /\ e1 = 1 \/ \E h \in 1 .. e1 : e1 = 2 * h /\ h * ViewCapacity < n
  BY <1>5, <1>6
<1> QED BY <1>7 DEF f

Items == Seq(Nat \X Nat \X Nat)

\* every each-th of n items
Each(n) == IF layer = "Map" THEN Views!EachDiv(n) ELSE 1
Chosen(n) == (n + Each(n) - 1) \div Each(n)

\* the smaller of two numbers
LEMMA MinOfTwo ==
  ASSUME NEW a \in Int, NEW b \in Int
  PROVE  Views!Min({a, b}) = IF a <= b THEN a ELSE b
<1>1. \E x \in {a, b} : \A y \in {a, b} : x <= y
  OBVIOUS
<1> QED BY <1>1 DEF Views!Min

LEMMA PublishedIs ==
  ASSUME NEW t \in Nat, NEW n \in Nat, layer = "Map" => n # 0
  PROVE  /\ Each(n) \in Nat \ {0}
         /\ Chosen(n) \in Nat /\ Chosen(n) * Each(n) >= n
         /\ (Chosen(n) - 1) * Each(n) < n
         /\ \E k \in Nat :
              /\ k = IF Chosen(n) <= ViewCapacity THEN Chosen(n) ELSE ViewCapacity
              /\ Views!Published(t, n) = [i \in 1 .. k |-> <<t, n, (i - 1) * Each(n)>>]
<1>1. Each(n) \in Nat \ {0}
  BY EachDivFits DEF Each
<1>2. /\ Chosen(n) \in Nat /\ Chosen(n) * Each(n) >= n
      /\ (Chosen(n) - 1) * Each(n) < n
  <2> DEFINE e == Each(n)
             c == Chosen(n)
  <2>1. e \in Nat \ {0} /\ c = (n + e - 1) \div e
    BY <1>1 DEF Chosen
  <2> HIDE DEF e, c
  <2>2. c \in Int /\ c * e <= n + e - 1 /\ n + e - 1 < (c + 1) * e
    BY <2>1
  <2>3. c >= 0
    <3>1. c + 1 <= 0 => (c + 1) * e <= 0
      BY <2>1, <2>2
    <3>2. n + e - 1 >= 0
      BY <2>1
    <3> QED BY <2>1, <2>2, <3>1, <3>2
  <2>4. (c + 1) * e = c * e + e /\ (c - 1) * e = c * e - e /\ c * e \in Int
    BY <2>1, <2>2
  <2>5. c \in Nat /\ c * e >= n /\ (c - 1) * e < n
    BY <2>1, <2>2, <2>3, <2>4
  <2> QED BY <2>5 DEF e, c
<1>3. Views!Min({Chosen(n), ViewCapacity}) = IF Chosen(n) <= ViewCapacity THEN Chosen(n) ELSE ViewCapacity
  BY <1>2, ViewFacts, MinOfTwo
<1>4. Views!Published(t, n) =
        [i \in 1 .. Views!Min({Chosen(n), ViewCapacity}) |-> <<t, n, (i - 1) * Each(n)>>]
  BY DEF Views!Published, Chosen, Each
<1> QED BY <1>1, <1>2, <1>3, <1>4, ViewFacts

ViewTypes ==
  /\ layer \in {"Landmarks", "Map", "LoopClosure", "PoseGraph"}
  /\ pool \subseteq Views!View
  /\ view \in [Views!View -> [time : Nat, items : Items]]
  /\ writing \in [view : 0 .. 3, time : Nat] /\ reading \in 0 .. 3
  /\ seen \in [time : Nat, items : Items] /\ now \in Nat

\* Nothing is later than the newest frame, which is the one being written.
TimesAreOld ==
  /\ \A v \in Views!View : view[v].time <= now
  /\ seen.time <= now
  /\ writing.view # 0 => layer # "Landmarks" /\ writing.time = now

\* The reader has a view of the pool, not that of the writer.
ReaderIsApart ==
  reading # 0 => reading \in pool /\ reading # writing.view /\ seen.time = view[reading].time

AllOf(items, time) == \A i \in DOMAIN items : items[i][1] = time

\* Only in the view of the writer may items and timestamp be of two frames.
ViewsAreWhole ==
  layer # "Landmarks" =>
    /\ \A v \in Views!View : v # writing.view => AllOf(view[v].items, view[v].time)
    /\ writing.view # 0 =>
         \/ AllOf(view[writing.view].items, view[writing.view].time)
         \/ AllOf(view[writing.view].items, writing.time)
    /\ reading = 0 => AllOf(seen.items, seen.time)

\* what is published of n landmarks of the map
ForTheMap(t, n) ==
  [i \in 1 .. Views!Min({(n + Views!EachDiv(n) - 1) \div Views!EachDiv(n), ViewCapacity}) |->
     <<t, n, (i - 1) * Views!EachDiv(n)>>]

LEMMA ForTheMapIs == ASSUME layer = "Map", NEW t, NEW n PROVE Views!Published(t, n) = ForTheMap(t, n)
BY DEF Views!Published, ForTheMap

\* A view of the map is empty or was published.
MapIsPublished ==
  layer = "Map" => \A v \in Views!View :
    view[v].items = <<>> \/ \E t \in Nat, n \in 1 .. MaxItems : view[v].items = ForTheMap(t, n)

\* The newest view that nobody writes was never written or is no older than
\* what the caller has.
NewestIsKept ==
  \A v \in pool \ {writing.view} :
    (\A w \in pool \ {writing.view} : view[w].time <= view[v].time) =>
      view[v].time = 0 \/ seen.time <= view[v].time

ViewsInv ==
  /\ ViewTypes /\ TimesAreOld /\ ReaderIsApart
  /\ ViewsAreWhole /\ MapIsPublished /\ NewestIsKept

\* One of at most three views is the newest, one the oldest.
LEMMA NewestOfThree ==
  ASSUME NEW U, U \subseteq 1 .. 3, U # {}, NEW f, \A v \in U : f[v] \in Int
  PROVE  \E a \in U : \A w \in U : f[w] <= f[a]
<1>1. \A v \in U : v = 1 \/ v = 2 \/ v = 3
  OBVIOUS
<1> DEFINE X == f[1]
           Y == f[2]
           Z == f[3]
<1>2. /\ 1 \in U => X \in Int
      /\ 2 \in U => Y \in Int
      /\ 3 \in U => Z \in Int
  OBVIOUS
<1>3. (\A w \in U : w = 1) \/ 2 \in U \/ 3 \in U
  BY <1>1
<1> HIDE DEF X, Y, Z
<1>4. CASE 1 \in U /\ (2 \in U => Y <= X) /\ (3 \in U => Z <= X)
  <2>1. \A w \in U : f[w] <= f[1]
    BY <1>1, <1>2, <1>4 DEF X, Y, Z
  <2> QED BY <1>4, <2>1
<1>5. CASE 2 \in U /\ (1 \in U => X <= Y) /\ (3 \in U => Z <= Y)
  <2>1. \A w \in U : f[w] <= f[2]
    BY <1>1, <1>2, <1>5 DEF X, Y, Z
  <2> QED BY <1>5, <2>1
<1>6. CASE 3 \in U /\ (1 \in U => X <= Z) /\ (2 \in U => Y <= Z)
  <2>1. \A w \in U : f[w] <= f[3]
    BY <1>1, <1>2, <1>6 DEF X, Y, Z
  <2> QED BY <1>6, <2>1
<1>7. 1 \in U \/ 2 \in U \/ 3 \in U
  BY <1>1
<1> QED BY <1>2, <1>4, <1>5, <1>6, <1>7

LEMMA OldestOfThree ==
  ASSUME NEW U, U \subseteq 1 .. 3, U # {}, NEW f, \A v \in U : f[v] \in Int
  PROVE  \E a \in U : \A w \in U : f[a] <= f[w]
<1> DEFINE g == [v \in U |-> 0 - f[v]]
<1>1. \A v \in U : g[v] \in Int
  OBVIOUS
<1>2. PICK a \in U : \A w \in U : g[w] <= g[a]
  <2> HIDE DEF g
  <2> QED BY <1>1, NewestOfThree
<1>3. \A w \in U : f[a] <= f[w]
  BY <1>2
<1> QED BY <1>3

LEMMA LatestIs ==
  ASSUME ViewTypes, Views!Unheld # {}
  PROVE  /\ Views!Latest \in Views!Unheld
         /\ \A w \in Views!Unheld : view[w].time <= view[Views!Latest].time
<1> DEFINE U == Views!Unheld
           P(v) == \A w \in U : view[v].time > view[w].time \/ (view[v].time = view[w].time /\ v <= w)
<1>1. U \subseteq 1 .. 3 /\ U # {} /\ \A v \in U : view[v].time \in Nat
  BY DEF ViewTypes, Views!Unheld, Views!View
<1>2. PICK a \in U : \A w \in U : view[w].time <= view[a].time
  <2> DEFINE f == [v \in U |-> view[v].time]
  <2>1. \A v \in U : f[v] \in Int
    BY <1>1
  <2>2. PICK a \in U : \A w \in U : f[w] <= f[a]
    <3> HIDE DEF U, f
    <3> QED BY <1>1, <2>1, NewestOfThree
  <2> QED BY <2>2
<1>3. \E v \in U : P(v)
  <2> DEFINE M == {v \in U : view[v].time = view[a].time}
  <2>1. M \subseteq Nat /\ M # {}
    BY <1>1, <1>2
  <2>2. PICK v \in M : \A w \in M : v <= w
    <3> HIDE DEF M
    <3> QED BY <2>1, LeastElement
  <2> HIDE DEF U
  <2> QED BY <1>1, <1>2, <2>2
<1>4. Views!Latest = CHOOSE v \in U : P(v)
  BY DEF Views!Latest
<1>5. Views!Latest \in U /\ P(Views!Latest)
  <2> HIDE DEF U, P
  <2> QED BY <1>3, <1>4
<1> QED BY <1>1, <1>5

LEMMA EarliestIs ==
  ASSUME ViewTypes, Views!Unheld # {}
  PROVE  /\ Views!Earliest \in Views!Unheld
         /\ \A w \in Views!Unheld : view[Views!Earliest].time <= view[w].time
<1> DEFINE U == Views!Unheld
           P(v) == \A w \in U : view[v].time < view[w].time \/ (view[v].time = view[w].time /\ v <= w)
<1>1. U \subseteq 1 .. 3 /\ U # {} /\ \A v \in U : view[v].time \in Nat
  BY DEF ViewTypes, Views!Unheld, Views!View
<1>2. PICK a \in U : \A w \in U : view[a].time <= view[w].time
  <2> DEFINE f == [v \in U |-> view[v].time]
  <2>1. \A v \in U : f[v] \in Int
    BY <1>1
  <2>2. PICK a \in U : \A w \in U : f[a] <= f[w]
    <3> HIDE DEF U, f
    <3> QED BY <1>1, <2>1, OldestOfThree
  <2> QED BY <2>2
<1>3. \E v \in U : P(v)
  <2> DEFINE M == {v \in U : view[v].time = view[a].time}
  <2>1. M \subseteq Nat /\ M # {}
    BY <1>1, <1>2
  <2>2. PICK v \in M : \A w \in M : v <= w
    <3> HIDE DEF M
    <3> QED BY <2>1, LeastElement
  <2> HIDE DEF U
  <2> QED BY <1>1, <1>2, <2>2
<1>4. Views!Earliest = CHOOSE v \in U : P(v)
  BY DEF Views!Earliest
<1>5. Views!Earliest \in U /\ P(Views!Earliest)
  <2> HIDE DEF U, P
  <2> QED BY <1>3, <1>4
<1> QED BY <1>1, <1>5

LEMMA NoneUnheld ==
  Views!Unheld = {} => Views!Latest = 0 /\ Views!Earliest = 0
BY DEF Views!Latest, Views!Earliest, Views!NoView

LEMMA ViewsInit == Views!Init => ViewsInv
<1> SUFFICES ASSUME Views!Init PROVE ViewsInv
  OBVIOUS
<1>1. <<>> \in Items /\ DOMAIN <<>> = {}
  BY DEF Items
<1>2. /\ layer \in {"Landmarks", "Map", "LoopClosure", "PoseGraph"}
      /\ pool = {} /\ view = [v \in Views!View |-> [time |-> 0, items |-> <<>>]]
      /\ writing = [view |-> 0, time |-> 0] /\ reading = 0
      /\ seen = [time |-> 0, items |-> <<>>] /\ now = 0
  BY DEF Views!Init, Views!Blank, Views!NoView
<1> QED
  BY <1>1, <1>2 DEF ViewsInv, ViewTypes, TimesAreOld, ReaderIsApart, ViewsAreWhole, MapIsPublished,
    NewestIsKept, AllOf

-----------------------------------------------------------------------------
(* The steps of the views                                                  *)

LEMMA ViewsCardinality == \A S : Views!Cardinality(S) = Cardinality(S)
BY DEF Views!Cardinality, Cardinality

LEMMA PooledIs ==
  ASSUME NEW w \in 0 .. 3
  PROVE  Views!Pooled(Views!View \ {w}) \subseteq Views!View \ {w}
<1>1. \E a, b \in Views!View \ {w} : a # b
  <2>1. CASE w = 1
    <3>1. 2 \in Views!View \ {w} /\ 3 \in Views!View \ {w}
      BY <2>1 DEF Views!View
    <3> QED BY <3>1
  <2>2. CASE w = 2
    <3>1. 1 \in Views!View \ {w} /\ 3 \in Views!View \ {w}
      BY <2>2 DEF Views!View
    <3> QED BY <3>1
  <2>3. CASE w # 1 /\ w # 2
    <3>1. 1 \in Views!View \ {w} /\ 2 \in Views!View \ {w}
      BY <2>3 DEF Views!View
    <3> QED BY <3>1
  <2> QED BY <2>1, <2>2, <2>3
<1>2. PICK a, b \in Views!View \ {w} : a # b
  BY <1>1
<1>3. {a, b} \in Views!kSubset(2, Views!View \ {w})
  <2>1. Cardinality({a, b}) = 2
    <3>1. IsFiniteSet({}) /\ Cardinality({}) = 0
      BY FS_EmptySet
    <3>2. IsFiniteSet({a}) /\ Cardinality({a}) = 1
      <4>1. {} \cup {a} = {a}
        OBVIOUS
      <4> QED BY <3>1, <4>1, FS_AddElement
    <3>3. Cardinality({a} \cup {b}) = 2
      BY <3>2, <1>2, FS_AddElement
    <3>4. {a} \cup {b} = {a, b}
      OBVIOUS
    <3> QED BY <3>3, <3>4
  <2> QED BY <2>1, <1>2, ViewsCardinality DEF Views!kSubset
<1> QED BY <1>3 DEF Views!Pooled, Views!kSubset

LEMMA EnableViews == ASSUME ViewsInv, Views!Enable PROVE ViewsInv'
<1> DEFINE q == Views!Pooled(Views!View \ {writing.view})
<1>1. q \subseteq Views!View \ {writing.view}
  BY PooledIs DEF ViewsInv, ViewTypes
<1> HIDE DEF q
<1>2. /\ reading = 0 /\ pool' = q
      /\ view' = [v \in Views!View |-> IF v \in q THEN [time |-> 0, items |-> <<>>] ELSE view[v]]
      /\ UNCHANGED <<layer, writing, reading, seen, now>>
  BY DEF Views!Enable, Views!NoView, Views!Blank, q
<1>3. <<>> \in Items /\ DOMAIN <<>> = {}
  BY DEF Items
<1>4. ViewTypes'
  BY <1>1, <1>2, <1>3 DEF ViewsInv, ViewTypes
<1>5. TimesAreOld' /\ ReaderIsApart'
  BY <1>1, <1>2 DEF ViewsInv, ViewTypes, TimesAreOld, ReaderIsApart
<1>6. ViewsAreWhole'
  <2>1. \A v \in Views!View :
          IF v \in q THEN view'[v] = [time |-> 0, items |-> <<>>] ELSE view'[v] = view[v]
    BY <1>2
  <2>2. \A v \in q : AllOf(view'[v].items, view'[v].time)
    BY <1>1, <1>3, <2>1 DEF AllOf
  <2>3. writing.view = 0 \/ writing.view \in Views!View
    BY DEF ViewsInv, ViewTypes, Views!View
  <2> QED BY <1>1, <1>2, <2>1, <2>2, <2>3 DEF ViewsInv, ViewsAreWhole, AllOf
<1>7. MapIsPublished'
  <2>1. \A v \in Views!View : view'[v].items = <<>> \/ view'[v] = view[v]
    BY <1>2
  <2> QED BY <1>2, <2>1 DEF ViewsInv, MapIsPublished
<1>8. NewestIsKept'
  BY <1>1, <1>2 DEF NewestIsKept
<1> QED BY <1>4, <1>5, <1>6, <1>7, <1>8 DEF ViewsInv

LEMMA DisableViews == ASSUME ViewsInv, Views!Disable PROVE ViewsInv'
<1>1. reading = 0 /\ pool' = {} /\ UNCHANGED <<layer, view, writing, reading, seen, now>>
  BY DEF Views!Disable, Views!NoView
<1> QED
  BY <1>1 DEF ViewsInv, ViewTypes, TimesAreOld, ReaderIsApart, ViewsAreWhole, AllOf, MapIsPublished,
    NewestIsKept

LEMMA BeginPublishViews == ASSUME ViewsInv, Views!BeginPublish PROVE ViewsInv'
<1> DEFINE e == Views!Earliest
<1>1. /\ layer # "Landmarks" /\ writing.view = 0 /\ now' = now + 1
      /\ writing' = [view |-> e, time |-> now + 1]
      /\ UNCHANGED <<layer, pool, view, reading, seen>>
  BY DEF Views!BeginPublish, Views!NoView
<1>2. e = 0 \/ /\ e \in pool /\ e # reading /\ e # 0
               /\ \A w \in pool \ {reading} : view[e].time <= view[w].time
  <2>1. CASE Views!Unheld = {}
    BY <2>1, NoneUnheld
  <2>2. CASE Views!Unheld # {}
    <3>1. e \in Views!Unheld /\ \A w \in Views!Unheld : view[e].time <= view[w].time
      BY <2>2, EarliestIs DEF ViewsInv
    <3> HIDE DEF e
    <3>2. Views!Unheld \subseteq pool /\ 0 \notin pool /\ pool \ {reading} \subseteq Views!Unheld
      BY <1>1 DEF Views!Unheld, ViewsInv, ViewTypes, Views!View
    <3>3. e # reading
      BY <3>1 DEF Views!Unheld
    <3> QED BY <3>1, <3>2, <3>3
  <2> QED BY <2>1, <2>2
<1> HIDE DEF e
<1>3. /\ ViewTypes /\ TimesAreOld /\ ReaderIsApart
      /\ ViewsAreWhole /\ MapIsPublished /\ NewestIsKept
  BY DEF ViewsInv
<1>4. ViewTypes'
  <2>1. e \in 0 .. 3 /\ now + 1 \in Nat
    <3>1. e = 0 \/ e \in 1 .. 3
      BY <1>2, <1>3 DEF ViewTypes, Views!View
    <3>2. now \in Nat
      BY <1>3 DEF ViewTypes
    <3> QED BY <3>1, <3>2
  <2>2. writing' \in [view : 0 .. 3, time : Nat]
    BY <1>1, <2>1
  <2> QED BY <1>1, <1>3, <2>1, <2>2 DEF ViewTypes
<1>5. TimesAreOld' /\ ReaderIsApart'
  BY <1>1, <1>2, <1>3 DEF ViewTypes, TimesAreOld, ReaderIsApart
<1>6. ViewsAreWhole'
  <2>1. \A v \in Views!View : v # 0
    BY DEF Views!View
  <2>2. e # 0 => e \in Views!View
    BY <1>2, <1>3 DEF ViewTypes
  <2>3. layer # "Landmarks" => \A v \in Views!View : AllOf(view[v].items, view[v].time)
    BY <1>1, <1>3, <2>1 DEF ViewsAreWhole
  <2>4. writing'.view = e
    BY <1>1
  <2> QED BY <1>1, <1>3, <2>2, <2>3, <2>4 DEF ViewsAreWhole, AllOf
<1>7. MapIsPublished'
  BY <1>1, <1>3 DEF MapIsPublished
<1>8. NewestIsKept'
  <2> SUFFICES ASSUME NEW v \in pool \ {e}, \A w \in pool \ {e} : view[w].time <= view[v].time
      PROVE  view[v].time = 0 \/ seen.time <= view[v].time
    BY <1>1 DEF NewestIsKept
  <2>1. CASE v = reading
    BY <2>1, <1>3 DEF ReaderIsApart, ViewTypes, Views!View
  <2>2. CASE v # reading
    <3>1. \A w \in pool : w \in Views!View /\ view[w].time \in Nat
      BY <1>3 DEF ViewTypes
    <3>2. e \in pool => view[e].time <= view[v].time
      <4>1. v \in pool \ {reading} /\ 0 \notin pool
        BY <2>2, <3>1 DEF Views!View
      <4> QED BY <1>2, <4>1
    <3>3. \A w \in pool \ {writing.view} : view[w].time <= view[v].time
      BY <3>1, <3>2
    <3>4. v \in pool \ {writing.view}
      BY <1>1, <3>1 DEF Views!View
    <3> QED BY <3>3, <3>4, <1>3 DEF NewestIsKept
  <2> QED BY <2>1, <2>2
<1> QED BY <1>4, <1>5, <1>6, <1>7, <1>8 DEF ViewsInv

LEMMA WriteItemsViews == ASSUME ViewsInv, Views!WriteItems PROVE ViewsInv'
<1>1. PICK n \in 1 .. MaxItems :
        view' = [view EXCEPT ![writing.view].items =
                   Views!Cleared(writing.view) \o Views!Published(writing.time, n)]
  BY DEF Views!WriteItems
<1> DEFINE p == Views!Published(writing.time, n)
<1>2. PICK k \in Nat : /\ p = [i \in 1 .. k |-> <<writing.time, n, (i - 1) * Each(n)>>]
                       /\ Each(n) \in Nat
  <2>1. writing.time \in Nat /\ n \in Nat /\ n # 0
    BY DEF ViewsInv, ViewTypes
  <2> QED BY <2>1, PublishedIs
<1>3. writing.view # 0 /\ UNCHANGED <<layer, pool, writing, reading, seen, now>>
  BY DEF Views!WriteItems, Views!NoView
<1>4. /\ ViewTypes /\ TimesAreOld /\ ReaderIsApart
      /\ ViewsAreWhole /\ MapIsPublished /\ NewestIsKept
  BY DEF ViewsInv
<1>5. p \in Items /\ AllOf(p, writing.time)
  <2>1. \A i \in 1 .. k : <<writing.time, n, (i - 1) * Each(n)>> \in Nat \X Nat \X Nat
    <3>1. writing.time \in Nat /\ n \in Nat
      BY <1>4 DEF ViewTypes
    <3>2. \A i \in 1 .. k : (i - 1) * Each(n) \in Nat
      <4>1. \A j, e \in Nat : j * e \in Nat
        OBVIOUS
      <4>2. \A i \in 1 .. k : i - 1 \in Nat
        OBVIOUS
      <4> QED BY <1>2, <4>1, <4>2
    <3> QED BY <3>1, <3>2
  <2> HIDE DEF p
  <2>2. p \in [1 .. k -> Nat \X Nat \X Nat] /\ \A i \in 1 .. k : p[i][1] = writing.time
    BY <1>2, <2>1
  <2> QED BY <2>2 DEF Items, AllOf
<1>6. Views!Cleared(writing.view) \o p = p
  BY <1>5 DEF Views!Cleared, Items
<1>7. /\ view' = [view EXCEPT ![writing.view].items = p]
      /\ p = Views!Published(writing.time, n)
  BY <1>1, <1>6
<1> HIDE DEF p
<1>8. /\ view' \in [Views!View -> [time : Nat, items : Items]]
      /\ \A v \in Views!View : view'[v].time = view[v].time
      /\ \A v \in Views!View : v # writing.view => view'[v] = view[v]
      /\ view'[writing.view].items = p
      /\ writing.view \in Views!View
  BY <1>7, <1>4, <1>5, <1>3 DEF ViewTypes, Views!View
<1>9. ViewTypes'
  BY <1>3, <1>4, <1>8 DEF ViewTypes
<1>10. TimesAreOld' /\ ReaderIsApart'
  BY <1>3, <1>4, <1>8 DEF ViewTypes, TimesAreOld, ReaderIsApart
<1>11. ViewsAreWhole'
  BY <1>3, <1>4, <1>5, <1>8 DEF ViewTypes, ViewsAreWhole, AllOf, TimesAreOld
<1>12. MapIsPublished'
  <2>1. writing.time \in Nat
    BY <1>4 DEF ViewTypes
  <2>2. layer = "Map" => p = ForTheMap(writing.time, n)
    BY <1>7, ForTheMapIs
  <2> QED BY <1>3, <1>4, <1>8, <2>1, <2>2 DEF MapIsPublished
<1>13. NewestIsKept'
  BY <1>3, <1>4, <1>8 DEF NewestIsKept, ViewTypes
<1> QED BY <1>9, <1>10, <1>11, <1>12, <1>13 DEF ViewsInv

LEMMA FinishPublishViews == ASSUME ViewsInv, Views!FinishPublish PROVE ViewsInv'
<1>1. /\ writing.view # 0 /\ writing' = [view |-> 0, time |-> 0]
      /\ \E i \in DOMAIN view[writing.view].items : view[writing.view].items[i][1] = writing.time
      /\ view' = [view EXCEPT ![writing.view].time = writing.time]
      /\ UNCHANGED <<layer, pool, reading, seen, now>>
  BY DEF Views!FinishPublish, Views!NoView
<1>2. /\ ViewTypes /\ TimesAreOld /\ ReaderIsApart
      /\ ViewsAreWhole /\ MapIsPublished /\ NewestIsKept
  BY DEF ViewsInv
<1>3. /\ view' \in [Views!View -> [time : Nat, items : Items]]
      /\ \A v \in Views!View : view'[v].items = view[v].items
      /\ \A v \in Views!View : v # writing.view => view'[v] = view[v]
      /\ view'[writing.view].time = now /\ writing.time = now
      /\ writing.view \in Views!View /\ now \in Nat
  BY <1>1, <1>2 DEF ViewTypes, TimesAreOld, Views!View
<1>4. ViewTypes'
  BY <1>1, <1>2, <1>3 DEF ViewTypes
<1>5. TimesAreOld' /\ ReaderIsApart'
  BY <1>1, <1>2, <1>3 DEF ViewTypes, TimesAreOld, ReaderIsApart
<1>6. AllOf(view[writing.view].items, now) \/ layer = "Landmarks"
  BY <1>1, <1>2, <1>3 DEF ViewsAreWhole, AllOf
<1>7. ViewsAreWhole'
  BY <1>1, <1>2, <1>3, <1>6 DEF ViewTypes, ViewsAreWhole, AllOf
<1>8. MapIsPublished'
  BY <1>1, <1>2, <1>3 DEF MapIsPublished
<1>9. NewestIsKept'
  <2> SUFFICES ASSUME NEW v \in pool, v # 0, \A w \in pool \ {0} : view'[w].time <= view'[v].time
      PROVE  view'[v].time = 0 \/ seen.time <= view'[v].time
    BY <1>1 DEF NewestIsKept
  <2>1. CASE writing.view \in pool
    <3>1. now <= view'[v].time
      BY <1>1, <1>3, <2>1
    <3> QED BY <1>2, <1>3, <3>1 DEF TimesAreOld, ViewTypes
  <2>2. CASE writing.view \notin pool
    BY <1>1, <1>2, <1>3, <2>2 DEF NewestIsKept, ViewTypes, Views!View
  <2> QED BY <2>1, <2>2
<1> QED BY <1>4, <1>5, <1>7, <1>8, <1>9 DEF ViewsInv

LEMMA TrackFrameViews == ASSUME ViewsInv, Views!TrackFrame PROVE ViewsInv'
<1> DEFINE e == Views!Earliest
<1>1. layer = "Landmarks" /\ reading = 0 /\ now' = now + 1 /\ UNCHANGED <<layer, pool, writing, reading, seen>>
  BY DEF Views!TrackFrame, Views!NoView
<1>2. /\ ViewTypes /\ TimesAreOld /\ ReaderIsApart
      /\ ViewsAreWhole /\ MapIsPublished /\ NewestIsKept
  BY DEF ViewsInv
<1>3. writing.view = 0
  BY <1>1, <1>2 DEF TimesAreOld
<1>4. e # 0 => e \in pool /\ e \in Views!View
  <2>1. CASE Views!Unheld = {}
    BY <2>1, NoneUnheld
  <2>2. CASE Views!Unheld # {}
    <3>1. e \in Views!Unheld
      BY <1>2, <2>2, EarliestIs
    <3> HIDE DEF e
    <3> QED BY <1>2, <3>1 DEF Views!Unheld, ViewTypes
  <2> QED BY <2>1, <2>2
<1>5. \/ e = 0 /\ UNCHANGED view
      \/ /\ e # 0
         /\ \E items \in Items : view' = [view EXCEPT ![e] = [time |-> now + 1, items |-> items]]
  <2>1. CASE e = 0
    BY <2>1 DEF Views!TrackFrame, Views!NoView
  <2>2. CASE e # 0
    <3>1. PICK n \in 0 .. MaxItems :
            LET room == ViewCapacity - Len(view[e].items)
            IN view' = [view EXCEPT ![e] =
                 [time |-> now + 1, items |-> @.items \o SubSeq(Views!Published(now + 1, n), 1, Views!Min({room, n}))]]
      BY <2>2 DEF Views!TrackFrame, Views!NoView
    <3> DEFINE p == Views!Published(now + 1, n)
               m == Views!Min({ViewCapacity - Len(view[e].items), n})
               old == view[e].items
    <3>2. PICK k \in Nat : /\ p = [i \in 1 .. k |-> <<now + 1, n, (i - 1) * Each(n)>>]
                           /\ Each(n) \in Nat
                           /\ k = IF Chosen(n) <= ViewCapacity THEN Chosen(n) ELSE ViewCapacity
      <4>1. now + 1 \in Nat /\ n \in Nat /\ layer # "Map"
        BY <1>1, <1>2 DEF ViewTypes
      <4> DEFINE t == now + 1
      <4> HIDE DEF t
      <4>2. p = Views!Published(t, n)
        BY DEF t
      <4>3. t \in Nat
        BY <4>1 DEF t
      <4> HIDE DEF p
      <4>4. /\ Each(n) \in Nat
            /\ \E k \in Nat :
                 /\ k = IF Chosen(n) <= ViewCapacity THEN Chosen(n) ELSE ViewCapacity
                 /\ Views!Published(t, n) = [i \in 1 .. k |-> <<t, n, (i - 1) * Each(n)>>]
        BY <4>1, <4>3, PublishedIs
      <4> QED BY <4>2, <4>4 DEF t
    <3>3. Each(n) = 1 /\ Chosen(n) = n
      BY <1>1 DEF Each, Chosen
    <3>4. old \in Items /\ Len(old) \in Nat /\ view[e] \in [time : Nat, items : Items] /\ e \in Views!View
      BY <1>2, <1>4, <2>2 DEF ViewTypes, Items
    <3>5. m = IF ViewCapacity - Len(old) <= n THEN ViewCapacity - Len(old) ELSE n
      BY <3>4, ViewFacts, MinOfTwo
    <3>6. m \in Int /\ m <= k
      BY <3>2, <3>3, <3>4, <3>5, ViewFacts
    <3>7. p \in Items /\ Len(p) = k
      <4>1. \A i \in 1 .. k : <<now + 1, n, (i - 1) * Each(n)>> \in Nat \X Nat \X Nat
        <5>1. now + 1 \in Nat /\ n \in Nat
          BY <1>2 DEF ViewTypes
        <5>2. \A i \in 1 .. k : (i - 1) * Each(n) \in Nat
          BY <3>2
        <5> QED BY <5>1, <5>2
      <4> HIDE DEF p
      <4>2. p \in [1 .. k -> Nat \X Nat \X Nat]
        BY <3>2, <4>1
      <4> QED BY <4>2 DEF Items
    <3> HIDE DEF p, m
    <3>8. SubSeq(p, 1, m) \in Items
      BY <3>6, <3>7 DEF Items
    <3>9. old \o SubSeq(p, 1, m) \in Items
      BY <3>4, <3>8 DEF Items
    <3>10. view' = [view EXCEPT ![e] = [time |-> now + 1, items |-> old \o SubSeq(p, 1, m)]]
      BY <3>1 DEF p, m
    <3> QED BY <2>2, <3>9, <3>10
  <2> QED BY <2>1, <2>2
<1> HIDE DEF e
<1>6. /\ view' \in [Views!View -> [time : Nat, items : Items]]
      /\ \A v \in Views!View : v # e => view'[v] = view[v]
      /\ e # 0 => e \in pool /\ view'[e].time = now + 1
      /\ e = 0 => view' = view
      /\ now \in Nat
  <2>1. now \in Nat /\ now + 1 \in Nat /\ view \in [Views!View -> [time : Nat, items : Items]]
    BY <1>2 DEF ViewTypes
  <2>2. CASE e = 0
    BY <1>5, <2>1, <2>2
  <2>3. CASE e # 0
    <3>1. PICK items \in Items : view' = [view EXCEPT ![e] = [time |-> now + 1, items |-> items]]
      BY <1>5, <2>3
    <3>2. [time |-> now + 1, items |-> items] \in [time : Nat, items : Items]
      BY <2>1
    <3> QED BY <1>4, <2>1, <2>3, <3>1, <3>2
  <2> QED BY <2>2, <2>3
<1>7. ViewTypes'
  BY <1>1, <1>2, <1>6 DEF ViewTypes
<1>8. TimesAreOld'
  <2>1. \A v \in Views!View : view'[v].time <= now + 1
    BY <1>2, <1>6, <1>4 DEF ViewTypes, TimesAreOld, Views!View
  <2> QED BY <1>1, <1>2, <1>3, <2>1 DEF ViewTypes, TimesAreOld
<1>9. ReaderIsApart' /\ ViewsAreWhole' /\ MapIsPublished'
  BY <1>1 DEF ReaderIsApart, ViewsAreWhole, MapIsPublished
<1>10. NewestIsKept'
  <2> SUFFICES ASSUME NEW v \in pool, v # 0, \A w \in pool \ {0} : view'[w].time <= view'[v].time
      PROVE  view'[v].time = 0 \/ seen.time <= view'[v].time
    BY <1>1, <1>3 DEF NewestIsKept
  <2>1. CASE e # 0
    <3>1. now + 1 <= view'[v].time
      BY <1>6, <2>1
    <3> QED BY <1>2, <1>6, <3>1 DEF TimesAreOld, ViewTypes
  <2>2. CASE e = 0
    BY <1>2, <1>3, <1>6, <2>2 DEF NewestIsKept, ViewTypes, Views!View
  <2> QED BY <2>1, <2>2
<1> QED BY <1>7, <1>8, <1>9, <1>10 DEF ViewsInv

LEMMA BeginReadViews == ASSUME ViewsInv, Views!BeginRead PROVE ViewsInv'
<1> DEFINE m == Views!Latest
<1>1. /\ reading = 0 /\ reading' = m /\ UNCHANGED <<layer, pool, view, writing, now>>
      /\ seen' = IF m = 0 THEN seen ELSE [seen EXCEPT !.time = view[m].time]
  BY DEF Views!BeginRead, Views!NoView
<1>2. /\ ViewTypes /\ TimesAreOld /\ ReaderIsApart
      /\ ViewsAreWhole /\ MapIsPublished /\ NewestIsKept
  BY DEF ViewsInv
<1>3. m = 0 \/ /\ m \in pool /\ m # 0 /\ m # writing.view
               /\ \A w \in pool \ {writing.view} : w # 0 => view[w].time <= view[m].time
  BY <1>1, <1>2, LatestIs, NoneUnheld DEF ViewTypes, Views!Unheld, Views!View
<1> HIDE DEF m
<1>4. m # 0 => seen' \in [time : Nat, items : Items] /\ seen'.time = view[m].time
  BY <1>1, <1>2, <1>3 DEF ViewTypes
<1>5. ViewTypes'
  BY <1>1, <1>2, <1>3, <1>4 DEF ViewTypes, Views!View
<1>6. TimesAreOld' /\ ReaderIsApart'
  BY <1>1, <1>2, <1>3, <1>4 DEF ViewTypes, TimesAreOld, ReaderIsApart
<1>7. ViewsAreWhole' /\ MapIsPublished'
  BY <1>1, <1>2, <1>3, <1>4 DEF ViewTypes, ViewsAreWhole, AllOf, MapIsPublished
<1>8. NewestIsKept'
  BY <1>1, <1>2, <1>3, <1>4 DEF NewestIsKept, ViewTypes, Views!View
<1> QED BY <1>5, <1>6, <1>7, <1>8 DEF ViewsInv

LEMMA FinishReadViews == ASSUME ViewsInv, Views!FinishRead PROVE ViewsInv'
<1>1. /\ reading # 0 /\ reading' = 0 /\ UNCHANGED <<layer, pool, view, writing, now>>
      /\ seen' = [seen EXCEPT !.items = view[reading].items]
  BY DEF Views!FinishRead, Views!NoView
<1>2. /\ ViewTypes /\ TimesAreOld /\ ReaderIsApart
      /\ ViewsAreWhole /\ MapIsPublished /\ NewestIsKept
  BY DEF ViewsInv
<1>3. /\ seen' \in [time : Nat, items : Items] /\ seen'.time = seen.time
      /\ seen'.items = view[reading].items /\ seen.time = view[reading].time /\ reading # writing.view
      /\ reading \in Views!View
  BY <1>1, <1>2 DEF ViewTypes, ReaderIsApart, Views!View
<1>4. ViewTypes' /\ TimesAreOld' /\ ReaderIsApart'
  BY <1>1, <1>2, <1>3 DEF ViewTypes, TimesAreOld, ReaderIsApart
<1>5. ViewsAreWhole' /\ MapIsPublished'
  BY <1>1, <1>2, <1>3 DEF ViewTypes, ViewsAreWhole, AllOf, MapIsPublished
<1>6. NewestIsKept'
  BY <1>1, <1>2, <1>3 DEF NewestIsKept
<1> QED BY <1>4, <1>5, <1>6 DEF ViewsInv

LEMMA ViewsStep == ASSUME ViewsInv, Views!Next PROVE ViewsInv'
BY EnableViews, DisableViews, BeginPublishViews, WriteItemsViews, FinishPublishViews, TrackFrameViews,
  BeginReadViews, FinishReadViews DEF Views!Next

LEMMA ViewsStay == ASSUME ViewsInv, UNCHANGED views PROVE ViewsInv'
BY DEF views, ViewsInv, ViewTypes, TimesAreOld, ReaderIsApart, ViewsAreWhole, AllOf, MapIsPublished,
  NewestIsKept

LEMMA NeverBackStep == ASSUME ViewsInv, Views!Next \/ UNCHANGED views PROVE Views!NeverBack
<1> DEFINE m == Views!Latest
<1>1. CASE Views!BeginRead
  <2>1. /\ reading = 0
        /\ seen' = IF m = 0 THEN seen ELSE [seen EXCEPT !.time = view[m].time]
    BY <1>1 DEF Views!BeginRead, Views!NoView
  <2>2. m = 0 \/ /\ m \in pool /\ m # 0 /\ m # writing.view
                 /\ \A w \in pool \ {writing.view} : w # 0 => view[w].time <= view[m].time
    BY <2>1, LatestIs, NoneUnheld DEF ViewsInv, ViewTypes, Views!Unheld, Views!View
  <2> HIDE DEF m
  <2> QED BY <2>1, <2>2 DEF ViewsInv, ViewTypes, NewestIsKept, Views!NeverBack, Views!View
<1>2. CASE ~ Views!BeginRead
  <2>1. seen'.time = seen.time /\ seen.time \in Nat
    BY <1>2 DEF ViewsInv, ViewTypes, Views!Next, Views!Enable, Views!Disable, Views!BeginPublish,
      Views!WriteItems, Views!FinishPublish, Views!TrackFrame, Views!FinishRead, views
  <2> QED BY <2>1 DEF Views!NeverBack
<1> QED BY <1>1, <1>2

LEMMA ViewsAreRight == ASSUME ViewsInv PROVE Views!OnePublication /\ Views!UsesTheView
<1>1. Views!OnePublication
  BY DEF ViewsInv, ViewsAreWhole, AllOf, Views!OnePublication, Views!Whole, Views!NoView
<1>2. ASSUME layer = "Map", NEW v \in Views!View, view[v].items # <<>>
      PROVE  LET items == view[v].items
                 all == items[1][2]
                 place(i) == IF i > Len(items) THEN all ELSE items[i][3]
                 gap == place(2) - place(1)
             IN /\ Len(items) <= ViewCapacity /\ 2 * Len(items) >= Views!Min({ViewCapacity, 2 * all})
                /\ \A i \in 2 .. Len(items) - 1 : place(i + 1) - place(i) = gap
                /\ Len(items) > 1 => all - place(Len(items)) <= gap
  <2>1. PICK t \in Nat, n \in 1 .. MaxItems : view[v].items = Views!Published(t, n)
    BY <1>2, ForTheMapIs DEF ViewsInv, MapIsPublished
  <2> DEFINE e == Each(n)
             c == Chosen(n)
  <2>2. PICK k \in Nat :
          /\ view[v].items = [i \in 1 .. k |-> <<t, n, (i - 1) * e>>]
          /\ k = IF c <= ViewCapacity THEN c ELSE ViewCapacity
          /\ e \in Nat \ {0} /\ c \in Nat /\ c * e >= n /\ (c - 1) * e < n
    <3>1. n \in Nat /\ n # 0
      OBVIOUS
    <3> QED BY <2>1, <3>1, PublishedIs
  <2>3. e * ViewCapacity >= n /\ (e = 1 \/ \E h \in 1 .. e : e = 2 * h /\ h * ViewCapacity < n)
    BY <1>2, EachDivFits, ViewFacts DEF Each
  <2> HIDE DEF e, c
  <2> DEFINE items == view[v].items
  <2>4. Len(items) = k /\ k # 0
    <3>1. k = 0 => items = <<>>
      BY <2>2
    <3> HIDE DEF items
    <3>2. DOMAIN items = 1 .. k
      BY <2>2 DEF items
    <3>3. items \in Seq(Nat \X Nat \X Nat)
      BY DEF items, ViewsInv, ViewTypes, Items
    <3> QED BY <3>1, <3>2, <3>3, <1>2 DEF items
  <2>5. \A i \in 1 .. k : items[i] = <<t, n, (i - 1) * e>>
    BY <2>2
  <2>6. \A i \in 1 .. k : items[i][2] = n /\ items[i][3] = (i - 1) * e
    BY <2>5
  <2>7. k = c /\ c <= ViewCapacity
    <3>1. CASE c > ViewCapacity
      <4>1. c - 1 >= ViewCapacity /\ c - 1 \in Nat /\ e \in Nat
        BY <3>1, <2>2, ViewFacts
      <4> DEFINE x == (c - 1) * e
                 y == e * ViewCapacity
      <4>2. x >= y /\ x \in Int /\ y \in Int
        BY <4>1, ViewFacts
      <4>3. x < n /\ y >= n
        BY <2>2, <2>3
      <4> HIDE DEF x, y
      <4> QED BY <4>2, <4>3
    <3> QED BY <3>1, <2>2, ViewFacts
  <2>8. 2 * k >= ViewCapacity \/ 2 * k >= 2 * n
    <3>1. CASE e = 1
      BY <3>1, <2>2, <2>7
    <3>2. CASE e # 1
      <4>1. PICK h \in 1 .. e : e = 2 * h /\ h * ViewCapacity < n
        BY <2>3, <3>2
      <4>2. c * (2 * h) = h * (2 * c) /\ c * (2 * h) >= n
        BY <4>1, <2>2
      <4>3. h * ViewCapacity < h * (2 * c)
        <5> DEFINE x == h * ViewCapacity
                   y == h * (2 * c)
        <5>1. x \in Int /\ y \in Int
          BY <2>2, ViewFacts
        <5>2. x < n /\ y >= n
          BY <4>1, <4>2
        <5> HIDE DEF x, y
        <5>3. x < y
          BY <5>1, <5>2
        <5> QED BY <5>3 DEF x, y
      <4>4. ViewCapacity < 2 * c
        <5>1. ViewCapacity >= 2 * c => h * ViewCapacity >= h * (2 * c)
          BY <4>1, <2>2, ViewFacts
        <5> QED BY <4>3, <5>1, <2>2, <4>1, ViewFacts
      <4> QED BY <4>4, <2>2, <2>7, ViewFacts
    <3> QED BY <3>1, <3>2
  <2> DEFINE all == items[1][2]
             place(i) == IF i > Len(items) THEN all ELSE items[i][3]
             gap == place(2) - place(1)
  <2>9. all = n
    BY <2>4, <2>6
  <2>10. \A i \in 1 .. k : place(i) = (i - 1) * e
    BY <2>4, <2>6
  <2>11. Views!Min({ViewCapacity, 2 * all}) = IF ViewCapacity <= 2 * n THEN ViewCapacity ELSE 2 * n
    BY <2>9, MinOfTwo, ViewFacts
  <2> HIDE DEF items
  <2>12. Len(items) <= ViewCapacity /\ 2 * Len(items) >= Views!Min({ViewCapacity, 2 * all})
    BY <2>4, <2>7, <2>8, <2>11, ViewFacts
  <2> HIDE DEF all, place
  <2>13. k > 1 => gap = e
    <3>1. place(1) = 0 /\ (k > 1 => place(2) = (2 - 1) * e)
      BY <2>10, <2>4, <2>2
    <3> QED BY <3>1, <2>2
  <2>14. ASSUME NEW i \in 2 .. Len(items) - 1 PROVE place(i + 1) - place(i) = gap
    <3>1. place(i) = (i - 1) * e /\ place(i + 1) = i * e /\ k > 1
      <4>1. i \in 1 .. k /\ i + 1 \in 1 .. k /\ (i + 1) - 1 = i /\ k > 1
        BY <2>4
      <4> QED BY <4>1, <2>10
    <3>2. i * e - (i - 1) * e = e
      BY <2>2
    <3> QED BY <3>1, <3>2, <2>13
  <2>15. Len(items) > 1 => all - place(Len(items)) <= gap
    <3>1. place(k) = (k - 1) * e
      BY <2>10, <2>4
    <3>2. c * e - (c - 1) * e = e
      BY <2>2
    <3>3. n - (c - 1) * e <= e
      <4> DEFINE x == c * e
                 y == (c - 1) * e
      <4>1. x \in Int /\ y \in Int
        BY <2>2
      <4> HIDE DEF x, y
      <4>2. x - y = e /\ x >= n
        BY <3>2, <2>2 DEF x, y
      <4>3. n - y <= e
        BY <4>1, <4>2, <2>2
      <4> QED BY <4>3 DEF y
    <3> QED BY <3>1, <3>3, <2>4, <2>7, <2>9, <2>13
  <2> QED BY <2>12, <2>14, <2>15 DEF all, place, items
<1> QED BY <1>1, <1>2 DEF Views!UsesTheView

-----------------------------------------------------------------------------
(* The landmark index                                                      *)

LandmarksInv ==
  /\ Landmarks!TypeOK /\ next \in Nat
  /\ dead \cap DOMAIN staged = {}
  /\ \A l \in DOMAIN staged : staged[l].cells = {} /\ staged[l].inMemory = TRUE
  /\ Landmarks!Findable /\ Landmarks!FirstCellLists
  /\ attached => cachePath
  /\ Landmarks!DescriptorsReadable /\ Landmarks!SavedIsComplete

LEMMA LandmarkFacts ==
  Cell \subseteq Nat /\ MaxInCell \in Nat /\ CacheChoices \subseteq BOOLEAN /\ MaxLandmarkId \in Nat
BY MapPartsAssumption

LEMMA LandmarksCardinality == \A S : Landmarks!Cardinality(S) = Cardinality(S)
BY DEF Landmarks!Cardinality, Cardinality

LEMMA LandmarksFinite ==
  \A S \in SUBSET Landmarks!LandmarkId : IsFiniteSet(S) /\ Cardinality(S) \in Nat
<1>1. 0 \in Int /\ MaxLandmarkId - 1 \in Int
  BY LandmarkFacts
<1>2. IsFiniteSet(0 .. MaxLandmarkId - 1)
  BY <1>1, FS_Interval
<1>3. IsFiniteSet(Landmarks!LandmarkId)
  BY <1>2 DEF Landmarks!LandmarkId
<1> QED BY <1>3, FS_Subset, FS_CardinalityType

First(c, cells) == \A d \in cells : c <= d

\* What reducing cells keeps of a landmark that does not die of it.
LEMMA ReducedIs ==
  ASSUME NEW act, NEW cel, NEW changed \in SUBSET Cell,
         NEW red \in Landmarks!Reductions(act, cel, changed),
         \A l \in DOMAIN act : act[l] \in Landmarks!Landmark,
         cel \in [Cell -> SUBSET Landmarks!LandmarkId]
  PROVE  /\ DOMAIN red.active = DOMAIN act
         /\ \A l \in DOMAIN act :
              /\ red.active[l] \in Landmarks!Landmark
              /\ red.active[l].seen = act[l].seen /\ red.active[l].inMemory = act[l].inMemory
         /\ red.cell \in [Cell -> SUBSET Landmarks!LandmarkId]
         /\ \A c \in Cell : red.cell[c] \subseteq cel[c]
         /\ red.dead \subseteq DOMAIN act
         /\ \A l \in red.dead : \E c \in Cell : MaxInCell # 0 /\ Cardinality(cel[c]) > MaxInCell
         /\ \A l \in DOMAIN act \ red.dead :
              /\ \A c \in act[l].cells : First(c, act[l].cells) /\ l \in cel[c] => l \in red.cell[c]
              /\ \A c \in red.active[l].cells :
                   c \in act[l].cells /\ (First(c, red.active[l].cells) => First(c, act[l].cells))
              /\ /\ \A c \in act[l].cells : First(c, act[l].cells) => l \in cel[c]
                 /\ \E c \in Cell : l \in cel[c]
                 => \E c \in Cell : l \in red.cell[c]
<1>1. PICK keep \in [changed -> SUBSET Landmarks!LandmarkId] :
        /\ \A c \in changed : keep[c] \in Landmarks!Kept(act, cel[c])
        /\ red = Landmarks!Reduced(act, cel, keep)
  BY DEF Landmarks!Reductions
<1> DEFINE dropped(l) == Landmarks!DroppedFrom(cel, keep, l)
           after(l) == Landmarks!CellsAfter(act[l].cells, dropped(l))
<1>2. /\ red.active = [l \in DOMAIN act |-> [act[l] EXCEPT !.cells = after(l)]]
      /\ red.cell = [c \in Cell |-> IF c \in changed THEN keep[c] ELSE cel[c]]
      /\ red.dead = {l \in DOMAIN act : dropped(l) # {} /\ after(l) = {}}
  BY <1>1 DEF Landmarks!Reduced
<1>3. /\ \A l : dropped(l) = {c \in changed : l \in cel[c] \ keep[c]}
      /\ \A l \in DOMAIN act : after(l) = {d \in act[l].cells : \A c \in dropped(l) \cap act[l].cells : d < c}
  BY <1>1 DEF Landmarks!DroppedFrom, Landmarks!CellsAfter
<1> HIDE DEF dropped, after
<1>4. \A l \in DOMAIN act : act[l].cells \subseteq Cell /\ after(l) \subseteq act[l].cells
  BY <1>3 DEF Landmarks!Landmark
<1>5. \A l \in DOMAIN act :
        /\ red.active[l] \in Landmarks!Landmark
        /\ red.active[l].seen = act[l].seen /\ red.active[l].inMemory = act[l].inMemory
        /\ red.active[l].cells = after(l)
  BY <1>2, <1>4 DEF Landmarks!Landmark
<1>6. \A c \in changed : keep[c] \subseteq cel[c]
  BY <1>1 DEF Landmarks!Kept
<1>7. /\ red.cell \in [Cell -> SUBSET Landmarks!LandmarkId]
      /\ \A c \in Cell : red.cell[c] \subseteq cel[c]
  BY <1>1, <1>2, <1>6
<1>8. ASSUME NEW l \in red.dead PROVE \E c \in Cell : MaxInCell # 0 /\ Cardinality(cel[c]) > MaxInCell
  <2>1. PICK c \in changed : l \in cel[c] \ keep[c]
    BY <1>2, <1>3
  <2>2. MaxInCell # 0 /\ ~ (Cardinality(cel[c]) <= MaxInCell)
    BY <1>1, <2>1, LandmarksCardinality DEF Landmarks!Kept
  <2>3. Cardinality(cel[c]) \in Nat
    <3>1. cel[c] \subseteq Landmarks!LandmarkId
      OBVIOUS
    <3> QED BY <3>1, LandmarksFinite
  <2> QED BY <2>1, <2>2, <2>3, LandmarkFacts
<1>9. ASSUME NEW l \in DOMAIN act \ red.dead
      PROVE  /\ \A c \in act[l].cells : First(c, act[l].cells) /\ l \in cel[c] => l \in red.cell[c]
             /\ \A c \in after(l) :
                  c \in act[l].cells /\ (First(c, after(l)) => First(c, act[l].cells))
             /\ /\ \A c \in act[l].cells : First(c, act[l].cells) => l \in cel[c]
                /\ \E c \in Cell : l \in cel[c]
                => \E c \in Cell : l \in red.cell[c]
  <2> DEFINE cells == act[l].cells
             out == dropped(l)
             rest == after(l)
  <2>1. /\ rest = {d \in cells : \A c \in out \cap cells : d < c}
        /\ out = {} \/ rest # {}
        /\ out = {c \in changed : l \in cel[c] \ keep[c]}
        /\ cells \subseteq Cell /\ cells \subseteq Nat
    BY <1>2, <1>3, <1>4, LandmarkFacts
  <2> HIDE DEF cells, out, rest
  <2>2. ASSUME NEW c \in cells, First(c, cells) PROVE c \notin out
    <3>1. SUFFICES ASSUME c \in out PROVE FALSE
      OBVIOUS
    <3>2. PICK d \in rest : TRUE
      BY <2>1, <3>1
    <3>3. d < c /\ d \in cells
      BY <2>1, <3>1
    <3> QED BY <2>1, <2>2, <3>3 DEF First
  <2>3. ASSUME NEW c \in Cell, c \notin out, l \in cel[c] PROVE l \in red.cell[c]
    BY <1>2, <2>1, <2>3
  <2>4. ASSUME NEW c \in cells, First(c, cells) PROVE c \in rest
    <3>1. \A d \in out \cap cells : c < d
      BY <2>1, <2>2, <2>4 DEF First
    <3> QED BY <2>1, <3>1
  <2>5. ASSUME cells # {} PROVE \E c \in cells : First(c, cells)
    BY <2>1, <2>5, LeastElement DEF First
  <2>6. ASSUME NEW c \in rest, First(c, rest) PROVE First(c, cells)
    <3>1. PICK f \in cells : First(f, cells)
      BY <2>1, <2>5
    <3>2. c = f
      <4>1. f \in rest /\ c \in cells
        BY <3>1, <2>4, <2>1
      <4>2. c <= f /\ f <= c /\ c \in Nat /\ f \in Nat
        BY <4>1, <2>1, <2>6, <3>1 DEF First
      <4> QED BY <4>2
    <3> QED BY <3>1, <3>2
  <2>7. ASSUME \A c \in cells : First(c, cells) => l \in cel[c], NEW b \in Cell, l \in cel[b]
        PROVE  \E c \in Cell : l \in red.cell[c]
    <3>1. CASE out = {}
      BY <3>1, <2>3, <2>7
    <3>2. CASE out # {}
      <4>1. PICK f \in cells : First(f, cells)
        BY <2>1, <2>5, <3>2
      <4> QED BY <4>1, <2>1, <2>2, <2>3, <2>7
    <3> QED BY <3>1, <3>2
  <2>8. \A c \in cells : First(c, cells) /\ l \in cel[c] => l \in red.cell[c]
    BY <2>1, <2>2, <2>3
  <2>9. \A c \in rest : c \in cells /\ (First(c, rest) => First(c, cells))
    BY <2>1, <2>6
  <2> QED BY <2>7, <2>8, <2>9 DEF cells, rest
<1>10. DOMAIN red.active = DOMAIN act /\ red.dead \subseteq DOMAIN act
  BY <1>2
<1> QED BY <1>5, <1>7, <1>8, <1>9, <1>10

LEMMA JoinedIs ==
  ASSUME NEW f, NEW g
  PROVE  /\ DOMAIN Landmarks!Joined(f, g) = DOMAIN f \cup DOMAIN g
         /\ \A l \in DOMAIN f \ DOMAIN g : Landmarks!Joined(f, g)[l] = f[l]
         /\ \A l \in DOMAIN g : Landmarks!Joined(f, g)[l] = g[l]
BY DEF Landmarks!Joined

LEMMA WithoutIs ==
  ASSUME NEW f, NEW S
  PROVE  /\ DOMAIN Landmarks!Without(f, S) = DOMAIN f \ S
         /\ \A l \in DOMAIN f \ S : Landmarks!Without(f, S)[l] = f[l]
BY DEF Landmarks!Without

\* The landmarks act and the cells cel when those of S left the view for the cells
\* place says, before any cell is reduced.
Placement(S, place, act, cel) ==
  /\ DOMAIN place = {l \in S : staged[l].seen # {}}
  /\ DOMAIN act = DOMAIN active \cup DOMAIN place /\ DOMAIN active \cap DOMAIN place = {}
  /\ \A l \in DOMAIN act : act[l] \in Landmarks!Landmark
  /\ \A l \in DOMAIN active : act[l] = active[l]
  /\ \A l \in DOMAIN place :
       /\ act[l].cells = place[l] /\ place[l] # {} /\ place[l] \subseteq Cell
       /\ act[l].seen = staged[l].seen /\ act[l].inMemory = ~attached
  /\ cel \in [Cell -> SUBSET Landmarks!LandmarkId]
  /\ \A c \in Cell : cel[c] = cell[c] \cup {l \in DOMAIN place : c \in place[l]}
  /\ Landmarks!Changed(place) \in SUBSET Cell
  /\ \A l \in DOMAIN act \ dead :
       /\ \A c \in act[l].cells : First(c, act[l].cells) => l \in cel[c]
       /\ act[l].seen # {} => \E c \in Cell : l \in cel[c]

LEMMA ActivatedIs ==
  ASSUME LandmarksInv, NEW S \in SUBSET DOMAIN staged,
         NEW place \in [Landmarks!Related(S) -> SUBSET Cell],
         \A l \in DOMAIN place : place[l] \in Landmarks!CellsOf(staged[l].seen),
         NEW act, act = Landmarks!Joined(active, Landmarks!Activated(S, place)),
         NEW cel, cel = Landmarks!Placed(cell, place)
  PROVE  Placement(S, place, act, cel)
<1>1. Landmarks!TypeOK
  BY DEF LandmarksInv
<1>2. DOMAIN place = {l \in S : staged[l].seen # {}}
  BY DEF Landmarks!Related
<1> DEFINE new == Landmarks!Activated(S, place)
<1>3. /\ DOMAIN new = DOMAIN place
      /\ \A l \in DOMAIN place : new[l] = [staged[l] EXCEPT !.cells = place[l], !.inMemory = ~attached]
  BY DEF Landmarks!Activated
<1> HIDE DEF new
<1>4. /\ DOMAIN act = DOMAIN active \cup DOMAIN place
      /\ \A l \in DOMAIN active \ DOMAIN place : act[l] = active[l]
      /\ \A l \in DOMAIN place : act[l] = [staged[l] EXCEPT !.cells = place[l], !.inMemory = ~attached]
  <2>1. act = Landmarks!Joined(active, new)
    BY DEF new
  <2>2. /\ DOMAIN act = DOMAIN active \cup DOMAIN new
        /\ \A l \in DOMAIN active \ DOMAIN new : act[l] = active[l]
        /\ \A l \in DOMAIN new : act[l] = new[l]
    BY <2>1, Zenon DEF Landmarks!Joined
  <2> QED BY <1>3, <2>2
<1>5. /\ DOMAIN active \cap DOMAIN place = {} /\ \A l \in DOMAIN place : l \in DOMAIN staged
      /\ \A l \in DOMAIN staged : staged[l] \in Landmarks!Landmark /\ l \in Landmarks!LandmarkId
      /\ \A l \in DOMAIN active : active[l] \in Landmarks!Landmark
      /\ cell \in [Cell -> SUBSET Landmarks!LandmarkId] /\ attached \in BOOLEAN
  <2>1. 0 .. next - 1 \subseteq Landmarks!LandmarkId
    BY <1>1, LandmarkFacts DEF LandmarksInv, Landmarks!TypeOK, Landmarks!LandmarkId
  <2> QED BY <1>1, <1>2, <2>1 DEF Landmarks!TypeOK
<1>6. \A l \in DOMAIN place : place[l] # {} /\ place[l] \subseteq Cell
  BY DEF Landmarks!CellsOf
<1>7. \A l \in DOMAIN place :
        /\ act[l] \in Landmarks!Landmark /\ act[l].cells = place[l]
        /\ act[l].seen = staged[l].seen /\ act[l].inMemory = ~attached
  <2> SUFFICES ASSUME NEW l \in DOMAIN place
      PROVE  /\ act[l] \in Landmarks!Landmark /\ act[l].cells = place[l]
             /\ act[l].seen = staged[l].seen /\ act[l].inMemory = ~attached
    OBVIOUS
  <2>1. staged[l] \in [seen : SUBSET KeyFrame, cells : SUBSET Cell, inMemory : BOOLEAN, poor : BOOLEAN]
    BY <1>5 DEF Landmarks!Landmark
  <2>2. act[l] = [staged[l] EXCEPT !.cells = place[l], !.inMemory = ~attached]
    BY <1>4
  <2>3. place[l] \in SUBSET Cell /\ (~attached) \in BOOLEAN
    BY <1>6
  <2> DEFINE m == staged[l]
             out == ~attached
  <2> HIDE DEF m, out
  <2>4. act[l] \in [seen : SUBSET KeyFrame, cells : SUBSET Cell, inMemory : BOOLEAN, poor : BOOLEAN]
    BY <2>1, <2>2, <2>3 DEF m, out
  <2>5. act[l].cells = place[l] /\ act[l].seen = staged[l].seen /\ act[l].inMemory = ~attached
    BY <2>1, <2>2
  <2> QED BY <2>4, <2>5 DEF Landmarks!Landmark
<1>8. /\ cel \in [Cell -> SUBSET Landmarks!LandmarkId]
      /\ \A c \in Cell : cel[c] = cell[c] \cup {l \in DOMAIN place : c \in place[l]}
  BY <1>5 DEF Landmarks!Placed
<1>9. Landmarks!Changed(place) \in SUBSET Cell
  BY <1>6 DEF Landmarks!Changed
<1>10. ASSUME NEW l \in DOMAIN act \ dead
       PROVE  /\ \A c \in act[l].cells : First(c, act[l].cells) => l \in cel[c]
              /\ act[l].seen # {} => \E c \in Cell : l \in cel[c]
  <2>1. CASE l \in DOMAIN place
    BY <2>1, <1>6, <1>7, <1>8
  <2>2. CASE l \in DOMAIN active
    <3>1. act[l] = active[l] /\ act[l].cells \subseteq Cell
      BY <2>2, <1>4, <1>5 DEF Landmarks!Landmark
    <3>2. /\ \A c \in act[l].cells : First(c, act[l].cells) => l \in cell[c]
          /\ act[l].seen # {} => \E c \in Cell : l \in cell[c]
      BY <2>2, <3>1 DEF LandmarksInv, Landmarks!Findable, Landmarks!FirstCellLists, First
    <3> QED BY <3>1, <3>2, <1>8
  <2> QED BY <2>1, <2>2, <1>4
<1> QED BY <1>2, <1>4, <1>5, <1>6, <1>7, <1>8, <1>9, <1>10 DEF Placement
LEMMA LandmarksInit == Landmarks!Init => LandmarksInv
<1> SUFFICES ASSUME Landmarks!Init PROVE LandmarksInv
  OBVIOUS
<1>1. /\ DOMAIN staged = {} /\ DOMAIN active = {} /\ dead = {} /\ next = 0 /\ cached = {}
      /\ cell \in [Cell -> SUBSET Landmarks!LandmarkId]
      /\ cachePath \in BOOLEAN /\ attached = cachePath
      /\ stored.found = {} /\ stored.described = {}
  BY LandmarkFacts DEF Landmarks!Init, Landmarks!Empty
<1> QED
  BY <1>1, LandmarkFacts DEF LandmarksInv, Landmarks!TypeOK, Landmarks!Findable, Landmarks!FirstCellLists,
    Landmarks!DescriptorsReadable, Landmarks!SavedIsComplete

\* What AddKeyframe makes of the index when S leaves the view: of act, the
\* landmarks before their cells are reduced to red.
KeyframeStep(S, P, act, red) ==
  /\ S \subseteq DOMAIN staged /\ P \subseteq S
  /\ P = {l \in S : staged[l].seen # {}}
  /\ DOMAIN act = DOMAIN active \cup P
  /\ cached' = IF attached THEN cached \cup P ELSE cached
  /\ \A l \in DOMAIN active : act[l] = active[l]
  /\ \A l \in P : act[l].inMemory = ~attached
  /\ DOMAIN active' = DOMAIN act \ (dead \cup red.dead)
  /\ red.dead \subseteq DOMAIN act
  /\ \A l \in DOMAIN active' :
       /\ active'[l] \in Landmarks!Landmark /\ active'[l].inMemory = act[l].inMemory
       /\ \A c \in active'[l].cells : First(c, active'[l].cells) => l \in cell'[c]
       /\ active'[l].seen # {} => \E c \in Cell : l \in cell'[c]
  /\ cell' \in [Cell -> SUBSET Landmarks!LandmarkId]
  /\ dead' = {}
  /\ \A l \in red.dead :
       MaxInCell # 0 /\ \E c \in Cell : Cardinality(cell[c] \cup P) > MaxInCell
  /\ UNCHANGED <<cachePath, attached, stored>>
  /\ \/ /\ DOMAIN staged' = DOMAIN staged \ S /\ next' = next
        /\ \A l \in DOMAIN staged' : staged'[l] = staged[l]
     \/ /\ DOMAIN staged' = (DOMAIN staged \ S) \cup {next}
        /\ next < MaxLandmarkId /\ next' = next + 1
        /\ \A l \in DOMAIN staged \ S : l # next => staged'[l] = staged[l]
        /\ staged'[next] \in Landmarks!Landmark
        /\ staged'[next].cells = {} /\ staged'[next].inMemory = TRUE

LEMMA AddKeyframeIs ==
  ASSUME LandmarksInv, Landmarks!AddKeyframe
  PROVE  \E S, P, act, red : KeyframeStep(S, P, act, red)
<1>1. PICK S \in SUBSET DOMAIN staged : \E place \in [Landmarks!Related(S) -> SUBSET Cell] :
       /\ \A l \in DOMAIN place : place[l] \in Landmarks!CellsOf(staged[l].seen)
       /\ cached' = IF attached THEN cached \cup DOMAIN place ELSE cached
       /\ \E reduced \in Landmarks!Reductions(Landmarks!Joined(active, Landmarks!Activated(S, place)),
            Landmarks!Placed(cell, place), Landmarks!Changed(place)) :
            LET left == Landmarks!Removed(reduced.active, reduced.cell, dead \cup reduced.dead)
            IN active' = left.active /\ cell' = left.cell
       /\ dead' = {}
       /\ \/ staged' = Landmarks!Waiting(S) /\ next' = next
          \/ /\ next < MaxLandmarkId /\ next' = next + 1
             /\ \E seen_1 \in SUBSET KeyFrame :
                  staged' = Landmarks!Joined(Landmarks!Waiting(S),
                    [l \in {next} |-> [seen |-> seen_1, cells |-> {}, inMemory |-> TRUE, poor |-> FALSE]])
  BY DEF Landmarks!AddKeyframe
<1>2. PICK place \in [Landmarks!Related(S) -> SUBSET Cell] :
       /\ \A l \in DOMAIN place : place[l] \in Landmarks!CellsOf(staged[l].seen)
       /\ cached' = IF attached THEN cached \cup DOMAIN place ELSE cached
       /\ \E reduced \in Landmarks!Reductions(Landmarks!Joined(active, Landmarks!Activated(S, place)),
            Landmarks!Placed(cell, place), Landmarks!Changed(place)) :
            LET left == Landmarks!Removed(reduced.active, reduced.cell, dead \cup reduced.dead)
            IN active' = left.active /\ cell' = left.cell
  BY <1>1
<1> DEFINE act == Landmarks!Joined(active, Landmarks!Activated(S, place))
           cel == Landmarks!Placed(cell, place)
           P == DOMAIN place
<1>3. PICK red \in Landmarks!Reductions(act, cel, Landmarks!Changed(place)) :
            LET left == Landmarks!Removed(red.active, red.cell, dead \cup red.dead)
            IN active' = left.active /\ cell' = left.cell
  BY <1>2
<1> DEFINE gone == dead \cup red.dead
<1>4. /\ active' = Landmarks!Without(red.active, gone)
      /\ cell' = [c \in Cell |-> red.cell[c] \ {l \in gone \cap DOMAIN red.active : c \in red.active[l].cells}]
  BY <1>3 DEF Landmarks!Removed
<1> HIDE DEF act, cel, P
<1>5. /\ P = {l \in S : staged[l].seen # {}}
      /\ DOMAIN act = DOMAIN active \cup P /\ DOMAIN active \cap P = {}
      /\ \A l \in DOMAIN act : act[l] \in Landmarks!Landmark
      /\ \A l \in DOMAIN active : act[l] = active[l]
      /\ \A l \in P :
              /\ act[l].cells = place[l] /\ place[l] # {} /\ place[l] \subseteq Cell
              /\ act[l].seen = staged[l].seen /\ act[l].inMemory = ~attached
      /\ cel \in [Cell -> SUBSET Landmarks!LandmarkId]
      /\ \A c \in Cell : cel[c] = cell[c] \cup {l \in P : c \in place[l]}
      /\ Landmarks!Changed(place) \in SUBSET Cell
      /\ \A l \in DOMAIN act \ dead :
              /\ \A c \in act[l].cells : First(c, act[l].cells) => l \in cel[c]
              /\ act[l].seen # {} => \E c \in Cell : l \in cel[c]
  <2>1. /\ act = Landmarks!Joined(active, Landmarks!Activated(S, place))
        /\ cel = Landmarks!Placed(cell, place)
    BY DEF act, cel
  <2>2. Placement(S, place, act, cel)
    BY <1>2, <2>1, ActivatedIs
  <2> QED BY <2>2 DEF P, Placement
<1>6. /\ DOMAIN red.active = DOMAIN act
      /\ \A l \in DOMAIN act :
           /\ red.active[l] \in Landmarks!Landmark
           /\ red.active[l].seen = act[l].seen /\ red.active[l].inMemory = act[l].inMemory
      /\ red.cell \in [Cell -> SUBSET Landmarks!LandmarkId]
      /\ red.dead \subseteq DOMAIN act
      /\ \A l \in red.dead : \E c \in Cell : MaxInCell # 0 /\ Cardinality(cel[c]) > MaxInCell
      /\ \A l \in DOMAIN act \ red.dead :
           /\ \A c \in act[l].cells : First(c, act[l].cells) /\ l \in cel[c] => l \in red.cell[c]
           /\ \A c \in red.active[l].cells :
                c \in act[l].cells /\ (First(c, red.active[l].cells) => First(c, act[l].cells))
           /\ /\ \A c \in act[l].cells : First(c, act[l].cells) => l \in cel[c]
              /\ \E c \in Cell : l \in cel[c]
              => \E c \in Cell : l \in red.cell[c]
  BY <1>3, <1>5, ReducedIs
<1>7. /\ DOMAIN active' = DOMAIN act \ gone
      /\ \A l \in DOMAIN active' : active'[l] = red.active[l]
  <2>1. /\ DOMAIN active' = DOMAIN red.active \ gone
        /\ \A l \in DOMAIN active' : active'[l] = red.active[l]
    BY <1>4 DEF Landmarks!Without
  <2> QED BY <1>6, <2>1
<1>8. ASSUME NEW l \in DOMAIN active'
      PROVE  /\ \A c \in active'[l].cells : First(c, active'[l].cells) => l \in cell'[c]
             /\ active'[l].seen # {} => \E c \in Cell : l \in cell'[c]
  <2>1. l \in DOMAIN act /\ l \notin gone /\ active'[l] = red.active[l]
    BY <1>7
  <2>2. \A c \in Cell : l \in red.cell[c] => l \in cell'[c]
    BY <1>4, <2>1
  <2>3. red.active[l].cells \subseteq Cell
    BY <1>6, <2>1 DEF Landmarks!Landmark
  <2> QED BY <1>5, <1>6, <2>1, <2>2, <2>3
<1>9. ASSUME NEW l \in red.dead
      PROVE  MaxInCell # 0 /\ \E c \in Cell : Cardinality(cell[c] \cup P) > MaxInCell
  <2>1. PICK c \in Cell : MaxInCell # 0 /\ Cardinality(cel[c]) > MaxInCell
    BY <1>6
  <2>2. P \subseteq Landmarks!LandmarkId /\ cell[c] \subseteq Landmarks!LandmarkId
    <3>1. P \subseteq 0 .. next - 1
      BY <1>5 DEF LandmarksInv, Landmarks!TypeOK
    <3>2. 0 .. next - 1 \subseteq Landmarks!LandmarkId
      BY LandmarkFacts DEF LandmarksInv, Landmarks!TypeOK, Landmarks!LandmarkId
    <3> QED BY <3>1, <3>2 DEF LandmarksInv, Landmarks!TypeOK
  <2>3. cel[c] \subseteq cell[c] \cup P
    BY <1>5
  <2>4. Cardinality(cel[c]) <= Cardinality(cell[c] \cup P)
    BY <2>2, <2>3, LandmarksFinite, FS_Subset
  <2>5. Cardinality(cel[c]) \in Nat /\ Cardinality(cell[c] \cup P) \in Nat
    BY <2>2, <2>3, LandmarksFinite
  <2>6. Cardinality(cell[c] \cup P) > MaxInCell
    BY <2>1, <2>4, <2>5, LandmarkFacts
  <2> QED BY <2>1, <2>6
<1>10. cell' \in [Cell -> SUBSET Landmarks!LandmarkId]
  BY <1>4, <1>6
<1>11. \/ /\ DOMAIN staged' = DOMAIN staged \ S /\ next' = next
          /\ \A l \in DOMAIN staged' : staged'[l] = staged[l]
       \/ /\ DOMAIN staged' = (DOMAIN staged \ S) \cup {next}
          /\ next < MaxLandmarkId /\ next' = next + 1
          /\ \A l \in DOMAIN staged \ S : l # next => staged'[l] = staged[l]
          /\ staged'[next] \in Landmarks!Landmark
          /\ staged'[next].cells = {} /\ staged'[next].inMemory = TRUE
  <2>1. /\ DOMAIN Landmarks!Waiting(S) = DOMAIN staged \ S
        /\ \A l \in DOMAIN staged \ S : Landmarks!Waiting(S)[l] = staged[l]
    BY WithoutIs DEF Landmarks!Waiting
  <2>2. CASE staged' = Landmarks!Waiting(S) /\ next' = next
    BY <2>1, <2>2
  <2>3. CASE /\ next < MaxLandmarkId /\ next' = next + 1
             /\ \E seen_1 \in SUBSET KeyFrame :
                  staged' = Landmarks!Joined(Landmarks!Waiting(S),
                    [l \in {next} |-> [seen |-> seen_1, cells |-> {}, inMemory |-> TRUE, poor |-> FALSE]])
    <3>1. PICK s \in SUBSET KeyFrame :
                  staged' = Landmarks!Joined(Landmarks!Waiting(S),
                    [l \in {next} |-> [seen |-> s, cells |-> {}, inMemory |-> TRUE, poor |-> FALSE]])
      BY <2>3
    <3> DEFINE new == [seen |-> s, cells |-> {}, inMemory |-> TRUE, poor |-> FALSE]
               g == [l \in {next} |-> new]
               w == Landmarks!Waiting(S)
    <3>2. DOMAIN g = {next} /\ g[next] = new
      OBVIOUS
    <3>3. new \in Landmarks!Landmark /\ new.cells = {} /\ new.inMemory = TRUE
      BY DEF Landmarks!Landmark
    <3> HIDE DEF new, g, w
    <3>4. staged' = Landmarks!Joined(w, g)
      BY <3>1 DEF new, g, w
    <3>5. /\ DOMAIN staged' = DOMAIN w \cup DOMAIN g
          /\ \A l \in DOMAIN w \ DOMAIN g : staged'[l] = w[l]
          /\ \A l \in DOMAIN g : staged'[l] = g[l]
      BY <3>4, Zenon DEF Landmarks!Joined
    <3> QED BY <2>1, <2>3, <3>2, <3>3, <3>5 DEF w
  <2> QED BY <1>1, <2>2, <2>3
<1>12. P \in SUBSET S /\ cached' = IF attached THEN cached \cup P ELSE cached
  BY <1>2, <1>5 DEF P
<1>13. UNCHANGED <<cachePath, attached, stored>> /\ dead' = {}
  BY DEF Landmarks!AddKeyframe
<1>14. \A l \in DOMAIN active' : active'[l] \in Landmarks!Landmark /\ active'[l].inMemory = act[l].inMemory
  BY <1>6, <1>7
<1>15. DOMAIN active' = DOMAIN act \ (dead \cup red.dead)
  BY <1>7
<1>16. KeyframeStep(S, P, act, red)
  <2>1. \A l \in P : act[l].inMemory = ~attached
    BY <1>5
  <2> QED BY <1>5, <1>6, <1>8, <1>9, <1>10, <1>11, <1>12, <1>13, <1>14, <1>15, <2>1 DEF KeyframeStep
<1> QED BY <1>16

LEMMA AddKeyframeLandmarks ==
  ASSUME LandmarksInv, Landmarks!AddKeyframe
  PROVE  LandmarksInv' /\ Landmarks!OnlyReducedDisappear
<1>1. PICK S, P, act, red : KeyframeStep(S, P, act, red)
  BY AddKeyframeIs
<1>2. /\ DOMAIN staged \subseteq 0 .. next - 1 /\ DOMAIN active \subseteq 0 .. next - 1 /\ dead \subseteq 0 .. next - 1
      /\ next \in Nat /\ next <= MaxLandmarkId /\ next \notin DOMAIN staged /\ next \notin DOMAIN active
      /\ 0 .. next - 1 \subseteq Landmarks!LandmarkId
  BY LandmarkFacts DEF LandmarksInv, Landmarks!TypeOK, Landmarks!LandmarkId
<1>3. /\ DOMAIN staged' \subseteq 0 .. next' - 1 /\ DOMAIN active' \subseteq 0 .. next' - 1
      /\ next' \in Nat /\ next' <= MaxLandmarkId
  <2>1. DOMAIN active' \subseteq 0 .. next - 1 /\ DOMAIN staged \ S \subseteq 0 .. next - 1
    BY <1>1, <1>2 DEF KeyframeStep
  <2>2. CASE next' = next /\ DOMAIN staged' = DOMAIN staged \ S
    BY <2>1, <2>2, <1>2
  <2>3. CASE next' = next + 1 /\ next < MaxLandmarkId /\ DOMAIN staged' = (DOMAIN staged \ S) \cup {next}
    <3>1. 0 .. next - 1 \subseteq 0 .. next' - 1 /\ next \in 0 .. next' - 1
      BY <2>3, <1>2
    <3> QED BY <2>1, <2>3, <3>1, <1>2, LandmarkFacts
  <2> QED BY <1>1, <2>2, <2>3 DEF KeyframeStep
<1>4. /\ \A l \in DOMAIN staged' :
           staged'[l] \in Landmarks!Landmark /\ staged'[l].cells = {} /\ staged'[l].inMemory = TRUE
      /\ DOMAIN staged' \cap DOMAIN active' = {}
  <2>1. \A l \in DOMAIN staged :
           staged[l] \in Landmarks!Landmark /\ staged[l].cells = {} /\ staged[l].inMemory = TRUE
    BY DEF LandmarksInv, Landmarks!TypeOK
  <2>2. DOMAIN staged \cap DOMAIN active = {}
    BY DEF LandmarksInv, Landmarks!TypeOK
  <2>3. \A l \in DOMAIN staged' : (l = next /\ next \in DOMAIN staged' /\ next \notin DOMAIN staged) \/ l \in DOMAIN staged \ S
    BY <1>1, <1>2 DEF KeyframeStep
  <2>4. \A l \in DOMAIN staged \ S : staged'[l] = staged[l]
    BY <1>1, <1>2 DEF KeyframeStep
  <2>5. next \in DOMAIN staged' => staged'[next] \in Landmarks!Landmark
                /\ staged'[next].cells = {} /\ staged'[next].inMemory = TRUE
    BY <1>1, <1>2 DEF KeyframeStep
  <2>6. DOMAIN active' \subseteq DOMAIN active \cup S /\ next \notin DOMAIN active'
    BY <1>1, <1>2 DEF KeyframeStep
  <2> QED BY <2>1, <2>2, <2>3, <2>4, <2>5, <2>6
<1>5. Landmarks!TypeOK'
  <2>1. cached \subseteq Landmarks!LandmarkId /\ P \subseteq Landmarks!LandmarkId
    BY <1>1, <1>2 DEF LandmarksInv, Landmarks!TypeOK, KeyframeStep
  <2>2. cached' \subseteq Landmarks!LandmarkId /\ cachePath' \in BOOLEAN /\ attached' \in BOOLEAN
    BY <1>1, <2>1 DEF LandmarksInv, Landmarks!TypeOK, KeyframeStep
  <2> QED BY <1>1, <1>3, <1>4, <2>2 DEF Landmarks!TypeOK, KeyframeStep
<1>6. Landmarks!Findable' /\ Landmarks!FirstCellLists'
  BY <1>1 DEF Landmarks!Findable, Landmarks!FirstCellLists, First, KeyframeStep
<1>7. Landmarks!DescriptorsReadable'
  <2>1. CASE cachePath /\ ~attached
    BY <1>1, <2>1 DEF Landmarks!DescriptorsReadable, KeyframeStep
  <2>2. CASE ~(cachePath /\ ~attached)
    <3>1. \A l \in DOMAIN active : active[l].inMemory \/ (attached /\ l \in cached)
      BY <2>2 DEF LandmarksInv, Landmarks!DescriptorsReadable, Landmarks!HasDescriptor
    <3>2. \A l \in DOMAIN active' : active'[l].inMemory \/ (attached' /\ l \in cached')
      <4> SUFFICES ASSUME NEW l \in DOMAIN active' PROVE active'[l].inMemory \/ (attached' /\ l \in cached')
        OBVIOUS
      <4>1. active'[l].inMemory = act[l].inMemory /\ (l \in DOMAIN active \/ l \in P)
        BY <1>1 DEF KeyframeStep
      <4>2. CASE l \in DOMAIN active
        BY <1>1, <3>1, <4>1, <4>2 DEF KeyframeStep
      <4>3. CASE l \in P
        BY <1>1, <4>1, <4>3 DEF KeyframeStep
      <4> QED BY <4>1, <4>2, <4>3
    <3> QED BY <3>2 DEF Landmarks!DescriptorsReadable, Landmarks!HasDescriptor
  <2> QED BY <2>1, <2>2
<1>8. LandmarksInv'
  <2>1. Landmarks!SavedIsComplete' /\ (attached' => cachePath')
    BY <1>1 DEF LandmarksInv, Landmarks!SavedIsComplete, KeyframeStep
  <2> QED BY <1>1, <1>3, <1>4, <1>5, <1>6, <1>7, <2>1 DEF LandmarksInv, KeyframeStep
<1>9. Landmarks!OnlyReducedDisappear
  <2> SUFFICES ASSUME NEW l \in DOMAIN staged \cup (DOMAIN active \ dead), l \notin DOMAIN staged', l \notin DOMAIN active',
                      Landmarks!Seen(l) # {}
      PROVE  MaxInCell # 0 /\ \E c \in Cell : Cardinality(cell[c] \cup (DOMAIN staged \ DOMAIN staged')) > MaxInCell
    BY LandmarksCardinality DEF Landmarks!OnlyReducedDisappear, Landmarks!Known
  <2>1. l \in DOMAIN act
    <3>1. CASE l \in DOMAIN active
      BY <3>1, <1>1 DEF KeyframeStep
    <3>2. CASE l \notin DOMAIN active
      <4>1. l \in S /\ staged[l].seen # {}
        BY <3>2, <1>1, <1>2 DEF Landmarks!Seen, KeyframeStep
      <4> QED BY <4>1, <1>1 DEF KeyframeStep
    <3> QED BY <3>1, <3>2
  <2>2. l \in red.dead
    BY <1>1, <2>1 DEF LandmarksInv, KeyframeStep
  <2>3. PICK c \in Cell : MaxInCell # 0 /\ Cardinality(cell[c] \cup P) > MaxInCell
    BY <1>1, <2>2 DEF KeyframeStep
  <2> DEFINE out == DOMAIN staged \ DOMAIN staged'
  <2>4. P \subseteq out
    BY <1>1, <1>2 DEF KeyframeStep
  <2>5. cell[c] \cup out \subseteq Landmarks!LandmarkId
    BY <1>2 DEF LandmarksInv, Landmarks!TypeOK
  <2>6. cell[c] \cup P \subseteq cell[c] \cup out
    BY <2>4
  <2> HIDE DEF out
  <2>7. Cardinality(cell[c] \cup P) <= Cardinality(cell[c] \cup out)
    BY <2>5, <2>6, LandmarksFinite, FS_Subset
  <2>8. Cardinality(cell[c] \cup P) \in Nat /\ Cardinality(cell[c] \cup out) \in Nat
    BY <2>5, <2>6, LandmarksFinite
  <2>9. Cardinality(cell[c] \cup out) > MaxInCell
    BY <2>3, <2>7, <2>8, LandmarkFacts
  <2> QED BY <2>3, <2>9 DEF out
<1> QED BY <1>8, <1>9

\* A step that keeps the landmarks, their keyframes and what cells list.
LEMMA IndexGrows ==
  ASSUME LandmarksInv,
         DOMAIN staged' = DOMAIN staged, DOMAIN active' = DOMAIN active,
         \A l \in DOMAIN staged :
           staged'[l] \in Landmarks!Landmark /\ staged'[l].cells = {} /\ staged'[l].inMemory = TRUE,
         \A l \in DOMAIN active :
           /\ active'[l] \in Landmarks!Landmark /\ active'[l].inMemory = active[l].inMemory
           /\ active[l].seen = {} => active'[l].seen = {} \/ \E c \in Cell : l \in cell'[c]
           /\ \A c \in active'[l].cells : c \in active[l].cells \/ l \in cell'[c]
           /\ active[l].cells \subseteq active'[l].cells,
         cell' \in [Cell -> SUBSET Landmarks!LandmarkId],
         \A c \in Cell : cell[c] \subseteq cell'[c],
         UNCHANGED <<dead, next, cachePath, attached, cached, stored>>
  PROVE  LandmarksInv' /\ Landmarks!OnlyReducedDisappear
<1>1. Landmarks!TypeOK'
  BY DEF LandmarksInv, Landmarks!TypeOK
<1>2. Landmarks!Findable'
  <2> SUFFICES ASSUME NEW l \in DOMAIN active \ dead, active'[l].seen # {} PROVE \E c \in Cell : l \in cell'[c]
    BY DEF Landmarks!Findable
  <2> QED BY DEF LandmarksInv, Landmarks!Findable
<1>3. Landmarks!FirstCellLists'
  <2> SUFFICES ASSUME NEW l \in DOMAIN active \ dead, NEW c \in active'[l].cells,
                      \A d \in active'[l].cells : c <= d
      PROVE l \in cell'[c]
    BY DEF Landmarks!FirstCellLists
  <2>1. active'[l].cells \subseteq Cell
    BY DEF Landmarks!Landmark
  <2> QED BY <2>1 DEF LandmarksInv, Landmarks!FirstCellLists
<1>4. Landmarks!DescriptorsReadable' /\ Landmarks!SavedIsComplete'
  BY DEF LandmarksInv, Landmarks!DescriptorsReadable, Landmarks!HasDescriptor, Landmarks!SavedIsComplete
<1>5. Landmarks!OnlyReducedDisappear
  BY DEF Landmarks!OnlyReducedDisappear, Landmarks!Known
<1> QED BY <1>1, <1>2, <1>3, <1>4, <1>5 DEF LandmarksInv

LEMMA ProbeLandmarks == ASSUME LandmarksInv, Landmarks!ProbeLandmark PROVE LandmarksInv' /\ Landmarks!OnlyReducedDisappear
<1>1. PICK l \in DOMAIN active, b \in BOOLEAN : active' = [active EXCEPT ![l].poor = b]
  BY DEF Landmarks!ProbeLandmark, Landmarks!Visible
<1>2. UNCHANGED <<staged, cell, dead, next, cachePath, attached, cached, stored>>
  BY DEF Landmarks!ProbeLandmark
<1>3. /\ \A m \in DOMAIN active : active[m] \in Landmarks!Landmark
      /\ \A m \in DOMAIN staged :
           staged[m] \in Landmarks!Landmark /\ staged[m].cells = {} /\ staged[m].inMemory = TRUE
      /\ cell \in [Cell -> SUBSET Landmarks!LandmarkId]
  BY DEF LandmarksInv, Landmarks!TypeOK
<1>4. /\ DOMAIN active' = DOMAIN active
      /\ \A m \in DOMAIN active : m # l => active'[m] = active[m]
      /\ active'[l] = [active[l] EXCEPT !.poor = b]
  BY <1>1
<1>5. /\ active'[l] \in Landmarks!Landmark /\ active'[l].inMemory = active[l].inMemory
      /\ active'[l].seen = active[l].seen /\ active'[l].cells = active[l].cells
  BY <1>3, <1>4 DEF Landmarks!Landmark
<1>6. \A m \in DOMAIN active :
           /\ active'[m] \in Landmarks!Landmark /\ active'[m].inMemory = active[m].inMemory
           /\ active'[m].seen = active[m].seen /\ active'[m].cells = active[m].cells
  BY <1>3, <1>4, <1>5
<1> QED BY <1>2, <1>3, <1>4, <1>6, IndexGrows

LEMMA CloseLoopLandmarks == ASSUME LandmarksInv, Landmarks!CloseLoop PROVE LandmarksInv' /\ Landmarks!OnlyReducedDisappear
<1>0. PICK found \in SUBSET {l \in Landmarks!Visible : Landmarks!HasDescriptor(l)}, k \in KeyFrame :
        \E place \in [found -> {{c} : c \in Cell}] :
       /\ active' = [l \in DOMAIN active |->
            IF l \in found THEN [active[l] EXCEPT !.seen = @ \cup {k}, !.cells = @ \cup place[l]]
                           ELSE active[l]]
       /\ cell' = Landmarks!Placed(cell, place)
  BY DEF Landmarks!CloseLoop
<1>1. PICK place \in [found -> {{c} : c \in Cell}] :
       /\ active' = [l \in DOMAIN active |->
            IF l \in found THEN [active[l] EXCEPT !.seen = @ \cup {k}, !.cells = @ \cup place[l]]
                           ELSE active[l]]
       /\ cell' = Landmarks!Placed(cell, place)
  BY <1>0
<1>2. UNCHANGED <<staged, dead, next, cachePath, attached, cached, stored>>
  BY DEF Landmarks!CloseLoop
<1>3. /\ \A m \in DOMAIN active : active[m] \in Landmarks!Landmark /\ m \in Landmarks!LandmarkId
      /\ \A m \in DOMAIN staged :
           staged[m] \in Landmarks!Landmark /\ staged[m].cells = {} /\ staged[m].inMemory = TRUE
      /\ cell \in [Cell -> SUBSET Landmarks!LandmarkId]
  BY LandmarkFacts DEF LandmarksInv, Landmarks!TypeOK, Landmarks!LandmarkId
<1>a. found \subseteq DOMAIN active
  BY DEF Landmarks!Visible
<1>4. /\ cell' \in [Cell -> SUBSET Landmarks!LandmarkId]
      /\ \A c \in Cell : cell'[c] = cell[c] \cup {l \in found : c \in place[l]}
  BY <1>1, <1>3, <1>a DEF Landmarks!Placed
<1>5. \A l \in found : place[l] # {} /\ place[l] \subseteq Cell
  <2>1. \A l \in found : place[l] \in {{c} : c \in Cell}
    OBVIOUS
  <2>2. \A l \in found : \E c \in Cell : place[l] = {c}
    BY <2>1
  <2> QED BY <2>2
<1>6. /\ DOMAIN active' = DOMAIN active
      /\ \A m \in DOMAIN active \ found : active'[m] = active[m]
      /\ \A m \in found :
           active'[m] = [active[m] EXCEPT !.seen = active[m].seen \cup {k}, !.cells = active[m].cells \cup place[m]]
  BY <1>1, <1>a, Zenon
<1>7. \A m \in found :
           /\ active'[m] \in Landmarks!Landmark /\ active'[m].inMemory = active[m].inMemory
           /\ active'[m].cells = active[m].cells \cup place[m]
  <2> SUFFICES ASSUME NEW m \in found
      PROVE  /\ active'[m] \in Landmarks!Landmark /\ active'[m].inMemory = active[m].inMemory
             /\ active'[m].cells = active[m].cells \cup place[m]
    OBVIOUS
  <2>1. active[m] \in [seen : SUBSET KeyFrame, cells : SUBSET Cell, inMemory : BOOLEAN, poor : BOOLEAN]
    BY <1>3, <1>a DEF Landmarks!Landmark
  <2>2. active[m].seen \cup {k} \in SUBSET KeyFrame /\ active[m].cells \cup place[m] \in SUBSET Cell
    BY <1>5, <2>1
  <2> QED BY <1>6, <2>1, <2>2 DEF Landmarks!Landmark
<1>8. \A m \in DOMAIN active :
           /\ active'[m] \in Landmarks!Landmark /\ active'[m].inMemory = active[m].inMemory
           /\ active[m].seen = {} => active'[m].seen = {} \/ \E c \in Cell : m \in cell'[c]
           /\ \A c \in active'[m].cells : c \in active[m].cells \/ m \in cell'[c]
           /\ active[m].cells \subseteq active'[m].cells
  <2> SUFFICES ASSUME NEW m \in DOMAIN active
      PROVE  /\ active'[m] \in Landmarks!Landmark /\ active'[m].inMemory = active[m].inMemory
             /\ active[m].seen = {} => active'[m].seen = {} \/ \E c \in Cell : m \in cell'[c]
             /\ \A c \in active'[m].cells : c \in active[m].cells \/ m \in cell'[c]
             /\ active[m].cells \subseteq active'[m].cells
    OBVIOUS
  <2>1. CASE m \in found
    BY <1>4, <1>5, <1>7, <2>1
  <2>2. CASE m \notin found
    BY <1>3, <1>6, <2>2
  <2> QED BY <2>1, <2>2
<1>9. \A c \in Cell : cell[c] \subseteq cell'[c]
  BY <1>4
<1> QED BY <1>2, <1>3, <1>4, <1>6, <1>8, <1>9, IndexGrows

LEMMA UpdateKeyframePoseLandmarks ==
  ASSUME LandmarksInv, Landmarks!UpdateKeyframePose PROVE LandmarksInv' /\ Landmarks!OnlyReducedDisappear
<1>1. PICK k \in KeyFrame, c, d \in Cell :
        cell' = [cell EXCEPT ![d] = @ \cup {l \in cell[c] \cap DOMAIN active : k \in active[l].seen}]
  BY DEF Landmarks!UpdateKeyframePose
<1>2. UNCHANGED <<staged, active, dead, next, cachePath, attached, cached, stored>>
  BY DEF Landmarks!UpdateKeyframePose
<1>3. /\ \A m \in DOMAIN active : active[m] \in Landmarks!Landmark
      /\ \A m \in DOMAIN staged :
           staged[m] \in Landmarks!Landmark /\ staged[m].cells = {} /\ staged[m].inMemory = TRUE
      /\ cell \in [Cell -> SUBSET Landmarks!LandmarkId]
  BY DEF LandmarksInv, Landmarks!TypeOK
<1>4. /\ cell' \in [Cell -> SUBSET Landmarks!LandmarkId]
      /\ \A b \in Cell : cell[b] \subseteq cell'[b]
  BY <1>1, <1>3
<1> QED BY <1>2, <1>3, <1>4, IndexGrows

LEMMA MergeKeyframesLandmarks ==
  ASSUME LandmarksInv, Landmarks!MergeKeyframes PROVE LandmarksInv' /\ Landmarks!OnlyReducedDisappear
<1>1. PICK old, neo \in KeyFrame :
       LET renamed(m) == [m EXCEPT !.seen = IF old \in @ THEN (@ \ {old}) \cup {neo} ELSE @]
          IN /\ active' = [l \in DOMAIN active |-> renamed(active[l])]
             /\ staged' = [l \in DOMAIN staged |-> renamed(staged[l])]
  BY DEF Landmarks!MergeKeyframes
<1>2. UNCHANGED <<cell, dead, next, cachePath, attached, cached, stored>>
  BY DEF Landmarks!MergeKeyframes
<1>3. /\ \A m \in DOMAIN active : active[m] \in Landmarks!Landmark
      /\ \A m \in DOMAIN staged :
           staged[m] \in Landmarks!Landmark /\ staged[m].cells = {} /\ staged[m].inMemory = TRUE
      /\ cell \in [Cell -> SUBSET Landmarks!LandmarkId]
  BY DEF LandmarksInv, Landmarks!TypeOK
<1> DEFINE renamed(m) == [m EXCEPT !.seen = IF old \in @ THEN (@ \ {old}) \cup {neo} ELSE @]
<1>4. ASSUME NEW m \in Landmarks!Landmark
      PROVE  /\ renamed(m) \in Landmarks!Landmark /\ renamed(m).inMemory = m.inMemory
             /\ renamed(m).cells = m.cells
             /\ m.seen = {} => renamed(m).seen = {}
  BY DEF Landmarks!Landmark
<1>5. /\ DOMAIN active' = DOMAIN active /\ DOMAIN staged' = DOMAIN staged
      /\ \A l \in DOMAIN active : active'[l] = renamed(active[l])
      /\ \A l \in DOMAIN staged : staged'[l] = renamed(staged[l])
  BY <1>1
<1> HIDE DEF renamed
<1>6. \A m \in DOMAIN staged :
        staged'[m] \in Landmarks!Landmark /\ staged'[m].cells = {} /\ staged'[m].inMemory = TRUE
  BY <1>3, <1>4, <1>5
<1>7. \A m \in DOMAIN active :
           /\ active'[m] \in Landmarks!Landmark /\ active'[m].inMemory = active[m].inMemory
           /\ active[m].seen = {} => active'[m].seen = {}
           /\ active'[m].cells = active[m].cells
  BY <1>3, <1>4, <1>5
<1> QED BY <1>2, <1>3, <1>5, <1>6, <1>7, IndexGrows

LEMMA LocalizeLandmarks ==
  ASSUME LandmarksInv, Landmarks!Localize PROVE LandmarksInv' /\ Landmarks!OnlyReducedDisappear
<1>1. /\ DOMAIN staged' = {} /\ DOMAIN active' = {} /\ dead' = {} /\ next' = 0
      /\ cell' \in [Cell -> SUBSET Landmarks!LandmarkId] /\ attached' = FALSE
      /\ UNCHANGED <<cachePath, cached, stored>>
  BY DEF Landmarks!Localize, Landmarks!Empty
<1>2. LandmarksInv'
  <2>1. cachePath \in BOOLEAN /\ cached \subseteq Landmarks!LandmarkId /\ Landmarks!SavedIsComplete
    BY DEF LandmarksInv, Landmarks!TypeOK
  <2>2. Landmarks!TypeOK'
    <3>1. DOMAIN staged' \cup DOMAIN active' \cup dead' \subseteq 0 .. next' - 1 /\ next' <= MaxLandmarkId
      BY <1>1, LandmarkFacts
    <3>2. attached' \in BOOLEAN /\ cachePath' \in BOOLEAN /\ cached' \subseteq Landmarks!LandmarkId
      BY <1>1, <2>1
    <3>3. DOMAIN staged' \cap DOMAIN active' = {}
      BY <1>1
    <3> QED BY <1>1, <3>1, <3>2, <3>3 DEF Landmarks!TypeOK
  <2>3. Landmarks!Findable' /\ Landmarks!FirstCellLists' /\ Landmarks!DescriptorsReadable'
    BY <1>1 DEF Landmarks!Findable, Landmarks!FirstCellLists, Landmarks!DescriptorsReadable
  <2>4. Landmarks!SavedIsComplete'
    BY <1>1, <2>1 DEF Landmarks!SavedIsComplete
  <2> QED BY <1>1, <2>2, <2>3, <2>4 DEF LandmarksInv
<1>3. Landmarks!OnlyReducedDisappear
  BY DEF Landmarks!OnlyReducedDisappear
<1> QED BY <1>2, <1>3

\* What SaveMap leaves, read back from the database all of the index was written to.
LEMMA SaveMapIs ==
  ASSUME LandmarksInv, Landmarks!SaveMap
  PROVE  /\ DOMAIN staged' = {} /\ attached' = FALSE /\ UNCHANGED <<next, cachePath, cached>>
         /\ DOMAIN active' = (DOMAIN active \ dead) \cup DOMAIN staged
         /\ \A l \in DOMAIN active \ dead :
              /\ active'[l] \in Landmarks!Landmark
              /\ active'[l].seen = active[l].seen /\ active'[l].inMemory = active[l].inMemory
         /\ \A l \in DOMAIN staged :
              /\ active'[l] \in Landmarks!Landmark
              /\ active'[l].seen = staged[l].seen /\ active'[l].inMemory = TRUE
         /\ \A l \in DOMAIN active' \ dead' :
              /\ \A c \in active'[l].cells : First(c, active'[l].cells) => l \in cell'[c]
              /\ active'[l].seen # {} => \E c \in Cell : l \in cell'[c]
         /\ cell' \in [Cell -> SUBSET Landmarks!LandmarkId]
         /\ dead' \subseteq dead \cup DOMAIN active \cup DOMAIN staged
         /\ stored'.found \subseteq DOMAIN active'
         /\ stored'.described = {l \in DOMAIN active' : active'[l].inMemory}
<1>1. PICK place \in [Landmarks!Related(DOMAIN staged) -> SUBSET Cell] :
       /\ \A l \in DOMAIN place : place[l] \in Landmarks!CellsOf(staged[l].seen)
       /\ \E reduced \in Landmarks!Reductions(Landmarks!Joined(active, Landmarks!Activated(DOMAIN staged, place)),
                                   Landmarks!Placed(cell, place), Landmarks!Changed(place)) :
            LET db == Landmarks!Written(reduced.cell)
            IN /\ dead' = dead \cup reduced.dead
               /\ Landmarks!ReadBack(db)
               /\ stored' = [found |-> DOMAIN db.landmarks \cap UNION {db.cell[c] : c \in Cell},
                             described |-> db.descriptors]
  BY DEF Landmarks!SaveMap
<1> DEFINE act == Landmarks!Joined(active, Landmarks!Activated(DOMAIN staged, place))
           cel == Landmarks!Placed(cell, place)
<1>2. PICK red \in Landmarks!Reductions(act, cel, Landmarks!Changed(place)) :
            LET db == Landmarks!Written(red.cell)
            IN /\ dead' = dead \cup red.dead
               /\ Landmarks!ReadBack(db)
               /\ stored' = [found |-> DOMAIN db.landmarks \cap UNION {db.cell[c] : c \in Cell},
                             described |-> db.descriptors]
  BY <1>1
<1> DEFINE all == Landmarks!Joined(Landmarks!Without(active, dead), staged)
<1>3. /\ dead' = dead \cup red.dead
      /\ active' = [l \in DOMAIN all |-> [all[l] EXCEPT !.inMemory = l \in {m \in DOMAIN all : all[m].inMemory}]]
      /\ cell' = red.cell
      /\ stored' = [found |-> DOMAIN all \cap UNION {red.cell[c] : c \in Cell},
                    described |-> {l \in DOMAIN all : all[l].inMemory}]
  BY <1>2 DEF Landmarks!Written, Landmarks!ReadBack
<1>4. Placement(DOMAIN staged, place, act, cel)
  <2> HIDE DEF act, cel
  <2>1. /\ act = Landmarks!Joined(active, Landmarks!Activated(DOMAIN staged, place))
        /\ cel = Landmarks!Placed(cell, place)
    BY DEF act, cel
  <2> QED BY <1>1, <2>1, ActivatedIs
<1> HIDE DEF act, cel
<1>5. /\ DOMAIN staged \cap DOMAIN active = {}
      /\ \A l \in DOMAIN active : active[l] \in Landmarks!Landmark
      /\ \A l \in DOMAIN staged :
           staged[l] \in Landmarks!Landmark /\ staged[l].cells = {} /\ staged[l].inMemory = TRUE
  BY DEF LandmarksInv, Landmarks!TypeOK
<1>6. /\ DOMAIN all = (DOMAIN active \ dead) \cup DOMAIN staged
      /\ \A l \in DOMAIN active \ dead : all[l] = active[l]
      /\ \A l \in DOMAIN staged : all[l] = staged[l]
  BY <1>5 DEF Landmarks!Joined, Landmarks!Without
<1> HIDE DEF all
<1>7. \A l \in DOMAIN all : all[l] \in Landmarks!Landmark
  BY <1>5, <1>6
<1>8. /\ DOMAIN active' = DOMAIN all
      /\ \A l \in DOMAIN all : active'[l] = all[l]
  <2>1. \A l \in DOMAIN all : [all[l] EXCEPT !.inMemory = l \in {m \in DOMAIN all : all[m].inMemory}] = all[l]
    <3> SUFFICES ASSUME NEW l \in DOMAIN all
        PROVE [all[l] EXCEPT !.inMemory = l \in {m \in DOMAIN all : all[m].inMemory}] = all[l]
      OBVIOUS
    <3>1. (l \in {m \in DOMAIN all : all[m].inMemory}) = all[l].inMemory
      <4>1. all[l].inMemory \in BOOLEAN
        BY <1>7 DEF Landmarks!Landmark
      <4>2. l \in {m \in DOMAIN all : all[m].inMemory} <=> all[l].inMemory
        OBVIOUS
      <4>3. (l \in {m \in DOMAIN all : all[m].inMemory}) \in BOOLEAN
        OBVIOUS
      <4> QED BY <4>1, <4>2, <4>3
    <3>2. all[l] \in [seen : SUBSET KeyFrame, cells : SUBSET Cell, inMemory : BOOLEAN, poor : BOOLEAN]
      BY <1>7 DEF Landmarks!Landmark
    <3> DEFINE b == l \in {m \in DOMAIN all : all[m].inMemory}
    <3> HIDE DEF b
    <3>3. b = all[l].inMemory
      BY <3>1 DEF b
    <3>4. [all[l] EXCEPT !.inMemory = b] = all[l]
      BY <3>2, <3>3
    <3> QED BY <3>4 DEF b
  <2> QED BY <1>3, <2>1
<1>9. /\ red.dead \subseteq DOMAIN act
      /\ red.cell \in [Cell -> SUBSET Landmarks!LandmarkId]
      /\ \A l \in DOMAIN act \ red.dead :
           /\ \A c \in act[l].cells : First(c, act[l].cells) /\ l \in cel[c] => l \in red.cell[c]
           /\ /\ \A c \in act[l].cells : First(c, act[l].cells) => l \in cel[c]
              /\ \E c \in Cell : l \in cel[c]
              => \E c \in Cell : l \in red.cell[c]
  BY <1>2, <1>4, ReducedIs DEF Placement
<1>10. ASSUME NEW l \in DOMAIN active' \ dead'
       PROVE  /\ \A c \in active'[l].cells : First(c, active'[l].cells) => l \in cell'[c]
              /\ active'[l].seen # {} => \E c \in Cell : l \in cell'[c]
  <2>1. l \in DOMAIN all /\ active'[l] = all[l] /\ l \notin dead /\ l \notin red.dead
    BY <1>3, <1>8
  <2>2. CASE l \in DOMAIN active
    <3>1. l \in DOMAIN act \ dead /\ act[l] = active'[l] /\ active'[l] \in Landmarks!Landmark
      BY <1>4, <1>6, <1>7, <2>1, <2>2 DEF Placement
    <3>2. /\ \A c \in act[l].cells : First(c, act[l].cells) => l \in cel[c]
          /\ act[l].seen # {} => \E c \in Cell : l \in cel[c]
      BY <1>4, <3>1 DEF Placement
    <3> QED BY <1>3, <1>9, <2>1, <3>1, <3>2
  <2>3. CASE l \in DOMAIN staged
    <3>1. active'[l] = staged[l] /\ active'[l].cells = {}
      BY <1>5, <1>6, <2>1, <2>3
    <3>2. ASSUME staged[l].seen # {} PROVE \E c \in Cell : l \in cell'[c]
      <4>1. l \in DOMAIN act \ dead /\ act[l].seen # {}
        BY <1>4, <2>1, <2>3, <3>2 DEF Placement
      <4>2. /\ \A c \in act[l].cells : First(c, act[l].cells) => l \in cel[c]
            /\ \E c \in Cell : l \in cel[c]
        BY <1>4, <4>1 DEF Placement
      <4> QED BY <1>3, <1>9, <2>1, <4>1, <4>2
    <3> QED BY <3>1, <3>2
  <2> QED BY <1>6, <2>1, <2>2, <2>3
<1>11. DOMAIN act \subseteq DOMAIN active \cup DOMAIN staged
  BY <1>4 DEF Placement
<1>12. DOMAIN staged' = {} /\ attached' = FALSE /\ UNCHANGED <<next, cachePath, cached>>
  BY DEF Landmarks!SaveMap, Landmarks!Empty
<1>13. stored'.found \subseteq DOMAIN active' /\ stored'.described = {l \in DOMAIN active' : active'[l].inMemory}
  <2>1. stored'.found = DOMAIN all \cap UNION {red.cell[c] : c \in Cell}
        /\ stored'.described = {l \in DOMAIN all : all[l].inMemory}
    BY <1>3
  <2> QED BY <1>8, <2>1
<1>14. /\ \A l \in DOMAIN active \ dead :
              /\ active'[l] \in Landmarks!Landmark
              /\ active'[l].seen = active[l].seen /\ active'[l].inMemory = active[l].inMemory
       /\ \A l \in DOMAIN staged :
              /\ active'[l] \in Landmarks!Landmark
              /\ active'[l].seen = staged[l].seen /\ active'[l].inMemory = TRUE
  BY <1>5, <1>6, <1>8
<1>15. DOMAIN active' = (DOMAIN active \ dead) \cup DOMAIN staged
  BY <1>6, <1>8
<1>16. dead' \subseteq dead \cup DOMAIN active \cup DOMAIN staged
  BY <1>3, <1>9, <1>11
<1>17. cell' \in [Cell -> SUBSET Landmarks!LandmarkId]
  BY <1>3, <1>9
<1> QED BY <1>10, <1>12, <1>13, <1>14, <1>15, <1>16, <1>17

LEMMA SaveMapLandmarks ==
  ASSUME LandmarksInv, Landmarks!SaveMap
  PROVE  /\ LandmarksInv' /\ Landmarks!OnlyReducedDisappear
         /\ Landmarks!SaveKeepsLandmarks
<1>1. /\ DOMAIN staged' = {} /\ attached' = FALSE /\ UNCHANGED <<next, cachePath, cached>>
      /\ DOMAIN active' = (DOMAIN active \ dead) \cup DOMAIN staged
      /\ \A l \in DOMAIN active' : active'[l] \in Landmarks!Landmark
      /\ \A l \in DOMAIN active' \ dead' :
           /\ \A c \in active'[l].cells : First(c, active'[l].cells) => l \in cell'[c]
           /\ active'[l].seen # {} => \E c \in Cell : l \in cell'[c]
      /\ cell' \in [Cell -> SUBSET Landmarks!LandmarkId]
      /\ dead' \subseteq dead \cup DOMAIN active \cup DOMAIN staged
      /\ stored'.found \subseteq DOMAIN active'
      /\ stored'.described = {l \in DOMAIN active' : active'[l].inMemory}
  BY SaveMapIs
<1>2. Landmarks!TypeOK' /\ next' \in Nat
  <2>1. DOMAIN staged' \cup DOMAIN active' \cup dead' \subseteq 0 .. next' - 1 /\ next' <= MaxLandmarkId
    BY <1>1 DEF LandmarksInv, Landmarks!TypeOK
  <2> QED BY <1>1, <2>1 DEF LandmarksInv, Landmarks!TypeOK
<1>3. Landmarks!Findable' /\ Landmarks!FirstCellLists'
  BY <1>1 DEF Landmarks!Findable, Landmarks!FirstCellLists, First
<1>4. ~cachePath => \A l \in DOMAIN active' : active'[l].inMemory
  <2> SUFFICES ASSUME ~cachePath, NEW l \in DOMAIN active' PROVE active'[l].inMemory
    OBVIOUS
  <2>1. CASE l \in DOMAIN staged
    BY <2>1, SaveMapIs
  <2>2. CASE l \in DOMAIN active \ dead
    <3>1. active[l].inMemory
      BY <2>2 DEF LandmarksInv, Landmarks!DescriptorsReadable, Landmarks!HasDescriptor
    <3> QED BY <2>2, <3>1, SaveMapIs
  <2> QED BY <1>1, <2>1, <2>2
<1>5. Landmarks!DescriptorsReadable' /\ Landmarks!SavedIsComplete'
  BY <1>1, <1>4 DEF Landmarks!DescriptorsReadable, Landmarks!HasDescriptor, Landmarks!SavedIsComplete,
    LandmarksInv, Landmarks!TypeOK
<1>6. LandmarksInv'
  BY <1>1, <1>2, <1>3, <1>5 DEF LandmarksInv
<1>7. Landmarks!OnlyReducedDisappear
  BY <1>1 DEF Landmarks!OnlyReducedDisappear, Landmarks!Known
<1>8. Landmarks!SaveKeepsLandmarks
  <2> SUFFICES ASSUME NEW l \in DOMAIN staged \cup (DOMAIN active \ dead)
      PROVE  l \in DOMAIN active' /\ active'[l].seen = Landmarks!Seen(l)
    BY DEF Landmarks!SaveKeepsLandmarks, Landmarks!Known
  <2>1. DOMAIN staged \cap DOMAIN active = {}
    BY DEF LandmarksInv, Landmarks!TypeOK
  <2>2. CASE l \in DOMAIN staged
    BY <1>1, <2>1, <2>2, SaveMapIs DEF Landmarks!Seen
  <2>3. CASE l \in DOMAIN active \ dead
    BY <1>1, <2>1, <2>3, SaveMapIs DEF Landmarks!Seen
  <2> QED BY <2>2, <2>3
<1> QED BY <1>6, <1>7, <1>8

LEMMA LandmarksStep ==
  ASSUME LandmarksInv, Landmarks!Next
  PROVE  LandmarksInv' /\ Landmarks!OnlyReducedDisappear /\ Landmarks!SaveKeepsLandmarks
<1>1. CASE Landmarks!SaveMap
  BY <1>1, SaveMapLandmarks
<1>2. CASE ~Landmarks!SaveMap
  <2>1. Landmarks!SaveKeepsLandmarks
    BY <1>2 DEF Landmarks!SaveKeepsLandmarks
  <2>2. LandmarksInv' /\ Landmarks!OnlyReducedDisappear
    BY <1>2, AddKeyframeLandmarks, ProbeLandmarks, CloseLoopLandmarks, UpdateKeyframePoseLandmarks,
      MergeKeyframesLandmarks, LocalizeLandmarks DEF Landmarks!Next
  <2> QED BY <2>1, <2>2
<1> QED BY <1>1, <1>2

LEMMA LandmarksStay ==
  ASSUME LandmarksInv, UNCHANGED landmarks
  PROVE  LandmarksInv' /\ Landmarks!OnlyReducedDisappear /\ (~Landmarks!SaveMap => Landmarks!SaveKeepsLandmarks)
<1>1. UNCHANGED <<staged, active, cell, dead, next, cachePath, attached, cached, stored>>
  BY DEF landmarks
<1>2. LandmarksInv'
  BY <1>1 DEF LandmarksInv, Landmarks!TypeOK, Landmarks!Findable, Landmarks!FirstCellLists,
    Landmarks!DescriptorsReadable, Landmarks!HasDescriptor, Landmarks!SavedIsComplete
<1>3. Landmarks!OnlyReducedDisappear
  BY <1>1 DEF Landmarks!OnlyReducedDisappear, Landmarks!Known
<1>4. ~Landmarks!SaveMap => Landmarks!SaveKeepsLandmarks
  BY DEF Landmarks!SaveKeepsLandmarks
<1> QED BY <1>2, <1>3, <1>4

-----------------------------------------------------------------------------
(* The frame loop of the odometries                                        *)

KnownPoses == Seq([pose : Int, time : Int])

\* What holds of the pose, the motion and the tracks now, and of those saved.
FramesAgree(time, sum, pose, motion, found, followed, unused, tracked) ==
  /\ time \in Int /\ pose \in Int /\ sum = pose
  /\ motion \in KnownPoses /\ tracked \in Nat
  /\ Len(motion) = IF tracked < 2 THEN tracked ELSE 2
  /\ motion # <<>> => motion[Len(motion)] = [pose |-> pose, time |-> time]
  /\ Len(motion) = 2 => motion[1].time < motion[2].time
  /\ unused \in Nat \ {0} /\ found \cup followed \subseteq 1 .. unused - 1

FramesInv ==
  /\ FramesAgree(frameTime, published, world, known, located, visible, nextTrack, streak)
  /\ solver \in Int /\ recent \in Seq(SUBSET Int)
  /\ solver = world \/ (kind = "multisensor" /\ recent = <<>> /\ solver = 0)
  /\ lifted \subseteq located
  /\ checkpoint # <<>> =>
       LET saved == checkpoint[1]
       IN /\ kind # "multisensor" /\ saved.solver = saved.world
          /\ saved.recent \in Seq(SUBSET Int)
          /\ FramesAgree(saved.now, saved.published, saved.world, saved.known, saved.located,
                         saved.visible, saved.next, saved.streak)

LEMMA FrameFacts ==
  /\ Steps \subseteq Int /\ KeyframeCapacity \in Nat \ {0} /\ FrameObservations \in Nat \ {0}
  /\ LastTrack \in Nat /\ LastTime \in Nat
BY MapPartsAssumption

LEMMA FramesInit == Frames!Init => FramesInv
<1> SUFFICES ASSUME Frames!Init PROVE FramesInv
  OBVIOUS
<1>1. /\ frameTime = 0 /\ published = 0 /\ world = 0 /\ known = <<>> /\ solver = 0
      /\ recent = <<>> /\ located = {} /\ visible = {} /\ nextTrack = 1 /\ lifted = {}
      /\ streak = 0 /\ checkpoint = <<>>
  BY DEF Frames!Init
<1>2. known \in KnownPoses /\ Len(known) = 0 /\ recent \in Seq(SUBSET Int)
  BY <1>1 DEF KnownPoses
<1> QED BY <1>1, <1>2 DEF FramesInv, FramesAgree

LEMMA RecentIs ==
  ASSUME recent \in Seq(SUBSET Int), NEW tracks \in SUBSET Int
  PROVE  /\ Frames!WithRecent(tracks) \in Seq(SUBSET Int)
         /\ Frames!WithRecent(tracks) # <<>>
         /\ tracks \subseteq Frames!Observed(Frames!WithRecent(tracks))
<1> DEFINE s == IF Len(recent) = KeyframeCapacity THEN Tail(recent) ELSE recent
           r == Append(s, tracks)
<1>1. s \in Seq(SUBSET Int)
  <2>1. CASE Len(recent) = KeyframeCapacity
    <3>1. recent # <<>>
      BY <2>1, FrameFacts
    <3> QED BY <2>1, <3>1
  <2>2. CASE Len(recent) # KeyframeCapacity
    BY <2>2
  <2> QED BY <2>1, <2>2
<1> HIDE DEF s
<1>2. r \in Seq(SUBSET Int) /\ Len(r) \in Nat \ {0} /\ r[Len(r)] = tracks /\ DOMAIN r = 1 .. Len(r)
  BY <1>1
<1>3. Frames!WithRecent(tracks) = r
  BY DEF Frames!WithRecent, s
<1> HIDE DEF r
<1>4. r # <<>> /\ Len(r) \in DOMAIN r
  BY <1>2
<1>5. tracks \subseteq UNION {r[i] : i \in DOMAIN r}
  BY <1>2, <1>4
<1> QED BY <1>2, <1>3, <1>4, <1>5 DEF Frames!Observed

LEMMA AppendIs ==
  ASSUME NEW S, NEW s \in Seq(S), NEW e \in S
  PROVE  /\ Append(s, e) \in Seq(S) /\ Append(s, e) # <<>> /\ Len(Append(s, e)) = Len(s) + 1
         /\ Append(s, e)[Len(s) + 1] = e
         /\ \A i \in 1 .. Len(s) : Append(s, e)[i] = s[i]
         /\ Len(s) \in Nat
OBVIOUS

LEMMA TailIs ==
  ASSUME NEW S, NEW s \in Seq(S), s # <<>>
  PROVE  /\ Tail(s) \in Seq(S) /\ Len(s) \in Nat \ {0} /\ Len(Tail(s)) = Len(s) - 1
         /\ s[1] \in S
         /\ \A i \in 1 .. Len(s) - 1 : Tail(s)[i] = s[i + 1]
OBVIOUS

LEMMA LengthIs ==
  ASSUME NEW S, NEW s \in Seq(S) PROVE Len(s) \in Nat /\ (Len(s) # 0 => s # <<>>)
OBVIOUS

LEMMA KnownIs ==
  ASSUME FramesInv, NEW pose \in Int, NEW time \in Int, time > frameTime
  PROVE  LET k == Frames!WithKnown(known, pose, time)
         IN /\ k \in KnownPoses /\ k # <<>>
            /\ Len(k) = IF streak + 1 < 2 THEN streak + 1 ELSE 2
            /\ k[Len(k)] = [pose |-> pose, time |-> time]
            /\ Len(k) = 2 => k[1].time < k[2].time
<1> DEFINE s == IF Len(known) = 2 THEN Tail(known) ELSE known
           e == [pose |-> pose, time |-> time]
           k == Append(s, e)
<1>1. /\ known \in KnownPoses /\ streak \in Nat /\ Len(known) = IF streak < 2 THEN streak ELSE 2
      /\ known # <<>> => known[Len(known)].time = frameTime
      /\ frameTime \in Int
  BY DEF FramesInv, FramesAgree
<1>2. /\ s \in KnownPoses /\ Len(s) = (IF streak + 1 < 2 THEN streak + 1 ELSE 2) - 1
      /\ Len(s) = 1 => s[1].time = frameTime
  <2> DEFINE n == Len(known)
             S == [pose : Int, time : Int]
  <2>3. known \in Seq(S) /\ n \in Nat /\ (n # 0 => known # <<>>)
    <3>1. known \in Seq(S)
      BY <1>1 DEF KnownPoses
    <3> HIDE DEF S
    <3> QED BY <3>1, LengthIs
  <2>4. n # 0 => known[n].time = frameTime
    BY <1>1, <2>3
  <2>1. CASE n = 2
    <3>1. known # <<>> /\ streak >= 2 /\ s = Tail(known)
      BY <1>1, <2>1, <2>3
    <3>2. known[2].time = frameTime
      BY <2>1, <2>4
    <3> HIDE DEF s, S
    <3>3. /\ Tail(known) \in Seq(S) /\ Len(Tail(known)) = n - 1
          /\ \A i \in 1 .. n - 1 : Tail(known)[i] = known[i + 1]
      BY <2>3, <3>1, TailIs
    <3>4. Tail(known)[1] = known[2]
      BY <2>1, <3>3
    <3>5. Len(s) = 1 /\ s[1].time = frameTime /\ s \in Seq(S)
      BY <2>1, <3>1, <3>2, <3>3, <3>4
    <3>6. (IF streak + 1 < 2 THEN streak + 1 ELSE 2) - 1 = 1
      BY <1>1, <3>1
    <3> QED BY <3>5, <3>6 DEF KnownPoses, S
  <2>2. CASE n # 2
    <3>1. streak < 2 /\ n = streak /\ s = known
      BY <1>1, <2>2
    <3>2. n = 1 => known[1].time = frameTime
      BY <2>4
    <3>3. (IF streak + 1 < 2 THEN streak + 1 ELSE 2) - 1 = streak
      BY <1>1, <3>1
    <3> HIDE DEF s
    <3> QED BY <1>1, <3>1, <3>2, <3>3
  <2> QED BY <2>1, <2>2
<1> HIDE DEF s
<1>3. e \in [pose : Int, time : Int] /\ e.time = time
  OBVIOUS
<1> HIDE DEF e
<1>4. /\ k \in KnownPoses /\ Len(k) = Len(s) + 1 /\ k[Len(s) + 1] = e /\ k # <<>>
      /\ \A i \in 1 .. Len(s) : k[i] = s[i]
      /\ Len(s) \in Nat
  <2>1. s \in Seq([pose : Int, time : Int])
    BY <1>2 DEF KnownPoses
  <2> DEFINE S == [pose : Int, time : Int]
  <2>2. s \in Seq(S) /\ e \in S
    BY <2>1, <1>3
  <2> HIDE DEF S
  <2>3. /\ k \in Seq(S) /\ k # <<>> /\ Len(k) = Len(s) + 1
        /\ k[Len(s) + 1] = e
        /\ \A i \in 1 .. Len(s) : k[i] = s[i]
        /\ Len(s) \in Nat
    BY <2>2, AppendIs
  <2> QED BY <2>3 DEF KnownPoses, S
<1>5. k # <<>>
  BY <1>4
<1> HIDE DEF k
<1>6. Len(k) = IF streak + 1 < 2 THEN streak + 1 ELSE 2
  BY <1>1, <1>2, <1>4
<1>7. Len(k) = 2 => k[1].time < k[2].time
  <2>1. ASSUME Len(k) = 2 PROVE k[1].time < k[2].time
    <3>1. Len(s) = 1
      <4> DEFINE n == Len(s)
                 m == Len(k)
      <4>1. n \in Nat /\ m = n + 1 /\ m = 2
        BY <1>4, <2>1
      <4> HIDE DEF n, m
      <4>2. n = 1
        BY <4>1
      <4> QED BY <4>2 DEF n
    <3>2. k[1] = s[1] /\ k[2] = e
      BY <1>4, <3>1
    <3> QED BY <1>1, <1>2, <1>3, <3>1, <3>2
  <2> QED BY <2>1
<1>8. k[Len(k)] = e
  BY <1>4
<1>9. Frames!WithKnown(known, pose, time) = k
  BY DEF Frames!WithKnown, k, s, e
<1> QED BY <1>4, <1>5, <1>6, <1>7, <1>8, <1>9 DEF e

\* What a keyframe, or none, does to the map and to the triangulator.
LEMMA KeyframeIs ==
  ASSUME FramesInv, NEW key \in BOOLEAN, NEW tracks \in SUBSET (visible \cup {nextTrack}), NEW cameras,
         Frames!Keyframe(key, tracks, cameras)
  PROVE  /\ recent' \in Seq(SUBSET Int) /\ lifted' \subseteq located'
         /\ located' \subseteq located \cup tracks
<1>1. /\ recent \in Seq(SUBSET Int) /\ lifted \subseteq located /\ tracks \in SUBSET Int
  BY DEF FramesInv, FramesAgree
<1>2. CASE key
  <2>1. PICK new \in Frames!Triangulated(tracks), more \in Frames!Lifted(tracks, cameras) :
          /\ recent' = Frames!WithRecent(tracks)
          /\ located' = (located \cup new \cup more) \cap Frames!Observed(Frames!WithRecent(tracks))
          /\ lifted' \in SUBSET Frames!Kept(new, tracks)
    BY <1>2 DEF Frames!Keyframe, Frames!AddKeyframe
  <2>2. new \subseteq tracks /\ more \subseteq tracks
    BY DEF Frames!Triangulated, Frames!Lifted
  <2>3. lifted' \subseteq (lifted \cup new) \cap tracks
    BY <2>1 DEF Frames!Kept
  <2> QED BY <1>1, <2>1, <2>2, <2>3, RecentIs
<1>3. CASE ~key
  BY <1>1, <1>3 DEF Frames!Keyframe
<1> QED BY <1>2, <1>3

\* A frame that is located: where it may be, and what is reported of it.
Tracked(time) ==
  \E key \in BOOLEAN, f \in Frames!Features(TRUE), cameras \in SUBSET {1} :
    /\ f.tracks \in SUBSET (visible \cup {nextTrack}) /\ f.next \in {nextTrack, nextTrack + 1}
    /\ nextTrack \in f.tracks => f.next = nextTrack + 1
    /\ visible' = f.tracks /\ nextTrack' = f.next
    /\ solver' = solver \/ (recent # <<>> /\ \E s \in Steps : solver' = solver + s)
    /\ Frames!Keyframe(key, f.tracks, cameras)
    /\ Frames!Report(solver', time)

LEMMA FeaturesIs ==
  ASSUME NEW key \in BOOLEAN, NEW f \in Frames!Features(key)
  PROVE  /\ f \in Frames!Features(TRUE)
         /\ f.tracks \in SUBSET (visible \cup {nextTrack}) /\ f.next \in {nextTrack, nextTrack + 1}
         /\ nextTrack \in f.tracks => f.next = nextTrack + 1
BY DEF Frames!Features

LEMMA TrackedIs ==
  ASSUME NEW time, Frames!TrackMulti(time) \/ Frames!TrackRGBD(time) \/ Frames!TrackMultisensor(time)
  PROVE  Tracked(time)
<1>1. CASE Frames!TrackMulti(time)
  <2>1. PICK key \in BOOLEAN : \E f \in Frames!Features(key) :
          /\ visible' = f.tracks /\ nextTrack' = f.next
          /\ Frames!SolveMulti(key, f.tracks)
          /\ Frames!Report(solver', time)
    BY <1>1 DEF Frames!TrackMulti
  <2>2. PICK f \in Frames!Features(key) :
          /\ visible' = f.tracks /\ nextTrack' = f.next
          /\ Frames!SolveMulti(key, f.tracks)
          /\ Frames!Report(solver', time)
    BY <2>1
  <2>3. /\ solver' = solver \/ (recent # <<>> /\ \E s \in Steps : solver' = solver + s)
        /\ Frames!Keyframe(key, f.tracks, {})
    BY <2>2 DEF Frames!SolveMulti, Frames!Moves
  <2>4. {} \in SUBSET {1}
    OBVIOUS
  <2> QED BY <2>2, <2>3, <2>4, FeaturesIs DEF Tracked
<1>2. CASE Frames!TrackRGBD(time)
  <2>1. PICK key \in BOOLEAN, cameras \in SUBSET {1} : \E f \in Frames!Features(key) :
          /\ visible' = f.tracks /\ nextTrack' = f.next
          /\ Frames!SolveRGBD(key, f.tracks, cameras)
          /\ Frames!Report(solver', time)
    BY <1>2 DEF Frames!TrackRGBD
  <2>2. PICK f \in Frames!Features(key) :
          /\ visible' = f.tracks /\ nextTrack' = f.next
          /\ Frames!SolveRGBD(key, f.tracks, cameras)
          /\ Frames!Report(solver', time)
    BY <2>1
  <2>3. /\ solver' = solver \/ (recent # <<>> /\ \E s \in Steps : solver' = solver + s)
        /\ Frames!Keyframe(key, f.tracks, cameras)
    BY <2>2 DEF Frames!SolveRGBD, Frames!ICPPoses, Frames!Moves
  <2> QED BY <2>2, <2>3, FeaturesIs DEF Tracked
<1>3. CASE Frames!TrackMultisensor(time)
  <2>1. PICK key \in BOOLEAN, cameras \in SUBSET {1} : \E f \in Frames!Features(key) :
          /\ visible' = f.tracks /\ nextTrack' = f.next
          /\ Frames!SolveMultisensor(key, f.tracks, cameras)
          /\ Frames!Report(solver', time)
    BY <1>3 DEF Frames!TrackMultisensor
  <2>2. PICK f \in Frames!Features(key) :
          /\ visible' = f.tracks /\ nextTrack' = f.next
          /\ Frames!SolveMultisensor(key, f.tracks, cameras)
          /\ Frames!Report(solver', time)
    BY <2>1
  <2>3. Frames!EstimatorPoses(f.tracks, cameras) \subseteq {solver} \cup {solver + s : s \in Steps}
    <3> DEFINE factors == {g \in {"tracks", "points", "planes"} :
                    CASE g = "tracks" -> Frames!Enough(f.tracks)
                      [] g = "points" -> cameras # {} /\ depthMap.points
                      [] g = "planes" -> cameras # {} /\ depthMap.planes}
    <3>1. Frames!EstimatorPoses(f.tracks, cameras) =
            CASE factors # {} -> Frames!Moves
              [] factors = {} /\ cameras # {} -> {solver}
              [] OTHER -> {}
      BY DEF Frames!EstimatorPoses
    <3> HIDE DEF factors
    <3>2. CASE factors # {}
      BY <3>1, <3>2 DEF Frames!Moves
    <3>3. CASE factors = {}
      BY <3>1, <3>3
    <3> QED BY <3>2, <3>3
  <2>4. solver' \in (IF recent = <<>> THEN {solver} ELSE Frames!EstimatorPoses(f.tracks, cameras))
    BY <2>2 DEF Frames!SolveMultisensor
  <2>5. solver' = solver \/ (recent # <<>> /\ \E s \in Steps : solver' = solver + s)
    <3>1. CASE recent = <<>>
      BY <2>4, <3>1
    <3>2. CASE recent # <<>>
      BY <2>3, <2>4, <3>2
    <3> QED BY <3>1, <3>2
  <2>6. Frames!Keyframe(key, f.tracks, cameras)
    BY <2>2 DEF Frames!SolveMultisensor
  <2> QED BY <2>2, <2>5, <2>6, FeaturesIs DEF Tracked
<1> QED BY <1>1, <1>2, <1>3

LEMMA TrackedFrames ==
  ASSUME FramesInv, NEW time \in Int, time > frameTime, frameTime' = time, Tracked(time),
         UNCHANGED <<kind, checkpoint>>
  PROVE  FramesInv' /\ Frames!PoseContinues
<1>1. PICK key \in BOOLEAN, f \in Frames!Features(TRUE), cameras \in SUBSET {1} :
    /\ f.tracks \in SUBSET (visible \cup {nextTrack}) /\ f.next \in {nextTrack, nextTrack + 1}
    /\ nextTrack \in f.tracks => f.next = nextTrack + 1
    /\ visible' = f.tracks /\ nextTrack' = f.next
    /\ solver' = solver \/ (recent # <<>> /\ \E s \in Steps : solver' = solver + s)
    /\ Frames!Keyframe(key, f.tracks, cameras)
    /\ Frames!Report(solver', time)
  BY DEF Tracked
<1>2. /\ known' = Frames!WithKnown(known, solver', time)
      /\ published' = published + (solver' - world)
      /\ world' = solver' /\ streak' = streak + 1
  BY <1>1 DEF Frames!Report
<1>3. /\ frameTime \in Int /\ world \in Int /\ published = world /\ streak \in Nat /\ solver \in Int
      /\ nextTrack \in Nat \ {0} /\ located \cup visible \subseteq 1 .. nextTrack - 1
      /\ solver = world \/ (kind = "multisensor" /\ recent = <<>> /\ solver = 0)
  BY DEF FramesInv, FramesAgree
<1>4. solver' \in Int
  BY <1>1, <1>3, FrameFacts
<1>5. /\ recent' \in Seq(SUBSET Int) /\ lifted' \subseteq located'
      /\ located' \subseteq located \cup visible'
  BY <1>1, KeyframeIs
<1>6. nextTrack' \in Nat \ {0} /\ located' \cup visible' \subseteq 1 .. nextTrack' - 1
  <2>1. CASE f.next = nextTrack
    BY <1>1, <1>3, <1>5, <2>1
  <2>2. CASE f.next = nextTrack + 1
    <3>1. visible \subseteq 1 .. nextTrack /\ located \subseteq 1 .. nextTrack /\ nextTrack \in 1 .. nextTrack
      <4>1. 1 .. nextTrack - 1 \subseteq 1 .. nextTrack /\ nextTrack \in 1 .. nextTrack
        BY <1>3
      <4> QED BY <1>3, <4>1
    <3>2. visible' \subseteq 1 .. nextTrack
      BY <1>1, <3>1
    <3>3. located' \subseteq 1 .. nextTrack
      BY <1>5, <3>1, <3>2
    <3>4. nextTrack' = nextTrack + 1 /\ nextTrack' - 1 = nextTrack /\ nextTrack' \in Nat \ {0}
      BY <1>1, <1>3, <2>2
    <3> QED BY <3>2, <3>3, <3>4
  <2> QED BY <1>1, <2>1, <2>2
<1>7. published' = world'
  <2>1. world + (solver' - world) = solver'
    <3> DEFINE a == solver'
    <3>1. a \in Int /\ world \in Int
      BY <1>3, <1>4
    <3> HIDE DEF a
    <3>2. world + (a - world) = a
      BY <3>1
    <3> QED BY <3>2 DEF a
  <2> QED BY <1>2, <1>3, <2>1
<1>8. FramesAgree(frameTime, published, world, known, located, visible, nextTrack, streak)'
  <2>1. LET k == known'
        IN /\ k \in KnownPoses /\ k # <<>>
           /\ Len(k) = IF streak + 1 < 2 THEN streak + 1 ELSE 2
           /\ k[Len(k)] = [pose |-> solver', time |-> time]
           /\ Len(k) = 2 => k[1].time < k[2].time
    BY <1>2, <1>4, KnownIs
  <2>2. streak' \in Nat /\ world' \in Int /\ world' = solver' /\ streak' = streak + 1
    BY <1>2, <1>3, <1>4
  <2> QED BY <1>6, <1>7, <2>1, <2>2 DEF FramesAgree
<1>9. FramesInv'
  BY <1>2, <1>4, <1>5, <1>8 DEF FramesInv, FramesAgree
<1>10. Frames!PoseContinues
  <2>1. CASE solver' = solver
    BY <1>2, <1>3, <2>1 DEF Frames!PoseContinues
  <2>2. CASE solver' # solver
    <3>1. PICK s \in Steps : solver' = solver + s /\ solver = world
      BY <1>1, <1>3, <2>2
    <3>2. published' - published = s
      BY <1>2, <1>3, <3>1, FrameFacts
    <3> QED BY <3>2 DEF Frames!PoseContinues
  <2> QED BY <2>1, <2>2
<1> QED BY <1>9, <1>10

LEMMA LostFrames ==
  ASSUME FramesInv, NEW time \in Int, frameTime' = time, Frames!Lose, UNCHANGED <<kind, checkpoint>>
  PROVE  FramesInv' /\ Frames!PoseContinues
<1>1. /\ known' = <<>> /\ visible' = {} /\ recent' = <<>> /\ located' = {} /\ lifted' = {}
      /\ streak' = 0 /\ UNCHANGED <<published, world>>
      /\ nextTrack' \in {nextTrack, nextTrack + 1}
      /\ solver' = IF kind = "multisensor" THEN 0 ELSE solver
  BY DEF Frames!Lose, Frames!Reset, Frames!SolverReset, Frames!MultisensorReset
<1>2. known' \in KnownPoses /\ Len(known') = 0 /\ recent' \in Seq(SUBSET Int)
  BY <1>1 DEF KnownPoses
<1>3. FramesInv'
  BY <1>1, <1>2 DEF FramesInv, FramesAgree
<1>4. published' - published = 0
  BY <1>1 DEF FramesInv, FramesAgree
<1> QED BY <1>3, <1>4 DEF Frames!PoseContinues

LEMMA FramesStep ==
  ASSUME FramesInv, Frames!Next PROVE FramesInv' /\ Frames!PoseContinues
<1>1. CASE Frames!Frame
  <2>1. PICK ts \in frameTime + 1 .. frameTime + 2 :
    /\ frameTime' = ts
    /\ UNCHANGED <<kind, checkpoint>>
    /\ \/ Frames!TrackMulti(ts) \/ Frames!TrackRGBD(ts) \/ Frames!TrackMultisensor(ts)
       \/ Frames!Lose
    BY <1>1 DEF Frames!Frame
  <2>2. ts \in Int /\ ts > frameTime
    BY DEF FramesInv, FramesAgree
  <2> QED BY <2>1, <2>2, TrackedIs, TrackedFrames, LostFrames
<1>2. CASE Frames!SaveState
  <2>1. /\ kind # "multisensor" /\ checkpoint' = <<Frames!Saved>>
        /\ UNCHANGED <<kind, frameTime, published, world, known, guess, solver, recent, located,
                 visible, nextTrack, lifted, depthMap, streak>>
    BY <1>2 DEF Frames!SaveState
  <2>2. /\ checkpoint'[1].now = frameTime /\ checkpoint'[1].published = published
        /\ checkpoint'[1].world = world /\ checkpoint'[1].known = known /\ checkpoint'[1].solver = solver
        /\ checkpoint'[1].recent = recent /\ checkpoint'[1].located = located
        /\ checkpoint'[1].visible = visible /\ checkpoint'[1].next = nextTrack /\ checkpoint'[1].streak = streak
    BY <2>1 DEF Frames!Saved
  <2>3. FramesAgree(frameTime, published, world, known, located, visible, nextTrack, streak)
    BY DEF FramesInv
  <2>4. FramesInv'
    BY <2>1, <2>2, <2>3 DEF FramesInv, FramesAgree
  <2>5. published' - published = 0
    BY <2>1 DEF FramesInv, FramesAgree
  <2> QED BY <2>4, <2>5 DEF Frames!PoseContinues
<1>3. CASE Frames!LoadState
  <2>1. /\ checkpoint # <<>>
        /\ frameTime' = checkpoint[1].now /\ published' = checkpoint[1].published /\ world' = checkpoint[1].world
        /\ known' = checkpoint[1].known /\ solver' = checkpoint[1].solver /\ recent' = checkpoint[1].recent
        /\ located' = checkpoint[1].located /\ visible' = checkpoint[1].visible
        /\ nextTrack' = checkpoint[1].next /\ streak' = checkpoint[1].streak
        /\ lifted' = {} /\ UNCHANGED <<kind, checkpoint>>
    BY <1>3 DEF Frames!LoadState
  <2>2. /\ kind # "multisensor" /\ checkpoint[1].solver = checkpoint[1].world
        /\ checkpoint[1].recent \in Seq(SUBSET Int)
        /\ FramesAgree(checkpoint[1].now, checkpoint[1].published, checkpoint[1].world, checkpoint[1].known,
             checkpoint[1].located, checkpoint[1].visible, checkpoint[1].next, checkpoint[1].streak)
    BY <2>1 DEF FramesInv
  <2>3. FramesInv'
    BY <2>1, <2>2 DEF FramesInv, FramesAgree
  <2> QED BY <1>3, <2>3 DEF Frames!PoseContinues
<1> QED BY <1>1, <1>2, <1>3 DEF Frames!Next

LEMMA FramesStay ==
  ASSUME FramesInv, UNCHANGED odometryFrames PROVE FramesInv' /\ Frames!PoseContinues
<1>1. FramesInv'
  BY DEF odometryFrames, FramesInv, FramesAgree
<1>2. published' - published = 0
  BY DEF odometryFrames, FramesInv, FramesAgree
<1> QED BY <1>1, <1>2 DEF Frames!PoseContinues

LEMMA FramesAreRight ==
  ASSUME FramesInv
  PROVE  /\ Frames!PosesAgree /\ Frames!KnownIsRecent
         /\ Frames!TriangulatedAreLocated /\ Frames!TracksAreOld
BY DEF FramesInv, FramesAgree, Frames!PosesAgree, Frames!KnownIsRecent, Frames!TriangulatedAreLocated,
  Frames!TracksAreOld

-----------------------------------------------------------------------------
(* The poses of past frames                                                *)

\* What is used of the group of poses.
LEMMA GroupFacts ==
  /\ Id \in Pose
  /\ \A a \in Pose : Inv(a) \in Pose /\ Mul(Id, a) = a /\ Mul(a, Id) = a /\ Mul(Inv(a), a) = Id
  /\ \A a, b \in Pose : Mul(a, b) \in Pose
  /\ \A a, b, c \in Pose : Mul(Mul(a, b), c) = Mul(a, Mul(b, c))
  /\ \A a, b \in Pose : Mul(a, Mul(Inv(a), b)) = b /\ Mul(Inv(a), Mul(a, b)) = b
<1>1. \A a \in Pose : Mul(Inv(a), a) = Id /\ Mul(a, Inv(a)) = Id
  BY PoseGroupAssumption
<1>2. \A a, b \in Pose : Mul(a, b) \in Pose /\ Mul(Id, b) = b /\ Inv(a) \in Pose
  BY PoseGroupAssumption
<1>3. \A a, b, c \in Pose : Mul(Mul(a, b), c) = Mul(a, Mul(b, c))
  BY PoseGroupAssumption
<1>4. ASSUME NEW a \in Pose, NEW b \in Pose
      PROVE  Mul(a, Mul(Inv(a), b)) = b /\ Mul(Inv(a), Mul(a, b)) = b
  <2>1. Mul(Mul(a, Inv(a)), b) = b /\ Mul(Mul(Inv(a), a), b) = b
    BY <1>1, <1>2
  <2> QED BY <1>2, <1>3, <2>1
<1> QED BY <1>1, <1>3, <1>4, PoseGroupAssumption

\* A common first motion does not change the motion between two poses.
LEMMA SameStart ==
  ASSUME NEW p \in Pose, NEW a \in Pose, NEW b \in Pose
  PROVE  Mul(Inv(Mul(p, a)), Mul(p, b)) = Mul(Inv(a), b)
<1>1. Mul(p, a) \in Pose /\ Mul(Inv(a), b) \in Pose /\ Inv(a) \in Pose
  BY GroupFacts
<1>2. Mul(Mul(p, a), Mul(Inv(a), b)) = Mul(p, Mul(a, Mul(Inv(a), b)))
  BY <1>1, GroupFacts
<1>3. Mul(a, Mul(Inv(a), b)) = b
  BY GroupFacts
<1>4. Mul(Inv(Mul(p, a)), Mul(Mul(p, a), Mul(Inv(a), b))) = Mul(Inv(a), b)
  BY <1>1, GroupFacts
<1> QED BY <1>2, <1>3, <1>4

\* By odometry alone: the pose of a frame, its keyframe, the keyframes, and the
\* motion to a keyframe from the keyframe before.
PoseOf(f) == odometry[f].pose
KeyOf(f) == odometry[f].keyframe
Keys == {k \in 1 .. frames : KeyOf(k) = k}
From(k) == IF k = 1 THEN PoseOf(1) ELSE Mul(Inv(PoseOf(KeyOf(k - 1))), PoseOf(k))

\* The keyframe of a frame is the newest that is not newer than it, and the
\* trajectory has its motion since.
FramesFollow ==
  /\ frames \in 0 .. MaxFrame
  /\ DOMAIN odometry = 1 .. frames /\ DOMAIN trajectory = 1 .. frames
  /\ \A f \in 1 .. frames :
       /\ PoseOf(f) \in Pose
       /\ KeyOf(f) \in Keys /\ KeyOf(f) <= f /\ \A k \in Keys : k <= f => k <= KeyOf(f)
       /\ trajectory[f] = Mul(Inv(PoseOf(KeyOf(f))), PoseOf(f))
  /\ frames = 0 => track = Id
  /\ frames # 0 => track = trajectory[frames]

\* The graph had every keyframe that is not queued, and the queue ascends.
KeyframesQueue ==
  /\ queue \in Seq([frame : Nat, from : Pose])
  /\ \A i \in 1 .. Len(queue) :
       queue[i].frame \in Keys /\ queue[i].from = From(queue[i].frame)
  /\ \A i, j \in 1 .. Len(queue) : i < j => queue[i].frame < queue[j].frame
  /\ sources \subseteq Keys
  /\ \A k \in sources : \A i \in 1 .. Len(queue) : k < queue[i].frame
  /\ \A k \in Keys : k \in sources \/ \E i \in 1 .. Len(queue) : queue[i].frame = k

\* F leads every keyframe along the table of the merged ones to its end.
MotionTo == [node : Lookup!Frame, motion : Pose]

Leads(F) ==
  /\ F \in [Lookup!Frame -> MotionTo]
  /\ \A k \in Lookup!Frame :
       F[k] = IF k \notin DOMAIN removed THEN [node |-> k, motion |-> Id]
              ELSE [node |-> F[removed[k].node].node,
                    motion |-> Mul(F[removed[k].node].motion, removed[k].motion)]

\* Every set of merged keyframes has one that was merged into none of them.
MergesEnd ==
  \A S \in SUBSET DOMAIN removed : S # {} => \E k \in S : removed[k].node \notin S

\* A keyframe that had a source is in the graph or was merged into one that
\* had; the newest is in the graph; the table can be followed to its end.
GraphHolds ==
  /\ looped \in BOOLEAN
  /\ DOMAIN hypothesis \cup DOMAIN removed = sources
  /\ DOMAIN hypothesis \cap DOMAIN removed = {}
  /\ \A k \in DOMAIN hypothesis : hypothesis[k] \in Pose
  /\ \A k \in DOMAIN removed : removed[k].node \in sources /\ removed[k].motion \in Pose
  /\ \A k \in sources : (\A i \in sources : i <= k) => k \in DOMAIN hypothesis
  /\ MergesEnd
  /\ \E F : Leads(F)

\* Until a loop is closed the graph has the poses of odometry.
GraphFollows ==
  ~looped =>
    /\ \A k \in DOMAIN hypothesis : hypothesis[k] = PoseOf(k)
    /\ \A k \in DOMAIN removed : PoseOf(k) = Mul(PoseOf(removed[k].node), removed[k].motion)

LookupInv == FramesFollow /\ KeyframesQueue /\ GraphHolds /\ GraphFollows

LEMMA LookupFacts == Motion \subseteq Pose /\ MaxFrame \in Nat
BY MapPartsAssumption

LEMMA LookupInit == Lookup!Init => LookupInv
<1> SUFFICES ASSUME Lookup!Init PROVE LookupInv
  OBVIOUS
<1>1. /\ frames = 0 /\ DOMAIN odometry = {} /\ track = Id /\ DOMAIN trajectory = {}
      /\ queue = <<>> /\ DOMAIN hypothesis = {} /\ sources = {} /\ DOMAIN removed = {}
      /\ looped = FALSE
  BY DEF Lookup!Init, Lookup!Nothing
<1>2. Keys = {}
  BY <1>1 DEF Keys
<1>3. FramesFollow
  BY <1>1, LookupFacts DEF FramesFollow
<1>4. KeyframesQueue
  BY <1>1, <1>2 DEF KeyframesQueue
<1>5. MergesEnd
  BY <1>1 DEF MergesEnd
<1>6. Leads([k \in Lookup!Frame |-> [node |-> k, motion |-> Id]])
  BY <1>1, GroupFacts DEF Leads, MotionTo
<1>7. GraphHolds
  BY <1>1, <1>5, <1>6 DEF GraphHolds
<1>8. GraphFollows
  BY <1>1 DEF GraphFollows
<1> QED BY <1>3, <1>4, <1>7, <1>8 DEF LookupInv

\* The greatest of keyframes.
LEMMA MaxIs ==
  ASSUME FramesFollow, NEW S, S \subseteq Keys, S # {}
  PROVE  Lookup!Max(S) \in S /\ \A k \in S : k <= Lookup!Max(S)
<1>1. S \subseteq 0 .. frames /\ frames \in Nat
  BY LookupFacts DEF FramesFollow, Keys
<1>2. PICK m \in S : \A k \in S : k <= m
  BY <1>1, GreatestElement
<1>3. \A k \in S : m >= k
  BY <1>1, <1>2
<1>4. Lookup!Max(S) \in S /\ \A k \in S : Lookup!Max(S) >= k
  BY <1>3 DEF Lookup!Max
<1> QED BY <1>1, <1>4
\* The newest keyframe that the graph had is in the graph.
LEMMA HeadIs ==
  ASSUME LookupInv, sources # {}
  PROVE  /\ Lookup!HeadKeyframe \in sources
         /\ Lookup!HeadKeyframe \in DOMAIN hypothesis
         /\ \A k \in sources : k <= Lookup!HeadKeyframe
<1>1. Lookup!HeadKeyframe = Lookup!Max(sources)
  BY DEF Lookup!HeadKeyframe
<1>2. FramesFollow /\ sources \subseteq Keys
  BY DEF LookupInv, KeyframesQueue
<1>3. Lookup!Max(sources) \in sources /\ \A k \in sources : k <= Lookup!Max(sources)
  BY <1>2, MaxIs
<1> QED BY <1>1, <1>3 DEF LookupInv, GraphHolds

LEMMA WithIs ==
  ASSUME NEW f, NEW k, NEW value
  PROVE  /\ DOMAIN Lookup!With(f, k, value) = DOMAIN f \cup {k}
         /\ Lookup!With(f, k, value)[k] = value
         /\ \A x \in DOMAIN f : x # k => Lookup!With(f, k, value)[x] = f[x]
BY DEF Lookup!With

\* A new frame is its own keyframe or has that of the frame before.
LEMMA TrackResultIs ==
  ASSUME LookupInv, Lookup!TrackResult
  PROVE  \E pose \in Pose, key \in 1 .. frames + 1 :
           /\ frames < MaxFrame /\ frames' = frames + 1
           /\ DOMAIN odometry' = 1 .. frames + 1 /\ DOMAIN trajectory' = 1 .. frames + 1
           /\ \A f \in 1 .. frames : odometry'[f] = odometry[f] /\ trajectory'[f] = trajectory[f]
           /\ odometry'[frames + 1].pose = pose /\ odometry'[frames + 1].keyframe = key
           /\ key = frames + 1 \/ (frames # 0 /\ key = KeyOf(frames))
           /\ track' = trajectory'[frames + 1]
           /\ key = frames + 1 =>
                /\ trajectory'[frames + 1] = Id
                /\ frames = 0 => queue' = Append(queue, [frame |-> frames + 1, from |-> pose])
                /\ frames # 0 =>
                     queue' = Append(queue, [frame |-> frames + 1,
                                             from |-> Mul(Inv(PoseOf(KeyOf(frames))), pose)])
           /\ key # frames + 1 =>
                /\ trajectory'[frames + 1] = Mul(Inv(PoseOf(KeyOf(frames))), pose)
                /\ queue' = queue
<1> DEFINE last == IF frames = 0 THEN Id ELSE odometry[frames].pose
<1>1. PICK delta \in Motion : \E keyframe \in BOOLEAN :
        /\ frames = 0 => keyframe
        /\ frames' = frames + 1
        /\ odometry' = Lookup!With(odometry, frames + 1,
             [pose |-> Mul(last, delta),
              keyframe |-> IF keyframe THEN frames + 1 ELSE odometry[frames].keyframe])
        /\ track' = Lookup!Kept(Mul(track, delta), keyframe)
        /\ trajectory' = Lookup!With(trajectory, frames + 1, Lookup!Kept(Mul(track, delta), keyframe))
        /\ queue' = IF keyframe THEN Append(queue, [frame |-> frames + 1, from |-> Mul(track, delta)])
                    ELSE queue
  BY DEF Lookup!TrackResult
<1>2. PICK keyframe \in BOOLEAN :
        /\ frames = 0 => keyframe
        /\ frames' = frames + 1
        /\ odometry' = Lookup!With(odometry, frames + 1,
             [pose |-> Mul(last, delta),
              keyframe |-> IF keyframe THEN frames + 1 ELSE odometry[frames].keyframe])
        /\ track' = Lookup!Kept(Mul(track, delta), keyframe)
        /\ trajectory' = Lookup!With(trajectory, frames + 1, Lookup!Kept(Mul(track, delta), keyframe))
        /\ queue' = IF keyframe THEN Append(queue, [frame |-> frames + 1, from |-> Mul(track, delta)])
                    ELSE queue
  BY <1>1
<1> DEFINE pose == Mul(last, delta)
           key == IF keyframe THEN frames + 1 ELSE KeyOf(frames)
           moved == Mul(track, delta)
<1>3. frames \in Nat /\ frames < MaxFrame /\ delta \in Pose
  BY LookupFacts DEF LookupInv, FramesFollow, Lookup!TrackResult
<1>4. /\ frames = 0 => last = Id /\ track = Id
      /\ frames # 0 =>
           /\ last = PoseOf(frames) /\ last \in Pose /\ KeyOf(frames) \in 1 .. frames
           /\ PoseOf(KeyOf(frames)) \in Pose
           /\ track = Mul(Inv(PoseOf(KeyOf(frames))), last)
  BY <1>3 DEF LookupInv, FramesFollow, PoseOf, Keys
<1> HIDE DEF last
<1>5. pose \in Pose
  <2>1. last \in Pose
    BY <1>4, GroupFacts
  <2> QED BY <1>3, <2>1, GroupFacts
<1>6. key \in 1 .. frames + 1
  BY <1>2, <1>3, <1>4
<1>7. /\ frames = 0 => moved = pose
      /\ frames # 0 => moved = Mul(Inv(PoseOf(KeyOf(frames))), pose)
  <2>1. CASE frames = 0
    BY <1>4, <2>1
  <2>2. CASE frames # 0
    <3> DEFINE start == Inv(PoseOf(KeyOf(frames)))
    <3>1. start \in Pose /\ last \in Pose /\ track = Mul(start, last)
      BY <1>4, <2>2, GroupFacts
    <3> HIDE DEF start
    <3>2. Mul(Mul(start, last), delta) = Mul(start, Mul(last, delta))
      BY <1>3, <3>1, GroupFacts
    <3> QED BY <2>2, <3>1, <3>2 DEF start
  <2> QED BY <2>1, <2>2
<1>8. /\ DOMAIN odometry' = DOMAIN odometry \cup {frames + 1}
      /\ DOMAIN trajectory' = DOMAIN trajectory \cup {frames + 1}
      /\ odometry'[frames + 1] = [pose |-> pose, keyframe |-> key]
      /\ trajectory'[frames + 1] = Lookup!Kept(moved, keyframe)
      /\ \A f \in DOMAIN odometry : f # frames + 1 => odometry'[f] = odometry[f]
      /\ \A f \in DOMAIN trajectory : f # frames + 1 => trajectory'[f] = trajectory[f]
  <2> DEFINE o == [pose |-> Mul(last, delta),
                   keyframe |-> IF keyframe THEN frames + 1 ELSE odometry[frames].keyframe]
             t == Lookup!Kept(Mul(track, delta), keyframe)
             n == frames + 1
  <2>1. odometry' = Lookup!With(odometry, n, o) /\ trajectory' = Lookup!With(trajectory, n, t)
    BY <1>2
  <2>2. o = [pose |-> pose, keyframe |-> key] /\ t = Lookup!Kept(moved, keyframe)
    BY DEF KeyOf
  <2> HIDE DEF o, t, n
  <2>3. /\ DOMAIN odometry' = DOMAIN odometry \cup {n}
        /\ odometry'[n] = o
        /\ \A f \in DOMAIN odometry : f # n => odometry'[f] = odometry[f]
    BY <2>1 DEF Lookup!With
  <2>4. /\ DOMAIN trajectory' = DOMAIN trajectory \cup {n}
        /\ trajectory'[n] = t
        /\ \A f \in DOMAIN trajectory : f # n => trajectory'[f] = trajectory[f]
    BY <2>1 DEF Lookup!With
  <2> QED BY <2>2, <2>3, <2>4 DEF n
<1>9. DOMAIN odometry = 1 .. frames /\ DOMAIN trajectory = 1 .. frames
  BY DEF LookupInv, FramesFollow
<1>10. /\ DOMAIN odometry' = 1 .. frames + 1 /\ DOMAIN trajectory' = 1 .. frames + 1
       /\ \A f \in 1 .. frames : odometry'[f] = odometry[f] /\ trajectory'[f] = trajectory[f]
  <2>1. 1 .. frames + 1 = (1 .. frames) \cup {frames + 1} /\ \A f \in 1 .. frames : f # frames + 1
    BY <1>3
  <2> QED BY <1>8, <1>9, <2>1
<1>11. odometry'[frames + 1].pose = pose /\ odometry'[frames + 1].keyframe = key
  BY <1>8
<1>12. key = frames + 1 <=> keyframe
  BY <1>2, <1>3, <1>4
<1>13. track' = trajectory'[frames + 1] /\ trajectory'[frames + 1] = IF keyframe THEN Id ELSE moved
  BY <1>2, <1>8 DEF Lookup!Kept
<1>14. /\ keyframe => queue' = Append(queue, [frame |-> frames + 1, from |-> moved])
       /\ ~keyframe => queue' = queue
  BY <1>2
<1>15. key = frames + 1 \/ (frames # 0 /\ key = KeyOf(frames))
  BY <1>2
<1> HIDE DEF pose, key, moved
<1> QED BY <1>2, <1>3, <1>5, <1>6, <1>7, <1>10, <1>11, <1>12, <1>13, <1>14, <1>15
LEMMA TrackResultLookup == ASSUME LookupInv, Lookup!TrackResult PROVE LookupInv'
<1> DEFINE n == frames + 1
<1>1. PICK pose \in Pose, key \in 1 .. n :
        /\ frames < MaxFrame /\ frames' = n
        /\ DOMAIN odometry' = 1 .. n /\ DOMAIN trajectory' = 1 .. n
        /\ \A f \in 1 .. frames : odometry'[f] = odometry[f] /\ trajectory'[f] = trajectory[f]
        /\ odometry'[n].pose = pose /\ odometry'[n].keyframe = key
        /\ key = n \/ (frames # 0 /\ key = KeyOf(frames))
        /\ track' = trajectory'[n]
        /\ key = n =>
             /\ trajectory'[n] = Id
             /\ frames = 0 => queue' = Append(queue, [frame |-> n, from |-> pose])
             /\ frames # 0 =>
                  queue' = Append(queue, [frame |-> n,
                                          from |-> Mul(Inv(PoseOf(KeyOf(frames))), pose)])
        /\ key # n =>
             /\ trajectory'[n] = Mul(Inv(PoseOf(KeyOf(frames))), pose)
             /\ queue' = queue
  BY TrackResultIs
<1>2. hypothesis' = hypothesis /\ sources' = sources /\ removed' = removed /\ looped' = looped
  BY DEF Lookup!TrackResult
<1>3. frames \in Nat /\ MaxFrame \in Nat /\ n \in Nat /\ n <= MaxFrame /\ n # 0
  BY <1>1, LookupFacts DEF LookupInv, FramesFollow
<1>4. \A f \in 1 .. n : f \in 1 .. frames \/ f = n
  BY <1>3
<1>5. /\ \A f \in 1 .. frames : PoseOf(f)' = PoseOf(f) /\ KeyOf(f)' = KeyOf(f)
      /\ \A f \in 1 .. frames : f \in 1 .. n /\ f < n
      /\ n \in 1 .. n /\ n \notin 1 .. frames
  BY <1>1, <1>3 DEF PoseOf, KeyOf
<1>6. ASSUME NEW f, f = n PROVE PoseOf(f)' = pose /\ KeyOf(f)' = key
  BY <1>1, <1>6 DEF PoseOf, KeyOf
<1>7. \A f \in 1 .. frames :
        /\ PoseOf(f) \in Pose
        /\ KeyOf(f) \in Keys /\ KeyOf(f) <= f /\ \A k \in Keys : k <= f => k <= KeyOf(f)
        /\ trajectory[f] = Mul(Inv(PoseOf(KeyOf(f))), PoseOf(f))
  BY DEF LookupInv, FramesFollow
<1>8. Keys \subseteq 1 .. frames
  BY DEF Keys
<1>9. Keys' = Keys \cup (IF key = n THEN {n} ELSE {})
  <2>1. ASSUME NEW k \in 1 .. n
        PROVE  KeyOf(k)' = k <=> k \in Keys \cup (IF key = n THEN {n} ELSE {})
    <3>1. CASE k \in 1 .. frames
      BY <1>5, <3>1 DEF Keys
    <3>2. CASE k = n
      <4>1. KeyOf(k)' = key
        BY <1>6, <3>2
      <4> QED BY <1>5, <1>8, <3>2, <4>1
    <3> QED BY <1>4, <3>1, <3>2
  <2>2. Keys' = {k \in 1 .. n : KeyOf(k)' = k}
    BY <1>1 DEF Keys
  <2>3. Keys \cup (IF key = n THEN {n} ELSE {}) \subseteq 1 .. n
    BY <1>5, <1>8
  <2> QED BY <2>1, <2>2, <2>3
<1>10. key \in Keys' /\ key <= n /\ \A k \in Keys' : k <= n => k <= key
  <2>1. CASE key = n
    BY <1>3, <1>8, <1>9, <2>1
  <2>2. CASE key # n
    <3>1. frames # 0 /\ key = KeyOf(frames) /\ frames \in 1 .. frames /\ Keys' = Keys
      BY <1>1, <1>3, <1>9, <2>2
    <3>2. key \in Keys /\ key <= frames /\ \A k \in Keys : k <= frames => k <= key
      BY <1>7, <3>1
    <3>3. \A k \in Keys : k <= frames /\ k \in Nat
      BY <1>3, <1>8
    <3> QED BY <1>3, <3>1, <3>2, <3>3
  <2> QED BY <2>1, <2>2
<1> HIDE DEF n
<1>11. FramesFollow'
  <2>1. ASSUME NEW f \in 1 .. n
        PROVE  /\ PoseOf(f)' \in Pose
               /\ KeyOf(f)' \in Keys' /\ KeyOf(f)' <= f /\ \A k \in Keys' : k <= f => k <= KeyOf(f)'
               /\ trajectory'[f] = Mul(Inv(PoseOf(KeyOf(f))), PoseOf(f))'
    <3>1. CASE f \in 1 .. frames
      <4>1. /\ PoseOf(f) \in Pose /\ KeyOf(f) \in Keys /\ KeyOf(f) <= f
            /\ \A k \in Keys : k <= f => k <= KeyOf(f)
            /\ trajectory[f] = Mul(Inv(PoseOf(KeyOf(f))), PoseOf(f))
        BY <1>7, <3>1
      <4>2. /\ PoseOf(f)' = PoseOf(f) /\ KeyOf(f)' = KeyOf(f) /\ trajectory'[f] = trajectory[f]
            /\ KeyOf(f) \in 1 .. frames
        BY <1>1, <1>5, <1>8, <3>1, <4>1
      <4>3. PoseOf(KeyOf(f))' = PoseOf(KeyOf(f))
        <5> DEFINE k == KeyOf(f)
        <5>1. odometry'[k] = odometry[k] /\ KeyOf(f)' = k
          BY <1>1, <4>2
        <5> HIDE DEF k
        <5>2. odometry'[KeyOf(f)'].pose = odometry[k].pose
          BY <5>1
        <5> QED BY <5>2 DEF k, PoseOf
      <4>4. \A k \in Keys' : k <= f => k \in Keys
        BY <1>3, <1>5, <1>9, <3>1
      <4> QED BY <1>9, <4>1, <4>2, <4>3, <4>4
    <3>2. CASE f = n
      <4>1. PoseOf(f)' = pose /\ KeyOf(f)' = key
        BY <1>6, <3>2
      <4>2. trajectory'[f] = Mul(Inv(PoseOf(KeyOf(f))'), PoseOf(f)')
        <5>1. CASE key = n
          <6>1. odometry'[KeyOf(f)'].pose = pose
            BY <1>1, <4>1, <5>1
          <6>2. PoseOf(KeyOf(f))' = pose
            BY <6>1 DEF PoseOf
          <6>3. Mul(Inv(pose), pose) = Id
            BY GroupFacts
          <6> QED BY <1>1, <3>2, <4>1, <5>1, <6>2, <6>3
        <5>2. CASE key # n
          <6>1. frames # 0 /\ key = KeyOf(frames) /\ frames \in 1 .. frames
            BY <1>1, <1>3, <5>2
          <6>2. key \in 1 .. frames
            BY <1>7, <1>8, <6>1
          <6>3. odometry'[key] = odometry[KeyOf(frames)]
            BY <1>1, <6>1, <6>2
          <6>4. odometry'[KeyOf(f)'].pose = odometry[KeyOf(frames)].pose
            BY <4>1, <6>3
          <6>5. PoseOf(KeyOf(f))' = PoseOf(KeyOf(frames))
            BY <6>4 DEF PoseOf
          <6> QED BY <1>1, <3>2, <4>1, <5>2, <6>5
        <5> QED BY <5>1, <5>2
      <4> QED BY <1>10, <3>2, <4>1, <4>2
    <3> QED BY <1>4, <3>1, <3>2 DEF n
  <2>2. frames' \in 0 .. MaxFrame /\ frames' # 0
    BY <1>1, <1>3
  <2>3. DOMAIN odometry' = 1 .. frames' /\ DOMAIN trajectory' = 1 .. frames' /\ track' = trajectory'[frames']
    BY <1>1
  <2>4. \A f \in 1 .. frames' :
               /\ PoseOf(f)' \in Pose
               /\ KeyOf(f)' \in Keys' /\ KeyOf(f)' <= f /\ \A k \in Keys' : k <= f => k <= KeyOf(f)'
               /\ trajectory'[f] = Mul(Inv(PoseOf(KeyOf(f))), PoseOf(f))'
    BY <1>1, <2>1
  <2> QED BY <2>2, <2>3, <2>4 DEF FramesFollow
<1>12. ASSUME NEW f \in 1 .. frames PROVE PoseOf(KeyOf(f))' = PoseOf(KeyOf(f))
  <2> DEFINE k == KeyOf(f)
  <2>1. k \in 1 .. frames
    BY <1>7, <1>8
  <2>2. odometry'[k] = odometry[k] /\ KeyOf(f)' = k
    BY <1>1, <1>5, <2>1
  <2> HIDE DEF k
  <2>3. odometry'[KeyOf(f)'].pose = odometry[k].pose
    BY <2>2
  <2> QED BY <2>3 DEF k, PoseOf
<1>13. ASSUME NEW k \in Keys PROVE From(k)' = From(k)
  <2>1. k \in 1 .. frames /\ PoseOf(k)' = PoseOf(k)
    BY <1>5, <1>8
  <2>2. CASE k = 1
    <3>1. From(k)' = PoseOf(1)' /\ From(k) = PoseOf(1)
      BY <2>2 DEF From
    <3> QED BY <1>5, <2>1, <2>2, <3>1
  <2>3. CASE k # 1
    <3> DEFINE f == k - 1
    <3>1. f \in 1 .. frames
      BY <1>3, <2>1, <2>3
    <3>2. From(k) = Mul(Inv(PoseOf(KeyOf(f))), PoseOf(k)) /\ From(k)' = Mul(Inv(PoseOf(KeyOf(f))'), PoseOf(k)')
      BY <2>3 DEF From
    <3> HIDE DEF f
    <3>3. PoseOf(KeyOf(f))' = PoseOf(KeyOf(f))
      BY <1>12, <3>1
    <3> QED BY <2>1, <3>2, <3>3
  <2> QED BY <2>2, <2>3
<1>14. ASSUME NEW k, k = n, key = n
       PROVE  queue' = Append(queue, [frame |-> k, from |-> From(k)']) /\ From(k)' \in Pose
  <2>1. PoseOf(k)' = pose
    BY <1>6, <1>14
  <2>2. CASE frames = 0
    <3>1. k = 1
      BY <1>14, <2>2 DEF n
    <3>2. From(k)' = pose
      BY <2>1, <3>1 DEF From
    <3> QED BY <1>1, <1>14, <2>2, <3>2
  <2>3. CASE frames # 0
    <3> DEFINE f == k - 1
    <3>1. f = frames /\ f \in 1 .. frames /\ k # 1
      BY <1>3, <1>14, <2>3 DEF n
    <3>2. From(k)' = Mul(Inv(PoseOf(KeyOf(f))'), PoseOf(k)')
      BY <3>1 DEF From
    <3> HIDE DEF f
    <3>3. PoseOf(KeyOf(f))' = PoseOf(KeyOf(f))
      BY <1>12, <3>1
    <3>4. PoseOf(KeyOf(f)) \in Pose
      BY <1>7, <1>8, <3>1
    <3>5. From(k)' = Mul(Inv(PoseOf(KeyOf(frames))), pose)
      BY <2>1, <3>1, <3>2, <3>3
    <3> QED BY <1>1, <1>14, <2>3, <3>1, <3>4, <3>5, GroupFacts
  <2> QED BY <2>2, <2>3
<1>15. /\ queue \in Seq([frame : Nat, from : Pose])
       /\ \A i \in 1 .. Len(queue) :
            queue[i].frame \in Keys /\ queue[i].from = From(queue[i].frame)
       /\ \A i, j \in 1 .. Len(queue) : i < j => queue[i].frame < queue[j].frame
       /\ sources \subseteq Keys
       /\ \A k \in sources : \A i \in 1 .. Len(queue) : k < queue[i].frame
       /\ \A k \in Keys : k \in sources \/ \E i \in 1 .. Len(queue) : queue[i].frame = k
  BY DEF LookupInv, KeyframesQueue
<1>16. \A k \in Keys : k \in Nat /\ k < n
  BY <1>3, <1>5, <1>8
<1>17. ASSUME NEW i \in 1 .. Len(queue)
       PROVE  /\ queue[i].frame \in Keys
              /\ \A v : v = queue[i].frame => queue[i].from = From(v)'
  BY <1>13, <1>15
<1>18. KeyframesQueue'
  <2>1. CASE key # n
    <3>1. queue' = queue /\ Keys' = Keys
      BY <1>1, <1>9, <2>1
    <3>2. ASSUME NEW i \in 1 .. Len(queue') PROVE queue'[i].from = From(queue[i].frame)'
      <4> DEFINE v == queue[i].frame
      <4>1. i \in 1 .. Len(queue) /\ queue'[i] = queue[i]
        BY <3>1
      <4>2. queue[i].from = From(v)'
        BY <1>17, <4>1
      <4> QED BY <4>1, <4>2
    <3> QED BY <1>2, <1>15, <3>1, <3>2 DEF KeyframesQueue
  <2>2. CASE key = n
    <3> DEFINE from == queue'[Len(queue) + 1].from
               e == [frame |-> n, from |-> from]
    <3>1. ASSUME NEW k, k = n
          PROVE  /\ queue' = Append(queue, [frame |-> k, from |-> From(k)'])
                 /\ From(k)' \in Pose
      BY <1>14, <2>2, <3>1
    <3>2. queue' = Append(queue, e) /\ from \in Pose /\ \A v : v = n => from = From(v)'
      <4>1. ASSUME NEW k, k = n
            PROVE  queue' = Append(queue, [frame |-> n, from |-> from]) /\ from \in Pose /\ from = From(k)'
        <5> DEFINE g == From(k)'
        <5>1. queue' = Append(queue, [frame |-> n, from |-> g]) /\ g \in Pose
          BY <3>1, <4>1
        <5> HIDE DEF g
        <5>2. [frame |-> n, from |-> g] \in [frame : Nat, from : Pose]
          BY <1>3, <5>1
        <5>3. queue'[Len(queue) + 1] = [frame |-> n, from |-> g]
          BY <1>15, <5>1, <5>2, AppendIs
        <5>4. from = g
          BY <5>3
        <5> HIDE DEF from
        <5> QED BY <5>1, <5>4 DEF g
      <4>2. \A v : v = n => from = From(v)'
        BY <4>1
      <4>3. queue' = Append(queue, [frame |-> n, from |-> from]) /\ from \in Pose
        BY <4>1
      <4> QED BY <4>2, <4>3
    <3> HIDE DEF from
    <3>3. e \in [frame : Nat, from : Pose] /\ e.frame = n /\ e.from = from
      BY <1>3, <3>2
    <3> HIDE DEF e
    <3>4. /\ queue' \in Seq([frame : Nat, from : Pose]) /\ Len(queue') = Len(queue) + 1
          /\ queue'[Len(queue) + 1] = e
          /\ \A i \in 1 .. Len(queue) : queue'[i] = queue[i]
          /\ Len(queue) \in Nat
      BY <1>15, <3>2, <3>3, AppendIs
    <3>5. \A i \in 1 .. Len(queue') : i \in 1 .. Len(queue) \/ i = Len(queue) + 1
      BY <3>4
    <3>6. \A i \in 1 .. Len(queue) : i \in 1 .. Len(queue') /\ i < Len(queue) + 1
      BY <3>4
    <3>7. Len(queue) + 1 \in 1 .. Len(queue')
      BY <3>4
    <3>8. Keys' = Keys \cup {n}
      BY <1>9, <2>2
    <3>9. \A i \in 1 .. Len(queue') :
            queue'[i].frame \in Keys' /\ \A v : v = queue'[i].frame => queue'[i].from = From(v)'
      <4>1. ASSUME NEW i \in 1 .. Len(queue)
            PROVE  queue'[i].frame \in Keys' /\ \A v : v = queue'[i].frame => queue'[i].from = From(v)'
        BY <1>17, <3>4, <3>8
      <4>2. queue'[Len(queue) + 1].frame = n /\ queue'[Len(queue) + 1].from = from
        BY <3>3, <3>4
      <4>3. ASSUME NEW i, i = Len(queue) + 1
            PROVE  queue'[i].frame \in Keys' /\ \A v : v = queue'[i].frame => queue'[i].from = From(v)'
        BY <3>2, <3>8, <4>2, <4>3
      <4> QED BY <3>5, <4>1, <4>3
    <3>10. \A i, j \in 1 .. Len(queue') : i < j => queue'[i].frame < queue'[j].frame
      <4>1. ASSUME NEW i \in 1 .. Len(queue'), NEW j \in 1 .. Len(queue'), i < j
            PROVE  queue'[i].frame < queue'[j].frame
        <5>1. i \in 1 .. Len(queue)
          BY <3>4, <4>1
        <5>2. CASE j \in 1 .. Len(queue)
          BY <1>15, <3>4, <4>1, <5>1, <5>2
        <5>3. CASE j = Len(queue) + 1
          BY <1>15, <1>16, <3>3, <3>4, <5>1, <5>3
        <5> QED BY <3>5, <5>2, <5>3
      <4> QED BY <4>1
    <3>11. \A k \in sources : \A i \in 1 .. Len(queue') : k < queue'[i].frame
      <4>1. ASSUME NEW k \in sources, NEW i \in 1 .. Len(queue') PROVE k < queue'[i].frame
        <5>1. CASE i \in 1 .. Len(queue)
          BY <1>15, <3>4, <5>1
        <5>2. CASE i = Len(queue) + 1
          BY <1>15, <1>16, <3>3, <3>4, <5>2
        <5> QED BY <3>5, <5>1, <5>2
      <4> QED BY <4>1
    <3>12. \A k \in Keys' : k \in sources \/ \E i \in 1 .. Len(queue') : queue'[i].frame = k
      <4>1. ASSUME NEW k \in Keys, k \notin sources PROVE \E i \in 1 .. Len(queue') : queue'[i].frame = k
        <5>1. PICK i \in 1 .. Len(queue) : queue[i].frame = k
          BY <1>15, <4>1
        <5> QED BY <3>4, <3>6, <5>1
      <4>2. queue'[Len(queue) + 1].frame = n
        BY <3>3, <3>4
      <4> QED BY <3>7, <3>8, <4>1, <4>2
    <3>13. \A i \in 1 .. Len(queue') :
             queue'[i].frame \in Keys' /\ queue'[i].from = From(queue[i].frame)'
      BY <3>9
    <3>14. sources' \subseteq Keys'
      BY <1>2, <1>15, <3>8
    <3> QED BY <1>2, <3>4, <3>10, <3>11, <3>12, <3>13, <3>14 DEF KeyframesQueue
  <2> QED BY <2>1, <2>2
<1>19. GraphHolds'
  <2>1. MergesEnd'
    BY <1>2 DEF MergesEnd, LookupInv, GraphHolds
  <2>2. (\E F : Leads(F))'
    BY <1>2 DEF Leads, LookupInv, GraphHolds
  <2> QED BY <1>2, <2>1, <2>2 DEF LookupInv, GraphHolds
<1>20. GraphFollows'
  <2>1. \A k \in sources : k \in 1 .. frames /\ PoseOf(k)' = PoseOf(k)
    BY <1>5, <1>8, <1>15
  <2>2. ASSUME ~looped, NEW k \in DOMAIN removed
        PROVE  PoseOf(k)' = Mul(PoseOf(removed[k].node)', removed[k].motion)
    <3>1. k \in sources /\ removed[k].node \in sources
      BY DEF LookupInv, GraphHolds
    <3>2. PoseOf(k) = Mul(PoseOf(removed[k].node), removed[k].motion)
      BY <2>2 DEF LookupInv, GraphFollows
    <3> DEFINE v == removed[k].node
    <3>3. PoseOf(v)' = PoseOf(v) /\ removed'[k].node = v
      <4>1. odometry'[v] = odometry[v] /\ removed'[k].node = v
        BY <1>1, <1>2, <2>1, <3>1
      <4> QED BY <4>1 DEF PoseOf
    <3> QED BY <2>1, <3>1, <3>2, <3>3
  <2> QED BY <1>2, <2>1, <2>2 DEF LookupInv, GraphHolds, GraphFollows
<1> QED BY <1>11, <1>18, <1>19, <1>20 DEF LookupInv
\* The poses of odometry, and with them what the queue promises, stay.
LEMMA FramesFollowStay ==
  ASSUME UNCHANGED <<frames, odometry, track, trajectory>>
  PROVE  /\ FramesFollow => FramesFollow'
         /\ Keys' = Keys
         /\ \A k : PoseOf(k)' = PoseOf(k) /\ KeyOf(k)' = KeyOf(k) /\ From(k)' = From(k)
<1>1. \A k : PoseOf(k)' = PoseOf(k) /\ KeyOf(k)' = KeyOf(k)
  BY DEF PoseOf, KeyOf
<1>2. ASSUME NEW k PROVE From(k)' = From(k)
  BY DEF PoseOf, KeyOf, From
<1>3. Keys' = Keys
  BY DEF Keys, KeyOf
<1>4. FramesFollow => FramesFollow'
  BY DEF FramesFollow, Keys, PoseOf, KeyOf
<1> QED BY <1>1, <1>2, <1>3, <1>4

\* The keyframe that the oldest of the queue is placed from is the newest of
\* the graph: by odometry its pose follows.
LEMMA OldestIs ==
  ASSUME LookupInv, queue # <<>>
  PROVE  /\ queue[1].frame \in Keys \ sources /\ queue[1].from \in Pose
         /\ Lookup!CurrentPose \in Pose
         /\ ~looped => Mul(Lookup!CurrentPose, queue[1].from) = PoseOf(queue[1].frame)
<1> DEFINE q == queue[1].frame
<1>1. /\ Len(queue) \in Nat /\ 1 \in 1 .. Len(queue) /\ queue[1] \in [frame : Nat, from : Pose]
      /\ \A i \in 1 .. Len(queue) : i # 1 => 1 < i
      /\ \A i \in 1 .. Len(queue) : queue[i].frame \in Keys /\ queue[i].from = From(queue[i].frame)
      /\ \A i, j \in 1 .. Len(queue) : i < j => queue[i].frame < queue[j].frame
      /\ sources \subseteq Keys
      /\ \A k \in sources : \A i \in 1 .. Len(queue) : k < queue[i].frame
      /\ \A k \in Keys : k \in sources \/ \E i \in 1 .. Len(queue) : queue[i].frame = k
  <2>1. queue \in Seq([frame : Nat, from : Pose])
    BY DEF LookupInv, KeyframesQueue
  <2>2. Len(queue) \in Nat \ {0} /\ queue[1] \in [frame : Nat, from : Pose]
    BY <2>1, TailIs
  <2>3. 1 \in 1 .. Len(queue) /\ \A i \in 1 .. Len(queue) : i # 1 => 1 < i
    BY <2>2
  <2> QED BY <2>2, <2>3 DEF LookupInv, KeyframesQueue
<1>2. /\ q \in Keys /\ queue[1].from = From(q) /\ queue[1].from \in Pose
      /\ \A k \in sources : k < q
  BY <1>1
<1>3. frames \in Nat /\ Keys \subseteq 1 .. frames /\ \A k \in Keys : k \in Nat /\ 1 <= k
  BY LookupFacts DEF LookupInv, FramesFollow, Keys
<1>4. \A k \in Keys : k < q => k \in sources
  <2>1. ASSUME NEW i \in 1 .. Len(queue) PROVE ~ (queue[i].frame < q)
    <3>1. queue[i].frame \in Nat /\ q \in Nat
      <4>1. queue[i].frame \in Keys
        BY <1>1
      <4> HIDE DEF q
      <4> QED BY <1>2, <1>3, <4>1
    <3>2. i # 1 => q < queue[i].frame
      BY <1>1
    <3>3. i = 1 => q = queue[i].frame
      OBVIOUS
    <3> HIDE DEF q
    <3> QED BY <3>1, <3>2, <3>3
  <2> QED BY <1>1, <2>1
<1> HIDE DEF q
<1>5. q \notin sources
  BY <1>2, <1>3
<1>6. CASE sources = {}
  <2>1. Lookup!CurrentPose = Id
    BY <1>6 DEF Lookup!CurrentPose, Lookup!HeadKeyframe
  <2>2. 1 \in 1 .. frames /\ 1 <= q
    BY <1>2, <1>3
  <2>3. KeyOf(1) \in Keys /\ KeyOf(1) <= 1
    BY <2>2 DEF LookupInv, FramesFollow
  <2>4. q = 1
    <3>1. 1 \in Keys
      <4> DEFINE k == KeyOf(1)
      <4>1. k \in Keys /\ k <= 1
        BY <2>3
      <4> HIDE DEF k
      <4> QED BY <1>3, <4>1
    <3>2. ~ (1 < q)
      BY <1>4, <1>6, <3>1
    <3> QED BY <1>2, <1>3, <2>2, <3>2
  <2>5. queue[1].from = PoseOf(q)
    BY <1>2, <2>4 DEF From
  <2> QED BY <1>2, <1>5, <2>1, <2>5, GroupFacts DEF q
<1>7. CASE sources # {}
  <2> DEFINE head == Lookup!HeadKeyframe
  <2>1. head \in sources /\ head \in DOMAIN hypothesis /\ \A k \in sources : k <= head
    BY <1>7, HeadIs
  <2>2. Lookup!CurrentPose = hypothesis[head]
    <3>1. head # 0
      BY <1>1, <1>3, <2>1
    <3> QED BY <3>1 DEF Lookup!CurrentPose, Lookup!NoKeyframe
  <2> HIDE DEF head
  <2>3. Lookup!CurrentPose \in Pose
    BY <2>1, <2>2 DEF LookupInv, GraphHolds
  <2>4. ASSUME ~looped PROVE Mul(Lookup!CurrentPose, queue[1].from) = PoseOf(q)
    <3>1. hypothesis[head] = PoseOf(head)
      BY <2>1, <2>4 DEF LookupInv, GraphFollows
    <3> DEFINE f == q - 1
    <3>2. head \in Keys /\ head < q /\ q # 1 /\ f \in 1 .. frames /\ head <= f /\ f < q /\ q \in 1 .. frames
      <4>1. head \in Keys /\ head < q
        BY <1>1, <1>2, <2>1
      <4> QED BY <1>2, <1>3, <4>1
    <3>3. From(q) = Mul(Inv(PoseOf(KeyOf(f))), PoseOf(q))
      BY <3>2 DEF From
    <3> HIDE DEF f
    <3> DEFINE k == KeyOf(f)
    <3>4. k \in Keys /\ k <= f /\ head <= k
      BY <3>2 DEF LookupInv, FramesFollow
    <3> HIDE DEF k
    <3>5. k = head
      <4>1. k < q
        BY <1>3, <3>2, <3>4
      <4>2. k \in sources
        BY <1>4, <3>4, <4>1
      <4>3. k <= head
        BY <2>1, <4>2
      <4> QED BY <1>3, <3>2, <3>4, <4>3
    <3>6. PoseOf(q) \in Pose /\ PoseOf(head) \in Pose
      BY <1>3, <3>2 DEF LookupInv, FramesFollow
    <3> QED BY <1>2, <2>2, <3>1, <3>3, <3>5, <3>6, GroupFacts DEF k
  <2> QED BY <1>2, <1>5, <2>3, <2>4 DEF q
<1> QED BY <1>6, <1>7
LEMMA AddKeyframeLookup == ASSUME LookupInv, Lookup!AddKeyframe PROVE LookupInv'
<1> DEFINE q == queue[1].frame
           pose == Mul(Lookup!CurrentPose, queue[1].from)
<1>1. /\ queue # <<>> /\ hypothesis' = Lookup!With(hypothesis, q, pose)
      /\ sources' = sources \cup {q} /\ queue' = Tail(queue)
      /\ UNCHANGED <<frames, odometry, track, trajectory>> /\ removed' = removed /\ looped' = looped
  BY DEF Lookup!AddKeyframe
<1>2. q \in Keys \ sources /\ pose \in Pose /\ (~looped => pose = PoseOf(q))
  BY <1>1, OldestIs, GroupFacts
<1>3. /\ DOMAIN hypothesis' = DOMAIN hypothesis \cup {q} /\ hypothesis'[q] = pose
      /\ \A k \in DOMAIN hypothesis : k # q => hypothesis'[k] = hypothesis[k]
  <2> HIDE DEF q, pose
  <2> QED BY <1>1 DEF Lookup!With
<1>4. /\ queue \in Seq([frame : Nat, from : Pose])
      /\ \A i \in 1 .. Len(queue) : queue[i].frame \in Keys /\ queue[i].from = From(queue[i].frame)
      /\ \A i, j \in 1 .. Len(queue) : i < j => queue[i].frame < queue[j].frame
      /\ sources \subseteq Keys
      /\ \A k \in sources : \A i \in 1 .. Len(queue) : k < queue[i].frame
      /\ \A k \in Keys : k \in sources \/ \E i \in 1 .. Len(queue) : queue[i].frame = k
  BY DEF LookupInv, KeyframesQueue
<1>5. /\ queue' \in Seq([frame : Nat, from : Pose]) /\ Len(queue) \in Nat \ {0}
      /\ Len(queue') = Len(queue) - 1
      /\ \A i \in 1 .. Len(queue) - 1 : queue'[i] = queue[i + 1]
  BY <1>1, <1>4, TailIs
<1>6. /\ Keys' = Keys /\ (FramesFollow => FramesFollow')
      /\ \A k : PoseOf(k)' = PoseOf(k) /\ From(k)' = From(k)
  BY <1>1, FramesFollowStay
<1>7. /\ \A i \in 1 .. Len(queue') : i + 1 \in 1 .. Len(queue) /\ 1 < i + 1 /\ queue'[i] = queue[i + 1]
      /\ \A i, j \in 1 .. Len(queue') : i < j => i + 1 < j + 1
      /\ \A i \in 1 .. Len(queue) : i = 1 \/ (i - 1 \in 1 .. Len(queue') /\ queue'[i - 1] = queue[i])
      /\ 1 \in 1 .. Len(queue)
  <2> DEFINE n == Len(queue)
  <2>1. /\ n \in Nat \ {0} /\ Len(queue') = n - 1
        /\ \A i \in 1 .. n - 1 : queue'[i] = queue[i + 1]
    BY <1>5
  <2> HIDE DEF n
  <2>2. /\ \A i \in 1 .. n - 1 : i + 1 \in 1 .. n /\ 1 < i + 1
        /\ \A i, j \in 1 .. n - 1 : i < j => i + 1 < j + 1
        /\ 1 \in 1 .. n
    BY <2>1
  <2>3. ASSUME NEW i \in 1 .. n, i # 1 PROVE i - 1 \in 1 .. n - 1 /\ queue'[i - 1] = queue[i]
    <3> DEFINE p == i - 1
    <3>1. p \in 1 .. n - 1 /\ p + 1 = i
      BY <2>1, <2>3
    <3> HIDE DEF p
    <3>2. queue'[p] = queue[i]
      BY <2>1, <3>1
    <3> QED BY <3>1, <3>2 DEF p
  <2> QED BY <2>1, <2>2, <2>3 DEF n
<1>8. KeyframesQueue'
  <2>1. \A i \in 1 .. Len(queue') :
          queue'[i].frame \in Keys' /\ \A v : v = queue'[i].frame => queue'[i].from = From(v)'
    <3>1. ASSUME NEW i \in 1 .. Len(queue'), NEW v, v = queue'[i].frame
          PROVE  v \in Keys /\ queue'[i].from = From(v)
      <4> DEFINE j == i + 1
      <4>1. j \in 1 .. Len(queue) /\ queue'[i] = queue[j]
        BY <1>7
      <4> HIDE DEF j
      <4>2. v = queue[j].frame /\ queue'[i].from = queue[j].from
        BY <3>1, <4>1
      <4> QED BY <1>4, <4>1, <4>2
    <3>2. \A i \in 1 .. Len(queue') : queue'[i].frame \in Keys'
      BY <1>6, <3>1
    <3>3. ASSUME NEW i \in 1 .. Len(queue'), NEW v, v = queue'[i].frame
          PROVE  queue'[i].from = From(v)'
      BY <1>6, <3>1, <3>3
    <3> QED BY <3>2, <3>3
  <2>2. \A i, j \in 1 .. Len(queue') : i < j => queue'[i].frame < queue'[j].frame
    BY <1>4, <1>7
  <2>3. sources' \subseteq Keys'
    BY <1>1, <1>2, <1>4, <1>6
  <2>4. \A k \in sources' : \A i \in 1 .. Len(queue') : k < queue'[i].frame
    <3>1. ASSUME NEW i \in 1 .. Len(queue') PROVE q < queue'[i].frame
      BY <1>4, <1>7
    <3>2. \A k \in sources : \A i \in 1 .. Len(queue') : k < queue'[i].frame
      BY <1>4, <1>7
    <3> HIDE DEF q
    <3> QED BY <1>1, <3>1, <3>2
  <2>5. ASSUME NEW k \in Keys, k \notin sources, k # q
        PROVE  \E i \in 1 .. Len(queue') : queue'[i].frame = k
    <3>1. PICK i \in 1 .. Len(queue) : queue[i].frame = k
      BY <1>4, <2>5
    <3>2. i # 1
      BY <2>5, <3>1
    <3> QED BY <1>7, <3>1, <3>2
  <2>6. \A k \in Keys' : k \in sources' \/ \E i \in 1 .. Len(queue') : queue'[i].frame = k
    <3> HIDE DEF q
    <3> QED BY <1>1, <1>6, <2>5
  <2>7. \A i \in 1 .. Len(queue') :
           queue'[i].frame \in Keys' /\ queue'[i].from = From(queue[i].frame)'
    BY <2>1
  <2> QED BY <1>5, <2>2, <2>3, <2>4, <2>6, <2>7 DEF KeyframesQueue
<1>9. \A k \in sources : k < q
  BY <1>4, <1>7
<1> HIDE DEF q, pose
<1>10. /\ looped \in BOOLEAN
       /\ DOMAIN hypothesis \cup DOMAIN removed = sources
       /\ DOMAIN hypothesis \cap DOMAIN removed = {}
       /\ \A k \in DOMAIN hypothesis : hypothesis[k] \in Pose
       /\ \A k \in DOMAIN removed : removed[k].node \in sources /\ removed[k].motion \in Pose
       /\ MergesEnd
       /\ \E F : Leads(F)
  BY DEF LookupInv, GraphHolds
<1>11. GraphHolds'
  <2>1. MergesEnd'
    BY <1>1, <1>10 DEF MergesEnd
  <2>2. (\E F : Leads(F))'
    BY <1>1, <1>10 DEF Leads
  <2>3. \A k \in DOMAIN hypothesis' : hypothesis'[k] \in Pose
    BY <1>2, <1>3, <1>10
  <2>4. ASSUME NEW k \in sources', \A i \in sources' : i <= k PROVE k \in DOMAIN hypothesis'
    <3>1. k = q \/ (k \in sources /\ q <= k)
      BY <1>1, <2>4
    <3>2. \A i \in sources \cup {q} : i \in Int
      <4>1. \A i \in Keys : i \in Int
        BY DEF Keys
      <4> QED BY <1>2, <1>4, <4>1
    <3>3. k = q
      BY <1>9, <3>1, <3>2
    <3> QED BY <1>3, <3>3
  <2>5. /\ DOMAIN hypothesis' \cup DOMAIN removed' = sources'
        /\ DOMAIN hypothesis' \cap DOMAIN removed' = {}
    BY <1>1, <1>2, <1>3, <1>10
  <2>6. \A k \in DOMAIN removed' : removed'[k].node \in sources' /\ removed'[k].motion \in Pose
    BY <1>1, <1>10
  <2> QED BY <1>1, <1>10, <2>1, <2>2, <2>3, <2>4, <2>5, <2>6 DEF GraphHolds
<1>12. GraphFollows'
  <2>1. \A k : PoseOf(k)' = odometry[k].pose
    BY <1>1 DEF PoseOf
  <2>2. ASSUME ~looped
        PROVE  /\ \A k \in DOMAIN hypothesis : hypothesis[k] = PoseOf(k)
               /\ \A k \in DOMAIN removed : PoseOf(k) = Mul(PoseOf(removed[k].node), removed[k].motion)
    BY <2>2 DEF LookupInv, GraphFollows
  <2>3. ~looped => \A k \in DOMAIN hypothesis' : hypothesis'[k] = PoseOf(k)
    BY <1>2, <1>3, <2>2
  <2>4. odometry' = odometry
    BY <1>1
  <2> QED BY <1>1, <2>2, <2>3, <2>4 DEF GraphFollows, PoseOf
<1> QED BY <1>6, <1>8, <1>11, <1>12 DEF LookupInv

\* A closed loop gives the keyframes other poses.
LEMMA CloseLoopLookup == ASSUME LookupInv, Lookup!CloseLoop PROVE LookupInv'
<1>1. PICK from \in DOMAIN hypothesis, correction \in Motion :
        hypothesis' = [k \in DOMAIN hypothesis |->
                         IF k < from THEN hypothesis[k] ELSE Mul(correction, hypothesis[k])]
  BY DEF Lookup!CloseLoop
<1>2. /\ UNCHANGED <<frames, odometry, track, trajectory>> /\ queue' = queue
      /\ sources' = sources /\ removed' = removed /\ looped' = TRUE
  BY DEF Lookup!CloseLoop
<1>3. correction \in Pose
  BY LookupFacts
<1>4. DOMAIN hypothesis' = DOMAIN hypothesis /\ \A k \in DOMAIN hypothesis' : hypothesis'[k] \in Pose
  BY <1>1, <1>3, GroupFacts DEF LookupInv, GraphHolds
<1>5. FramesFollow' /\ Keys' = Keys /\ \A k : From(k)' = From(k)
  BY <1>2, FramesFollowStay DEF LookupInv
<1>6. KeyframesQueue'
  BY <1>2, <1>5 DEF LookupInv, KeyframesQueue, From, PoseOf, KeyOf
<1>7. GraphHolds'
  <2>1. MergesEnd'
    BY <1>2 DEF MergesEnd, LookupInv, GraphHolds
  <2>2. (\E F : Leads(F))'
    BY <1>2 DEF Leads, LookupInv, GraphHolds
  <2> QED BY <1>2, <1>4, <2>1, <2>2 DEF LookupInv, GraphHolds
<1>8. GraphFollows'
  BY <1>2 DEF GraphFollows
<1> QED BY <1>5, <1>6, <1>7, <1>8 DEF LookupInv

LEMMA LookupStay == ASSUME LookupInv, UNCHANGED lookup PROVE LookupInv'
<1>1. /\ UNCHANGED <<frames, odometry, track, trajectory>> /\ odometry' = odometry
      /\ queue' = queue /\ hypothesis' = hypothesis /\ sources' = sources /\ removed' = removed
      /\ looped' = looped
  BY DEF lookup
<1>2. FramesFollow' /\ Keys' = Keys
  BY <1>1, FramesFollowStay DEF LookupInv
<1>3. KeyframesQueue'
  BY <1>1, <1>2 DEF LookupInv, KeyframesQueue, From, PoseOf, KeyOf
<1>4. GraphHolds'
  <2>1. MergesEnd'
    BY <1>1 DEF MergesEnd, LookupInv, GraphHolds
  <2>2. (\E F : Leads(F))'
    BY <1>1 DEF Leads, LookupInv, GraphHolds
  <2> QED BY <1>1, <2>1, <2>2 DEF LookupInv, GraphHolds
<1>5. GraphFollows'
  BY <1>1 DEF LookupInv, GraphFollows, PoseOf
<1> QED BY <1>2, <1>3, <1>4, <1>5 DEF LookupInv
\* What led to the merged keyframe leads on to the one that took its place.
LEMMA LeadsOn ==
  ASSUME LookupInv, NEW merged \in DOMAIN hypothesis, NEW into \in DOMAIN hypothesis, merged # into,
         NEW motion \in Pose,
         DOMAIN removed' = DOMAIN removed \cup {merged},
         removed'[merged] = [node |-> into, motion |-> motion],
         \A k \in DOMAIN removed : removed'[k] = removed[k]
  PROVE  (\E F : Leads(F))' /\ MergesEnd'
<1>1. /\ merged \in Lookup!Frame /\ into \in Lookup!Frame
      /\ merged \notin DOMAIN removed /\ into \notin DOMAIN removed
      /\ \A k \in DOMAIN removed : removed[k].node \in Lookup!Frame /\ removed[k].motion \in Pose
  <2>1. sources \subseteq Lookup!Frame
    BY LookupFacts DEF LookupInv, FramesFollow, KeyframesQueue, Keys, Lookup!Frame
  <2> QED BY <2>1 DEF LookupInv, GraphHolds
<1>2. PICK F : Leads(F)
  BY DEF LookupInv, GraphHolds
<1> DEFINE G == [k \in Lookup!Frame |->
                   IF F[k].node = merged THEN [node |-> into, motion |-> Mul(motion, F[k].motion)] ELSE F[k]]
<1>3. /\ \A k \in Lookup!Frame : F[k] \in MotionTo /\ F[k].node \in Lookup!Frame /\ F[k].motion \in Pose
      /\ \A k \in Lookup!Frame : k \notin DOMAIN removed => F[k] = [node |-> k, motion |-> Id]
      /\ \A k \in Lookup!Frame : k \in DOMAIN removed =>
           F[k] = [node |-> F[removed[k].node].node,
                   motion |-> Mul(F[removed[k].node].motion, removed[k].motion)]
  BY <1>2 DEF Leads, MotionTo
<1>4. G \in [Lookup!Frame -> MotionTo]
  <2>1. ASSUME NEW k \in Lookup!Frame PROVE [node |-> into, motion |-> Mul(motion, F[k].motion)] \in MotionTo
    BY <1>1, <1>3, GroupFacts DEF MotionTo
  <2> QED BY <1>3, <2>1
<1>5. ASSUME NEW k \in Lookup!Frame
      PROVE  G[k] = IF k \notin DOMAIN removed' THEN [node |-> k, motion |-> Id]
                    ELSE [node |-> G[removed'[k].node].node,
                          motion |-> Mul(G[removed'[k].node].motion, removed'[k].motion)]
  <2>1. CASE k = merged
    <3>1. F[merged] = [node |-> merged, motion |-> Id] /\ F[into] = [node |-> into, motion |-> Id]
      BY <1>1, <1>3
    <3>2. G[k] = [node |-> into, motion |-> Mul(motion, Id)] /\ G[into] = [node |-> into, motion |-> Id]
      BY <1>1, <2>1, <3>1
    <3>3. Mul(motion, Id) = motion /\ Mul(Id, motion) = motion
      BY GroupFacts
    <3> HIDE DEF G
    <3> QED BY <2>1, <3>2, <3>3
  <2>2. CASE k \in DOMAIN removed
    <3> DEFINE n == removed[k].node
               m == removed[k].motion
    <3>1. /\ n \in Lookup!Frame /\ m \in Pose /\ k \in DOMAIN removed' /\ removed'[k] = removed[k]
          /\ F[k] = [node |-> F[n].node, motion |-> Mul(F[n].motion, m)]
          /\ removed'[k].node = n /\ removed'[k].motion = m
      BY <1>1, <1>3, <2>2
    <3> HIDE DEF n, m
    <3>2. CASE F[n].node = merged
      <4>1. /\ G[k] = [node |-> into, motion |-> Mul(motion, Mul(F[n].motion, m))]
            /\ G[n] = [node |-> into, motion |-> Mul(motion, F[n].motion)]
        BY <3>1, <3>2
      <4>2. Mul(motion, Mul(F[n].motion, m)) = Mul(Mul(motion, F[n].motion), m)
        <5> DEFINE x == F[n].motion
        <5>1. x \in Pose
          BY <1>3, <3>1
        <5> HIDE DEF x
        <5>2. Mul(motion, Mul(x, m)) = Mul(Mul(motion, x), m)
          BY <3>1, <5>1, GroupFacts
        <5> QED BY <5>2 DEF x
      <4> HIDE DEF G
      <4> QED BY <3>1, <4>1, <4>2
    <3>3. CASE F[n].node # merged
      <4>1. G[k] = F[k] /\ G[n] = F[n]
        BY <3>1, <3>3
      <4> HIDE DEF G
      <4> QED BY <3>1, <4>1
    <3> QED BY <3>2, <3>3
  <2>3. CASE k \notin DOMAIN removed /\ k # merged
    BY <1>3, <2>3
  <2> QED BY <2>1, <2>2, <2>3
<1>6. Leads(G)'
  <2> HIDE DEF G
  <2> QED BY <1>4, <1>5 DEF Leads
<1>7. MergesEnd'
  <2> SUFFICES ASSUME NEW S \in SUBSET (DOMAIN removed)', S # {}
               PROVE  \E k \in S : removed'[k].node \notin S
    BY DEF MergesEnd
  <2>1. CASE merged \in S
    <3>1. into \notin S
      BY <1>1
    <3> QED BY <2>1, <3>1
  <2>2. CASE merged \notin S
    <3>1. S \in SUBSET DOMAIN removed
      BY <2>2
    <3>2. PICK k \in S : removed[k].node \notin S
      BY <3>1 DEF LookupInv, GraphHolds, MergesEnd
    <3> QED BY <3>1, <3>2
  <2> QED BY <2>1, <2>2
<1> QED
  <2> HIDE DEF G
  <2> QED BY <1>6, <1>7

LEMMA MergeKeyframeLookup == ASSUME LookupInv, Lookup!MergeKeyframe PROVE LookupInv'
<1>1. PICK merged, into \in DOMAIN hypothesis \ {Lookup!HeadKeyframe} :
        /\ merged # into
        /\ removed' = Lookup!With(removed, merged, [node |-> into, motion |-> Lookup!ToInstead(merged, into)])
        /\ hypothesis' = [k \in DOMAIN hypothesis \ {merged} |-> hypothesis[k]]
  BY DEF Lookup!MergeKeyframe
<1>2. /\ UNCHANGED <<frames, odometry, track, trajectory>> /\ odometry' = odometry /\ queue' = queue
      /\ sources' = sources /\ looped' = looped
  BY DEF Lookup!MergeKeyframe
<1> DEFINE motion == Lookup!ToInstead(merged, into)
<1>3. /\ looped \in BOOLEAN
      /\ DOMAIN hypothesis \cup DOMAIN removed = sources
      /\ DOMAIN hypothesis \cap DOMAIN removed = {}
      /\ \A k \in DOMAIN hypothesis : hypothesis[k] \in Pose
      /\ \A k \in DOMAIN removed : removed[k].node \in sources /\ removed[k].motion \in Pose
      /\ \A k \in sources : (\A i \in sources : i <= k) => k \in DOMAIN hypothesis
  BY DEF LookupInv, GraphHolds
<1>4. motion \in Pose /\ Mul(hypothesis[into], motion) = hypothesis[merged]
  BY <1>3, GroupFacts DEF Lookup!ToInstead
<1> HIDE DEF motion
<1>5. /\ DOMAIN removed' = DOMAIN removed \cup {merged}
      /\ removed'[merged] = [node |-> into, motion |-> motion]
      /\ \A k \in DOMAIN removed : removed'[k] = removed[k]
  <2>1. merged \notin DOMAIN removed
    BY <1>3
  <2>2. removed' = Lookup!With(removed, merged, [node |-> into, motion |-> motion])
    BY <1>1 DEF motion
  <2> QED BY <2>1, <2>2 DEF Lookup!With
<1>6. (\E F : Leads(F))' /\ MergesEnd'
  BY <1>1, <1>4, <1>5, LeadsOn
<1>7. /\ DOMAIN hypothesis' = DOMAIN hypothesis \ {merged}
      /\ \A k \in DOMAIN hypothesis' : hypothesis'[k] = hypothesis[k]
  BY <1>1
<1>8. FramesFollow' /\ Keys' = Keys
  BY <1>2, FramesFollowStay DEF LookupInv
<1>9. KeyframesQueue'
  BY <1>2, <1>8 DEF LookupInv, KeyframesQueue, From, PoseOf, KeyOf
<1>10. GraphHolds'
  <2>1. \A k \in sources : (\A i \in sources : i <= k) => k # merged
    <3> DEFINE head == Lookup!HeadKeyframe
    <3>1. sources # {} /\ sources \subseteq Int
      <4>1. Keys \subseteq Int
        BY DEF Keys
      <4> QED BY <1>3, <4>1 DEF LookupInv, KeyframesQueue
    <3>2. head \in sources /\ \A k \in sources : k <= head
      BY <3>1, HeadIs
    <3>3. merged # head
      BY <1>1
    <3> HIDE DEF head
    <3> QED BY <3>1, <3>2, <3>3
  <2>2. /\ DOMAIN hypothesis' \cup DOMAIN removed' = sources
        /\ DOMAIN hypothesis' \cap DOMAIN removed' = {}
    BY <1>3, <1>5, <1>7
  <2>3. \A k \in DOMAIN hypothesis' : hypothesis'[k] \in Pose
    BY <1>3, <1>7
  <2>4. \A k \in DOMAIN removed' : removed'[k].node \in sources /\ removed'[k].motion \in Pose
    BY <1>3, <1>4, <1>5
  <2> QED BY <1>2, <1>3, <1>6, <1>7, <2>1, <2>2, <2>3, <2>4 DEF GraphHolds
<1>11. GraphFollows'
  <2>1. ASSUME ~looped
        PROVE  /\ \A k \in DOMAIN hypothesis : hypothesis[k] = PoseOf(k)
               /\ \A k \in DOMAIN removed : PoseOf(k) = Mul(PoseOf(removed[k].node), removed[k].motion)
    BY <2>1 DEF LookupInv, GraphFollows
  <2>2. ~looped => PoseOf(merged) = Mul(PoseOf(into), motion)
    BY <1>4, <2>1
  <2>3. ASSUME ~looped, NEW k \in DOMAIN removed'
        PROVE  PoseOf(k) = Mul(PoseOf(removed'[k].node), removed'[k].motion)
    <3>1. CASE k = merged
      <4>1. removed'[k].node = into /\ removed'[k].motion = motion
        BY <1>5, <3>1
      <4> QED BY <2>2, <2>3, <3>1, <4>1
    <3>2. CASE k \in DOMAIN removed
      BY <1>5, <2>1, <2>3, <3>2
    <3> QED BY <1>5, <3>1, <3>2
  <2>4. ~looped => \A k \in DOMAIN hypothesis' : hypothesis'[k] = PoseOf(k)
    BY <1>7, <2>1
  <2> QED BY <1>2, <2>3, <2>4 DEF GraphFollows, PoseOf
<1> QED BY <1>8, <1>9, <1>10, <1>11 DEF LookupInv

LEMMA LookupStep == ASSUME LookupInv, Lookup!Next PROVE LookupInv'
BY TrackResultLookup, AddKeyframeLookup, MergeKeyframeLookup, CloseLoopLookup DEF Lookup!Next
\* Replaced follows the table to its end, as there is one.
LEMMA ReplacedLeads ==
  ASSUME LookupInv
  PROVE  \E F : Leads(F) /\ \A k \in Lookup!Frame : Lookup!Replaced(k) = F[k]
<1>1. PICK F : Leads(F)
  BY DEF LookupInv, GraphHolds
<1> DEFINE step(f) ==
             [n \in Lookup!Frame |->
                IF n \notin DOMAIN removed THEN [node |-> n, motion |-> Id]
                ELSE [node |-> f[removed[n].node].node,
                      motion |-> Mul(f[removed[n].node].motion, removed[n].motion)]]
           following == CHOOSE f : f = step(f)
<1>2. F = step(F)
  BY <1>1 DEF Leads
<1>3. following = step(following)
  <2> HIDE DEF step
  <2> QED BY <1>2
<1>4. ASSUME NEW k PROVE Lookup!Replaced(k) = following[k]
  BY DEF Lookup!Replaced, Lookup!Composed
<1> HIDE DEF following
<1>5. \A k \in Lookup!Frame :
        following[k] = IF k \notin DOMAIN removed THEN [node |-> k, motion |-> Id]
                       ELSE [node |-> following[removed[k].node].node,
                             motion |-> Mul(following[removed[k].node].motion, removed[k].motion)]
  BY <1>3
<1>6. \A k \in DOMAIN removed : k \in Lookup!Frame /\ removed[k].node \in Lookup!Frame
  <2>1. sources \subseteq Lookup!Frame
    BY LookupFacts DEF LookupInv, FramesFollow, KeyframesQueue, Keys, Lookup!Frame
  <2> QED BY <2>1 DEF LookupInv, GraphHolds
<1>7. \A k \in Lookup!Frame : following[k] = F[k]
  <2> DEFINE T == {k \in Lookup!Frame : following[k] # F[k]}
  <2>1. T \subseteq DOMAIN removed
    BY <1>1, <1>5 DEF Leads
  <2>2. ASSUME NEW k \in T PROVE removed[k].node \in T
    <3> DEFINE n == removed[k].node
    <3>1. k \in DOMAIN removed /\ k \in Lookup!Frame /\ n \in Lookup!Frame
      BY <1>6, <2>1
    <3>2. /\ F[k] = [node |-> F[n].node, motion |-> Mul(F[n].motion, removed[k].motion)]
          /\ following[k] = [node |-> following[n].node, motion |-> Mul(following[n].motion, removed[k].motion)]
      BY <1>1, <1>5, <3>1 DEF Leads
    <3> HIDE DEF n
    <3>3. following[n] # F[n]
      BY <3>2
    <3> QED BY <3>1, <3>3 DEF n
  <2> HIDE DEF T
  <2>3. T = {}
    BY <2>1, <2>2 DEF LookupInv, GraphHolds, MergesEnd
  <2> QED BY <2>3 DEF T
<1> QED BY <1>1, <1>4, <1>7

\* The keyframe that stands for one that had a source is in the graph; until a
\* loop is closed, the motion to it is that of odometry.
LEMMA ReplacedIs ==
  ASSUME LookupInv, NEW k \in sources
  PROVE  /\ Lookup!Replaced(k).node \in DOMAIN hypothesis
         /\ Lookup!Replaced(k).motion \in Pose
         /\ ~looped => Mul(hypothesis[Lookup!Replaced(k).node], Lookup!Replaced(k).motion) = PoseOf(k)
<1>1. PICK F : Leads(F) /\ \A n \in Lookup!Frame : Lookup!Replaced(n) = F[n]
  BY ReplacedLeads
<1>2. /\ sources \subseteq Lookup!Frame /\ DOMAIN removed \subseteq sources
      /\ \A n \in sources : n \in DOMAIN hypothesis \/ n \in DOMAIN removed
      /\ \A n \in DOMAIN removed : removed[n].node \in sources /\ removed[n].motion \in Pose
      /\ \A n \in DOMAIN hypothesis : hypothesis[n] \in Pose
      /\ DOMAIN hypothesis \subseteq sources
  <2>1. sources \subseteq Lookup!Frame
    BY LookupFacts DEF LookupInv, FramesFollow, KeyframesQueue, Keys, Lookup!Frame
  <2> QED BY <2>1 DEF LookupInv, GraphHolds
<1>3. /\ \A n \in Lookup!Frame : F[n] \in MotionTo /\ F[n].motion \in Pose
      /\ \A n \in Lookup!Frame : n \notin DOMAIN removed => F[n] = [node |-> n, motion |-> Id]
      /\ \A n \in Lookup!Frame : n \in DOMAIN removed =>
           F[n] = [node |-> F[removed[n].node].node,
                   motion |-> Mul(F[removed[n].node].motion, removed[n].motion)]
  BY <1>1 DEF Leads, MotionTo
<1> DEFINE Good(n) ==
             /\ F[n].node \in DOMAIN hypothesis
             /\ ~looped => Mul(hypothesis[F[n].node], F[n].motion) = PoseOf(n)
           T == {n \in DOMAIN removed : ~Good(n)}
<1>4. ASSUME NEW n \in sources, n \notin DOMAIN removed PROVE Good(n)
  <2>1. F[n].node = n /\ F[n].motion = Id /\ n \in DOMAIN hypothesis
    <3>1. n \in Lookup!Frame /\ n \in DOMAIN hypothesis
      BY <1>2, <1>4
    <3>2. F[n] = [node |-> n, motion |-> Id]
      BY <1>3, <1>4, <3>1
    <3> QED BY <3>1, <3>2
  <2>2. ~looped => hypothesis[n] = PoseOf(n)
    BY <2>1 DEF LookupInv, GraphFollows
  <2>3. Mul(hypothesis[n], Id) = hypothesis[n]
    BY <1>2, <2>1, GroupFacts
  <2> QED BY <2>1, <2>2, <2>3
<1>5. ASSUME NEW n \in T PROVE removed[n].node \in T
  <2> DEFINE r == removed[n].node
             m == removed[n].motion
             x == F[r].motion
             y == F[r].node
  <2>1. n \in DOMAIN removed /\ r \in sources /\ r \in Lookup!Frame /\ m \in Pose /\ x \in Pose
    BY <1>2, <1>3
  <2>2. F[n].node = y /\ F[n].motion = Mul(x, m)
    <3>1. n \in DOMAIN removed /\ n \in Lookup!Frame
      BY <1>2
    <3>2. F[n] = [node |-> y, motion |-> Mul(x, m)]
      BY <1>3, <3>1
    <3> HIDE DEF x, y, m
    <3> QED BY <3>2
  <2>3. ~looped => PoseOf(n) = Mul(PoseOf(r), m)
    BY <2>1 DEF LookupInv, GraphFollows
  <2>4. Good(r) => /\ y \in DOMAIN hypothesis
                   /\ ~looped => Mul(hypothesis[y], x) = PoseOf(r)
    OBVIOUS
  <2>5. (y \in DOMAIN hypothesis /\ (~looped => Mul(hypothesis[y], Mul(x, m)) = PoseOf(n))) => Good(n)
    BY <2>2
  <2>6. ~Good(n)
    OBVIOUS
  <2> HIDE DEF r, m, x, y, Good
  <2>7. y \in DOMAIN hypothesis => Mul(hypothesis[y], Mul(x, m)) = Mul(Mul(hypothesis[y], x), m)
    BY <1>2, <2>1, GroupFacts
  <2>8. ~Good(r)
    BY <2>3, <2>4, <2>5, <2>6, <2>7
  <2>9. r \in DOMAIN removed
    BY <1>4, <2>1, <2>8
  <2> QED BY <2>8, <2>9 DEF r, T
<1>6. T = {}
  <2>1. T \in SUBSET DOMAIN removed
    OBVIOUS
  <2> HIDE DEF T
  <2> QED BY <1>5, <2>1 DEF LookupInv, GraphHolds, MergesEnd
<1>7. Good(k)
  <2>1. k \in DOMAIN removed => Good(k)
    BY <1>6
  <2> HIDE DEF Good
  <2> QED BY <1>4, <2>1
<1> QED BY <1>1, <1>2, <1>3, <1>7
\* The keyframe of a placed frame is the newest source that is not newer.
LEMMA SourceIs ==
  ASSUME LookupInv, NEW f \in 1 .. frames
  PROVE  /\ KeyOf(f) \in sources => Lookup!SourceOf(f) = KeyOf(f)
         /\ Lookup!IsFound(f) => Lookup!SourceOf(f) \in sources
<1> DEFINE S == {k \in sources : k <= f}
           s == Lookup!SourceOf(f)
           key == KeyOf(f)
<1>1. sources \subseteq Keys /\ FramesFollow
  BY DEF LookupInv, KeyframesQueue
<1>2. \A k \in Keys : k \in Int
  BY DEF Keys
<1>3. key \in Keys /\ key <= f /\ \A k \in Keys : k <= f => k <= key
  BY <1>1 DEF FramesFollow
<1>4. s = Lookup!Max(S)
  BY DEF Lookup!SourceOf
<1>5. S # {} => s \in S /\ \A k \in S : k <= s
  <2>1. S \subseteq Keys
    BY <1>1
  <2> HIDE DEF S, s
  <2> QED BY <1>1, <1>4, <2>1, MaxIs
<1>6. Lookup!IsFound(f) => S # {}
  BY DEF Lookup!IsFound
<1> HIDE DEF s, key
<1>7. ASSUME key \in sources PROVE s = key
  <2>1. key \in S
    BY <1>3, <1>7
  <2>2. s \in S /\ key <= s
    BY <1>5, <2>1
  <2>3. s \in sources /\ s <= f
    BY <2>2
  <2>4. s \in Keys
    BY <1>1, <2>3
  <2>5. s <= key
    BY <1>3, <2>3, <2>4
  <2> QED BY <1>2, <1>3, <2>2, <2>4, <2>5
<1>8. S # {} => s \in sources
  BY <1>5
<1> QED BY <1>6, <1>7, <1>8 DEF s, key

\* A placed frame has the pose of what stands for its keyframe, the motion to
\* the keyframe, and its motion since.
LEMMA PlacedIs ==
  ASSUME LookupInv, NEW f \in Lookup!Placed
  PROVE  LET p == Mul(hypothesis[Lookup!Replaced(KeyOf(f)).node], Lookup!Replaced(KeyOf(f)).motion)
             start == Inv(PoseOf(KeyOf(f)))
         IN /\ f \in 1 .. frames /\ KeyOf(f) \in sources
            /\ p \in Pose /\ start \in Pose /\ PoseOf(f) \in Pose /\ PoseOf(KeyOf(f)) \in Pose
            /\ Lookup!PoseForFrame(f) = Mul(p, Mul(start, PoseOf(f)))
            /\ ~looped => p = PoseOf(KeyOf(f))
<1> DEFINE k == KeyOf(f)
           found == Lookup!Replaced(k)
           p == Mul(hypothesis[found.node], found.motion)
           start == Inv(PoseOf(k))
<1>1. f \in 1 .. frames /\ k \in sources
  BY DEF Lookup!Placed, LookupInv, FramesFollow, KeyOf
<1>2. /\ PoseOf(f) \in Pose /\ trajectory[f] = Mul(Inv(PoseOf(k)), PoseOf(f)) /\ k \in Keys
  BY <1>1 DEF LookupInv, FramesFollow
<1>3. PoseOf(k) \in Pose
  BY <1>2 DEF LookupInv, FramesFollow, Keys
<1>4. Lookup!SourceOf(f) = k
  BY <1>1, SourceIs
<1>5. Lookup!PoseForFrame(f) = Mul(p, trajectory[f])
  BY <1>4 DEF Lookup!PoseForFrame, Lookup!FindKeyframeByFrame
<1> HIDE DEF k
<1>6. found.node \in DOMAIN hypothesis /\ found.motion \in Pose /\ (~looped => p = PoseOf(k))
  BY <1>1, ReplacedIs
<1>7. p \in Pose /\ start \in Pose
  BY <1>3, <1>6, GroupFacts DEF LookupInv, GraphHolds
<1> HIDE DEF found
<1> QED BY <1>1, <1>2, <1>3, <1>5, <1>6, <1>7 DEF k, found

LEMMA LookupIsRight ==
  ASSUME LookupInv
  PROVE  /\ Lookup!PastPosesFollowOdometry
         /\ Lookup!SegmentsStayRigid
         /\ Lookup!FoundFramesStayFound
<1>1. Lookup!PastPosesFollowOdometry
  <2>1. ASSUME ~looped, NEW f \in Lookup!Placed PROVE Lookup!PoseForFrame(f) = odometry[f].pose
    <3> DEFINE b == PoseOf(KeyOf(f))
    <3>1. b \in Pose /\ PoseOf(f) \in Pose /\ Lookup!PoseForFrame(f) = Mul(b, Mul(Inv(b), PoseOf(f)))
      BY <2>1, PlacedIs
    <3> HIDE DEF b
    <3>2. Lookup!PoseForFrame(f) = PoseOf(f)
      BY <3>1, GroupFacts
    <3> QED BY <3>2 DEF PoseOf
  <2> QED BY <2>1 DEF Lookup!PastPosesFollowOdometry
<1>2. Lookup!SegmentsStayRigid
  <2>1. ASSUME NEW f \in Lookup!Placed, NEW g \in Lookup!Placed, KeyOf(f) = KeyOf(g)
        PROVE  Mul(Inv(Lookup!PoseForFrame(f)), Lookup!PoseForFrame(g)) = Mul(Inv(PoseOf(f)), PoseOf(g))
    <3> DEFINE k == KeyOf(f)
               p == Mul(hypothesis[Lookup!Replaced(k).node], Lookup!Replaced(k).motion)
               start == Inv(PoseOf(k))
               a == PoseOf(f)
               b == PoseOf(g)
    <3>1. /\ p \in Pose /\ start \in Pose /\ a \in Pose
          /\ Lookup!PoseForFrame(f) = Mul(p, Mul(start, a))
      BY PlacedIs
    <3>2. b \in Pose /\ Lookup!PoseForFrame(g) = Mul(p, Mul(start, b))
      BY <2>1, PlacedIs
    <3> HIDE DEF k, p, start, a, b
    <3>3. Mul(start, a) \in Pose /\ Mul(start, b) \in Pose
      BY <3>1, <3>2, GroupFacts
    <3>4. Mul(Inv(Mul(p, Mul(start, a))), Mul(p, Mul(start, b))) = Mul(Inv(Mul(start, a)), Mul(start, b))
      BY <3>1, <3>3, SameStart
    <3>5. Mul(Inv(Mul(start, a)), Mul(start, b)) = Mul(Inv(a), b)
      BY <3>1, <3>2, SameStart
    <3> QED BY <3>1, <3>2, <3>4, <3>5 DEF a, b
  <2> QED BY <2>1 DEF Lookup!SegmentsStayRigid, KeyOf, PoseOf
<1>3. Lookup!FoundFramesStayFound
  <2>1. ASSUME NEW f \in DOMAIN trajectory, Lookup!IsFound(f)
        PROVE  Lookup!FindKeyframeByFrame(f).node \in DOMAIN hypothesis
    <3> DEFINE s == Lookup!SourceOf(f)
    <3>1. f \in 1 .. frames
      BY DEF LookupInv, FramesFollow
    <3>2. s \in sources
      BY <2>1, <3>1, SourceIs
    <3>3. Lookup!FindKeyframeByFrame(f) = Lookup!Replaced(s)
      BY DEF Lookup!FindKeyframeByFrame
    <3> HIDE DEF s
    <3> QED BY <3>2, <3>3, ReplacedIs
  <2> QED BY <2>1 DEF Lookup!FoundFramesStayFound
<1> QED BY <1>1, <1>2, <1>3
-----------------------------------------------------------------------------
(* The parts together                                                      *)

\* The part that runs has its invariant.
MapPartsInv ==
  /\ part \in {"views", "landmarks", "lookup", "odometryFrames"}
  /\ part = "views" => ViewsInv
  /\ part = "landmarks" => LandmarksInv
  /\ part = "lookup" => LookupInv
  /\ part = "odometryFrames" => FramesInv

LEMMA MapPartsInit == Init => MapPartsInv
BY ViewsInit, LandmarksInit, LookupInit, FramesInit DEF Init, MapPartsInv

\* What no step of any part does.
StepIsRight ==
  /\ part = "views" => Views!NeverBack
  /\ part = "landmarks" =>
       /\ Landmarks!SaveKeepsLandmarks
       /\ Landmarks!OnlyReducedDisappear
  /\ part = "odometryFrames" => Frames!PoseContinues

LEMMA MapPartsStep == ASSUME MapPartsInv, Next PROVE MapPartsInv' /\ StepIsRight
<1>1. CASE part = "views" /\ Views!Next /\ part' = part
  <2>1. ViewsInv' /\ Views!NeverBack
    BY <1>1, ViewsStep, NeverBackStep DEF MapPartsInv
  <2> QED BY <1>1, <2>1 DEF MapPartsInv, StepIsRight
<1>2. CASE part = "landmarks" /\ Landmarks!Next /\ part' = part
  <2>1. LandmarksInv' /\ Landmarks!OnlyReducedDisappear /\ Landmarks!SaveKeepsLandmarks
    BY <1>2, LandmarksStep DEF MapPartsInv
  <2> QED BY <1>2, <2>1 DEF MapPartsInv, StepIsRight
<1>3. CASE part = "lookup" /\ Lookup!Next /\ part' = part
  <2>1. LookupInv'
    BY <1>3, LookupStep DEF MapPartsInv
  <2> QED BY <1>3, <2>1 DEF MapPartsInv, StepIsRight
<1>4. CASE part = "odometryFrames" /\ Frames!Next /\ part' = part
  <2>1. FramesInv' /\ Frames!PoseContinues
    BY <1>4, FramesStep DEF MapPartsInv
  <2> QED BY <1>4, <2>1 DEF MapPartsInv, StepIsRight
<1> QED BY <1>1, <1>2, <1>3, <1>4 DEF Next

LEMMA MapPartsStay == ASSUME MapPartsInv, UNCHANGED vars PROVE MapPartsInv'
<1>1. UNCHANGED views /\ UNCHANGED landmarks /\ UNCHANGED lookup /\ UNCHANGED odometryFrames /\ part' = part
  BY DEF vars
<1>2. (part = "views" => ViewsInv') /\ (part = "landmarks" => LandmarksInv')
  BY <1>1, ViewsStay, LandmarksStay DEF MapPartsInv
<1>3. (part = "lookup" => LookupInv') /\ (part = "odometryFrames" => FramesInv')
  BY <1>1, LookupStay, FramesStay DEF MapPartsInv
<1> QED BY <1>1, <1>2, <1>3 DEF MapPartsInv

LEMMA MapPartsInvariance == Spec => []MapPartsInv
<1>1. MapPartsInv /\ [Next]_vars => MapPartsInv'
  BY MapPartsStep, MapPartsStay
<1> QED BY <1>1, MapPartsInit, PTL DEF Spec

\* For every number of slots, items, frames and keyframes, and every group of poses:
\* what a reader copies of a view is one publication of the map, whole, and what is
\* answered for a past frame follows odometry until a loop is closed, stays rigid
\* within a keyframe and is found for good (map_to_view.cpp, view_manager,
\* AsyncSlam::GetPoseForFrame).
THEOREM AnswersAreRight == Spec => []AnswersRight
<1>1. MapPartsInv => AnswersRight
  BY ViewsAreRight, LookupIsRight DEF MapPartsInv, AnswersRight
<1> QED BY <1>1, MapPartsInvariance, PTL

\* For every set of keyframes, cells and landmarks: a landmark that is not dead can be
\* found, its descriptors are there, a saved map is complete; and the poses of the
\* frame loop, of its solver and of the publication are one, with every track that
\* is not triangulated again located (LSIGrid, SlamDatabase, stereo odometry).
THEOREM MapStaysInStep == Spec => []MapInStep
<1>1. MapPartsInv => MapInStep
  BY FramesAreRight DEF MapPartsInv, MapInStep, LandmarksInv
<1> QED BY <1>1, MapPartsInvariance, PTL

\* No step takes back what another has: no reader gets an older publication, no save
\* loses a landmark, only the reduction of a full cell or of the dead removes one, and
\* the published pose goes on from the one before.
THEOREM HeldIsKept == Spec => HeldStays
<1>1. MapPartsInv /\ Next => StepIsRight
  BY MapPartsStep
<1>2. MapPartsInv /\ [Next]_vars => [StepIsRight]_vars
  BY <1>1
<1>3. [][StepIsRight]_vars => HeldStays
  BY PTL DEF HeldStays, StepIsRight
<1> QED BY <1>2, <1>3, MapPartsInvariance, PTL DEF Spec
=============================================================================
