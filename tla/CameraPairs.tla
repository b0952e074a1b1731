----------------------------- MODULE CameraPairs -----------------------------
(***************************************************************************)
(* Which cameras of a rig are tracked from frame to frame (the primary     *)
(* ones) and which are matched with them at keyframes (the secondary ones):*)
(* FrustumIntersectionGraph, as the constructor of Odometry sets it up.    *)
(* How much two cameras see of the same scene is a number, 0 when they are *)
(* no stereo pair.  The manual mode is left out: no caller of the library  *)
(* can ask for it; it takes the pairs it is given, checks their indexes    *)
(* and warns of a poor overlap.                                            *)
(***************************************************************************)
EXTENDS Integers, FiniteSets, SequencesExt

CONSTANTS
  NumCameras,   \* rig.num_cameras
  MaxRatio      \* bound of frustrim_intersection_ratio

VARIABLES
  graph,      \* the ratio of two cameras
  settings,   \* FigSettings, with the odometry mode they come from
  pairs,      \* [primary: primary_cameras_, secondary: secondary_from_primary_]
  stage       \* how far the constructor is

vars == <<graph, settings, pairs, stage>>

Camera == 0 .. NumCameras - 1

\* BuildCameraGraph: the cameras that form a stereo pair, with the ratio of either
Graphs == {g \in [Camera -> [Camera -> 0 .. MaxRatio]] :
             \A i, j \in Camera : g[i][j] = g[j][i] /\ g[i][i] = 0}

Overlapping(g, i) == {j \in Camera : g[i][j] > 0}

\* degree_of_vertex
Degree(g, i) == Cardinality(Overlapping(g, i))

Ascending(s) == SetToSortSeq(s, LAMBDA i, j : i < j)

-----------------------------------------------------------------------------
(* The modes                                                               *)

\* set_precision_mode
Precision(g) ==
  {[primary |-> Ascending(Camera), secondary |-> [i \in Camera |-> Overlapping(g, i)]]}

\* The sort of set_moderate_mode: std::tie(degree, id) in ascending order
Before(g, i, j) ==
  Degree(g, i) < Degree(g, j) \/ (Degree(g, i) = Degree(g, j) /\ i < j)

\* A secondary camera may be visited again.
Visit_primary_only(g, visited, i) == visited \cup {i}

\* A camera that is taken as primary visits the cameras it overlaps.
Visit(g, visited, i) == visited \cup {i} \cup Overlapping(g, i)

\* set_moderate_mode
Moderate(g) ==
  LET order == SetToSortSeq(Camera, LAMBDA i, j : Before(g, i, j))
      take(acc, i) ==
        IF i \in acc.visited THEN acc
        ELSE [visited |-> Visit(g, acc.visited, i), primary |-> Append(acc.primary, i)]
      primary == FoldLeft(take, [visited |-> {}, primary |-> <<>>], order).primary
  IN {[primary |-> primary, secondary |-> [i \in ToSet(primary) |-> Overlapping(g, i)]]}

\* Any of the primary cameras keeps the secondary one, whatever the ratio.
Best_any(g, s, primaries) == primaries

\* The primary cameras of a secondary one with the largest ratio; which of them is the first
\* depends on the order of an unordered_map.
Best(g, s, primaries) == {p \in primaries : \A q \in primaries : g[s][p] >= g[s][q]}

\* set_performance_mode
Performance(g) ==
  UNION {LET primaries(s) == {p \in DOMAIN m.secondary : s \in m.secondary[p]}
             shared == {s \in Camera : primaries(s) # {}}
             kept == {k \in [shared -> Camera] : \A s \in shared : k[s] \in Best(g, s, primaries(s))}
         IN {[m EXCEPT !.secondary = [p \in DOMAIN @ |-> {s \in @[p] : k[s] = p}]] : k \in kept}
         : m \in Moderate(g)}

Chosen(g, mode) ==
  CASE mode = "precision" -> Precision(g)
    [] mode = "moderate" -> Moderate(g)
    [] mode = "performance" -> Performance(g)

-----------------------------------------------------------------------------
(* The rest of the constructor                                             *)

\* Edges are dropped even where stereo is allowed for the cameras that supply depth.
WithoutDepth_always(m, depth, stereo) ==
  [m EXCEPT !.secondary = [p \in DOMAIN @ |-> @[p] \ ToSet(depth)]]

\* Cameras that supply depth are no secondary ones unless stereo is allowed for them.
WithoutDepth(m, depth, stereo) ==
  IF stereo THEN m
  ELSE [m EXCEPT !.secondary = [p \in DOMAIN @ |-> @[p] \ ToSet(depth)]]

\* Primary cameras without secondary ones stay.
WithPairs_all(m) == m

\* Primary cameras without secondary ones are removed.
WithPairs(m) == [m EXCEPT !.primary = SelectSeq(@, LAMBDA p : m.secondary[p] # {})]

\* Every camera that supplies depth becomes a primary one.
WithDepth(m, depth) ==
  LET added == SelectSeq(depth, LAMBDA d : d \notin ToSet(m.primary))
  IN [primary |-> m.primary \o added,
      secondary |-> [p \in DOMAIN m.secondary \cup ToSet(added) |->
                       IF p \in ToSet(added) THEN {} ELSE m.secondary[p]]]

\* is_valid
IsValid(m) ==
  m.primary # <<>> /\ ToSet(m.primary) \subseteq DOMAIN m.secondary

\* Cameras that supply depth, and whether they may be matched with others
Settings ==
  [odometry : {"multicamera"}, depth : {<<0>>}, stereo : {FALSE}]
  \cup [odometry : {"rgbd"}, depth : {<<d>> : d \in Camera}, stereo : BOOLEAN]
  \cup [odometry : {"multisensor"}, stereo : BOOLEAN,
        depth : UNION {SetToSeqs(s) : s \in SUBSET Camera}]

-----------------------------------------------------------------------------
Init ==
  /\ graph \in Graphs
  /\ settings \in Settings
  /\ pairs = [primary |-> <<>>, secondary |-> <<>>]
  /\ stage = "new"

ChooseCameras(mode) ==
  /\ stage = "new"
  /\ stage' = mode
  /\ pairs' \in Chosen(graph, mode)
  /\ UNCHANGED <<graph, settings>>

\* The rest of the constructor.  Its assertion, that a camera with depth that is already
\* primary has secondary ones, follows from WithPairs.
ArrangeDepth ==
  /\ stage \in {"precision", "moderate", "performance"}
  /\ stage' = IF stage = "precision" THEN "all" ELSE IF stage = "moderate" THEN "some" ELSE "one"
  /\ pairs' = WithDepth(WithPairs(WithoutDepth(pairs, settings.depth, settings.stereo)), settings.depth)
  /\ UNCHANGED <<graph, settings>>

\* Odometry accepts the rig or throws.
Accept ==
  /\ stage \in {"all", "some", "one"}
  /\ stage' = IF IsValid(pairs) THEN "accepted" ELSE "refused"
  /\ UNCHANGED <<graph, settings, pairs>>

Next ==
  \/ \E mode \in {"precision", "moderate", "performance"} : ChooseCameras(mode)
  \/ ArrangeDepth
  \/ Accept

Spec == Init /\ [][Next]_vars

-----------------------------------------------------------------------------
(* Properties                                                              *)

Primary == ToSet(pairs.primary)
SecondaryOf(p) == pairs.secondary[p]
Secondary == UNION {SecondaryOf(p) : p \in Primary}

\* The rig is covered: a camera that overlaps another is primary or secondary as soon as the
\* cameras are chosen, two primary ones never overlap outside of precision mode, and no camera
\* is both (set_moderate_mode, set_performance_mode).
RolesCoverTheRig ==
  stage \in {"moderate", "performance"} =>
    /\ Secondary \cap Primary = {}
    /\ \A i, j \in Primary : graph[i][j] = 0
    /\ \A i \in Camera : i \in Primary \cup Secondary

\* In performance mode a secondary camera keeps the primary one with which it shares most, to
\* the end of the constructor unless a camera that supplies depth takes it out
\* (frustum_intersection_graph.h: each secondary camera must be connected to only one primary).
OneBestPrimary ==
  stage \in {"performance", "one"} =>
    \A s \in Secondary : \E p \in Primary :
      /\ {q \in Primary : s \in SecondaryOf(q)} = {p}
      /\ stage = "performance" => \A q \in Primary : graph[s][q] <= graph[s][p]

\* Cameras that supply depth are primary, matched with others only where that is allowed; any
\* other primary camera has a partner, is listed once, and a pair overlaps.
DepthIsPrimary ==
  stage \in {"all", "some", "one", "accepted"} =>
    /\ IsInjective(pairs.primary)
    /\ ToSet(settings.depth) \subseteq Primary
    /\ ~settings.stereo => Secondary \cap ToSet(settings.depth) = {}
    /\ \A p \in Primary \ ToSet(settings.depth) : SecondaryOf(p) # {}
    /\ \A p \in Primary : \A s \in SecondaryOf(p) : graph[p][s] > 0

\* Where stereo is allowed for the cameras that supply depth, no pair is lost to them; in
\* performance mode a camera that is left out has all its partners matched with others.
NoPairLostToDepth ==
  stage \in {"some", "one"} /\ settings.stereo =>
    \A i \in Camera :
      \/ i \in Primary \cup Secondary
      \/ Overlapping(graph, i) = {}
      \/ stage = "one" /\ Overlapping(graph, i) \subseteq Secondary

\* Not kept by the code: "cuVSLAM needs at least one stereo pair for Multicamera or Inertial
\* mode" (cuvslam2.cpp:716).  A rig that is accepted for these modes has a pair that is matched.
AcceptedRigHasStereo ==
  stage = "accepted" /\ settings.odometry = "multicamera" => \E p \in Primary : SecondaryOf(p) # {}
=============================================================================
