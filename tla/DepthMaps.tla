----------------------------- MODULE DepthMaps ------------------------------
(***************************************************************************)
(* What odometry keeps of depth images from frame to frame                 *)
(* (pipelines/depth_maps_context.cpp): the planes of PlaneMap and the      *)
(* points of DepthPointMap.  The rig moves along a line, its cameras look  *)
(* forward or back.  A plane is across that line: it faces one way, is at  *)
(* a place, and its hull is an interval; how planes are found in an image  *)
(* is in PlaneDetection, and what hulls are in PlaneGeometry.              *)
(***************************************************************************)
EXTENDS Integers, Sequences, FiniteSets, FiniteSetsExt, SequencesExt

CONSTANTS
  Places, Rigs,                      \* where planes are, and where the rig may be
  MaxPlanes, MaxPlaneDist, MergeDist,  \* settings of PlaneMap
  Counts,                            \* inliers of a detected plane
  MaxPerCam, MaxDepth,               \* settings of DepthPointMap
  Offers,                            \* points a depth image may give
  MaxUpdates                         \* bound; between resets there are updates of one kind only,
                                     \* as nothing relates the points to the planes

VARIABLES
  planes,    \* planes_; each with the detections that went into it
  points,    \* points_: how far along the line each of them is
  added,     \* added_
  last       \* what the last call was given, and how many there were

vars == <<planes, points, added, last>>

Abs(x) == IF x < 0 THEN -x ELSE x
Least(a, b) == IF a < b THEN a ELSE b
Most(a, b) == IF a > b THEN a ELSE b

-----------------------------------------------------------------------------
(* Planes                                                                  *)

\* A normal has no length if two opposite ones of the same weight are merged;
\* then all points of the hull are projected to one.
Sign(x) == IF x > 0 THEN 1 ELSE IF x < 0 THEN -1 ELSE 0

MergeTwoPlanes(target, source) ==
  LET facing == Sign(target.inliers * target.facing + source.inliers * source.facing)
  IN [facing |-> facing,
      at |-> (target.at + 4 * source.at) \div 5,
      lo |-> Least(target.lo, source.lo),
      hi |-> IF facing = 0 THEN Least(target.lo, source.lo) ELSE Most(target.hi, source.hi),
      inliers |-> target.inliers + source.inliers,
      parts |-> target.parts \cup source.parts]

Compatible(a, b) == a.facing * b.facing /= 0 /\ Abs(a.at - b.at) <= MergeDist

\* hull_overlap_ratio: none if a hull or the sum of the normals is degenerate.
Overlap(a, b) ==
  LET common == Least(a.hi, b.hi) - Most(a.lo, b.lo)
      least == Least(a.hi - a.lo, b.hi - b.lo)
  IN a.facing = b.facing /\ least > 0 /\ common > 0 /\ 10 * common >= least

\* The planes by their inliers, of equal ones in one order or the other.
ByInliers(list) == SortSeq(list, LAMBDA a, b : a.inliers > b.inliers)
Sortings(list) == {ByInliers(list), ByInliers(Reverse(list))}

\* suppress_redundant: each plane takes in the later ones that overlap with
\* what it has become by then.
SuppressRedundant(sorted) ==
  LET n == Len(sorted)
      pairs == SelectSeq([k \in 1 .. n * n |-> <<((k - 1) \div n) + 1, ((k - 1) % n) + 1>>],
                         LAMBDA p : p[1] < p[2])
      step(s, p) ==
        LET i == p[1]
            j == p[2]
        IN IF i \in s.gone \/ j \in s.gone \/ ~Compatible(s.list[i], s.list[j])
              \/ ~Overlap(s.list[i], s.list[j])
           THEN s
           ELSE [list |-> [s.list EXCEPT ![i] = MergeTwoPlanes(s.list[i], s.list[j])],
                 gone |-> s.gone \cup {j}]
      end == FoldLeft(step, [list |-> sorted, gone |-> {}], pairs)
      left == SelectSeq([k \in 1 .. n |-> k], LAMBDA k : k \notin end.gone)
  IN [k \in DOMAIN left |-> end.list[left[k]]]

Suppressed(list) == IF Len(list) <= 1 THEN {list} ELSE {SuppressRedundant(s) : s \in Sortings(list)}

\* find_best_match: the first compatible plane, whether or not they overlap.
Matches(list, plane) == {i \in DOMAIN list : Compatible(list[i], plane)}

\* A plane without a match takes a free place, or that of the first of the
\* smallest if it is larger.
MergeInto(list, plane) ==
  LET match == Matches(list, plane)
      least == Min({list[i].inliers : i \in DOMAIN list})
      worst == Min({i \in DOMAIN list : list[i].inliers = least})
  IN IF match /= {} THEN [list EXCEPT ![Min(match)] = MergeTwoPlanes(@, plane)]
     ELSE IF Len(list) < MaxPlanes THEN Append(list, plane)
     ELSE IF plane.inliers > least THEN [list EXCEPT ![worst] = plane]
     ELSE list

\* A plane is evicted if it is too far from all cameras.
IsNear(plane, rig) == Abs(plane.at - rig) <= MaxPlaneDist
Evicted(list, rig) == SelectSeq(list, LAMBDA p : IsNear(p, rig))

\* Every camera that has a depth image at this keyframe finds planes before it,
\* which face it; they are in view, a part of the line wide.
Found(rig, looks, number) ==
  {[facing |-> -looks, at |-> at, lo |-> lo, hi |-> lo + 3, inliers |-> count,
    parts |-> {<<last.count, number, count>>}] :
     at \in {p \in Places : looks * (p - rig) > 0}, lo \in {0, 2}, count \in Counts}

\* Redundant planes of the keyframe are merged among themselves, then all are
\* merged into the map one after the other, and redundant ones in the map too.
Merged(list, detected) ==
  UNION {Suppressed(FoldLeft(MergeInto, list, d)) : d \in Suppressed(detected)}

Keyframe ==
  /\ last.count < MaxUpdates /\ last.call /= "points"
  /\ \E rig \in Rigs, cameras \in {<<1>>, <<1, 1>>, <<1, -1>>} :
       \E detected \in
            {d \in [1 .. Len(cameras) -> UNION {Found(rig, look, n) : look \in {1, -1}, n \in 1 .. 2}] :
               \A n \in DOMAIN d : d[n] \in Found(rig, cameras[n], n)} \cup {<<>>} :
         /\ planes' \in Merged(Evicted(planes, rig), detected)
         /\ last' = [call |-> "keyframe", count |-> last.count + 1, rig |-> rig,
                     detected |-> Range(detected), offered |-> [c \in {} |-> 0]]
  /\ UNCHANGED <<points, added>>

-----------------------------------------------------------------------------
(* Points                                                                  *)

\* Before a camera, and near enough.
Close(p, rig, looks) == looks * (p - rig) > 0 /\ looks * (p - rig) <= MaxDepth
Visible(list, rig, looks) == Cardinality({i \in DOMAIN list : Close(list[i], rig, looks)})

\* add_samples: every step-th of the points of the depth image, which are those
\* of a camera and so are visible to it.
Samples(list, n, sampled) ==
  IF n = 0 \/ sampled = <<>> THEN list
  ELSE LET want == Least(n, Len(sampled))
           step == Most(1, Len(sampled) \div want)
           taken == SelectSeq([k \in DOMAIN sampled |-> k], LAMBDA k : (k - 1) % step = 0)
       IN list \o [i \in 1 .. Least(want, Len(taken)) |-> sampled[taken[i]]]

TopUp(s, camera) ==
  LET have == Visible(s.list, camera.rig, camera.looks)
  IN IF have >= MaxPerCam THEN s
     ELSE [list |-> Samples(s.list, MaxPerCam - have, camera.sampled), added |-> TRUE]

\* update: a point that is close to no camera is dropped, then each camera that
\* sees too few adds some.
UpdatePoints(cameras) ==
  LET stay == SelectSeq(points, LAMBDA p :
                \E k \in DOMAIN cameras : Close(p, cameras[k].rig, cameras[k].looks))
      end == FoldLeft(TopUp, [list |-> stay, added |-> FALSE], cameras)
  IN points' = end.list /\ added' = end.added

\* After every solved frame; without a depth image nothing is done.
Camera(rig, looks, m) == [rig |-> rig, looks |-> looks, sampled |-> [k \in 1 .. m |-> rig + looks * (1 + (k % MaxDepth))]]

UpdatePostSolve ==
  /\ last.count < MaxUpdates /\ last.call /= "keyframe"
  /\ \E rig \in Rigs, looks \in {<<1>>, <<1, 1>>, <<1, -1>>} :
       \E m \in [DOMAIN looks -> Offers] :
         LET cameras == [k \in DOMAIN looks |-> Camera(rig, looks[k], m[k])]
         IN /\ UpdatePoints(cameras)
            /\ last' = [call |-> "points", count |-> last.count + 1, rig |-> rig, detected |-> {},
                        offered |-> [look \in Range(looks) |->
                          Max({m[k] : k \in {j \in DOMAIN looks : looks[j] = look}})]]
  /\ UNCHANGED planes

\* reset: the triangulator, the planes and the points.
Reset ==
  /\ last.count < MaxUpdates /\ last.call /= "reset"
  /\ planes' = <<>> /\ points' = <<>> /\ UNCHANGED added
  /\ last' = [call |-> "reset", count |-> last.count + 1, rig |-> 0, detected |-> {},
              offered |-> [c \in {} |-> 0]]

Init ==
  /\ planes = <<>> /\ points = <<>> /\ added = FALSE
  /\ last = [call |-> "reset", count |-> 0, rig |-> 0, detected |-> {}, offered |-> [c \in {} |-> 0]]

Next == Keyframe \/ UpdatePostSolve \/ Reset

Spec == Init /\ [][Next]_vars

-----------------------------------------------------------------------------
(* Properties                                                              *)

Parts(list) == UNION {list[i].parts : i \in DOMAIN list}

\* The planes share what has been detected: none went into two of them, the
\* inliers of a plane are those of its detections, and there are never more
\* planes than the settings allow.
PlanesShareDetections ==
  /\ Len(planes) <= MaxPlanes
  /\ \A i, j \in DOMAIN planes : i = j \/ planes[i].parts \cap planes[j].parts = {}
  /\ \A i \in DOMAIN planes :
       planes[i].inliers = MapThenSumSet(LAMBDA d : d[3], planes[i].parts)

\* Once the points are updated every camera sees as many as it should have, or
\* all that its image gave (depth_point_map.h:51 "Per-camera target").
CamerasSupported ==
  last.call = "points" =>
    \A look \in DOMAIN last.offered :
      Visible(points, last.rig, look) >= Least(MaxPerCam, last.offered[look])

\* A keyframe loses a detection, an old or a new one, only with a plane that is
\* too far away, or for want of a place, and then all that stay are as large.
DetectionsKept ==
  last'.call = "keyframe" =>
    LET near(p) == Abs(p.at - last'.rig) <= MaxPlaneDist
        all == {planes[i] : i \in {j \in DOMAIN planes : near(planes[j])}} \cup last'.detected
        lost == UNION {p.parts : p \in all} \ Parts(planes')
    IN /\ Cardinality(all) <= MaxPlanes => lost = {}
       /\ \A p \in all : p.parts \cap lost /= {} =>
            planes' /= <<>> /\ \A i \in DOMAIN planes' : planes'[i].inliers >= p.inliers

\* A point that a camera may still look at is not dropped.
ClosePointsStay ==
  last'.call = "points" =>
    \A p \in Places : \A look \in DOMAIN last'.offered : Close(p, last'.rig, look) =>
      Cardinality({i \in DOMAIN points' : points'[i] = p}) >= Cardinality({i \in DOMAIN points : points[i] = p})
=============================================================================
