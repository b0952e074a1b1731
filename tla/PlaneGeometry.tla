--------------------------- MODULE PlaneGeometry ----------------------------
(***************************************************************************)
(* The geometry of PlaneMap (map/plane_map.cpp): the hull of points in a   *)
(* plane, the overlap of two hulls, the filter that keeps the largest      *)
(* connected region of a plane, and the covariance from sums.  Coordinates *)
(* are integers and the axes of a plane keep their lengths, which changes  *)
(* neither an order nor a ratio of areas; a point that two edges meet in   *)
(* is <<x, y, w>>, for <<x / w, y / w>>.                                   *)
(***************************************************************************)
EXTENDS Integers, Sequences, FiniteSets, FiniteSetsExt, SequencesExt

CONSTANTS
  Side,        \* points of a plane are on a grid of Side x Side
  Hulls,       \* sets of these points whose hull is computed, as numbers
  Shapes,      \* those of which two planes are compared
  Regions,     \* points of the filter: how many are in each cell, as numbers
  RowCells,       \* cells in a row of the filter
  MinCell,     \* min_cell_count
  HalfKey      \* 2^32 in the code: the part of a key for one index; more than
               \* twice RowCells, so that no two cells have the same key

VARIABLES
  asked,   \* what is computed, and of what
  answer

vars == <<asked, answer>>

-----------------------------------------------------------------------------
(* Vectors                                                                 *)

Dot(a, b) == a[1] * b[1] + a[2] * b[2] + a[3] * b[3]
Plus(a, b) == <<a[1] + b[1], a[2] + b[2], a[3] + b[3]>>
Minus(a, b) == <<a[1] - b[1], a[2] - b[2], a[3] - b[3]>>
Cross(a, b) == <<a[2] * b[3] - a[3] * b[2], a[3] * b[1] - a[1] * b[3], a[1] * b[2] - a[2] * b[1]>>
Abs(x) == IF x < 0 THEN -x ELSE x

RECURSIVE Gcd(_, _)
Gcd(a, b) == IF b = 0 THEN a ELSE Gcd(b, a % b)
Normalized(v) ==
  LET g == Gcd(Gcd(Abs(v[1]), Abs(v[2])), Abs(v[3]))
  IN IF g = 0 THEN v ELSE <<v[1] \div g, v[2] \div g, v[3] \div g>>

\* build_plane_frame: the axis that is not too near to the normal is crossed.
Frame(normal) ==
  LET axis == IF 100 * normal[1] * normal[1] < 81 * Dot(normal, normal)
              THEN <<1, 0, 0>> ELSE <<0, 1, 0>>
      u == Cross(normal, axis)
  IN [u |-> u, v |-> Cross(normal, u)]

Project(p, frame, origin) ==
  LET d == Minus(p, origin) IN <<Dot(d, frame.u), Dot(d, frame.v), 1>>

-----------------------------------------------------------------------------
(* Hulls: Andrew's monotone chain                                          *)

Turn(o, a, b) == (a[1] - o[1]) * (b[2] - o[2]) - (a[2] - o[2]) * (b[1] - o[1])

\* The points that turn right, or not at all, are taken off the end of the
\* chain, but never more than down to `least`.
Extended(chain, p, least) ==
  LET stays(m) == m < least \/ Turn(chain[m - 1], chain[m], p) > 0
  IN Append(SubSeq(chain, 1, Max({m \in 0 .. Len(chain) : stays(m)})), p)

ComputeConvexHull(points, normal, centroid) ==
  IF Len(points) < 3 THEN points
  ELSE
    LET frame == Frame(normal)
        flat == [i \in DOMAIN points |-> Project(points[i], frame, centroid) \o <<i>>]
        before(a, b) == a[1] < b[1] \/ (a[1] = b[1] /\ a[2] < b[2])
        order == SortSeq(flat, before)
        n == Len(order)
        lower == FoldLeft(LAMBDA chain, p : Extended(chain, p, 2), <<>>, order)
        both == FoldLeft(LAMBDA chain, p : Extended(chain, p, Len(lower) + 1), lower,
                         Reverse(SubSeq(order, 1, n - 1)))
        hull == SubSeq(both, 1, Len(both) - 1)
    IN [i \in DOMAIN hull |-> points[hull[i][4]]]

\* A rational number, with a positive denominator.
Ratio(n, d) == LET g == Gcd(Abs(n), Abs(d)) IN <<n \div g, d \div g>>
Sum(a, b) == Ratio(a[1] * b[2] + b[1] * a[2], a[2] * b[2])
LessEq(a, b) == a[1] * b[2] <= b[1] * a[2]

\* Twice the area, by triangles from the first vertex; the lengths of these
\* products are taken along the normal.
HullArea(hull, normal) ==
  IF Len(hull) < 3 THEN 0
  ELSE FoldLeft(LAMBDA sum, i :
         sum + Abs(Dot(normal, Cross(Minus(hull[i], hull[1]), Minus(hull[i + 1], hull[1])))),
         0, [k \in 1 .. Len(hull) - 2 |-> k + 1])

\* Twice the area of a flat polygon, by the shoelace formula.
PolygonArea(poly) ==
  IF Len(poly) < 3 THEN <<0, 1>>
  ELSE LET next(i) == poly[(i % Len(poly)) + 1]
           sum == FoldLeft(LAMBDA s, i : Sum(s, Ratio(
                    poly[i][1] * next(i)[2] - next(i)[1] * poly[i][2], poly[i][3] * next(i)[3])),
                    <<0, 1>>, [k \in DOMAIN poly |-> k])
       IN <<Abs(sum[1]), sum[2]>>

-----------------------------------------------------------------------------
(* Overlap: clipping by Sutherland and Hodgman                             *)

\* On which side of the edge from a to b a point is, times its w.
SideOf(a, b, p) == (b[1] - a[1]) * (p[2] - a[2] * p[3]) - (b[2] - a[2]) * (p[1] - a[1] * p[3])

\* Where the edge from p to q crosses that from a to b.
Crossing(a, b, p, q) ==
  LET sp == SideOf(a, b, p)
      sq == SideOf(a, b, q)
      r == [k \in 1 .. 3 |-> sp * q[k] - sq * p[k]]
  IN Normalized(IF r[3] < 0 THEN [k \in 1 .. 3 |-> -r[k]] ELSE r)

ClipByEdge(subject, a, b) ==
  LET part(i) ==
        LET cur == subject[i]
            prev == subject[IF i = 1 THEN Len(subject) ELSE i - 1]
            left == SideOf(a, b, cur) >= 0
            wasLeft == SideOf(a, b, prev) >= 0
        IN (IF left /= wasLeft THEN <<Crossing(a, b, prev, cur)>> ELSE <<>>)
             \o (IF left THEN <<cur>> ELSE <<>>)
  IN FoldLeft(LAMBDA out, i : out \o part(i), <<>>, [k \in DOMAIN subject |-> k])

PolygonIntersection(subject, clip) ==
  IF Len(subject) < 3 \/ Len(clip) < 3 THEN <<>>
  ELSE FoldLeft(LAMBDA s, i : ClipByEdge(s, clip[i], clip[(i % Len(clip)) + 1]),
                subject, [k \in DOMAIN clip |-> k])

\* Both hulls in the frame of the middle normal; none if the normals cancel.
Flat(a, b) ==
  LET frame == Frame(Normalized(Plus(a.normal, b.normal)))
      flat(hull) == [i \in DOMAIN hull |-> Project(hull[i], frame, a.centroid)]
  IN [a |-> flat(a.hull), b |-> flat(b.hull)]

\* The larger of intersection over union and intersection over the smaller.
HullOverlapRatio(a, b) ==
  IF Len(a.hull) < 3 \/ Len(b.hull) < 3 THEN <<0, 1>>
  ELSE LET f == Flat(a, b)
           inter == PolygonArea(PolygonIntersection(f.a, f.b))
           areaA == PolygonArea(f.a)
           areaB == PolygonArea(f.b)
           union == Sum(Sum(areaA, areaB), <<-inter[1], inter[2]>>)
           least == IF LessEq(areaA, areaB) THEN areaA ELSE areaB
           over(area) == IF area[1] = 0 THEN <<0, 1>> ELSE Ratio(inter[1] * area[2], inter[2] * area[1])
       IN IF LessEq(over(union), over(least)) THEN over(least) ELSE over(union)

-----------------------------------------------------------------------------
(* The filter                                                              *)

\* A cell is a key of two halves, the second without a sign.
PackCell(x, y) == x * HalfKey + (y % HalfKey)
CellOf(key) ==
  LET y == key % HalfKey IN <<key \div HalfKey, IF 2 * y >= HalfKey THEN y - HalfKey ELSE y>>

\* Binary search: the index of a key in sorted keys, 0 if it is not there.
FindSorted(keys, key) ==
  LET search[lo \in 1 .. Len(keys) + 1, hi \in 1 .. Len(keys) + 1] ==
        IF lo >= hi THEN lo
        ELSE LET mid == (lo + hi) \div 2
             IN IF keys[mid] < key THEN search[mid + 1, hi] ELSE search[lo, mid]
      at == search[1, Len(keys) + 1]
  IN IF at <= Len(keys) /\ keys[at] = key THEN at ELSE 0

Listed(S) == FoldSet(LAMBDA x, s : Append(s, x), <<>>, S)

\* From a dense cell to its neighbours, with a stack; every cell is on it once.
Flood(keys, seed, visited) ==
  LET neighbours(key) ==
        LET c == CellOf(key)
            packed == <<PackCell(c[1] - 1, c[2]), PackCell(c[1] + 1, c[2]),
                        PackCell(c[1], c[2] - 1), PackCell(c[1], c[2] + 1)>>
        IN {FindSorted(keys, packed[k]) : k \in 1 .. 4} \ {0}
      step(s) ==
        IF s.stack = <<>> THEN s
        ELSE LET cur == s.stack[Len(s.stack)]
                 new == neighbours(keys[cur]) \ s.visited
             IN [stack |-> SubSeq(s.stack, 1, Len(s.stack) - 1) \o Listed(new),
                 visited |-> s.visited \cup new, component |-> s.component \cup {cur}]
  IN FoldLeft(LAMBDA s, i : step(s),
              [stack |-> <<seed>>, visited |-> visited \cup {seed}, component |-> {}], keys)

\* filter_spatial_outliers: the points, sorted by the keys of their cells, in
\* the cells of the largest component of the dense ones; of equal ones the first.
Filtered(points) ==
  LET all == DOMAIN points
      key == [i \in all |-> PackCell(points[i][1], points[i][2])]
      count == [k \in {key[i] : i \in all} |-> Cardinality({i \in all : key[i] = k})]
      dense == SortSeq(Listed({k \in DOMAIN count : count[k] >= MinCell}), <)
      size(component) == MapThenSumSet(LAMBDA d : count[dense[d]], component)
      visit(s, seed) ==
        IF seed \in s.visited THEN s
        ELSE LET f == Flood(dense, seed, s.visited)
             IN [visited |-> f.visited,
                 best |-> IF size(f.component) > size(s.best) THEN f.component ELSE s.best]
      best == FoldLeft(visit, [visited |-> {}, best |-> {}], [d \in DOMAIN dense |-> d]).best
  IN IF Cardinality(all) < 3 \/ dense = <<>> THEN all
     ELSE {i \in all : \E d \in best : key[i] = dense[d]}

\* covariance_from_gpu_stats, times the square of the number of points.
Covariance(stats, n) ==
  [ij \in {<<1, 1>>, <<1, 2>>, <<1, 3>>, <<2, 2>>, <<2, 3>>, <<3, 3>>} |->
     n * stats.products[ij] - stats.sums[ij[1]] * stats.sums[ij[2]]]

-----------------------------------------------------------------------------
(* What is asked                                                           *)

Digits(number, base, n) == [i \in 0 .. n - 1 |-> (number \div base^i) % base]

\* A floor, a ramp and a wall, seen from one side or the other.
Surfaces == {"floor", "ramp", "wall"}
NormalOf(surface, facing) ==
  LET n == CASE surface = "floor" -> <<0, 0, 1>>
             [] surface = "ramp" -> <<-2, 0, 1>>
             [] surface = "wall" -> <<1, 0, 0>>
  IN [k \in 1 .. 3 |-> facing * n[k]]
OnSurface(surface, x, y) ==
  CASE surface = "floor" -> <<x, y, 0>>
    [] surface = "ramp" -> <<x, y, 2 * x>>
    [] surface = "wall" -> <<0, x, y>>
PointsOf(surface, shape) ==
  LET bits == Digits(shape, 2, Side * Side)
      all == [i \in 1 .. Side * Side |-> i - 1]
      chosen == SelectSeq(all, LAMBDA i : bits[i] = 1)
  IN [k \in DOMAIN chosen |-> OnSurface(surface, chosen[k] % Side, chosen[k] \div Side)]

PlaneOf(surface, shape, facing) ==
  LET points == PointsOf(surface, shape)
      normal == NormalOf(surface, facing)
  IN [normal |-> normal, centroid |-> points[1],
      hull |-> ComputeConvexHull(points, normal, points[1])]

\* The cells of a filter are in two rows, on both sides of each axis.
RegionPoints(region) ==
  LET counts == Digits(region, 6, 2 * RowCells)
      cell(i) == <<(i % RowCells) - (RowCells \div 2), (i \div RowCells) - 1>>
  IN FoldLeft(LAMBDA s, i : s \o [k \in 1 .. counts[i - 1] |-> cell(i - 1)], <<>>,
              [i \in 1 .. 2 * RowCells |-> i])

Nothing == [of |-> "nothing"]
Init == asked = Nothing /\ answer = Nothing

\* The points of a plane, and what is added of another when they are merged.
AskHull ==
  /\ asked = Nothing
  /\ \E surface \in Surfaces, facing \in {-1, 1}, shape \in Hulls, added \in Shapes \cup {0} :
       LET points == PointsOf(surface, shape) \o PointsOf(surface, added)
       IN /\ points /= <<>>
          /\ asked' = [of |-> "hull", points |-> points, normal |-> NormalOf(surface, facing)]
          /\ answer' = ComputeConvexHull(points, NormalOf(surface, facing), points[1])

AskOverlap ==
  /\ asked = Nothing
  /\ \E surface \in Surfaces, facing \in {-1, 1}, one \in Shapes, other \in Shapes :
       LET a == PlaneOf(surface, one, 1)
           b == PlaneOf(surface, other, facing)
       IN /\ asked' = [of |-> "overlap", a |-> a, b |-> b]
          /\ answer' = [ratio |-> HullOverlapRatio(a, b), mirrored |-> HullOverlapRatio(b, a)]

AskFilter ==
  /\ asked = Nothing
  /\ \E region \in Regions :
       /\ asked' = [of |-> "filter", points |-> RegionPoints(region)]
       /\ answer' = Filtered(RegionPoints(region))

\* The sums that compute_plane_stats_kernel hands over.
AskFit ==
  /\ asked = Nothing
  /\ \E shape \in Hulls :
       LET points == [i \in DOMAIN PointsOf("ramp", shape) |->
                        LET p == PointsOf("ramp", shape)[i] IN <<p[1], p[2], p[1] * p[2]>>]
           sum(f(_)) == FoldLeft(LAMBDA s, p : s + f(p), 0, points)
           products == [ij \in (1 .. 3) \X (1 .. 3) |-> sum(LAMBDA p : p[ij[1]] * p[ij[2]])]
       IN /\ asked' = [of |-> "fit", points |-> points]
          /\ answer' = Covariance([sums |-> [i \in 1 .. 3 |-> sum(LAMBDA p : p[i])],
                                   products |-> products], Len(points))

Next == AskHull \/ AskOverlap \/ AskFilter \/ AskFit

Spec == Init /\ [][Next]_vars

-----------------------------------------------------------------------------
(* Properties                                                              *)

Left(normal, a, b, p) == Dot(normal, Cross(Minus(b, a), Minus(p, a)))
After(s, i) == s[(i % Len(s)) + 1]

\* A hull has points of the plane as its corners, each once; it turns left at
\* each seen against the normal, and has no point outside (the orientation on
\* which clip_by_edge relies, plane_map.cpp:80 "the left side of (a -> b)").
HullIsRight ==
  asked.of = "hull" =>
    LET points == Range(asked.points)
        onALine == \A a, b, c \in points : Left(asked.normal, a, b, c) = 0
    IN /\ Range(answer) \subseteq points
       /\ ~onALine =>
            /\ Len(answer) = Cardinality(Range(answer))
            /\ \A i \in DOMAIN answer :
                 LET a == answer[i]
                     b == After(answer, i)
                 IN /\ \A p \in points : Left(asked.normal, a, b, p) >= 0
                    /\ Left(asked.normal, a, b, After(answer, (i % Len(answer)) + 1)) > 0
       /\ onALine /\ Len(asked.points) >= 3 => HullArea(answer, asked.normal) = 0

\* Where a point is, in homogeneous coordinates, relative to a convex polygon.
Within(poly, p) == \A i \in DOMAIN poly : SideOf(poly[i], After(poly, i), p) >= 0
StrictlyWithin(poly, p) == \A i \in DOMAIN poly : SideOf(poly[i], After(poly, i), p) > 0

\* Two planes that face the same way overlap by what they have in common: the
\* intersection has the area it has from the other side, what is inside both is
\* inside it, its corners are in both, and it is no larger than the smaller; two
\* that face each other have no overlap.
OverlapIsRight ==
  asked.of = "overlap" =>
    LET f == Flat(asked.a, asked.b)
        inter == PolygonIntersection(f.a, f.b)
        proper == Len(f.a) >= 3 /\ Len(f.b) >= 3
        middles == {[k \in 1 .. 3 |-> 3 * (p[k] + q[k]) + r[k]] :
                      p, q, r \in Range(f.a) \cup Range(f.b)}
    IN /\ answer.ratio = answer.mirrored
       /\ LessEq(<<0, 1>>, answer.ratio) /\ LessEq(answer.ratio, <<1, 1>>)
       /\ asked.a.normal /= asked.b.normal => answer.ratio[1] = 0
       /\ proper /\ asked.a.normal = asked.b.normal =>
            /\ \A p \in Range(inter) : Within(f.a, p) /\ Within(f.b, p)
            /\ \A p \in middles : StrictlyWithin(f.a, p) /\ StrictlyWithin(f.b, p) =>
                 /\ answer.ratio[1] > 0
                 /\ \A i \in DOMAIN inter :
                      inter[i][3] * After(inter, i)[3] > 0 /\
                      LET a == inter[i]
                          b == After(inter, i)
                      IN (a[1] * b[2] - b[1] * a[2]) * p[3] + (a[2] * b[3] - b[2] * a[3]) * p[1]
                           + (a[3] * b[1] - b[3] * a[1]) * p[2] >= 0

\* The filter keeps all points of one connected region of dense cells, and no
\* region has more; if no cell is dense it keeps everything.
FilterIsRight ==
  asked.of = "filter" =>
    LET all == DOMAIN asked.points
        cells == Range(asked.points)
        in(C) == {i \in all : asked.points[i] \in C}
        dense == {c \in cells : Cardinality(in({c})) >= MinCell}
        near(c, d) == Abs(c[1] - d[1]) + Abs(c[2] - d[2]) = 1
        closed(C) == \A c \in C, d \in dense : near(c, d) => d \in C
        regions == {C \in SUBSET dense : C /= {} /\ closed(C) /\
                      \A D \in SUBSET C : D = {} \/ D = C \/ ~closed(D)}
    IN IF Len(asked.points) < 3 \/ dense = {} THEN answer = all
       ELSE \E C \in regions : /\ answer = in(C)
                               /\ \A D \in regions : Cardinality(in(D)) <= Cardinality(in(C))

\* The covariance worked out from the sums is that of the deviations.
CovarianceIsRight ==
  asked.of = "fit" =>
    LET n == Len(asked.points)
        sum(i) == FoldLeft(LAMBDA s, p : s + p[i], 0, asked.points)
    IN \A ij \in DOMAIN answer :
         n * answer[ij] = FoldLeft(LAMBDA s, p :
           s + (n * p[ij[1]] - sum(ij[1])) * (n * p[ij[2]] - sum(ij[2])), 0, asked.points)
=============================================================================
