--------------------------- MODULE PlaneDetection ---------------------------
(***************************************************************************)
(* PlaneMap::detect_planes_single_camera and its kernels: the points of a  *)
(* depth image, and the planes that RANSAC finds in them one after the     *)
(* other.  The points a plane takes away are removed on the device, and    *)
(* the host counts those that are left without asking.  A pixel of the     *)
(* model stands for `Bundle` pixels, a pinhole camera has focal length 1.  *)
(* What the geometry of a plane is like is in PlaneGeometry; here the      *)
(* density filter may keep any of the points, and the hull be too small.   *)
(***************************************************************************)
EXTENDS DeviceWork

CONSTANTS
  Width, Height,     \* pixels of a depth image, after unproject_stride
  Scenes,            \* the depth images: the depth of each pixel is a digit
  Depths,            \* the base of these digits; 0 is no depth
  MaxPlanes,
  MinInliers,        \* at least 3, as three different points are drawn from so many
  MaxOutput, BatchSize, Iterations, MaxGeometry,
  Bundle

VARIABLES
  stage,     \* what is done next
  device,    \* the arrays on the device
  host,      \* what the host knows of them
  search,    \* the hypotheses of this plane
  found,     \* the planes of this camera, with the points that are theirs
  launches   \* the kernels of the last step, with their sizes

vars == <<stage, device, host, search, found, launches>>

-----------------------------------------------------------------------------
(* Points and planes                                                       *)

Digit(number, i) == (number \div Depths^i) % Depths

Dot(a, b) == a[1] * b[1] + a[2] * b[2] + a[3] * b[3]
Minus(a, b) == <<a[1] - b[1], a[2] - b[2], a[3] - b[3]>>
Cross(a, b) == <<a[2] * b[3] - a[3] * b[2], a[3] * b[1] - a[1] * b[3], a[1] * b[2] - a[2] * b[1]>>

\* unproject_depth_kernel: the pixels with a depth get the slots of the array
\* in an order that is the device's; those beyond its end are only counted.
Unprojected(scene, upwards) ==
  LET pixels == [i \in Up(Width * Height) |->
                   LET d == Digit(scene, i) IN <<(i % Width) * d, (i \div Width) * d, d>>]
      valid == SelectSeq([i \in 1 .. Width * Height |-> pixels[i - 1]], LAMBDA p : p[3] > 0)
  IN IF upwards THEN valid ELSE Reverse(valid)

\* generate_hypotheses_kernel: the plane of three points, of none if they are
\* on a line.  The normal keeps its length, the threshold is measured by it.
Hypothesis(p0, p1, p2) ==
  LET n == Cross(Minus(p1, p0), Minus(p2, p0)) IN [normal |-> n, d |-> -Dot(n, p0)]
IsPlane(h) == h.normal /= <<0, 0, 0>>
NoPlane == [normal |-> <<0, 0, 0>>, d |-> 0]

\* dist < inlier_thresh, which is a little less than the unit of the points.
IsNear(h, p) == 2 * (Dot(h.normal, p) + h.d) * (Dot(h.normal, p) + h.d) < Dot(h.normal, h.normal)

\* The positions of the active entries that are near.
NearPositions(h, active, n) == {i \in 1 .. n : IsNear(h, device.points[active[i]])}

\* Each thread that finds a point takes a slot, in any order.
InSomeOrder(S, upwards) ==
  LET up == SelectSeq([i \in 1 .. MaxOutput |-> i], LAMBDA i : i \in S)
  IN IF upwards THEN up ELSE Reverse(up)
Shorter(s) == SubSeq(s, 1, Smaller(Len(s), MaxOutput))

\* What a kernel does not write keeps what was there.
Written(array, s) == [i \in DOMAIN array |-> IF i <= Len(s) THEN s[i] ELSE array[i]]

-----------------------------------------------------------------------------
(* Who handles what                                                        *)

Started(kernel, n) == IF n = 0 THEN {} ELSE {[kernel |-> kernel, n |-> n * Bundle]}

\* ransac_batch_kernel: a block for each hypothesis, whose threads share the
\* points; a sum over its warps.
EvaluateWork(n) ==
  <<BlockEach(Launch("evaluate", <<BatchSize, 1>>, <<MaxThreads, 1>>, n), BatchSize),
    Strided(MaxThreads, n)>> \o Summed(MaxThreads)

\* compute_plane_stats_kernel: one block for the nine sums of a plane.
StatsWork(n) == <<Strided(MaxThreads, n)>> \o Summed(MaxThreads)

\* The others have a thread for each item.
Did(l) ==
  CASE l.kernel = "evaluate" -> EvaluateWork(l.n)
    [] l.kernel = "stats" -> StatsWork(l.n)
    [] OTHER -> <<Guarded(Line(l.kernel, l.n, MaxThreads, l.n), l.n)>>

-----------------------------------------------------------------------------
(* One image                                                               *)

Arrays == {"active", "next", "indices", "positions", "sample"}
\* What the image of another camera has left in the arrays.
Left == [i \in 1 .. MaxOutput |-> MaxOutput + 1 - i]
Fresh == [best |-> NoPlane, count |-> 0, iter |-> 0, allowed |-> Iterations]

Init ==
  /\ stage = "unproject"
  /\ device = [points |-> <<>>, count |-> 0, active |-> Left, next |-> Left, indices |-> Left,
               positions |-> Left, sample |-> Left]
  /\ host = [active |-> 0, round |-> 0, refined |-> 0, sample |-> 0]
  /\ search = Fresh
  /\ found = <<>>
  /\ launches = {}

At(s) == stage = s
Goto(s) == stage' = s

\* The planes are handed over, the arrays stay as they are.
Return == Goto("done") /\ UNCHANGED <<host, search, found>>

\* A round begins if there is room for a plane and enough points are left.
Begins(active, round) == round < MaxPlanes /\ active >= MinInliers

Iota(n) == [i \in 1 .. n |-> i]

\* The host waits for the number of points; then all are active.
Unproject ==
  /\ At("unproject")
  /\ \E scene \in Scenes, upwards \in BOOLEAN :
       LET all == Unprojected(scene, upwards)
           points == Shorter(all)
           total == Smaller(Len(all), MaxOutput)
       IN IF total < MinInliers
          THEN /\ Return
               /\ device' = [device EXCEPT !.points = points, !.count = Len(all)]
               /\ launches' = Started("unproject", Width * Height)
          ELSE /\ device' = [device EXCEPT !.points = points, !.count = Len(all),
                               !.active = Written(device.active, Iota(total))]
               /\ host' = [host EXCEPT !.active = total, !.round = 0]
               /\ Goto("ransac")
               /\ launches' = Started("unproject", Width * Height) \cup Started("iota", total)
               /\ UNCHANGED <<search, found>>

Near(h) == NearPositions(h, device.active, host.active)
Count(h) == Cardinality(Near(h))

\* The hypotheses of the triples of active points; of those with the same points
\* near, one.
Hypotheses ==
  LET point(i) == device.points[device.active[i]]
      one(t) == Hypothesis(point(t[1]), point(t[2]), point(t[3]))
      T == {t \in (1 .. host.active) \X (1 .. host.active) \X (1 .. host.active) :
              t[1] < t[2] /\ t[2] < t[3]}
      near == [h \in {one(t) : t \in T} |-> Near(h)]
  IN {CHOOSE h \in DOMAIN near : IsPlane(h) /\ near[h] = S :
        S \in {near[h] : h \in {g \in DOMAIN near : IsPlane(g)}}}

\* Fewer iterations are required once more of the points are near: one if all
\* are, else as many as the logarithms say.
Required(count) == IF count = host.active THEN {1} ELSE 2 .. Iterations

\* ransac_batch_kernel and the choice of the best: a hypothesis must have more
\* points than the best so far.
Better(s, h) ==
  IF ~IsPlane(h) \/ Count(h) <= s.count THEN {s}
  ELSE {[s EXCEPT !.best = h, !.count = Count(h), !.allowed = Smaller(Iterations, a)] :
          a \in Required(Count(h))}

Batch ==
  /\ At("ransac") /\ search.iter < search.allowed
  /\ LET batch == Smaller(BatchSize, search.allowed - search.iter)
     IN \E h \in Hypotheses \cup {NoPlane} : \E s \in Better(search, h) :
          search' = [s EXCEPT !.iter = search.iter + batch]
  /\ launches' = Started("hypotheses", 1) \cup Started("evaluate", host.active)
  /\ UNCHANGED <<stage, device, host, found>>

\* The points of the best plane are gathered, as many as RANSAC has counted;
\* the counter of this pass is not read.
Gathered == Smaller(search.count, MaxOutput)

Gather ==
  /\ At("ransac") /\ search.iter >= search.allowed
  /\ IF search.count < MinInliers THEN Return /\ UNCHANGED device /\ launches' = {}
     ELSE /\ LET near == InSomeOrder(Near(search.best), TRUE)
             IN device' = [device EXCEPT !.count = Len(near),
                  !.indices = Written(@, Shorter([k \in 1 .. Len(near) |-> device.active[near[k]]]))]
          /\ Goto("refine")
          /\ launches' = Started("count", host.active) \cup Started("stats", Gathered)
          /\ UNCHANGED <<host, search, found>>

\* The plane that fits the gathered points best: the best one itself if they
\* are all in it, else one through some of them.
Refinements ==
  LET near == {device.points[device.indices[k]] : k \in 1 .. Gathered}
      exact == \A p \in near : Dot(search.best.normal, p) + search.best.d = 0
  IN IF exact THEN {search.best}
     ELSE {h \in {Hypothesis(t[1], t[2], t[3]) : t \in near \X near \X near} : IsPlane(h)}

\* The points are counted again for the refined plane, this time with their
\* positions in the array of active ones.
Recount ==
  /\ At("refine")
  /\ \E h \in Refinements, upwards \in BOOLEAN :
       LET near == InSomeOrder(Near(h), upwards)
           count == Smaller(Len(near), MaxOutput)
       IN /\ device' = [device EXCEPT !.count = Len(near),
               !.indices = Written(@, Shorter([k \in 1 .. Len(near) |-> device.active[near[k]]])),
               !.positions = Written(@, Shorter(near))]
          /\ launches' = Started("count", host.active)
          /\ IF count < MinInliers THEN Return
             ELSE /\ host' = [host EXCEPT !.refined = count] /\ Goto("geometry")
                  /\ UNCHANGED <<search, found>>

\* stride_subsample_indices_kernel: every stride-th point goes into the geometry.
SampleSize == Smaller(host.refined, MaxGeometry)
Sampled ==
  LET stride == IF host.refined \div SampleSize < 1 THEN 1 ELSE host.refined \div SampleSize
      source(i) == IF i * stride < host.refined THEN i * stride ELSE host.refined - 1
  IN [i \in 1 .. SampleSize |-> device.indices[source(i - 1) + 1]]

\* The plane with all its points, if the density filter leaves three points of
\* the sample and their hull is large enough.
Geometry ==
  /\ At("geometry")
  /\ launches' = Started("subsample", SampleSize) \cup Started("gather", SampleSize)
  /\ device' = [device EXCEPT !.sample = Written(@, Sampled)]
  /\ \E kept \in {0, SampleSize}, large \in BOOLEAN :
       IF kept < 3 THEN Return
       ELSE /\ host' = [host EXCEPT !.sample = SampleSize]
            /\ found' = IF large
                        THEN Append(found, [count |-> host.refined,
                                      points |-> {device.indices[k] : k \in 1 .. host.refined}])
                        ELSE found
            /\ Goto("compact") /\ UNCHANGED search

\* mark_positions_kernel: the flags are set, then cleared where a point is taken.
Kept == (1 .. host.active) \ {device.positions[k] : k \in 1 .. host.refined}

\* compact_active_kernel: what is kept moves to the other array, in any order.
Compacted(upwards) ==
  LET kept == InSomeOrder(Kept, upwards)
  IN [device EXCEPT !.count = Len(kept), !.next = device.active,
        !.active = Written(device.next, [k \in 1 .. Len(kept) |-> device.active[kept[k]]])]

\* The arrays change places; the host subtracts without reading the count.
Compact ==
  /\ At("compact")
  /\ \E upwards \in BOOLEAN : device' = Compacted(upwards)
  /\ launches' = Started("mark", host.refined) \cup Started("compact", host.active)
  /\ LET left == host.active - host.refined
     IN /\ host' = [host EXCEPT !.active = left, !.round = @ + 1]
        /\ IF Begins(left, host.round + 1) THEN Goto("ransac") /\ search' = Fresh
           ELSE Goto("done") /\ UNCHANGED search
  /\ UNCHANGED found

Next == Unproject \/ Batch \/ Gather \/ Recount \/ Geometry \/ Compact

Spec == Init /\ [][Next]_vars

-----------------------------------------------------------------------------
(* Properties                                                              *)

Entries(array, n) == {array[i] : i \in 1 .. n}

TypeOK ==
  /\ stage \in {"unproject", "ransac", "refine", "geometry", "compact", "done"}
  /\ host.active \in 0 .. Len(device.points) /\ host.round \in 0 .. MaxPlanes
  /\ \A a \in Arrays : DOMAIN device[a] = 1 .. MaxOutput
  /\ search.iter \in 0 .. Iterations

\* The number of active points that the host works out is that of the device:
\* the entries it stands for are different points, all that no plane has taken
\* (plane_map.cpp "the compaction is guaranteed to remove exactly that many").
ActiveIsWhatIsLeft ==
  stage /= "unproject" =>
    /\ Cardinality(Entries(device.active, host.active)) = host.active
    /\ Entries(device.active, host.active) \subseteq 1 .. Len(device.points)
    /\ (\E l \in launches : l.kernel = "compact") => device.count = host.active
    /\ stage /= "compact" => \A k \in DOMAIN found :
         Entries(device.active, host.active) \cap found[k].points = {}

\* The sums of a plane are over its own points: the gathering pass has found as
\* many as RANSAC counted, so that nothing of an earlier plane is read.
SumsOfThisPlane ==
  stage = "refine" =>
    /\ device.count = search.count
    /\ Entries(device.indices, Gathered) =
         {device.active[i] : i \in Near(search.best)}

\* Positions and indices of the refined points go together, slot by slot, and no
\* point is in two slots.
SlotsGoTogether ==
  stage \in {"geometry", "compact"} =>
    /\ \A k \in 1 .. host.refined : device.active[device.positions[k]] = device.indices[k]
    /\ Cardinality(Entries(device.positions, host.refined)) = host.refined

\* The sample is of different points, as many as the cap allows, and of none but
\* those of the plane.
SampleIsSpread ==
  stage = "compact" =>
    /\ Cardinality(Entries(device.sample, host.sample)) = host.sample
    /\ Entries(device.sample, host.sample) \subseteq Entries(device.indices, host.refined)

\* A point supports one plane of a camera only, and each plane has enough of them.
PlanesShareNoPoint ==
  \A j, k \in DOMAIN found :
    /\ Cardinality(found[k].points) = found[k].count /\ found[k].count >= MinInliers
    /\ j = k \/ found[j].points \cap found[k].points = {}

\* The threads of a launch handle every item once.
LaunchesWhole == \A l \in launches : \A k \in DOMAIN Did(l) : Once(Did(l)[k])
=============================================================================
