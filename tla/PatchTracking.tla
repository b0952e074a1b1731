---------------------------- MODULE PatchTracking ----------------------------
(***************************************************************************)
(* A patch around a point of one image is looked for in another, from the  *)
(* coarsest level of the pyramids to the finest: LKFeatureTracker,         *)
(* KLTTracker, STTracker and the descriptors of SLAM, with the kernels that*)
(* do the same on a GPU next to them.  A position is a column counted from *)
(* the centre of the first pixel of level 0; what the pixels make of an    *)
(* iteration is an outcome, the same for both as long as they are at the   *)
(* same place.                                                             *)
(***************************************************************************)
EXTENDS Integers, FiniteSets

CONSTANTS
  Width,        \* columns of level 0
  Levels,       \* levels of a pyramid
  Half,         \* a patch has 2 * Half + 1 columns
  Radius,       \* search_radius_px of the features that are visible
  Reach,        \* bound of the model: how far an iteration moves the point
  Trackers,     \* "lk", "lk_horizontal", "klt", "klt_horizontal", "st", "descriptor"
  FullMapping,  \* whether trackers of affine maps have n_full_mapping_iterations
  MaxError      \* most that the map lacks at first in a place off its diagonal

VARIABLES
  task,        \* [tracker, full, prev, guess, radius], prev: where the patch is from
  level,       \* level to be tracked next, -1 after the last one
  cpu, gpu,    \* [x, lack: error of the map, matched, status]
  borderline   \* a patch was inside of the image for the kernel only

vars == <<task, level, cpu, gpu, borderline>>

Pow(l) == 2 ^ l

NotVisible == -1

-----------------------------------------------------------------------------
(* Images                                                                  *)

\* log1p of the radius, truncated
Log1p(r) == IF r < 2 THEN 0 ELSE IF r < 7 THEN 1 ELSE 2

\* isPointInImage of the point scaled down to a level
InImage(x, l) == 2 * x >= -Pow(l) /\ 2 * x < 2 * Width - Pow(l)

\* computePatch: the box of the patch and of its right neighbours is in the image.
PatchInside(x, l) == x \div Pow(l) >= Half /\ x \div Pow(l) + Half + 2 < Width \div Pow(l)

\* The box in the kernels, which may be half a pixel nearer to the border
TextureInside(x, l) ==
  /\ 2 * x >= (2 * Half - 1) * Pow(l)
  /\ 2 * x + (2 * Half + 3) * Pow(l) < 2 * (Width \div Pow(l)) * Pow(l)

-----------------------------------------------------------------------------
(* Outcomes of the iterations at a level                                   *)

\* end: where the point is in the end; stop: it converged there, the iterations ran out,
\* the patch left the image, or the system had no solution; alike: the correlation of the
\* patches is above the threshold once the map is right.
Outcomes == [end : -Reach .. Reach, stop : {"converged", "exhausted", "left", "singular"}, alike : BOOLEAN]

NoError == [xy |-> 0, yx |-> 0]

End(m, o) == m.x + o.end * Pow(level)

\* A point that is lost is where it was in the previous image.
Lost(m) == [m EXCEPT !.status = "lost"]

\* A step of refineMapping in all six parameters: z_map << dxx, dxy, dyx, dyy.
MapAfter(lack) == NoError

\* The same step in the kernels, which add dyx where dxy belongs.
MapAfterKernel(lack) == [xy |-> lack.xy - lack.yx, yx |-> lack.yx - lack.xy]

\* No iteration is needed for a point that does not move.
Mapped(m, o, after) == IF task.full /\ o.end # 0 THEN after ELSE m.lack

Correlated(o, lack) == o.alike /\ lack = NoError

-----------------------------------------------------------------------------
(* LKFeatureTracker                                                        *)

LkEnters == task.radius >= 0 /\ InImage(task.prev, 0) /\ InImage(task.guess, 0)

WithinRadius(d) == d * Pow(level) <= task.radius /\ -d * Pow(level) <= task.radius

\* The radius is not compared with the movement.
LkLevel_far(m, o, converges, inside) ==
  IF ~inside THEN m
  ELSE IF o.stop = "singular" THEN Lost(m)
  ELSE LET matches == converges /\ o.alike
       IN [m EXCEPT !.x = IF matches THEN End(m, o) ELSE @, !.matched = level = 0 /\ matches]

\* One level, converges: what the iterations do, inside: whether the previous image has the
\* patch.  At level 0 a point that is not matched is not handed out.
LkLevel(m, o, converges, inside) ==
  IF ~inside THEN m
  ELSE IF o.stop = "singular" THEN Lost(m)
  ELSE LET matches == converges /\ WithinRadius(o.end) /\ o.alike
       IN [m EXCEPT !.x = IF matches THEN End(m, o) ELSE @, !.matched = level = 0 /\ matches]

LkConverges(m, o) == PatchInside(m.x, level) /\ o.stop = "converged" /\ PatchInside(End(m, o), level)

Lk(m, o) == LkLevel(m, o, LkConverges(m, o), PatchInside(task.prev, level))

\* LKTrackerHorizontal solves for the column only.
LkHorizontal(m, o) == Lk(m, o)

\* The head of lk_track_kernel
LkKernelEnters == LkEnters

\* The iterations of lk_track_kernel
LkKernelConverges(m, o) ==
  TextureInside(m.x, level) /\ o.stop = "converged" /\ TextureInside(End(m, o), level)

LkKernel(m, o) == LkLevel(m, o, LkKernelConverges(m, o), TextureInside(task.prev, level))

\* lk_track_horizontal_kernel
LkHorizontalKernelEnters == LkKernelEnters
LkHorizontalKernelConverges(m, o) == LkKernelConverges(m, o)
LkHorizontalKernel(m, o) ==
  LkLevel(m, o, LkHorizontalKernelConverges(m, o), TextureInside(task.prev, level))

-----------------------------------------------------------------------------
(* KLTTracker                                                              *)

KltEnters == task.radius >= 0 /\ InImage(task.prev, 0)

\* refine_position: a step that leaves the image fails, even after steps that did not.
RefinePosition(m, o) ==
  /\ PatchInside(m.x, level)
  /\ o.stop \in {"converged", "exhausted"} /\ PatchInside(End(m, o), level)

\* KLTTrackerHorizontal: it also fails if the patch has no gradient.
RefineColumn(m, o) == RefinePosition(m, o)

Refines(m, o) == IF task.tracker = "klt" THEN RefinePosition(m, o) ELSE RefineColumn(m, o)

\* A position that failed half way is the start of the next level.
Klt_moved(m, o) ==
  IF ~InImage(m.x, level) \/ ~PatchInside(task.prev, level) THEN Lost(m)
  ELSE IF ~Refines(m, o) THEN IF level > 0 THEN [m EXCEPT !.x = End(m, o)] ELSE Lost(m)
  ELSE IF o.alike THEN [m EXCEPT !.x = End(m, o), !.matched = level = 0]
  ELSE IF level > 0 THEN m ELSE Lost(m)

\* One level of track_point
Klt(m, o) ==
  IF ~InImage(m.x, level) \/ ~PatchInside(task.prev, level) THEN Lost(m)
  ELSE IF ~Refines(m, o) THEN IF level > 0 THEN m ELSE Lost(m)
  ELSE IF o.alike THEN [m EXCEPT !.x = End(m, o), !.matched = level = 0]
  ELSE IF level > 0 THEN m ELSE Lost(m)

-----------------------------------------------------------------------------
(* STTracker and the descriptors                                           *)

\* BuildPointCache: the levels that have a patch of the point
BuildPointCache(x) == {l \in 0 .. Levels - 1 : InImage(x, l) /\ PatchInside(x, l)}

\* st_build_cache_kernel
BuildCacheKernel(x) == {l \in 0 .. Levels - 1 : InImage(x, l) /\ TextureInside(x, l)}

\* A descriptor is made of no patch.
CreateDescriptor_any(x) == TRUE

\* There is no descriptor if no level has a patch.
CreateDescriptor(x) == BuildPointCache(x) # {}

\* CreateDescriptors on a GPU makes one then too, without patches.
CreateDescriptorGpu(x) == Levels > 0

StEnters(created) ==
  /\ task.radius >= 0
  /\ IF task.tracker = "st" THEN InImage(task.prev, 0) ELSE created

\* refineMapping
RefineMapping(m, o) ==
  /\ PatchInside(m.x, level) /\ o.stop \in {"converged", "exhausted"} /\ InImage(End(m, o), level)
  /\ o.stop = "converged" => PatchInside(End(m, o), level)

Refined(m, o, lack, own) ==
  [m EXCEPT !.x = End(m, o), !.lack = lack, !.matched = level = 0 /\ o.stop = "converged" /\ own]

\* Neither the correlation nor the convergence at level 0 is asked for.
StLevel_unchecked(m, o, own) ==
  LET lack == Mapped(m, o, MapAfter(m.lack)) IN
  IF ~InImage(m.x, level) THEN Lost(m)
  ELSE IF ~own /\ level > 0 THEN m
  ELSE IF ~RefineMapping(m, o) THEN IF level > 0 THEN m ELSE Lost(m)
  ELSE IF ~PatchInside(End(m, o), level) THEN Lost(m)
  ELSE Refined(m, o, lack, own)

\* One level of trackPoint, own: whether the level has a patch.  At level 0 a missing patch
\* is compared all the same: whatever the memory holds.
StLevel(m, o, own) ==
  LET lack == Mapped(m, o, MapAfter(m.lack)) IN
  IF ~InImage(m.x, level) THEN Lost(m)
  ELSE IF ~own /\ level > 0 THEN m
  ELSE IF ~RefineMapping(m, o) THEN IF level > 0 THEN m ELSE Lost(m)
  ELSE IF ~PatchInside(End(m, o), level) THEN Lost(m)
  ELSE IF level = 0 /\ (~Correlated(o, lack) \/ o.stop # "converged") THEN Lost(m)
  ELSE Refined(m, o, lack, own)

\* STTracker::trackPoint, and st_track_kernel, look where the point of the previous image is.
St(m, o) ==
  IF InImage(task.prev, level) THEN StLevel(m, o, PatchInside(task.prev, level)) ELSE Lost(m)

\* TrackPointWithCache
Descriptor(m, o) == StLevel(m, o, level \in BuildPointCache(task.prev))

\* The iterations of st_track_kernel
RefineKernel(m, o) ==
  /\ TextureInside(m.x, level) /\ o.stop \in {"converged", "exhausted"} /\ InImage(End(m, o), level)
  /\ o.stop = "converged" => TextureInside(End(m, o), level)

AfterRefinement(m, o, lack, own) ==
  IF ~TextureInside(End(m, o), level) THEN Lost(m)
  ELSE IF level = 0 /\ (~Correlated(o, lack) \/ o.stop # "converged") THEN Lost(m)
  ELSE Refined(m, o, lack, own)

\* st_track_kernel: good_patch stays false at level 0 and fails the iterations.
StKernel(m, o) ==
  LET own == TextureInside(task.prev, level) IN
  IF ~InImage(task.prev, level) \/ ~InImage(m.x, level) THEN Lost(m)
  ELSE IF own /\ RefineKernel(m, o)
  THEN AfterRefinement(m, o, Mapped(m, o, MapAfterKernel(m.lack)), own)
  ELSE IF level > 0 THEN m ELSE Lost(m)

\* The same code, once more, in st_track_with_cache_kernel
RefineCachedKernel(m, o) == RefineKernel(m, o)
CachedMapAfterKernel(lack) == MapAfterKernel(lack)
AfterCachedRefinement(m, o, lack, own) == AfterRefinement(m, o, lack, own)

\* Every iteration has its own good_patch: at level 0 the patch is taken out of the cache
\* whether or not it was put there.
DescriptorKernel(m, o) ==
  LET own == level \in BuildCacheKernel(task.prev) IN
  IF ~InImage(m.x, level) THEN Lost(m)
  ELSE IF (own \/ level = 0) /\ RefineCachedKernel(m, o)
  THEN AfterCachedRefinement(m, o, Mapped(m, o, CachedMapAfterKernel(m.lack)), own)
  ELSE IF level > 0 THEN m ELSE Lost(m)

-----------------------------------------------------------------------------
LkTrackers == {"lk", "lk_horizontal"}
KltTrackers == {"klt", "klt_horizontal"}

Coarsest == IF task.tracker \in LkTrackers THEN Levels - 1
            ELSE IF Log1p(task.radius) < Levels THEN Log1p(task.radius) ELSE Levels - 1

Start(enters, lack) ==
  [x |-> task.guess, lack |-> lack, matched |-> FALSE, status |-> IF enters THEN "tracking" ELSE "lost"]

\* offset = current_uv - previous_uv, zero for a descriptor
Tasks ==
  {t \in [tracker : Trackers, full : FullMapping, prev : 0 .. Width - 1, guess : 0 .. Width - 1,
          radius : Radius \cup {NotVisible}] :
     /\ t.full => t.tracker \in {"st", "descriptor"}
     /\ t.guess - t.prev \in -1 .. 1}

\* There is no KLTTracker on a GPU.
Init ==
  /\ task \in Tasks
  /\ CASE task.tracker = "lk" -> cpu = Start(LkEnters, NoError) /\ gpu = Start(LkKernelEnters, NoError)
       [] task.tracker = "lk_horizontal" ->
            cpu = Start(LkEnters, NoError) /\ gpu = Start(LkHorizontalKernelEnters, NoError)
       [] task.tracker \in KltTrackers -> cpu = Start(KltEnters, NoError) /\ gpu = Lost(cpu)
       [] OTHER -> \E lack \in [{"xy", "yx"} -> -MaxError .. MaxError] :
                     /\ cpu = Start(StEnters(CreateDescriptor(task.prev)), lack)
                     /\ gpu = Start(StEnters(CreateDescriptorGpu(task.prev)), lack)
  /\ level = Coarsest /\ borderline = FALSE

OnCPU(o) ==
  CASE task.tracker = "lk" -> Lk(cpu, o)
    [] task.tracker = "lk_horizontal" -> LkHorizontal(cpu, o)
    [] task.tracker \in KltTrackers -> Klt(cpu, o)
    [] task.tracker = "st" -> St(cpu, o)
    [] OTHER -> Descriptor(cpu, o)

OnGPU(o) ==
  CASE task.tracker = "lk" -> LkKernel(gpu, o)
    [] task.tracker = "lk_horizontal" -> LkHorizontalKernel(gpu, o)
    [] task.tracker = "st" -> StKernel(gpu, o)
    [] OTHER -> DescriptorKernel(gpu, o)

Differs(x) == PatchInside(x, level) # TextureInside(x, level)

TrackLevel ==
  /\ level >= 0 /\ "tracking" \in {cpu.status, gpu.status}
  /\ \E o \in Outcomes :
       /\ cpu' = IF cpu.status = "tracking" THEN OnCPU(o) ELSE cpu
       /\ gpu' = IF gpu.status = "tracking" THEN OnGPU(o) ELSE gpu
       /\ borderline' = (borderline \/ \E x \in {task.prev, cpu.x, End(cpu, o)} : Differs(x))
  /\ level' = level - 1 /\ UNCHANGED task

\* track is assigned: LK needs the match at level 0, the others the point in the image.
Result(m) ==
  IF m.status # "tracking" THEN m
  ELSE [m EXCEPT !.status = IF IF task.tracker \in LkTrackers THEN m.matched ELSE InImage(m.x, 0)
                            THEN "found" ELSE "lost"]

Finish ==
  /\ level = -1 /\ "tracking" \in {cpu.status, gpu.status}
  /\ cpu' = Result(cpu) /\ gpu' = Result(gpu)
  /\ UNCHANGED <<task, level, borderline>>

Next == TrackLevel \/ Finish

Spec == Init /\ [][Next]_vars
-----------------------------------------------------------------------------
(* Properties                                                              *)

\* A point that is found was matched at level 0 with a patch of its own: not at a coarser
\* level, and not with what a descriptor without patches leaves in memory.  STTracker on
\* the CPU and the descriptors of the kernels compare near the border what they do not have.
FoundIsMatched ==
  /\ cpu.status = "found" /\ task.tracker # "st" => cpu.matched
  /\ gpu.status = "found" /\ task.tracker # "descriptor" => gpu.matched

\* A point moves only to where its patch was compared, at any level.
MovesAreCompared ==
  /\ cpu'.x # cpu.x => PatchInside(cpu'.x, level)
  /\ gpu'.x # gpu.x => TextureInside(gpu'.x, level)

\* LKFeatureTracker compares the movement of every level with the radius: a point is found
\* at most as many radii from the guess as there are levels.
NearTheGuess ==
  \A m \in {cpu, gpu} :
    task.tracker \in LkTrackers /\ m.status = "found" => m.x - task.guess \in -Levels * task.radius .. Levels * task.radius

\* The kernels find what the trackers find, where they find it: unless a patch is so near
\* the border that only a kernel takes it, or the map is tracked too.
KernelsAgree ==
  ~borderline /\ ~task.full /\ task.tracker \notin KltTrackers /\ PatchInside(task.prev, 0) =>
    cpu.x = gpu.x /\ cpu.status = gpu.status
=============================================================================
