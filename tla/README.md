# Specifications of cuVSLAM

TLA+ specifications of `cu_vslam_rs`: of the SLAM front end and back end of the
vendored cuVSLAM library, of visual and visual-inertial odometry with its bundle
adjustment, and of the computations below them as far as their control and
bookkeeping go. TLC checks every module on small instances; TLAPS proves the
safety of the core modules, of the views, landmarks and past poses of SLAM, of the
frame loops of odometry, its maps and pool of images, and of the solvers' loops for
every value of their constants. Paths are relative to
`src/cuvslam/libs` unless they start with `src/`.

    tlc -workers 2 -config PoseTail_turning.cfg MCPoseTail    # one run
    tlapm PoseTailProofs.tla                                  # one proof module

## 1. The system

| Component | State it keeps | Operations | Interacts with |
|---|---|---|---|
| `slam/async_slam/tail` | list of timestamped poses under `tail_guard_` | `UpdateTimeByOdometry`, `UpdatePoseBySLAM`, `Clear`, `GetTip` | both SLAM threads |
| `slam/async_slam/async_slam` | accumulated motion, input queue, map, latest images, loop closures, save callback | `TrackResult`, `GetSlamPose`, `LocalizeInMap`, `CopyToDatabase`, `Run`/`ProcessInput`, `Shutdown` | everything below |
| `common/thread_safe_queue.h` | deque, `abort_` | `Push`, `Wait`, `TryPop`, `Abort` | main and SLAM thread |
| `slam/slam` (LocalizerAndMapper) | a map, options, the last keyframe | add keyframe, detect and apply loop closures, optimise, reduce, attach and save databases | map, pose graph |
| `slam/map` | pose graph, landmark index, descriptors, LMDB database | keyframe/edge/landmark bookkeeping, staging to the database, reduction | LocalizerAndMapper |
| `slam/localizer` | a map opened read-only, probe poses | `OpenDatabase`, `Localize` | localisation command |
| `slam/view` | a pool of views | acquire, publish | SLAM thread and API readers |
| `map/map` (UnifiedMap) | keyframes, landmarks, both indexes, gravity, under `map_mutex_` | `add_keyframe`, `get_recent_submap`, `clear`, `save_state` | odometry and bundle adjustment |
| `map/service`, `pipelines/service_sba` | `inputs_ready_`, `stop_`, `pending_`, `current_`, a thread | `trigger`, `notify`, `restart`, `run` | odometry |
| `pipelines/tracker_state_machine` | timeline of frames, state, gravity counters | `on_event`, `reset` | inertial and multisensor odometry |
| `odometry`, `pipelines/track_online_*` | previous pose, predictions | `track`, `reset`, `save_state`, `load_state` | map, bundle adjustment, state machine |
| `cuvslam/cuvslam2` | frame counter, timestamps, image pool, settings | the public API | all |
| `src/src`, `src/shim` | a handle | create, track, register IMU, destroy | public API |
| `sof` | images of two frames, tracks and keyframe of a camera, roles of cameras | take and fill images, track, select features, match cameras | odometry, SLAM |
| `map/plane_map`, `map/depth_point_map` | planes and points seen in depth images | detect, update, reset | odometry with depth |
| `sba`, `imu`, `pnp`, `refinement`, `math/pgo` | costs, normal equations, steps | one minimisation each | odometry, bundle adjustment, SLAM |
| `cuda_modules` | arrays of the device, streams, graphs | launches | solvers, `sof`, `plane_map` |

What is hard here: the main thread and the SLAM thread meet in the tail and in
the input queue, under two different mutexes; localisation replaces the whole
map between two keyframes; callbacks run on the SLAM thread and may call back;
the odometry's worker thread refines keyframes that the tracking thread resets,
clears and serialises; timestamps are signed in one place and unsigned in
another; transforms do not commute; images are shared by four parties that give
them back at different times; eleven solver loops leave early in many places; the
kernels do what the CPU does in other pieces and in another order. `PROJECT.json` lists these hazards line by
line, with the properties that cover them.

What each component must keep, in a line: the tail stays sorted, in its window
and is corrected in one piece; the front end keeps tail, queue and graph in
step and answers every request; a save calls each callback once and truthfully;
the pose graph, its indexes and the landmark index describe one connected graph
of bounded size; bundle adjustment never works on a map that is being cleared
or written; the state machine never trusts a gravity that is gone; a landmark is
found where it is indexed and survives a save; a reader sees one publication; a
past frame has the pose odometry gave it until a loop is closed; no image is
filled again while somebody has it; a solver that reports success hands over a
state no worse than the first; a step solves the system it was built from, on
either device.

## 2. Modules and the code they model

Every module starts with a comment that says what it models and what it leaves
out; `PROJECT.json` maps every definition to the lines it stands for.

### SLAM

| Module | Models | State | Actions |
|---|---|---|---|
| `PoseGroup` | the transforms `Isometry3T`, as any group, and two groups the runs use | constants `Pose`, `Mul`, `Inv`, `Id` | – |
| `PoseTail` | `slam/async_slam/tail.*` | `tail` | `UpdateTimeByOdometry`, `UpdatePoseBySLAM`, `Clear` |
| `AsyncSlam` | `async_slam.cpp`, `async_slam_localize.cpp` | tail, queue, head keyframe, position of both threads | main: `TrackFrame`, `TrackKeyframe`, `HandOver`, `LocalizeInMap`, `Shutdown`; SLAM thread: `Wait`, `TakeKeyframe`, `Drained`, `NoLoop`, `CloseLoop`, `CorrectTail`, `TakeLocalisation`, `NotLocalised`, `LocalisedAt`, `SwapMap`, `Localised` |
| `LocalisationService` | abstract: what `Slam::LocalizeInMap` promises | waiting requests, answers | `Ask`, `Start`, `Answer`, `Close` |
| `MapSaving` | `CopyToDatabase`, its command and its callback slot | calls, slot, queue, what was called back | `SetCallback`, `PushCommand`, `Shutdown`; `Wait`, `TakeCommand`, `Drained`, `WriteMap`, `CallSlot`, `ClearSlot` |
| `PoseGraph` | `slam/map/pose_graph/*`, `ReduceKeyframes`, loop closure, `FindKeyframeByFrame`, landmark relations of `lsi_grid.cpp` | keyframes, edges and their indexes, landmark relations kept twice, merged keyframes | `AddKeyframe`, `Drained`, `ReduceEdge`, `Reduced`, `NoLoop`, `CloseLoop` |
| `LandmarkStore` | `slam/map/spatial_index/lsi_grid.*`, `slam/map/map.cpp`, the databases `slam.cpp` attaches | staged, active and dead landmarks, cells, descriptors, what memory, the attached database and a saved one hold | `AddKeyframe`, `ProbeLandmark`, `CloseLoop`, `UpdateKeyframePose`, `MergeKeyframes`, `SaveMap`, `Localize` |
| `FrameLookup` | `GetPoseForFrame`, `GetPosesForAllFrames` and the keyframes they go through | queue, hypothesis, merged keyframes, poses of frames | `TrackResult`, `AddKeyframe`, `MergeKeyframe`, `CloseLoop` |
| `Views` | `slam/view/*`: the pool of a data layer, its publishers and a reader | views, who writes, who reads | `Enable`, `Disable`, `BeginPublish`, `WriteItems`, `FinishPublish`, `TrackFrame`, `BeginRead`, `FinishRead` |
| `Localizer` | `slam/localizer/*`, `slam/loop_closure_solver/*` | the probe, three results, statuses of landmarks | `Probe`, `FirstStep`, `AccurateStep`, `Finish` |

### Odometry

| Module | Models | State | Actions |
|---|---|---|---|
| `SbaService` | `map/service.cpp`, `pipelines/service_sba.h`, the map's set of keyframes, reset and checkpoint | flags, settings, worker, tracking thread | `ApplyParameters`, `AddKeyframe`, `Trigger`, `RunInline`, `Restart`, `Reset`, `ClearMap`, `Save`, `WriteMap`; worker: `Exit`, `StartTask`, `TakeSubmap`, `FinishTask` |
| `UnifiedMap` | `map/map.cpp`, `map/landmark.cpp`, what the two tasks of `service_sba.h` read and write back | keyframes, both landmark indexes, positions, preintegrations, a submap | `AddKeyframe`, `SetGravity`, `Clear`, `SaveState`, `LoadState`; task: `TakeSubmap`, `CountPoints`, `CollectObservations`, `WriteBack`, `Winsorize` |
| `InertialTracking` | `tracker_state_machine.*` and the two inertial frame loops | state machine, keyframes, gravity, `is_first_run` | `FirstFrame`, `Located`, `Integrated`, `Lost`, `FeaturesLost` per frame |
| `OdometryFrames` | the frame of the multi-camera, RGBD and multisensor odometry | poses of odometry, solver, prediction and publication, tracks, the triangulator, checkpoint | `Frame`, `SaveState`, `LoadState` |
| `MonoOdometry` | `pipelines/track_online_mono.cpp` with its task | map, copy of the task, kept frames | `Frame`, `EndTask` |
| `ImuSamples` | `imu/imu_preintegration.*`, `common/imu_measurement.cpp` and what both inertial frame loops preintegrate | the three running preintegrations, those of the keyframes, what the storage has | `Register`; `Tracked`, `Lost`, `FeaturesLost` per frame |
| `ImageFlow` | `sof/image_manager.cpp` and everybody who holds its contexts | contexts, what they hold, who has them | `Track`, `TrackRefused`, `GetState`, `SaveState`, `LoadState`, `SlamTrack`, `TakeKeyframe`, `TakeImagesAgain`, `Processed` |
| `CameraPairs`, `FeatureTracks`, `FeatureSelection`, `StereoMatching`, `PatchTracking`, `ImageFilters` | `sof`: the roles of the cameras of a rig; the tracks of a camera and what makes a keyframe; the choice of new features on CPU and GPU; a frame of several cameras on the host and on streams; the search for a patch by six trackers and their kernels; which pixels a filter reads | see the modules | one per function or round of a loop |
| `DepthMaps`, `PlaneDetection`, `PlaneGeometry` | `map/depth_point_map.cpp`, `map/plane_map.cpp`, `plane_detection_kernel.cu` | planes and points; the stage of a detection on the device; a question and its answer | `Keyframe`, `UpdatePostSolve`, `Reset`; `Unproject`, `Batch`, `Gather`, `Recount`, `Geometry`, `Compact`; `AskHull`, `AskOverlap`, `AskFilter`, `AskFit` |

### Solvers and kernels

| Module | Models |
|---|---|
| `LevenbergMarquardt` | the loops of eleven solvers (visual and inertial bundle adjustment on CPU and GPU, inertial, mono and multi-camera PnP, ICP, gravity, pose graph): the costs they accept and refuse, every return, when the caller's variables get the result |
| `NormalEquations` | one iteration of the two bundle adjustments on the CPU: build, eliminate points, solve, predict, for linear problems over a finite field, where the identities of exact arithmetic hold |
| `PoseEquations` | cost, system and prediction of the solvers that have no points to eliminate (pose graph with and without a plane, inertial PnP, gyro bias, gravity and its alignment and refinement, mono and multi-camera PnP, ICP), and the same again after a step |
| `GpuNormalEquations` | the same iteration by the kernels of `sba_imu_v1.cu` and `sba_v1.cu`, next to the CPU's |
| `MonoBundle` | the bundle adjustment of one camera: who takes part, skipped tracks, steps |
| `DeviceWork`, `VisualKernels`, `InertialKernels` | grids, threads, streams and array sizes of the launches; captured graphs |

### How the modules go together

`AsyncSlam` composes with `PoseTail` by `INSTANCE` (its steps use the operators of
`PoseTail`, and `TailMethodsOnly` says that it implements `PoseTail!Spec`) and
implements `LocalisationService` under a refinement mapping: a request is waiting
while it is in the hands of its caller, in the queue or taken but not started.
`PoseGraph` details, without a formal refinement, the step "drain, reduce, close
a loop" that `AsyncSlam` sees only through the head keyframe: merging never
touches the head. `SbaService` says when a task of bundle adjustment may run,
`UnifiedMap` what it does to the map meanwhile. `GpuNormalEquations` extends
`NormalEquations`, the two modules of launches instantiate `DeviceWork`.

Parts that share no state in the code are checked in one run. Two groups are also
proved: `MapParts` (`Views`, `LandmarkStore`, `FrameLookup`, `OdometryFrames`) and
`ProvedParts` (`LevenbergMarquardt`, `MonoOdometry`, `UnifiedMap`, `ImageFlow`).
`ComputeParts` has the sixteen modules of computations, with the search of the
localizer and the maps of depth. A group instantiates its modules, and the variable
`part` says which of them runs. A property of a group is the conjunction of the named
properties of its parts.

`MCPoseTail` names the instance of `PoseTail` that TLC runs; the other runs are of the
modules themselves. `*Proofs` hold the theorems.

### Where an action is one step

* A method that holds `tail_guard_`, `slam_mutex_` or `map_mutex_` throughout is
  one action. The critical section of a localisation is two (`LocalisedAt`,
  `SwapMap`) because the main thread can reach the tail inside it.
* `TrackResult` is two actions for a keyframe (`TrackKeyframe`, `HandOver`),
  because it reads the tail and writes it under separate locks.
* Every action of `MapSaving` is one access of the shared slot or queue.
* `ReduceEdge` is one round of the loop of `ReduceKeyframes`; an action of a solver
  is one pass of its loop.
* A publication of a view is three actions and a reading two: neither side holds a
  lock while it copies.
* A task on the submap of `UnifiedMap` is four actions: it holds no lock of the map.
* On the device, an action is one kernel or copy at the head of its stream; the host
  goes on until it waits.
* A frame of `InertialTracking`, `OdometryFrames` and `MonoOdometry` is one action:
  one thread executes it, and what runs beside it has no access to its state.

### What is abstracted

* `CameraPairs`: the manual mode, which no configuration of the library selects, is left
  out. `FeatureTracks`: `override_frame_selection` is modelled for a single camera; a rig
  applies it in `KFSelector`, before its cameras are asked.
* Poses are elements of a group; `isApprox(0.01)` is equality. The runs use
  positions on a ring of three places, with turning where order matters.
* `AsyncSlam`: the first frame's clearing of the tail and the following
  `GetSlamPose` are one action; planar constraints, views, telemetry, the frame
  trajectory and synchronous mode are left out. `drift` is a history variable that
  names the steps after which the tail and the graph are known to part.
* `MapSaving`: a release build, in which the assertion at `async_slam.cpp:296` is
  absent. The callback may at once call `SaveMap` again.
* `PoseGraph`: covariances, edge weights and poses select an edge or a keyframe,
  so every candidate is allowed (a covariance that is not a number would never be
  selected and is not modelled). An edge is its ordered pair of keyframes.
  `SetKeepTrackPoses(true)` is assumed, as `Slam` sets it. A saved map is a chain.
* `LandmarkStore`: a database is a set of records; which cells and which view a
  landmark falls in is any choice. LMDB and the wire format are left out.
* `SbaService`: what optimisation computes is left out. The destructor stops the
  service as `restart` does. `UsesTrigger` distinguishes `trigger(settings)` from
  `notify()`, which multisensor odometry calls.
* `UnifiedMap`, `MonoOdometry`: of a pose or a position only its origin is kept.
* `InertialTracking`: the timeline and the map are sets of times; settings are
  fixed for a behaviour (more keyframes for gravity than the map's capacity of 20
  would never initialise). `debug_imu_mode` and
  `disable_fusion_except_gravity` are left out.
* Images are rows of pixels, a pixel is the sequence of those it is computed from;
  depth is seen in a plane. Costs are ranks. Problems of solvers are linear.
* `ImuSamples`: a preintegration is the samples it stores, those it sums up and its
  time; the values of the samples, and whether a frame is located, are free.
* `PoseEquations`: a number of a finite field stands for a block of a matrix and is
  drawn from a seed; only for gravity and the alignments is a row a number for nine.

## 3. Runs

| Run | States | What it shows |
|---|---:|---|
| `PoseTail_turning` | 6,625 | order, retention, a correction lands where it is named and is one rigid shift |
| `AsyncSlam_localise` | 624,949 | tail = head + queue except after the named causes; unsigned throttling never wraps; the threads use only methods of `Tail`; the localisation service is implemented |
| `MapSaving_saves` | 9,405 | at most one call per callback, no false success without overlap, every save executed |
| `SbaService_all` | 67,720 | no task overlaps clearing or writing, tasks find live keyframes, settings arrive, triggers are served until the service is stopped |
| `InertialTracking_frames` | 72,868 | gravity, timeline and map in step through every outcome of eleven frames |
| `PoseGraph_reduction` | 51,733 | indexes, connectedness, relations, frame lookup; the reduction never gets stuck and ends |
| `MapParts_all` | 284,389 | a reader copies one publication, past poses follow odometry; landmark index, databases and odometry's poses in step; nothing another has is taken back |
| `ProvedParts_all` | 673,869 | solvers honest and, where they count, never without observations; maps kept, images of one frame and untouched while held |
| `ComputeParts_all` | 189,884 | the rig is used, features kept, patches matched, steps exact on both devices, launches whole; every IMU sample summed up once; the searches of localizer and planes right |

Three further runs each check one statement that the code does not keep
(section 6).

Bounds, and why the interesting cases happen within them:

* `PoseTail_turning`: three places and two directions are the smallest group in
  which rotation and translation do not commute. Timestamps -3..2 with a retention
  of 2 reach both the clamp at the lower end and pruning; up to three entries let
  a correction hit the oldest, a middle and the newest one.
* `AsyncSlam_localise`: two requests can overlap in the queue; frame times 1..2,
  retention 1 and throttling 2 reach a correction outside the window and a
  throttled loop closure; three entries suffice for two frames and a localisation.
  The rig slides, so poses commute: what turning does is the matter of `PoseTail`.
  `Wrap = 8` stands for 2^64.
* `MapSaving`: three calls: one being answered, one pushed and one entering.
* `SbaService_all`: capacity 3 with five keyframes makes the map drop keyframes;
  the settings (`FrameCounts` keyframes of which `FixedCounts` are fixed) include one
  without a fixed keyframe, which disables bundle adjustment.
* `InertialTracking_frames`: three keyframes over a period of 2, a gravity update
  after 2 and a time-out after 2 fit into ten ticks several times, with a map of
  capacity 3 that overflows.
* `PoseGraph_reduction`: limit 4 with two recent keyframes leaves room for the
  ends of a loaded chain of five and for one keyframe to merge; keyframe ids up to 7
  let keyframes be added and merged in the loaded map and in an empty one. The
  limit must exceed the number of recent keyframes and, for a loaded map, leave
  room for its leaves.
* `MapParts_all`: two views with up to five items reach a thinned publication, a
  reader that holds one view while the other is written again and one that finds
  none free. Two landmarks and cells that hold one reach staging, a full cell and
  its reduction, a save and a localisation on top. Five frames reach two keyframes
  merged before and after a loop, with steps that turn. Each of three odometries sees
  tracks appear, vanish and lose their positions within four time stamps, two tracks
  and two keyframes.
* `ProvedParts_all`: four costs make three accepted steps possible and one that is
  refused; five frames with two keyframes let a task end early, late and never; two
  tracks and three keyframes with a capacity of two make the map drop a keyframe a
  landmark was made in. Three cameras, two of them in one frame and one with depth,
  use both pools; two frames and a keyframe behind let the odometry, a state, the
  next keyframe and the one in work hold four sets of images.
* `ComputeParts_all`: the rows are as long as the block of a kernel, one more and one
  less; lists of observations cross the size of a warp and of a block; the arrays of
  the device are small enough to grow within two solves. Seven seeds reach every kind
  of observation, with fixed and free keyframes. Three samples at times up to 4 with a
  period of 2, a storage of 2 and a map of 2 reach a dropped sample, a full storage, a
  full map and a reset between two keyframes. In `PoseEquations` changes of one and of
  two unknowns span all changes, so that an identity that holds for them holds for the
  problem; outliers, points too near and a camera with more observations than are
  taken up are among the problems. The localizer has eight probes at two
  distances. Three depth images of eight pixels, in which a plane takes some of the
  points, all or none; `PlaneGeometry` runs over sets of points given as bit masks.

`CHECK_DEADLOCK FALSE` stands where the system may stop: the object is
destroyed, the worker exited, no more frames come or the bound on ids is reached.

### Fairness

* `AsyncSlam`, `MapSaving`: weak fairness of the SLAM thread, which loops in
  `Run` and waits on the queue only while it is empty; and of `HandOver` and
  `PushCommand`, the rest of a call that has begun. Nothing forces frames,
  requests or saves to come.
* `SbaService`: weak fairness of the worker and of the operations of the tracking
  thread once begun (`Continue`), never of new keyframes or interruptions.
* `PoseGraph`: weak fairness of the loop of `ReduceKeyframes`
  (`ReduceEdge \/ Reduced`), a plain loop in one thread.
* `TriggersServed` promises service only until the first interruption: after it
  `stop_` stays set, which is the matter of `SbaService_restarted`.
* The group modules check safety only and state no fairness.

## 4. Proofs

All theorems hold for every value of the constants under the `ASSUME`s of the
modules, which TLC evaluates in every run. Each proof has the same outline: an
inductive invariant that TLC checked first, one lemma per action that it is
preserved, and a temporal step. `PROJECT.json` lists the theorems; those below
are the arguments.

* **`PoseTailProofs`**, `IInv == TypeOK /\ InTimeOrder /\ WithinRetention`. Pruning
  and searching need the order, and the order needs that an entry older than the
  tip is refused. `SlamPoseIsInstalled` and `PastCorrectionIsOneShift` are action
  properties in any group; `MotionsKeptWithoutTurning` shows that a correction keeps
  the motions between later entries in a commutative group: turning is the only cause
  of the change section 6 describes.
* **`AsyncSlamProofs`** builds on it. *The tail*: every step of either thread is a
  method of the tail or leaves it alone (`OnlyTailMethods`), so what was proved of
  the tail holds in the composition (`TailStaysSorted`). *Throttling*
  (`ThrottlingIsSafe`): the timestamps of the queue ascend and none is later than the
  clock or earlier than the last loop closure. *`TipFollowsGraph`*, the central one:
  the tip is the head of the graph followed by the motions that are queued, or
  `drift` names why not. The invariant says where each queued keyframe stands in the
  tail: the entry it made, unless the tail has pruned it. A keyframe that is added
  shifts the head from the left; a correction of the tail shifts entries from the
  right; both leave the motions between entries alone as long as the group
  commutes, and where it does not the step is one of the causes in `drift`.
  Composing along the queue is a recursive function, about which the proof reasons
  with the least index at which a claim would fail. *`RequestsInOrder`*: every step
  is a step of `LocalisationService` or a stutter, under the mapping that collects
  the requests along the queue.
* **`MapSavingProofs`**: a call is in one place at a time (about to push, queued, being
  executed), and its callback enters the slot once; so a callback that was called can
  be in the slot only until it is cleared (`CallbackCalledAtMostOnce`), and when
  calls do not overlap the slot belongs to the command in execution
  (`SuccessfulCallbackSaved`).
* **`SbaServiceProofs`**, `IInv` adds to the properties that keyframes are numbered
  in order, that whoever clears or writes the map has stopped the worker
  (`Stopping`), and that a due task has keyframes (`DueWithKeyframes`).
  `TriggeredSettingsReachTask` assumes `UsesTrigger`.
* **`InertialTrackingProofs`**, `IInv` adds that nothing carries a later time than the
  clock, that a first run has a fresh state machine and that `Ok` implies a recent
  located frame; the last bounds the integration. `TimelineIsInMap` and
  `EstimatorHasKeyframes` add `MapInv`: the times of the timeline are in the map or
  older than everything in a map that is full, so that counting the newest of one
  counts the newest of the other.
* **`PoseGraphProofs`**, `IInv` adds that keyframes are numbered in order and that the
  head exists. The core is `ReachesMerged`: "r reaches all" is stated as "an edge
  leads into every set of keyframes without r", and merging two ends of an edge
  preserves that for every set, so no paths are needed. `AlwaysReducible` adds
  `FreshHead` (all keyframes lead to the head, which is recent and has no edge out): a
  keyframe that is neither the root nor recent has an edge in and another out, and
  counting shows that there is one. It assumes that no map was loaded and that the
  limit exceeds the number of recent keyframes; `PoseGraph_endless` shows that the
  second is needed. `FramesAreFound` speaks of a recursive function, the last keyframe
  of a chain of merges: a merge leads from a keyframe that existed to one that goes
  on existing, so at every merge a function with the required values is built from
  the one before, and TLA+'s choice of a function satisfies the equation.
* **`ProvedPartsProofs`**: four parts, each with its invariant, joined in `PartsInv`.
  - *Solvers* (`SolversAreHonest`): the accepted costs descend, the current cost is
    that of the last accepted state up to a step too small to matter, and the system
    is that state's. What the caller has is stated per group of solvers: those that
    write at every accepted step (`AtOnce`), at the end (`AtTheEnd`) or part by part
    (`Partly`). Of the bundlers that count skipped observations, a state without any
    has an infinite cost, which no step is accepted with and no loop entered (`Judged`).
  - *One camera* (`MapsAreKept`): the map is whole (its keyframes ascend, a track has
    observations in it and none later than its last), the task's copy is the map up to
    what frames have added since, and frames are kept exactly while a task runs.
  - *Several cameras*: keyframes ascend, both indexes name the same landmarks, all
    keyframes but the newest are integrated, a checkpoint is whole, and the landmarks
    a regular task works on keep their positions while it runs.
  - *Images* (`ImagesAreOfOneFrame`, `HeldImagesAreKept`): a camera gets the context
    whose place among the free ones is its own place among the cameras that ask, so
    no two get the same; a holder has at most one context of its pool for each
    camera, so three other holders leave a quarter of the pool for the next frame,
    for any number of cameras; and what is filled was free.

* **`MapPartsProofs`**: four parts, each with its invariant, joined in `MapPartsInv`.
  - *Views* (`AnswersAreRight`, `HeldIsKept`): only in the view of the writer may items
    and time stamp be of two frames, and the reader has a view of the pool that is not
    the writer's. The newest view that nobody writes is no older than what the reader
    has (`NewestIsKept`), because the writer takes the oldest.
  - *Landmarks* (`MapStaysInStep`, `HeldIsKept`): the statements of the run are nearly
    inductive together; added is that staged landmarks have no cell and are not dead,
    and that a database is attached only where there is a path.
  - *Past poses* (`AnswersAreRight`): the keyframe of a frame is the newest that is not
    newer than it (`FramesFollow`). Keyframes in the queue ascend, and each brings the
    motion from the one before (`KeyframesQueue`). The table of merged keyframes has no
    cycle, and a function exists that leads every keyframe along it to its end
    (`GraphHolds`): a merge makes another such function from the one before, so the
    recursive search of the code has its values. Until a loop is closed the graph has
    the poses of odometry (`GraphFollows`); the motion within a segment is a product in
    which the keyframe's pose cancels, in any group.
  - *Frames* (`MapStaysInStep`, `HeldIsKept`): what holds of the running loop holds of
    the state that was saved (`FramesAgree`), for all three odometries, so that loading
    it restores the invariant. `Rewinds <- FALSE` excludes the loading of a state into a
    loop that has run, for which `OdometryFrames_rewound` shows that a property fails.

  The proof attempt corrected one property: `OnlyReducedDisappear` said that a cell is
  full after a step in which a landmark disappears. With the two landmarks of the run
  that is true; with three, the ones it stays behind may themselves be dead. The
  property now speaks of what was listed in the cell and what came to it.

Recursive definitions are written as recursive functions, and an induction is
spelt out where it is needed: the set of indexes at which a claim fails has a
least element (`LeastElement`), and the step contradicts it.

Only model-checked, and why:

* Liveness (`TriggersServed`, `EverySaveExecuted`, `ReductionEnds`, the liveness of
  `RequestsServed`): it needs `ENABLED` and fairness, which the prover does not treat.
* `ComputeParts` (`RigIsUsed`, `FeaturesKept`, `PatchesMatched`, `StepsExact`,
  `SearchesRight`, `StepsAllowed`): identities of linear algebra, filters, sums of
  samples, launches and geometry, evaluated on given inputs by recursive definitions and compared with other
  definitions of the same value: inductions over data. The control of the localizer,
  the roles of cameras and the tracks of a camera could be proved and are not yet.

## 5. Properties and mutants

For every property of a passing run `PROJECT.json` names a variant of a modelled
definition (`<Definition>_<what is wrong>`, defined before it in the module), such
as a dropped guard or a forgotten reset, under which the run fails. The modules of
a group contain a variant for nearly every conjunct of its properties; they were
tried one by one.

## 6. What the code does not keep

Three runs end in a violation of what a document, comment, assertion or message says:

1. `SbaService_restarted`: `stop_` is never reset, so bundle adjustment ends with
   the first reset or checkpoint.
2. `PoseGraph_endless`: `ReduceKeyframes` never ends with a `max_map_size` of 1 to
   20, holding `slam_mutex_`.
3. `OdometryFrames_rewound`: `load_state` into a tracker that has run leaves the
   triangulator's list of tracks; a track that gets a number it knows is never
   located (`track_online_rgbd.cpp:180`, `track_online_multi.cpp:177`).

Shown by an earlier run or while a module was written; the properties that hold
are stated around them:

* The header of the state machine contradicts its code: a failed frame does "NOT clear
  progress" (`tracker_state_machine.h:59`, `:70`), but until gravity is known the code
  clears the timeline of keyframes (`tracker_state_machine.cpp:56`, and a test expects
  it). `FailureKeepsProgress` is the claim of the header, and it fails.
  `HealthyWhileInitialising` takes no side: in both frame loops a frame that is not
  located before gravity is known resets everything, and with failures that clear
  nothing `InertialTracking_frames` reaches the same 72,868 states.
* Multisensor odometry wakes bundle adjustment with `notify()`, so settings changed
  later never reach a task (`track_online_multisensor.cpp:289`; `cuvslam2.cpp:1243`,
  `cuvslam2.h:743`). `SettingsReachTask` fails with `UsesTrigger` false; `SbaService_all`
  and the theorem `TriggeredSettingsReachTask` are about the other odometries.
* The visual GPU bundler never reads the number of skipped observations: a step that
  leaves nothing in front of a camera costs 0 and is accepted
  (`schur_complement_bundler_gpu.cpp:187`; comment at `:199`). `NeverInfeasible` fails
  when it is stated of that bundler too; what else `SolversHonest` says of its success
  is about the cost that it computes.
* With no feature wanted, `selectFeatures` on the CPU adds some; the next keyframe
  asserts, or reserves, a negative number (`selection.cpp:286`, `sof_mono_cpu.cpp:128`).
  `DesiredIsEnough` fails for a single camera; `NeverTooMany` holds for the others.
* Camera 0 counts as a camera with depth for odometries without any and becomes
  primary, so a rig without a stereo pair is accepted (`cuvslam2.cpp:700`, `:716`).
  `AcceptedRigHasStereo` fails.
* `tail.cpp:86` corrects later poses on the right, which changes the motions between
  them when the rig turned; a correction between the two halves of `TrackResult` is
  undone for the reported pose (`async_slam.cpp:145`, `:194`).
* The slot of a save is cleared after the callback (`async_slam.cpp:317`): a save
  started by or after that callback loses its own.
* The gravity estimate uses keyframes of before the drop that cleared the timeline.
* `run_sba` dereferences positions that a landmark has not got while gravity is
  unknown or after a winsorize step (`service_sba.h:108`, `:334`, `:364`).
* `mono_sba_solver.cpp:284` uses errors of before the last step for tracks that are
  taken back (`:699`).

SLAM, met while reading:

* A queued keyframe with the timestamp of the head is added again after a
  localisation whose head was made from the tip (`async_slam.cpp:394`; the drift
  "counted twice").
* After a localisation the head stands for frame id 0, so the pose of a past frame
  may be composed from the localised one; a frame after a queued keyframe is placed
  from the one before (`cuvslam2.h:961`).
* `cuvslam2.h:686` says a checkpoint drains pending work; `service.cpp:76` drops it.
* `lsi_grid.cpp:678` erases to the end, so a removed landmark stays listed in other
  cells; dead landmarks vanish when a map is saved.
* The view that `Slam::Track` writes is never cleared (`cuvslam2.h:866`, `:913`);
  `views_.empty()` is read before the lock; a reader may miss the newest publication.
* A localisation keeps the head of the saved map, which
  `FindKeyframeWithMostLandmarks` skips; a step of 0 never ends the search.

Odometry:

* `tracker_state_machine.cpp:98` speaks of retrying on the next keyframe; the code
  retries at every located frame.
* The gravity callback and the bundle adjustment worker can overwrite each other's
  poses (`track_online_inertial.cpp:332`).
* `MultisensorOdometry::reset` forgets the solver's pose but not the odometry's own:
  after a loss the published pose jumps to the origin, where multi and RGBD go on.
* `std::set_intersection` runs on iterators of unordered sets (`triangulator.cpp:79`).
* `VisualICP` projects the observations of all cameras with the transform of the
  depth camera (`visual_icp.cpp:263`).
* A failed `acquire` leaves the raw images ahead of the previous ones
  (`cuvslam2.cpp:586`); a frame of which all depth is missing cannot be tracked
  (`:328`).
* Mono: if frame 0 is refused every later keyframe throws `std::out_of_range`; a
  nodal rotation is accumulated twice; `removeTrack` is never called.

Solvers, met while writing `PoseEquations` and `ImuSamples`:

* The planar pose graph and the inertial PnP predict with twice lambda times the square
  of the step although they damp with lambda times a diagonal
  (`soft_inertial_pnp.cpp:752`, `pgo.cpp:502`); the prediction of the gravity solver sums
  up the one triangle that is stored (`inertial_optimization.cpp:652`). `Missed` says by
  how much each prediction is off.
* `inertial_optimization.cpp:434` and `:556` say that the prior is added after the
  scaling by 1000; both add it before (`:436`, `:443`).
* `OptimizeInertialAdaptive` moves the poses of the keyframes whatever it returns.
* `use_planar_constraint` is set and never reset (`pose_graph_optimize.cpp:81`), and in
  the plane constrained poses are moved as well.
* `Initialize` of a preintegration keeps its samples; what was registered before a reset
  would be summed up by a `Reintegrate`. `FactorsHaveTheirSamples` shows that no factor
  gets them.
* An IMU that is slower than the camera is always reported as dropping samples.

Images and kernels:

* `st_tracker.cu:657` and `:1140` update the map with `dyx` and `dxy` exchanged,
  against `st_tracker.cpp`; the test that compares them is disabled.
* The CPU rounds the size of a pyramid level down, the GPU up; lazily evaluated
  gradients are `mutable` and shared with the SLAM thread without a lock
  (`gradient_pyramid.cpp:190`).
* In moderate mode two streams may fill one secondary image
  (`sof_multicamera_gpu.cpp:115`).
* The inertial kernels count preintegration residuals half
  (`sba_imu_v1.cu:641`, `:1557`, `:1678`) and use a transposed Jacobian of the gyro
  bias (`:1220`); `CUDA_CHECK` throws, so a graph that cannot be updated is never
  instantiated again.
* `min_plane_inliers` below 3 would loop for ever; the cap of points per camera
  (`depth_point_map.h:51`) is not kept with overlapping cameras.

## 7. Plan

The core, its proofs and the parts of odometry, images and solvers are done. Open, in
the order of what they would say about the system:

1. Proofs for `Localizer`, `FeatureTracks` and `CameraPairs`, whose properties are
   invariants of their control.
2. The transactions of the LMDB database below `LandmarkStore`.
3. The window matcher and the kernels of ICP; synchronous SLAM; the constructor
   checks of the Rust wrapper against `Odometry`.

## 8. Not modelled

* The Rust wrapper (`src/src`, `src/shim`): a binding without state of its own.
* Recordings, launcher, tools, the Python binding, telemetry and visualisation: input
  and output.
* The geometry inside Jacobians and residuals, the values of preintegrations, covariances
  and pixels: real-valued computations, of which the modules have what is added where, in
  which order and how often.
* The marginalisation of the inertial PnP, the bundle adjustment with which the inertial
  loop starts, and the refinement of calibrations (`refinement`).
* The kernels of ICP and the window matcher.
