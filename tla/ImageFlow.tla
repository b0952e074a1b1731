------------------------------ MODULE ImageFlow ------------------------------
(***************************************************************************)
(* How the images of a frame travel: Odometry::Track takes a context for   *)
(* each image from the pools of ImageManager, the odometry keeps those of  *)
(* the previous frame, the caller has them in an Odometry::State, and SLAM *)
(* keeps those of the newest keyframe for its thread (cuvslam2.cpp,        *)
(* image_manager.cpp, async_slam.cpp).                                     *)
(*                                                                         *)
(* A context is free when none of these holds it (use_count() == 1).  Its  *)
(* pixels are left out: it holds the number of its frame.  Track works     *)
(* through its images while the SLAM thread runs.                          *)
(***************************************************************************)
EXTENDS Integers, FiniteSets

CONSTANTS
  Camera,        \* cameras, numbers
  DepthCamera,   \* those that give depth
  FrameCameras,  \* sets of cameras whose images come in one frame
  DepthMayDrop,  \* Multisensor: a frame may lack a depth image
  KeepsStates,   \* the caller may keep an Odometry::State while it tracks on
  MaxFrames,     \* bound of the model: calls of Track
  MaxQueue       \* bound of the model: keyframes SLAM is behind

VARIABLES
  frameId,   \* frame_id
  result,    \* of the last call of Track or LoadState
  curr,      \* curr_image_ptrs
  prev,      \* prev_image_ptrs
  contexts,  \* image_contexts
  raw,       \* frames of prev_raw_images
  rawDepth,  \* frames of prev_raw_depths
  content,   \* ImageMeta::frame_id of the contexts
  state,     \* the Odometry::State the caller has
  saved,     \* the last buffer of SaveState
  processing, \* processing_images_
  queued,    \* keyframes of input_queue_
  working,   \* current_images of ProcessInput
  busy       \* ProcessInput has a keyframe

odometry == <<frameId, result, curr, prev, contexts, raw, rawDepth, content>>
slam == <<processing, queued, working, busy>>
vars == <<frameId, result, curr, prev, contexts, raw, rawDepth, content,
          state, saved, processing, queued, working, busy>>

CacheSize_three == 3

\* contexts in the pools for each camera
CacheSize == 4

\* num_no_depth_cams * cache_size and num_depth_cams * cache_size contexts
Pool(depth) ==
  {depth} \X (1 .. CacheSize * Cardinality(IF depth THEN DepthCamera ELSE Camera \ DepthCamera))
Context == Pool(TRUE) \cup Pool(FALSE)

NoContext == <<FALSE, 0>>
NoImages == [c \in Camera |-> NoContext]
NoFrame == -1
NoState == [frame |-> NoFrame, images |-> NoImages]

Held(images) == {images[c] : c \in Camera}

Init ==
  /\ frameId = 0 /\ result = "none"
  /\ curr = NoImages /\ prev = NoImages /\ contexts = NoImages
  /\ raw = [c \in Camera |-> NoFrame] /\ rawDepth = [c \in Camera |-> NoFrame]
  /\ content = [x \in Context |-> NoFrame]
  /\ state = NoState /\ saved = <<>>
  /\ processing = NoImages /\ queued = 0 /\ working = NoImages /\ busy = FALSE

Free_but_slam(holders) == Context \ UNION {Held(images) : images \in holders \cup {state.images}}

\* contexts only the pools hold, when these sets of images are what the
\* odometry has
Free(holders) ==
  Context \ UNION {Held(images) : images \in holders \cup {state.images, processing, working}}

-----------------------------------------------------------------------------
(* Odometry                                                                *)

Acquired_counted_late(images, depths, free) ==
  LET InPool(c) == free \cap Pool(c \in depths)
      First(c) == CHOOSE x \in InPool(c) : \A y \in InPool(c) : x[2] <= y[2]
  IN [c \in Camera |-> IF c \in images /\ InPool(c) # {} THEN First(c) ELSE NoContext]

\* The calls of acquire and acquire_with_depth for these cameras, in turn, up
\* to the first that gives nothing: the context each camera got.  The SLAM
\* thread only gives contexts back meanwhile.
Acquired(images, depths, free) ==
  LET Rivals(c) == {d \in images : d <= c /\ (d \in depths) = (c \in depths)}
      InPool(c) == free \cap Pool(c \in depths)
      Got(c) == \A d \in images : d <= c => Cardinality(Rivals(d)) <= Cardinality(InPool(d))
      Turn(c, x) == Cardinality({y \in InPool(c) : y[2] <= x[2]}) = Cardinality(Rivals(c))
  IN [c \in Camera |-> IF c \in images /\ Got(c) THEN CHOOSE x \in InPool(c) : Turn(c, x) ELSE NoContext]

Filled_counted_first(got, frames, free) ==
  [x \in Context |->
     IF x \in Held(got) THEN frames[CHOOSE c \in Camera : got[c] = x] + 1
     ELSE IF x \in free THEN NoFrame ELSE content[x]]

\* The contexts the cameras got hold these frames; what the others that are
\* free held is forgotten.
Filled(got, frames, free) ==
  [x \in Context |->
     IF x \in Held(got) THEN frames[CHOOSE c \in Camera : got[c] = x]
     ELSE IF x \in free THEN NoFrame ELSE content[x]]

RawAfter_first_only(taken) ==
  [c \in Camera |-> IF taken = Camera /\ prev = NoImages THEN frameId ELSE raw[c]]

\* SaveInputImage for the images that got a context
RawAfter(taken) == [c \in Camera |-> IF c \in taken THEN frameId ELSE raw[c]]

\* The check of the time throws: the call has given up the images of the one
\* before and used a number.
TrackRefused ==
  /\ frameId < MaxFrames
  /\ frameId' = frameId + 1 /\ contexts' = NoImages /\ curr' = NoImages
  /\ result' = "refused"
  /\ UNCHANGED <<prev, raw, rawDepth, content, state, saved, slam>>

\* Track of a frame, to the end or to "Failed to acquire image context from
\* image_manager", which leaves prev_image_ptrs.
Track ==
  /\ frameId < MaxFrames
  /\ KeepsStates \/ state.images \in {NoImages, contexts}
  /\ frameId' = frameId + 1
  /\ \E images \in FrameCameras, depths \in SUBSET DepthCamera :
       /\ depths \subseteq images
       /\ DepthMayDrop \/ depths = DepthCamera \cap images
       /\ contexts' = Acquired(images, depths, Free({prev}))
       /\ curr' = contexts'
       /\ content' = Filled(contexts', [c \in Camera |-> frameId], Free({prev}))
       /\ LET taken == {c \in Camera : contexts'[c] # NoContext}
          IN /\ raw' = RawAfter(taken)
             /\ rawDepth' = [c \in Camera |-> IF c \notin taken THEN rawDepth[c]
                                              ELSE IF c \in depths THEN frameId ELSE NoFrame]
             /\ \/ /\ images \subseteq taken
                   /\ prev' = [c \in Camera |-> IF c \in taken THEN contexts'[c] ELSE prev[c]]
                   /\ result' = "tracked"
                \/ /\ ~(images \subseteq taken)
                   /\ result' = "failed"
                   /\ UNCHANGED prev
  /\ UNCHANGED <<state, saved, slam>>

\* Odometry::GetState
GetState ==
  /\ frameId > 0
  /\ state' = [frame |-> frameId - 1, images |-> contexts]
  /\ UNCHANGED <<odometry, saved, slam>>

\* Odometry::SaveState, once (a bound of the model)
SaveState ==
  /\ frameId > 0 /\ saved = <<>>
  /\ saved' = <<[frameId |-> frameId, raw |-> raw, rawDepth |-> rawDepth]>>
  /\ UNCHANGED <<odometry, state, slam>>

\* LoadState makes the images of the previous frame again.  It gives up the
\* previous images first, and leaves curr_image_ptrs.
LoadState ==
  /\ saved # <<>>
  /\ LET images == {c \in Camera : saved[1].raw[c] # NoFrame}
         depths == {c \in Camera : saved[1].rawDepth[c] # NoFrame}
     IN /\ prev' = Acquired(images, depths, Free({curr}))
        /\ content' = Filled(prev', saved[1].raw, Free({curr}))
        /\ result' = IF \A c \in images : prev'[c] # NoContext THEN "loaded" ELSE "unloaded"
  /\ frameId' = saved[1].frameId
  /\ raw' = saved[1].raw /\ rawDepth' = saved[1].rawDepth
  /\ contexts' = NoImages
  /\ UNCHANGED <<curr, state, saved, slam>>

-----------------------------------------------------------------------------
(* SLAM                                                                    *)

Handed_over_by_camera(images) ==
  [c \in Camera |-> IF images[c] # NoContext THEN images[c] ELSE processing[c]]

\* processing_images_ is replaced as a whole
Handed(images) == images

\* Slam::Track of a state that is a keyframe.  The tail may refuse it.
SlamTrack ==
  /\ state.images # NoImages /\ queued < MaxQueue
  /\ processing' = Handed(state.images)
  /\ queued' \in {queued, queued + 1}
  /\ UNCHANGED <<odometry, state, saved, working, busy>>

\* ProcessInput takes a keyframe and looks for its images.
TakeKeyframe ==
  /\ queued > 0
  /\ busy' = TRUE /\ queued' = queued - 1 /\ working' = processing
  /\ UNCHANGED <<odometry, state, saved, processing>>

\* The queue is empty: loop closure takes the images again.
TakeImagesAgain ==
  /\ queued = 0 /\ busy /\ working # processing
  /\ working' = processing
  /\ UNCHANGED <<odometry, state, saved, processing, queued, busy>>

\* ProcessInput returns.
Processed ==
  /\ queued = 0 /\ busy
  /\ busy' = FALSE /\ working' = NoImages
  /\ UNCHANGED <<odometry, state, saved, processing, queued>>

Next ==
  \/ TrackRefused \/ Track \/ GetState \/ SaveState \/ LoadState
  \/ SlamTrack \/ TakeKeyframe \/ TakeImagesAgain \/ Processed

Spec == Init /\ [][Next]_vars

-----------------------------------------------------------------------------
(* Properties                                                              *)

ImageSet == [Camera -> Context \cup {NoContext}]
Frame == 0 .. MaxFrames - 1

\* Types.
TypeOK ==
  /\ frameId \in 0 .. MaxFrames
  /\ result \in {"none", "refused", "tracked", "loaded", "failed", "unloaded"}
  /\ {curr, prev, contexts, state.images, processing, working} \subseteq ImageSet
  /\ raw \in [Camera -> Frame \cup {NoFrame}] /\ rawDepth \in [Camera -> Frame \cup {NoFrame}]
  /\ content \in [Context -> Frame \cup {NoFrame}]
  /\ queued \in 0 .. MaxQueue /\ busy \in BOOLEAN

\* The images of a set that has not been given back are those of one frame:
\* SLAM never mixes the cameras of two keyframes (TrackResult, ProcessInput).
FramesNotMixed ==
  \A images \in {state.images, processing, working} :
    \A c, d \in Camera :
      images[c] # NoContext /\ images[d] # NoContext => content[images[c]] = content[images[d]]

\* No call fills a context that the caller or the SLAM thread has, however many
\* sets they hold and in whichever order they give them back
\* (ImageManager::acquire).
ImagesUntouched ==
  \A x \in (Held(state.images) \cup Held(processing) \cup Held(working)) \ {NoContext} :
    content'[x] = content[x]

\* The images of a state are those of its frame, after any failed call.
StateHasItsImages ==
  \A c \in Camera : state.images[c] # NoContext => content[state.images[c]] = state.frame

\* No two cameras share a context.
NotShared ==
  \A images \in {curr, prev, state.images, processing, working} :
    \A c, d \in Camera : c # d /\ images[c] = images[d] => images[c] = NoContext

\* The caller has images of an earlier frame than the previous one.
OldStateKept == ~(Held(state.images) \subseteq Held(prev) \cup {NoContext})

\* Four contexts a camera are enough for Track: it fails only when the caller
\* keeps the state of an earlier frame or a depth image was dropped ("Both
\* pools must hold cache_size contexts per camera", cuvslam2.cpp:786).
PoolSuffices ==
  result' = "failed" /\ Track => DepthMayDrop \/ OldStateKept

\* What SaveState writes is no older than the images the next Track would
\* compare with.
RawIsRecent ==
  \A c \in Camera : prev[c] # NoContext => raw[c] >= content[prev[c]]
=============================================================================
