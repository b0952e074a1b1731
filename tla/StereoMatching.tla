---------------------------- MODULE StereoMatching ----------------------------
(***************************************************************************)
(* A frame of several cameras in MultiSOFCPU and MultiSOFGPU: the primary  *)
(* cameras are tracked from their previous images, and at a keyframe their *)
(* observations are matched in the images of the secondary ones, on the    *)
(* GPU by kernels on a stream of each pair.  The host may be ahead of the  *)
(* streams; it marks a pyramid of an ImageContext as built when it has     *)
(* launched the kernels.                                                   *)
(***************************************************************************)
EXTENDS Integers, FiniteSets, SequencesExt

CONSTANTS MaxFrame, MaxOwn   \* bounds of the model: frames, tracks of a primary camera

VARIABLES
  setting,    \* [rig, device, horizontal: the tracker of pairs is a horizontal one]
  frame,      \* number of the frame
  stage,      \* how far trackNextFrame is
  present,    \* cameras with an image in the frame
  flags,      \* what the contexts of the frame are marked to have: pyramid -> cameras
  device,     \* what the streams of the GPU have built of it
  obs,        \* observations: camera -> [track, of: the frame it was measured in]
  left,       \* pairs still to be launched
  stream,     \* what is launched on the stream of a pair and has not run
  launched,   \* pairs with was_launched
  data,       \* tracks_data of a pair on the host: index -> found, with the frame
  early,      \* pairs whose kernel has read a pyramid before it was complete
  keyTracks   \* last_kf_tracks_

vars == <<setting, frame, stage, present, flags, device, obs, left, stream, launched, data, early, keyTracks>>

\* Rigs as FrustumIntersectionGraph arranges them: a stereo pair; two cameras that are both
\* primary (precision); a secondary camera of two primary ones (moderate).
Rigs == {[primary |-> <<0>>, secondary |-> (0 :> {1})],
         [primary |-> <<0, 1>>, secondary |-> (0 :> {1} @@ 1 :> {0})],
         [primary |-> <<0, 2>>, secondary |-> (0 :> {1} @@ 2 :> {1})]}

Camera == 0 .. 2
Primary == ToSet(setting.rig.primary)
Secondary(p) == setting.rig.secondary[p]
Pairs == UNION {{<<p, s>> : s \in Secondary(p)} : p \in Primary}
Pyramids == {"image", "grad_x", "grad_y"}
Nothing == [p \in Pyramids |-> {}]

-----------------------------------------------------------------------------
(* ImageContext                                                            *)

\* What is still to be built of a context: build_gpu_image_pyramid and
\* build_gpu_gradient_pyramid, or those of the CPU; each returns at once when it is marked,
\* and a gradient pyramid is marked in whichever direction it was asked for first.
Missing(c, horizontal) ==
  LET gradient == IF horizontal THEN {"grad_x"} ELSE {"grad_x", "grad_y"}
  IN (IF c \in flags["image"] THEN {} ELSE {"image"})
     \cup (IF c \in flags["grad_x"] THEN {} ELSE gradient)

With(f, pyramids, c) == [p \in Pyramids |-> IF p \in pyramids THEN f[p] \cup {c} ELSE f[p]]

\* Only the camera itself is tracked horizontally.
SecondaryHorizontal_first(rig, dev, horizontal) == FALSE

\* The direction that LaunchTrackingPrimaryToSecondary asks for
SecondaryHorizontal(rig, dev, horizontal) == dev = "gpu" \/ horizontal

\* rebuild_prev_context of the CPU and of the GPU
RebuiltCPU(c) == IF c \in Primary \/ ~setting.horizontal THEN {"image", "grad_x", "grad_y"} ELSE {"image", "grad_x"}
RebuiltGPU(c) == IF c \in Primary THEN {"image", "grad_x", "grad_y"} ELSE {"image", "grad_x"}

-----------------------------------------------------------------------------
Init ==
  /\ setting \in [rig : Rigs, device : {"cpu", "gpu"}, horizontal : BOOLEAN]
  /\ frame = 0 /\ stage = "idle" /\ present = {}
  /\ flags = Nothing /\ device = Nothing
  /\ obs = [c \in Camera |-> <<>>]
  /\ left = {} /\ launched = {} /\ early = {}
  /\ stream = [p \in Pairs |-> <<>>]
  /\ data = [p \in Pairs |-> <<>>]
  /\ keyTracks = [c \in Camera |-> {}]

Own(c, n) == [i \in 1 .. n |-> [track |-> <<c, i>>, of |-> frame + 1]]

\* The first half of trackNextFrame.  The pyramids of a primary camera are complete when its
\* MonoSOF returns; without an image of any primary camera nothing is tracked.
TrackPrimary(images) ==
  /\ stage = "idle" /\ frame < MaxFrame
  /\ frame' = frame + 1
  /\ present' = images
  /\ LET tracked == images \cap Primary
         all == [p \in Pyramids |-> tracked]
     IN /\ flags' = all /\ device' = all
        /\ \E n \in [tracked -> 0 .. MaxOwn] :
             obs' = [c \in Camera |-> IF c \in tracked THEN Own(c, n[c]) ELSE <<>>]
        /\ stage' = IF tracked = {} THEN "idle" ELSE "tracked"
  /\ early' = {}
  /\ UNCHANGED <<setting, left, stream, launched, data, keyTracks>>

Tracks(c) == {obs[c][i].track : i \in DOMAIN obs[c]}

\* was_launched is left from the last keyframe.
StartKeyframe_kept == launched

\* StartKeyframe
StartKeyframe == IF setting.device = "gpu" THEN {} ELSE launched

\* is_keyframe, where kf_selector_ selects: the tracks of the cameras of the frame are kept,
\* and the pairs of which both cameras have an image are to be launched.
Keyframe ==
  /\ stage = "tracked"
  /\ stage' = "matching"
  /\ keyTracks' = [c \in Camera |-> IF c \in present \cap Primary THEN Tracks(c) ELSE keyTracks[c]]
  /\ left' = {pair \in Pairs : pair[1] \in present /\ pair[2] \in present}
  /\ launched' = StartKeyframe
  /\ UNCHANGED <<setting, frame, present, flags, device, obs, stream, data, early>>

NoKeyframe ==
  /\ stage = "tracked"
  /\ stage' = "idle"
  /\ UNCHANGED <<setting, frame, present, flags, device, obs, left, stream, launched, data, early, keyTracks>>

\* The primary camera whose pairs are launched next
Now(pair) ==
  LET at(p) == CHOOSE i \in DOMAIN setting.rig.primary : setting.rig.primary[i] = p
  IN \A other \in left : at(pair[1]) <= at(other[1])

\* MultiSOFCPU::LaunchTrackingPrimaryToSecondary: all observations that the primary camera has
\* by now are matched, and those that are found are added to the secondary one.
LaunchCPU(pair) ==
  /\ stage = "matching" /\ setting.device = "cpu" /\ pair \in left /\ Now(pair)
  /\ left' = left \ {pair}
  /\ LET missing == Missing(pair[2], SecondaryHorizontal(setting.rig, "cpu", setting.horizontal))
     IN flags' = With(flags, missing, pair[2]) /\ device' = With(device, missing, pair[2])
  /\ \E found \in SUBSET DOMAIN obs[pair[1]] :
       obs' = [obs EXCEPT ![pair[2]] =
                 @ \o LET hit == SetToSortSeq(found, <)
                      IN [i \in DOMAIN hit |-> [track |-> obs[pair[1]][hit[i]].track, of |-> frame]]]
  /\ UNCHANGED <<setting, frame, stage, present, stream, launched, data, early, keyTracks>>

\* MultiSOFGPU::LaunchTrackingPrimaryToSecondary: what is not marked is built on the stream of
\* the pair, on which the kernel follows.
LaunchGPU(pair) ==
  /\ stage = "matching" /\ setting.device = "gpu" /\ pair \in left /\ Now(pair)
  /\ left' = left \ {pair}
  /\ LET missing == Missing(pair[2], SecondaryHorizontal(setting.rig, "gpu", setting.horizontal))
     IN /\ flags' = With(flags, missing, pair[2])
        /\ stream' = [stream EXCEPT ![pair] = Append(IF missing = {} THEN @ ELSE Append(@, missing), Len(obs[pair[1]]))]
  /\ launched' = launched \cup {pair}
  /\ UNCHANGED <<setting, frame, stage, present, device, obs, data, early, keyTracks>>

\* The kernels that build pyramids on the stream of a pair run.
BuildOnStream(pair) ==
  /\ stream[pair] # <<>> /\ Len(stream[pair]) = 2
  /\ device' = With(device, stream[pair][1], pair[2])
  /\ stream' = [stream EXCEPT ![pair] = Tail(@)]
  /\ UNCHANGED <<setting, frame, stage, present, flags, obs, left, launched, data, early, keyTracks>>

\* What a tracker reads: both images, and the gradients of the primary one.
Complete(pair) ==
  /\ pair[2] \in device["image"]
  /\ pair[1] \in device["image"] /\ pair[1] \in device["grad_x"]
  /\ setting.horizontal \/ pair[1] \in device["grad_y"]

\* The kernel of a pair runs and its results are copied to the host.
MatchOnStream(pair) ==
  /\ stream[pair] # <<>> /\ Len(stream[pair]) = 1
  /\ stream' = [stream EXCEPT ![pair] = <<>>]
  /\ early' = IF Complete(pair) THEN early ELSE early \cup {pair}
  /\ \E found \in [1 .. stream[pair][1] -> BOOLEAN] :
       data' = [data EXCEPT ![pair] = [i \in DOMAIN found |-> [found |-> found[i], of |-> frame]]]
  /\ UNCHANGED <<setting, frame, stage, present, flags, device, obs, left, launched, keyTracks>>

\* The results are read while the streams run.
Finished_unsynchronised == TRUE

\* cudaStreamSynchronize of the pairs that were launched
Finished == \A pair \in launched : stream[pair] = <<>>

\* What a pair contributes: the observations of the primary camera that are found, by index
Found(pair) ==
  LET own == obs[pair[1]]
      hit == SelectSeq([i \in DOMAIN own |-> i],
                       LAMBDA i : i \in DOMAIN data[pair] /\ data[pair][i].found)
  IN [k \in DOMAIN hit |-> [track |-> own[hit[k]].track, of |-> data[pair][hit[k]].of]]

\* GetTrackingResults: the results are collected apart and appended at the end.
Results ==
  /\ stage = "matching" /\ left = {} /\ Finished
  /\ stage' = "idle"
  /\ LET of(c) == SelectSeq(setting.rig.primary, LAMBDA p : <<p, c>> \in Pairs \cap launched)
     IN obs' = [c \in Camera |->
                  IF setting.device = "cpu" THEN obs[c]
                  ELSE obs[c] \o FlattenSeq([i \in DOMAIN of(c) |-> Found(<<of(c)[i], c>>)])]
  /\ UNCHANGED <<setting, frame, present, flags, device, left, stream, launched, data, early, keyTracks>>

\* reset: the tracks of the last keyframe are forgotten.
Reset ==
  /\ stage = "idle" /\ frame < MaxFrame
  /\ keyTracks' = [c \in Camera |-> {}]
  /\ UNCHANGED <<setting, frame, stage, present, flags, device, obs, left, stream, launched, data, early>>

Next ==
  \/ \E images \in SUBSET Camera : TrackPrimary(images)
  \/ Keyframe \/ NoKeyframe \/ Results \/ Reset
  \/ \E pair \in Pairs : LaunchCPU(pair) \/ LaunchGPU(pair) \/ BuildOnStream(pair) \/ MatchOnStream(pair)

Spec == Init /\ [][Next]_vars

-----------------------------------------------------------------------------
(* Properties                                                              *)

BothRoles == Primary \cap UNION {Secondary(p) : p \in Primary}
SharedSecondary == {s \in Camera \ Primary : Cardinality({p \in Primary : s \in Secondary(p)}) > 1}

\* No kernel reads a pyramid before it is complete, although each pair has a stream of its
\* own.  The one exception: a camera that is secondary to two primary ones and not primary
\* itself is marked by the first pair, on whose stream alone it is built.
PyramidsAreComplete == \A pair \in early : pair[2] \in SharedSecondary

\* What is handed over was measured in this frame, for a track of a primary camera that has
\* an image; no observation is left of an earlier keyframe.
ObservationsOfThisFrame ==
  stage = "idle" => \A c \in Camera : \A i \in DOMAIN obs[c] :
    obs[c][i].of = frame /\ c \in present /\ obs[c][i].track[1] \in present

\* A camera observes a track once.  On the CPU that is so where no camera is primary and
\* secondary: there the observations another camera has contributed are matched once more.
ObservedOnce ==
  setting.device = "gpu" \/ BothRoles = {} =>
    \A c \in Camera : \A i, j \in DOMAIN obs[c] : obs[c][i].track = obs[c][j].track => i = j

\* What rebuild_prev_context builds after a state is loaded is what the frame had built of
\* the context, where it had built anything.
RebuiltAsItWas ==
  stage = "idle" => \A c \in present : c \in flags["image"] =>
    {p \in Pyramids : c \in flags[p]} = IF setting.device = "cpu" THEN RebuiltCPU(c) ELSE RebuiltGPU(c)

\* The tracks of the last keyframe are own tracks of their camera.
KeyTracksAreOwn == \A c \in Camera : \A t \in keyTracks[c] : c \in Primary /\ t[1] = c
=============================================================================
