---------------------------- MODULE FeatureTracks ----------------------------
(***************************************************************************)
(* The tracks of one camera from frame to frame: MonoSOFCPU and MonoSOFGPU,*)
(* with SelectorStereo for a camera of a rig and SelectorMono for a single *)
(* camera.  A position is the cell of three by three pixels it is in.      *)
(***************************************************************************)
EXTENDS Integers, FiniteSets, SequencesExt

CONSTANTS
  Desired,           \* num_desired_tracks
  Failed,            \* FAILED_ACTIVE_TRACK_COUNT
  MinPredicted,      \* fewest predicted tracks that filterByPredictionError compares
  SurvivorPercent,   \* survivor_from_last
  Cell,              \* cells of tracksMap_ between the borders and outside of the mask
  MaxFrames,         \* bound of the model
  MaxExtra           \* bound of the features added beyond the desired ones

VARIABLES
  kind,      \* implementation and selector
  tracks,    \* tracks_, [id, age, cell]
  keyframe,  \* ids of last_keyframe_tracks_, the dead ones included
  selector,  \* [started: first_feature_initialization_selected_,
             \*  last, penultimate: the feature initialization tracks, [id, dead]]
  nextId,    \* g_next_raw_track_id
  hasPrev,   \* there is a previous image of the camera
  launched,  \* was_launched
  state,     \* last_frame_state_: "key", or "none" and, where the setting decided, "refused";
             \* "launched" between track and finish, or "thrown"
  frames     \* number of frames

vars == <<kind, tracks, keyframe, selector, nextId, hasPrev, launched, state, frames>>

Border == 0    \* a position too near the border of the image
Masked == -1   \* a position within the mask
Positions == Cell \cup {Border, Masked}

Ids(ts) == [i \in DOMAIN ts |-> ts[i].id]

-----------------------------------------------------------------------------
(* What kills tracks                                                       *)

\* trackFeatures, or launch and collect: no point is found, with either threshold.
Lost(alive) == SUBSET alive

\* filterByPredictionError: at most those beyond the median are too far off.
Mispredicted(alive) ==
  LET n == Cardinality(alive)
  IN IF n < MinPredicted THEN {{}}
     ELSE {s \in SUBSET alive : Cardinality(s) < n - n \div 2}

\* ransacFilter, where it finds a fundamental matrix
Outliers(alive) == SUBSET alive

Killed(all) ==
  UNION {UNION {{lost \cup wrong \cup outliers : outliers \in Outliers(all \ (lost \cup wrong))}
                : wrong \in Mispredicted(all \ lost)} : lost \in Lost(all)}

\* KillTracksOnBorder and KillTracksWithinMask
Inside(at) == {i \in DOMAIN at : at[i] \in Cell}

\* Tracks in one cell all stay.
Collapsed_none(ts, at, alive) == alive

\* collapseTracks: of those in a cell the first of the longest ones stays.
Collapsed(ts, at, alive) ==
  {i \in alive : \A j \in alive : at[j] = at[i] => ts[j].age < ts[i].age \/ (ts[j].age = ts[i].age /\ j >= i)}

-----------------------------------------------------------------------------
(* Selectors                                                               *)

\* The second index stops before the track it looks for.
Reach_less(ts, at, id) ==
  CHOOSE k \in at .. Len(ts) :
    /\ \A j \in at + 1 .. k : ts[j].id < id
    /\ k < Len(ts) => ts[k + 1].id >= id

\* How far the second index of CalcNSurvivors gets for a track of the first vector
Reach(ts, at, id) ==
  CHOOSE k \in at .. Len(ts) :
    /\ \A j \in at + 1 .. k : ts[j].id <= id
    /\ k < Len(ts) => ts[k + 1].id > id

\* CalcNSurvivors merges two vectors that it takes to be sorted.
Survivors(last, ts, alive) ==
  LET count(acc, t) ==
        IF t.dead \/ ts = <<>> THEN acc
        ELSE LET to == Reach(ts, acc.at, t.id)
             IN [at |-> to,
                 n |-> acc.n + Cardinality({j \in acc.at .. to : j \in alive /\ ts[j].id = t.id})]
  IN FoldLeft(count, [at |-> 1, n |-> 0], last).n

AliveIn(last) == Cardinality({i \in DOMAIN last : ~last[i].dead})

\* Survivors are lost only when there is none.
IsFew_none(last, n) == n = 0

\* CalcSurvivorTracksPercentage below survivor_from_last
IsFew(last, n) == n = 0 \/ 100 * n < SurvivorPercent * AliveIn(last)

\* reset_selector: only SelectorStereo forgets its tracks.
ResetSelector(s) ==
  IF kind.selector = "stereo" THEN [s EXCEPT !.started = FALSE, !.last = <<>>]
  ELSE [s EXCEPT !.started = FALSE]

\* The selector is left alone when few tracks are alive.
Checked_never(s, n) == s

Checked(s, n) == IF n <= Failed THEN ResetSelector(s) ELSE s

\* select, given whether the tracks moved enough
Selects(s, ts, alive, moved) ==
  \/ ~s.started
  \/ IsFew(s.last, Survivors(s.last, ts, alive))
  \/ kind.selector = "mono" /\ moved

\* override_frame_selection, a setting of each frame; a rig applies it elsewhere (KFSelector).
Overrides == IF kind.selector = "mono" THEN {"unset", "key", "none"} ELSE {"unset"}

\* SelectKeyframe.  A keyframe that is forced asks the selector all the same, which then has
\* started, as after any keyframe; one that is refused does not ask it.
SelectKeyframe(s, ts, alive, moved, override) ==
  \/ override = "key"
  \/ override = "unset" /\ Selects(s, ts, alive, moved)

-----------------------------------------------------------------------------
(* Features                                                                *)

\* As many features are added as are desired, whatever is alive.
Added_desired(n, taken) == {f \in SeqOf(Cell \ taken, Desired) : kind.impl = "cpu" => IsInjective(f)}

\* Cells of new features: away from the tracks that are alive, and on the CPU from each
\* other.  selectFeatures on the CPU returns when it has exactly as many as it wants: when
\* it wants none it goes on.
Added(n, taken) ==
  LET most == IF kind.impl = "cpu" /\ n = 0 THEN MaxExtra ELSE n
      free == Cell \ taken
  IN {f \in SeqOf(free, most) : kind.impl = "cpu" => IsInjective(f)}

\* The tracks are kept before the features are added.
KeyframeOf_before(all) == Ids(tracks)

\* last_keyframe_tracks_ = tracks_
KeyframeOf(all) == all

New(f) == [i \in DOMAIN f |-> [id |-> nextId + i - 1, age |-> 1, cell |-> f[i]]]

-----------------------------------------------------------------------------
Init ==
  /\ kind \in [impl : {"cpu", "gpu"}, selector : {"stereo", "mono"}]
  /\ tracks = <<>> /\ keyframe = <<>>
  /\ selector = [started |-> FALSE, last |-> <<>>, penultimate |-> <<>>]
  /\ nextId = 1 /\ hasPrev = FALSE /\ launched = FALSE /\ state = "none" /\ frames = 0

Left(at, alive) == [at |-> [i \in alive |-> at[i]], alive |-> alive]

\* What a frame leaves of the tracks: who is alive, and where
Followed(prev) ==
  IF ~prev THEN {Left([i \in DOMAIN tracks |-> tracks[i].cell], DOMAIN tracks)}
  ELSE UNION {{Left(at, Collapsed(tracks, at, Inside(at))) : at \in [DOMAIN tracks \ killed -> Positions]}
              : killed \in Killed(DOMAIN tracks)}

\* A keyframe: features are added and the tracks kept, or reserve is asked for a negative number.
Keyframe(left, r, chosen) ==
  IF Len(left) > Desired
  THEN state' = "thrown" /\ UNCHANGED <<tracks, selector, nextId, keyframe>>
  ELSE \E f \in Added(Desired - Len(left), {left[i].cell : i \in DOMAIN left}) :
         LET all == Ids(tracks) \o Ids(New(f))
             marked == [i \in DOMAIN all |->
                          [id |-> all[i], dead |-> i \in DOMAIN tracks /\ i \notin r.alive]]
         IN /\ tracks' = left \o New(f)
            /\ nextId' = nextId + Len(f)
            /\ state' = "key"
            /\ keyframe' = KeyframeOf(all)
            /\ selector' = IF Len(left) + Len(f) < Failed
                           THEN ResetSelector([chosen EXCEPT !.started = TRUE])
                           ELSE [started |-> TRUE, last |-> marked,
                                 penultimate |-> IF kind.selector = "mono" THEN chosen.last ELSE <<>>]

\* What is done with the tracks of a frame.  A failed track has no position any more.
Frame(r, moved, override, prev) ==
  LET aged == [i \in DOMAIN tracks |->
                 IF i \in r.alive
                 THEN [tracks[i] EXCEPT !.age = IF prev THEN @ + 1 ELSE @, !.cell = r.at[i]]
                 ELSE tracks[i]]
      here == SelectSeq([i \in DOMAIN aged |-> [t |-> aged[i], alive |-> i \in r.alive]], LAMBDA x : x.alive)
      left == [i \in DOMAIN here |-> here[i].t]
      checked == Checked(selector, Cardinality(r.alive))
  IN IF SelectKeyframe(checked, tracks, r.alive, moved, override) THEN Keyframe(left, r, checked)
     ELSE /\ tracks' = left /\ selector' = checked
          /\ state' = IF override = "none" THEN "refused" ELSE "none"
          /\ UNCHANGED <<nextId, keyframe>>

\* MonoSOFCPU::track
Track(moved, override) ==
  /\ kind.impl = "cpu" /\ frames < MaxFrames /\ state # "thrown"
  /\ frames' = frames + 1
  /\ hasPrev' = TRUE
  /\ \E r \in Followed(hasPrev) : Frame(r, moved, override, hasPrev)
  /\ UNCHANGED <<kind, launched>>

\* MonoSOFGPU::track
Launch ==
  /\ kind.impl = "gpu" /\ frames < MaxFrames /\ state \in {"key", "none", "refused"}
  /\ frames' = frames + 1
  /\ launched' = hasPrev
  /\ state' = "launched"
  /\ UNCHANGED <<kind, tracks, keyframe, selector, nextId, hasPrev>>

\* MonoSOFGPU::finish
Finish(moved, override) ==
  /\ state = "launched"
  /\ hasPrev' = TRUE
  /\ launched' = FALSE
  /\ \E r \in Followed(launched) : Frame(r, moved, override, launched)
  /\ UNCHANGED <<kind, frames>>

\* reset, when odometry loses track
Reset ==
  /\ tracks # <<>> /\ state # "launched"
  /\ tracks' = <<>> /\ keyframe' = <<>>
  /\ selector' = ResetSelector(selector)
  /\ UNCHANGED <<kind, nextId, hasPrev, launched, state, frames>>

Next ==
  \/ \E moved \in BOOLEAN, override \in Overrides : Track(moved, override) \/ Finish(moved, override)
  \/ Launch
  \/ Reset

Spec == Init /\ [][Next]_vars

-----------------------------------------------------------------------------
(* Properties                                                              *)

\* ransacFilter finds every track in last_keyframe_tracks_ by going through it once, and the
\* ids of the camera go up (assert(lastIt != lastEnd), IsSorted).
KeyframeHasTracks ==
  /\ \A i, j \in DOMAIN tracks : i < j => tracks[i].id < tracks[j].id
  /\ \A i, j \in DOMAIN keyframe : i < j => keyframe[i] < keyframe[j]
  /\ ToSet(Ids(tracks)) \subseteq ToSet(keyframe)
  /\ \A t \in ToSet(tracks) : t.id < nextId

\* The survivors that the merge counts are the tracks both vectors have alive.
SurvivorsAreCounted ==
  Survivors(selector.last, tracks, DOMAIN tracks)
    = Cardinality({id \in ToSet(Ids(tracks)) : \E t \in ToSet(selector.last) : t.id = id /\ ~t.dead})

\* A cell has one track that is older than the frame at most, and it is older than the others
\* there (collapseTracks, selectFeatures).
OneOldTrackPerCell ==
  \A i, j \in DOMAIN tracks :
    i # j /\ tracks[i].cell = tracks[j].cell => kind.impl = "gpu" /\ tracks[i].age = 1 /\ tracks[j].age = 1

\* Tracks never exceed the desired number in a rig, where features are added only after some
\* tracks were lost, nor on the GPU, whose selection counts with <.
NeverTooMany == kind.selector = "stereo" \/ kind.impl = "gpu" => Len(tracks) <= Desired /\ state # "thrown"

\* Not kept by the CPU for a single camera: "we never need to return more points than desired"
\* (selection.cpp:286-287), which the next frame takes for granted when it subtracts
\* (sof_mono_cpu.cpp:130).
DesiredIsEnough == Len(tracks) <= Desired

\* A frame for which the selector chose to add no features keeps more than
\* FAILED_ACTIVE_TRACK_COUNT tracks, and the share of the last tracks that was asked for.
FewTracksAreRenewed ==
  state = "none" /\ frames > 0 /\ selector.started =>
    /\ Len(tracks) > Failed
    /\ 100 * Len(tracks) >= SurvivorPercent * AliveIn(selector.last)
=============================================================================
