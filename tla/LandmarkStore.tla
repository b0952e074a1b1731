---------------------------- MODULE LandmarkStore ----------------------------
(***************************************************************************)
(* The landmarks of a SLAM map and the databases they are moved through:   *)
(* LSIGrid (slam/map/spatial_index) with the parts of Map and              *)
(* LocalizerAndMapper that attach, fill, drain and detach a database.      *)
(*                                                                         *)
(* A landmark is staged until it left the view, then active: it is listed  *)
(* in cells of a grid, where loop closure looks for it, and is removed     *)
(* when the cells it is in are full.  Its descriptor is in memory or in    *)
(* the attached database.  Saving writes everything to a new database and  *)
(* reads it back; a localisation starts from the database of a save.       *)
(*                                                                         *)
(* Poses are left out: which cells the keyframes of a landmark fall in is  *)
(* any choice, and so is what is in view.  Cells are numbers because the   *)
(* code keeps them sorted.  The names of keyframes may be used again.      *)
(***************************************************************************)
EXTENDS Naturals, FiniteSets

CONSTANTS
  KeyFrame,       \* names of keyframes
  Cell,           \* hashes of cells, numbers
  MaxInCell,      \* cell_landmarks_limit_, 0 for no limit
  CacheChoices,   \* whether map_cache_path is set
  MaxLandmarkId   \* bound of the model: landmarks ever made by one index

LandmarkId == 0 .. MaxLandmarkId - 1

\* seen: its keyframes; cells: GridLandmark::cells; inMemory: not
\* have_to_get_descriptor_from_db; poor: its probes failed so often that its
\* quality is below that of a dead entry
Landmark == [seen : SUBSET KeyFrame, cells : SUBSET Cell, inMemory : BOOLEAN, poor : BOOLEAN]

VARIABLES
  staged,    \* staged_landmarks_
  active,    \* landmarks_
  cell,      \* cells_; an absent cell is empty
  dead,      \* dead_landmarks_
  next,      \* next_landmark_auto_id_
  cachePath, \* map_cache_path is set
  attached,  \* database_ is the cache
  cached,    \* landmarks with a descriptor in the cache
  saved      \* what a localiser finds in the database of the last save

index == <<staged, active, cell, dead, next>>
vars == <<staged, active, cell, dead, next, cachePath, attached, cached, saved>>

Empty == [l \in {} |-> {}]

Init ==
  /\ staged = Empty /\ active = Empty /\ cell = [c \in Cell |-> {}] /\ dead = {} /\ next = 0
  /\ cachePath \in CacheChoices /\ attached = cachePath /\ cached = {}
  /\ saved = [found |-> {}, described |-> {}]

-----------------------------------------------------------------------------
(* Helpers                                                                 *)

Without(f, S) == [l \in DOMAIN f \ S |-> f[l]]

Joined(f, g) == [l \in DOMAIN f \cup DOMAIN g |-> IF l \in DOMAIN g THEN g[l] ELSE f[l]]

\* GetKeyframeCells, for any poses: at most one cell for each keyframe
CellsOf(seen) == {cs \in SUBSET Cell : cs # {} /\ Cardinality(cs) <= Cardinality(seen)}

\* staged landmarks that can become active; one without relations is dropped
Related(S) == {l \in S : staged[l].seen # {}}

\* AddLandmarkToCell, for landmarks put into the cells place says
Placed(cel, place) == [c \in Cell |-> cel[c] \cup {l \in DOMAIN place : c \in place[l]}]
Changed(place) == UNION {place[l] : l \in DOMAIN place}

\* the order ReduceLandmarksInCell sorts by; an entry without landmark has quality -1
Class(act, l) == IF l \notin DOMAIN act THEN 1 ELSE IF act[l].poor THEN 0 ELSE 2

Kept_below_limit(act, listing) ==
  {K \in SUBSET listing :
     IF MaxInCell = 0 \/ Cardinality(listing) < MaxInCell THEN K = listing
     ELSE Cardinality(K) = MaxInCell - 1}

\* what ReduceLandmarksInCell may keep of a cell
Kept(act, listing) ==
  {K \in SUBSET listing :
     IF MaxInCell = 0 \/ Cardinality(listing) <= MaxInCell THEN K = listing
     ELSE /\ Cardinality(K) = MaxInCell
          /\ \A x \in listing \ K, y \in K : Class(act, x) <= Class(act, y)}

\* the cells among `changed' that l is dropped from when keep[c] stays of each
DroppedFrom(cel, keep, l) == {c \in DOMAIN keep : l \in cel[c] \ keep[c]}

CellsAfter_dropped_cell_forgotten(cells, dropped) == cells

\* GridLandmark::cells after it was dropped from some of them, in ascending
\* order: erasing a cell erases all behind it.
CellsAfter(cells, dropped) == {d \in cells : \A c \in dropped \cap cells : d < c}

\* ReduceLandmarksInCell of the cells keep is about
Reduced(act, cel, keep) ==
  LET dropped(l) == DroppedFrom(cel, keep, l)
      after(l) == CellsAfter(act[l].cells, dropped(l))
  IN [active |-> [l \in DOMAIN act |-> [act[l] EXCEPT !.cells = after(l)]],
      cell |-> [c \in Cell |-> IF c \in DOMAIN keep THEN keep[c] ELSE cel[c]],
      dead |-> {l \in DOMAIN act : dropped(l) # {} /\ after(l) = {}}]

\* ReduceLandmarksInCell of these cells: every result it may have
Reductions(act, cel, cells) ==
  {Reduced(act, cel, keep) :
     keep \in {f \in [cells -> SUBSET LandmarkId] : \A c \in cells : f[c] \in Kept(act, cel[c])}}

\* RemoveDeadLandmarks: a landmark leaves the cells it knows of
Removed(act, cel, S) ==
  [active |-> Without(act, S),
   cell |-> [c \in Cell |-> cel[c] \ {l \in S \cap DOMAIN act : c \in act[l].cells}]]

-----------------------------------------------------------------------------
(* The SLAM thread                                                         *)

Activated_always_freed(S, place) ==
  [l \in DOMAIN place |-> [staged[l] EXCEPT !.cells = place[l], !.inMemory = FALSE]]

\* MoveReadyStagedLandmarksToLSI of S to the cells place says: the descriptors
\* move to the cache when there is one.
Activated(S, place) ==
  [l \in DOMAIN place |-> [staged[l] EXCEPT !.cells = place[l], !.inMemory = ~attached]]

Waiting_with_activated(S) == staged

\* The landmarks that stay in view.
Waiting(S) == Without(staged, S)

\* The landmarks of AddKeyframe: what left the view becomes active, cells are
\* reduced, the dead removed, and a lost track may become a staged landmark.
AddKeyframe ==
  /\ \E S \in SUBSET DOMAIN staged :
     \E place \in [Related(S) -> SUBSET Cell] :
       /\ \A l \in DOMAIN place : place[l] \in CellsOf(staged[l].seen)
       /\ cached' = IF attached THEN cached \cup DOMAIN place ELSE cached
       /\ \E reduced \in Reductions(Joined(active, Activated(S, place)), Placed(cell, place), Changed(place)) :
            LET left == Removed(reduced.active, reduced.cell, dead \cup reduced.dead)
            IN active' = left.active /\ cell' = left.cell
          /\ dead' = {}
          /\ \/ staged' = Waiting(S) /\ next' = next
             \/ /\ next < MaxLandmarkId /\ next' = next + 1
                /\ \E seen \in SUBSET KeyFrame :
                     staged' = Joined(Waiting(S),
                       [l \in {next} |-> [seen |-> seen, cells |-> {}, inMemory |-> TRUE, poor |-> FALSE]])
  /\ UNCHANGED <<cachePath, attached, saved>>

\* GetLandmarkFeatureDescriptor finds one
HasDescriptor(l) == active[l].inMemory \/ (attached /\ l \in cached)

\* what QueryLandmarksByCameraPose may return
Visible == {l \in DOMAIN active : \E c \in Cell : l \in cell[c]}

\* UpdateLandmarkProbeStatistics and the probes of what was matched
ProbeLandmark ==
  /\ \E l \in Visible :
       /\ HasDescriptor(l)
       /\ \E poor \in BOOLEAN : active' = [active EXCEPT ![l].poor = poor]
  /\ UNCHANGED <<staged, cell, dead, next, cachePath, attached, cached, saved>>

\* ApplyLoopClosureResult: the landmarks matched are also seen from the head.
CloseLoop ==
  /\ \E found \in SUBSET {l \in Visible : HasDescriptor(l)}, k \in KeyFrame :
     \E place \in [found -> {{c} : c \in Cell}] :
       /\ found # {}
       /\ active' = [l \in DOMAIN active |->
            IF l \in found THEN [active[l] EXCEPT !.seen = @ \cup {k}, !.cells = @ \cup place[l]]
                           ELSE active[l]]
       /\ cell' = Placed(cell, place)
  /\ UNCHANGED <<staged, dead, next, cachePath, attached, cached, saved>>

\* One item of OnUpdateKeyframePoseFinished: keyframe k moved from cell c to d.
\* The thread works through the list before anything else reads the index.
UpdateKeyframePose ==
  /\ \E k \in KeyFrame, c, d \in Cell :
       /\ c # d
       /\ cell' = [cell EXCEPT ![d] = @ \cup {l \in cell[c] \cap DOMAIN active : k \in active[l].seen}]
  /\ UNCHANGED <<staged, active, dead, next, cachePath, attached, cached, saved>>

\* UpdateLandmarkRelation for the landmarks of a keyframe merged into another
MergeKeyframes ==
  /\ \E old, neo \in KeyFrame :
       /\ old # neo
       /\ LET renamed(m) == [m EXCEPT !.seen = IF old \in @ THEN (@ \ {old}) \cup {neo} ELSE @]
          IN /\ active' = [l \in DOMAIN active |-> renamed(active[l])]
             /\ staged' = [l \in DOMAIN staged |-> renamed(staged[l])]
  /\ UNCHANGED <<cell, dead, next, cachePath, attached, cached, saved>>

-----------------------------------------------------------------------------
(* Databases                                                               *)

Written_staged_forgotten(reducedCell) ==
  LET all == Without(active, dead)
  IN [landmarks |-> all, descriptors |-> {l \in DOMAIN all : all[l].inMemory}, cell |-> reducedCell]

Written_staged_undescribed(reducedCell) ==
  LET all == Joined(Without(active, dead), staged)
  IN [landmarks |-> all, descriptors |-> {l \in DOMAIN active : active[l].inMemory}, cell |-> reducedCell]

\* SyncDatabase: what is not dead is written, staged landmarks before they
\* are put into cells, then the reduced cells.
Written(reducedCell) ==
  LET all == Joined(Without(active, dead), staged)
  IN [landmarks |-> all, descriptors |-> {l \in DOMAIN all : all[l].inMemory}, cell |-> reducedCell]

\* SyncDatabaseReverse: descriptors found in the database are copied to memory.
ReadBack(db) ==
  /\ active' = [l \in DOMAIN db.landmarks |-> [db.landmarks[l] EXCEPT !.inMemory = l \in db.descriptors]]
  /\ cell' = db.cell

\* AttachToNewDatabaseSaveMapAndDetach; when the database cannot be opened nothing changes.
SaveMap ==
  /\ \E place \in [Related(DOMAIN staged) -> SUBSET Cell] :
       /\ \A l \in DOMAIN place : place[l] \in CellsOf(staged[l].seen)
       /\ \E reduced \in Reductions(Joined(active, Activated(DOMAIN staged, place)),
                                   Placed(cell, place), Changed(place)) :
            LET db == Written(reduced.cell)
            IN /\ dead' = dead \cup reduced.dead
               /\ ReadBack(db)
               /\ saved' = [found |-> DOMAIN db.landmarks \cap UNION {db.cell[c] : c \in Cell},
                            described |-> db.descriptors]
  /\ staged' = Empty /\ attached' = FALSE
  /\ UNCHANGED <<next, cachePath, cached>>

\* LocalizeInMap took the saved map over: its index is made anew by
\* SetLandmarksSpatialIndex, without a database.
Localize ==
  /\ saved.found \cap saved.described # {}
  /\ staged' = Empty /\ active' = Empty /\ cell' = [c \in Cell |-> {}] /\ dead' = {} /\ next' = 0
  /\ attached' = FALSE
  /\ UNCHANGED <<cachePath, cached, saved>>

Next ==
  \/ AddKeyframe \/ ProbeLandmark \/ CloseLoop \/ UpdateKeyframePose \/ MergeKeyframes
  \/ SaveMap \/ Localize

Spec == Init /\ [][Next]_vars

-----------------------------------------------------------------------------
(* Properties                                                              *)

Known == DOMAIN staged \cup (DOMAIN active \ dead)
Seen(l) == IF l \in DOMAIN active THEN active[l].seen ELSE staged[l].seen

\* Types; a landmark is staged or active, and identifiers are not used twice.
TypeOK ==
  /\ DOMAIN staged \cup DOMAIN active \cup dead \subseteq 0 .. next - 1 /\ next <= MaxLandmarkId
  /\ \A l \in DOMAIN staged : staged[l] \in Landmark
  /\ \A l \in DOMAIN active : active[l] \in Landmark
  /\ DOMAIN staged \cap DOMAIN active = {}
  /\ cell \in [Cell -> SUBSET LandmarkId]
  /\ cachePath \in BOOLEAN /\ attached \in BOOLEAN /\ cached \subseteq LandmarkId

\* However cells are reduced, copied, saved and read back, an active landmark
\* with a keyframe stays in some cell until it is dead: otherwise loop closure
\* would never find it and nothing would ever remove it (ReduceLandmarksInCell,
\* whose erase drops more cells from the landmark than it leaves).
Findable ==
  \A l \in DOMAIN active \ dead : active[l].seen # {} => \E c \in Cell : l \in cell[c]

\* A landmark's first cell lists it.
FirstCellLists ==
  \A l \in DOMAIN active \ dead : \A c \in active[l].cells :
     (\A d \in active[l].cells : c <= d) => l \in cell[c]

\* Every active landmark has a descriptor that can be read, in memory or in the
\* attached database, unless a save has detached the cache.
DescriptorsReadable ==
  (cachePath /\ ~attached) \/ \A l \in DOMAIN active : HasDescriptor(l)

\* What a localiser finds in a cell of a saved map it can also compare.
SavedIsComplete ==
  cachePath \/ saved.found \subseteq saved.described

\* Saving moves the whole index through a database and back: no landmark and
\* no relation is lost, except those that full cells drop.
SaveKeepsLandmarks ==
  staged' = Empty /\ ~attached' =>
    \A l \in Known \ dead' : (l \in DOMAIN active' /\ active'[l].seen = Seen(l)) \/ ~SaveMap

\* A landmark disappears only when more were listed in a cell than fit, or it has no
\* keyframe.  (The cell need not be full afterwards: those it stays behind may be dead.)
OnlyReducedDisappear ==
  \A l \in Known \ (DOMAIN staged' \cup DOMAIN active') :
    \/ Localize \/ Seen(l) = {}
    \/ /\ MaxInCell # 0
       /\ \E c \in Cell : Cardinality(cell[c] \cup (DOMAIN staged \ DOMAIN staged')) > MaxInCell
=============================================================================
