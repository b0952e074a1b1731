------------------------------ MODULE PoseGraph ------------------------------
(***************************************************************************)
(* The pose graph of SLAM (slam/map/pose_graph) with what has to stay in   *)
(* step with it: the keyframes in which each landmark was seen, kept once  *)
(* in the graph and once in the landmark index, and the table that leads   *)
(* from a merged keyframe to the one that replaced it (slam/slam).         *)
(*                                                                         *)
(* The SLAM thread drains its queue of keyframes, then merges keyframes    *)
(* until the graph is within its limit, then may close a loop.  Poses,     *)
(* covariances and descriptors are left out: where one of them selects an  *)
(* edge or a keyframe, any candidate may be taken.  An edge is identified  *)
(* by its ordered pair of keyframes, so that edges_ and edges_from_to_ are *)
(* one set; edges_from_ and edges_to_ are sets of pairs.                   *)
(***************************************************************************)
EXTENDS Integers, FiniteSets

CONSTANTS
  Landmarks,      \* names of landmarks
  MaxKeyframes,   \* max_keyframes_count_, 0 for no limit
  MaxLatest,      \* max_latest_keyframes_, 20 in the code
  LoadedSizes,    \* sizes of the saved maps a graph may start from, 0 for none
  MaxKeyframeId   \* bound of the model: keyframes ever made

ASSUME PoseGraphAssumption ==
  /\ MaxKeyframes \in Nat /\ MaxLatest \in Nat \ {0} /\ MaxKeyframeId \in Nat
  /\ LoadedSizes \subseteq Nat /\ IsFiniteSet(Landmarks)

VARIABLES
  keyframes,   \* keys of keyframes_
  next,        \* next_keyframe_auto_id_
  head,        \* head_keyframe_id_, or NoKeyframe
  latest,      \* latest_keyframes_
  graph,       \* edges, and the indexes from and to
  observed,    \* <<k, l>>: l is in PoseGraphKeyFrame::landmarks of k
  landmarks,   \* landmarks of the index, staged or not
  seenBy,      \* <<l, k>>: k is in GridLandmark::keyframes of l
  sources,     \* keys of keyframe_sources_
  mergedInto,  \* keyframe_removed_
  phase,       \* of the SLAM thread
  hasInput     \* has_input of ProcessInput

vars == <<keyframes, next, head, latest, graph, observed, landmarks, seenBy, sources, mergedInto,
          phase, hasInput>>

NoKeyframe == -1
KeyFrameId == 0 .. MaxKeyframeId - 1

\* A saved map is a chain of keyframes; localisation selects any of them as
\* head.  The index is made anew after that, so that the keyframes name
\* landmarks it does not have (SetLandmarksSpatialIndex).
Init ==
  \E n \in LoadedSizes :
     /\ n <= MaxKeyframeId
     /\ keyframes = 0 .. n - 1 /\ next = n
     /\ head \in IF n = 0 THEN {NoKeyframe} ELSE 0 .. n - 1
     /\ latest = {}
     /\ LET chain == {<<k, k + 1>> : k \in 0 .. n - 2}
        IN graph = [edges |-> chain, from |-> {<<e[2], e[1]>> : e \in chain}, to |-> chain]
     /\ observed \in SUBSET (keyframes \X Landmarks)
     /\ landmarks = {} /\ seenBy = {}
     /\ sources = {} /\ mergedInto = [k \in {} |-> NoKeyframe]
     /\ phase = IF n = 0 THEN "draining" ELSE "loading"
     /\ hasInput = FALSE

-----------------------------------------------------------------------------
(* The graph                                                               *)

WithEdges_one_index(g, nodes, new) ==
  LET added == {e \in new \ g.edges : e[1] # e[2] /\ e[1] \in nodes /\ e[2] \in nodes}
  IN [g EXCEPT !.edges = @ \cup added, !.to = @ \cup added]

\* AddEdge, of several edges
WithEdges(g, nodes, new) ==
  LET added == {e \in new \ g.edges : e[1] # e[2] /\ e[1] \in nodes /\ e[2] \in nodes}
  IN [edges |-> g.edges \cup added,
      from |-> g.from \cup {<<e[2], e[1]>> : e \in added},
      to |-> g.to \cup added]

\* QueryKeyframeEdges
EdgesOf(g, k) ==
  {e \in g.edges : \/ e[2] = k /\ <<k, e[1]>> \in g.from
                   \/ e[1] = k /\ e \in g.to}

\* the edges that RemoveKeyframe removes
WithoutKeyframe(g, k) ==
  LET gone == EdgesOf(g, k)
  IN [edges |-> g.edges \ gone, from |-> g.from \ {<<e[2], e[1]>> : e \in gone}, to |-> g.to \ gone]

Reducible_more_than_two ==
  {e \in graph.edges : /\ Cardinality(EdgesOf(graph, e[2])) > 2
                       /\ head \notin {e[1], e[2]}
                       /\ e[2] \notin latest}

\* the edges GetSmallestVarianceEdgeId chooses from
Reducible ==
  {e \in graph.edges : /\ Cardinality(EdgesOf(graph, e[2])) >= 2
                       /\ head \notin {e[1], e[2]}
                       /\ e[2] \notin latest}

Reattached_incoming_only(g, e) ==
  {<<x[1], e[1]>> : x \in {y \in EdgesOf(g, e[2]) : y[1] \notin {e[1], e[2]}}}

\* required_edges of ReduceSingleEdge: what joins e[2] to others joins them to e[1]
Reattached(g, e) ==
  {<<x[1], e[1]>> : x \in {y \in EdgesOf(g, e[2]) : y[1] \notin {e[1], e[2]}}} \cup
  {<<e[1], x[2]>> : x \in {y \in EdgesOf(g, e[2]) : y[2] \notin {e[1], e[2]}}}

\* the graph after ReduceSingleEdge
Contracted(g, nodes, e) == WithoutKeyframe(WithEdges(g, nodes, Reattached(g, e)), e[2])

Latest_unbounded(old, k) == old \cup {k}

\* latest_keyframes_ after k was added; identifiers ascend
Latest(old, k) ==
  IF Cardinality(old) < MaxLatest THEN old \cup {k}
  ELSE (old \cup {k}) \ {CHOOSE i \in old : \A j \in old : i <= j}

-----------------------------------------------------------------------------
(* The SLAM thread                                                         *)

\* RemoveLandmarks, for dead landmarks: the relations the index has are
\* removed from the keyframes.
ObservedWithout(dead) == observed \ {<<r[2], r[1]>> : r \in {x \in seenBy : x[1] \in dead}}

\* AddKeyframe: landmarks may die, and a lost track may become a landmark,
\* seen from a .. b as far as these still exist.
AddKeyframe ==
  /\ phase = "draining" /\ next < MaxKeyframeId
  /\ keyframes' = keyframes \cup {next}
  /\ next' = next + 1 /\ head' = next /\ latest' = Latest(latest, next)
  /\ graph' = IF head = NoKeyframe THEN graph ELSE WithEdges(graph, keyframes', {<<head, next>>})
  /\ sources' = sources \cup {next} /\ hasInput' = TRUE
  /\ \E dead \in SUBSET landmarks :
       \/ /\ landmarks' = landmarks \ dead
          /\ observed' = ObservedWithout(dead)
          /\ seenBy' = {r \in seenBy : r[1] \notin dead}
       \/ \E l \in Landmarks \ landmarks, a, b \in sources :
            LET seen == (a .. b) \cap keyframes'
            IN /\ landmarks' = (landmarks \ dead) \cup {l}
               /\ observed' = ObservedWithout(dead) \cup {<<k, l>> : k \in seen}
               /\ seenBy' = {r \in seenBy : r[1] \notin dead} \cup {<<l, k>> : k \in seen}
  /\ UNCHANGED <<mergedInto, phase>>

\* the queue is empty
Drained ==
  /\ phase = "draining" /\ phase' = "reducing"
  /\ UNCHANGED <<keyframes, next, head, latest, graph, observed, landmarks, seenBy, sources,
                 mergedInto, hasInput>>

SaveMap_forgets_landmarks_only ==
  /\ phase = "draining"
  /\ \E dead \in SUBSET landmarks : landmarks' = landmarks \ dead /\ seenBy' = seenBy
  /\ UNCHANGED <<keyframes, next, head, latest, graph, observed, sources, mergedInto, phase, hasInput>>

\* A command of the queue saves the map: SyncDatabase leaves dead landmarks
\* behind and the index forgets them, but the keyframes do not.
SaveMap ==
  /\ phase = "draining"
  /\ \E dead \in SUBSET landmarks :
       landmarks' = landmarks \ dead /\ seenBy' = {r \in seenBy : r[1] \notin dead}
  /\ UNCHANGED <<keyframes, next, head, latest, graph, observed, sources, mergedInto, phase, hasInput>>

WithinLimit_below == MaxKeyframes = 0 \/ Cardinality(keyframes) < MaxKeyframes

WithinLimit == MaxKeyframes = 0 \/ Cardinality(keyframes) <= MaxKeyframes

SeenByMerged_forgotten(e) == seenBy

\* UpdateLandmarkRelation, for the landmarks of the merged keyframe
SeenByMerged(e) ==
  {IF r[2] = e[2] /\ <<e[2], r[1]>> \in observed THEN <<r[1], e[1]>> ELSE r : r \in seenBy}

RemovedNode_unregistered(e) == mergedInto

\* the callback of SetKeepTrackPoses
RemovedNode(e) == [k \in DOMAIN mergedInto \cup {e[2]} |-> IF k = e[2] THEN e[1] ELSE mergedInto[k]]

\* One round of ReduceKeyframes: e[2] is merged into e[1].
ReduceEdge ==
  /\ phase \in {"loading", "reducing"} /\ ~WithinLimit
  /\ \E e \in Reducible :
       /\ graph' = Contracted(graph, keyframes, e)
       /\ keyframes' = keyframes \ {e[2]}
       /\ observed' = {r \in observed : r[1] # e[2]} \cup
                      {<<e[1], r[2]>> : r \in {x \in observed : x[1] = e[2]}}
       /\ seenBy' = SeenByMerged(e)
       /\ mergedInto' = RemovedNode(e)
  /\ UNCHANGED <<next, head, latest, landmarks, sources, phase, hasInput>>

\* The loop of ReduceKeyframes ends.
Reduced ==
  /\ phase \in {"loading", "reducing"} /\ WithinLimit
  /\ phase' = IF phase = "reducing" /\ hasInput THEN "closing" ELSE "draining"
  /\ UNCHANGED <<keyframes, next, head, latest, graph, observed, landmarks, seenBy, sources,
                 mergedInto, hasInput>>

\* No loop is found, or the edge it gives has less weight than the one there.
NoLoop ==
  /\ phase = "closing" /\ phase' = "draining" /\ hasInput' = FALSE
  /\ UNCHANGED <<keyframes, next, head, latest, graph, observed, landmarks, seenBy, sources, mergedInto>>

\* those FindKeyframeWithMostLandmarks chooses from
ClosingKeyframes(found) == {r[2] : r \in {x \in seenBy : x[1] \in found}} \ {head}

\* ApplyLoopClosureResult: landmarks seen again join a keyframe that saw them to the head.
CloseLoop ==
  /\ phase = "closing" /\ phase' = "draining" /\ hasInput' = FALSE
  /\ \E found \in SUBSET landmarks :
       /\ \E lckf \in ClosingKeyframes(found) :
            graph' = WithEdges(graph, keyframes, {<<lckf, head>>})
       /\ observed' = observed \cup ((keyframes \cap {head}) \X found)
       /\ seenBy' = seenBy \cup (found \X (keyframes \cap {head}))
  /\ UNCHANGED <<keyframes, next, head, latest, landmarks, sources, mergedInto>>

Next == AddKeyframe \/ SaveMap \/ Drained \/ ReduceEdge \/ Reduced \/ NoLoop \/ CloseLoop

Spec == Init /\ [][Next]_vars

\* ReduceKeyframes is a loop in one thread: it goes on while it can.
FairSpec == Spec /\ WF_vars(ReduceEdge \/ Reduced)

-----------------------------------------------------------------------------
(* Properties                                                              *)

\* Types; the guard list of recent keyframes stays within its size.
TypeOK ==
  /\ keyframes \subseteq KeyFrameId /\ next \in 0 .. MaxKeyframeId
  /\ head \in KeyFrameId \cup {NoKeyframe}
  /\ latest \subseteq KeyFrameId /\ Cardinality(latest) <= MaxLatest
  /\ graph \in [edges : SUBSET (KeyFrameId \X KeyFrameId),
                from : SUBSET (KeyFrameId \X KeyFrameId), to : SUBSET (KeyFrameId \X KeyFrameId)]
  /\ observed \subseteq KeyFrameId \X Landmarks
  /\ landmarks \subseteq Landmarks /\ seenBy \subseteq Landmarks \X KeyFrameId
  /\ sources \subseteq KeyFrameId
  /\ DOMAIN mergedInto \subseteq KeyFrameId
  /\ \A k \in DOMAIN mergedInto : mergedInto[k] \in KeyFrameId
  /\ phase \in {"draining", "loading", "reducing", "closing"} /\ hasInput \in BOOLEAN

\* The three views of the edges agree and every edge joins two keyframes of
\* the graph, so that QueryKeyframeEdges and Optimize see the same graph
\* (AddEdge, RemoveEdge, RemoveKeyframe, ReduceSingleEdge).
IndexesAgree ==
  /\ graph.to = graph.edges
  /\ graph.from = {<<e[2], e[1]>> : e \in graph.edges}
  /\ \A e \in graph.edges : e[1] # e[2] /\ e[1] \in keyframes /\ e[2] \in keyframes

\* An edge leads into every set of keyframes that lacks r: r reaches every keyframe.
Reaches(r, nodes, edges) ==
  \A S \in SUBSET (nodes \ {r}) : S # {} => \E e \in edges : e[1] \notin S /\ e[2] \in S

\* One keyframe reaches all others along edges, however many were merged:
\* Optimize fixes the pose of one keyframe only, which fixes the rest only
\* if the graph is in one piece.
RootReachesAll ==
  keyframes # {} => \E r \in keyframes : Reaches(r, keyframes, graph.edges)

\* Whatever is merged, removed, saved or loaded, the index only names
\* landmarks it has and keyframes whose list names the landmark, and a list
\* belongs to a keyframe of the graph: a merge rewrites the relations that the
\* list of the merged keyframe names, so that a relation the list lacks would
\* lead a later loop closure to a keyframe that is gone (AddLandmarkRelation,
\* UpdateLandmarkRelation, RemoveLandmarks, SyncDatabase).
RelationsAgree ==
  /\ \A r \in seenBy : <<r[2], r[1]>> \in observed /\ r[1] \in landmarks
  /\ \A r \in observed : r[1] \in keyframes

\* where FindKeyframeByFrame ends from keyframe k
FoundKeyframe ==
  LET found[k \in KeyFrameId] == IF k \in DOMAIN mergedInto THEN found[mergedInto[k]] ELSE k
  IN found

\* The search for the keyframe of a past frame ends, at a keyframe that exists.
FramesFound == \A k \in sources : FoundKeyframe[k] \in keyframes

\* As long as there are too many keyframes, two of them can be merged: the
\* loop of ReduceKeyframes, which holds slam_mutex_, finds an edge each time.
CanBeReduced == phase \in {"loading", "reducing"} /\ ~WithinLimit => Reducible # {}

\* A reduction reaches the limit and ends (slam.h:274): until then the SLAM
\* thread holds slam_mutex_ and GetSlamPose of the main thread waits.
ReductionEnds == phase \in {"loading", "reducing"} ~> phase \in {"draining", "closing"}
=============================================================================
