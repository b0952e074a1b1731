--------------------------- MODULE PoseGraphProofs ---------------------------
(***************************************************************************)
(* Proofs about the pose graph, for any number of keyframes, landmarks and *)
(* limits.                                                                 *)
(*                                                                         *)
(* The argument: merging the ends of an edge keeps every set of keyframes  *)
(* that had an edge leading into it, or out of it, that way.  So one       *)
(* keyframe still reaches all others, and in a graph that was never loaded *)
(* all still reach the head.  A keyframe that is neither the root, the     *)
(* head nor a recent one therefore has an edge in and another out, and can *)
(* be merged; if the limit exceeds the number of recent keyframes there is *)
(* one whenever there are too many.                                        *)
(*                                                                         *)
(* A merge only ever leads from a keyframe that existed until then to one  *)
(* that goes on existing, so that the table of merged keyframes has no     *)
(* cycle and every search in it ends at a keyframe that exists.            *)
(***************************************************************************)
EXTENDS PoseGraph, FiniteSetTheorems, WellFoundedInduction, TLAPS

\* Keyframes are numbered in the order they are added.
NumbersAscend ==
  /\ keyframes \subseteq 0 .. next - 1 /\ latest \subseteq 0 .. next - 1
  /\ sources \subseteq 0 .. next - 1

\* A graph without head is empty, and the head is never merged.
HeadExists == IF head = NoKeyframe THEN keyframes = {} ELSE head \in keyframes

IInv ==
  /\ TypeOK /\ NumbersAscend /\ HeadExists /\ IndexesAgree /\ RootReachesAll /\ RelationsAgree

-----------------------------------------------------------------------------
(* Edges                                                                   *)

Reversed(edges) == {<<e[2], e[1]>> : e \in edges}

\* The three views of the edges of g agree, and its edges join two nodes.
Agree(g, nodes) ==
  /\ g = [edges |-> g.edges, from |-> Reversed(g.edges), to |-> g.edges]
  /\ g.edges \subseteq nodes \X nodes
  /\ \A e \in g.edges : e[1] # e[2]

LEMMA ReversedOf ==
  ASSUME NEW V, NEW edges, edges \subseteq V \X V, NEW a, NEW b
  PROVE  <<a, b>> \in Reversed(edges) <=> <<b, a>> \in edges
BY DEF Reversed

\* In a graph whose indexes agree, the edges found of a keyframe are all that touch it.
LEMMA EdgesOfAll ==
  ASSUME NEW nodes, NEW g, Agree(g, nodes), NEW k
  PROVE  EdgesOf(g, k) = {e \in g.edges : e[1] = k \/ e[2] = k}
<1>1. ASSUME NEW e \in g.edges PROVE e[2] = k => <<k, e[1]>> \in g.from
  BY ReversedOf DEF Agree
<1> QED
  BY <1>1 DEF EdgesOf, Agree

\* AddEdge keeps the indexes in step.
LEMMA WithEdgesAgrees ==
  ASSUME NEW nodes, NEW more, nodes \subseteq more, NEW g, Agree(g, nodes),
         NEW new, new \subseteq more \X more
  PROVE  /\ Agree(WithEdges(g, more, new), more)
         /\ WithEdges(g, more, new).edges = g.edges \cup {e \in new : e[1] # e[2]}
<1> DEFINE added == {e \in new \ g.edges : e[1] # e[2] /\ e[1] \in more /\ e[2] \in more}
           h == WithEdges(g, more, new)
<1>1. h = [edges |-> g.edges \cup added, from |-> g.from \cup Reversed(added), to |-> g.to \cup added]
  BY DEF WithEdges, Reversed
<1>2. g.from = Reversed(g.edges) /\ g.to = g.edges
  BY DEF Agree
<1>3. g.from \cup Reversed(added) = Reversed(g.edges \cup added)
  BY <1>2 DEF Reversed
<1>4. g.edges \cup added \subseteq more \X more
  BY DEF Agree
<1>5. \A e \in g.edges \cup added : e[1] # e[2]
  BY DEF Agree
<1>6. \A e \in new : e[1] \in more /\ e[2] \in more
  OBVIOUS
<1>7. g.edges \cup added = g.edges \cup {e \in new : e[1] # e[2]}
  BY <1>6 DEF Agree
<1> HIDE DEF added, h
<1>8. h.edges = g.edges \cup added
  BY <1>1
<1>9. h = [edges |-> h.edges, from |-> Reversed(h.edges), to |-> h.edges]
  BY <1>1, <1>2, <1>3, <1>8
<1> QED
  BY <1>4, <1>5, <1>7, <1>8, <1>9 DEF Agree, h

\* RemoveKeyframe keeps the indexes in step and leaves no edge of the keyframe.
LEMMA WithoutKeyframeAgrees ==
  ASSUME NEW nodes, NEW g, Agree(g, nodes), NEW k
  PROVE  /\ Agree(WithoutKeyframe(g, k), nodes \ {k})
         /\ WithoutKeyframe(g, k).edges = {e \in g.edges : e[1] # k /\ e[2] # k}
<1> DEFINE gone == {e \in g.edges : e[1] = k \/ e[2] = k}
           h == WithoutKeyframe(g, k)
<1>1. h = [edges |-> g.edges \ gone, from |-> g.from \ Reversed(gone), to |-> g.to \ gone]
  BY EdgesOfAll DEF WithoutKeyframe, Reversed
<1>2. g.from = Reversed(g.edges) /\ g.to = g.edges
  BY DEF Agree
<1>3. Reversed(g.edges) \ Reversed(gone) = Reversed(g.edges \ gone)
  <2>1. g.edges \subseteq nodes \X nodes
    BY DEF Agree
  <2> HIDE DEF gone
  <2>2. gone \subseteq g.edges
    BY DEF gone
  <2>3. \A p \in g.edges, q \in g.edges : <<p[2], p[1]>> = <<q[2], q[1]>> => p = q
    BY <2>1
  <2> QED BY <2>2, <2>3 DEF Reversed
<1>4. g.edges \ gone = {e \in g.edges : e[1] # k /\ e[2] # k}
  OBVIOUS
<1>5. {e \in g.edges : e[1] # k /\ e[2] # k} \subseteq (nodes \ {k}) \X (nodes \ {k})
  BY DEF Agree
<1> HIDE DEF gone, h
<1> QED
  BY <1>1, <1>2, <1>3, <1>4, <1>5 DEF Agree, h

\* ReduceSingleEdge keeps the indexes in step; the edges left are those that
\* do not touch the merged keyframe and those that were attached anew.
LEMMA ContractedAgrees ==
  ASSUME NEW nodes, NEW g, Agree(g, nodes), NEW e \in g.edges
  PROVE  /\ Agree(Contracted(g, nodes, e), nodes \ {e[2]})
         /\ \A d \in g.edges : e[2] \notin {d[1], d[2]} => d \in Contracted(g, nodes, e).edges
         /\ \A x : <<x, e[2]>> \in g.edges /\ x \notin {e[1], e[2]} =>
                     <<x, e[1]>> \in Contracted(g, nodes, e).edges
         /\ \A y : <<e[2], y>> \in g.edges /\ y \notin {e[1], e[2]} =>
                     <<e[1], y>> \in Contracted(g, nodes, e).edges
         /\ \A d \in Contracted(g, nodes, e).edges :
              d \in g.edges \/ d \in Reattached(g, e)
<1> DEFINE new == Reattached(g, e)
           h == WithEdges(g, nodes, new)
           c == Contracted(g, nodes, e)
<1>1. g.edges \subseteq nodes \X nodes /\ e[1] \in nodes /\ e[2] \in nodes /\ e[1] # e[2]
  BY DEF Agree
<1>2. EdgesOf(g, e[2]) = {d \in g.edges : d[1] = e[2] \/ d[2] = e[2]}
  BY EdgesOfAll
<1>3. new \subseteq nodes \X nodes /\ \A d \in new : d[1] # d[2] /\ e[2] \notin {d[1], d[2]}
  BY <1>1, <1>2 DEF Reattached
<1>4. Agree(h, nodes) /\ h.edges = g.edges \cup new
  <2> HIDE DEF new
  <2>1. Agree(h, nodes) /\ h.edges = g.edges \cup {d \in new : d[1] # d[2]}
    BY <1>3, WithEdgesAgrees
  <2> QED BY <2>1, <1>3
<1>5. c = WithoutKeyframe(h, e[2])
  BY DEF Contracted
<1>6. Agree(c, nodes \ {e[2]}) /\ c.edges = {d \in h.edges : d[1] # e[2] /\ d[2] # e[2]}
  <2> HIDE DEF h, c
  <2> QED BY <1>4, <1>5, WithoutKeyframeAgrees
<1>7. ASSUME NEW x, <<x, e[2]>> \in g.edges, x \notin {e[1], e[2]} PROVE <<x, e[1]>> \in new
  <2>1. <<x, e[2]>> \in {y \in EdgesOf(g, e[2]) : y[1] \notin {e[1], e[2]}}
    BY <1>2, <1>7
  <2> QED BY <2>1 DEF Reattached
<1>8. ASSUME NEW y, <<e[2], y>> \in g.edges, y \notin {e[1], e[2]} PROVE <<e[1], y>> \in new
  <2>1. <<e[2], y>> \in {x \in EdgesOf(g, e[2]) : x[2] \notin {e[1], e[2]}}
    BY <1>2, <1>8
  <2> QED BY <2>1 DEF Reattached
<1> HIDE DEF h, c
<1>9. \A d \in new : d \in c.edges
  <2> HIDE DEF new
  <2> QED BY <1>3, <1>4, <1>6
<1>10. \A d \in g.edges : e[2] \notin {d[1], d[2]} => d \in c.edges
  BY <1>4, <1>6
<1>11. \A d \in c.edges : d \in g.edges \/ d \in new
  BY <1>4, <1>6
<1> QED
  <2> HIDE DEF new
  <2>1. Agree(c, nodes \ {e[2]})
    BY <1>6
  <2>2. \A x : <<x, e[2]>> \in g.edges /\ x \notin {e[1], e[2]} => <<x, e[1]>> \in c.edges
    BY <1>7, <1>9
  <2>3. \A y : <<e[2], y>> \in g.edges /\ y \notin {e[1], e[2]} => <<e[1], y>> \in c.edges
    BY <1>8, <1>9
  <2> QED BY <2>1, <2>2, <2>3, <1>10, <1>11 DEF c, new

-----------------------------------------------------------------------------
(* Reaching                                                                *)

LEMMA ReachesMore ==
  ASSUME NEW nodes, NEW r, NEW edges, NEW more, edges \subseteq more, Reaches(r, nodes, edges)
  PROVE  Reaches(r, nodes, more)
BY DEF Reaches

\* A node added behind one of the nodes is reached.
LEMMA ReachesNew ==
  ASSUME NEW nodes, NEW edges, edges \subseteq nodes \X nodes, NEW r, Reaches(r, nodes, edges),
         NEW h \in nodes, NEW n, n \notin nodes
  PROVE  Reaches(r, nodes \cup {n}, edges \cup {<<h, n>>})
<1> SUFFICES ASSUME NEW S \in SUBSET ((nodes \cup {n}) \ {r}), S # {}
             PROVE  \E e \in edges \cup {<<h, n>>} : e[1] \notin S /\ e[2] \in S
  BY DEF Reaches
<1>1. CASE S \ {n} = {}
  <2>1. S = {n} /\ h \notin S
    BY <1>1
  <2>2. <<h, n>>[1] \notin S /\ <<h, n>>[2] \in S
    BY <2>1
  <2> QED BY <2>2
<1>2. CASE S \ {n} # {}
  <2>1. PICK e \in edges : e[1] \notin S \ {n} /\ e[2] \in S \ {n}
    BY <1>2 DEF Reaches
  <2> QED BY <2>1
<1> QED BY <1>1, <1>2

\* If a reaches all of the nodes backwards, so does a node added behind a.
LEMMA NewReaches ==
  ASSUME NEW nodes, NEW edges, edges \subseteq nodes \X nodes,
         NEW h \in nodes, Reaches(h, nodes, Reversed(edges)), NEW n, n \notin nodes
  PROVE  Reaches(n, nodes \cup {n}, Reversed(edges \cup {<<h, n>>}))
<1> SUFFICES ASSUME NEW S \in SUBSET ((nodes \cup {n}) \ {n}), S # {}
             PROVE  \E e \in Reversed(edges \cup {<<h, n>>}) : e[1] \notin S /\ e[2] \in S
  BY DEF Reaches
<1>1. CASE h \in S
  <2>1. <<n, h>> \in Reversed(edges \cup {<<h, n>>})
    <3>1. <<h, n>> \in edges \cup {<<h, n>>} /\ <<n, h>> = << <<h, n>>[2], <<h, n>>[1] >>
      OBVIOUS
    <3> QED BY <3>1 DEF Reversed
  <2> QED BY <1>1, <2>1
<1>2. CASE h \notin S
  <2>1. PICK e \in Reversed(edges) : e[1] \notin S /\ e[2] \in S
    BY <1>2 DEF Reaches
  <2>2. e \in Reversed(edges \cup {<<h, n>>})
    BY DEF Reversed
  <2> QED BY <2>1, <2>2
<1> QED BY <1>1, <1>2

\* Merging t into f keeps what r reaches; if t was r, f takes its place.
LEMMA ReachesMerged ==
  ASSUME NEW nodes, NEW edges, edges \subseteq nodes \X nodes, NEW r \in nodes,
         Reaches(r, nodes, edges), NEW f \in nodes, NEW t \in nodes, f # t, NEW new,
         \A d \in edges : t \notin {d[1], d[2]} => d \in new,
         \A x : <<x, t>> \in edges /\ x \notin {f, t} => <<x, f>> \in new,
         \A y : <<t, y>> \in edges /\ y \notin {f, t} => <<f, y>> \in new
  PROVE  Reaches(IF r = t THEN f ELSE r, nodes \ {t}, new)
<1> DEFINE s == IF r = t THEN f ELSE r
<1> SUFFICES ASSUME NEW S \in SUBSET ((nodes \ {t}) \ {s}), S # {}
             PROVE  \E e \in new : e[1] \notin S /\ e[2] \in S
  BY DEF Reaches
<1>1. CASE f \in S
  <2>1. S \cup {t} \in SUBSET (nodes \ {r}) /\ S \cup {t} # {}
    BY <1>1
  <2>2. PICK e \in edges : e[1] \notin S \cup {t} /\ e[2] \in S \cup {t}
    BY <2>1 DEF Reaches
  <2>3. CASE e[2] = t
    <3>1. e = <<e[1], t>> /\ e[1] \notin {f, t}
      BY <1>1, <2>2, <2>3
    <3>2. <<e[1], f>> \in new
      BY <3>1
    <3> QED BY <1>1, <2>2, <3>2
  <2>4. CASE e[2] # t
    BY <2>2, <2>4
  <2> QED BY <2>3, <2>4
<1>2. CASE f \notin S
  <2>1. S \in SUBSET (nodes \ {r})
    OBVIOUS
  <2>2. PICK e \in edges : e[1] \notin S /\ e[2] \in S
    BY <2>1 DEF Reaches
  <2>3. CASE e[1] = t
    <3>1. e = <<t, e[2]>> /\ e[2] \notin {f, t}
      BY <1>2, <2>2, <2>3
    <3>2. <<f, e[2]>> \in new
      BY <3>1
    <3> QED BY <1>2, <2>2, <3>2
  <2>4. CASE e[1] # t
    BY <2>2, <2>4
  <2> QED BY <2>3, <2>4
<1> QED BY <1>1, <1>2

LEMMA LeastExists ==
  ASSUME NEW S, S \subseteq Nat, S # {} PROVE \E i \in S : \A j \in S : i <= j
<1>1. PICK i \in S : \A j \in S : <<j, i>> \notin OpToRel(<, Nat)
  BY NatLessThanWellFounded, WFMin
<1>2. \A j \in S : ~ (j < i)
  BY <1>1 DEF OpToRel
<1> QED BY <1>2

\* In a saved chain the first keyframe reaches the others.
LEMMA ChainReaches ==
  ASSUME NEW n \in Nat \ {0}
  PROVE  Reaches(0, 0 .. n - 1, {<<k, k + 1>> : k \in 0 .. n - 2})
<1> SUFFICES ASSUME NEW S \in SUBSET ((0 .. n - 1) \ {0}), S # {}
             PROVE  \E e \in {<<k, k + 1>> : k \in 0 .. n - 2} : e[1] \notin S /\ e[2] \in S
  BY DEF Reaches
<1>1. PICK i \in S : \A j \in S : i <= j
  <2>1. S \subseteq Nat
    OBVIOUS
  <2> QED BY <2>1, LeastExists
<1>2. i - 1 \in 0 .. n - 2 /\ i - 1 \notin S
  BY <1>1
<1>3. i = (i - 1) + 1 /\ <<i - 1, (i - 1) + 1>> \in {<<k, k + 1>> : k \in 0 .. n - 2}
  BY <1>2
<1> QED BY <1>1, <1>2, <1>3

-----------------------------------------------------------------------------
(* Types                                                                   *)

LEMMA AgreeTyped ==
  ASSUME NEW V, NEW nodes, nodes \subseteq V, NEW g, Agree(g, nodes)
  PROVE  g \in [edges : SUBSET (V \X V), from : SUBSET (V \X V), to : SUBSET (V \X V)]
<1>1. g.edges \in SUBSET (V \X V)
  BY DEF Agree
<1>2. Reversed(g.edges) \in SUBSET (V \X V)
  BY <1>1 DEF Reversed
<1> QED
  BY <1>1, <1>2 DEF Agree

LEMMA IndexesAreAgree ==
  ASSUME TypeOK PROVE IndexesAgree <=> Agree(graph, keyframes)
<1>1. graph = [edges |-> graph.edges, from |-> graph.from, to |-> graph.to]
  BY DEF TypeOK
<1>2. ASSUME IndexesAgree PROVE Agree(graph, keyframes)
  <2>1. graph.from = Reversed(graph.edges) /\ graph.to = graph.edges
    BY <1>2 DEF IndexesAgree, Reversed
  <2>2. graph.edges \subseteq keyframes \X keyframes
    BY <1>2 DEF IndexesAgree, TypeOK
  <2> QED BY <1>1, <1>2, <2>1, <2>2 DEF Agree, IndexesAgree
<1>3. ASSUME Agree(graph, keyframes) PROVE IndexesAgree
  <2>1. graph.from = Reversed(graph.edges) /\ graph.to = graph.edges
    BY <1>3 DEF Agree
  <2>2. \A e \in graph.edges : e[1] # e[2] /\ e[1] \in keyframes /\ e[2] \in keyframes
    BY <1>3 DEF Agree
  <2> QED BY <2>1, <2>2 DEF IndexesAgree, Reversed
<1> QED BY <1>2, <1>3

LEMMA AgreeIndexes ==
  ASSUME NEW g, NEW nodes, Agree(g, nodes)
  PROVE  /\ g.to = g.edges /\ g.from = {<<e[2], e[1]>> : e \in g.edges}
         /\ \A e \in g.edges : e[1] # e[2] /\ e[1] \in nodes /\ e[2] \in nodes
<1>1. g.to = g.edges /\ g.from = Reversed(g.edges)
  BY DEF Agree
<1>2. \A e \in g.edges : e[1] # e[2] /\ e[1] \in nodes /\ e[2] \in nodes
  BY DEF Agree
<1> QED BY <1>1, <1>2 DEF Reversed

\* The list of recent keyframes takes the new one and stays within its size.
LEMMA LatestBounded ==
  ASSUME NEW old, NEW k \in Nat, old \subseteq 0 .. k - 1, Cardinality(old) <= MaxLatest
  PROVE  /\ Latest(old, k) \subseteq old \cup {k} /\ k \in Latest(old, k)
         /\ Cardinality(Latest(old, k)) <= MaxLatest
<1>1. IsFiniteSet(old) /\ Cardinality(old) \in Nat /\ k \notin old
  <2>1. IsFiniteSet(0 .. k - 1)
    BY FS_Interval
  <2>2. IsFiniteSet(old)
    BY <2>1, FS_Subset
  <2>3. k \notin old
    OBVIOUS
  <2> QED BY <2>2, <2>3, FS_CardinalityType
<1>2. IsFiniteSet(old \cup {k}) /\ Cardinality(old \cup {k}) = Cardinality(old) + 1
  BY <1>1, FS_AddElement
<1>3. CASE Cardinality(old) < MaxLatest
  BY <1>1, <1>2, <1>3, PoseGraphAssumption DEF Latest
<1>4. CASE ~ (Cardinality(old) < MaxLatest)
  <2> DEFINE i == CHOOSE i \in old : \A j \in old : i <= j
  <2>1. old # {} /\ old \subseteq Nat
    BY <1>1, <1>4, FS_EmptySet, PoseGraphAssumption
  <2>2. \E x \in old : \A j \in old : x <= j
    BY <2>1, LeastExists
  <2>3. i \in old
    BY <2>2
  <2>4. Latest(old, k) = (old \cup {k}) \ {i}
    BY <1>4 DEF Latest
  <2> HIDE DEF i
  <2>5. Cardinality((old \cup {k}) \ {i}) = Cardinality(old \cup {k}) - 1
    BY <1>2, <2>3, FS_RemoveElement
  <2> QED BY <1>1, <1>2, <2>3, <2>4, <2>5
<1> QED BY <1>3, <1>4

-----------------------------------------------------------------------------
(* The inductive invariant                                                 *)

LEMMA InitInv == Init => IInv
<1> SUFFICES ASSUME Init PROVE IInv
  OBVIOUS
<1>1. PICK n \in LoadedSizes :
        /\ n <= MaxKeyframeId
        /\ keyframes = 0 .. n - 1 /\ next = n
        /\ head \in IF n = 0 THEN {NoKeyframe} ELSE 0 .. n - 1
        /\ latest = {}
        /\ LET chain == {<<k, k + 1>> : k \in 0 .. n - 2}
           IN graph = [edges |-> chain, from |-> {<<e[2], e[1]>> : e \in chain}, to |-> chain]
        /\ observed \in SUBSET (keyframes \X Landmarks)
        /\ landmarks = {} /\ seenBy = {}
        /\ sources = {} /\ mergedInto = [k \in {} |-> NoKeyframe]
        /\ phase = (IF n = 0 THEN "draining" ELSE "loading")
        /\ hasInput = FALSE
  BY DEF Init
<1>2. n \in Nat /\ MaxKeyframeId \in Nat /\ keyframes \subseteq KeyFrameId
  BY <1>1, PoseGraphAssumption DEF KeyFrameId
<1> DEFINE chain == {<<k, k + 1>> : k \in 0 .. n - 2}
<1>3. graph = [edges |-> chain, from |-> Reversed(chain), to |-> chain]
  BY <1>1 DEF Reversed
<1>4. chain \subseteq keyframes \X keyframes /\ \A e \in chain : e[1] # e[2]
  BY <1>1, <1>2
<1> HIDE DEF chain
<1>5. Agree(graph, keyframes)
  <2>1. graph.edges = chain
    BY <1>3
  <2> QED BY <1>3, <1>4, <2>1 DEF Agree
<1>6. TypeOK
  <2>1. Cardinality({}) <= MaxLatest
    BY FS_EmptySet, PoseGraphAssumption
  <2>2. graph \in [edges : SUBSET (KeyFrameId \X KeyFrameId),
                   from : SUBSET (KeyFrameId \X KeyFrameId), to : SUBSET (KeyFrameId \X KeyFrameId)]
    BY <1>2, <1>5, AgreeTyped
  <2>3. head \in KeyFrameId \cup {NoKeyframe} /\ next \in 0 .. MaxKeyframeId
    BY <1>1, <1>2
  <2>4. /\ observed \subseteq KeyFrameId \X Landmarks
        /\ landmarks \subseteq Landmarks /\ seenBy \subseteq Landmarks \X KeyFrameId
    BY <1>1, <1>2
  <2>5. /\ sources \subseteq KeyFrameId /\ DOMAIN mergedInto = {} /\ latest = {}
        /\ phase \in {"draining", "loading", "reducing", "closing"} /\ hasInput \in BOOLEAN
    BY <1>1
  <2> QED BY <1>2, <2>1, <2>2, <2>3, <2>4, <2>5 DEF TypeOK
<1>7. NumbersAscend /\ HeadExists
  BY <1>1, <1>2 DEF NumbersAscend, HeadExists, NoKeyframe
<1>8. IndexesAgree
  BY <1>5, <1>6, IndexesAreAgree
<1>9. RootReachesAll
  <2> SUFFICES ASSUME keyframes # {} PROVE \E r \in keyframes : Reaches(r, keyframes, graph.edges)
    BY DEF RootReachesAll
  <2>1. n \in Nat \ {0} /\ 0 \in keyframes
    BY <1>1, <1>2
  <2>2. Reaches(0, keyframes, graph.edges)
    BY <1>1, <1>3, <2>1, ChainReaches DEF chain
  <2> QED BY <2>1, <2>2
<1>10. RelationsAgree
  BY <1>1 DEF RelationsAgree
<1> QED BY <1>6, <1>7, <1>8, <1>9, <1>10 DEF IInv

LEMMA AddKeyframeInv == IInv /\ AddKeyframe => IInv'
<1> SUFFICES ASSUME IInv, AddKeyframe PROVE IInv'
  OBVIOUS
<1>1. Agree(graph, keyframes)
  BY IndexesAreAgree DEF IInv
<1>2. next \in KeyFrameId /\ next \in Nat /\ next + 1 \in 0 .. MaxKeyframeId /\ next \notin keyframes
  BY PoseGraphAssumption DEF IInv, TypeOK, NumbersAscend, AddKeyframe, KeyFrameId
<1>3. Agree(graph', keyframes')
  <2>1. CASE head = NoKeyframe
    <3>1. graph.edges = {}
      BY <1>1, <2>1 DEF IInv, HeadExists, Agree
    <3>2. graph' = graph
      BY <2>1 DEF AddKeyframe
    <3> QED BY <1>1, <3>1, <3>2 DEF Agree
  <2>2. CASE head # NoKeyframe
    <3>1. head \in keyframes
      BY <2>2 DEF IInv, HeadExists
    <3>2. graph' = WithEdges(graph, keyframes', {<<head, next>>}) /\ keyframes' = keyframes \cup {next}
      BY <2>2 DEF AddKeyframe
    <3>3. keyframes \subseteq keyframes' /\ {<<head, next>>} \subseteq keyframes' \X keyframes'
      BY <3>1, <3>2
    <3> QED BY <1>1, <3>2, <3>3, WithEdgesAgrees
  <2> QED BY <2>1, <2>2
<1>4. TypeOK'
  <2>1. keyframes' \subseteq KeyFrameId /\ next' \in 0 .. MaxKeyframeId
    BY <1>2 DEF IInv, TypeOK, AddKeyframe
  <2>2. graph' \in [edges : SUBSET (KeyFrameId \X KeyFrameId),
                    from : SUBSET (KeyFrameId \X KeyFrameId), to : SUBSET (KeyFrameId \X KeyFrameId)]
    BY <1>3, <2>1, AgreeTyped
  <2>3. latest' \subseteq KeyFrameId /\ Cardinality(latest') <= MaxLatest
    <3>1. latest \subseteq 0 .. next - 1 /\ Cardinality(latest) <= MaxLatest
      BY DEF IInv, NumbersAscend, TypeOK
    <3>2. latest' = Latest(latest, next) /\ keyframes' \subseteq KeyFrameId /\ latest \cup {next} \subseteq KeyFrameId
      BY <1>2 DEF IInv, TypeOK, AddKeyframe
    <3>3. next \in Nat
      BY <1>2 DEF IInv, TypeOK
    <3> QED BY <3>1, <3>2, <3>3, LatestBounded
  <2>4. /\ observed' \subseteq KeyFrameId \X Landmarks
        /\ landmarks' \subseteq Landmarks /\ seenBy' \subseteq Landmarks \X KeyFrameId
    <3>1. PICK dead \in SUBSET landmarks :
            \/ /\ landmarks' = landmarks \ dead
               /\ observed' = ObservedWithout(dead)
               /\ seenBy' = {r \in seenBy : r[1] \notin dead}
            \/ \E l \in Landmarks \ landmarks, a, b \in sources :
                 LET seen == (a .. b) \cap keyframes'
                 IN /\ landmarks' = (landmarks \ dead) \cup {l}
                    /\ observed' = ObservedWithout(dead) \cup {<<k, l>> : k \in seen}
                    /\ seenBy' = {r \in seenBy : r[1] \notin dead} \cup {<<l, k>> : k \in seen}
      BY DEF AddKeyframe
    <3>2. observed \subseteq KeyFrameId \X Landmarks /\ landmarks \subseteq Landmarks
          /\ seenBy \subseteq Landmarks \X KeyFrameId
      BY DEF IInv, TypeOK
    <3>3. ObservedWithout(dead) \subseteq KeyFrameId \X Landmarks
      BY <3>2 DEF ObservedWithout
    <3> QED BY <2>1, <3>1, <3>2, <3>3
  <2>5. /\ head' \in KeyFrameId \cup {NoKeyframe} /\ sources' \subseteq KeyFrameId
        /\ mergedInto' = mergedInto /\ phase' = phase /\ hasInput' \in BOOLEAN
    BY <1>2 DEF IInv, TypeOK, AddKeyframe
  <2> QED BY <2>1, <2>2, <2>3, <2>4, <2>5 DEF IInv, TypeOK
<1>5. NumbersAscend' /\ HeadExists'
  <2>1. latest \subseteq 0 .. next - 1 /\ Cardinality(latest) <= MaxLatest
    BY DEF IInv, NumbersAscend, TypeOK
  <2>2. latest' \subseteq latest \cup {next}
    BY <1>2, <2>1, LatestBounded DEF AddKeyframe
  <2>3. next' = next + 1 /\ 0 .. next' - 1 = (0 .. next - 1) \cup {next}
    BY <1>2 DEF AddKeyframe
  <2>4. keyframes' = keyframes \cup {next} /\ sources' = sources \cup {next} /\ head' = next
    BY DEF AddKeyframe
  <2>5. keyframes \subseteq 0 .. next - 1 /\ sources \subseteq 0 .. next - 1
    BY DEF IInv, NumbersAscend
  <2>6. NumbersAscend'
    BY <2>1, <2>2, <2>3, <2>4, <2>5 DEF NumbersAscend
  <2>7. HeadExists'
    BY <2>4, <1>2 DEF HeadExists, NoKeyframe
  <2> QED BY <2>6, <2>7
<1>6. IndexesAgree'
  BY <1>3, AgreeIndexes DEF IndexesAgree
<1>7. RootReachesAll'
  <2>1. CASE head = NoKeyframe
    <3>1. keyframes' = {next}
      BY <2>1 DEF IInv, HeadExists, AddKeyframe
    <3>2. Reaches(next, keyframes', graph'.edges)
      BY <3>1 DEF Reaches
    <3> QED BY <3>1, <3>2 DEF RootReachesAll
  <2>2. CASE head # NoKeyframe
    <3>1. head \in keyframes
      BY <2>2 DEF IInv, HeadExists
    <3>2. PICK r \in keyframes : Reaches(r, keyframes, graph.edges)
      BY <3>1 DEF IInv, RootReachesAll
    <3>3. keyframes' = keyframes \cup {next} /\ graph' = WithEdges(graph, keyframes', {<<head, next>>})
      BY <2>2 DEF AddKeyframe
    <3>4. graph'.edges = graph.edges \cup {<<head, next>>}
      <4>1. {<<head, next>>} \subseteq keyframes' \X keyframes' /\ keyframes \subseteq keyframes'
        BY <3>1, <3>3
      <4> DEFINE h == WithEdges(graph, keyframes', {<<head, next>>})
      <4>2. h.edges = graph.edges \cup {e \in {<<head, next>>} : e[1] # e[2]}
        <5>1. ASSUME NEW more, keyframes \subseteq more, NEW new, new \subseteq more \X more
              PROVE  /\ Agree(WithEdges(graph, more, new), more)
                     /\ WithEdges(graph, more, new).edges = graph.edges \cup {e \in new : e[1] # e[2]}
          BY <1>1, <5>1, WithEdgesAgrees
        <5> QED BY <4>1, <5>1
      <4>3. head # next /\ graph' = h
        BY <1>2, <3>1, <3>3
      <4> HIDE DEF h
      <4>4. {e \in {<<head, next>>} : e[1] # e[2]} = {<<head, next>>}
        BY <4>3
      <4> QED BY <4>2, <4>3, <4>4
    <3>5. graph.edges \subseteq keyframes \X keyframes
      BY <1>1 DEF Agree
    <3>6. Reaches(r, keyframes \cup {next}, graph.edges \cup {<<head, next>>})
      BY <1>2, <3>1, <3>2, <3>5, ReachesNew
    <3> QED BY <3>2, <3>3, <3>4, <3>6 DEF RootReachesAll
  <2> QED BY <2>1, <2>2
<1>8. RelationsAgree'
  <2>1. PICK dead \in SUBSET landmarks :
            \/ /\ landmarks' = landmarks \ dead
               /\ observed' = ObservedWithout(dead)
               /\ seenBy' = {r \in seenBy : r[1] \notin dead}
            \/ \E l \in Landmarks \ landmarks, a, b \in sources :
                 LET seen == (a .. b) \cap keyframes'
                 IN /\ landmarks' = (landmarks \ dead) \cup {l}
                    /\ observed' = ObservedWithout(dead) \cup {<<k, l>> : k \in seen}
                    /\ seenBy' = {r \in seenBy : r[1] \notin dead} \cup {<<l, k>> : k \in seen}
    BY DEF AddKeyframe
  <2>2. keyframes \subseteq keyframes'
    BY DEF AddKeyframe
  <2>3. /\ \A r \in seenBy : <<r[2], r[1]>> \in observed /\ r[1] \in landmarks
        /\ \A r \in observed : r[1] \in keyframes
    BY DEF IInv, RelationsAgree
  <2>4. /\ \A r \in {x \in seenBy : x[1] \notin dead} :
             <<r[2], r[1]>> \in ObservedWithout(dead) /\ r[1] \in landmarks \ dead
        /\ \A r \in ObservedWithout(dead) : r[1] \in keyframes'
    <3>1. ASSUME NEW r \in seenBy, r[1] \notin dead PROVE <<r[2], r[1]>> \in ObservedWithout(dead)
      <4>1. <<r[2], r[1]>> \notin {<<q[2], q[1]>> : q \in {x \in seenBy : x[1] \in dead}}
        BY <3>1
      <4> QED BY <2>3, <4>1 DEF ObservedWithout
    <3>2. \A r \in ObservedWithout(dead) : r \in observed
      BY DEF ObservedWithout
    <3> QED BY <2>2, <2>3, <3>1, <3>2
  <2>5. CASE /\ landmarks' = landmarks \ dead
             /\ observed' = ObservedWithout(dead)
             /\ seenBy' = {r \in seenBy : r[1] \notin dead}
    BY <2>4, <2>5 DEF RelationsAgree
  <2>6. ASSUME NEW l \in Landmarks \ landmarks, NEW seen, seen \subseteq keyframes',
               landmarks' = (landmarks \ dead) \cup {l},
               observed' = ObservedWithout(dead) \cup {<<k, l>> : k \in seen},
               seenBy' = {r \in seenBy : r[1] \notin dead} \cup {<<l, k>> : k \in seen}
        PROVE  RelationsAgree'
    <3>1. ASSUME NEW r \in seenBy' PROVE <<r[2], r[1]>> \in observed' /\ r[1] \in landmarks'
      <4>1. CASE r \in {x \in seenBy : x[1] \notin dead}
        BY <2>4, <2>6, <4>1
      <4>2. CASE r \in {<<l, k>> : k \in seen}
        <5>1. PICK k \in seen : r = <<l, k>>
          BY <4>2
        <5> QED BY <2>6, <5>1
      <4> QED BY <2>6, <4>1, <4>2
    <3>2. \A r \in observed' : r[1] \in keyframes'
      BY <2>4, <2>6
    <3> QED BY <3>1, <3>2 DEF RelationsAgree
  <2>7. CASE \E l \in Landmarks \ landmarks, a, b \in sources :
               LET seen == (a .. b) \cap keyframes'
               IN /\ landmarks' = (landmarks \ dead) \cup {l}
                  /\ observed' = ObservedWithout(dead) \cup {<<k, l>> : k \in seen}
                  /\ seenBy' = {r \in seenBy : r[1] \notin dead} \cup {<<l, k>> : k \in seen}
    <3>1. PICK l \in Landmarks \ landmarks, a \in sources, b \in sources :
            /\ landmarks' = (landmarks \ dead) \cup {l}
            /\ observed' = ObservedWithout(dead) \cup
                            {<<k, l>> : k \in (a .. b) \cap keyframes'}
            /\ seenBy' = {r \in seenBy : r[1] \notin dead} \cup
                          {<<l, k>> : k \in (a .. b) \cap keyframes'}
      BY <2>7
    <3> DEFINE seen == (a .. b) \cap keyframes'
    <3>2. seen \subseteq keyframes'
      OBVIOUS
    <3>3. /\ landmarks' = (landmarks \ dead) \cup {l}
          /\ observed' = ObservedWithout(dead) \cup {<<k, l>> : k \in seen}
          /\ seenBy' = {r \in seenBy : r[1] \notin dead} \cup {<<l, k>> : k \in seen}
      BY <3>1
    <3> HIDE DEF seen
    <3> QED BY <3>2, <3>3, <2>6
  <2> QED BY <2>1, <2>5, <2>7
<1> QED BY <1>4, <1>5, <1>6, <1>7, <1>8 DEF IInv

LEMMA ReduceEdgeInv == IInv /\ ReduceEdge => IInv'
<1> SUFFICES ASSUME IInv, ReduceEdge PROVE IInv'
  OBVIOUS
<1>1. PICK e \in Reducible :
        /\ graph' = Contracted(graph, keyframes, e)
        /\ keyframes' = keyframes \ {e[2]}
        /\ observed' = {r \in observed : r[1] # e[2]} \cup
                       {<<e[1], r[2]>> : r \in {x \in observed : x[1] = e[2]}}
        /\ seenBy' = SeenByMerged(e)
        /\ mergedInto' = RemovedNode(e)
  BY DEF ReduceEdge
<1>2. UNCHANGED <<next, head, latest, landmarks, sources, phase, hasInput>>
  BY DEF ReduceEdge
<1>3. Agree(graph, keyframes)
  BY IndexesAreAgree DEF IInv
<1>4. /\ e \in graph.edges /\ e[1] \in keyframes /\ e[2] \in keyframes /\ e[1] # e[2]
      /\ head \notin {e[1], e[2]} /\ keyframes \subseteq KeyFrameId
  BY <1>3 DEF Reducible, Agree, IInv, TypeOK
<1>5. Agree(graph', keyframes')
  BY <1>1, <1>3, <1>4, ContractedAgrees
<1>6. IndexesAgree'
  BY <1>5, AgreeIndexes DEF IndexesAgree
<1>7. NumbersAscend' /\ HeadExists'
  BY <1>1, <1>2, <1>4 DEF IInv, NumbersAscend, HeadExists
<1>8. RootReachesAll'
  <2>1. PICK r \in keyframes : Reaches(r, keyframes, graph.edges)
    BY <1>4 DEF IInv, RootReachesAll
  <2> DEFINE s == IF r = e[2] THEN e[1] ELSE r
             new == Contracted(graph, keyframes, e).edges
  <2>2. /\ \A d \in graph.edges : e[2] \notin {d[1], d[2]} => d \in new
        /\ \A x : <<x, e[2]>> \in graph.edges /\ x \notin {e[1], e[2]} => <<x, e[1]>> \in new
        /\ \A y : <<e[2], y>> \in graph.edges /\ y \notin {e[1], e[2]} => <<e[1], y>> \in new
    BY <1>3, <1>4, ContractedAgrees
  <2>3. graph.edges \subseteq keyframes \X keyframes
    BY <1>3 DEF Agree
  <2> HIDE DEF new
  <2>4. Reaches(s, keyframes \ {e[2]}, new)
    BY <1>4, <2>1, <2>2, <2>3, ReachesMerged
  <2>5. graph'.edges = new
    BY <1>1 DEF new
  <2>6. s \in keyframes'
    BY <1>1, <1>4
  <2> QED BY <1>1, <2>4, <2>5, <2>6 DEF RootReachesAll
<1>9. observed \subseteq KeyFrameId \X Landmarks /\ seenBy \subseteq Landmarks \X KeyFrameId
  BY DEF IInv, TypeOK
<1>10. observed' \subseteq KeyFrameId \X Landmarks /\ seenBy' \subseteq Landmarks \X KeyFrameId
  <2>1. {r \in observed : r[1] # e[2]} \subseteq KeyFrameId \X Landmarks
    BY <1>9
  <2>2. \A r \in observed : <<e[1], r[2]>> \in KeyFrameId \X Landmarks
    BY <1>4, <1>9
  <2>3. \A r \in seenBy : <<r[1], e[1]>> \in Landmarks \X KeyFrameId
    BY <1>4, <1>9
  <2>4. seenBy' \subseteq Landmarks \X KeyFrameId
    BY <1>1, <1>9, <2>3 DEF SeenByMerged
  <2>5. observed' \subseteq KeyFrameId \X Landmarks
    BY <1>1, <2>1, <2>2
  <2> QED BY <2>4, <2>5
<1>11. TypeOK'
  <2>1. keyframes' \subseteq KeyFrameId
    BY <1>1, <1>4
  <2>2. graph' \in [edges : SUBSET (KeyFrameId \X KeyFrameId),
                    from : SUBSET (KeyFrameId \X KeyFrameId), to : SUBSET (KeyFrameId \X KeyFrameId)]
    BY <1>5, <2>1, AgreeTyped
  <2>3. DOMAIN mergedInto' \subseteq KeyFrameId /\ \A k \in DOMAIN mergedInto' : mergedInto'[k] \in KeyFrameId
    BY <1>1, <1>4 DEF RemovedNode, IInv, TypeOK
  <2> QED BY <1>2, <1>10, <2>1, <2>2, <2>3 DEF IInv, TypeOK
<1>12. RelationsAgree'
  <2>1. /\ \A r \in seenBy : <<r[2], r[1]>> \in observed /\ r[1] \in landmarks
        /\ \A r \in observed : r[1] \in keyframes
    BY DEF IInv, RelationsAgree
  <2>2. ASSUME NEW s \in seenBy' PROVE <<s[2], s[1]>> \in observed' /\ s[1] \in landmarks'
    <3>1. PICK r \in seenBy :
            s = IF r[2] = e[2] /\ <<e[2], r[1]>> \in observed THEN <<r[1], e[1]>> ELSE r
      BY <1>1 DEF SeenByMerged
    <3>2. CASE r[2] = e[2]
      <4> DEFINE q == <<e[2], r[1]>>
      <4>1. q \in {x \in observed : x[1] = e[2]} /\ <<e[1], q[2]>> = <<e[1], r[1]>>
        BY <2>1, <3>2
      <4>2. s = <<r[1], e[1]>>
        BY <3>1, <3>2, <4>1
      <4>3. <<e[1], r[1]>> \in {<<e[1], x[2]>> : x \in {y \in observed : y[1] = e[2]}}
        BY <4>1
      <4> QED BY <1>1, <1>2, <2>1, <4>2, <4>3
    <3>3. CASE r[2] # e[2]
      <4> DEFINE q == <<r[2], r[1]>>
      <4>1. q \in observed /\ q[1] # e[2] /\ s = r
        BY <2>1, <3>1, <3>3
      <4> QED BY <1>1, <1>2, <2>1, <4>1
    <3> QED BY <3>2, <3>3
  <2>3. \A r \in observed' : r[1] \in keyframes'
    BY <1>1, <1>4, <2>1
  <2> QED BY <2>2, <2>3 DEF RelationsAgree
<1> QED BY <1>6, <1>7, <1>8, <1>11, <1>12 DEF IInv

LEMMA CloseLoopInv == IInv /\ CloseLoop => IInv'
<1> SUFFICES ASSUME IInv, CloseLoop PROVE IInv'
  OBVIOUS
<1>1. PICK found \in SUBSET landmarks :
        /\ \E lckf \in ClosingKeyframes(found) :
             graph' = WithEdges(graph, keyframes, {<<lckf, head>>})
        /\ observed' = observed \cup ((keyframes \cap {head}) \X found)
        /\ seenBy' = seenBy \cup (found \X (keyframes \cap {head}))
  BY DEF CloseLoop
<1>2. PICK lckf \in ClosingKeyframes(found) :
        graph' = WithEdges(graph, keyframes, {<<lckf, head>>})
  BY <1>1
<1>3. UNCHANGED <<keyframes, next, head, latest, landmarks, sources, mergedInto>>
      /\ phase' = "draining" /\ hasInput' = FALSE
  BY DEF CloseLoop
<1>4. Agree(graph, keyframes)
  BY IndexesAreAgree DEF IInv
<1>5. /\ \A r \in seenBy : <<r[2], r[1]>> \in observed /\ r[1] \in landmarks
      /\ \A r \in observed : r[1] \in keyframes
      /\ observed \subseteq KeyFrameId \X Landmarks /\ seenBy \subseteq Landmarks \X KeyFrameId
      /\ keyframes \subseteq KeyFrameId /\ landmarks \subseteq Landmarks
  BY DEF IInv, RelationsAgree, TypeOK
<1>6. lckf \in keyframes /\ head \in keyframes
  <2>1. \A r \in seenBy : r[2] \in keyframes
    BY <1>5
  <2> QED BY <1>2, <2>1 DEF ClosingKeyframes, IInv, HeadExists
<1>7. Agree(graph', keyframes) /\ graph.edges \subseteq graph'.edges
  <2>1. ASSUME NEW new, new \subseteq keyframes \X keyframes
        PROVE  /\ Agree(WithEdges(graph, keyframes, new), keyframes)
               /\ WithEdges(graph, keyframes, new).edges = graph.edges \cup {e \in new : e[1] # e[2]}
    BY <1>4, <2>1, WithEdgesAgrees
  <2>2. {<<lckf, head>>} \subseteq keyframes \X keyframes
    BY <1>6
  <2> QED BY <1>2, <2>1, <2>2
<1>8. IndexesAgree'
  BY <1>3, <1>7, AgreeIndexes DEF IndexesAgree
<1>9. NumbersAscend' /\ HeadExists'
  BY <1>3 DEF IInv, NumbersAscend, HeadExists
<1>10. RootReachesAll'
  <2>1. PICK r \in keyframes : Reaches(r, keyframes, graph.edges)
    BY <1>6 DEF IInv, RootReachesAll
  <2>2. Reaches(r, keyframes, graph'.edges)
    BY <1>7, <2>1, ReachesMore
  <2> QED BY <1>3, <2>1, <2>2 DEF RootReachesAll
<1>11. /\ observed' = observed \cup ({head} \X found)
       /\ seenBy' = seenBy \cup (found \X {head})
  BY <1>1, <1>6
<1>12. observed' \subseteq KeyFrameId \X Landmarks /\ seenBy' \subseteq Landmarks \X KeyFrameId
  BY <1>5, <1>6, <1>11
<1>13. TypeOK'
  <2>1. graph' \in [edges : SUBSET (KeyFrameId \X KeyFrameId),
                    from : SUBSET (KeyFrameId \X KeyFrameId), to : SUBSET (KeyFrameId \X KeyFrameId)]
    BY <1>5, <1>7, AgreeTyped
  <2> QED BY <1>3, <1>12, <2>1 DEF IInv, TypeOK
<1>14. RelationsAgree'
  <2>1. ASSUME NEW r \in seenBy' PROVE <<r[2], r[1]>> \in observed' /\ r[1] \in landmarks'
    <3>1. CASE r \in seenBy
      BY <1>3, <1>5, <1>11, <3>1
    <3>2. CASE r \in found \X {head}
      BY <1>3, <1>11, <3>2
    <3> QED BY <1>11, <3>1, <3>2
  <2>2. \A r \in observed' : r[1] \in keyframes'
    BY <1>3, <1>5, <1>6, <1>11
  <2> QED BY <2>1, <2>2 DEF RelationsAgree
<1> QED BY <1>8, <1>9, <1>10, <1>13, <1>14 DEF IInv

LEMMA SaveMapInv == IInv /\ SaveMap => IInv'
<1> SUFFICES ASSUME IInv, SaveMap PROVE IInv'
  OBVIOUS
<1>1. PICK dead \in SUBSET landmarks :
        landmarks' = landmarks \ dead /\ seenBy' = {r \in seenBy : r[1] \notin dead}
  BY DEF SaveMap
<1>2. UNCHANGED <<keyframes, next, head, latest, graph, observed, sources, mergedInto, phase, hasInput>>
  BY DEF SaveMap
<1>3. TypeOK'
  BY <1>1, <1>2 DEF IInv, TypeOK
<1>4. NumbersAscend' /\ HeadExists' /\ IndexesAgree'
  BY <1>2 DEF IInv, NumbersAscend, HeadExists, IndexesAgree
<1>5. RootReachesAll'
  BY <1>2 DEF IInv, RootReachesAll
<1>6. RelationsAgree'
  BY <1>1, <1>2 DEF IInv, RelationsAgree
<1> QED BY <1>3, <1>4, <1>5, <1>6 DEF IInv

LEMMA NextInv == IInv /\ [Next]_vars => IInv'
<1> SUFFICES ASSUME IInv, [Next]_vars PROVE IInv'
  OBVIOUS
<1>1. CASE AddKeyframe
  BY <1>1, AddKeyframeInv
<1>2. CASE ReduceEdge
  BY <1>2, ReduceEdgeInv
<1>3. CASE CloseLoop
  BY <1>3, CloseLoopInv
<1>4. CASE Drained \/ Reduced \/ NoLoop \/ UNCHANGED vars
  <2>1. UNCHANGED <<keyframes, next, head, latest, graph, observed, landmarks, seenBy, sources, mergedInto>>
    BY <1>4 DEF Drained, Reduced, NoLoop, vars
  <2>2. phase' \in {"draining", "loading", "reducing", "closing"} /\ hasInput' \in BOOLEAN
    BY <1>4 DEF Drained, Reduced, NoLoop, vars, IInv, TypeOK
  <2>3. TypeOK'
    BY <2>1, <2>2 DEF IInv, TypeOK
  <2>4. NumbersAscend' /\ HeadExists' /\ IndexesAgree' /\ RelationsAgree'
    BY <2>1 DEF IInv, NumbersAscend, HeadExists, IndexesAgree, RelationsAgree
  <2>5. RootReachesAll'
    BY <2>1 DEF IInv, RootReachesAll
  <2> QED BY <2>3, <2>4, <2>5 DEF IInv
<1>5. CASE SaveMap
  BY <1>5, SaveMapInv
<1> QED BY <1>1, <1>2, <1>3, <1>4, <1>5 DEF Next

LEMMA Invariance == Spec => []IInv
BY InitInv, NextInv, PTL DEF Spec

-----------------------------------------------------------------------------
(* The theorems                                                            *)

\* The types hold, and the list of recent keyframes, on which the guard of
\* the reduction depends, keeps to its size (AddKeyframe).
THEOREM PoseGraphTypes == Spec => []TypeOK
<1>1. IInv => TypeOK
  BY DEF IInv
<1> QED BY <1>1, Invariance, PTL

\* edges_, edges_from_, edges_to_ and edges_from_to_ always describe one
\* graph, whose edges join keyframes that exist.
THEOREM EdgeIndexesAgree == Spec => []IndexesAgree
<1>1. IInv => IndexesAgree
  BY DEF IInv
<1> QED BY <1>1, Invariance, PTL

\* However many keyframes are merged, one keyframe reaches all others.
THEOREM RootReaches == Spec => []RootReachesAll
<1>1. IInv => RootReachesAll
  BY DEF IInv
<1> QED BY <1>1, Invariance, PTL

\* Whatever is merged, removed, saved or loaded, the relations of the landmark
\* index are relations of the graph, between what exists.
THEOREM RelationsInStep == Spec => []RelationsAgree
<1>1. IInv => RelationsAgree
  BY DEF IInv
<1> QED BY <1>1, Invariance, PTL

-----------------------------------------------------------------------------
(* The search for the keyframe of a past frame                             *)

\* F leads every keyframe along the table of merged ones to its end.
Leads(F) ==
  /\ F \in [KeyFrameId -> KeyFrameId]
  /\ \A k \in KeyFrameId : F[k] = IF k \in DOMAIN mergedInto THEN F[mergedInto[k]] ELSE k

\* Every set of merged keyframes has one that was merged into none of them:
\* the table has no cycle.
MergesEnd == \A S \in SUBSET DOMAIN mergedInto : S # {} => \E k \in S : mergedInto[k] \notin S

\* A keyframe that had a source exists or was merged, once, into one of
\* which the same holds; the table has no cycle and can be followed to its end.
MergesInv ==
  /\ DOMAIN mergedInto \subseteq 0 .. next - 1
  /\ DOMAIN mergedInto \cap keyframes = {}
  /\ sources \subseteq keyframes \cup DOMAIN mergedInto
  /\ \A k \in DOMAIN mergedInto : mergedInto[k] \in keyframes \cup DOMAIN mergedInto
  /\ MergesEnd
  /\ \E F : Leads(F)

LEMMA InitMerges == Init => MergesInv
<1> SUFFICES ASSUME Init PROVE MergesInv
  OBVIOUS
<1>1. DOMAIN mergedInto = {} /\ sources = {}
  BY DEF Init
<1>2. Leads([k \in KeyFrameId |-> k])
  BY <1>1 DEF Leads
<1> QED BY <1>1, <1>2 DEF MergesInv, MergesEnd

\* A new keyframe has a new number, which the table does not know.
LEMMA AddKeyframeMerges == IInv /\ MergesInv /\ AddKeyframe => MergesInv'
<1> SUFFICES ASSUME IInv, MergesInv, AddKeyframe PROVE MergesInv'
  OBVIOUS
<1>1. /\ keyframes' = keyframes \cup {next} /\ next' = next + 1
      /\ sources' = sources \cup {next} /\ mergedInto' = mergedInto
  BY DEF AddKeyframe
<1>2. next \in Nat /\ next \notin DOMAIN mergedInto
  BY DEF IInv, TypeOK, MergesInv
<1>3. DOMAIN mergedInto' \subseteq 0 .. next' - 1
  BY <1>1, <1>2 DEF MergesInv
<1>4. MergesEnd'
  BY <1>1 DEF MergesInv, MergesEnd
<1>5. (\E F : Leads(F))'
  BY <1>1 DEF MergesInv, Leads
<1> QED BY <1>1, <1>2, <1>3, <1>4, <1>5 DEF MergesInv

\* What led to the merged keyframe now leads on to the one that took its
\* place, which was not merged itself.
LEMMA ReduceEdgeMerges == IInv /\ MergesInv /\ ReduceEdge => MergesInv'
<1> SUFFICES ASSUME IInv, MergesInv, ReduceEdge PROVE MergesInv'
  OBVIOUS
<1>1. PICK e \in Reducible : keyframes' = keyframes \ {e[2]} /\ mergedInto' = RemovedNode(e)
  BY DEF ReduceEdge
<1> DEFINE f == e[1]
           t == e[2]
<1>2. next' = next /\ sources' = sources
  BY DEF ReduceEdge
<1>3. /\ f \in keyframes /\ t \in keyframes /\ f # t
      /\ f \in KeyFrameId /\ t \in KeyFrameId /\ t \in 0 .. next - 1
  BY <1>1 DEF Reducible, IInv, IndexesAgree, TypeOK, NumbersAscend
<1>4. f \notin DOMAIN mergedInto /\ t \notin DOMAIN mergedInto
  BY <1>3 DEF MergesInv
<1>5. /\ DOMAIN mergedInto' = DOMAIN mergedInto \cup {t}
      /\ mergedInto'[t] = f
      /\ \A k \in DOMAIN mergedInto : mergedInto'[k] = mergedInto[k]
  BY <1>1, <1>4 DEF RemovedNode
<1> HIDE DEF f, t
<1>6. keyframes' = keyframes \ {t}
  BY <1>1 DEF t
<1>7. MergesEnd'
  <2> SUFFICES ASSUME NEW S \in SUBSET (DOMAIN mergedInto)', S # {}
               PROVE  \E k \in S : mergedInto'[k] \notin S
    BY DEF MergesEnd
  <2>1. CASE t \in S
    <3>1. f \notin S
      BY <1>3, <1>4, <1>5
    <3> QED BY <1>5, <2>1, <3>1
  <2>2. CASE t \notin S
    <3>1. S \in SUBSET DOMAIN mergedInto
      BY <1>5, <2>2
    <3>2. PICK k \in S : mergedInto[k] \notin S
      BY <3>1 DEF MergesInv, MergesEnd
    <3> QED BY <1>5, <3>1, <3>2
  <2> QED BY <2>1, <2>2
<1>8. (\E F : Leads(F))'
  <2>1. PICK F : Leads(F)
    BY DEF MergesInv
  <2> DEFINE G == [k \in KeyFrameId |-> IF F[k] = t THEN f ELSE F[k]]
  <2>2. G \in [KeyFrameId -> KeyFrameId]
    BY <1>3, <2>1 DEF Leads
  <2>3. ASSUME NEW k \in KeyFrameId
        PROVE  G[k] = IF k \in DOMAIN mergedInto' THEN G[mergedInto'[k]] ELSE k
    <3>1. CASE k = t
      <4>1. F[t] = t /\ F[f] = f
        BY <1>3, <1>4, <2>1 DEF Leads
      <4> QED BY <1>3, <1>5, <3>1, <4>1
    <3>2. CASE k \in DOMAIN mergedInto
      <4>1. F[k] = F[mergedInto[k]] /\ mergedInto[k] \in KeyFrameId
        BY <2>1, <3>2 DEF Leads, IInv, TypeOK
      <4> QED BY <1>5, <3>2, <4>1
    <3>3. CASE k \notin DOMAIN mergedInto /\ k # t
      <4>1. F[k] = k
        BY <2>1, <3>3 DEF Leads
      <4> QED BY <1>5, <3>3, <4>1
    <3> QED BY <3>1, <3>2, <3>3
  <2> HIDE DEF G
  <2>4. Leads(G)'
    BY <2>2, <2>3 DEF Leads
  <2> QED BY <2>4
<1>9. DOMAIN mergedInto' \subseteq 0 .. next' - 1
  BY <1>2, <1>3, <1>5 DEF MergesInv
<1>10. DOMAIN mergedInto' \cap keyframes' = {}
  BY <1>5, <1>6 DEF MergesInv
<1>11. sources' \subseteq keyframes' \cup DOMAIN mergedInto'
  BY <1>2, <1>5, <1>6 DEF MergesInv
<1>12. \A k \in DOMAIN mergedInto' : mergedInto'[k] \in keyframes' \cup DOMAIN mergedInto'
  <2>1. ASSUME NEW k \in DOMAIN mergedInto
        PROVE  mergedInto'[k] \in keyframes' \cup DOMAIN mergedInto'
    <3>1. mergedInto[k] \in keyframes \cup DOMAIN mergedInto
      BY DEF MergesInv
    <3> QED BY <1>5, <1>6, <3>1
  <2>2. mergedInto'[t] \in keyframes'
    BY <1>3, <1>5, <1>6
  <2> QED BY <1>5, <2>1, <2>2
<1> QED BY <1>7, <1>8, <1>9, <1>10, <1>11, <1>12 DEF MergesInv

LEMMA NextMerges == IInv /\ MergesInv /\ [Next]_vars => MergesInv'
<1> SUFFICES ASSUME IInv, MergesInv, [Next]_vars PROVE MergesInv'
  OBVIOUS
<1>1. CASE AddKeyframe
  BY <1>1, AddKeyframeMerges
<1>2. CASE ReduceEdge
  BY <1>2, ReduceEdgeMerges
<1>3. CASE UNCHANGED <<keyframes, next, sources, mergedInto>>
  <2>1. MergesEnd'
    BY <1>3 DEF MergesInv, MergesEnd
  <2>2. (\E F : Leads(F))'
    BY <1>3 DEF MergesInv, Leads
  <2> QED BY <1>3, <2>1, <2>2 DEF MergesInv
<1>4. SaveMap \/ Drained \/ Reduced \/ NoLoop \/ CloseLoop \/ UNCHANGED vars
        => UNCHANGED <<keyframes, next, sources, mergedInto>>
  BY DEF SaveMap, Drained, Reduced, NoLoop, CloseLoop, vars
<1> QED BY <1>1, <1>2, <1>3, <1>4 DEF Next

\* FoundKeyframe is a function that leads to the end of the table, as there is one.
LEMMA FoundLeads == TypeOK /\ MergesInv => Leads(FoundKeyframe)
<1> SUFFICES ASSUME TypeOK, MergesInv PROVE Leads(FoundKeyframe)
  OBVIOUS
<1> DEFINE step(f) == [k \in KeyFrameId |-> IF k \in DOMAIN mergedInto THEN f[mergedInto[k]] ELSE k]
<1>1. PICK F : Leads(F)
  BY DEF MergesInv
<1>2. F = step(F)
  BY <1>1 DEF Leads
<1>3. FoundKeyframe = CHOOSE f : f = step(f)
  BY DEF FoundKeyframe
<1>4. FoundKeyframe = step(FoundKeyframe)
  <2> HIDE DEF step
  <2> QED BY <1>2, <1>3
<1>5. \A k \in KeyFrameId :
        FoundKeyframe[k] = IF k \in DOMAIN mergedInto THEN FoundKeyframe[mergedInto[k]] ELSE k
  BY <1>4
<1>6. \A k \in KeyFrameId : FoundKeyframe[k] = F[k]
  <2> DEFINE T == {k \in KeyFrameId : FoundKeyframe[k] # F[k]}
  <2>1. T \subseteq DOMAIN mergedInto
    BY <1>1, <1>5 DEF Leads
  <2>2. ASSUME NEW k \in T PROVE mergedInto[k] \in T
    <3>1. k \in DOMAIN mergedInto /\ k \in KeyFrameId /\ mergedInto[k] \in KeyFrameId
      BY <2>1 DEF TypeOK
    <3>2. F[k] = F[mergedInto[k]] /\ FoundKeyframe[k] = FoundKeyframe[mergedInto[k]]
      BY <1>1, <1>5, <3>1 DEF Leads
    <3> QED BY <3>1, <3>2
  <2> HIDE DEF T
  <2>3. T = {}
    BY <2>1, <2>2 DEF MergesInv, MergesEnd
  <2> QED BY <2>3 DEF T
<1> QED BY <1>1, <1>4, <1>5, <1>6 DEF Leads

\* However keyframes were merged, the search for the keyframe of a past frame
\* ends, and at a keyframe of the graph (FindKeyframeByFrame, RemovedNode).
THEOREM FramesAreFound == Spec => []FramesFound
<1>1. IInv /\ MergesInv => FramesFound
  <2> SUFFICES ASSUME IInv, MergesInv PROVE FramesFound
    OBVIOUS
  <2>1. Leads(FoundKeyframe)
    BY FoundLeads DEF IInv
  <2> DEFINE T == {k \in DOMAIN mergedInto : FoundKeyframe[k] \notin keyframes}
  <2>2. ASSUME NEW k \in T PROVE mergedInto[k] \in T
    <3>1. /\ k \in KeyFrameId /\ mergedInto[k] \in KeyFrameId
          /\ mergedInto[k] \in keyframes \cup DOMAIN mergedInto
      BY DEF IInv, TypeOK, MergesInv
    <3>2. FoundKeyframe[k] = FoundKeyframe[mergedInto[k]]
      BY <2>1, <3>1 DEF Leads
    <3>3. mergedInto[k] \notin DOMAIN mergedInto => FoundKeyframe[mergedInto[k]] = mergedInto[k]
      BY <2>1, <3>1 DEF Leads
    <3> QED BY <3>1, <3>2, <3>3
  <2>3. T = {}
    <3>1. T \in SUBSET DOMAIN mergedInto
      OBVIOUS
    <3> HIDE DEF T
    <3> QED BY <2>2, <3>1 DEF MergesInv, MergesEnd
  <2>4. ASSUME NEW k \in sources PROVE FoundKeyframe[k] \in keyframes
    <3>1. k \in KeyFrameId /\ k \in keyframes \cup DOMAIN mergedInto
      BY DEF IInv, TypeOK, MergesInv
    <3>2. k \notin DOMAIN mergedInto => FoundKeyframe[k] = k
      BY <2>1, <3>1 DEF Leads
    <3> QED BY <2>3, <3>1, <3>2
  <2> QED BY <2>4 DEF FramesFound
<1>2. Spec => []MergesInv
  BY InitMerges, NextMerges, Invariance, PTL DEF Spec
<1> QED BY <1>1, <1>2, Invariance, PTL

-----------------------------------------------------------------------------
(* The reduction of a graph that was not loaded never gets stuck           *)

\* The head is a recent keyframe without an edge out; all keyframes lead to it.
FreshHead ==
  head # NoKeyframe =>
    /\ head \in latest
    /\ \A e \in graph.edges : e[1] # head
    /\ Reaches(head, keyframes, Reversed(graph.edges))

LEMMA FreshHeadInit == ASSUME LoadedSizes = {0}, Init PROVE FreshHead
BY DEF Init, FreshHead

LEMMA AddKeyframeFresh == IInv /\ FreshHead /\ AddKeyframe => FreshHead'
<1> SUFFICES ASSUME IInv, FreshHead, AddKeyframe PROVE FreshHead'
  OBVIOUS
<1>1. Agree(graph, keyframes)
  BY IndexesAreAgree DEF IInv
<1>2. next \in Nat /\ next \notin keyframes
  BY PoseGraphAssumption DEF IInv, TypeOK, NumbersAscend, AddKeyframe
<1>3. head' = next /\ keyframes' = keyframes \cup {next} /\ latest' = Latest(latest, next)
  BY DEF AddKeyframe
<1>4. next \in latest'
  <2>1. latest \subseteq 0 .. next - 1 /\ Cardinality(latest) <= MaxLatest
    BY DEF IInv, NumbersAscend, TypeOK
  <2> QED BY <1>2, <1>3, <2>1, LatestBounded
<1>5. CASE head = NoKeyframe
  <2>1. keyframes = {} /\ graph' = graph
    BY <1>5 DEF IInv, HeadExists, AddKeyframe
  <2>2. graph.edges = {}
    BY <1>1, <2>1 DEF Agree
  <2>3. Reaches(next, keyframes', Reversed(graph'.edges))
    BY <1>3, <2>1 DEF Reaches
  <2> QED BY <1>3, <1>4, <2>1, <2>2, <2>3 DEF FreshHead
<1>6. CASE head # NoKeyframe
  <2>1. head \in keyframes
    BY <1>6 DEF IInv, HeadExists
  <2>2. graph' = WithEdges(graph, keyframes', {<<head, next>>})
    BY <1>6 DEF AddKeyframe
  <2>3. graph'.edges = graph.edges \cup {<<head, next>>}
    <3>1. ASSUME NEW more, keyframes \subseteq more, NEW new, new \subseteq more \X more
          PROVE  /\ Agree(WithEdges(graph, more, new), more)
                 /\ WithEdges(graph, more, new).edges = graph.edges \cup {e \in new : e[1] # e[2]}
      BY <1>1, <3>1, WithEdgesAgrees
    <3>2. {<<head, next>>} \subseteq keyframes' \X keyframes' /\ keyframes \subseteq keyframes'
      BY <1>3, <2>1
    <3>3. {e \in {<<head, next>>} : e[1] # e[2]} = {<<head, next>>}
      BY <1>2, <2>1
    <3> QED BY <2>2, <3>1, <3>2, <3>3
  <2>4. graph.edges \subseteq keyframes \X keyframes
    BY <1>1 DEF Agree
  <2>5. \A e \in graph'.edges : e[1] # next
    BY <1>2, <2>1, <2>3, <2>4
  <2>6. Reaches(head, keyframes, Reversed(graph.edges))
    BY <1>6 DEF FreshHead
  <2>7. Reaches(next, keyframes \cup {next}, Reversed(graph.edges \cup {<<head, next>>}))
    BY <1>2, <2>1, <2>4, <2>6, NewReaches
  <2> QED BY <1>3, <1>4, <2>3, <2>5, <2>7 DEF FreshHead
<1> QED BY <1>5, <1>6

LEMMA ReduceEdgeFresh == IInv /\ FreshHead /\ ReduceEdge => FreshHead'
<1> SUFFICES ASSUME IInv, FreshHead, ReduceEdge PROVE FreshHead'
  OBVIOUS
<1>1. PICK e \in Reducible : /\ graph' = Contracted(graph, keyframes, e)
                             /\ keyframes' = keyframes \ {e[2]}
  BY DEF ReduceEdge
<1>2. head' = head /\ latest' = latest
  BY DEF ReduceEdge
<1> SUFFICES ASSUME head # NoKeyframe
             PROVE  /\ \A d \in graph'.edges : d[1] # head
                    /\ Reaches(head, keyframes', Reversed(graph'.edges))
  BY <1>2 DEF FreshHead
<1>3. Agree(graph, keyframes)
  BY IndexesAreAgree DEF IInv
<1>4. /\ e \in graph.edges /\ e[1] \in keyframes /\ e[2] \in keyframes /\ e[1] # e[2]
      /\ head \notin {e[1], e[2]} /\ head \in keyframes
  BY <1>3 DEF Reducible, Agree, IInv, HeadExists
<1>5. /\ \A d \in graph.edges : d[1] # head
      /\ Reaches(head, keyframes, Reversed(graph.edges))
  BY DEF FreshHead
<1> DEFINE new == Contracted(graph, keyframes, e).edges
<1>6. /\ \A d \in graph.edges : e[2] \notin {d[1], d[2]} => d \in new
      /\ \A x : <<x, e[2]>> \in graph.edges /\ x \notin {e[1], e[2]} => <<x, e[1]>> \in new
      /\ \A y : <<e[2], y>> \in graph.edges /\ y \notin {e[1], e[2]} => <<e[1], y>> \in new
      /\ \A d \in new : d \in graph.edges \/ d \in Reattached(graph, e)
  BY <1>3, <1>4, ContractedAgrees
<1>7. \A d \in Reattached(graph, e) : d[1] # head
  <2>1. EdgesOf(graph, e[2]) \subseteq graph.edges
    BY DEF EdgesOf
  <2> QED BY <1>4, <1>5, <2>1 DEF Reattached
<1>8. Agree(Contracted(graph, keyframes, e), keyframes \ {e[2]})
  BY <1>3, <1>4, ContractedAgrees
<1>9. graph.edges \subseteq keyframes \X keyframes /\ new \subseteq keyframes \X keyframes
  BY <1>3, <1>8 DEF Agree
<1> HIDE DEF new
<1>10. /\ \A d \in Reversed(graph.edges) : e[2] \notin {d[1], d[2]} => d \in Reversed(new)
       /\ \A x : <<x, e[2]>> \in Reversed(graph.edges) /\ x \notin {e[1], e[2]} => <<x, e[1]>> \in Reversed(new)
       /\ \A y : <<e[2], y>> \in Reversed(graph.edges) /\ y \notin {e[1], e[2]} => <<e[1], y>> \in Reversed(new)
  <2>1. \A d \in Reversed(graph.edges) : e[2] \notin {d[1], d[2]} => d \in Reversed(new)
    BY <1>6, <1>9 DEF Reversed
  <2>2. ASSUME NEW x, <<x, e[2]>> \in Reversed(graph.edges), x \notin {e[1], e[2]}
        PROVE  <<x, e[1]>> \in Reversed(new)
    <3>1. <<e[2], x>> \in graph.edges
      BY <1>9, <2>2, ReversedOf
    <3>2. <<e[1], x>> \in new
      BY <1>6, <2>2, <3>1
    <3> QED BY <1>9, <3>2, ReversedOf
  <2>3. ASSUME NEW y, <<e[2], y>> \in Reversed(graph.edges), y \notin {e[1], e[2]}
        PROVE  <<e[1], y>> \in Reversed(new)
    <3>1. <<y, e[2]>> \in graph.edges
      BY <1>9, <2>3, ReversedOf
    <3>2. <<y, e[1]>> \in new
      BY <1>6, <2>3, <3>1
    <3> QED BY <1>9, <3>2, ReversedOf
  <2> QED BY <2>1, <2>2, <2>3
<1>11. Reversed(graph.edges) \subseteq keyframes \X keyframes
  BY <1>9 DEF Reversed
<1>12. Reaches(IF head = e[2] THEN e[1] ELSE head, keyframes \ {e[2]}, Reversed(new))
  BY <1>4, <1>5, <1>10, <1>11, ReachesMerged
<1>13. graph'.edges = new
  BY <1>1 DEF new
<1> QED BY <1>1, <1>4, <1>5, <1>6, <1>7, <1>12, <1>13

LEMMA CloseLoopFresh == IInv /\ FreshHead /\ CloseLoop => FreshHead'
<1> SUFFICES ASSUME IInv, FreshHead, CloseLoop PROVE FreshHead'
  OBVIOUS
<1>1. UNCHANGED <<keyframes, head, latest>>
  BY DEF CloseLoop
<1> SUFFICES ASSUME head # NoKeyframe
             PROVE  /\ \A d \in graph'.edges : d[1] # head
                    /\ Reaches(head, keyframes, Reversed(graph'.edges))
  BY <1>1 DEF FreshHead
<1>2. PICK lckf : /\ lckf # head /\ lckf \in {r[2] : r \in seenBy}
                  /\ graph' = WithEdges(graph, keyframes, {<<lckf, head>>})
  BY DEF CloseLoop, ClosingKeyframes
<1>3. Agree(graph, keyframes)
  BY IndexesAreAgree DEF IInv
<1>4. lckf \in keyframes /\ head \in keyframes
  BY <1>2 DEF IInv, RelationsAgree, HeadExists
<1>5. graph'.edges = graph.edges \cup {<<lckf, head>>}
  <2>1. ASSUME NEW new, new \subseteq keyframes \X keyframes
        PROVE  /\ Agree(WithEdges(graph, keyframes, new), keyframes)
               /\ WithEdges(graph, keyframes, new).edges = graph.edges \cup {e \in new : e[1] # e[2]}
    BY <1>3, <2>1, WithEdgesAgrees
  <2>2. {e \in {<<lckf, head>>} : e[1] # e[2]} = {<<lckf, head>>}
    BY <1>2
  <2>3. {<<lckf, head>>} \subseteq keyframes \X keyframes
    BY <1>4
  <2> QED BY <1>2, <2>1, <2>2, <2>3
<1>6. \A e \in graph.edges : e[1] # head
  BY DEF FreshHead
<1>7. \A d \in graph'.edges : d[1] # head
  BY <1>2, <1>5, <1>6
<1>8. Reversed(graph.edges) \subseteq Reversed(graph'.edges)
  BY <1>5 DEF Reversed
<1>9. Reaches(head, keyframes, Reversed(graph'.edges))
  BY <1>8, ReachesMore DEF FreshHead
<1> QED BY <1>7, <1>9

LEMMA FreshHeadNext == IInv /\ FreshHead /\ [Next]_vars => FreshHead'
<1> SUFFICES ASSUME IInv, FreshHead, [Next]_vars PROVE FreshHead'
  OBVIOUS
<1>1. CASE AddKeyframe
  BY <1>1, AddKeyframeFresh
<1>2. CASE ReduceEdge
  BY <1>2, ReduceEdgeFresh
<1>3. CASE CloseLoop
  BY <1>3, CloseLoopFresh
<1>4. CASE Drained \/ Reduced \/ NoLoop \/ UNCHANGED vars
  <2>1. UNCHANGED <<keyframes, head, latest, graph>>
    BY <1>4 DEF Drained, Reduced, NoLoop, vars
  <2> QED BY <2>1 DEF FreshHead
<1>5. CASE SaveMap
  BY <1>5 DEF SaveMap, FreshHead
<1> QED BY <1>1, <1>2, <1>3, <1>4, <1>5 DEF Next

\* With more keyframes than the recent ones and the root, there is one with
\* an edge in and another out that may be merged.
LEMMA Merging ==
  ASSUME IInv, FreshHead, MaxKeyframes > MaxLatest, ~WithinLimit PROVE Reducible # {}
<1>1. MaxKeyframes \in Nat /\ MaxLatest \in Nat /\ MaxKeyframeId \in Nat
  BY PoseGraphAssumption
<1>2. IsFiniteSet(keyframes) /\ IsFiniteSet(latest)
  <2>1. IsFiniteSet(KeyFrameId)
    BY <1>1, FS_Interval DEF KeyFrameId
  <2> QED BY <2>1, FS_Subset DEF IInv, TypeOK
<1>3. Cardinality(keyframes) \in Nat /\ Cardinality(keyframes) > MaxLatest + 1
  <2>1. Cardinality(keyframes) \in Nat
    BY <1>2, FS_CardinalityType
  <2> QED BY <1>1, <2>1 DEF WithinLimit
<1>4. keyframes # {}
  BY <1>1, <1>3, FS_EmptySet
<1>5. PICK r \in keyframes : Reaches(r, keyframes, graph.edges)
  BY <1>4 DEF IInv, RootReachesAll
<1>6. PICK u \in keyframes : u \notin latest /\ u # r
  <2> DEFINE kept == latest \cup {r}
  <2>1. IsFiniteSet(kept) /\ Cardinality(kept) <= MaxLatest + 1 /\ Cardinality(kept) \in Nat
    <3>1. IsFiniteSet(kept)
      BY <1>2, FS_AddElement
    <3>2. Cardinality(kept) \in Nat /\ Cardinality(latest) \in Nat
      BY <1>2, <3>1, FS_CardinalityType
    <3>3. Cardinality(kept) = Cardinality(latest) \/ Cardinality(kept) = Cardinality(latest) + 1
      BY <1>2, FS_AddElement
    <3>4. Cardinality(latest) <= MaxLatest
      BY DEF IInv, TypeOK
    <3> QED BY <1>1, <3>1, <3>2, <3>3, <3>4
  <2>2. ASSUME keyframes \subseteq kept PROVE FALSE
    <3>1. Cardinality(keyframes) <= Cardinality(kept)
      BY <2>1, <2>2, FS_Subset
    <3> QED BY <1>1, <1>3, <2>1, <3>1
  <2> QED BY <2>2
<1>7. /\ head # NoKeyframe /\ head \in latest
      /\ \A e \in graph.edges : e[1] # head
      /\ Reaches(head, keyframes, Reversed(graph.edges))
  BY <1>4 DEF IInv, HeadExists, FreshHead
<1>8. Agree(graph, keyframes)
  BY IndexesAreAgree DEF IInv
<1>9. graph.edges \subseteq keyframes \X keyframes
  BY <1>8 DEF Agree
<1>10. PICK e \in graph.edges : e[1] # u /\ e[2] = u
  <2>1. {u} \in SUBSET (keyframes \ {r}) /\ {u} # {}
    BY <1>6
  <2>2. \E e \in graph.edges : e[1] \notin {u} /\ e[2] \in {u}
    BY <1>5, <2>1 DEF Reaches
  <2> QED BY <2>2
<1>11. PICK d \in graph.edges : d[1] = u
  <2>1. {u} \in SUBSET (keyframes \ {head}) /\ {u} # {}
    BY <1>6, <1>7
  <2>2. \E d \in Reversed(graph.edges) : d[1] \notin {u} /\ d[2] \in {u}
    BY <1>7, <2>1 DEF Reaches
  <2> QED BY <1>9, <2>2 DEF Reversed
<1>12. Cardinality(EdgesOf(graph, u)) >= 2
  <2>1. EdgesOf(graph, u) = {x \in graph.edges : x[1] = u \/ x[2] = u}
    BY <1>8, EdgesOfAll
  <2>2. {e, d} \subseteq EdgesOf(graph, u) /\ e # d
    BY <1>10, <1>11, <2>1
  <2>3. IsFiniteSet(EdgesOf(graph, u))
    <3>1. IsFiniteSet(keyframes \X keyframes)
      BY <1>2, FS_Product
    <3> QED BY <1>9, <2>1, <3>1, FS_Subset
  <2>4. Cardinality({e, d}) = 2
    <3>1. IsFiniteSet({e}) /\ Cardinality({e}) = 1
      BY FS_Singleton
    <3>2. d \notin {e}
      BY <2>2
    <3>3. Cardinality({e} \cup {d}) = Cardinality({e}) + 1
      BY <3>1, <3>2, FS_AddElement
    <3>4. {e} \cup {d} = {e, d}
      OBVIOUS
    <3> QED BY <3>1, <3>3, <3>4
  <2>5. Cardinality({e, d}) <= Cardinality(EdgesOf(graph, u))
    BY <2>2, <2>3, FS_Subset
  <2>6. Cardinality(EdgesOf(graph, u)) \in Nat
    BY <2>3, FS_CardinalityType
  <2> QED BY <2>4, <2>5, <2>6
<1> QED BY <1>6, <1>7, <1>10, <1>12 DEF Reducible

\* In a graph that was not loaded, and with a limit above the number of
\* recent keyframes (20 in the code), ReduceKeyframes always finds an edge
\* as long as there are too many keyframes.
THEOREM AlwaysReducible ==
  ASSUME LoadedSizes = {0}, MaxKeyframes > MaxLatest PROVE Spec => []CanBeReduced
<1>1. Init => IInv /\ FreshHead
  BY InitInv, FreshHeadInit
<1>2. IInv /\ FreshHead /\ [Next]_vars => IInv' /\ FreshHead'
  BY NextInv, FreshHeadNext
<1>3. IInv /\ FreshHead => CanBeReduced
  BY Merging DEF CanBeReduced
<1> QED BY <1>1, <1>2, <1>3, PTL DEF Spec
=============================================================================
