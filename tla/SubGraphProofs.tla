----------------------------- MODULE SubGraphProofs -----------------------------
(***************************************************************************)
(* Proofs about BaseGraph, for every set of elements, every bound on the   *)
(* ids and every mode, and then about the views on it.  The back-end       *)
(* primitives are shown to preserve the parts of the invariant one by one; *)
(* the actions are built from them.                                        *)
(***************************************************************************)
EXTENDS Percolation, TLAPS

\* The invariants as predicates of a graph, so that a call that applies
\* several primitives can be followed through its intermediate graphs.
Indexed(h) ==
  /\ \A v \in Vertices : HasVertex(h, v) => h.node[h.vid[v]] = v
  /\ \A i \in LiveNodes(h) : h.vid[h.node[i]] = i

Attached(h) ==
  \A i \in LiveArcs(h) :
    /\ h.node[h.arc[i].from] = Source[h.arc[i].edge]
    /\ h.node[h.arc[i].to]   = Target[h.arc[i].edge]

EdgesLive(h) ==
  \A e \in Edges :
    HasEdge(h, e) => h.eid[e] \in LiveArcs(h) /\ h.arc[h.eid[e]].edge = e

\* Every id in use has been counted, so the next one is free.
Allocated(h) ==
  /\ \A i \in LiveNodes(h) : i < h.nodes
  /\ \A i \in LiveArcs(h) : i < h.arcs

Sound(h) == h \in Graphs /\ Indexed(h) /\ Attached(h) /\ Allocated(h)

IInv ==
  /\ TypeOK
  /\ Sound(g)
  /\ RemovesEdgesFirst => EdgesLive(g)
  /\ op = "clearVertices" => LiveArcs(g) = {}

-----------------------------------------------------------------------------
\* The id a back-end hands out is a legal one that no live element has, and
\* counting it stays within the bound.
LEMMA NewIdIsFree ==
  ASSUME NEW live \in SUBSET Ids, NEW count \in 0 .. MaxIds,
         \A i \in live : i < count,
         NEW i \in NewIds(live, count)
  PROVE  /\ i \in Ids /\ i \notin live
         /\ Counted(count, i) \in 0 .. MaxIds
         /\ i < Counted(count, i) /\ count <= Counted(count, i)
BY ModeAssumption DEF NewIds, Counted, Ids

\* Adding a vertex keeps the graph sound and disturbs no edge.
LEMMA WithVertexSound ==
  ASSUME NEW h, Sound(h), NEW v \in Vertices, ~HasVertex(h, v),
         NEW i \in NewIds(LiveNodes(h), h.nodes)
  PROVE  /\ Sound(WithVertex(h, v, i))
         /\ HasVertex(WithVertex(h, v, i), v)
         /\ \A w \in Vertices : HasVertex(h, w) => HasVertex(WithVertex(h, v, i), w)
         /\ WithVertex(h, v, i).eid = h.eid
         /\ WithVertex(h, v, i).arc = h.arc
         /\ WithVertex(h, v, i).arcs = h.arcs
<1> DEFINE k == WithVertex(h, v, i)
<1>1. h \in Graphs BY DEF Sound
<1>2. LiveNodes(h) \in SUBSET Ids BY DEF LiveNodes
<1>3. /\ i \in Ids /\ h.node[i] = NoVertex
      /\ Counted(h.nodes, i) \in 0 .. MaxIds
      /\ i < Counted(h.nodes, i) /\ h.nodes <= Counted(h.nodes, i)
  <2>1. h.nodes \in 0 .. MaxIds BY <1>1 DEF Graphs
  <2>2. \A j \in LiveNodes(h) : j < h.nodes BY DEF Sound, Allocated
  <2> QED BY <1>2, <2>1, <2>2, NewIdIsFree DEF LiveNodes
<1>4. /\ k.vid = [h.vid EXCEPT ![v] = i] /\ k.node = [h.node EXCEPT ![i] = v]
      /\ k.nodes = Counted(h.nodes, i)
      /\ k.eid = h.eid /\ k.arc = h.arc /\ k.arcs = h.arcs
  BY <1>1 DEF WithVertex, Graphs
<1>5. k \in Graphs
  <2>1. /\ k.vid \in [Vertices -> Ids \cup {NoId}]
        /\ k.node \in [Ids -> Vertices \cup {NoVertex}]
    BY <1>1, <1>3, <1>4 DEF Graphs
  <2>2. /\ k.eid \in [Edges -> Ids \cup {NoId}] /\ k.arc \in [Ids -> Arcs \cup {NoArc}]
        /\ k.nodes \in 0 .. MaxIds /\ k.arcs \in 0 .. MaxIds
    BY <1>1, <1>3, <1>4 DEF Graphs
  <2> QED BY <1>1, <2>1, <2>2 DEF WithVertex, Graphs
<1>6. h.vid[v] = NoId /\ NoId \notin Ids BY DEF HasVertex, NoId, Ids
<1> HIDE DEF k
<1>7. Indexed(k)
  BY <1>1, <1>3, <1>4, <1>6, ElementAssumption
  DEF Sound, Indexed, HasVertex, LiveNodes, Graphs
<1>8. Attached(k)
  <2> SUFFICES ASSUME NEW j \in Ids, h.arc[j] # NoArc
               PROVE  /\ k.node[h.arc[j].from] = Source[h.arc[j].edge]
                      /\ k.node[h.arc[j].to] = Target[h.arc[j].edge]
    BY <1>4 DEF Attached, LiveArcs
  <2>1. /\ h.node[h.arc[j].from] = Source[h.arc[j].edge]
        /\ h.node[h.arc[j].to] = Target[h.arc[j].edge]
    BY DEF Sound, Attached, LiveArcs
  <2>2. h.arc[j].edge \in Edges /\ h.arc[j].from \in Ids /\ h.arc[j].to \in Ids
    BY <1>1 DEF Graphs, Arcs
  <2>3. h.arc[j].from # i /\ h.arc[j].to # i
    BY <2>1, <2>2, <1>3, ElementAssumption
  <2> QED BY <1>1, <1>4, <2>1, <2>2, <2>3 DEF Graphs
<1>9. Allocated(k)
  <2>1. \A j \in LiveNodes(k) : j < k.nodes
    <3> TAKE j \in LiveNodes(k)
    <3>0. k.nodes = Counted(h.nodes, i) /\ h.nodes \in Int /\ Counted(h.nodes, i) \in Int
      BY <1>1, <1>3, <1>4 DEF Graphs
    <3>1. CASE j = i BY <3>0, <3>1, <1>3
    <3>2. CASE j # i
      <4>1. j \in LiveNodes(h) BY <3>2, <1>1, <1>4 DEF LiveNodes, Graphs
      <4>2. j < h.nodes /\ j \in Int BY <4>1 DEF Sound, Allocated, LiveNodes, Ids
      <4> QED BY <3>0, <4>2, <1>3
    <3> QED BY <3>1, <3>2
  <2>2. \A j \in LiveArcs(k) : j < k.arcs
    BY <1>4 DEF Sound, Allocated, LiveArcs
  <2> QED BY <2>1, <2>2 DEF Allocated
<1>10. HasVertex(k, v) /\ \A w \in Vertices : HasVertex(h, w) => HasVertex(k, w)
  BY <1>1, <1>3, <1>4, <1>6 DEF HasVertex, Graphs
<1> QED BY <1>4, <1>5, <1>7, <1>8, <1>9, <1>10 DEF k, Sound

\* The end points addEdge adds keep the graph sound and disturb no edge.
LEMMA JoinedSound ==
  ASSUME NEW h, Sound(h), NEW v \in Vertices, NEW k \in Joined(h, v)
  PROVE  /\ Sound(k) /\ HasVertex(k, v)
         /\ \A w \in Vertices : HasVertex(h, w) => HasVertex(k, w)
         /\ k.eid = h.eid /\ k.arc = h.arc /\ k.arcs = h.arcs
<1>1. CASE HasVertex(h, v) BY <1>1 DEF Joined
<1>2. CASE ~HasVertex(h, v)
  <2> PICK i \in NewIds(LiveNodes(h), h.nodes) : k = WithVertex(h, v, i)
    BY <1>2 DEF Joined
  <2> QED BY <1>2, WithVertexSound
<1> QED BY <1>1, <1>2

\* An edge between associated vertices gets an arc of its own; if its event
\* throws it is disassociated again, and the graph stays sound.
LEMMA WithEdgeSound ==
  ASSUME NEW h, Sound(h), NEW e \in Edges, ~HasEdge(h, e),
         HasVertex(h, Source[e]), HasVertex(h, Target[e]),
         NEW i \in NewIds(LiveArcs(h), h.arcs),
         NEW k, k \in {WithEdge(h, e, i), [WithEdge(h, e, i) EXCEPT !.eid[e] = NoId]}
  PROVE  Sound(k) /\ (EdgesLive(h) => EdgesLive(k))
<1> DEFINE a == [edge |-> e, from |-> h.vid[Source[e]], to |-> h.vid[Target[e]]]
<1>1. h \in Graphs BY DEF Sound
<1>2. /\ i \in Ids /\ h.arc[i] = NoArc
      /\ Counted(h.arcs, i) \in 0 .. MaxIds
      /\ i < Counted(h.arcs, i) /\ h.arcs <= Counted(h.arcs, i)
  <2>1. h.arcs \in 0 .. MaxIds BY <1>1 DEF Graphs
  <2>2. \A j \in LiveArcs(h) : j < h.arcs BY DEF Sound, Allocated
  <2>3. LiveArcs(h) \in SUBSET Ids BY DEF LiveArcs
  <2> QED BY <2>1, <2>2, <2>3, NewIdIsFree DEF LiveArcs
<1>3. Source[e] \in Vertices /\ Target[e] \in Vertices BY ElementAssumption
<1>4. a \in Arcs /\ a # NoArc
  BY <1>1, <1>3, ElementAssumption DEF Graphs, Arcs, HasVertex
<1> HIDE DEF a
<1>5. /\ k.arc = [h.arc EXCEPT ![i] = a] /\ k.arcs = Counted(h.arcs, i)
      /\ k.vid = h.vid /\ k.node = h.node /\ k.nodes = h.nodes
      /\ k.eid = [h.eid EXCEPT ![e] = i] \/ k.eid = [h.eid EXCEPT ![e] = NoId]
  <2>1. CASE k = WithEdge(h, e, i) BY <1>1, <2>1 DEF WithEdge, Graphs, a
  <2>2. CASE k = [WithEdge(h, e, i) EXCEPT !.eid[e] = NoId]
    BY <1>1, <2>2 DEF WithEdge, Graphs, a
  <2> QED BY <2>1, <2>2
<1>6. k \in Graphs
  <2>1. /\ k.eid \in [Edges -> Ids \cup {NoId}]
        /\ k.arc \in [Ids -> Arcs \cup {NoArc}]
    BY <1>1, <1>2, <1>4, <1>5 DEF Graphs
  <2>2. /\ k.vid \in [Vertices -> Ids \cup {NoId}]
        /\ k.node \in [Ids -> Vertices \cup {NoVertex}]
        /\ k.nodes \in 0 .. MaxIds /\ k.arcs \in 0 .. MaxIds
    BY <1>1, <1>2, <1>5 DEF Graphs
  <2> QED BY <1>1, <2>1, <2>2 DEF WithEdge, Graphs
<1>7. Indexed(k) BY <1>5 DEF Sound, Indexed, HasVertex, LiveNodes
<1>8. Attached(k)
  <2>1. a.edge = e /\ a.from = h.vid[Source[e]] /\ a.to = h.vid[Target[e]] BY DEF a
  <2>2. h.node[a.from] = Source[e] /\ h.node[a.to] = Target[e]
    BY <1>3, <2>1 DEF Sound, Indexed
  <2> QED BY <1>1, <1>5, <2>1, <2>2 DEF Sound, Attached, LiveArcs, Graphs
<1>9. Allocated(k)
  <2>1. \A j \in LiveNodes(k) : j < k.nodes
    BY <1>5 DEF Sound, Allocated, LiveNodes
  <2>2. \A j \in LiveArcs(k) : j < k.arcs
    <3> TAKE j \in LiveArcs(k)
    <3>0. k.arcs = Counted(h.arcs, i) /\ h.arcs \in Int /\ Counted(h.arcs, i) \in Int
      BY <1>1, <1>2, <1>5 DEF Graphs
    <3>1. CASE j = i BY <3>0, <3>1, <1>2
    <3>2. CASE j # i
      <4>1. j \in LiveArcs(h) BY <3>2, <1>1, <1>5 DEF LiveArcs, Graphs
      <4>2. j < h.arcs /\ j \in Int BY <4>1 DEF Sound, Allocated, LiveArcs, Ids
      <4> QED BY <3>0, <4>2, <1>2
    <3> QED BY <3>1, <3>2
  <2> QED BY <2>1, <2>2 DEF Allocated
<1>10. EdgesLive(h) => EdgesLive(k)
  <2> SUFFICES ASSUME EdgesLive(h), NEW f \in Edges, HasEdge(k, f)
               PROVE  k.eid[f] \in LiveArcs(k) /\ k.arc[k.eid[f]].edge = f
    BY DEF EdgesLive
  <2>1. CASE f = e
    <3>1. k.eid[f] = i BY <2>1, <1>1, <1>5 DEF HasEdge, Graphs
    <3>2. k.arc[i] = a /\ a.edge = e BY <1>1, <1>2, <1>5 DEF Graphs, a
    <3> QED BY <2>1, <3>1, <3>2, <1>2, <1>4 DEF LiveArcs
  <2>2. CASE f # e
    <3>1. k.eid[f] = h.eid[f] BY <2>2, <1>1, <1>5 DEF Graphs
    <3>2. h.eid[f] \in LiveArcs(h) /\ h.arc[h.eid[f]].edge = f
      BY <3>1 DEF EdgesLive, HasEdge
    <3>3. h.eid[f] # i BY <3>2, <1>2 DEF LiveArcs
    <3> QED BY <3>1, <3>2, <3>3, <1>1, <1>5 DEF LiveArcs, Graphs
  <2> QED BY <2>1, <2>2
<1> QED BY <1>6, <1>7, <1>8, <1>9, <1>10 DEF Sound

\* Removing an edge keeps the graph sound, and every other edge as live as it
\* was when ids have not been handed out twice.
LEMMA WithoutEdgeSound ==
  ASSUME NEW h, Sound(h), NEW e \in Edges, HasEdge(h, e)
  PROVE  /\ Sound(WithoutEdge(h, e))
         /\ EdgesLive(h) => EdgesLive(WithoutEdge(h, e))
<1> DEFINE k == WithoutEdge(h, e)
           i == h.eid[e]
<1>1. h \in Graphs BY DEF Sound
<1>2. i \in Ids BY <1>1 DEF HasEdge, Graphs
<1>3. /\ k.arc = [h.arc EXCEPT ![i] = NoArc] /\ k.eid = [h.eid EXCEPT ![e] = NoId]
      /\ k.vid = h.vid /\ k.node = h.node /\ k.nodes = h.nodes /\ k.arcs = h.arcs
  BY <1>1 DEF WithoutEdge, Graphs
<1>4. k \in Graphs BY <1>1, <1>2 DEF WithoutEdge, Graphs
<1> HIDE DEF k, i
<1>5. Indexed(k) BY <1>3 DEF Sound, Indexed, HasVertex, LiveNodes
<1>6. \A j \in LiveArcs(k) : j \in LiveArcs(h) /\ k.arc[j] = h.arc[j]
  BY <1>1, <1>3 DEF LiveArcs, Graphs
<1>7. Attached(k) BY <1>3, <1>6 DEF Sound, Attached
<1>8. Allocated(k) BY <1>3, <1>6 DEF Sound, Allocated, LiveNodes
<1>9. EdgesLive(h) => EdgesLive(k)
  <2> SUFFICES ASSUME EdgesLive(h), NEW f \in Edges, HasEdge(k, f)
               PROVE  k.eid[f] \in LiveArcs(k) /\ k.arc[k.eid[f]].edge = f
    BY DEF EdgesLive
  <2>1. f # e /\ k.eid[f] = h.eid[f] BY <1>1, <1>3 DEF HasEdge, Graphs
  <2>2. /\ h.eid[f] \in LiveArcs(h) /\ h.arc[h.eid[f]].edge = f
        /\ h.arc[i].edge = e
    BY <2>1 DEF EdgesLive, HasEdge, i
  <2> QED BY <2>1, <2>2, <1>1, <1>3 DEF LiveArcs, Graphs
<1> QED BY <1>4, <1>5, <1>7, <1>8, <1>9 DEF Sound, k

\* Removing a vertex keeps the graph sound, and the edges live if no edge of
\* the graph ends at the vertex.
LEMMA WithoutVertexSound ==
  ASSUME NEW h, Sound(h), NEW v \in Vertices, HasVertex(h, v)
  PROVE  /\ Sound(WithoutVertex(h, v))
         /\ \A i \in LiveArcs(WithoutVertex(h, v)) : i \in LiveArcs(h)
         /\ (/\ EdgesLive(h)
             /\ \A e \in Edges : HasEdge(h, e) => v \notin {Source[e], Target[e]})
              => EdgesLive(WithoutVertex(h, v))
<1> DEFINE k == WithoutVertex(h, v)
           n == h.vid[v]
<1>1. h \in Graphs BY DEF Sound
<1>2. n \in Ids /\ h.node[n] = v BY <1>1 DEF HasVertex, Graphs, Sound, Indexed
<1>3. /\ k.vid = [h.vid EXCEPT ![v] = NoId] /\ k.node = [h.node EXCEPT ![n] = NoVertex]
      /\ k.arc = [i \in Ids |-> IF h.arc[i] # NoArc /\ n \in {h.arc[i].from, h.arc[i].to}
                                THEN NoArc ELSE h.arc[i]]
      /\ k.eid = h.eid /\ k.nodes = h.nodes /\ k.arcs = h.arcs
  BY <1>1 DEF WithoutVertex, Graphs
<1>4. k \in Graphs
  <2>1. /\ k.vid \in [Vertices -> Ids \cup {NoId}]
        /\ k.node \in [Ids -> Vertices \cup {NoVertex}]
    BY <1>1, <1>2, <1>3 DEF Graphs
  <2>2. k.arc \in [Ids -> Arcs \cup {NoArc}] BY <1>1, <1>3 DEF Graphs
  <2>3. /\ k.eid \in [Edges -> Ids \cup {NoId}]
        /\ k.nodes \in 0 .. MaxIds /\ k.arcs \in 0 .. MaxIds
    BY <1>1, <1>3 DEF Graphs
  <2> QED BY <1>1, <2>1, <2>2, <2>3 DEF WithoutVertex, Graphs
<1> HIDE DEF k, n
<1>5. Indexed(k)
  <2>1. ASSUME NEW w \in Vertices, HasVertex(k, w) PROVE k.node[k.vid[w]] = w
    <3>1. w # v /\ k.vid[w] = h.vid[w] BY <2>1, <1>1, <1>3 DEF HasVertex, Graphs
    <3>2. h.vid[w] \in Ids /\ h.node[h.vid[w]] = w
      BY <3>1, <2>1, <1>1 DEF HasVertex, Graphs, Sound, Indexed
    <3>3. h.vid[w] # n BY <3>1, <3>2, <1>2
    <3> QED BY <3>1, <3>2, <3>3, <1>1, <1>3 DEF Graphs
  <2>2. ASSUME NEW i \in LiveNodes(k) PROVE k.vid[k.node[i]] = i
    <3>1. i \in Ids /\ i # n /\ k.node[i] = h.node[i] /\ h.node[i] # NoVertex
      BY <1>1, <1>2, <1>3 DEF LiveNodes, Graphs
    <3>2. h.vid[h.node[i]] = i BY <3>1 DEF LiveNodes, Sound, Indexed
    <3>3. h.node[i] # v BY <3>1, <3>2 DEF n
    <3>4. h.node[i] \in Vertices BY <3>1, <1>1 DEF Graphs
    <3> QED BY <3>1, <3>2, <3>3, <3>4, <1>1, <1>3 DEF Graphs
  <2> QED BY <2>1, <2>2 DEF Indexed
<1>6. \A j \in LiveArcs(k) :
        /\ j \in LiveArcs(h) /\ k.arc[j] = h.arc[j]
        /\ h.arc[j].from # n /\ h.arc[j].to # n
        /\ h.arc[j].from \in Ids /\ h.arc[j].to \in Ids
  <2> TAKE j \in LiveArcs(k)
  <2>1. j \in Ids /\ k.arc[j] # NoArc BY DEF LiveArcs
  <2>2. k.arc[j] = h.arc[j] /\ h.arc[j] # NoArc /\ n \notin {h.arc[j].from, h.arc[j].to}
    BY <1>3, <2>1
  <2>3. h.arc[j] \in Arcs BY <1>1, <2>1, <2>2 DEF Graphs
  <2> QED BY <2>1, <2>2, <2>3 DEF LiveArcs, Arcs
<1>7. Attached(k)
  <2> SUFFICES ASSUME NEW j \in LiveArcs(k)
               PROVE  /\ k.node[k.arc[j].from] = Source[k.arc[j].edge]
                      /\ k.node[k.arc[j].to] = Target[k.arc[j].edge]
    BY DEF Attached
  <2>1. /\ h.node[h.arc[j].from] = Source[h.arc[j].edge]
        /\ h.node[h.arc[j].to] = Target[h.arc[j].edge]
    BY <1>6 DEF Sound, Attached
  <2>2. h.node \in [Ids -> Vertices \cup {NoVertex}] BY <1>1 DEF Graphs
  <2>3. \A x \in Ids : x # n => k.node[x] = h.node[x] BY <1>3, <2>2
  <2> QED BY <1>6, <2>1, <2>3
<1>8. Allocated(k)
  <2>1. \A j \in LiveNodes(k) : j \in LiveNodes(h)
    BY <1>1, <1>2, <1>3 DEF LiveNodes, Graphs
  <2> QED BY <1>3, <1>6, <2>1 DEF Sound, Allocated
<1>9. ASSUME EdgesLive(h),
             \A e \in Edges : HasEdge(h, e) => v \notin {Source[e], Target[e]}
      PROVE  EdgesLive(k)
  <2> SUFFICES ASSUME NEW f \in Edges, HasEdge(k, f)
               PROVE  k.eid[f] \in LiveArcs(k) /\ k.arc[k.eid[f]].edge = f
    BY DEF EdgesLive
  <2>1. HasEdge(h, f) /\ k.eid[f] = h.eid[f] BY <1>3 DEF HasEdge
  <2>2. h.eid[f] \in LiveArcs(h) /\ h.arc[h.eid[f]].edge = f
    BY <1>9, <2>1 DEF EdgesLive
  <2>3. h.node[h.arc[h.eid[f]].from] # v /\ h.node[h.arc[h.eid[f]].to] # v
    BY <1>9, <2>1, <2>2 DEF Sound, Attached
  <2>4. h.arc[h.eid[f]].from # n /\ h.arc[h.eid[f]].to # n BY <2>3, <1>2
  <2> QED BY <2>1, <2>2, <2>4, <1>3 DEF LiveArcs
<1> QED BY <1>4, <1>5, <1>6, <1>7, <1>8, <1>9 DEF Sound, k

-----------------------------------------------------------------------------
\* An empty graph satisfies the invariant.
LEMMA InitIInv == Init => IInv
<1> SUFFICES ASSUME Init PROVE IInv OBVIOUS
<1>1. g = Empty /\ op = "idle" BY DEF Init
<1>2. Empty \in Graphs BY ModeAssumption DEF Empty, Graphs
<1>3. TypeOK BY <1>1, <1>2 DEF Init, TypeOK
<1>4. LiveNodes(Empty) = {} /\ LiveArcs(Empty) = {}
  BY DEF Empty, LiveNodes, LiveArcs
<1>5. /\ \A v \in Vertices : ~HasVertex(Empty, v)
      /\ \A e \in Edges : ~HasEdge(Empty, e)
  BY DEF Empty, HasVertex, HasEdge
<1>6. Sound(Empty) BY <1>2, <1>4, <1>5 DEF Sound, Indexed, Attached, Allocated
<1> QED BY <1>1, <1>3, <1>4, <1>5, <1>6 DEF IInv, EdgesLive

\* What one removeVertex does to the invariant, in RemoveVertex and in clear.
LEMMA DropVertexInv ==
  ASSUME IInv, NEW v \in Vertices, HasVertex(g, v),
         NEW next \in {"idle", "clearVertices"}, DropVertex(v, next),
         RemovesEdgesFirst =>
           \A e \in Edges : HasEdge(g, e) => v \notin {Source[e], Target[e]},
         next = "clearVertices" => LiveArcs(g) = {},
         pending' = pending
  PROVE  IInv'
<1>1. /\ g' = WithoutVertex(g, v)
      /\ seenVertices' \in {seenVertices, seenVertices \ {v}}
      /\ seenEdges' = seenEdges
      /\ op' \in {"raised", next}
  BY DEF DropVertex
<1>2. Sound(g') /\ (RemovesEdgesFirst => EdgesLive(g'))
  BY <1>1, WithoutVertexSound DEF IInv
<1>3. TypeOK' BY <1>1, <1>2 DEF IInv, TypeOK, Sound
<1>4. op' = "clearVertices" => LiveArcs(g') = {}
  BY <1>1, WithoutVertexSound DEF IInv
<1> QED BY <1>2, <1>3, <1>4 DEF IInv

\* What one removeEdge does to it, in RemoveEdge, removeEdges and clear.
LEMMA DropEdgeInv ==
  ASSUME IInv, NEW e \in Edges, NEW next \in {"idle", "removeEdges", "clearEdges"},
         DropEdge(e, next), pending' \subseteq pending
  PROVE  IInv' /\ (RemovesEdgesFirst => op' # "undefined")
<1>1. CASE g' = g /\ seenEdges' = seenEdges /\ seenVertices' = seenVertices
           /\ op' \in {"raised", "undefined"}
           /\ (op' = "undefined" => HasEdge(g, e) /\ g.eid[e] \notin LiveArcs(g))
  BY <1>1 DEF IInv, TypeOK, EdgesLive
<1>2. CASE /\ HasEdge(g, e) /\ g' = WithoutEdge(g, e)
           /\ seenEdges' \in {seenEdges, seenEdges \ {e}}
           /\ seenVertices' = seenVertices /\ op' \in {"raised", next}
  <2>1. Sound(g') /\ (RemovesEdgesFirst => EdgesLive(g'))
    BY <1>2, WithoutEdgeSound DEF IInv
  <2>2. TypeOK' BY <1>2, <2>1 DEF IInv, TypeOK, Sound
  <2> QED BY <1>2, <2>1, <2>2 DEF IInv
<1> QED BY <1>1, <1>2 DEF DropEdge

\* Every step keeps the invariant, and none is undefined if the edges of a vertex
\* go first.
LEMMA NextIInv == IInv /\ [Next]_vars => IInv' /\ (RemovesEdgesFirst /\ op # "undefined" => op' # "undefined")
<1> SUFFICES ASSUME IInv, [Next]_vars
             PROVE  IInv' /\ (RemovesEdgesFirst /\ op # "undefined" => op' # "undefined")
  OBVIOUS
<1>0. TypeOK /\ Sound(g) /\ g \in Graphs BY DEF IInv, Sound
<1>1. CASE Rejected BY <1>1 DEF Rejected, IInv, TypeOK
<1>2. ASSUME NEW v \in Vertices, AddVertex(v)
      PROVE  IInv' /\ op' # "undefined"
  <2> PICK i \in NewIds(LiveNodes(g), g.nodes), o \in Outcomes :
        /\ g' = WithVertex(g, v, i)
        /\ seenVertices' = IF Reached(o) THEN seenVertices \cup {v} ELSE seenVertices
        /\ op' = Ended(o)
    BY <1>2 DEF AddVertex
  <2>1. Sound(g') /\ g'.eid = g.eid /\ g'.arc = g.arc
    BY <1>0, <1>2, WithVertexSound DEF AddVertex
  <2>2. op' \in {"raised", "idle"} BY DEF Ended
  <2>3. TypeOK' BY <1>2, <2>1, <2>2 DEF AddVertex, IInv, TypeOK, Sound
  <2>4. RemovesEdgesFirst => EdgesLive(g')
    BY <2>1 DEF IInv, EdgesLive, HasEdge, LiveArcs
  <2> QED BY <2>1, <2>2, <2>3, <2>4 DEF IInv
<1>3. ASSUME NEW v \in Vertices, RemoveVertex(v)
      PROVE  IInv' /\ op' # "undefined"
  <2>1. DropVertex(v, "idle") /\ HasVertex(g, v) /\ pending' = pending
    BY <1>3 DEF RemoveVertex
  <2>2. RemovesEdgesFirst =>
           \A e \in Edges : HasEdge(g, e) => v \notin {Source[e], Target[e]}
    BY <1>3 DEF RemoveVertex
  <2> QED BY <2>1, <2>2, DropVertexInv DEF DropVertex
<1>4. ASSUME NEW e \in Edges, AddEdge(e)
      PROVE  IInv' /\ op' # "undefined"
  <2> PICK h1 \in Joined(g, Source[e]) : \E h2 \in Joined(h1, Target[e]) :
        \E i \in NewIds(LiveArcs(h2), h2.arcs), o \in Outcomes,
           told \in Arriving({v \in {Source[e], Target[e]} : ~HasVertex(g, v)}) :
          /\ g' = IF Threw(o) THEN [WithEdge(h2, e, i) EXCEPT !.eid[e] = NoId]
                              ELSE WithEdge(h2, e, i)
          /\ seenVertices' = seenVertices \cup told
          /\ seenEdges' = IF Reached(o) THEN seenEdges \cup {e} ELSE seenEdges
          /\ op' = Ended(o)
    BY <1>4 DEF AddEdge
  <2> PICK h2 \in Joined(h1, Target[e]) :
        \E i \in NewIds(LiveArcs(h2), h2.arcs), o \in Outcomes,
           told \in Arriving({v \in {Source[e], Target[e]} : ~HasVertex(g, v)}) :
          /\ g' = IF Threw(o) THEN [WithEdge(h2, e, i) EXCEPT !.eid[e] = NoId]
                              ELSE WithEdge(h2, e, i)
          /\ seenVertices' = seenVertices \cup told
          /\ seenEdges' = IF Reached(o) THEN seenEdges \cup {e} ELSE seenEdges
          /\ op' = Ended(o)
    OBVIOUS
  <2> PICK i \in NewIds(LiveArcs(h2), h2.arcs), o \in Outcomes,
           told \in Arriving({v \in {Source[e], Target[e]} : ~HasVertex(g, v)}) :
          /\ g' = IF Threw(o) THEN [WithEdge(h2, e, i) EXCEPT !.eid[e] = NoId]
                              ELSE WithEdge(h2, e, i)
          /\ seenVertices' = seenVertices \cup told
          /\ seenEdges' = IF Reached(o) THEN seenEdges \cup {e} ELSE seenEdges
          /\ op' = Ended(o)
    OBVIOUS
  <2>1. Source[e] \in Vertices /\ Target[e] \in Vertices BY ElementAssumption
  <2>2. Sound(h1) /\ HasVertex(h1, Source[e]) /\ h1.eid = g.eid /\ h1.arc = g.arc
    BY <1>0, <2>1, JoinedSound
  <2>3. /\ Sound(h2) /\ HasVertex(h2, Source[e]) /\ HasVertex(h2, Target[e])
        /\ h2.eid = g.eid /\ h2.arc = g.arc
    BY <2>1, <2>2, JoinedSound
  <2>4. ~HasEdge(h2, e) BY <1>4, <2>3 DEF AddEdge, HasEdge
  <2>5. EdgesLive(g) => EdgesLive(h2) BY <2>3 DEF EdgesLive, HasEdge, LiveArcs
  <2>6. Sound(g') /\ (EdgesLive(h2) => EdgesLive(g'))
    <3>1. g' \in {WithEdge(h2, e, i), [WithEdge(h2, e, i) EXCEPT !.eid[e] = NoId]}
      OBVIOUS
    <3> QED BY <3>1, <2>3, <2>4, WithEdgeSound
  <2>7. op' \in {"raised", "idle"} BY DEF Ended
  <2>8. told \subseteq Vertices BY <2>1 DEF Arriving
  <2>9. TypeOK' BY <1>4, <2>6, <2>7, <2>8 DEF AddEdge, IInv, TypeOK, Sound
  <2> QED BY <2>5, <2>6, <2>7, <2>9 DEF IInv
<1>5. ASSUME NEW e \in Edges, RemoveEdge(e)
      PROVE  IInv' /\ (RemovesEdgesFirst => op' # "undefined")
  <2>1. DropEdge(e, "idle") /\ pending' \subseteq pending BY <1>5 DEF RemoveEdge
  <2> QED BY <2>1, DropEdgeInv
<1>6. ASSUME NEW a \in Vertices, NEW b \in Vertices, BeginRemoveEdges(a, b)
      PROVE  IInv' /\ op' # "undefined"
  <2>1. \A x, y \in Vertices : \A i \in EdgesBetween(x, y) : i \in Ids /\ g.arc[i].edge \in Edges
    BY <1>0 DEF EdgesBetween, LiveArcs, Graphs, Arcs
  <2>2. pending' \subseteq {1, 2} \X Ids \X Edges BY <1>6, <2>1 DEF BeginRemoveEdges
  <2> QED BY <1>6, <2>2 DEF BeginRemoveEdges, IInv, TypeOK
<1>7. CASE RemoveNext
  <2> PICK p \in pending : DropEdge(p[3], "removeEdges") /\ pending' \subseteq pending
    BY <1>7 DEF RemoveNext
  <2>1. p[3] \in Edges BY <1>0 DEF TypeOK
  <2> QED BY <2>1, DropEdgeInv
<1>8. CASE EndRemoveEdges BY <1>8 DEF EndRemoveEdges, IInv, TypeOK
<1>9. CASE BeginClear BY <1>9 DEF BeginClear, IInv, TypeOK
<1>10. CASE ClearEdge
  <2> PICK i \in LiveArcs(g) : DropEdge(g.arc[i].edge, "clearEdges")
    BY <1>10 DEF ClearEdge
  <2>1. g.arc[i].edge \in Edges BY <1>0 DEF LiveArcs, Graphs, Arcs
  <2>2. pending' \subseteq pending BY <1>10 DEF ClearEdge
  <2> QED BY <2>1, <2>2, DropEdgeInv
<1>11. CASE ClearVertices BY <1>11 DEF ClearVertices, IInv, TypeOK
<1>12. CASE ClearVertex
  <2> PICK i \in LiveNodes(g) : DropVertex(g.node[i], "clearVertices")
    BY <1>12 DEF ClearVertex
  <2>1. g.node[i] \in Vertices /\ i \in Ids /\ g.vid[g.node[i]] = i
    BY <1>0 DEF LiveNodes, Graphs, Sound, Indexed
  <2>2. HasVertex(g, g.node[i]) BY <2>1 DEF HasVertex, NoId, Ids
  <2>3. LiveArcs(g) = {} /\ pending' = pending BY <1>12 DEF ClearVertex, IInv
  <2>4. RemovesEdgesFirst => \A e \in Edges : ~HasEdge(g, e)
    BY <2>3 DEF IInv, EdgesLive
  <2>5. IInv' BY <2>1, <2>2, <2>3, <2>4, DropVertexInv
  <2> QED BY <2>5 DEF DropVertex
<1>13. CASE EndClear BY <1>13 DEF EndClear, IInv, TypeOK
<1>14. CASE UNCHANGED vars BY <1>14 DEF vars, IInv, TypeOK
<1> QED
  BY <1>1, <1>2, <1>3, <1>4, <1>5, <1>6, <1>7, <1>8, <1>9, <1>10, <1>11,
     <1>12, <1>13, <1>14 DEF Next, Running

\* The invariant holds throughout.
LEMMA SpecIInv == Spec => [](IInv /\ (RemovesEdgesFirst => NeverUndefined))
<1>1. Init => IInv /\ (RemovesEdgesFirst => NeverUndefined)
  BY InitIInv DEF Init, NeverUndefined
<1>2. IInv /\ (RemovesEdgesFirst => NeverUndefined) /\ [Next]_vars
        => (IInv /\ (RemovesEdgesFirst => NeverUndefined))'
  BY NextIInv DEF NeverUndefined
<1> QED BY <1>1, <1>2, PTL DEF Spec

-----------------------------------------------------------------------------
\* BaseGraph's state keeps its types under every call, also when observers
\* throw and when callers remove vertices that still have edges.
THEOREM TypeCorrect == Spec => []TypeOK
<1>1. IInv => TypeOK BY DEF IInv
<1> QED BY <1>1, SpecIInv, PTL

\* addVertex and removeVertex keep ids and nodes in step in every mode.
THEOREM VerticesIndexed == Spec => []VertexIndexed
<1>1. IInv => VertexIndexed BY DEF IInv, Sound, Indexed, VertexIndexed
<1> QED BY <1>1, SpecIInv, PTL

\* Live arcs join the nodes of their edge's end points in every mode.
THEOREM ArcsStayAttached == Spec => []ArcsAttached
<1>1. IInv => ArcsAttached BY DEF IInv, Sound, Attached, ArcsAttached
<1> QED BY <1>1, SpecIInv, PTL

\* If callers remove a vertex only after its edges, a contained edge has a
\* live arc of its own, although observers throw and ids are reused.
THEOREM ContainedEdgesAreLive ==
  ASSUME RemovesEdgesFirst
  PROVE  Spec => []ContainedEdgeIsLive
<1>1. IInv => ContainedEdgeIsLive BY DEF IInv, EdgesLive, ContainedEdgeIsLive
<1> QED BY <1>1, SpecIInv, PTL

\* Under the same discipline no edge of the graph dangles.
THEOREM NoDanglingEdge ==
  ASSUME RemovesEdgesFirst
  PROVE  Spec => []EndpointsContained
<1>1. IInv => EndpointsContained
  <2> SUFFICES ASSUME IInv, NEW e \in Edges, HasEdge(g, e)
               PROVE  HasVertex(g, Source[e]) /\ HasVertex(g, Target[e])
    BY DEF EndpointsContained
  <2> DEFINE a == g.arc[g.eid[e]]
  <2>1. g.eid[e] \in LiveArcs(g) /\ a.edge = e BY DEF IInv, EdgesLive
  <2>2. a \in Arcs BY <2>1 DEF IInv, Sound, Graphs, LiveArcs
  <2>3. g.node[a.from] = Source[e] /\ g.node[a.to] = Target[e]
    BY <2>1 DEF IInv, Sound, Attached
  <2>4. Source[e] \in Vertices /\ Target[e] \in Vertices BY ElementAssumption
  <2>5. a.from \in LiveNodes(g) /\ a.to \in LiveNodes(g)
    BY <2>2, <2>3, <2>4, ElementAssumption DEF LiveNodes, Arcs
  <2>6. g.vid[Source[e]] = a.from /\ g.vid[Target[e]] = a.to
    BY <2>3, <2>5 DEF IInv, Sound, Indexed
  <2> QED BY <2>2, <2>6 DEF HasVertex, NoId, Ids, Arcs
<1> QED BY <1>1, SpecIInv, PTL

\* Under the same discipline no call erases an id that is already free.
THEOREM NoUndefinedErase ==
  ASSUME RemovesEdgesFirst
  PROVE  Spec => []NeverUndefined
BY SpecIInv, PTL

-----------------------------------------------------------------------------
(***************************************************************************)
(* Without throwing observers the events are exact: what an observer has   *)
(* seen is what is associated with the graph, every live arc is the one    *)
(* its edge is associated with, and the mirror follows.                    *)
(***************************************************************************)
VertexSet(h) == {v \in Vertices : HasVertex(h, v)}
EdgeSet(h)   == {e \in Edges : HasEdge(h, e)}
Owned(h)     == \A i \in LiveArcs(h) : h.eid[h.arc[i].edge] = i

Mirrored ==
  /\ seenVertices = VertexSet(g)
  /\ seenEdges = EdgeSet(g)
  /\ Owned(g)

\* A vertex added changes the members by itself only.
LEMMA WithVertexMembers ==
  ASSUME NEW h, Sound(h), NEW v \in Vertices, ~HasVertex(h, v),
         NEW i \in NewIds(LiveNodes(h), h.nodes)
  PROVE  VertexSet(WithVertex(h, v, i)) = VertexSet(h) \cup {v}
<1> DEFINE k == WithVertex(h, v, i)
<1>1. h \in Graphs BY DEF Sound
<1>2. k.vid = [h.vid EXCEPT ![v] = i] BY <1>1 DEF WithVertex, Graphs
<1>3. HasVertex(k, v) BY WithVertexSound
<1> HIDE DEF k
<1>4. \A w \in Vertices \ {v} : k.vid[w] = h.vid[w] BY <1>1, <1>2 DEF Graphs
<1>5. VertexSet(k) = VertexSet(h) \cup {v} BY <1>3, <1>4 DEF VertexSet, HasVertex
<1> QED BY <1>5 DEF k

\* A vertex joins a graph and no other does.
LEMMA JoinedMembers ==
  ASSUME NEW h, Sound(h), NEW v \in Vertices, NEW k \in Joined(h, v)
  PROVE  VertexSet(k) = VertexSet(h) \cup {v}
<1>1. CASE HasVertex(h, v) BY <1>1 DEF Joined, VertexSet
<1>2. CASE ~HasVertex(h, v)
  <2> PICK i \in NewIds(LiveNodes(h), h.nodes) : k = WithVertex(h, v, i)
    BY <1>2 DEF Joined
  <2> QED BY <1>2, WithVertexMembers
<1> QED BY <1>1, <1>2

\* An edge joins it ...
LEMMA WithEdgeMembers ==
  ASSUME NEW h, Sound(h), NEW e \in Edges, ~HasEdge(h, e),
         NEW i \in NewIds(LiveArcs(h), h.arcs)
  PROVE  /\ VertexSet(WithEdge(h, e, i)) = VertexSet(h)
         /\ EdgeSet(WithEdge(h, e, i)) = EdgeSet(h) \cup {e}
         /\ Owned(h) => Owned(WithEdge(h, e, i))
<1> DEFINE k == WithEdge(h, e, i)
           a == [edge |-> e, from |-> h.vid[Source[e]], to |-> h.vid[Target[e]]]
<1>1. h \in Graphs BY DEF Sound
<1>2. k.vid = h.vid /\ k.eid = [h.eid EXCEPT ![e] = i] /\ k.arc = [h.arc EXCEPT ![i] = a]
  BY <1>1 DEF WithEdge, Graphs
<1>3. i \in Ids /\ h.arc[i] = NoArc
  <2>1. h.arcs \in 0 .. MaxIds BY <1>1 DEF Graphs
  <2>2. \A j \in LiveArcs(h) : j < h.arcs BY DEF Sound, Allocated
  <2>3. LiveArcs(h) \in SUBSET Ids BY DEF LiveArcs
  <2> QED BY <2>1, <2>2, <2>3, NewIdIsFree DEF LiveArcs
<1>4. a.edge = e OBVIOUS
<1> HIDE DEF k, a
<1>5. VertexSet(k) = VertexSet(h) BY <1>2 DEF VertexSet, HasVertex
<1>6. EdgeSet(k) = EdgeSet(h) \cup {e}
  BY <1>1, <1>2, <1>3 DEF EdgeSet, HasEdge, NoId, Ids, Graphs
<1>7. ASSUME Owned(h), NEW j \in LiveArcs(k) PROVE k.eid[k.arc[j].edge] = j
  <2>1. CASE j = i BY <2>1, <1>1, <1>2, <1>3, <1>4 DEF Graphs
  <2>2. CASE j # i
    <3>1. j \in LiveArcs(h) /\ k.arc[j] = h.arc[j]
      BY <2>2, <1>1, <1>2 DEF LiveArcs, Graphs
    <3>2. h.eid[h.arc[j].edge] = j BY <3>1, <1>7 DEF Owned
    <3>3. h.arc[j].edge # e BY <3>1, <3>2 DEF HasEdge, LiveArcs, NoId, Ids
    <3>4. h.arc[j].edge \in Edges BY <1>1, <3>1 DEF LiveArcs, Graphs, Arcs
    <3> QED BY <3>1, <3>2, <3>3, <3>4, <1>1, <1>2 DEF Graphs
  <2> QED BY <2>1, <2>2
<1> QED BY <1>5, <1>6, <1>7 DEF Owned, k

\* ... leaves it ...
LEMMA WithoutEdgeMembers ==
  ASSUME NEW h, Sound(h), NEW e \in Edges, HasEdge(h, e)
  PROVE  /\ VertexSet(WithoutEdge(h, e)) = VertexSet(h)
         /\ EdgeSet(WithoutEdge(h, e)) = EdgeSet(h) \ {e}
         /\ Owned(h) => Owned(WithoutEdge(h, e))
<1> DEFINE k == WithoutEdge(h, e)
<1>1. h \in Graphs /\ h.eid[e] \in Ids BY DEF Sound, HasEdge, Graphs
<1>2. /\ k.vid = h.vid /\ k.eid = [h.eid EXCEPT ![e] = NoId]
      /\ k.arc = [h.arc EXCEPT ![h.eid[e]] = NoArc]
  BY <1>1 DEF WithoutEdge, Graphs
<1> HIDE DEF k
<1>3. VertexSet(k) = VertexSet(h) BY <1>2 DEF VertexSet, HasVertex
<1>4. EdgeSet(k) = EdgeSet(h) \ {e} BY <1>1, <1>2 DEF EdgeSet, HasEdge, Graphs
<1>5. ASSUME Owned(h), NEW j \in LiveArcs(k) PROVE k.eid[k.arc[j].edge] = j
  <2>1. j \in LiveArcs(h) /\ k.arc[j] = h.arc[j] /\ j # h.eid[e]
    BY <1>1, <1>2 DEF LiveArcs, Graphs
  <2>2. h.eid[h.arc[j].edge] = j BY <2>1, <1>5 DEF Owned
  <2>3. h.arc[j].edge # e BY <2>1, <2>2
  <2>4. h.arc[j].edge \in Edges BY <1>1, <2>1 DEF LiveArcs, Graphs, Arcs
  <2> QED BY <2>1, <2>2, <2>3, <2>4, <1>1, <1>2 DEF Graphs
<1> QED BY <1>3, <1>4, <1>5 DEF Owned, k

\* ... or a vertex does.
LEMMA WithoutVertexMembers ==
  ASSUME NEW h, Sound(h), NEW v \in Vertices, HasVertex(h, v)
  PROVE  /\ VertexSet(WithoutVertex(h, v)) = VertexSet(h) \ {v}
         /\ EdgeSet(WithoutVertex(h, v)) = EdgeSet(h)
         /\ Owned(h) => Owned(WithoutVertex(h, v))
<1> DEFINE k == WithoutVertex(h, v)
<1>1. h \in Graphs BY DEF Sound
<1>2. /\ k.vid = [h.vid EXCEPT ![v] = NoId] /\ k.eid = h.eid
      /\ \A i \in Ids : k.arc[i] \in {NoArc, h.arc[i]}
  BY <1>1 DEF WithoutVertex, Graphs
<1> HIDE DEF k
<1>3. VertexSet(k) = VertexSet(h) \ {v} BY <1>1, <1>2 DEF VertexSet, HasVertex, Graphs
<1>4. EdgeSet(k) = EdgeSet(h) BY <1>2 DEF EdgeSet, HasEdge
<1>5. Owned(h) => Owned(k) BY <1>2 DEF Owned, LiveArcs
<1> QED BY <1>3, <1>4, <1>5 DEF k

\* While observers do not throw, every step keeps them as the graph is.
LEMMA NextMirrored ==
  ASSUME ~ObserversThrow, IInv, Mirrored, [Next]_vars
  PROVE  Mirrored'
<1>0. /\ g \in Graphs /\ Sound(g)
      /\ \A o \in Outcomes : Reached(o) /\ ~Threw(o)
      /\ \A added : Arriving(added) = {added}
  BY DEF IInv, Sound, Outcomes, Reached, Threw, Arriving
<1>1. ASSUME NEW v \in Vertices, HasVertex(g, v), NEW next, DropVertex(v, next)
      PROVE  Mirrored'
  <2>1. /\ g' = WithoutVertex(g, v) /\ seenVertices' = seenVertices \ {v}
        /\ seenEdges' = seenEdges
    BY <1>0, <1>1 DEF DropVertex
  <2> QED BY <1>0, <1>1, <2>1, WithoutVertexMembers DEF Mirrored
<1>2. ASSUME NEW e \in Edges, NEW next, DropEdge(e, next)
      PROVE  Mirrored'
  <2>1. CASE UNCHANGED <<g, seenVertices, seenEdges>> BY <2>1 DEF Mirrored
  <2>2. CASE /\ HasEdge(g, e) /\ g' = WithoutEdge(g, e)
             /\ seenEdges' = seenEdges \ {e} /\ seenVertices' = seenVertices
    BY <1>0, <2>2, WithoutEdgeMembers DEF Mirrored
  <2> QED BY <1>0, <1>2, <2>1, <2>2 DEF DropEdge
<1>3. ASSUME NEW v \in Vertices, AddVertex(v) PROVE Mirrored'
  <2> PICK i \in NewIds(LiveNodes(g), g.nodes) :
        g' = WithVertex(g, v, i) /\ seenVertices' = seenVertices \cup {v}
    BY <1>0, <1>3 DEF AddVertex
  <2>1. ~HasVertex(g, v) /\ seenEdges' = seenEdges BY <1>3 DEF AddVertex
  <2>2. g'.eid = g.eid /\ g'.arc = g.arc BY <1>0, <2>1, WithVertexSound
  <2>3. VertexSet(g') = VertexSet(g) \cup {v} BY <1>0, <2>1, WithVertexMembers
  <2> QED BY <2>1, <2>2, <2>3 DEF Mirrored, EdgeSet, HasEdge, Owned, LiveArcs
<1>4. ASSUME NEW e \in Edges, AddEdge(e) PROVE Mirrored'
  <2> DEFINE added == {v \in {Source[e], Target[e]} : ~HasVertex(g, v)}
  <2> PICK h1 \in Joined(g, Source[e]) : \E h2 \in Joined(h1, Target[e]) :
        \E i \in NewIds(LiveArcs(h2), h2.arcs) :
          /\ g' = WithEdge(h2, e, i)
          /\ seenVertices' = seenVertices \cup added
          /\ seenEdges' = seenEdges \cup {e}
    BY <1>0, <1>4 DEF AddEdge
  <2> PICK h2 \in Joined(h1, Target[e]) :
        \E i \in NewIds(LiveArcs(h2), h2.arcs) :
          /\ g' = WithEdge(h2, e, i)
          /\ seenVertices' = seenVertices \cup added
          /\ seenEdges' = seenEdges \cup {e}
    OBVIOUS
  <2> PICK i \in NewIds(LiveArcs(h2), h2.arcs) :
          /\ g' = WithEdge(h2, e, i)
          /\ seenVertices' = seenVertices \cup added
          /\ seenEdges' = seenEdges \cup {e}
    OBVIOUS
  <2>1. Source[e] \in Vertices /\ Target[e] \in Vertices BY ElementAssumption
  <2>2. /\ Sound(h1) /\ h1.eid = g.eid /\ h1.arc = g.arc
        /\ VertexSet(h1) = VertexSet(g) \cup {Source[e]}
    BY <1>0, <2>1, JoinedSound, JoinedMembers
  <2>3. /\ Sound(h2) /\ h2.eid = g.eid /\ h2.arc = g.arc
        /\ VertexSet(h2) = VertexSet(g) \cup {Source[e], Target[e]}
    BY <2>1, <2>2, JoinedSound, JoinedMembers
  <2>4. ~HasEdge(h2, e) /\ EdgeSet(h2) = EdgeSet(g) /\ (Owned(g) => Owned(h2))
    BY <1>4, <2>3 DEF AddEdge, HasEdge, EdgeSet, Owned, LiveArcs
  <2>5. VertexSet(g) \cup added = VertexSet(g) \cup {Source[e], Target[e]}
    BY <2>1 DEF VertexSet
  <2> HIDE DEF added
  <2> QED BY <2>3, <2>4, <2>5, WithEdgeMembers DEF Mirrored
<1>5. ASSUME NEW v \in Vertices, RemoveVertex(v) PROVE Mirrored'
  BY <1>1, <1>5 DEF RemoveVertex
<1>6. ASSUME NEW e \in Edges, RemoveEdge(e) PROVE Mirrored'
  BY <1>2, <1>6 DEF RemoveEdge
<1>7. CASE RemoveNext
  <2> PICK p \in pending : DropEdge(p[3], "removeEdges") BY <1>7 DEF RemoveNext
  <2>1. p[3] \in Edges BY DEF IInv, TypeOK
  <2> QED BY <1>2, <2>1
<1>8. CASE ClearEdge
  <2> PICK i \in LiveArcs(g) : DropEdge(g.arc[i].edge, "clearEdges")
    BY <1>8 DEF ClearEdge
  <2>1. g.arc[i].edge \in Edges BY <1>0 DEF LiveArcs, Graphs, Arcs
  <2> QED BY <1>2, <2>1
<1>9. CASE ClearVertex
  <2> PICK i \in LiveNodes(g) : DropVertex(g.node[i], "clearVertices")
    BY <1>9 DEF ClearVertex
  <2>1. g.node[i] \in Vertices /\ i \in Ids /\ g.vid[g.node[i]] = i
    BY <1>0 DEF LiveNodes, Graphs, Sound, Indexed
  <2>2. HasVertex(g, g.node[i]) BY <2>1 DEF HasVertex, NoId, Ids
  <2> QED BY <1>1, <2>1, <2>2
<1>10. CASE UNCHANGED <<g, seenVertices, seenEdges>> BY <1>10 DEF Mirrored
<1> QED
  BY <1>3, <1>4, <1>5, <1>6, <1>7, <1>8, <1>9, <1>10
  DEF Next, Running, Rejected, BeginRemoveEdges, EndRemoveEdges, BeginClear,
      ClearVertices, EndClear, vars

\* If no observer throws and callers remove edges first, an observer that
\* applies the events it is notified of holds the graph, at every step.
THEOREM ObserversSeeTheGraph ==
  ASSUME ~ObserversThrow, RemovesEdgesFirst
  PROVE  Spec => []MirrorExact
<1>1. Init => Mirrored
  BY DEF Init, Empty, Mirrored, VertexSet, EdgeSet, Owned, HasVertex, HasEdge, LiveArcs
<1>2. IInv /\ Mirrored /\ [Next]_vars => Mirrored' BY NextMirrored
<1>3. IInv /\ Mirrored => MirrorExact
  <2> SUFFICES ASSUME IInv, Mirrored PROVE MirrorExact OBVIOUS
  <2>0. Sound(g) /\ g \in Graphs /\ EdgesLive(g) BY DEF IInv, Sound
  <2>1. VertexSet(g) = {g.node[i] : i \in LiveNodes(g)}
    <3>1. \A v \in VertexSet(g) : g.vid[v] \in LiveNodes(g) /\ g.node[g.vid[v]] = v
      BY <2>0, ElementAssumption
      DEF VertexSet, HasVertex, Sound, Indexed, LiveNodes, Graphs
    <3>2. ASSUME NEW i \in LiveNodes(g) PROVE g.node[i] \in VertexSet(g)
      <4>1. i \in Ids /\ g.node[i] \in Vertices BY <2>0 DEF LiveNodes, Graphs
      <4>2. g.vid[g.node[i]] = i BY <2>0 DEF Sound, Indexed
      <4> QED BY <4>1, <4>2 DEF VertexSet, HasVertex, NoId, Ids
    <3> QED BY <3>1, <3>2
  <2>2. EdgeSet(g) = {g.arc[i].edge : i \in LiveArcs(g)}
    <3>1. \A e \in EdgeSet(g) : g.eid[e] \in LiveArcs(g) /\ g.arc[g.eid[e]].edge = e
      BY <2>0 DEF EdgeSet, EdgesLive
    <3>2. ASSUME NEW i \in LiveArcs(g) PROVE g.arc[i].edge \in EdgeSet(g)
      <4>1. i \in Ids /\ g.arc[i].edge \in Edges BY <2>0 DEF LiveArcs, Graphs, Arcs
      <4>2. g.eid[g.arc[i].edge] = i BY DEF Mirrored, Owned
      <4> QED BY <4>1, <4>2 DEF EdgeSet, HasEdge, NoId, Ids
    <3> QED BY <3>1, <3>2
  <2> QED BY <2>1, <2>2 DEF Mirrored, MirrorExact
<1> QED BY <1>1, <1>2, <1>3, SpecIInv, PTL DEF Spec

-----------------------------------------------------------------------------
(***************************************************************************)
(* Two calls over many elements.  clear() passes through both of its loops *)
(* before it returns; removeEdges works on what it collected first, so the *)
(* collected arcs have to be there, once each, when their turn comes.      *)
(***************************************************************************)
ReturnsEmpty ==
  op = "clearVertices" /\ op' = "idle" =>
    /\ \A v \in Vertices : ~HasVertex(g', v)
    /\ \A e \in Edges : ~HasEdge(g', e)

\* A clear() that returns leaves no element associated with the graph, if
\* callers remove the edges of a vertex first: also when observers threw in
\* earlier calls and left arcs behind.
THEOREM ClearForgetsEverything ==
  ASSUME RemovesEdgesFirst
  PROVE  Spec => ClearLeavesNothing
<1>1. IInv /\ [Next]_vars => [ReturnsEmpty]_vars
  <2> SUFFICES ASSUME IInv, [Next]_vars, op = "clearVertices", op' = "idle"
               PROVE  /\ \A v \in Vertices : ~HasVertex(g', v)
                      /\ \A e \in Edges : ~HasEdge(g', e)
    BY DEF ReturnsEmpty
  <2>1. EndClear
    BY DEF Next, Running, vars, Rejected, AddVertex, RemoveVertex, AddEdge,
           RemoveEdge, BeginRemoveEdges, RemoveNext, EndRemoveEdges, BeginClear,
           ClearEdge, ClearVertices, ClearVertex, DropVertex, Calling
  <2>2. g' = g /\ LiveNodes(g) = {} /\ LiveArcs(g) = {} /\ g \in Graphs
    BY <2>1 DEF EndClear, IInv, Sound
  <2>3. ASSUME NEW v \in Vertices, HasVertex(g, v) PROVE FALSE
    <3>1. g.vid[v] \in Ids /\ g.node[g.vid[v]] = v
      BY <2>2, <2>3 DEF IInv, Sound, Indexed, HasVertex, Graphs
    <3> QED BY <3>1, <2>2, ElementAssumption DEF LiveNodes
  <2>4. \A e \in Edges : ~HasEdge(g, e) BY <2>2 DEF IInv, EdgesLive
  <2> QED BY <2>2, <2>3, <2>4
<1>2. Spec => [][ReturnsEmpty]_vars BY <1>1, SpecIInv, PTL DEF Spec
<1> QED BY <1>2 DEF ClearLeavesNothing, ReturnsEmpty

\* What removeEdges still has to remove: arcs that are there, each edge once;
\* or, between a vertex and itself, loops found once as out-arcs and once as
\* in-arcs, of which the first removal takes the edge.
Distinct ==
  /\ \A p \in pending : p[2] \in LiveArcs(g) /\ g.arc[p[2]].edge = p[3]
  /\ \A p, q \in pending : p[3] = q[3] => p = q
Loops ==
  /\ \A p \in pending :
       /\ Source[p[3]] = Target[p[3]]
       /\ p[1] = 1 \/ p[1] = 2
       /\ p[1] = 1 => p[2] \in LiveArcs(g) /\ g.arc[p[2]].edge = p[3]
       /\ HasEdge(g, p[3]) => \E q \in pending : q[1] = 1 /\ q[3] = p[3]
  /\ \A p, q \in pending : p[1] = q[1] /\ p[3] = q[3] => p = q
Collected == op = "removeEdges" => Distinct \/ Loops

\* The arcs between a and b belong to edges from a to b.
LEMMA EdgesBetweenEnds ==
  ASSUME IInv, NEW a \in Vertices, NEW b \in Vertices, HasVertex(g, b),
         NEW i \in EdgesBetween(a, b)
  PROVE  /\ i \in LiveArcs(g)
         /\ Source[g.arc[i].edge] = a /\ Target[g.arc[i].edge] = b
<1>1. i \in LiveArcs(g) /\ g.arc[i].to = g.vid[b] /\ Source[g.arc[i].edge] = a
  BY DEF EdgesBetween
<1>2. g.node[g.vid[b]] = b BY DEF IInv, Sound, Indexed
<1>3. g.node[g.arc[i].to] = Target[g.arc[i].edge]
  BY <1>1 DEF IInv, Sound, Attached
<1> QED BY <1>1, <1>2, <1>3

\* What removeEdges leaves behind when it throws.
LeavesNone ==
  op = "removeEdges" /\ op' = "raised" =>
    \A p \in pending : Source[p[3]] = Target[p[3]] /\ ~HasEdge(g, p[3])

\* The loop of removeEdges takes its next edge: it is in the graph, or all that
\* is left are loops that are gone.
LEMMA RemoveNextCollects ==
  ASSUME ~ObserversThrow, IInv, Mirrored, Collected, RemoveNext
  PROVE  Collected' /\ LeavesNone
<1> PICK p \in pending :
      /\ \A q \in pending : p[1] <= q[1]
      /\ DropEdge(p[3], "removeEdges")
      /\ pending' = IF op' = "removeEdges" THEN pending \ {p} ELSE {}
  BY DEF RemoveNext
<1>0. /\ op = "removeEdges" /\ g \in Graphs /\ Sound(g)
      /\ \A q \in pending : q[2] \in Ids /\ q[3] \in Edges
  BY DEF RemoveNext, IInv, TypeOK, Sound
<1>1. ASSUME Distinct PROVE Distinct' /\ op' = "removeEdges"
  <2>1. \A q \in pending : q[2] \in LiveArcs(g) /\ g.arc[q[2]].edge = q[3] /\ g.eid[q[3]] = q[2]
    BY <1>0, <1>1 DEF Distinct, Mirrored, Owned
  <2>2. HasEdge(g, p[3]) /\ g.eid[p[3]] \in LiveArcs(g)
    BY <1>0, <2>1 DEF HasEdge, NoId, Ids
  <2>3. g' = WithoutEdge(g, p[3]) /\ op' = "removeEdges"
    BY <2>2 DEF DropEdge, Outcomes, Reached, Threw
  <2>4. g'.arc = [g.arc EXCEPT ![p[2]] = NoArc]
    BY <1>0, <2>1, <2>3 DEF WithoutEdge, Graphs
  <2>5. ASSUME NEW q \in pending' PROVE q[2] \in LiveArcs(g') /\ g'.arc[q[2]].edge = q[3]
    <3>1. q \in pending /\ q # p BY <2>3, <2>5
    <3>2. q[3] # p[3] BY <1>1, <3>1 DEF Distinct
    <3>3. q[2] # p[2] BY <2>1, <3>1, <3>2
    <3> QED BY <3>1, <3>3, <1>0, <2>1, <2>4 DEF LiveArcs, Graphs
  <2>6. \A q, r \in pending' : q[3] = r[3] => q = r BY <1>1, <2>3 DEF Distinct
  <2> QED BY <2>3, <2>5, <2>6 DEF Distinct
<1>2. ASSUME Loops, p[1] = 1 PROVE Loops' /\ op' = "removeEdges"
  <2>1. \A q \in pending : q[1] = 1 =>
          /\ q[2] \in LiveArcs(g) /\ g.arc[q[2]].edge = q[3] /\ g.eid[q[3]] = q[2]
          /\ HasEdge(g, q[3])
    BY <1>0, <1>2 DEF Loops, Mirrored, Owned, HasEdge, NoId, Ids
  <2>2. g' = WithoutEdge(g, p[3]) /\ op' = "removeEdges"
    BY <1>2, <2>1 DEF DropEdge, Outcomes, Reached, Threw
  <2>3. /\ g'.eid = [g.eid EXCEPT ![p[3]] = NoId]
        /\ g'.arc = [g.arc EXCEPT ![p[2]] = NoArc]
    BY <1>0, <1>2, <2>1, <2>2 DEF WithoutEdge, Graphs
  <2>4. pending' = pending \ {p} BY <2>2
  <2>5. \A e \in Edges : HasEdge(g', e) => e # p[3] /\ HasEdge(g, e)
    BY <1>0, <2>3 DEF HasEdge, Graphs
  <2>6. ASSUME NEW q \in pending', q[1] = 1
        PROVE  q[2] \in LiveArcs(g') /\ g'.arc[q[2]].edge = q[3]
    <3>1. q \in pending /\ q # p BY <2>4
    <3>2. q[3] # p[3] BY <1>2, <2>6, <3>1 DEF Loops
    <3>3. q[2] # p[2] BY <1>2, <2>1, <2>6, <3>1, <3>2
    <3> QED BY <1>0, <2>1, <2>3, <2>6, <3>1, <3>3 DEF LiveArcs, Graphs
  <2>7. ASSUME NEW q \in pending', HasEdge(g', q[3])
        PROVE  \E r \in pending' : r[1] = 1 /\ r[3] = q[3]
    <3>1. q \in pending /\ q[3] # p[3] /\ HasEdge(g, q[3])
      BY <1>0, <2>4, <2>5, <2>7
    <3>2. PICK r \in pending : r[1] = 1 /\ r[3] = q[3] BY <1>2, <3>1 DEF Loops
    <3> QED BY <2>4, <3>1, <3>2
  <2>8. \A q \in pending' : Source[q[3]] = Target[q[3]] /\ (q[1] = 1 \/ q[1] = 2)
    BY <1>2, <2>4 DEF Loops
  <2>10. \A q, r \in pending' : q[1] = r[1] /\ q[3] = r[3] => q = r
    BY <1>2, <2>4 DEF Loops
  <2>11. LiveArcs(g)' = LiveArcs(g') BY DEF LiveArcs
  <2> QED BY <2>2, <2>6, <2>7, <2>8, <2>10, <2>11 DEF Loops, HasEdge
<1>3. ASSUME Loops, p[1] # 1
      PROVE  \A q \in pending : Source[q[3]] = Target[q[3]] /\ ~HasEdge(g, q[3])
  <2>1. p[1] = 2 BY <1>3 DEF Loops
  <2>2. \A q \in pending : q[1] # 1 BY <2>1
  <2> QED BY <1>3, <2>2 DEF Loops
<1>4. ASSUME Loops, p[1] # 1 PROVE op' = "raised"
  <2>1. ~HasEdge(g, p[3]) BY <1>3, <1>4
  <2> QED BY <2>1 DEF DropEdge
<1> QED BY <1>0, <1>1, <1>2, <1>3, <1>4 DEF Collected, LeavesNone

\* What removeEdges has yet to remove stays in the graph, loops apart.
LEMMA NextCollected ==
  ASSUME ~ObserversThrow, IInv, Mirrored, Collected, [Next]_vars
  PROVE  Collected' /\ LeavesNone
<1>1. ASSUME NEW a \in Vertices, NEW b \in Vertices, BeginRemoveEdges(a, b)
      PROVE  Collected' /\ op # "removeEdges"
  <2> DEFINE ToB == {<<1, i, g.arc[i].edge>> : i \in EdgesBetween(a, b)}
             ToA == {<<2, i, g.arc[i].edge>> : i \in EdgesBetween(b, a)}
  <2>1. /\ HasVertex(g, a) /\ HasVertex(g, b) /\ op # "removeEdges"
        /\ pending' = ToB \cup ToA /\ g' = g
    BY <1>1 DEF BeginRemoveEdges, Calling
  <2>2. \A p \in ToB : /\ p = <<1, p[2], p[3]>> /\ p[2] \in LiveArcs(g)
                       /\ p[3] = g.arc[p[2]].edge
                       /\ Source[p[3]] = a /\ Target[p[3]] = b
    BY <2>1, EdgesBetweenEnds
  <2>3. \A p \in ToA : /\ p = <<2, p[2], p[3]>> /\ p[2] \in LiveArcs(g)
                       /\ p[3] = g.arc[p[2]].edge
                       /\ Source[p[3]] = b /\ Target[p[3]] = a
    BY <2>1, EdgesBetweenEnds
  <2>4. \A p \in ToB \cup ToA :
          p[2] = g.eid[p[3]] /\ p[3] \in Edges /\ HasEdge(g, p[3])
    <3>1. \A i \in LiveArcs(g) :
            LET e == g.arc[i].edge IN i = g.eid[e] /\ e \in Edges /\ HasEdge(g, e)
      <4> SUFFICES ASSUME NEW i \in LiveArcs(g)
                   PROVE  LET e == g.arc[i].edge
                          IN  i = g.eid[e] /\ e \in Edges /\ HasEdge(g, e)
        OBVIOUS
      <4>1. i \in Ids /\ g.arc[i] \in Arcs
        BY DEF LiveArcs, IInv, Sound, Graphs
      <4>2. g.eid[g.arc[i].edge] = i BY DEF Mirrored, Owned
      <4>3. g.arc[i].edge \in Edges BY <4>1 DEF Arcs
      <4> QED BY <4>1, <4>2, <4>3 DEF HasEdge, NoId, Ids
    <3> HIDE DEF ToB, ToA
    <3> QED BY <2>2, <2>3, <3>1
  <2>5. a = b => \A q \in ToA : \E p \in ToB : p[1] = 1 /\ p[3] = q[3]
    <3> SUFFICES ASSUME a = b, NEW i \in EdgesBetween(b, a)
                 PROVE  \E p \in ToB : p[1] = 1 /\ p[3] = g.arc[i].edge
      OBVIOUS
    <3>1. <<1, i, g.arc[i].edge>> \in ToB OBVIOUS
    <3> QED BY <3>1
  <2> HIDE DEF ToB, ToA
  <2>6. \A p, q \in ToB : p[3] = q[3] => p = q BY <2>2, <2>4
  <2>7. \A p, q \in ToA : p[3] = q[3] => p = q BY <2>3, <2>4
  <2>8. CASE a # b
    <3>1. \A p \in ToB, q \in ToA : p[3] # q[3] BY <2>2, <2>3, <2>4, <2>8
    <3>2. \A p \in pending' : p[2] \in LiveArcs(g') /\ g'.arc[p[2]].edge = p[3]
      BY <2>1, <2>2, <2>3
    <3>3. \A p, q \in pending' : p[3] = q[3] => p = q BY <2>1, <3>1, <2>6, <2>7
    <3>4. Distinct' BY <3>2, <3>3 DEF Distinct
    <3> QED BY <2>1, <3>4 DEF Collected
  <2>9. CASE a = b
    <3>1. /\ \A p \in ToB : p[1] = 1 /\ Source[p[3]] = Target[p[3]]
          /\ \A p \in ToA : p[1] = 2 /\ Source[p[3]] = Target[p[3]]
      BY <2>2, <2>3, <2>9
    <3>2. \A p, q \in pending' : p[1] = q[1] /\ p[3] = q[3] => p = q
      BY <2>1, <2>6, <2>7, <3>1
    <3>3. ASSUME NEW p \in pending'
          PROVE  /\ Source[p[3]] = Target[p[3]]
                 /\ p[1] = 1 \/ p[1] = 2
                 /\ p[1] = 1 => p[2] \in LiveArcs(g') /\ g'.arc[p[2]].edge = p[3]
                 /\ \E q \in pending' : q[1] = 1 /\ q[3] = p[3]
      BY <2>1, <2>2, <2>5, <2>9, <3>1, <3>3
    <3>4. Loops' BY <3>2, <3>3 DEF Loops
    <3> QED BY <2>1, <3>4 DEF Collected
  <2> QED BY <2>8, <2>9
<1>2. CASE RemoveNext BY <1>2, RemoveNextCollects
<1>3. CASE EndRemoveEdges BY <1>3 DEF EndRemoveEdges, Collected, LeavesNone
<1>4. CASE UNCHANGED vars
  BY <1>4 DEF vars, Collected, Distinct, Loops, LeavesNone, LiveArcs, HasEdge
<1>5. ASSUME \/ Rejected \/ BeginClear \/ ClearEdge \/ ClearVertices
             \/ ClearVertex \/ EndClear
             \/ \E v \in Vertices : AddVertex(v) \/ RemoveVertex(v)
             \/ \E e \in Edges : AddEdge(e) \/ RemoveEdge(e)
      PROVE  op # "removeEdges" /\ op' # "removeEdges"
  <2>1. CASE Rejected \/ BeginClear \/ ClearVertices \/ EndClear
    BY <2>1 DEF Rejected, BeginClear, ClearVertices, EndClear, Calling, Ended
  <2>2. CASE ClearEdge \/ ClearVertex
    BY <2>2 DEF ClearEdge, ClearVertex, DropVertex, DropEdge, Calling, Ended
  <2>3. CASE \E v \in Vertices : AddVertex(v) \/ RemoveVertex(v)
    BY <2>3 DEF AddVertex, RemoveVertex, DropVertex, Calling, Ended
  <2>4. CASE \E e \in Edges : AddEdge(e) \/ RemoveEdge(e)
    <3>1. ASSUME NEW e \in Edges, AddEdge(e) PROVE op # "removeEdges" /\ op' # "removeEdges"
      BY <3>1 DEF AddEdge, Calling, Ended
    <3>2. ASSUME NEW e \in Edges, RemoveEdge(e) PROVE op # "removeEdges" /\ op' # "removeEdges"
      BY <3>2 DEF RemoveEdge, DropEdge, Calling, Ended
    <3> QED BY <2>4, <3>1, <3>2
  <2> QED BY <1>5, <2>1, <2>2, <2>3, <2>4
<1> QED BY <1>1, <1>2, <1>3, <1>4, <1>5 DEF Next, Running, Collected, LeavesNone

\* If no observer throws, removeEdges throws only between a vertex and itself,
\* at a loop that it has found twice, and once it has removed all of them.
THEOREM RemoveEdgesClearsWhatItFound ==
  ASSUME ~ObserversThrow
  PROVE  Spec => RemoveEdgesLeavesNone
<1> DEFINE Inv == IInv /\ Mirrored /\ Collected
<1>1. Init => Inv
  BY InitIInv DEF Init, Empty, Mirrored, VertexSet, EdgeSet, Owned, HasVertex,
                  HasEdge, LiveArcs, Collected
<1>2. Inv /\ [Next]_vars => Inv' BY NextIInv, NextMirrored, NextCollected
<1>3. Inv /\ [Next]_vars => [LeavesNone]_vars BY NextCollected
<1>4. Spec => [][LeavesNone]_vars
  <2> HIDE DEF Inv
  <2> QED BY <1>1, <1>2, <1>3, PTL DEF Spec
<1> QED BY <1>4 DEF RemoveEdgesLeavesNone, LeavesNone

-----------------------------------------------------------------------------
(***************************************************************************)
(* A view kept in lemon's maps, over a graph whose callers remove a vertex *)
(* only after its edges.                                                   *)
(***************************************************************************)
\* From h to k, elements keep their ids, and new ones get ids h does not use.
VerticesStay(h, k) ==
  \A v \in Vertices :
    HasVertex(k, v) => IF HasVertex(h, v) THEN k.vid[v] = h.vid[v]
                                          ELSE k.vid[v] \notin LiveNodes(h)
EdgesStay(h, k) ==
  \A e \in Edges :
    HasEdge(k, e) => IF HasEdge(h, e) THEN k.eid[e] = h.eid[e]
                                      ELSE k.eid[e] \notin LiveArcs(h)

\* No id that is not in use is a member: the entries of erased elements were
\* reset, and those of new ids are false.
Fresh ==
  /\ mDisabledVertices \subseteq Ids /\ mDisabledEdges \subseteq Ids
  /\ Ids \ LiveNodes(g) \subseteq mDisabledVertices
  /\ Ids \ LiveArcs(g) \subseteq mDisabledEdges

-----------------------------------------------------------------------------
\* A vertex that joins leaves the others where they are ...
LEMMA AddVertexStays ==
  ASSUME NEW h, Sound(h), NEW v \in Vertices, ~HasVertex(h, v),
         NEW i \in NewIds(LiveNodes(h), h.nodes)
  PROVE  /\ VerticesStay(h, WithVertex(h, v, i))
         /\ LiveNodes(h) \subseteq LiveNodes(WithVertex(h, v, i))
<1> DEFINE k == WithVertex(h, v, i)
<1>1. h \in Graphs BY DEF Sound
<1>2. i \in Ids /\ i \notin LiveNodes(h)
  <2>1. LiveNodes(h) \in SUBSET Ids /\ h.nodes \in 0 .. MaxIds
    BY <1>1 DEF LiveNodes, Graphs
  <2>2. \A j \in LiveNodes(h) : j < h.nodes BY DEF Sound, Allocated
  <2> QED BY <2>1, <2>2, NewIdIsFree
<1>3. k.vid = [h.vid EXCEPT ![v] = i] /\ k.node = [h.node EXCEPT ![i] = v]
  BY <1>1 DEF WithVertex, Graphs
<1>4. VerticesStay(h, k)
  BY <1>1, <1>2, <1>3 DEF VerticesStay, HasVertex, Graphs
<1>5. LiveNodes(h) \subseteq LiveNodes(k)
  BY <1>1, <1>2, <1>3, ElementAssumption DEF LiveNodes, Graphs
<1> QED BY <1>4, <1>5

\* ... and so does one that comes with an edge.
LEMMA JoinedStays ==
  ASSUME NEW h, Sound(h), NEW v \in Vertices, NEW k \in Joined(h, v)
  PROVE  VerticesStay(h, k) /\ LiveNodes(h) \subseteq LiveNodes(k)
<1>1. CASE HasVertex(h, v)
  BY <1>1 DEF Joined, VerticesStay
<1>2. CASE ~HasVertex(h, v)
  BY <1>2, AddVertexStays DEF Joined
<1> QED BY <1>1, <1>2

\* Whatever the graph does, elements that stay keep their ids.
LEMMA NextStays ==
  ASSUME IInv, Next
  PROVE  VerticesStay(g, g') /\ EdgesStay(g, g')
<1>0. Sound(g) /\ g \in Graphs BY DEF IInv, Sound
<1>1. ASSUME g' = g PROVE VerticesStay(g, g') /\ EdgesStay(g, g')
  BY <1>1 DEF VerticesStay, EdgesStay
<1>2. ASSUME NEW v \in Vertices, AddVertex(v)
      PROVE  VerticesStay(g, g') /\ EdgesStay(g, g')
  <2>1. PICK i \in NewIds(LiveNodes(g), g.nodes) : g' = WithVertex(g, v, i)
    BY <1>2 DEF AddVertex
  <2>2. g'.eid = g.eid BY <2>1, <1>0 DEF WithVertex, Graphs
  <2> QED BY <1>0, <1>2, <2>1, <2>2, AddVertexStays DEF AddVertex, EdgesStay, HasEdge
<1>3. ASSUME NEW e \in Edges, AddEdge(e)
      PROVE  VerticesStay(g, g') /\ EdgesStay(g, g')
  <2>1. PICK h1 \in Joined(g, Source[e]) : \E h2 \in Joined(h1, Target[e]) :
          \E i \in NewIds(LiveArcs(h2), h2.arcs) :
            g' = WithEdge(h2, e, i) \/ g' = [WithEdge(h2, e, i) EXCEPT !.eid[e] = NoId]
    BY <1>3 DEF AddEdge
  <2>a. PICK h2 \in Joined(h1, Target[e]) : \E i \in NewIds(LiveArcs(h2), h2.arcs) :
          g' = WithEdge(h2, e, i) \/ g' = [WithEdge(h2, e, i) EXCEPT !.eid[e] = NoId]
    BY <2>1
  <2>2. PICK i \in NewIds(LiveArcs(h2), h2.arcs) :
          g' = WithEdge(h2, e, i) \/ g' = [WithEdge(h2, e, i) EXCEPT !.eid[e] = NoId]
    BY <2>a
  <2>3. Source[e] \in Vertices /\ Target[e] \in Vertices BY ElementAssumption
  <2>4. /\ Sound(h1) /\ VerticesStay(g, h1) /\ LiveNodes(g) \subseteq LiveNodes(h1)
        /\ \A w \in Vertices : HasVertex(g, w) => HasVertex(h1, w)
        /\ h1.eid = g.eid /\ h1.arc = g.arc
    BY <1>0, <2>1, <2>3, JoinedSound, JoinedStays
  <2>5. /\ Sound(h2) /\ VerticesStay(h1, h2)
        /\ h2.eid = h1.eid /\ h2.arc = h1.arc
        /\ \A w \in Vertices : HasVertex(h1, w) => HasVertex(h2, w)
    BY <2>a, <2>3, <2>4, JoinedSound, JoinedStays
  <2>6. VerticesStay(g, h2) BY <2>4, <2>5 DEF VerticesStay
  <2>7. h2 \in Graphs BY <2>5 DEF Sound
  <2>8. i \notin LiveArcs(h2)
    <3>1. LiveArcs(h2) \in SUBSET Ids /\ h2.arcs \in 0 .. MaxIds
      BY <2>7 DEF LiveArcs, Graphs
    <3>2. \A j \in LiveArcs(h2) : j < h2.arcs BY <2>5 DEF Sound, Allocated
    <3> QED BY <2>2, <3>1, <3>2, NewIdIsFree
  <2>9. LiveArcs(h2) = LiveArcs(g) BY <2>4, <2>5 DEF LiveArcs
  <2>10. /\ g'.vid = h2.vid
         /\ g'.eid = [g.eid EXCEPT ![e] = i] \/ g'.eid = [g.eid EXCEPT ![e] = NoId]
    <3> DEFINE k == WithEdge(h2, e, i)
    <3>1. k.vid = h2.vid /\ k.eid = [h2.eid EXCEPT ![e] = i]
      BY <2>7 DEF WithEdge, Graphs
    <3>2. CASE g' = k BY <2>4, <2>5, <3>1, <3>2
    <3>3. CASE g' = [k EXCEPT !.eid[e] = NoId]
      <4>1. g'.vid = k.vid /\ g'.eid = [k.eid EXCEPT ![e] = NoId]
        BY <2>7, <3>3 DEF WithEdge, Graphs
      <4>2. [[h2.eid EXCEPT ![e] = i] EXCEPT ![e] = NoId] = [h2.eid EXCEPT ![e] = NoId]
        BY <2>7 DEF Graphs
      <4> QED BY <2>4, <2>5, <3>1, <4>1, <4>2
    <3> QED BY <2>2, <3>2, <3>3
  <2>11. VerticesStay(g, g') BY <2>6, <2>10 DEF VerticesStay, HasVertex
  <2>12. ~HasEdge(g, e) BY <1>3 DEF AddEdge
  <2>13. EdgesStay(g, g')
    BY <1>0, <2>8, <2>9, <2>10, <2>12 DEF EdgesStay, HasEdge, Graphs
  <2> QED BY <2>11, <2>13
<1>4. ASSUME NEW v \in Vertices, NEW next, DropVertex(v, next)
      PROVE  VerticesStay(g, g') /\ EdgesStay(g, g')
  <2>1. g'.vid = [g.vid EXCEPT ![v] = NoId] /\ g'.eid = g.eid
    BY <1>0, <1>4 DEF DropVertex, WithoutVertex, Graphs
  <2> QED BY <1>0, <2>1 DEF VerticesStay, EdgesStay, HasVertex, HasEdge, Graphs
<1>5. ASSUME NEW e \in Edges, NEW next, DropEdge(e, next)
      PROVE  VerticesStay(g, g') /\ EdgesStay(g, g')
  <2>1. CASE g' = g BY <1>1, <2>1
  <2>2. CASE g' = WithoutEdge(g, e)
    <3>1. g'.eid = [g.eid EXCEPT ![e] = NoId] /\ g'.vid = g.vid
      BY <1>0, <2>2 DEF WithoutEdge, Graphs
    <3> QED BY <1>0, <3>1 DEF VerticesStay, EdgesStay, HasVertex, HasEdge, Graphs
  <2> QED BY <1>5, <2>1, <2>2 DEF DropEdge
<1>6. ASSUME NEW v \in Vertices, RemoveVertex(v)
      PROVE  VerticesStay(g, g') /\ EdgesStay(g, g')
  BY <1>4, <1>6 DEF RemoveVertex
<1>7. ASSUME NEW e \in Edges, RemoveEdge(e)
      PROVE  VerticesStay(g, g') /\ EdgesStay(g, g')
  BY <1>5, <1>7 DEF RemoveEdge
<1>8. CASE RemoveNext
  <2>1. PICK p \in pending : DropEdge(p[3], "removeEdges") BY <1>8 DEF RemoveNext
  <2>2. p[3] \in Edges BY DEF IInv, TypeOK
  <2> QED BY <1>5, <2>1, <2>2
<1>9. CASE ClearEdge
  <2>1. PICK i \in LiveArcs(g) : DropEdge(g.arc[i].edge, "clearEdges")
    BY <1>9 DEF ClearEdge
  <2>2. g.arc[i].edge \in Edges BY <1>0 DEF LiveArcs, Graphs, Arcs
  <2> QED BY <1>5, <2>1, <2>2
<1>10. CASE ClearVertex
  <2>1. PICK i \in LiveNodes(g) : DropVertex(g.node[i], "clearVertices")
    BY <1>10 DEF ClearVertex
  <2>2. g.node[i] \in Vertices BY <1>0 DEF LiveNodes, Graphs
  <2> QED BY <1>4, <2>1, <2>2
<1>11. CASE \/ Rejected \/ EndRemoveEdges \/ BeginClear \/ ClearVertices \/ EndClear
            \/ \E a, b \in Vertices : BeginRemoveEdges(a, b)
  BY <1>1, <1>11 DEF Rejected, EndRemoveEdges, BeginClear, ClearVertices, EndClear, BeginRemoveEdges
<1> QED BY <1>2, <1>3, <1>6, <1>7, <1>8, <1>9, <1>10, <1>11 DEF Next, Running

-----------------------------------------------------------------------------
\* The graph under the view is the graph of BaseGraph.
LEMMA SubNextIsNext == [SubNext]_<<vars, members>> => [Next]_vars
BY DEF SubNext, GraphStep, GetSubGraph, EnableVertex, DisableVertex, EnableEdge,
       DisableEdge, ApplyFilters, vars, members

\* At first nothing is live and every identifier is disabled.
LEMMA InitFresh ==
  ASSUME MemberMaps, SubInit
  PROVE  Fresh
BY DEF SubInit, Init, Blank, Fresh

\* In a graph whose edges are removed first, ids are live and unique, and no
\* edge dangles.
LEMMA LiveIds ==
  ASSUME NEW h, Sound(h), EdgesLive(h)
  PROVE  /\ \A v \in Vertices : HasVertex(h, v) => h.vid[v] \in LiveNodes(h)
         /\ \A e \in Edges : HasEdge(h, e) => h.eid[e] \in LiveArcs(h)
         /\ \A v, w \in Vertices :
              HasVertex(h, v) /\ h.vid[v] = h.vid[w] => v = w
         /\ \A d, e \in Edges : HasEdge(h, d) /\ h.eid[d] = h.eid[e] => d = e
         /\ \A e \in Edges : HasEdge(h, e) =>
              HasVertex(h, Source[e]) /\ HasVertex(h, Target[e])
<1>0. h \in Graphs /\ Indexed(h) /\ Attached(h) BY DEF Sound
<1>1. \A v \in Vertices : HasVertex(h, v) => h.vid[v] \in LiveNodes(h)
  BY <1>0, ElementAssumption DEF Indexed, HasVertex, LiveNodes, Graphs
<1>2. \A e \in Edges : HasEdge(h, e) => h.eid[e] \in LiveArcs(h)
  BY DEF EdgesLive
<1>3. \A v, w \in Vertices : HasVertex(h, v) /\ h.vid[v] = h.vid[w] => v = w
  BY <1>0 DEF Indexed, HasVertex
<1>4. \A d, e \in Edges : HasEdge(h, d) /\ h.eid[d] = h.eid[e] => d = e
  BY DEF EdgesLive, HasEdge
<1>5. ASSUME NEW e \in Edges, HasEdge(h, e)
      PROVE  HasVertex(h, Source[e]) /\ HasVertex(h, Target[e])
  <2> DEFINE a == h.arc[h.eid[e]]
  <2>1. h.eid[e] \in LiveArcs(h) /\ a.edge = e BY <1>5 DEF EdgesLive
  <2>2. a.from \in Ids /\ a.to \in Ids BY <1>0, <2>1 DEF LiveArcs, Graphs, Arcs
  <2>3. h.node[a.from] = Source[e] /\ h.node[a.to] = Target[e]
    BY <1>0, <2>1 DEF Attached
  <2>4. a.from \in LiveNodes(h) /\ a.to \in LiveNodes(h)
    BY <2>2, <2>3, ElementAssumption DEF LiveNodes
  <2>5. h.vid[Source[e]] = a.from /\ h.vid[Target[e]] = a.to
    BY <1>0, <2>3, <2>4 DEF Indexed
  <2> QED BY <2>2, <2>5 DEF HasVertex, NoId, Ids
<1> QED BY <1>1, <1>2, <1>3, <1>4, <1>5

\* A step of the graph leaves every element that stays as it was, and every
\* new one disabled; no id it frees is left enabled.
LEMMA StepKeeps ==
  ASSUME IInv, IInv', RemovesEdgesFirst, MemberMaps, Fresh, GraphStep
  PROVE  /\ \A v \in Vertices : HasVertex(g', v) =>
              (v \in EnabledVertices' <=> HasVertex(g, v) /\ v \in EnabledVertices)
         /\ \A e \in Edges : HasEdge(g', e) =>
              (e \in EnabledEdges' <=> HasEdge(g, e) /\ e \in EnabledEdges)
         /\ Fresh'
<1>1. VerticesStay(g, g') /\ EdgesStay(g, g') BY NextStays DEF GraphStep
<1>2. /\ mDisabledVertices' = mDisabledVertices \cup (LiveNodes(g) \ LiveNodes(g'))
      /\ mDisabledEdges' = mDisabledEdges \cup (LiveArcs(g) \ LiveArcs(g'))
  BY DEF GraphStep, Followed
<1>3. Sound(g') /\ EdgesLive(g') BY DEF IInv
<1>4. /\ \A v \in Vertices : HasVertex(g', v) => g'.vid[v] \in LiveNodes(g')
      /\ \A e \in Edges : HasEdge(g', e) => g'.eid[e] \in LiveArcs(g')
  BY <1>3, LiveIds
<1>5. LiveNodes(g') \subseteq Ids /\ LiveArcs(g') \subseteq Ids
      /\ LiveNodes(g) \subseteq Ids /\ LiveArcs(g) \subseteq Ids
  BY DEF LiveNodes, LiveArcs
<1>6. \A v \in Vertices : HasVertex(g', v) =>
        (v \in EnabledVertices' <=> HasVertex(g, v) /\ v \in EnabledVertices)
  <2>1. EnabledVertices' = {v \in Vertices : HasVertex(g', v) /\ g'.vid[v] \notin mDisabledVertices'}
    BY DEF EnabledVertices, HasVertex
  <2> QED BY <1>1, <1>2, <1>4, <1>5, <2>1 DEF VerticesStay, Fresh, EnabledVertices
<1>7. \A e \in Edges : HasEdge(g', e) =>
        (e \in EnabledEdges' <=> HasEdge(g, e) /\ e \in EnabledEdges)
  <2>1. EnabledEdges' = {e \in Edges : HasEdge(g', e) /\ g'.eid[e] \notin mDisabledEdges'}
    BY DEF EnabledEdges, HasEdge
  <2> QED BY <1>1, <1>2, <1>4, <1>5, <2>1 DEF EdgesStay, Fresh, EnabledEdges
<1>8. Fresh'
  <2>1. LiveNodes(g)' = LiveNodes(g') /\ LiveArcs(g)' = LiveArcs(g')
    BY DEF LiveNodes, LiveArcs
  <2> QED BY <1>2, <1>5, <2>1 DEF Fresh
<1> QED BY <1>6, <1>7, <1>8

\* Operations of the view: what they leave disabled and enabled.
ViewStep ==
  \/ GetSubGraph
  \/ \E v \in Vertices : EnableVertex(v) \/ DisableVertex(v)
  \/ \E e \in Edges : EnableEdge(e) \/ DisableEdge(e)
  \/ \E vfs \in VertexFilters, efs \in EdgeFilters : ApplyFilters(vfs, efs)

\* What the invariants of the graph say about the elements the view iterates.
LEMMA Iterated ==
  ASSUME IInv, Owned(g), RemovesEdgesFirst
  PROVE  /\ \A v \in Vertices : v \in GraphVertices <=> HasVertex(g, v)
         /\ \A e \in Edges : e \in GraphEdges <=> HasEdge(g, e)
         /\ GraphVertices \subseteq Vertices /\ GraphEdges \subseteq Edges
         /\ VertexIds(GraphVertices) = LiveNodes(g)
         /\ EdgeIds(GraphEdges) = LiveArcs(g)
<1>0. Sound(g) /\ g \in Graphs /\ EdgesLive(g) /\ Indexed(g) BY DEF IInv, Sound
<1>1. /\ \A v \in Vertices : HasVertex(g, v) => g.vid[v] \in LiveNodes(g)
      /\ \A e \in Edges : HasEdge(g, e) => g.eid[e] \in LiveArcs(g)
  BY <1>0, LiveIds
<1>2. GraphVertices \subseteq Vertices /\ GraphEdges \subseteq Edges
  BY <1>0 DEF GraphVertices, GraphEdges, LiveNodes, LiveArcs, Graphs, Arcs
<1>3. \A i \in LiveNodes(g) : g.vid[g.node[i]] = i BY <1>0 DEF Indexed
<1>4. \A i \in LiveArcs(g) : g.eid[g.arc[i].edge] = i BY DEF Owned
<1>5. VertexIds(GraphVertices) = LiveNodes(g) BY <1>3 DEF VertexIds, GraphVertices
<1>6. EdgeIds(GraphEdges) = LiveArcs(g) BY <1>4 DEF EdgeIds, GraphEdges
<1>7. \A v \in Vertices : v \in GraphVertices <=> HasVertex(g, v)
  <2> TAKE v \in Vertices
  <2>1. HasVertex(g, v) => v \in GraphVertices
    BY <1>0, <1>1 DEF Indexed, GraphVertices
  <2>2. v \in GraphVertices => HasVertex(g, v)
    BY <1>3 DEF GraphVertices, HasVertex, LiveNodes, Ids, NoId
  <2> QED BY <2>1, <2>2
<1>8. \A e \in Edges : e \in GraphEdges <=> HasEdge(g, e)
  <2> TAKE e \in Edges
  <2>1. HasEdge(g, e) => e \in GraphEdges
    BY <1>0, <1>1 DEF EdgesLive, GraphEdges
  <2>2. e \in GraphEdges => HasEdge(g, e)
    BY <1>4 DEF GraphEdges, HasEdge, LiveArcs, Ids, NoId
  <2> QED BY <2>1, <2>2
<1> QED BY <1>2, <1>5, <1>6, <1>7, <1>8

\* The view's own operations keep unused ids disabled.
LEMMA ViewStepFresh ==
  ASSUME IInv, Owned(g), RemovesEdgesFirst, MemberMaps, Fresh, ViewStep
  PROVE  Fresh' /\ g' = g
<1>0. Sound(g) /\ EdgesLive(g) /\ g \in Graphs BY DEF IInv, Sound
<1>1. g' = g
  BY DEF ViewStep, GetSubGraph, EnableVertex, DisableVertex, EnableEdge,
         DisableEdge, ApplyFilters, vars
<1>2. ASSUME mDisabledVertices' \subseteq Ids, mDisabledEdges' \subseteq Ids,
             Ids \ LiveNodes(g) \subseteq mDisabledVertices',
             Ids \ LiveArcs(g) \subseteq mDisabledEdges'
      PROVE  Fresh'
  BY <1>1, <1>2 DEF Fresh, LiveNodes, LiveArcs
<1>3. /\ \A v \in Vertices : HasVertex(g, v) => g.vid[v] \in LiveNodes(g)
      /\ \A e \in Edges : HasEdge(g, e) => g.eid[e] \in LiveArcs(g)
  BY <1>0, LiveIds
<1>4. LiveNodes(g) \subseteq Ids /\ LiveArcs(g) \subseteq Ids
  BY DEF LiveNodes, LiveArcs
<1>5. /\ VertexIds(GraphVertices) = LiveNodes(g) /\ EdgeIds(GraphEdges) = LiveArcs(g)
  BY Iterated
<1>6. ASSUME NEW vs PROVE EdgesDisabledWith(vs) \subseteq Ids
  BY <1>4, <1>5 DEF EdgesDisabledWith, EdgeIds, Incident
<1>7. ASSUME GetSubGraph PROVE Fresh'
  BY <1>2, <1>4, <1>7 DEF GetSubGraph, Blank
<1>8. ASSUME NEW v \in Vertices, EnableVertex(v) PROVE Fresh'
  BY <1>2, <1>3, <1>8 DEF EnableVertex, Fresh
<1>9. ASSUME NEW v \in Vertices, DisableVertex(v) PROVE Fresh'
  BY <1>2, <1>3, <1>4, <1>6, <1>9 DEF DisableVertex, Fresh
<1>10. ASSUME NEW e \in Edges, EnableEdge(e) PROVE Fresh'
  BY <1>2, <1>3, <1>10 DEF EnableEdge, Fresh
<1>11. ASSUME NEW e \in Edges, DisableEdge(e) PROVE Fresh'
  BY <1>2, <1>3, <1>4, <1>11 DEF DisableEdge, Fresh
<1>12. ASSUME NEW vfs, NEW efs, ApplyFilters(vfs, efs) PROVE Fresh'
  <2> DEFINE matched == (UNION vfs) \cap GraphVertices
             filtered == UNION {FilteredEdges(f) \cap GraphEdges : f \in efs}
  <2>1. VertexIds(matched) \subseteq LiveNodes(g) BY <1>5 DEF VertexIds
  <2>2. filtered \subseteq GraphEdges OBVIOUS
  <2>3. EdgeIds(filtered) \subseteq LiveArcs(g) BY <1>5, <2>2 DEF EdgeIds
  <2> HIDE DEF matched, filtered
  <2>4. /\ \/ mDisabledVertices' = mDisabledVertices
           \/ mDisabledVertices' = (mDisabledVertices \ LiveNodes(g)) \cup VertexIds(matched)
        /\ mDisabledEdges' = AfterEdges(efs) \cup EdgesDisabledWith(matched)
    BY <1>12, <1>5 DEF ApplyFilters, matched
  <2>5. \/ AfterEdges(efs) = mDisabledEdges \cup EdgeIds(filtered)
        \/ AfterEdges(efs) = (mDisabledEdges \ LiveArcs(g)) \cup EdgeIds(filtered)
    BY <1>5 DEF AfterEdges, filtered
  <2> QED BY <1>2, <1>4, <1>6, <2>1, <2>3, <2>4, <2>5 DEF Fresh
<1>13. Fresh'
  <2>1. ASSUME NEW v \in Vertices, EnableVertex(v) \/ DisableVertex(v) PROVE Fresh'
    BY <1>8, <1>9, <2>1
  <2>2. ASSUME NEW e \in Edges, EnableEdge(e) \/ DisableEdge(e) PROVE Fresh'
    BY <1>10, <1>11, <2>2
  <2>3. ASSUME NEW vfs \in VertexFilters, NEW efs \in EdgeFilters, ApplyFilters(vfs, efs) PROVE Fresh'
    BY <1>12, <2>3
  <2> QED BY <1>7, <2>1, <2>2, <2>3 DEF ViewStep
<1> QED BY <1>1, <1>13

\* What VertexTakesItsEdges says of a step.
Takes ==
  \A v \in EnabledVertices \ EnabledVertices' :
    HasVertex(g, v)' => \A e \in EnabledEdges' : v \notin {Source[e], Target[e]}

\* The view's own operations disable a vertex only together with its edges.
LEMMA ViewStepTakes ==
  ASSUME IInv, Owned(g), RemovesEdgesFirst, MemberMaps, ViewStep
  PROVE  Takes
<1> DEFINE V == EnabledVertices
           E == EnabledEdges
<1>0. Sound(g) /\ EdgesLive(g) /\ g \in Graphs BY DEF IInv, Sound
<1>1. g' = g
  BY DEF ViewStep, GetSubGraph, EnableVertex, DisableVertex, EnableEdge,
         DisableEdge, ApplyFilters, vars
<1>2. /\ V = {v \in Vertices : HasVertex(g, v) /\ g.vid[v] \notin mDisabledVertices}
      /\ V' = {v \in Vertices : HasVertex(g, v) /\ g.vid[v] \notin mDisabledVertices'}
      /\ E' = {e \in Edges : HasEdge(g, e) /\ g.eid[e] \notin mDisabledEdges'}
  BY <1>1 DEF EnabledVertices, EnabledEdges, HasVertex, HasEdge
<1>3. /\ \A v \in Vertices : HasVertex(g, v) => g.vid[v] \in LiveNodes(g)
      /\ \A v, w \in Vertices : HasVertex(g, v) /\ g.vid[v] = g.vid[w] => v = w
  BY <1>0, LiveIds
<1>4. /\ \A v \in Vertices : v \in GraphVertices <=> HasVertex(g, v)
      /\ \A e \in Edges : e \in GraphEdges <=> HasEdge(g, e)
      /\ GraphVertices \subseteq Vertices
      /\ VertexIds(GraphVertices) = LiveNodes(g)
  BY Iterated
<1>5. ASSUME NEW vs, V \ V' \subseteq vs,
             EdgesDisabledWith(vs) \subseteq mDisabledEdges'
      PROVE  Takes
  <2> SUFFICES ASSUME NEW v \in vs, NEW e \in E', v \in {Source[e], Target[e]}
               PROVE  FALSE
    BY <1>5 DEF Takes
  <2>1. e \in Edges /\ HasEdge(g, e) /\ g.eid[e] \notin mDisabledEdges' BY <1>2
  <2>2. e \in UNION {Incident(w) : w \in vs} BY <1>4, <2>1 DEF Incident
  <2>3. g.eid[e] \in EdgesDisabledWith(vs) BY <2>2 DEF EdgesDisabledWith, EdgeIds
  <2> QED BY <1>5, <2>1, <2>3
<1>6. ASSUME V \subseteq V' PROVE Takes BY <1>6 DEF Takes
<1> HIDE DEF V, E
<1>7. ASSUME GetSubGraph PROVE Takes
  <2>1. V \subseteq V' BY <1>2, <1>3, <1>7 DEF GetSubGraph, Blank
  <2> QED BY <1>6, <2>1
<1>8. ASSUME NEW v \in Vertices, EnableVertex(v) PROVE Takes
  <2>1. V \subseteq V' BY <1>2, <1>8 DEF EnableVertex
  <2> QED BY <1>6, <2>1
<1>9. ASSUME NEW v \in Vertices, DisableVertex(v) PROVE Takes
  <2>1. /\ mDisabledVertices' = mDisabledVertices \cup {g.vid[v]}
        /\ EdgesDisabledWith({v}) \subseteq mDisabledEdges'
    BY <1>9 DEF DisableVertex
  <2>2. V \ V' \subseteq {v} BY <1>2, <1>3, <2>1
  <2> QED BY <1>5, <2>1, <2>2
<1>10. ASSUME NEW e \in Edges, EnableEdge(e) \/ DisableEdge(e) PROVE Takes
  <2>1. V \subseteq V' BY <1>2, <1>10 DEF EnableEdge, DisableEdge
  <2> QED BY <1>6, <2>1
<1>11. ASSUME NEW vfs, NEW efs, ApplyFilters(vfs, efs) PROVE Takes
  <2> DEFINE matched == (UNION vfs) \cap GraphVertices
  <2>1. /\ EdgesDisabledWith(matched) \subseteq mDisabledEdges'
        /\ \/ mDisabledVertices' = mDisabledVertices
           \/ mDisabledVertices' =
                (mDisabledVertices \ LiveNodes(g)) \cup VertexIds(matched)
    BY <1>4, <1>11 DEF ApplyFilters
  <2>2. matched \subseteq Vertices BY <1>4
  <2> HIDE DEF matched
  <2>3. V \ V' \subseteq matched
    <3> SUFFICES ASSUME NEW v \in V, v \notin V', v \notin matched PROVE FALSE
      OBVIOUS
    <3>1. v \in Vertices /\ HasVertex(g, v) /\ g.vid[v] \notin mDisabledVertices
      BY <1>2
    <3>2. g.vid[v] \in mDisabledVertices' BY <1>2, <3>1
    <3>3. g.vid[v] \notin VertexIds(matched) BY <1>3, <2>2, <3>1 DEF VertexIds
    <3> QED BY <2>1, <3>1, <3>2, <3>3
  <2> QED BY <1>5, <2>1, <2>3
<1> QED BY <1>7, <1>8, <1>9, <1>10, <1>11 DEF ViewStep

-----------------------------------------------------------------------------
\* The strengthening: a graph whose events describe it, and a view that knows
\* nothing of ids that are not in use.
SInv == IInv /\ Mirrored /\ Fresh

\* The invariant holds at first.
LEMMA SubInitSInv ==
  ASSUME MemberMaps, SubInit
  PROVE  SInv
<1>1. Init BY DEF SubInit
<1>2. IInv BY <1>1, InitIInv
<1>3. Mirrored
  BY <1>1 DEF Init, Empty, Mirrored, VertexSet, EdgeSet, Owned, HasVertex, HasEdge, LiveArcs
<1> QED BY <1>2, <1>3, InitFresh DEF SInv

\* Every step keeps it, and changes the graph or the view but not both.
LEMMA SubNextSInv ==
  ASSUME MemberMaps, RemovesEdgesFirst, SInv, [SubNext]_<<vars, members>>
  PROVE  /\ SInv'
         /\ GraphStep \/ (ViewStep /\ g' = g) \/ UNCHANGED <<g, members>>
<1>0. IInv /\ Mirrored /\ Owned(g) /\ Fresh BY DEF SInv, Mirrored
<1>1. [Next]_vars BY SubNextIsNext
<1>2. IInv' BY <1>0, <1>1, NextIInv
<1>3. Mirrored' BY <1>0, <1>1, NextMirrored, MemberAssumption
<1>4. CASE GraphStep BY <1>0, <1>2, <1>3, <1>4, StepKeeps DEF SInv
<1>5. CASE ViewStep BY <1>0, <1>2, <1>3, <1>5, ViewStepFresh DEF SInv
<1>6. CASE UNCHANGED <<vars, members>>
  <2>1. g' = g /\ UNCHANGED members BY <1>6 DEF vars
  <2>2. Fresh' BY <1>0, <2>1 DEF Fresh, LiveNodes, LiveArcs, members
  <2> QED BY <1>2, <1>3, <2>1, <2>2 DEF SInv
<1> QED BY <1>4, <1>5, <1>6 DEF SubNext, ViewStep

\* The graph and the view are well typed: the ids a view has disabled are ids
\* of the back-end, whatever becomes of the elements that had them.
THEOREM ViewTypeCorrect ==
  ASSUME MemberMaps, RemovesEdgesFirst
  PROVE  SubSpec => []SubTypeOK
<1>1. SubInit => SInv BY SubInitSInv
<1>2. SInv /\ [SubNext]_<<vars, members>> => SInv' BY SubNextSInv
<1>3. SInv => SubTypeOK BY DEF SInv, IInv, Fresh, SubTypeOK
<1> QED BY <1>1, <1>2, <1>3, PTL DEF SubSpec

\* A view in lemon's maps keeps up with its graph: a step of the graph changes
\* the membership of no element that stays, and an element that arrives is not
\* a member, even under a reused id.
THEOREM ViewKeepsUp ==
  ASSUME MemberMaps, RemovesEdgesFirst
  PROVE  SubSpec => KeepsUp
<1> DEFINE Kept ==
      /\ \A v \in Vertices :
           HasVertex(g, v)' =>
             (v \in EnabledVertices' <=>
                IF HasVertex(g, v) THEN v \in EnabledVertices ELSE ~MemberMaps)
      /\ \A e \in Edges :
           HasEdge(g, e)' =>
             (e \in EnabledEdges' <=>
                IF HasEdge(g, e) THEN e \in EnabledEdges ELSE ~MemberMaps)
<1>1. SubInit => SInv BY SubInitSInv
<1>2. SInv /\ [SubNext]_<<vars, members>> => SInv' BY SubNextSInv
<1>3. SInv /\ SInv' /\ [SubNext]_<<vars, members>> => [g' # g => Kept]_<<vars, members>>
  <2> SUFFICES ASSUME SInv, SInv', [SubNext]_<<vars, members>>, g' # g
               PROVE  Kept
    OBVIOUS
  <2>1. GraphStep BY SubNextSInv
  <2>2. IInv /\ IInv' /\ Fresh BY DEF SInv
  <2>3. /\ \A v \in Vertices : HasVertex(g', v) =>
             (v \in EnabledVertices' <=> HasVertex(g, v) /\ v \in EnabledVertices)
        /\ \A e \in Edges : HasEdge(g', e) =>
             (e \in EnabledEdges' <=> HasEdge(g, e) /\ e \in EnabledEdges)
    BY <2>1, <2>2, StepKeeps
  <2>4. /\ \A v \in Vertices : HasVertex(g, v)' <=> HasVertex(g', v)
        /\ \A e \in Edges : HasEdge(g, e)' <=> HasEdge(g', e)
    BY DEF HasVertex, HasEdge
  <2> QED BY <2>3, <2>4
<1> HIDE DEF Kept
<1>4. SubSpec => [][g' # g => Kept]_<<vars, members>>
  BY <1>1, <1>2, <1>3, PTL DEF SubSpec
<1> QED BY <1>4 DEF KeepsUp, Kept

\* A vertex that stays in the graph leaves such a view only together with its
\* edges, also by a filter that has enabled all edges just before.
THEOREM VertexLeavesWithItsEdges ==
  ASSUME MemberMaps, RemovesEdgesFirst
  PROVE  SubSpec => VertexTakesItsEdges
<1>1. SubInit => SInv BY SubInitSInv
<1>2. SInv /\ [SubNext]_<<vars, members>> => SInv' BY SubNextSInv
<1>3. SInv /\ [SubNext]_<<vars, members>> => [Takes]_<<vars, members>>
  <2> SUFFICES ASSUME SInv, [SubNext]_<<vars, members>> PROVE Takes
    OBVIOUS
  <2>1. IInv /\ IInv' /\ Owned(g) /\ Fresh BY SubNextSInv DEF SInv, Mirrored
  <2>2. CASE GraphStep
    <3> SUFFICES ASSUME NEW v \in EnabledVertices, v \notin EnabledVertices',
                        HasVertex(g, v)'
                 PROVE  FALSE
      BY DEF Takes
    <3>1. v \in Vertices /\ HasVertex(g, v) BY DEF EnabledVertices
    <3>2. HasVertex(g', v) BY DEF HasVertex
    <3> QED BY <2>1, <2>2, <3>1, <3>2, StepKeeps
  <2>3. CASE ViewStep BY <2>1, <2>3, ViewStepTakes
  <2>4. CASE UNCHANGED <<g, members>>
    BY <2>4 DEF Takes, EnabledVertices, HasVertex, members
  <2> QED BY <2>2, <2>3, <2>4, SubNextSInv
<1>4. SubSpec => [][Takes]_<<vars, members>>
  BY <1>1, <1>2, <1>3, PTL DEF SubSpec
<1> QED BY <1>4 DEF VertexTakesItsEdges, Takes
-----------------------------------------------------------------------------
(***************************************************************************)
(* A view kept in SubGraph.cpp's sets, which hear nothing of the graph.  A *)
(* back-end that counts up makes them safe: an id in a set may belong to   *)
(* an element that is gone, but no later element ever gets it.             *)
(***************************************************************************)

\* Every id an element is associated with, stale ones included, was counted.
Counts(h) ==
  /\ \A v \in Vertices : h.vid[v] < h.nodes
  /\ \A e \in Edges : h.eid[e] < h.arcs

\* From h to k, the counters do not go back, and an id an element gets is one
\* that h has not handed out.
Newer(h, k) ==
  /\ h.nodes <= k.nodes /\ h.arcs <= k.arcs
  /\ \A v \in Vertices : HasVertex(k, v) => k.vid[v] = h.vid[v] \/ h.nodes <= k.vid[v]
  /\ \A e \in Edges : HasEdge(k, e) => k.eid[e] = h.eid[e] \/ h.arcs <= k.eid[e]

\* The sets hold ids that were counted, live or not.
Issued ==
  /\ mDisabledVertices \subseteq {i \in Int : i < g.nodes}
  /\ mDisabledEdges \subseteq {i \in Int : i < g.arcs}

\* Newer is reflexive ...
LEMMA NewerRefl ==
  ASSUME NEW h \in Graphs
  PROVE  Newer(h, h)
BY ModeAssumption DEF Newer, Graphs

\* ... and transitive.
LEMMA NewerTrans ==
  ASSUME NEW h \in Graphs, NEW k \in Graphs, NEW l \in Graphs, Newer(h, k), Newer(k, l)
  PROVE  Newer(h, l)
<1>1. /\ h.nodes \in Int /\ k.nodes \in Int /\ l.nodes \in Int
      /\ h.arcs \in Int /\ k.arcs \in Int /\ l.arcs \in Int
      /\ \A v \in Vertices : l.vid[v] \in Int /\ k.vid[v] \in Int
      /\ \A e \in Edges : l.eid[e] \in Int /\ k.eid[e] \in Int
  BY ModeAssumption DEF Graphs, Ids, NoId
<1>2. h.nodes <= l.nodes /\ h.arcs <= l.arcs BY <1>1 DEF Newer
<1>3. ASSUME NEW v \in Vertices, HasVertex(l, v)
      PROVE  l.vid[v] = h.vid[v] \/ h.nodes <= l.vid[v]
  BY <1>1, <1>3 DEF Newer, HasVertex
<1>4. ASSUME NEW e \in Edges, HasEdge(l, e)
      PROVE  l.eid[e] = h.eid[e] \/ h.arcs <= l.eid[e]
  BY <1>1, <1>4 DEF Newer, HasEdge
<1> QED BY <1>2, <1>3, <1>4 DEF Newer

\* A back-end that counts up hands out the next id and no other.
LEMMA NewIdIsNext ==
  ASSUME ~RecyclesIds, NEW live, NEW count \in 0 .. MaxIds, NEW i \in NewIds(live, count)
  PROVE  i = count /\ i \in Ids /\ Counted(count, i) = count + 1
BY DEF NewIds, Counted

\* A back-end that does not recycle identifiers counts on: at a vertex ...
LEMMA WithVertexCounts ==
  ASSUME ~RecyclesIds, NEW h \in Graphs, Counts(h), NEW v \in Vertices,
         NEW i \in NewIds(LiveNodes(h), h.nodes)
  PROVE  Counts(WithVertex(h, v, i)) /\ Newer(h, WithVertex(h, v, i))
<1> DEFINE k == WithVertex(h, v, i)
<1>1. /\ h.nodes \in 0 .. MaxIds /\ h.arcs \in 0 .. MaxIds /\ MaxIds \in Nat
      /\ \A w \in Vertices : h.vid[w] \in Int
      /\ h.vid \in [Vertices -> Ids \cup {NoId}]
  BY ModeAssumption DEF Graphs, Ids, NoId
<1>2. i = h.nodes /\ Counted(h.nodes, i) = h.nodes + 1 BY <1>1, NewIdIsNext
<1>3. /\ k.vid = [h.vid EXCEPT ![v] = i] /\ k.nodes = h.nodes + 1
      /\ k.eid = h.eid /\ k.arcs = h.arcs
  BY <1>2 DEF WithVertex, Graphs
<1>4. \A w \in Vertices : k.vid[w] = IF w = v THEN h.nodes ELSE h.vid[w]
  BY <1>1, <1>2, <1>3
<1> HIDE DEF k
<1>5. Counts(k) BY <1>1, <1>3, <1>4 DEF Counts
<1>6. Newer(h, k) BY <1>1, <1>3, <1>4 DEF Newer
<1> QED BY <1>5, <1>6 DEF k

\* ... at one that comes with an edge ...
LEMMA JoinedCounts ==
  ASSUME ~RecyclesIds, NEW h, Sound(h), Counts(h), NEW v \in Vertices, NEW k \in Joined(h, v)
  PROVE  Counts(k) /\ Newer(h, k)
<1>0. h \in Graphs BY DEF Sound
<1>1. CASE HasVertex(h, v) BY <1>0, <1>1, NewerRefl DEF Joined
<1>2. CASE ~HasVertex(h, v) BY <1>0, <1>2, WithVertexCounts DEF Joined
<1> QED BY <1>1, <1>2

\* ... and at an edge.
LEMMA WithEdgeCounts ==
  ASSUME ~RecyclesIds, NEW h \in Graphs, Counts(h), NEW e \in Edges,
         NEW i \in NewIds(LiveArcs(h), h.arcs)
  PROVE  Counts(WithEdge(h, e, i)) /\ Newer(h, WithEdge(h, e, i))
<1> DEFINE k == WithEdge(h, e, i)
<1>1. /\ h.nodes \in 0 .. MaxIds /\ h.arcs \in 0 .. MaxIds /\ MaxIds \in Nat
      /\ \A d \in Edges : h.eid[d] \in Int
      /\ h.eid \in [Edges -> Ids \cup {NoId}]
  BY ModeAssumption DEF Graphs, Ids, NoId
<1>2. i = h.arcs /\ Counted(h.arcs, i) = h.arcs + 1 BY <1>1, NewIdIsNext
<1>3. /\ k.eid = [h.eid EXCEPT ![e] = i] /\ k.arcs = h.arcs + 1
      /\ k.vid = h.vid /\ k.nodes = h.nodes
  BY <1>2 DEF WithEdge, Graphs
<1>4. \A d \in Edges : k.eid[d] = IF d = e THEN h.arcs ELSE h.eid[d]
  BY <1>1, <1>2, <1>3
<1> HIDE DEF k
<1>5. Counts(k) BY <1>1, <1>3, <1>4 DEF Counts
<1>6. Newer(h, k) BY <1>1, <1>3, <1>4 DEF Newer
<1> QED BY <1>5, <1>6 DEF k

\* Whatever the graph does, the ids it hands out were not in use before.
LEMMA NextCounts ==
  ASSUME ~RecyclesIds, IInv, Counts(g), Next
  PROVE  Counts(g') /\ Newer(g, g')
<1>0. Sound(g) /\ g \in Graphs BY DEF IInv, Sound
<1>1. ASSUME g' = g PROVE Counts(g') /\ Newer(g, g')
  BY <1>0, <1>1, NewerRefl
<1>2. ASSUME NEW v \in Vertices, AddVertex(v) PROVE Counts(g') /\ Newer(g, g')
  BY <1>0, <1>2, WithVertexCounts DEF AddVertex
<1>3. ASSUME NEW e \in Edges, AddEdge(e) PROVE Counts(g') /\ Newer(g, g')
  <2>1. PICK h1 \in Joined(g, Source[e]) : \E h2 \in Joined(h1, Target[e]) :
          \E i \in NewIds(LiveArcs(h2), h2.arcs) : g' = WithEdge(h2, e, i)
    BY <1>3, MemberAssumption DEF AddEdge, Outcomes, Threw
  <2>2. PICK h2 \in Joined(h1, Target[e]) :
          \E i \in NewIds(LiveArcs(h2), h2.arcs) : g' = WithEdge(h2, e, i)
    BY <2>1
  <2>3. PICK i \in NewIds(LiveArcs(h2), h2.arcs) : g' = WithEdge(h2, e, i) BY <2>2
  <2>4. Source[e] \in Vertices /\ Target[e] \in Vertices BY ElementAssumption
  <2>5. Sound(h1) /\ Counts(h1) /\ Newer(g, h1)
    BY <1>0, <2>1, <2>4, JoinedSound, JoinedCounts
  <2>6. Sound(h2) /\ Counts(h2) /\ Newer(h1, h2)
    BY <2>2, <2>4, <2>5, JoinedSound, JoinedCounts
  <2>7. h1 \in Graphs /\ h2 \in Graphs BY <2>5, <2>6 DEF Sound
  <2>8. Counts(g') /\ Newer(h2, g') BY <2>3, <2>6, <2>7, WithEdgeCounts
  <2>9. ~HasEdge(g, e) /\ h2.eid = g.eid
    BY <1>0, <1>3, <2>1, <2>2, <2>4, <2>5, JoinedSound DEF AddEdge
  <2>10. g' \in Graphs
    <3>1. HasVertex(h2, Source[e]) /\ HasVertex(h2, Target[e])
      BY <1>0, <2>1, <2>2, <2>4, <2>5, JoinedSound
    <3> QED BY <2>3, <2>6, <2>9, <3>1, WithEdgeSound DEF Sound, HasEdge
  <2> QED BY <1>0, <2>5, <2>6, <2>7, <2>8, <2>10, NewerTrans
<1>4. ASSUME NEW v \in Vertices, NEW next, DropVertex(v, next)
      PROVE  Counts(g') /\ Newer(g, g')
  <2>1. /\ g'.vid = [g.vid EXCEPT ![v] = NoId] /\ g'.eid = g.eid
        /\ g'.nodes = g.nodes /\ g'.arcs = g.arcs
    BY <1>0, <1>4 DEF DropVertex, WithoutVertex, Graphs
  <2>2. \A w \in Vertices : g'.vid[w] = IF w = v THEN -1 ELSE g.vid[w]
    BY <1>0, <2>1 DEF Graphs, NoId
  <2>3. g.nodes \in Nat /\ g.arcs \in Nat BY <1>0, ModeAssumption DEF Graphs
  <2>4. Counts(g') BY <2>1, <2>2, <2>3 DEF Counts
  <2>5. Newer(g, g') BY <2>1, <2>2, <2>3 DEF Newer, HasVertex, NoId
  <2> QED BY <2>4, <2>5
<1>5. ASSUME NEW e \in Edges, NEW next, DropEdge(e, next)
      PROVE  Counts(g') /\ Newer(g, g')
  <2>1. CASE g' = g BY <1>1, <2>1
  <2>2. CASE g' = WithoutEdge(g, e)
    <3>1. /\ g'.eid = [g.eid EXCEPT ![e] = NoId] /\ g'.vid = g.vid
          /\ g'.nodes = g.nodes /\ g'.arcs = g.arcs
      BY <1>0, <2>2 DEF WithoutEdge, Graphs
    <3>2. \A d \in Edges : g'.eid[d] = IF d = e THEN -1 ELSE g.eid[d]
      BY <1>0, <3>1 DEF Graphs, NoId
    <3>3. g.nodes \in Nat /\ g.arcs \in Nat BY <1>0, ModeAssumption DEF Graphs
    <3>4. Counts(g') BY <3>1, <3>2, <3>3 DEF Counts
    <3>5. Newer(g, g') BY <3>1, <3>2, <3>3 DEF Newer, HasEdge, NoId
    <3> QED BY <3>4, <3>5
  <2> QED BY <1>5, <2>1, <2>2 DEF DropEdge
<1>6. ASSUME NEW v \in Vertices, RemoveVertex(v) PROVE Counts(g') /\ Newer(g, g')
  BY <1>4, <1>6 DEF RemoveVertex
<1>7. ASSUME NEW e \in Edges, RemoveEdge(e) PROVE Counts(g') /\ Newer(g, g')
  BY <1>5, <1>7 DEF RemoveEdge
<1>8. CASE RemoveNext
  <2>1. PICK p \in pending : DropEdge(p[3], "removeEdges") BY <1>8 DEF RemoveNext
  <2>2. p[3] \in Edges BY DEF IInv, TypeOK
  <2> QED BY <1>5, <2>1, <2>2
<1>9. CASE ClearEdge
  <2>1. PICK i \in LiveArcs(g) : DropEdge(g.arc[i].edge, "clearEdges")
    BY <1>9 DEF ClearEdge
  <2>2. g.arc[i].edge \in Edges BY <1>0 DEF LiveArcs, Graphs, Arcs
  <2> QED BY <1>5, <2>1, <2>2
<1>10. CASE ClearVertex
  <2>1. PICK i \in LiveNodes(g) : DropVertex(g.node[i], "clearVertices")
    BY <1>10 DEF ClearVertex
  <2>2. g.node[i] \in Vertices BY <1>0 DEF LiveNodes, Graphs
  <2> QED BY <1>4, <2>1, <2>2
<1>11. CASE \/ Rejected \/ EndRemoveEdges \/ BeginClear \/ ClearVertices \/ EndClear
            \/ \E a, b \in Vertices : BeginRemoveEdges(a, b)
  BY <1>1, <1>11 DEF Rejected, EndRemoveEdges, BeginClear, ClearVertices, EndClear, BeginRemoveEdges
<1> QED BY <1>2, <1>3, <1>6, <1>7, <1>8, <1>9, <1>10, <1>11 DEF Next, Running

\* The sets of a view never name an id the back-end has yet to hand out.
CountedInv == IInv /\ Counts(g) /\ Issued

\* The invariant of counted identifiers holds at first.
LEMMA SubInitCounted ==
  ASSUME ~MemberMaps, SubInit
  PROVE  CountedInv
<1>1. IInv BY InitIInv DEF SubInit
<1>2. Counts(g) BY DEF SubInit, Init, Empty, Counts, NoId
<1>3. Issued BY DEF SubInit, Blank, Issued
<1> QED BY <1>1, <1>2, <1>3 DEF CountedInv

\* What the view itself disables are ids of elements of the graph.
LEMMA ViewStepIssued ==
  ASSUME ~MemberMaps, CountedInv, ViewStep
  PROVE  Issued' /\ g' = g
<1>0. g \in Graphs /\ Counts(g) /\ Issued BY DEF CountedInv, IInv, Sound
<1>1. g' = g
  BY DEF ViewStep, GetSubGraph, EnableVertex, DisableVertex, EnableEdge,
         DisableEdge, ApplyFilters, vars
<1>2. /\ \A vs : vs \subseteq Vertices => VertexIds(vs) \subseteq {i \in Int : i < g.nodes}
      /\ \A es : es \subseteq Edges => EdgeIds(es) \subseteq {i \in Int : i < g.arcs}
  BY <1>0 DEF Counts, VertexIds, EdgeIds, Graphs, Ids, NoId
<1>3. GraphVertices \subseteq Vertices /\ GraphEdges \subseteq Edges
  BY <1>0 DEF GraphVertices, GraphEdges, LiveNodes, LiveArcs, Graphs, Arcs
<1>4. ASSUME mDisabledVertices' \subseteq {i \in Int : i < g.nodes},
             mDisabledEdges' \subseteq {i \in Int : i < g.arcs}
      PROVE  Issued'
  BY <1>1, <1>4 DEF Issued
<1>5. \A vs : EdgesDisabledWith(vs) = {} BY DEF EdgesDisabledWith
<1>6. ASSUME GetSubGraph PROVE Issued' BY <1>4, <1>6 DEF GetSubGraph, Blank
<1>7. ASSUME NEW v \in Vertices, EnableVertex(v) PROVE Issued'
  BY <1>0, <1>4, <1>7 DEF EnableVertex, Issued
<1>8. ASSUME NEW v \in Vertices, DisableVertex(v) PROVE Issued'
  <2>1. g.vid[v] \in {i \in Int : i < g.nodes} BY <1>0 DEF Counts, Graphs, Ids, NoId
  <2> QED BY <1>0, <1>4, <1>5, <1>8, <2>1 DEF DisableVertex, Issued
<1>9. ASSUME NEW e \in Edges, EnableEdge(e) PROVE Issued'
  BY <1>0, <1>4, <1>9 DEF EnableEdge, Issued
<1>10. ASSUME NEW e \in Edges, DisableEdge(e) PROVE Issued'
  <2>1. g.eid[e] \in {i \in Int : i < g.arcs} BY <1>0 DEF Counts, Graphs, Ids, NoId
  <2> QED BY <1>0, <1>4, <1>10, <2>1 DEF DisableEdge, Issued
<1>11. ASSUME NEW vfs, NEW efs, ApplyFilters(vfs, efs) PROVE Issued'
  <2> DEFINE matched == (UNION vfs) \cap GraphVertices
             filtered == UNION {FilteredEdges(f) \cap GraphEdges : f \in efs}
  <2>1. /\ VertexIds(matched) \subseteq {i \in Int : i < g.nodes}
        /\ EdgeIds(filtered) \subseteq {i \in Int : i < g.arcs}
    <3>1. matched \subseteq Vertices /\ filtered \subseteq Edges BY <1>3
    <3> QED BY <1>2, <3>1
  <2>2. AfterEdges(efs) \subseteq mDisabledEdges \cup EdgeIds(filtered)
    BY DEF AfterEdges
  <2>3. /\ mDisabledVertices' \subseteq mDisabledVertices \cup VertexIds(matched)
        /\ mDisabledEdges' = AfterEdges(efs)
    BY <1>5, <1>11 DEF ApplyFilters
  <2> HIDE DEF matched, filtered
  <2> QED BY <1>0, <1>4, <2>1, <2>2, <2>3 DEF Issued
<1>12. /\ \A v \in Vertices : EnableVertex(v) \/ DisableVertex(v) => Issued'
       /\ \A e \in Edges : EnableEdge(e) \/ DisableEdge(e) => Issued'
       /\ \A vfs \in VertexFilters, efs \in EdgeFilters : ApplyFilters(vfs, efs) => Issued'
  BY <1>7, <1>8, <1>9, <1>10, <1>11
<1> QED BY <1>1, <1>6, <1>12 DEF ViewStep

\* A step of the graph leaves the sets as they are, and they have the right
\* answer for every element, old or new.
LEMMA SetsStepKeeps ==
  ASSUME ~MemberMaps, ~RecyclesIds, CountedInv, GraphStep
  PROVE  /\ Counts(g') /\ Issued'
         /\ \A v \in Vertices : HasVertex(g', v) =>
              (v \in EnabledVertices' <=> (HasVertex(g, v) => v \in EnabledVertices))
         /\ \A e \in Edges : HasEdge(g', e) =>
              (e \in EnabledEdges' <=> (HasEdge(g, e) => e \in EnabledEdges))
<1>0. IInv /\ Counts(g) /\ Issued /\ Next /\ g \in Graphs
  BY DEF CountedInv, IInv, Sound, GraphStep
<1>1. mDisabledVertices' = mDisabledVertices /\ mDisabledEdges' = mDisabledEdges
  BY DEF GraphStep, Followed
<1>2. VerticesStay(g, g') /\ EdgesStay(g, g') BY <1>0, NextStays
<1>3. Counts(g') /\ Newer(g, g') BY <1>0, NextCounts
<1>4. IInv' BY <1>0, NextIInv
<1>5. g' \in Graphs BY <1>4 DEF IInv, Sound
<1>6. /\ g.nodes \in Int /\ g'.nodes \in Int /\ g.arcs \in Int /\ g'.arcs \in Int
      /\ \A v \in Vertices : g'.vid[v] \in Int
      /\ \A e \in Edges : g'.eid[e] \in Int
  BY <1>0, <1>5, ModeAssumption DEF Graphs, Ids, NoId
<1>7. Issued' BY <1>0, <1>1, <1>3, <1>6 DEF Issued, Newer
<1>8. ASSUME NEW v \in Vertices, HasVertex(g', v)
      PROVE  v \in EnabledVertices' <=> (HasVertex(g, v) => v \in EnabledVertices)
  <2>1. v \in EnabledVertices' <=> g'.vid[v] \notin mDisabledVertices
    BY <1>1, <1>8 DEF EnabledVertices, HasVertex
  <2>2. CASE HasVertex(g, v)
    BY <1>2, <1>8, <2>1, <2>2 DEF VerticesStay, EnabledVertices
  <2>3. CASE ~HasVertex(g, v)
    <3>1. g'.vid[v] # g.vid[v] BY <1>8, <2>3 DEF HasVertex
    <3>2. g.nodes <= g'.vid[v] BY <1>3, <1>8, <3>1 DEF Newer
    <3>3. g'.vid[v] \notin mDisabledVertices BY <1>0, <1>6, <3>2 DEF Issued
    <3> QED BY <2>1, <2>3, <3>3
  <2> QED BY <2>2, <2>3
<1>9. ASSUME NEW e \in Edges, HasEdge(g', e)
      PROVE  e \in EnabledEdges' <=> (HasEdge(g, e) => e \in EnabledEdges)
  <2>1. e \in EnabledEdges' <=> g'.eid[e] \notin mDisabledEdges
    BY <1>1, <1>9 DEF EnabledEdges, HasEdge
  <2>2. CASE HasEdge(g, e)
    BY <1>2, <1>9, <2>1, <2>2 DEF EdgesStay, EnabledEdges
  <2>3. CASE ~HasEdge(g, e)
    <3>1. g'.eid[e] # g.eid[e] BY <1>9, <2>3 DEF HasEdge
    <3>2. g.arcs <= g'.eid[e] BY <1>3, <1>9, <3>1 DEF Newer
    <3>3. g'.eid[e] \notin mDisabledEdges BY <1>0, <1>6, <3>2 DEF Issued
    <3> QED BY <2>1, <2>3, <3>3
  <2> QED BY <2>2, <2>3
<1> QED BY <1>3, <1>7, <1>8, <1>9

\* Every step of it counts on or leaves the graph as it is.
LEMMA SubNextCounted ==
  ASSUME ~MemberMaps, ~RecyclesIds, CountedInv, [SubNext]_<<vars, members>>
  PROVE  CountedInv' /\ (g' # g => GraphStep)
<1>0. IInv /\ Counts(g) /\ Issued BY DEF CountedInv
<1>1. IInv' BY <1>0, SubNextIsNext, NextIInv
<1>2. CASE GraphStep BY <1>1, <1>2, SetsStepKeeps DEF CountedInv
<1>3. CASE ViewStep
  <2>1. Issued' /\ g' = g BY <1>3, ViewStepIssued
  <2> QED BY <1>0, <1>1, <2>1 DEF CountedInv
<1>4. CASE UNCHANGED <<vars, members>>
  <2>1. g' = g /\ UNCHANGED members BY <1>4 DEF vars
  <2>2. Issued' BY <1>0, <2>1 DEF Issued, members
  <2> QED BY <1>0, <1>1, <2>1, <2>2 DEF CountedInv
<1> QED BY <1>2, <1>3, <1>4 DEF SubNext, ViewStep

\* A view kept in sets keeps up with its graph too, although it hears of none
\* of its changes, over a back-end that never reuses an id: also when vertices
\* are removed before their edges, whose stale ids remain.
THEOREM SetsKeepUp ==
  ASSUME ~MemberMaps, ~RecyclesIds
  PROVE  SubSpec => KeepsUp
<1> DEFINE Kept ==
      /\ \A v \in Vertices :
           HasVertex(g, v)' =>
             (v \in EnabledVertices' <=>
                IF HasVertex(g, v) THEN v \in EnabledVertices ELSE ~MemberMaps)
      /\ \A e \in Edges :
           HasEdge(g, e)' =>
             (e \in EnabledEdges' <=>
                IF HasEdge(g, e) THEN e \in EnabledEdges ELSE ~MemberMaps)
<1>1. SubInit => CountedInv BY SubInitCounted
<1>2. CountedInv /\ [SubNext]_<<vars, members>> => CountedInv' BY SubNextCounted
<1>3. CountedInv /\ [SubNext]_<<vars, members>> => [g' # g => Kept]_<<vars, members>>
  <2> SUFFICES ASSUME CountedInv, [SubNext]_<<vars, members>>, g' # g
               PROVE  Kept
    OBVIOUS
  <2>1. GraphStep BY SubNextCounted
  <2>2. /\ \A v \in Vertices : HasVertex(g', v) =>
             (v \in EnabledVertices' <=> (HasVertex(g, v) => v \in EnabledVertices))
        /\ \A e \in Edges : HasEdge(g', e) =>
             (e \in EnabledEdges' <=> (HasEdge(g, e) => e \in EnabledEdges))
    BY <2>1, SetsStepKeeps
  <2>3. /\ \A v \in Vertices : HasVertex(g, v)' <=> HasVertex(g', v)
        /\ \A e \in Edges : HasEdge(g, e)' <=> HasEdge(g', e)
    BY DEF HasVertex, HasEdge
  <2> QED BY <2>2, <2>3
<1> HIDE DEF Kept
<1>4. SubSpec => [][g' # g => Kept]_<<vars, members>>
  BY <1>1, <1>2, <1>3, PTL DEF SubSpec
<1> QED BY <1>4 DEF KeepsUp, Kept

-----------------------------------------------------------------------------
(***************************************************************************)
(* Percolation on a view in lemon's maps: its events tell what the view    *)
(* has lost, for any graph and any mix of strategies, resets and changes   *)
(* of the graph.                                                           *)
(***************************************************************************)

\* What the graph has and the view has not.
MissingVertices == {v \in GraphVertices : g.vid[v] \in mDisabledVertices}
MissingEdges    == {e \in GraphEdges : g.eid[e] \in mDisabledEdges}

\* The graph under the view, and a view that knows only ids in use.
Consistent == SInv /\ RemovesEdgesFirst /\ MemberMaps /\ Vertices \cap Edges = {}

\* What the view iterates over is what the graph contains.
LEMMA GraphOfView ==
  ASSUME Consistent
  PROVE  /\ \A v \in Vertices : v \in GraphVertices <=> HasVertex(g, v)
         /\ \A e \in Edges : e \in GraphEdges <=> HasEdge(g, e)
         /\ GraphVertices \subseteq Vertices /\ GraphEdges \subseteq Edges
BY Iterated DEF Consistent, SInv, Mirrored

\* What is live and not enabled is what the view misses.
LEMMA MissingOfView ==
  ASSUME Consistent
  PROVE  LiveElements \ (EnabledVertices \cup EnabledEdges)
           = MissingVertices \cup MissingEdges
<1>1. /\ \A v \in Vertices : v \in GraphVertices <=> HasVertex(g, v)
      /\ \A e \in Edges : e \in GraphEdges <=> HasEdge(g, e)
      /\ GraphVertices \subseteq Vertices /\ GraphEdges \subseteq Edges
  BY GraphOfView
<1>2. EnabledVertices \subseteq Vertices /\ EnabledEdges \subseteq Edges
  BY DEF EnabledVertices, EnabledEdges
<1>3. Vertices \cap Edges = {} BY DEF Consistent
<1>4. \A v \in GraphVertices : v \in EnabledVertices <=> v \notin MissingVertices
  BY <1>1 DEF EnabledVertices, MissingVertices
<1>5. \A e \in GraphEdges : e \in EnabledEdges <=> e \notin MissingEdges
  BY <1>1 DEF EnabledEdges, MissingEdges
<1>6. MissingVertices \subseteq GraphVertices /\ MissingEdges \subseteq GraphEdges
  BY DEF MissingVertices, MissingEdges
<1> QED BY <1>1, <1>2, <1>3, <1>4, <1>5, <1>6 DEF LiveElements

\* An operation on the view keeps the graph's invariants, and ids that are not
\* in use disabled, if it touches only ids in use.
LEMMA ViewChange ==
  ASSUME Consistent, UNCHANGED vars, NEW vids, NEW eids,
         vids \subseteq LiveNodes(g), eids \subseteq LiveArcs(g),
         \/ mDisabledVertices' = mDisabledVertices \cup vids
         \/ mDisabledVertices' = mDisabledVertices \ vids,
         \/ mDisabledEdges' = mDisabledEdges \cup eids
         \/ mDisabledEdges' = mDisabledEdges \ eids
  PROVE  SInv' /\ g' = g
<1>1. IInv /\ Mirrored /\ Fresh BY DEF Consistent, SInv
<1>2. g' = g BY DEF vars
<1>3. IInv' BY <1>1, NextIInv
<1>4. Mirrored' BY <1>1, NextMirrored, MemberAssumption
<1>5. LiveNodes(g) \subseteq Ids /\ LiveArcs(g) \subseteq Ids
  BY DEF LiveNodes, LiveArcs
<1>6. LiveNodes(g)' = LiveNodes(g) /\ LiveArcs(g)' = LiveArcs(g)
  BY <1>2 DEF LiveNodes, LiveArcs
<1>7. Fresh' BY <1>1, <1>5, <1>6 DEF Fresh
<1> QED BY <1>2, <1>3, <1>4, <1>7 DEF SInv

\* Operations of percolation: what the events tell and what is missing change
\* together.
LEMMA PercolationStep ==
  ASSUME Consistent, gone = MissingVertices \cup MissingEdges,
         \/ NewPercolation \/ Reset
         \/ \E vs \in SUBSET EnabledVertices : RemoveVertices(vs)
         \/ \E es \in SUBSET EnabledEdges : RemoveEdgesOfView(es)
  PROVE  SInv' /\ gone' = (MissingVertices \cup MissingEdges)'
<1> DEFINE V == GraphVertices
           E == GraphEdges
<1>0. IInv /\ Mirrored /\ Owned(g) /\ Fresh /\ MemberMaps /\ RemovesEdgesFirst
  BY DEF Consistent, SInv, Mirrored
<1>a. Sound(g) /\ EdgesLive(g) BY <1>0 DEF IInv
<1>b. /\ V \subseteq Vertices /\ E \subseteq Edges
      /\ VertexIds(V) = LiveNodes(g) /\ EdgeIds(E) = LiveArcs(g)
      /\ \A v \in V : HasVertex(g, v)
      /\ \A e \in E : HasEdge(g, e)
  BY <1>0, Iterated
<1>c. /\ \A v, w \in V : g.vid[v] = g.vid[w] => v = w
      /\ \A d, e \in E : g.eid[d] = g.eid[e] => d = e
  BY <1>a, <1>b, LiveIds
<1>d. ASSUME NEW D, D \subseteq E PROVE EdgeIds(D) \subseteq LiveArcs(g)
  BY <1>b, <1>d DEF EdgeIds
<1>e. ASSUME NEW D, D \subseteq V PROVE VertexIds(D) \subseteq LiveNodes(g)
  BY <1>b, <1>e DEF VertexIds
<1>f. ASSUME g' = g
      PROVE  /\ MissingVertices' = {v \in V : g.vid[v] \in mDisabledVertices'}
             /\ MissingEdges' = {e \in E : g.eid[e] \in mDisabledEdges'}
  BY <1>f DEF MissingVertices, MissingEdges, GraphVertices, GraphEdges, LiveNodes, LiveArcs
<1> HIDE DEF V, E
<1>1. CASE NewPercolation
  <2>1. /\ mDisabledVertices' = Ids \ LiveNodes(g) /\ mDisabledEdges' = Ids \ LiveArcs(g)
        /\ UNCHANGED vars /\ gone' = {} /\ g' = g
    BY <1>0, <1>1 DEF NewPercolation, GetSubGraph, Blank, vars
  <2>2. SInv'
    <3>1. IInv' /\ Mirrored' BY <1>0, <2>1, NextIInv, NextMirrored, MemberAssumption
    <3>2. Fresh' BY <2>1 DEF Fresh, LiveNodes, LiveArcs
    <3> QED BY <3>1, <3>2 DEF SInv
  <2>3. /\ \A v \in V : g.vid[v] \in LiveNodes(g)
        /\ \A e \in E : g.eid[e] \in LiveArcs(g)
    BY <1>b DEF VertexIds, EdgeIds
  <2> QED BY <1>f, <2>1, <2>2, <2>3
<1>2. CASE Reset
  <2>1. /\ mDisabledVertices' = mDisabledVertices \ VertexIds(V)
        /\ mDisabledEdges' = mDisabledEdges \ EdgeIds(E)
        /\ UNCHANGED vars /\ gone' = {}
    BY <1>2 DEF Reset, V, E
  <2>2. SInv' /\ g' = g BY <1>b, <2>1, ViewChange
  <2>3. /\ \A v \in V : g.vid[v] \notin mDisabledVertices'
        /\ \A e \in E : g.eid[e] \notin mDisabledEdges'
    BY <2>1 DEF VertexIds, EdgeIds
  <2> QED BY <1>f, <2>1, <2>2, <2>3
<1>3. ASSUME NEW vs, vs \subseteq EnabledVertices, RemoveVertices(vs)
      PROVE  SInv' /\ gone' = (MissingVertices \cup MissingEdges)'
  <2> DEFINE es == UNION {Incident(v) : v \in vs}
  <2>1. vs \subseteq V /\ es \subseteq E
    BY <1>3 DEF RemoveVertices, Incident, V, E
  <2>2. /\ mDisabledVertices' = mDisabledVertices \cup VertexIds(vs)
        /\ mDisabledEdges' = mDisabledEdges \cup EdgeIds(es)
        /\ UNCHANGED vars /\ gone' = gone \cup vs \cup es
    BY <1>0, <1>3 DEF RemoveVertices, EdgesDisabledWith
  <2> HIDE DEF es
  <2>3. SInv' /\ g' = g BY <1>d, <1>e, <2>1, <2>2, ViewChange
  <2>4. MissingVertices' = MissingVertices \cup vs
    BY <1>c, <1>f, <2>1, <2>2, <2>3 DEF MissingVertices, VertexIds, V
  <2>5. MissingEdges' = MissingEdges \cup es
    BY <1>c, <1>f, <2>1, <2>2, <2>3 DEF MissingEdges, EdgeIds, E
  <2> QED BY <2>2, <2>3, <2>4, <2>5
<1>4. ASSUME NEW es, es \subseteq EnabledEdges, RemoveEdgesOfView(es)
      PROVE  SInv' /\ gone' = (MissingVertices \cup MissingEdges)'
  <2> DEFINE none == {}
  <2>1. es \subseteq E /\ none \subseteq LiveNodes(g)
    BY <1>4 DEF RemoveEdgesOfView, E
  <2>2. /\ mDisabledVertices' = mDisabledVertices \cup none
        /\ mDisabledEdges' = mDisabledEdges \cup EdgeIds(es)
        /\ UNCHANGED vars /\ gone' = gone \cup es
    BY <1>4 DEF RemoveEdgesOfView
  <2>3. SInv' /\ g' = g
    <3> HIDE DEF none
    <3> QED BY <1>d, <2>1, <2>2, ViewChange
  <2>4. MissingVertices' = MissingVertices
    BY <1>f, <2>2, <2>3 DEF MissingVertices, V
  <2>5. MissingEdges' = MissingEdges \cup es
    BY <1>c, <1>f, <2>1, <2>2, <2>3 DEF MissingEdges, EdgeIds, E
  <2> QED BY <2>2, <2>3, <2>4, <2>5
<1> QED BY <1>1, <1>2, <1>3, <1>4

\* The graph changes under the view: what stays is as missing as it was, what
\* arrives is missing.
LEMMA MeanwhileStep ==
  ASSUME Consistent, SInv', EventsTellTheView, percolating, percolating', Meanwhile
  PROVE  EventsTellTheView'
<1>1. IInv /\ IInv' /\ Fresh /\ MemberMaps /\ RemovesEdgesFirst /\ GraphStep
  BY DEF Consistent, SInv, Meanwhile
<1>2. /\ \A v \in Vertices : HasVertex(g', v) =>
           (v \in EnabledVertices' <=> HasVertex(g, v) /\ v \in EnabledVertices)
      /\ \A e \in Edges : HasEdge(g', e) =>
           (e \in EnabledEdges' <=> HasEdge(g, e) /\ e \in EnabledEdges)
  BY <1>1, StepKeeps
<1>3. /\ \A v \in Vertices : v \in GraphVertices <=> HasVertex(g, v)
      /\ \A e \in Edges : e \in GraphEdges <=> HasEdge(g, e)
      /\ GraphVertices \subseteq Vertices /\ GraphEdges \subseteq Edges
  BY GraphOfView
<1>4. Consistent' BY DEF Consistent
<1>5. /\ \A v \in Vertices : v \in GraphVertices' <=> HasVertex(g', v)
      /\ \A e \in Edges : e \in GraphEdges' <=> HasEdge(g', e)
      /\ GraphVertices' \subseteq Vertices /\ GraphEdges' \subseteq Edges
  <2>1. ( /\ \A v \in Vertices : v \in GraphVertices <=> HasVertex(g, v)
          /\ \A e \in Edges : e \in GraphEdges <=> HasEdge(g, e)
          /\ GraphVertices \subseteq Vertices /\ GraphEdges \subseteq Edges )'
    BY <1>4, GraphOfView, PTL
  <2> QED BY <2>1 DEF HasVertex, HasEdge
<1>6. EnabledVertices \subseteq Vertices /\ EnabledEdges \subseteq Edges
  BY DEF EnabledVertices, EnabledEdges
<1>7. EnabledVertices' \subseteq Vertices /\ EnabledEdges' \subseteq Edges
  BY DEF EnabledVertices, EnabledEdges
<1>8. gone' = (gone \cap LiveElements') \cup (LiveElements' \ LiveElements)
  BY <1>1 DEF Meanwhile
<1>9. gone = LiveElements \ (EnabledVertices \cup EnabledEdges)
  BY DEF EventsTellTheView
<1>10. Vertices \cap Edges = {} BY DEF Consistent
<1>11. LiveElements' \ (EnabledVertices' \cup EnabledEdges') = gone'
  BY <1>2, <1>3, <1>5, <1>6, <1>7, <1>8, <1>9, <1>10 DEF LiveElements
<1> QED BY <1>11 DEF EventsTellTheView

\* Percolation's events tell what is left of the graph: a live element is
\* missing from the view exactly if an event since the last reset reported its
\* loss, or that of a vertex the view lost it with, or it arrived since.
THEOREM EventsTellAll ==
  ASSUME MemberMaps, RemovesEdgesFirst, Vertices \cap Edges = {}
  PROVE  PercSpec => []EventsTellTheView
<1> DEFINE PInv == Consistent /\ EventsTellTheView
<1>1. PercInit => PInv
  <2> SUFFICES ASSUME PercInit PROVE PInv OBVIOUS
  <2>1. SubInit /\ gone = {} BY DEF PercInit
  <2>2. Consistent BY <2>1, SubInitSInv DEF Consistent
  <2>3. g = Empty BY <2>1 DEF SubInit, Init
  <2>4. MissingVertices \cup MissingEdges = {}
    BY <2>3 DEF MissingVertices, MissingEdges, GraphVertices, GraphEdges,
                LiveNodes, LiveArcs, Empty
  <2> QED BY <2>1, <2>2, <2>4, MissingOfView DEF EventsTellTheView
<1>2. PInv /\ [PercNext]_<<vars, members, percVars>> => PInv'
  <2> SUFFICES ASSUME PInv, [PercNext]_<<vars, members, percVars>> PROVE PInv' OBVIOUS
  <2>0. Consistent /\ SInv /\ EventsTellTheView BY DEF Consistent
  <2>1. ASSUME SInv' PROVE Consistent' BY <2>1 DEF Consistent
  <2>2. ASSUME SInv', gone' = (MissingVertices \cup MissingEdges)' PROVE PInv'
    <3>1. Consistent' BY <2>1, <2>2
    <3>2. (LiveElements \ (EnabledVertices \cup EnabledEdges)
             = MissingVertices \cup MissingEdges)'
      BY <3>1, MissingOfView, PTL
    <3> QED BY <2>2, <3>1, <3>2 DEF EventsTellTheView
  <2>3. CASE percolating /\ percolating' /\ Meanwhile
    <3>1. SInv' BY <2>0, <2>3, SubNextSInv DEF Meanwhile, SubNext
    <3> QED BY <2>0, <2>1, <2>3, <3>1, MeanwhileStep
  <2>4. CASE percolating /\ \/ NewPercolation \/ Reset
                            \/ \E vs \in SUBSET EnabledVertices : RemoveVertices(vs)
                            \/ \E es \in SUBSET EnabledEdges : RemoveEdgesOfView(es)
    <3>1. gone = MissingVertices \cup MissingEdges
      BY <2>0, <2>4, MissingOfView DEF EventsTellTheView
    <3> QED BY <2>0, <2>2, <2>4, <3>1, PercolationStep
  <2>5. CASE ~percolating' /\ SubNext
    <3>1. SInv' BY <2>0, <2>5, SubNextSInv
    <3> QED BY <2>1, <2>5, <3>1 DEF EventsTellTheView
  <2>6. CASE UNCHANGED <<vars, members, percVars>>
    <3>1. SInv' BY <2>0, <2>6, SubNextSInv
    <3> QED BY <2>0, <2>1, <2>6, <3>1
        DEF EventsTellTheView, LiveElements, GraphVertices, GraphEdges, EnabledVertices,
            EnabledEdges, LiveNodes, LiveArcs, HasVertex, HasEdge, vars, members, percVars
  <2> QED BY <2>3, <2>4, <2>5, <2>6 DEF PercNext
<1>3. PInv => EventsTellTheView OBVIOUS
<1> HIDE DEF PInv
<1> QED BY <1>1, <1>2, <1>3, PTL DEF PercSpec
=============================================================================
