--------------------------- MODULE ComponentProofs ---------------------------
(***************************************************************************)
(* Theorems about components that have nothing in common: Delta, the table *)
(* of elements, CorrelationClustering, the filter manager, BoostGraph,     *)
(* Filters, SnapGraph, RandomDraw, BipartiteGraph and ConnectedComponents. *)
(***************************************************************************)
EXTENDS Delta, ElementRegistry, CorrelationClustering, FilterManager,
        BoostGraph, Filters, SnapGraph, RandomDraw, BipartiteGraph, ConnectedComponents,
        SequenceTheorems, DataInduction

(***************************************************************************)
(* Delta, for any two graphs and any number of runs.  The inductive        *)
(* invariant says what the vectors still hold: Harmless, that nothing they *)
(* remove is wanted and nothing they add is not, whatever the caller does; *)
(* Complete, as long as the caller leaves the source graph alone, that     *)
(* every difference left is listed.                                        *)
(***************************************************************************)
Listed(list) == {d[2] : d \in differences[list]}

Harmless ==
  /\ Intact(targetGraph)
  /\ Listed("removeEdges") \cap targetGraph.edges = {}
  /\ Listed("removeVertices") \cap targetGraph.vertices = {}
  /\ Listed("addVertices") \subseteq targetGraph.vertices
  /\ Listed("addEdges") \subseteq targetGraph.edges

Complete ==
  edits = 0 =>
    /\ Intact(sourceGraph) /\ op # "undefined"
    /\ runs = 0 => \A list \in Lists : differences[list] = {}
    /\ runs # 0 =>
         /\ sourceGraph.edges \subseteq targetGraph.edges \cup Listed("removeEdges")
         /\ sourceGraph.vertices \subseteq targetGraph.vertices \cup Listed("removeVertices")
         /\ targetGraph.vertices \subseteq sourceGraph.vertices \cup Listed("addVertices")
         /\ targetGraph.edges \subseteq sourceGraph.edges \cup Listed("addEdges")

DeltaInv == DeltaTypeOK /\ Harmless /\ Complete

\* At first nothing is listed.
LEMMA DeltaInitially == DeltaInit => DeltaInv
  <1> SUFFICES ASSUME DeltaInit PROVE DeltaInv
    OBVIOUS
  <1>1. DeltaTypeOK
    BY DeltaAssumption DEF DeltaInit, DeltaTypeOK, Lists
  <1>2. \A list \in Lists : Listed(list) = {} /\ differences[list] = {}
    BY DEF DeltaInit, Listed
  <1>3. Harmless
    BY <1>2 DEF DeltaInit, Harmless, Lists
  <1>4. Complete
    BY <1>2 DEF DeltaInit, Complete
  <1> QED BY <1>1, <1>3, <1>4 DEF DeltaInv

\* One difference d is popped from list.
Popped(list, d) ==
  /\ d \in differences[list]
  /\ differences' = [differences EXCEPT ![list] = @ \ {d}]
  /\ UNCHANGED <<targetGraph, runs, edits>>

\* The element that is taken leaves its list, unless it is there for another run,
\* and nothing else changes.
LEMMA PoppedLists ==
  ASSUME DeltaTypeOK, NEW list \in Lists, NEW d, Popped(list, d)
  PROVE  /\ \A other \in Lists \ {list} : Listed(other)' = Listed(other)
         /\ Listed(list)' \subseteq Listed(list)
         /\ Listed(list) \subseteq Listed(list)' \cup {d[2]}
         /\ d[2] \in Listed(list) /\ d[2] \in Members(list)
         /\ \A other \in Lists \ {list} : differences'[other] = differences[other]
         /\ differences' \in [Lists -> SUBSET ((0 .. MaxRuns - 1) \X (Vertices \cup Edges))]
         /\ \A l \in Lists : \A c \in differences'[l] : c[2] \in Members(l)
  <1> USE DEF Popped
  <1>0. differences \in [Lists -> SUBSET ((0 .. MaxRuns - 1) \X (Vertices \cup Edges))]
    BY DEF DeltaTypeOK
  <1>1. differences'[list] = differences[list] \ {d}
    BY <1>0
  <1>2. \A other \in Lists \ {list} : differences'[other] = differences[other]
    BY <1>0
  <1>3. \A other \in Lists \ {list} : Listed(other)' = Listed(other)
    BY <1>2 DEF Listed
  <1>4. /\ Listed(list)' \subseteq Listed(list)
        /\ Listed(list) \subseteq Listed(list)' \cup {d[2]}
        /\ d[2] \in Listed(list)
    BY <1>1 DEF Listed
  <1>5. differences' \in [Lists -> SUBSET ((0 .. MaxRuns - 1) \X (Vertices \cup Edges))]
    BY <1>0
  <1>6. \A l \in Lists : \A c \in differences'[l] : c[2] \in Members(l)
    BY <1>1, <1>2 DEF DeltaTypeOK
  <1>7. d[2] \in Members(list)
    BY DEF DeltaTypeOK
  <1> QED BY <1>2, <1>3, <1>4, <1>5, <1>6, <1>7

\* The differences are found and listed.
LEMMA RunKeeps == DeltaInv /\ Run => DeltaInv'
  <1> SUFFICES ASSUME DeltaInv, Run PROVE DeltaInv'
    OBVIOUS
  <1> USE DEF Run
  <1>1. /\ DeltaTypeOK /\ Harmless /\ Complete
    BY DEF DeltaInv
  <1>2. /\ Found.removeEdges \subseteq Edges \ targetGraph.edges
        /\ Found.removeVertices \subseteq Vertices \ targetGraph.vertices
        /\ Found.addVertices \subseteq targetGraph.vertices \cap Vertices
        /\ Found.addEdges \subseteq targetGraph.edges \cap Edges
    BY <1>1 DEF Found, DeltaTypeOK, Graphs
  <1>3. \A list \in Lists : Found[list] \subseteq Members(list)
    BY <1>2 DEF Lists, Members
  <1>4. \A list \in Lists : differences'[list] = differences[list] \cup {runs} \X Found[list]
    OBVIOUS
  <1>5. \A list \in Lists : Listed(list)' = Listed(list) \cup Found[list]
    <2> SUFFICES ASSUME NEW list \in Lists
                 PROVE  Listed(list)' = Listed(list) \cup Found[list]
      OBVIOUS
    <2>1. \A x \in Found[list] : <<runs, x>> \in {runs} \X Found[list] /\ <<runs, x>>[2] = x
      OBVIOUS
    <2>2. Found[list] \subseteq {d[2] : d \in {runs} \X Found[list]}
      BY <2>1
    <2>3. {d[2] : d \in {runs} \X Found[list]} \subseteq Found[list]
      OBVIOUS
    <2>4. differences'[list] = differences[list] \cup {runs} \X Found[list]
      BY <1>4
    <2> QED BY <2>2, <2>3, <2>4 DEF Listed
  <1>6. /\ runs \in 0 .. MaxRuns - 1 /\ runs' \in 0 .. MaxRuns
    BY <1>1, DeltaAssumption DEF DeltaTypeOK
  <1>7. DeltaTypeOK'
    <2>1. differences' \in [Lists -> SUBSET ((0 .. MaxRuns - 1) \X (Vertices \cup Edges))]
      <3>1. \A list \in Lists : Members(list) \subseteq Vertices \cup Edges
        BY DEF Members
      <3>2. \A list \in Lists :
              {runs} \X Found[list] \subseteq (0 .. MaxRuns - 1) \X (Vertices \cup Edges)
        BY <1>3, <1>6, <3>1
      <3>3. \A list \in Lists :
              differences[list] \in SUBSET ((0 .. MaxRuns - 1) \X (Vertices \cup Edges))
        BY <1>1 DEF DeltaTypeOK
      <3> QED BY <3>2, <3>3
    <2>2. \A list \in Lists : \A d \in differences'[list] : d[2] \in Members(list)
      BY <1>1, <1>3, <1>4 DEF DeltaTypeOK
    <2> QED BY <1>1, <1>6, <2>1, <2>2 DEF DeltaTypeOK
  <1>8. Harmless'
    BY <1>1, <1>2, <1>5 DEF Harmless, Lists
  <1>9. Complete'
    <2>1. CASE edits = 0
      <3>1. Intact(sourceGraph) /\ Intact(targetGraph)
        BY <1>1, <2>1 DEF Complete, Harmless
      <3>2. /\ sourceGraph.edges \subseteq targetGraph.edges \cup Found.removeEdges
            /\ sourceGraph.vertices \subseteq targetGraph.vertices \cup Found.removeVertices
            /\ targetGraph.vertices \subseteq sourceGraph.vertices \cup Found.addVertices
            /\ targetGraph.edges \subseteq sourceGraph.edges \cup Found.addEdges
        BY <3>1 DEF Found, Intact
      <3>3. runs' # 0
        BY <1>6
      <3> QED BY <1>5, <3>1, <3>2, <3>3 DEF Complete, Lists
    <2>2. CASE edits # 0
      BY <2>2 DEF Complete
    <2> QED BY <2>1, <2>2
  <1> QED BY <1>7, <1>8, <1>9 DEF DeltaInv

\* What the graph calls leave is a graph.
LEMMA CallTypes ==
  ASSUME NEW h \in Graphs
  PROVE  /\ \A v \in Vertices : AddVertex(h, v).graph \in Graphs
         /\ \A v \in Vertices : RemoveVertex(h, v).graph \in Graphs
         /\ \A e \in Edges : AddEdge(h, e).graph \in Graphs
         /\ \A e \in Edges : RemoveEdge(h, e).graph \in Graphs
         /\ \A v \in Vertices : AddVertex(h, v).op \in {"idle", "raised"}
         /\ \A v \in Vertices : RemoveVertex(h, v).op \in {"idle", "raised"}
         /\ \A e \in Edges : AddEdge(h, e).op \in {"idle", "raised"}
         /\ \A e \in Edges : RemoveEdge(h, e).op \in {"idle", "raised", "undefined"}
  <1> USE DEF Graphs, Done, Raised
  <1>1. ASSUME NEW v \in Vertices
        PROVE  AddVertex(h, v).graph \in Graphs /\ AddVertex(h, v).op \in {"idle", "raised"}
    BY DEF AddVertex
  <1>2. ASSUME NEW v \in Vertices
        PROVE  RemoveVertex(h, v).graph \in Graphs /\ RemoveVertex(h, v).op \in {"idle", "raised"}
    BY DEF RemoveVertex
  <1>3. ASSUME NEW e \in Edges
        PROVE  AddEdge(h, e).graph \in Graphs /\ AddEdge(h, e).op \in {"idle", "raised"}
    BY DeltaAssumption DEF AddEdge, Ends
  <1>4. ASSUME NEW e \in Edges
        PROVE  /\ RemoveEdge(h, e).graph \in Graphs
               /\ RemoveEdge(h, e).op \in {"idle", "raised", "undefined"}
    BY DEF RemoveEdge
  <1> QED BY <1>1, <1>2, <1>3, <1>4

\* Harmless survives as long as only the source graph changes and a vector shrinks.
LEMMA PoppedHarmless ==
  ASSUME DeltaInv, NEW list \in Lists, NEW d, Popped(list, d),
         sourceGraph' \in Graphs, op' \in {"idle", "raised", "undefined"}
  PROVE  DeltaTypeOK' /\ Harmless'
  <1>1. DeltaTypeOK /\ Harmless
    BY DEF DeltaInv
  <1>2. \A other \in Lists : Listed(other)' \subseteq Listed(other)
    BY <1>1, PoppedLists
  <1>3. /\ differences' \in [Lists -> SUBSET ((0 .. MaxRuns - 1) \X (Vertices \cup Edges))]
        /\ \A l \in Lists : \A c \in differences'[l] : c[2] \in Members(l)
    BY <1>1, PoppedLists
  <1>4. DeltaTypeOK'
    BY <1>1, <1>3 DEF DeltaTypeOK, Popped
  <1>5. Harmless'
    BY <1>1, <1>2 DEF Harmless, Popped, Lists
  <1> QED BY <1>4, <1>5

\* An edge is removed ...
LEMMA RemoveNextEdgeKeeps == DeltaInv /\ RemoveNextEdge => DeltaInv'
  <1> SUFFICES ASSUME DeltaInv, RemoveNextEdge PROVE DeltaInv'
    OBVIOUS
  <1>1. DeltaTypeOK /\ Harmless /\ Complete
    BY DEF DeltaInv
  <1>2. PICK d : /\ Popped("removeEdges", d)
                 /\ sourceGraph' = RemoveEdge(sourceGraph, d[2]).graph
                 /\ op' = RemoveEdge(sourceGraph, d[2]).op
    BY DEF RemoveNextEdge, Apply, Popped, Backs
  <1>3. "removeEdges" \in Lists /\ Members("removeEdges") = Edges
    BY DEF Lists, Members
  <1>4. /\ d[2] \in Edges
        /\ Listed("removeEdges") \subseteq Listed("removeEdges")' \cup {d[2]}
        /\ \A other \in Lists \ {"removeEdges"} : Listed(other)' = Listed(other)
        /\ d[2] \in Listed("removeEdges")
        /\ \A other \in Lists : differences[other] = {} => differences'[other] = {}
    BY <1>1, <1>2, <1>3, PoppedLists DEF Popped, DeltaTypeOK
  <1>5. sourceGraph' \in Graphs /\ op' \in {"idle", "raised", "undefined"}
    BY <1>1, <1>2, <1>4, CallTypes DEF DeltaTypeOK
  <1>6. DeltaTypeOK' /\ Harmless'
    BY <1>2, <1>3, <1>5, PoppedHarmless
  <1>7. ASSUME edits = 0
        PROVE  /\ Intact(sourceGraph)' /\ op' # "undefined"
               /\ sourceGraph'.edges = sourceGraph.edges \ {d[2]}
               /\ sourceGraph'.vertices = sourceGraph.vertices
    <2>1. Intact(sourceGraph) /\ sourceGraph \in Graphs
      BY <1>1, <1>7 DEF Complete, DeltaTypeOK
    <2> QED BY <1>2, <2>1 DEF RemoveEdge, Done, Raised, Intact, Graphs
  <1>8. d[2] \notin targetGraph.edges
    BY <1>1, <1>4 DEF Harmless
  <1>9. Complete'
    <2> SUFFICES ASSUME edits = 0 PROVE Complete'
      BY <1>2 DEF Complete, Popped
    <2>1. runs # 0 /\ runs' = runs /\ targetGraph' = targetGraph
      BY <1>1, <1>2, <1>3 DEF Complete, Popped
    <2>2. /\ sourceGraph.edges \subseteq targetGraph.edges \cup Listed("removeEdges")
          /\ sourceGraph.vertices \subseteq targetGraph.vertices \cup Listed("removeVertices")
          /\ targetGraph.vertices \subseteq sourceGraph.vertices \cup Listed("addVertices")
          /\ targetGraph.edges \subseteq sourceGraph.edges \cup Listed("addEdges")
      BY <1>1, <2>1 DEF Complete
    <2>3. /\ sourceGraph'.edges \subseteq targetGraph.edges \cup Listed("removeEdges")'
          /\ sourceGraph'.vertices \subseteq targetGraph.vertices \cup Listed("removeVertices")'
          /\ targetGraph.vertices \subseteq sourceGraph'.vertices \cup Listed("addVertices")'
          /\ targetGraph.edges \subseteq sourceGraph'.edges \cup Listed("addEdges")'
      BY <1>4, <1>7, <1>8, <2>2 DEF Lists
    <2> QED BY <2>1, <2>3, <1>7 DEF Complete
  <1> QED BY <1>6, <1>9 DEF DeltaInv

\* ... a vertex is removed ...
LEMMA RemoveNextVertexKeeps == DeltaInv /\ RemoveNextVertex => DeltaInv'
  <1> SUFFICES ASSUME DeltaInv, RemoveNextVertex PROVE DeltaInv'
    OBVIOUS
  <1>1. DeltaTypeOK /\ Harmless /\ Complete
    BY DEF DeltaInv
  <1>2. PICK d : /\ Popped("removeVertices", d)
                 /\ sourceGraph' = RemoveVertex(sourceGraph, d[2]).graph
                 /\ op' = RemoveVertex(sourceGraph, d[2]).op
    BY DEF RemoveNextVertex, Apply, Popped, Backs
  <1>3. "removeVertices" \in Lists /\ Members("removeVertices") = Vertices
    BY DEF Lists, Members
  <1>4. /\ d[2] \in Vertices
        /\ Listed("removeVertices") \subseteq Listed("removeVertices")' \cup {d[2]}
        /\ \A other \in Lists \ {"removeVertices"} : Listed(other)' = Listed(other)
        /\ d[2] \in Listed("removeVertices")
        /\ \A other \in Lists : differences[other] = {} => differences'[other] = {}
    BY <1>1, <1>2, <1>3, PoppedLists DEF Popped, DeltaTypeOK
  <1>5. sourceGraph' \in Graphs /\ op' \in {"idle", "raised"}
    BY <1>1, <1>2, <1>4, CallTypes DEF DeltaTypeOK
  <1>6. DeltaTypeOK' /\ Harmless'
    BY <1>2, <1>3, <1>5, PoppedHarmless
  <1>7. ASSUME edits = 0
        PROVE  /\ Intact(sourceGraph)'
               /\ sourceGraph'.edges = sourceGraph.edges
               /\ sourceGraph'.vertices = sourceGraph.vertices \ {d[2]}
    \* Once the edges to remove are gone, every edge left is the target graph's.
    <2>1. Intact(sourceGraph) /\ sourceGraph \in Graphs /\ Intact(targetGraph)
      BY <1>1, <1>7 DEF Complete, DeltaTypeOK, Harmless
    <2>2. Listed("removeEdges") = {}
      BY DEF RemoveNextVertex, Drained, Listed
    <2>3. runs # 0
      BY <1>1, <1>2, <1>3, <1>7 DEF Complete, Popped
    <2>4. sourceGraph.edges \subseteq targetGraph.edges
      BY <1>1, <1>7, <2>2, <2>3 DEF Complete, DeltaTypeOK
    <2>5. d[2] \notin targetGraph.vertices
      BY <1>1, <1>4 DEF Harmless
    <2>6. \A e \in sourceGraph.edges : d[2] \notin Ends(e)
      BY <2>1, <2>4, <2>5 DEF Intact
    <2>7. sourceGraph'.edges = sourceGraph.edges /\ sourceGraph'.vertices = sourceGraph.vertices \ {d[2]}
      BY <1>2, <2>1 DEF RemoveVertex, Done, Raised, Graphs
    <2>8. sourceGraph'.arcs = sourceGraph.arcs
      BY <1>2, <2>1, <2>6 DEF RemoveVertex, Done, Raised, Intact, Graphs
    <2> QED BY <2>1, <2>6, <2>7, <2>8 DEF Intact
  <1>8. d[2] \notin targetGraph.vertices
    BY <1>1, <1>4 DEF Harmless
  <1>9. Complete'
    <2> SUFFICES ASSUME edits = 0 PROVE Complete'
      BY <1>2 DEF Complete, Popped
    <2>1. runs # 0 /\ runs' = runs /\ targetGraph' = targetGraph
      BY <1>1, <1>2, <1>3 DEF Complete, Popped
    <2>2. /\ sourceGraph.edges \subseteq targetGraph.edges \cup Listed("removeEdges")
          /\ sourceGraph.vertices \subseteq targetGraph.vertices \cup Listed("removeVertices")
          /\ targetGraph.vertices \subseteq sourceGraph.vertices \cup Listed("addVertices")
          /\ targetGraph.edges \subseteq sourceGraph.edges \cup Listed("addEdges")
      BY <1>1, <2>1 DEF Complete
    <2>3. /\ sourceGraph'.edges \subseteq targetGraph.edges \cup Listed("removeEdges")'
          /\ sourceGraph'.vertices \subseteq targetGraph.vertices \cup Listed("removeVertices")'
          /\ targetGraph.vertices \subseteq sourceGraph'.vertices \cup Listed("addVertices")'
          /\ targetGraph.edges \subseteq sourceGraph'.edges \cup Listed("addEdges")'
      BY <1>4, <1>7, <1>8, <2>2 DEF Lists
    <2> QED BY <2>1, <2>3, <1>5, <1>7 DEF Complete
  <1> QED BY <1>6, <1>9 DEF DeltaInv

\* ... a vertex is added ...
LEMMA AddNextVertexKeeps == DeltaInv /\ AddNextVertex => DeltaInv'
  <1> SUFFICES ASSUME DeltaInv, AddNextVertex PROVE DeltaInv'
    OBVIOUS
  <1>1. DeltaTypeOK /\ Harmless /\ Complete
    BY DEF DeltaInv
  <1>2. PICK d : /\ Popped("addVertices", d)
                 /\ sourceGraph' = AddVertex(sourceGraph, d[2]).graph
                 /\ op' = AddVertex(sourceGraph, d[2]).op
    BY DEF AddNextVertex, Apply, Popped, Backs
  <1>3. "addVertices" \in Lists /\ Members("addVertices") = Vertices
    BY DEF Lists, Members
  <1>4. /\ d[2] \in Vertices
        /\ Listed("addVertices") \subseteq Listed("addVertices")' \cup {d[2]}
        /\ \A other \in Lists \ {"addVertices"} : Listed(other)' = Listed(other)
        /\ d[2] \in Listed("addVertices")
        /\ \A other \in Lists : differences[other] = {} => differences'[other] = {}
    BY <1>1, <1>2, <1>3, PoppedLists DEF Popped, DeltaTypeOK
  <1>5. sourceGraph' \in Graphs /\ op' \in {"idle", "raised"}
    BY <1>1, <1>2, <1>4, CallTypes DEF DeltaTypeOK
  <1>6. DeltaTypeOK' /\ Harmless'
    BY <1>2, <1>3, <1>5, PoppedHarmless
  <1>7. /\ sourceGraph'.edges = sourceGraph.edges /\ sourceGraph'.arcs = sourceGraph.arcs
        /\ sourceGraph'.vertices = sourceGraph.vertices \cup {d[2]}
    BY <1>1, <1>2 DEF AddVertex, Done, Raised, Graphs, DeltaTypeOK
  <1>8. d[2] \in targetGraph.vertices
    BY <1>1, <1>4 DEF Harmless
  <1>9. ASSUME edits = 0 PROVE Intact(sourceGraph)'
    BY <1>1, <1>7, <1>9 DEF Complete, Intact
  <1>10. Complete'
    <2> SUFFICES ASSUME edits = 0 PROVE Complete'
      BY <1>2 DEF Complete, Popped
    <2>1. runs # 0 /\ runs' = runs /\ targetGraph' = targetGraph
      BY <1>1, <1>2, <1>3 DEF Complete, Popped
    <2>2. /\ sourceGraph.edges \subseteq targetGraph.edges \cup Listed("removeEdges")
          /\ sourceGraph.vertices \subseteq targetGraph.vertices \cup Listed("removeVertices")
          /\ targetGraph.vertices \subseteq sourceGraph.vertices \cup Listed("addVertices")
          /\ targetGraph.edges \subseteq sourceGraph.edges \cup Listed("addEdges")
      BY <1>1, <2>1 DEF Complete
    <2>3. /\ sourceGraph'.edges \subseteq targetGraph.edges \cup Listed("removeEdges")'
          /\ sourceGraph'.vertices \subseteq targetGraph.vertices \cup Listed("removeVertices")'
          /\ targetGraph.vertices \subseteq sourceGraph'.vertices \cup Listed("addVertices")'
          /\ targetGraph.edges \subseteq sourceGraph'.edges \cup Listed("addEdges")'
      BY <1>4, <1>7, <1>8, <2>2 DEF Lists
    <2> QED BY <2>1, <2>3, <1>5, <1>9 DEF Complete
  <1> QED BY <1>6, <1>10 DEF DeltaInv

\* ... or an edge is added: the invariant stays.
LEMMA AddNextEdgeKeeps == DeltaInv /\ AddNextEdge => DeltaInv'
  <1> SUFFICES ASSUME DeltaInv, AddNextEdge PROVE DeltaInv'
    OBVIOUS
  <1>1. DeltaTypeOK /\ Harmless /\ Complete
    BY DEF DeltaInv
  <1>2. PICK d : /\ Popped("addEdges", d)
                 /\ sourceGraph' = AddEdge(sourceGraph, d[2]).graph
                 /\ op' = AddEdge(sourceGraph, d[2]).op
    BY DEF AddNextEdge, Apply, Popped, Backs
  <1>3. "addEdges" \in Lists /\ Members("addEdges") = Edges
    BY DEF Lists, Members
  <1>4. /\ d[2] \in Edges
        /\ Listed("addEdges") \subseteq Listed("addEdges")' \cup {d[2]}
        /\ \A other \in Lists \ {"addEdges"} : Listed(other)' = Listed(other)
        /\ d[2] \in Listed("addEdges")
        /\ \A other \in Lists : differences[other] = {} => differences'[other] = {}
    BY <1>1, <1>2, <1>3, PoppedLists DEF Popped, DeltaTypeOK
  <1>5. sourceGraph' \in Graphs /\ op' \in {"idle", "raised"}
    BY <1>1, <1>2, <1>4, CallTypes DEF DeltaTypeOK
  <1>6. DeltaTypeOK' /\ Harmless'
    BY <1>2, <1>3, <1>5, PoppedHarmless
  <1>7. d[2] \in targetGraph.edges /\ Ends(d[2]) \subseteq targetGraph.vertices
    BY <1>1, <1>4 DEF Harmless, Intact
  <1>8. /\ sourceGraph'.edges = sourceGraph.edges \cup {d[2]}
        /\ sourceGraph.vertices \subseteq sourceGraph'.vertices
        /\ sourceGraph'.vertices \subseteq sourceGraph.vertices \cup targetGraph.vertices
    BY <1>1, <1>2, <1>7 DEF AddEdge, Done, Raised, Graphs, DeltaTypeOK
  <1>9. ASSUME edits = 0 PROVE Intact(sourceGraph)'
    BY <1>1, <1>2, <1>9 DEF Complete, Intact, AddEdge, Done, Raised
  <1>10. Complete'
    <2> SUFFICES ASSUME edits = 0 PROVE Complete'
      BY <1>2 DEF Complete, Popped
    <2>1. runs # 0 /\ runs' = runs /\ targetGraph' = targetGraph
      BY <1>1, <1>2, <1>3 DEF Complete, Popped
    <2>2. /\ sourceGraph.edges \subseteq targetGraph.edges \cup Listed("removeEdges")
          /\ sourceGraph.vertices \subseteq targetGraph.vertices \cup Listed("removeVertices")
          /\ targetGraph.vertices \subseteq sourceGraph.vertices \cup Listed("addVertices")
          /\ targetGraph.edges \subseteq sourceGraph.edges \cup Listed("addEdges")
      BY <1>1, <2>1 DEF Complete
    <2>3. /\ sourceGraph'.edges \subseteq targetGraph.edges \cup Listed("removeEdges")'
          /\ sourceGraph'.vertices \subseteq targetGraph.vertices \cup Listed("removeVertices")'
          /\ targetGraph.vertices \subseteq sourceGraph'.vertices \cup Listed("addVertices")'
          /\ targetGraph.edges \subseteq sourceGraph'.edges \cup Listed("addEdges")'
      BY <1>4, <1>7, <1>8, <2>2 DEF Lists
    <2> QED BY <2>1, <2>3, <1>5, <1>9 DEF Complete
  <1> QED BY <1>6, <1>10 DEF DeltaInv

\* The source graph changes by itself.
LEMMA EditKeeps == DeltaInv /\ Edit => DeltaInv'
  <1> SUFFICES ASSUME DeltaInv, Edit PROVE DeltaInv'
    OBVIOUS
  <1>1. DeltaTypeOK /\ Harmless
    BY DEF DeltaInv
  <1>2. sourceGraph' \in Graphs
    BY <1>1, CallTypes DEF Edit, DeltaTypeOK
  <1>3. edits' \in 1 .. MaxEdits
    BY <1>1, DeltaAssumption DEF Edit, DeltaTypeOK
  <1>4. DeltaTypeOK'
    BY <1>1, <1>2, <1>3 DEF Edit, DeltaTypeOK
  <1>5. Harmless'
    BY <1>1 DEF Edit, Harmless, Listed
  <1>6. Complete'
    BY <1>3 DEF Complete
  <1> QED BY <1>4, <1>5, <1>6 DEF DeltaInv

\* Every step keeps the invariant.
LEMMA DeltaStep == DeltaInv /\ [DeltaNext]_deltaVars => DeltaInv'
  <1> SUFFICES ASSUME DeltaInv, [DeltaNext]_deltaVars PROVE DeltaInv'
    OBVIOUS
  <1>1. CASE Run
    BY <1>1, RunKeeps
  <1>2. CASE RemoveNextEdge
    BY <1>2, RemoveNextEdgeKeeps
  <1>3. CASE RemoveNextVertex
    BY <1>3, RemoveNextVertexKeeps
  <1>4. CASE AddNextVertex
    BY <1>4, AddNextVertexKeeps
  <1>5. CASE AddNextEdge
    BY <1>5, AddNextEdgeKeeps
  <1>6. CASE NothingNext
    BY <1>6 DEF NothingNext, DeltaInv, DeltaTypeOK, Harmless, Complete, Listed, Intact
  <1>7. CASE Edit
    BY <1>7, EditKeeps
  <1>8. CASE UNCHANGED deltaVars
    BY <1>8 DEF deltaVars, DeltaInv, DeltaTypeOK, Harmless, Complete, Listed, Intact
  <1> QED BY <1>1, <1>2, <1>3, <1>4, <1>5, <1>6, <1>7, <1>8 DEF DeltaNext, GetNext

\* The invariant holds throughout.
LEMMA DeltaInvariant == DeltaSpec => []DeltaInv
  BY DeltaInitially, DeltaStep, PTL DEF DeltaSpec

\* Type correctness of Delta.
THEOREM DeltaTypeCorrect == DeltaSpec => []DeltaTypeOK
  <1>1. DeltaInv => DeltaTypeOK
    BY DEF DeltaInv
  <1> QED BY <1>1, DeltaInvariant, PTL

\* The graphs getNext returns are never left with an edge without its end
\* points: the vectors are applied in an order that keeps the source graph
\* whole, between any two graphs and for any number of runs.
THEOREM DeltaStepsAreGraphs == DeltaSpec => []StepsAreGraphs
  <1>1. DeltaInv => StepsAreGraphs
    BY DEF DeltaInv, Complete, StepsAreGraphs
  <1> QED BY <1>1, DeltaInvariant, PTL

\* Once run() has been called and hasNext() is false, the source graph is the
\* target graph.
THEOREM DeltaReachesTarget == DeltaSpec => []ReachesTarget
  <1>1. ASSUME DeltaInv PROVE ReachesTarget
    <2> SUFFICES ASSUME edits = 0, runs > 0, ~HasNext
                 PROVE  sourceGraph = targetGraph
      BY DEF ReachesTarget
    <2>1. \A list \in Lists : Listed(list) = {}
      BY DEF HasNext, Drained, Listed
    <2>2. /\ sourceGraph.edges \subseteq targetGraph.edges
          /\ sourceGraph.vertices \subseteq targetGraph.vertices
          /\ targetGraph.vertices \subseteq sourceGraph.vertices
          /\ targetGraph.edges \subseteq sourceGraph.edges
      BY <1>1, <2>1 DEF DeltaInv, Complete, Lists
    <2>3. sourceGraph.arcs = sourceGraph.edges /\ targetGraph.arcs = targetGraph.edges
      BY <1>1 DEF DeltaInv, Complete, Harmless, Intact
    <2>4. /\ sourceGraph \in [vertices : SUBSET Vertices, edges : SUBSET Edges, arcs : SUBSET Edges]
          /\ targetGraph \in [vertices : SUBSET Vertices, edges : SUBSET Edges, arcs : SUBSET Edges]
      BY <1>1 DEF DeltaInv, DeltaTypeOK, Graphs
    <2>5. sourceGraph.vertices = targetGraph.vertices
      BY <2>2
    <2>6. sourceGraph.edges = targetGraph.edges
      BY <2>2
    <2> QED BY <2>3, <2>4, <2>5, <2>6
  <1> QED BY <1>1, DeltaInvariant, PTL

\* getNext takes nothing away that both graphs have, also when the caller has
\* changed the source graph since run().
THEOREM DeltaCommonStays == DeltaSpec => CommonStays
  <1> DEFINE Kept ==
        /\ sourceGraph.vertices \cap targetGraph.vertices \subseteq sourceGraph'.vertices
        /\ sourceGraph.edges \cap targetGraph.edges \subseteq sourceGraph'.edges
        /\ sourceGraph.arcs \cap targetGraph.arcs \subseteq sourceGraph'.arcs
  <1>1. ASSUME DeltaInv, GetNext PROVE Kept
    <2>1. /\ DeltaTypeOK /\ Harmless /\ sourceGraph \in Graphs /\ targetGraph \in Graphs
          /\ Intact(targetGraph)
      BY <1>1 DEF DeltaInv, DeltaTypeOK, Harmless
    <2>2. CASE RemoveNextEdge
      <3>1. PICK d \in differences["removeEdges"] :
              sourceGraph' = RemoveEdge(sourceGraph, d[2]).graph
        BY <2>2 DEF RemoveNextEdge, Apply, Backs
      <3>2. d[2] \notin targetGraph.edges /\ d[2] \notin targetGraph.arcs
        BY <2>1, <3>1 DEF Harmless, Listed, Graphs
      <3> QED BY <2>1, <3>1, <3>2 DEF RemoveEdge, Done, Raised, Graphs
    <2>3. CASE RemoveNextVertex
      <3>1. PICK d \in differences["removeVertices"] :
              sourceGraph' = RemoveVertex(sourceGraph, d[2]).graph
        BY <2>3 DEF RemoveNextVertex, Apply, Backs
      <3>2. d[2] \notin targetGraph.vertices
        BY <2>1, <3>1 DEF Harmless, Listed
      <3>3. \A e \in targetGraph.arcs : d[2] \notin Ends(e)
        BY <2>1, <3>2 DEF Intact
      <3> QED BY <2>1, <3>1, <3>2, <3>3 DEF RemoveVertex, Done, Raised, Graphs
    <2>4. CASE AddNextVertex
      BY <2>1, <2>4 DEF AddNextVertex, Apply, AddVertex, Done, Raised, Graphs
    <2>5. CASE AddNextEdge
      BY <2>1, <2>5 DEF AddNextEdge, Apply, AddEdge, Done, Raised, Graphs
    <2>6. CASE NothingNext
      BY <2>6 DEF NothingNext
    <2> QED BY <1>1, <2>2, <2>3, <2>4, <2>5, <2>6 DEF GetNext
  <1>2. DeltaInv /\ [DeltaNext]_deltaVars => [GetNext => Kept]_deltaVars
    BY <1>1
  <1> QED BY <1>2, DeltaInvariant, PTL DEF DeltaSpec, CommonStays

-----------------------------------------------------------------------------
(* After one run, what the vectors hold is exactly what is left to do: no   *)
(* difference twice, none already applied.                                  *)

Unapplied ==
  /\ Listed("removeEdges") \subseteq sourceGraph.edges
  /\ Listed("removeVertices") \subseteq sourceGraph.vertices
  /\ Listed("addVertices") \cap sourceGraph.vertices = {}
  /\ Listed("addEdges") \cap sourceGraph.edges = {}

Exact ==
  /\ runs = 0 => \A list \in Lists : differences[list] = {}
  /\ runs = 1 /\ edits = 0 =>
       /\ \A list \in Lists : \A d \in differences[list] : d[1] = 0
       /\ Unapplied

\* With one run, what is popped is not in the vector again.
LEMMA PoppedOnce ==
  ASSUME DeltaTypeOK, NEW list \in Lists, NEW d, Popped(list, d),
         \A c \in differences[list] : c[1] = 0
  PROVE  d[2] \notin Listed(list)'
  <1>1. differences[list] \subseteq (0 .. MaxRuns - 1) \X (Vertices \cup Edges)
    BY DEF DeltaTypeOK
  <1>2. \A c \in differences[list] : c = <<0, c[2]>>
    BY <1>1
  <1>3. \A c \in differences[list] \ {d} : c[2] # d[2]
    BY <1>2 DEF Popped
  <1>4. differences'[list] = differences[list] \ {d}
    BY DEF Popped, DeltaTypeOK
  <1> QED BY <1>3, <1>4 DEF Listed

\* A popped difference that was Unapplied, and the list it leaves.
LEMMA PoppedUnapplied ==
  ASSUME DeltaInv, Exact, NEW list \in Lists, NEW d, Popped(list, d), runs = 1, edits = 0
  PROVE  /\ \A l \in Lists : \A c \in differences'[l] : c[1] = 0
         /\ \A other \in Lists : Listed(other)' \subseteq Listed(other)
         /\ d[2] \in Listed(list) /\ d[2] \notin Listed(list)'
         /\ d[2] \in Members(list)
         /\ Unapplied /\ Intact(sourceGraph) /\ sourceGraph \in Graphs
  <1>1. DeltaTypeOK /\ Complete
    BY DEF DeltaInv
  <1>2. /\ \A other \in Lists : Listed(other)' \subseteq Listed(other)
        /\ d[2] \in Listed(list) /\ d[2] \in Members(list)
    BY <1>1, PoppedLists
  <1>3. (\A l \in Lists : \A c \in differences[l] : c[1] = 0) /\ Unapplied
    BY DEF Exact
  <1>4. \A l \in Lists : \A c \in differences'[l] : c[1] = 0
    BY <1>1, <1>3 DEF Popped, DeltaTypeOK
  <1>5. d[2] \notin Listed(list)'
    BY <1>1, <1>3, PoppedOnce
  <1>6. Intact(sourceGraph) /\ sourceGraph \in Graphs
    BY <1>1 DEF Complete, DeltaTypeOK
  <1> QED BY <1>2, <1>3, <1>4, <1>5, <1>6

\* While there is one run only and no edit, getNext applies what was found.
LEMMA GetNextExact ==
  ASSUME DeltaInv, Exact, GetNext, HasNext, runs = 1, edits = 0
  PROVE  /\ op' = "idle" /\ Unapplied'
         /\ \A l \in Lists : \A c \in differences'[l] : c[1] = 0
  <1> USE DEF Unapplied, Done, Raised
  <1>1. CASE RemoveNextEdge
    <2>1. PICK d : /\ Popped("removeEdges", d)
                   /\ sourceGraph' = RemoveEdge(sourceGraph, d[2]).graph
                   /\ op' = RemoveEdge(sourceGraph, d[2]).op
      BY <1>1 DEF RemoveNextEdge, Apply, Popped, Backs
    <2>2. "removeEdges" \in Lists
      BY DEF Lists
    <2>3. d[2] \in sourceGraph.edges /\ d[2] \in sourceGraph.arcs
      BY <2>1, <2>2, PoppedUnapplied DEF Intact
    <2>4. op' = "idle" /\ sourceGraph' = [sourceGraph EXCEPT !.edges = @ \ {d[2]}, !.arcs = @ \ {d[2]}]
      BY <2>1, <2>3 DEF RemoveEdge
    <2>5. sourceGraph'.edges = sourceGraph.edges \ {d[2]} /\ sourceGraph'.vertices = sourceGraph.vertices
      BY <2>1, <2>2, <2>4, PoppedUnapplied DEF Graphs
    <2> QED BY <2>1, <2>2, <2>4, <2>5, PoppedUnapplied DEF Lists
  <1>2. CASE RemoveNextVertex
    <2>1. PICK d : /\ Popped("removeVertices", d)
                   /\ sourceGraph' = RemoveVertex(sourceGraph, d[2]).graph
                   /\ op' = RemoveVertex(sourceGraph, d[2]).op
      BY <1>2 DEF RemoveNextVertex, Apply, Popped, Backs
    <2>2. "removeVertices" \in Lists
      BY DEF Lists
    <2>3. d[2] \in sourceGraph.vertices
      BY <2>1, <2>2, PoppedUnapplied
    <2>4. /\ op' = "idle"
          /\ sourceGraph'.vertices = sourceGraph.vertices \ {d[2]}
          /\ sourceGraph'.edges = sourceGraph.edges
      BY <2>1, <2>2, <2>3, PoppedUnapplied DEF RemoveVertex, Graphs
    <2> QED BY <2>1, <2>2, <2>4, PoppedUnapplied DEF Lists
  <1>3. CASE AddNextVertex
    <2>1. PICK d : /\ Popped("addVertices", d)
                   /\ sourceGraph' = AddVertex(sourceGraph, d[2]).graph
                   /\ op' = AddVertex(sourceGraph, d[2]).op
                   /\ differences["removeVertices"] = {}
      BY <1>3 DEF AddNextVertex, Apply, Popped, Backs, Drained
    <2>2. "addVertices" \in Lists /\ "removeVertices" \in Lists
      BY DEF Lists
    <2>3. d[2] \notin sourceGraph.vertices
      BY <2>1, <2>2, PoppedUnapplied
    <2>4. /\ op' = "idle"
          /\ sourceGraph'.vertices = sourceGraph.vertices \cup {d[2]}
          /\ sourceGraph'.edges = sourceGraph.edges
      BY <2>1, <2>2, <2>3, PoppedUnapplied DEF AddVertex, Graphs
    <2> QED BY <2>1, <2>2, <2>4, PoppedUnapplied DEF Lists
  <1>4. CASE AddNextEdge
    <2>1. PICK d : /\ Popped("addEdges", d)
                   /\ sourceGraph' = AddEdge(sourceGraph, d[2]).graph
                   /\ op' = AddEdge(sourceGraph, d[2]).op
                   /\ differences["addVertices"] = {}
      BY <1>4 DEF AddNextEdge, Apply, Popped, Backs, Drained
    <2>2. "addEdges" \in Lists /\ "addVertices" \in Lists
      BY DEF Lists
    <2>3. d[2] \notin sourceGraph.edges
      BY <2>1, <2>2, PoppedUnapplied
    <2>4. /\ op' = "idle"
          /\ sourceGraph.vertices \subseteq sourceGraph'.vertices
          /\ sourceGraph'.edges = sourceGraph.edges \cup {d[2]}
      BY <2>1, <2>3 DEF AddEdge
    <2>5. Listed("addVertices") = {}
      BY <2>1 DEF Listed
    <2> QED BY <2>1, <2>2, <2>4, <2>5, PoppedUnapplied DEF Lists
  <1>5. CASE NothingNext
    BY <1>5 DEF NothingNext, HasNext
  <1> QED BY <1>1, <1>2, <1>3, <1>4, <1>5 DEF GetNext

\* That stays so.
LEMMA ExactStep == DeltaInv /\ Exact /\ [DeltaNext]_deltaVars => Exact'
  <1> SUFFICES ASSUME DeltaInv, Exact, [DeltaNext]_deltaVars PROVE Exact'
    OBVIOUS
  <1>1. DeltaTypeOK
    BY DEF DeltaInv
  <1>2. CASE Run
    <2> USE <1>2 DEF Run
    <2>1. runs' # 0
      BY <1>1 DEF DeltaTypeOK
    <2>2. ASSUME runs' = 1 PROVE (\A l \in Lists : \A d \in differences'[l] : d[1] = 0) /\ Unapplied'
      <3>1. runs = 0
        BY <1>1, <2>2 DEF DeltaTypeOK
      <3>2. \A list \in Lists : differences'[list] = {0} \X Found[list]
        BY <3>1 DEF Exact
      <3>3. \A list \in Lists : Listed(list)' \subseteq Found[list]
        BY <3>2 DEF Listed
      <3>4. Unapplied'
        BY <1>1, <3>3 DEF Unapplied, Found, Lists, DeltaTypeOK, Graphs
      <3> QED BY <3>2, <3>4
    <2> QED BY <2>1, <2>2 DEF Exact
  <1>3. CASE GetNext
    <2>1. UNCHANGED <<runs, edits>>
      BY <1>3 DEF GetNext, RemoveNextEdge, RemoveNextVertex, AddNextVertex, AddNextEdge, NothingNext, Apply
    <2>2. ASSUME runs = 0 PROVE \A list \in Lists : differences'[list] = {}
      <3>1. \A list \in Lists : differences[list] = {}
        BY <2>2 DEF Exact
      <3>2. NothingNext
        BY <1>3, <3>1 DEF GetNext, RemoveNextEdge, RemoveNextVertex, AddNextVertex, AddNextEdge,
                          Apply, Backs, Lists
      <3> QED BY <3>1, <3>2 DEF NothingNext
    <2>3. ASSUME runs = 1, edits = 0
          PROVE  (\A l \in Lists : \A d \in differences'[l] : d[1] = 0) /\ Unapplied'
      <3>1. CASE HasNext
        BY <1>3, <2>3, <3>1, GetNextExact
      <3>2. CASE ~HasNext
        <4>1. NothingNext
          BY <1>3, <3>2 DEF GetNext, RemoveNextEdge, RemoveNextVertex, AddNextVertex,
                            AddNextEdge, Apply, Backs, HasNext, Drained, Lists
        <4> QED BY <2>3, <4>1 DEF NothingNext, Exact, Unapplied, Listed
      <3> QED BY <3>1, <3>2
    <2> QED BY <2>1, <2>2, <2>3 DEF Exact
  <1>4. CASE Edit
    <2>1. edits' # 0 /\ UNCHANGED <<runs, differences>>
      BY <1>1, <1>4 DEF Edit, DeltaTypeOK
    <2> QED BY <2>1 DEF Exact
  <1>5. CASE UNCHANGED deltaVars
    BY <1>5 DEF deltaVars, Exact, Unapplied, Listed
  <1> QED BY <1>2, <1>3, <1>4, <1>5 DEF DeltaNext

\* After one run, and if the caller leaves the source graph alone, no getNext
\* throws before hasNext is false.
THEOREM DeltaNoStepFails == DeltaSpec => NoStepFails
  <1>1. DeltaInit => Exact
    BY DEF DeltaInit, Exact
  <1>2. DeltaInv /\ Exact /\ [DeltaNext]_deltaVars =>
          [GetNext /\ HasNext /\ runs = 1 /\ edits = 0 => op' = "idle"]_deltaVars
    BY GetNextExact
  <1> QED BY <1>1, <1>2, ExactStep, DeltaInvariant, PTL DEF DeltaSpec, NoStepFails

-----------------------------------------------------------------------------
(***************************************************************************)
(* The table of elements, for any number of elements, of which any may be  *)
(* weighted, cloned, given other uuids and destroyed.                      *)
(***************************************************************************)

\* The elements created so far are numbered from one.
Numbered(list) ==
  \E n \in Nat : DOMAIN list = 1 .. n /\ list = [i \in 1 .. n |-> list[i]]

Registered(list) == {o \in DOMAIN list : list[o].registered}

\* The uuids that destroyed elements had.
Erased(list) == {list[o].uuid : o \in {o \in DOMAIN list : ~list[o].alive}}

\* Every uuid is one that was made for an element; only readers give one that
\* is registered another; and the table leads from the uuids of registered
\* elements to these, without those that destroyed elements had.
TableInv ==
  /\ Numbered(object)
  /\ \A o \in DOMAIN object : object[o].uuid \in DOMAIN object
  /\ \A o \in Registered(object) : o \in renamed \/ object[o].uuid = o
  /\ msGraphElements = [u \in Registered(object) \ Erased(object) |-> u]

-----------------------------------------------------------------------------
\* A list by numbers is a sequence of what it holds.
LEMMA NumberedIsSeq ==
  ASSUME NEW list, Numbered(list)
  PROVE  /\ Len(list) \in Nat /\ DOMAIN list = 1 .. Len(list)
         /\ list \in Seq({list[i] : i \in DOMAIN list})
<1>1. PICK n \in Nat : DOMAIN list = 1 .. n /\ list = [i \in 1 .. n |-> list[i]]
  BY DEF Numbered
<1> DEFINE S == {list[i] : i \in 1 .. n}
<1>2. list \in [1 .. n -> S] BY <1>1
<1>3. list \in Seq(S) BY <1>1, <1>2
<1> QED BY <1>1, <1>3

\* A list grows by appending the next element, ...
LEMMA AppendNumbered ==
  ASSUME NEW list, Numbered(list), NEW x
  PROVE  /\ Numbered(Append(list, x))
         /\ DOMAIN Append(list, x) = DOMAIN list \cup {Len(list) + 1}
         /\ Append(list, x)[Len(list) + 1] = x
         /\ \A i \in DOMAIN list : Append(list, x)[i] = list[i]
<1> DEFINE S == {list[i] : i \in DOMAIN list} \cup {x}
           n == Len(list)
<1>1. n \in Nat /\ DOMAIN list = 1 .. n /\ list \in Seq({list[i] : i \in DOMAIN list})
  BY NumberedIsSeq
<1>2. list \in Seq(S) /\ x \in S BY <1>1
<1> HIDE DEF S
<1>3. /\ Append(list, x) \in Seq(S) /\ Len(Append(list, x)) = n + 1
      /\ Append(list, x)[n + 1] = x
      /\ \A i \in 1 .. n : Append(list, x)[i] = list[i]
  BY <1>1, <1>2
<1>4. DOMAIN Append(list, x) = 1 .. n + 1
      /\ Append(list, x) = [i \in 1 .. n + 1 |-> Append(list, x)[i]]
  <2>1. \A t \in Seq(S) : DOMAIN t = 1 .. Len(t) /\ t = [i \in 1 .. Len(t) |-> t[i]]
    OBVIOUS
  <2> QED BY <1>3, <2>1
<1>5. Numbered(Append(list, x))
  <2>1. n + 1 \in Nat BY <1>1
  <2> HIDE DEF n
  <2> QED BY <1>4, <2>1 DEF Numbered
<1>6. 1 .. n + 1 = 1 .. n \cup {n + 1} BY <1>1
<1> QED BY <1>1, <1>3, <1>4, <1>5, <1>6

\* ... or by several with the numbers that follow.
LEMMA OverNumbered ==
  ASSUME NEW list, Numbered(list), NEW k \in Nat, NEW new, DOMAIN new = Numbers(k),
         list = object
  PROVE  Numbered(Over(new, list)) /\ DOMAIN new \cap DOMAIN list = {}
<1> DEFINE n == Len(list)
           m == IF n + k <= MaxObjects THEN n + k ELSE IF n <= MaxObjects THEN MaxObjects ELSE n
<1>1. n \in Nat /\ DOMAIN list = 1 .. n BY NumberedIsSeq
<1>2. Numbers(k) = n + 1 .. m BY <1>1, RegistryAssumption DEF Numbers
<1>3. m \in Nat /\ n <= m BY <1>1, RegistryAssumption
<1> HIDE DEF m
<1>4. DOMAIN new \cup DOMAIN list = 1 .. m BY <1>1, <1>2, <1>3
<1>5. DOMAIN Over(new, list) = 1 .. m
      /\ Over(new, list) = [i \in 1 .. m |-> Over(new, list)[i]]
  BY <1>4 DEF Over
<1>6. Numbered(Over(new, list)) BY <1>3, <1>5 DEF Numbered
<1> QED BY <1>1, <1>2, <1>6

-----------------------------------------------------------------------------
\* At first all tables are empty.
LEMMA InitTable == RegistryInit => TableInv
<1> SUFFICES ASSUME RegistryInit PROVE TableInv OBVIOUS
<1>1. object = <<>> /\ msGraphElements = <<>> BY DEF RegistryInit
<1>2. <<>> = [i \in 1 .. 0 |-> <<>>[i]] /\ DOMAIN <<>> = {} /\ DOMAIN <<>> = 1 .. 0
  OBVIOUS
<1>3. Numbered(object) BY <1>1, <1>2 DEF Numbered
<1>4. Registered(object) = {} BY <1>1, <1>2 DEF Registered
<1>5. <<>> = [u \in {} \ Erased(object) |-> u] OBVIOUS
<1> QED BY <1>1, <1>2, <1>3, <1>4, <1>5 DEF TableInv

\* New elements have no number that an earlier one has or had as uuid; those
\* that are registered have their own.
LEMMA ObjectsAdded ==
  ASSUME TableInv, Numbered(object'), renamed' = renamed,
         NEW new, new \cap DOMAIN object = {},
         DOMAIN object' = new \cup DOMAIN object,
         \A o \in DOMAIN object : object'[o] = object[o],
         \A o \in new : object'[o].alive,
         \A o \in new : object'[o].uuid \in DOMAIN object',
         NEW added \in SUBSET new,
         \A o \in new : object'[o].registered <=> o \in added,
         \A o \in added : object'[o].uuid = o,
         msGraphElements' = Over([u \in added |-> u], msGraphElements)
  PROVE  TableInv'
<1> DEFINE table == [u \in added |-> u]
<1>1. Registered(object') = added \cup Registered(object) BY DEF Registered
<1>2. Erased(object') = Erased(object) BY DEF Erased
<1>3. Erased(object) \subseteq DOMAIN object BY DEF Erased, TableInv
<1>4. Registered(object') \ Erased(object') = added \cup (Registered(object) \ Erased(object))
  BY <1>1, <1>2, <1>3
<1>5. DOMAIN table = added /\ \A u \in added : table[u] = u OBVIOUS
<1> HIDE DEF table
<1>6. msGraphElements' = [u \in added \cup (Registered(object) \ Erased(object)) |-> u]
  <2>1. /\ DOMAIN msGraphElements = Registered(object) \ Erased(object)
        /\ \A u \in DOMAIN msGraphElements : msGraphElements[u] = u
    BY DEF TableInv
  <2>2. msGraphElements' = Over(table, msGraphElements) BY DEF table
  <2> QED BY <1>5, <2>1, <2>2 DEF Over
<1>7. \A o \in Registered(object') : o \in renamed \/ object'[o].uuid = o
  BY <1>1 DEF TableInv, Registered
<1>8. \A o \in DOMAIN object' : object'[o].uuid \in DOMAIN object' BY DEF TableInv
<1> QED BY <1>4, <1>6, <1>7, <1>8 DEF TableInv

\* An element is constructed ...
LEMMA ConstructKeeps ==
  ASSUME TableInv, NEW o \in Numbers(1), NEW ends, Construct(o, ends)
  PROVE  TableInv'
<1> DEFINE x == NewObject(o, o \in Weighted, TRUE, ends)
<1>1. Numbered(object) BY DEF TableInv
<1>2. Len(object) \in Nat /\ DOMAIN object = 1 .. Len(object) BY <1>1, NumberedIsSeq
<1>3. o = Len(object) + 1 BY <1>2 DEF Numbers
<1>4. object' = Append(object, x) BY DEF Construct
<1>5. x.alive /\ x.uuid = o /\ x.registered BY DEF NewObject
<1> HIDE DEF x
<1>6. /\ Numbered(object') /\ DOMAIN object' = {o} \cup DOMAIN object
      /\ object'[o] = x /\ \A i \in DOMAIN object : object'[i] = object[i]
      /\ {o} \cap DOMAIN object = {}
  BY <1>1, <1>2, <1>3, <1>4, AppendNumbered
<1>7. /\ \A p \in {o} : object'[p].alive
      /\ \A p \in {o} : object'[p].uuid \in DOMAIN object'
      /\ \A p \in {o} : object'[p].registered <=> p \in {o}
      /\ \A p \in {o} : object'[p].uuid = p
  BY <1>5, <1>6
<1>8. msGraphElements' = Over([u \in {o} |-> u], msGraphElements) /\ renamed' = renamed
  BY DEF Construct
<1> QED BY <1>6, <1>7, <1>8, ObjectsAdded

\* ... elements are cloned ...
LEMMA CloneKeeps ==
  ASSUME TableInv, NEW os \in SUBSET Alive,
         NEW clones \in Bijection(os, Numbers(Cardinality(os))), NEW ends,
         Clone(clones, ends)
  PROVE  TableInv'
<1> DEFINE original(c) == CHOOSE o \in DOMAIN clones : clones[o] = c
           weighted == {clones[o] : o \in {o \in DOMAIN clones : object[o].weighted}}
           copy(c) == NewObject(IF c \in weighted THEN c ELSE object[original(c)].uuid,
                                c \in weighted, c \in weighted, ends[original(c)])
           new == [c \in Range(clones) |-> copy(c)]
           numbers == Numbers(Cardinality(os))
<1>1. Numbered(object) BY DEF TableInv
<1>2. Len(object) \in Nat /\ DOMAIN object = 1 .. Len(object) BY <1>1, NumberedIsSeq
<1>3. os \subseteq DOMAIN object BY DEF Alive
<1>4. Cardinality(os) \in Nat
  <2>1. IsFiniteSet(1 .. Len(object)) BY <1>2, FS_Interval
  <2>2. IsFiniteSet(os) BY <1>2, <1>3, <2>1, FS_Subset
  <2> QED BY <2>2, FS_CardinalityType
<1>5. /\ clones \in [os -> numbers]
      /\ \A c \in numbers : \E o \in os : clones[o] = c
  BY DEF Bijection, Surjection
<1>6. Range(clones) = numbers /\ DOMAIN clones = os /\ weighted \subseteq numbers
  BY <1>5 DEF Range
<1>7. \A c \in numbers : original(c) \in os BY <1>5
<1>8. /\ object' = Over(new, object) /\ renamed' = renamed
      /\ msGraphElements' = Over([u \in weighted |-> u], msGraphElements)
  BY DEF Clone
<1>9. DOMAIN new = numbers BY <1>6
<1>10. \A c \in numbers : new[c] = copy(c) BY <1>6
<1>11. \A c \in numbers : /\ new[c].alive
                          /\ new[c].uuid = IF c \in weighted THEN c ELSE object[original(c)].uuid
                          /\ new[c].registered <=> c \in weighted
  <2> TAKE c \in numbers
  <2>1. \A u, w, a, e : /\ NewObject(u, w, a, e).alive
                        /\ NewObject(u, w, a, e).uuid = u
                        /\ NewObject(u, w, a, e).registered = a
    BY DEF NewObject
  <2>2. new[c] = copy(c) BY <1>10
  <2>3. copy(c).registered = (c \in weighted) BY <2>1
  <2>4. copy(c).uuid = IF c \in weighted THEN c ELSE object[original(c)].uuid BY <2>1
  <2>5. copy(c).alive BY <2>1
  <2> HIDE DEF copy, weighted, original, new
  <2> QED BY <2>2, <2>3, <2>4, <2>5
<1> HIDE DEF original, weighted, copy, new, numbers
<1>12. Numbered(object') /\ numbers \cap DOMAIN object = {}
  BY <1>1, <1>4, <1>8, <1>9, OverNumbered DEF numbers
<1>13. /\ DOMAIN object' = numbers \cup DOMAIN object
       /\ \A c \in numbers : object'[c] = new[c]
       /\ \A o \in DOMAIN object : object'[o] = object[o]
  BY <1>8, <1>9, <1>12 DEF Over
<1>14. \A c \in numbers : object'[c].uuid \in DOMAIN object'
  BY <1>3, <1>7, <1>11, <1>13 DEF TableInv
<1>15. /\ \A c \in numbers : object'[c].alive
       /\ \A c \in numbers : object'[c].registered <=> c \in weighted
       /\ \A c \in weighted : object'[c].uuid = c
  BY <1>6, <1>11, <1>13
<1> QED BY <1>6, <1>8, <1>12, <1>13, <1>14, <1>15, ObjectsAdded

\* ... one gets another uuid ...
LEMMA SetUuidKeeps ==
  ASSUME TableInv, NEW o \in Alive, NEW uuid \in DOMAIN object, SetUuid(o, uuid)
  PROVE  TableInv'
<1>1. PICK n \in Nat : DOMAIN object = 1 .. n /\ object = [i \in 1 .. n |-> object[i]]
  BY DEF TableInv, Numbered
<1>2. /\ object' = [object EXCEPT ![o].uuid = uuid] /\ renamed' = renamed \cup {o}
      /\ msGraphElements' = msGraphElements
  BY DEF SetUuid
<1>3. o \in DOMAIN object /\ object[o].alive BY DEF Alive
<1>4. DOMAIN object' = 1 .. n /\ object' = [i \in 1 .. n |-> object'[i]]
  BY <1>1, <1>2
<1>5. /\ \A p \in DOMAIN object : p # o => object'[p] = object[p]
      /\ object'[o] = [object[o] EXCEPT !.uuid = uuid]
  BY <1>1, <1>2, <1>3
<1>6. object'[o].uuid = uuid /\ object'[o].alive = object[o].alive
      /\ object'[o].registered = object[o].registered
  BY <1>5
<1>7. Numbered(object') BY <1>4 DEF Numbered
<1>8. Registered(object') = Registered(object)
  BY <1>1, <1>4, <1>5, <1>6 DEF Registered
<1>9. Erased(object') = Erased(object)
  <2>1. {p \in DOMAIN object' : ~object'[p].alive} = {p \in DOMAIN object : ~object[p].alive}
    BY <1>1, <1>4, <1>5, <1>6
  <2>2. \A p \in {p \in DOMAIN object : ~object[p].alive} : object'[p] = object[p]
    BY <1>3, <1>5
  <2> QED BY <2>1, <2>2 DEF Erased
<1>10. \A p \in DOMAIN object' : object'[p].uuid \in DOMAIN object'
  BY <1>1, <1>4, <1>5, <1>6 DEF TableInv
<1>11. \A p \in Registered(object') : p \in renamed' \/ object'[p].uuid = p
  BY <1>2, <1>5, <1>8 DEF TableInv, Registered
<1> QED BY <1>2, <1>7, <1>8, <1>9, <1>10, <1>11 DEF TableInv

\* ... or is destroyed: the tables stay right.
LEMMA DestroyKeeps ==
  ASSUME TableInv, NEW o \in Alive, Destroy(o)
  PROVE  TableInv'
<1>1. PICK n \in Nat : DOMAIN object = 1 .. n /\ object = [i \in 1 .. n |-> object[i]]
  BY DEF TableInv, Numbered
<1>2. /\ object' = [object EXCEPT ![o].alive = FALSE] /\ renamed' = renamed
      /\ msGraphElements' = RestrictDomain(msGraphElements, LAMBDA uuid : uuid # object[o].uuid)
  BY DEF Destroy
<1>3. o \in DOMAIN object BY DEF Alive
<1>4. DOMAIN object' = 1 .. n /\ object' = [i \in 1 .. n |-> object'[i]]
  BY <1>1, <1>2
<1>5. /\ \A p \in DOMAIN object : p # o => object'[p] = object[p]
      /\ object'[o] = [object[o] EXCEPT !.alive = FALSE]
  BY <1>1, <1>2, <1>3
<1>6. object'[o].uuid = object[o].uuid /\ ~object'[o].alive
      /\ object'[o].registered = object[o].registered
  BY <1>5
<1>7. Numbered(object') BY <1>4 DEF Numbered
<1>8. Registered(object') = Registered(object)
  BY <1>1, <1>4, <1>5, <1>6 DEF Registered
<1>9. Erased(object') = Erased(object) \cup {object[o].uuid}
  <2>1. DOMAIN object' = DOMAIN object BY <1>1, <1>4
  <2>2. \A p \in DOMAIN object : object'[p].uuid = object[p].uuid BY <1>5, <1>6
  <2>3. \A p \in DOMAIN object : ~object'[p].alive <=> ~object[p].alive \/ p = o BY <1>5, <1>6
  <2> QED BY <1>3, <2>1, <2>2, <2>3 DEF Erased
<1>10. \A p \in DOMAIN object' : object'[p].uuid \in DOMAIN object'
  BY <1>1, <1>4, <1>5, <1>6 DEF TableInv
<1>11. \A p \in Registered(object') : p \in renamed' \/ object'[p].uuid = p
  BY <1>2, <1>5, <1>6, <1>8 DEF TableInv, Registered
<1>12. msGraphElements' = [u \in Registered(object') \ Erased(object') |-> u]
  <2>1. msGraphElements = [u \in Registered(object) \ Erased(object) |-> u] BY DEF TableInv
  <2>2. msGraphElements' = [u \in {w \in DOMAIN msGraphElements : w # object[o].uuid} |-> msGraphElements[u]]
    BY <1>2 DEF RestrictDomain, Restrict
  <2>3. {w \in DOMAIN msGraphElements : w # object[o].uuid} = Registered(object') \ Erased(object')
    BY <1>8, <1>9, <2>1
  <2>4. \A u \in DOMAIN msGraphElements : msGraphElements[u] = u BY <2>1
  <2> QED BY <2>2, <2>3, <2>4
<1> QED BY <1>7, <1>10, <1>11, <1>12 DEF TableInv

\* Every step keeps the tables right.
LEMMA NextTable ==
  ASSUME TableInv, [RegistryNext]_registryVars
  PROVE  TableInv'
<1>1. CASE \E o \in Numbers(1) :
             \/ Construct(o, <<>>)
             \/ \E s, t \in {v \in Alive : object[v].ends = <<>>} : Construct(o, <<s, t>>)
  BY <1>1, ConstructKeeps
<1>2. CASE \E os \in SUBSET Alive \ {{}} : \E clones \in Bijection(os, Numbers(Cardinality(os))) :
             CloneGraph(clones) \/ CloneEdges(clones)
  BY <1>2, CloneKeeps DEF CloneGraph, CloneEdges
<1>3. CASE \E o \in Alive, uuid \in DOMAIN object : SetUuid(o, uuid)
  BY <1>3, SetUuidKeeps
<1>4. CASE \E o \in Alive \ HeldByEdges : Destroy(o)
  BY <1>4, DestroyKeeps
<1>5. CASE UNCHANGED registryVars
  BY <1>5 DEF registryVars, TableInv
<1> QED BY <1>1, <1>2, <1>3, <1>4, <1>5 DEF RegistryNext

\* However others are cloned, renamed and destroyed, an element whose uuid was not
\* set is found by it until one with this uuid is destroyed, and not once it is
\* destroyed itself.
THEOREM RegistryFindsElements == RegistrySpec => []ElementsAreFound
<1>1. TableInv => ElementsAreFound
  <2> SUFFICES ASSUME TableInv, NEW o \in Registered(object), o \notin renamed
               PROVE  /\ (\A p \in DOMAIN object : object[p].uuid = o => p \in Alive) =>
                           o \in DOMAIN msGraphElements /\ msGraphElements[o] = o
                      /\ o \in DOMAIN msGraphElements => o \in Alive
    BY DEF ElementsAreFound, Registered
  <2>1. DOMAIN object \ Alive = {p \in DOMAIN object : ~object[p].alive} BY DEF Alive
  <2>2. (\E p \in DOMAIN object \ Alive : object[p].uuid = o) <=> o \in Erased(object)
    BY <2>1 DEF Erased
  <2>3. o \in DOMAIN msGraphElements <=> o \notin Erased(object) BY DEF TableInv
  <2>4. o \in DOMAIN msGraphElements => msGraphElements[o] = o BY DEF TableInv
  <2>5. o \in DOMAIN object /\ (o \in renamed \/ object[o].uuid = o)
    BY DEF TableInv, Registered
  <2>6. o \notin Erased(object) => o \in Alive BY <2>2, <2>5
  <2>7. (\A p \in DOMAIN object : object[p].uuid = o => p \in Alive) => o \notin Erased(object)
    BY <2>2
  <2> QED BY <2>3, <2>4, <2>6, <2>7
<1> QED BY <1>1, InitTable, NextTable, PTL DEF RegistrySpec

-----------------------------------------------------------------------------
(***************************************************************************)
(* CorrelationClustering, for any graph, any distances and any volumes: a  *)
(* ball passes the nearest edge first, so what leads out of it is at least *)
(* its radius away, and the balls take the vertices apart.                 *)
(***************************************************************************)
Distances == [GraphEdges -> 0 .. One]

\* The ball that grows holds vertices that are left, and no edge of its centre
\* that leads out of it is shorter than its radius.
BallInv ==
  \/ ball = <<>>
  \/ \E b \in [centre : GraphVertices, vertices : SUBSET rest, edges : SUBSET GraphEdges,
               radius : 0 .. One \cup {Infinite}] :
       /\ ball = <<b>>
       /\ b.radius # Infinite => \A e \in Leading(b) : b.radius <= mEdgeActivation[e]

ClusterInv ==
  /\ mEdgeActivation \in Distances
  /\ rest \subseteq GraphVertices
  /\ \A c, d \in clusters : c = d \/ c \cap d = {}
  /\ UNION clusters = GraphVertices \ rest
  /\ BallInv
  /\ NearEdgesAreInTheBall

\* No ball has grown at first.
LEMMA ClusterInitially == ClusterInit => ClusterInv
<1> SUFFICES ASSUME ClusterInit PROVE ClusterInv OBVIOUS
<1>1. mEdgeActivation \in Distances BY DEF ClusterInit, Solutions, Distances
<1>2. raised = (SelfLoops(mColumnToEdge) # {}) BY DEF ClusterInit
<1>3. UNION clusters = GraphVertices \ rest BY DEF ClusterInit
<1> QED BY <1>1, <1>2, <1>3 DEF ClusterInit, ClusterInv, BallInv, NearEdgesAreInTheBall

\* A ball begins ...
LEMMA PickVertexKeeps ==
  ASSUME ClusterInv, PickVertex, UNCHANGED mColumnToEdge
  PROVE  ClusterInv'
<1>1. PICK v \in rest : ball' = <<NewBall(v)>> BY DEF PickVertex
<1>2. UNCHANGED <<mEdgeActivation, rest, clusters, raised>> BY DEF PickVertex
<1>3. BallInv'
  <2> DEFINE b == NewBall(v)
  <2>1. b \in [centre : GraphVertices, vertices : SUBSET rest, edges : SUBSET GraphEdges,
               radius : 0 .. One \cup {Infinite}]
    BY DEF ClusterInv, NewBall, One
  <2>2. b.radius = 0 /\ \A e \in Leading(b)' : 0 <= mEdgeActivation[e]
    BY DEF NewBall, Leading, ClusterInv, Distances, One
  <2> HIDE DEF b
  <2>3. ball' = <<b>> BY <1>1 DEF b
  <2> QED BY <1>2, <2>1, <2>2, <2>3 DEF BallInv
<1> QED BY <1>2, <1>3 DEF ClusterInv, NearEdgesAreInTheBall

\* ... grows ...
LEMMA GrowBallKeeps ==
  ASSUME ClusterInv, GrowBall, UNCHANGED mColumnToEdge
  PROVE  ClusterInv'
<1> DEFINE Balls == [centre : GraphVertices, vertices : SUBSET rest, edges : SUBSET GraphEdges,
                     radius : 0 .. One \cup {Infinite}]
<1>1. PICK b \in Balls : /\ ball = <<b>>
                         /\ b.radius # Infinite => \A e \in Leading(b) : b.radius <= mEdgeActivation[e]
  BY DEF ClusterInv, BallInv, GrowBall
<1>2. ball[1] = b /\ b.radius # Infinite /\ b.radius \in 0 .. One BY <1>1 DEF GrowBall
<1>3. UNCHANGED <<mEdgeActivation, rest, clusters>> /\ mEdgeActivation \in Distances
  BY DEF GrowBall, ClusterInv
<1>4. \A e \in Leading(b) : e \in GraphEdges /\ mEdgeActivation[e] \in 0 .. One /\ EndsOf(e) \subseteq rest
  BY <1>3 DEF Leading, Distances
<1>5. ~ \E e \in Leading(b) : mEdgeActivation[e] < b.radius
  BY <1>1, <1>2, <1>4 DEF One
<1>6. raised' = raised BY <1>2, <1>5 DEF GrowBall
<1>7. BallInv'
  <2>1. ASSUME NEW e \in Nearest(b),
               ball' = <<[b EXCEPT !.vertices = @ \cup EndsOf(e), !.edges = @ \cup {e},
                                   !.radius = mEdgeActivation[e]]>>
        PROVE  BallInv'
    <3>1. /\ e \in Leading(b)
          /\ \A d \in Leading(b) : mEdgeActivation[d] # One => mEdgeActivation[e] <= mEdgeActivation[d]
      BY <2>1 DEF Nearest, Candidates
    <3>2. PICK c \in Balls : /\ c = [b EXCEPT !.vertices = @ \cup EndsOf(e), !.edges = @ \cup {e},
                                             !.radius = mEdgeActivation[e]]
                             /\ c.radius = mEdgeActivation[e] /\ c.centre = b.centre
                             /\ b.vertices \subseteq c.vertices
      <4> DEFINE c == [b EXCEPT !.vertices = @ \cup EndsOf(e), !.edges = @ \cup {e},
                                !.radius = mEdgeActivation[e]]
      <4>1. b.vertices \cup EndsOf(e) \in SUBSET rest BY <1>4, <3>1
      <4>2. b.edges \cup {e} \in SUBSET GraphEdges BY <1>4, <3>1
      <4>3. c \in Balls BY <1>4, <3>1, <4>1, <4>2
      <4> QED BY <4>3
    <3>3. Leading(c)' \subseteq Leading(b) BY <1>3, <3>2 DEF Leading
    <3>4. \A d \in Leading(b) : mEdgeActivation[e] <= mEdgeActivation[d]
      BY <1>4, <3>1 DEF One
    <3>5. ball' = <<c>> BY <2>1, <3>2
    <3>6. \A d \in Leading(c)' : c.radius <= mEdgeActivation'[d] BY <1>3, <3>2, <3>3, <3>4
    <3> QED BY <1>3, <3>2, <3>5, <3>6 DEF BallInv
  <2>2. ASSUME ball' = <<[b EXCEPT !.radius = Infinite]>> PROVE BallInv'
    <3> DEFINE c == [b EXCEPT !.radius = Infinite]
    <3>1. c \in Balls /\ c.radius = Infinite OBVIOUS
    <3> HIDE DEF c
    <3>2. ball' = <<c>> BY <2>2 DEF c
    <3> QED BY <1>3, <3>1, <3>2 DEF BallInv
  <2> QED BY <1>2, <1>5, <2>1, <2>2 DEF GrowBall
<1> QED BY <1>3, <1>6, <1>7 DEF ClusterInv, NearEdgesAreInTheBall

\* ... and becomes a cluster: the invariant stays.
LEMMA MarkClusterKeeps ==
  ASSUME ClusterInv, MarkCluster, UNCHANGED mColumnToEdge
  PROVE  ClusterInv'
<1>1. PICK b \in [centre : GraphVertices, vertices : SUBSET rest, edges : SUBSET GraphEdges,
                  radius : 0 .. One \cup {Infinite}] : ball = <<b>>
  BY DEF ClusterInv, BallInv, MarkCluster
<1>2. /\ rest' = rest \ b.vertices /\ clusters' = clusters \cup {b.vertices}
      /\ ball' = <<>> /\ raised' = raised /\ b.vertices \subseteq rest
      /\ mEdgeActivation' = [e \in GraphEdges |-> IF e \in b.edges THEN 0 ELSE mEdgeActivation[e]]
  BY <1>1 DEF MarkCluster, Taken
<1>3. mEdgeActivation' \in Distances BY <1>2 DEF ClusterInv, Distances, One
<1>4. \A c \in clusters : c \cap b.vertices = {} BY <1>2 DEF ClusterInv
<1>5. UNION clusters' = GraphVertices \ rest'
  <2>1. UNION clusters' = (UNION clusters) \cup b.vertices BY <1>2
  <2> QED BY <1>2, <2>1 DEF ClusterInv
<1>6. \A c, d \in clusters' : c = d \/ c \cap d = {} BY <1>2, <1>4 DEF ClusterInv
<1> QED BY <1>2, <1>3, <1>5, <1>6 DEF ClusterInv, BallInv, NearEdgesAreInTheBall

\* The invariant holds throughout.
LEMMA ClusterInvariant == ClusterSpec => []ClusterInv
<1>1. ClusterInv /\ [ClusterNext]_clusterVars => ClusterInv'
  <2>1. CASE UNCHANGED clusterVars
    BY <2>1 DEF clusterVars, ClusterInv, BallInv, NearEdgesAreInTheBall, Leading
  <2> QED BY <2>1, PickVertexKeeps, GrowBallKeeps, MarkClusterKeeps DEF ClusterNext
<1> QED BY <1>1, ClusterInitially, PTL DEF ClusterSpec

\* However the solver answers, and whatever the first volume was, no edge of the
\* centre is left outside a ball that has passed it.
THEOREM BallsTakeNearEdges == ClusterSpec => []NearEdgesAreInTheBall
<1>1. ClusterInv => NearEdgesAreInTheBall BY DEF ClusterInv
<1> QED BY <1>1, ClusterInvariant, PTL

\* Rounding puts every vertex into one cluster at most, and forgets none.
THEOREM RoundingPartitions == ClusterSpec => []ClustersAreDisjoint
<1>1. ClusterInv => ClustersAreDisjoint BY DEF ClusterInv, BallInv, ClustersAreDisjoint
<1> QED BY <1>1, ClusterInvariant, PTL

-----------------------------------------------------------------------------
(***************************************************************************)
(* The list of filters and the copies of its places, for any number of     *)
(* filters and any sequence of additions, removals, swaps, drags and       *)
(* toggles.                                                                *)
(***************************************************************************)
\* An item and its box have the same place in the two lists.
SameLists ==
  /\ mFilters \in Seq(FilterItems) /\ NoneTwice(mFilters)
  /\ mCheckBoxes = mFilters

Placed ==
  /\ DOMAIN mIndex = Names(mFilters)
  /\ \A i \in Places : mIndex[mFilters[i]] = i

\* One item at most hangs on the mouse, anywhere between the first place and
\* the last; the others are drawn at their places.
Drawn ==
  /\ DOMAIN y = Names(mFilters)
  /\ \A f \in Names(mFilters) : y[f] \in Lines
  /\ \A i \in Places : mFilters[i] \notin dragged => y[mFilters[i]] = Top(i)
  /\ dragged \subseteq Names(mFilters)
  /\ \A f, h \in dragged : f = h

\* A box says the place it is at, unless a removal has moved it up.
Boxed ==
  /\ DOMAIN mCheckBoxIndexMap = Names(mFilters)
  /\ \A i \in Places : mFilters[i] \notin shifted => mCheckBoxIndexMap[mFilters[i]] = i

Switched ==
  /\ DOMAIN checked = Names(mFilters)
  /\ DOMAIN mIsActivated \subseteq Names(mFilters)
  /\ ~misled /\ ~ended => \A f \in DOMAIN mIsActivated : mIsActivated[f] = checked[f]

FInv == SameLists /\ Placed /\ Drawn /\ Boxed /\ Switched

-----------------------------------------------------------------------------
\* What the operators on lists and maps do.
LEMMA ListIs ==
  ASSUME NEW list \in Seq(FilterItems)
  PROVE  /\ Len(list) \in Nat /\ DOMAIN list = 1 .. Len(list)
         /\ \A i \in DOMAIN list : list[i] \in FilterItems
OBVIOUS

\* A filter is appended to a list ...
LEMMA AppendKeeps ==
  ASSUME NEW list \in Seq(FilterItems), NoneTwice(list),
         NEW f \in FilterItems, f \notin Names(list)
  PROVE  /\ Append(list, f) \in Seq(FilterItems) /\ NoneTwice(Append(list, f))
         /\ Len(Append(list, f)) = Len(list) + 1
         /\ DOMAIN Append(list, f) = 1 .. Len(list) + 1
         /\ Names(Append(list, f)) = Names(list) \cup {f}
         /\ Append(list, f)[Len(list) + 1] = f
         /\ \A i \in 1 .. Len(list) : Append(list, f)[i] = list[i]
<1> DEFINE n == Len(list)
           l == Append(list, f)
<1>1. n \in Nat /\ DOMAIN list = 1 .. n BY ListIs
<1>2. /\ l \in Seq(FilterItems) /\ Len(l) = n + 1 /\ l[n + 1] = f
      /\ \A i \in 1 .. n : l[i] = list[i]
  BY <1>1
<1> HIDE DEF l, n
<1>3. DOMAIN l = 1 .. n + 1 BY <1>2, ListIs
<1>4. \A i \in 1 .. n + 1 : i = n + 1 \/ i \in 1 .. n BY <1>1
<1>5. n + 1 \in 1 .. n + 1 /\ 1 .. n \subseteq 1 .. n + 1 BY <1>1
<1>6. \A i \in 1 .. n : list[i] # f BY <1>1 DEF Names
<1>7. NoneTwice(l) BY <1>1, <1>2, <1>3, <1>4, <1>6 DEF NoneTwice
<1>8. Names(l) = Names(list) \cup {f} BY <1>1, <1>2, <1>3, <1>4, <1>5 DEF Names
<1> QED BY <1>2, <1>3, <1>7, <1>8 DEF l, n

\* ... one is erased ...
LEMMA EraseKeeps ==
  ASSUME NEW list \in Seq(FilterItems), NoneTwice(list), NEW i \in DOMAIN list
  PROVE  /\ Erase(list, i) \in Seq(FilterItems) /\ NoneTwice(Erase(list, i))
         /\ Len(Erase(list, i)) = Len(list) - 1
         /\ DOMAIN Erase(list, i) = 1 .. Len(list) - 1
         /\ Names(Erase(list, i)) = Names(list) \ {list[i]}
         /\ \A j \in 1 .. Len(list) - 1 :
              Erase(list, i)[j] = IF j < i THEN list[j] ELSE list[j + 1]
<1> DEFINE n == Len(list)
           l == Erase(list, i)
<1>1. n \in Nat /\ DOMAIN list = 1 .. n /\ n - 1 \in Nat
      /\ \A j \in 1 .. n : list[j] \in FilterItems
  BY ListIs
<1>2. l = [j \in 1 .. n - 1 |-> IF j < i THEN list[j] ELSE list[j + 1]] BY DEF Erase
<1> HIDE DEF l, n
<1>3. \A j \in 1 .. n - 1 : j \in 1 .. n /\ j + 1 \in 1 .. n BY <1>1
<1>4. l \in [1 .. n - 1 -> FilterItems] BY <1>1, <1>2, <1>3
<1>5. l \in Seq(FilterItems) /\ Len(l) = n - 1 /\ DOMAIN l = 1 .. n - 1
  BY <1>1, <1>4
<1>6. \A j \in 1 .. n - 1 : l[j] = IF j < i THEN list[j] ELSE list[j + 1] BY <1>2
<1>7. NoneTwice(l)
  <2> SUFFICES ASSUME NEW j \in 1 .. n - 1, NEW k \in 1 .. n - 1, l[j] = l[k]
               PROVE  j = k
    BY <1>5 DEF NoneTwice
  <2> DEFINE at(m) == IF m < i THEN m ELSE m + 1
  <2>1. l[j] = list[at(j)] /\ l[k] = list[at(k)] BY <1>6
  <2>2. at(j) \in 1 .. n /\ at(k) \in 1 .. n BY <1>3
  <2>3. at(j) = at(k) BY <1>1, <2>1, <2>2 DEF NoneTwice
  <2> QED BY <1>1, <2>3
<1>8. Names(l) = Names(list) \ {list[i]}
  <2>1. ASSUME NEW j \in 1 .. n - 1
        PROVE  l[j] \in Names(list) /\ l[j] # list[i]
    <3>1. CASE j < i BY <1>1, <1>3, <1>6, <3>1 DEF Names, NoneTwice
    <3>2. CASE ~(j < i) BY <1>1, <1>3, <1>6, <3>2 DEF Names, NoneTwice
    <3> QED BY <3>1, <3>2
  <2>2. ASSUME NEW j \in 1 .. n, list[j] # list[i]
        PROVE  \E k \in 1 .. n - 1 : l[k] = list[j]
    <3>1. CASE j < i
      <4>1. j \in 1 .. n - 1 BY <1>1, <3>1
      <4> QED BY <1>6, <3>1, <4>1
    <3>2. CASE j > i
      <4>1. j - 1 \in 1 .. n - 1 /\ ~(j - 1 < i) /\ j - 1 + 1 = j BY <1>1, <3>2
      <4> QED BY <1>6, <4>1
    <3>3. j # i BY <2>2
    <3> QED BY <1>1, <3>1, <3>2, <3>3
  <2>3. Names(l) = {l[k] : k \in 1 .. n - 1} /\ Names(list) = {list[j] : j \in 1 .. n}
    BY <1>1, <1>5 DEF Names
  <2>4. Names(l) \subseteq Names(list) \ {list[i]} BY <2>1, <2>3
  <2>5. Names(list) \ {list[i]} \subseteq Names(l) BY <2>2, <2>3
  <2> QED BY <2>4, <2>5
<1> QED BY <1>5, <1>6, <1>7, <1>8 DEF l, n

\* ... or two change places.
LEMMA ExchangeKeeps ==
  ASSUME NEW list \in Seq(FilterItems), NoneTwice(list),
         NEW left \in DOMAIN list, NEW right \in DOMAIN list, left # right
  PROVE  /\ Exchange(list, left, right) \in Seq(FilterItems)
         /\ NoneTwice(Exchange(list, left, right))
         /\ Len(Exchange(list, left, right)) = Len(list)
         /\ DOMAIN Exchange(list, left, right) = DOMAIN list
         /\ Names(Exchange(list, left, right)) = Names(list)
         /\ Exchange(list, left, right)[left] = list[right]
         /\ Exchange(list, left, right)[right] = list[left]
         /\ \A i \in DOMAIN list : i # left /\ i # right =>
              Exchange(list, left, right)[i] = list[i]
<1> DEFINE n == Len(list)
           l == Exchange(list, left, right)
<1>1. n \in Nat /\ DOMAIN list = 1 .. n
      /\ \A j \in 1 .. n : list[j] \in FilterItems
      /\ list \in [1 .. n -> FilterItems]
  BY ListIs
<1>2. l = [list EXCEPT ![left] = list[right], ![right] = list[left]] BY DEF Exchange
<1> HIDE DEF l, n
<1>3. l \in [1 .. n -> FilterItems] BY <1>1, <1>2
<1>4. l \in Seq(FilterItems) /\ Len(l) = n /\ DOMAIN l = 1 .. n BY <1>1, <1>3
<1>5. /\ l[left] = list[right] /\ l[right] = list[left]
      /\ \A i \in 1 .. n : i # left /\ i # right => l[i] = list[i]
  BY <1>1, <1>2
<1>6. NoneTwice(l) BY <1>1, <1>4, <1>5 DEF NoneTwice
<1>7. Names(l) = Names(list) BY <1>1, <1>4, <1>5 DEF Names
<1> QED BY <1>1, <1>4, <1>5, <1>6, <1>7 DEF l, n

-----------------------------------------------------------------------------
\* No filter is there at first.
LEMMA InitFInv == FilterInit => FInv
<1> SUFFICES ASSUME FilterInit PROVE FInv OBVIOUS
<1>1. <<>> \in Seq(FilterItems) /\ DOMAIN <<>> = {} OBVIOUS
<1>2. Names(mFilters) = {} BY <1>1 DEF FilterInit, Names
<1>3. SameLists BY <1>1 DEF FilterInit, SameLists, NoneTwice
<1>4. Placed BY <1>1, <1>2 DEF FilterInit, Placed, Places
<1>5. Drawn BY <1>1, <1>2 DEF FilterInit, Drawn, Places
<1>6. Boxed BY <1>1, <1>2 DEF FilterInit, Boxed, Places
<1>7. Switched BY <1>1, <1>2 DEF FilterInit, Switched
<1> QED BY <1>3, <1>4, <1>5, <1>6, <1>7 DEF FInv

\* The arithmetic of lines: a place within the list is drawn on one of them.
LEMMA TopIsLine ==
  ASSUME NEW n \in Nat, NEW i \in 1 .. n
  PROVE  Top(i) \in 0 .. Top(n)
BY DEF Top, SHeight

\* The switches follow a box that says the place of its own filter; one that
\* says another place leaves them unlike each other, which misled records.
LEMMA ToggleSwitches ==
  ASSUME NEW box, NEW i, NEW state, NEW list, NEW names,
         box \in names, Names(list) \subseteq names,
         DOMAIN checked \cup {box} = names, DOMAIN mIsActivated \subseteq names,
         ~misled /\ ~ended => \A f \in DOMAIN mIsActivated : mIsActivated[f] = checked[f],
         \A f \in DOMAIN mIsActivated : f = box \/ f \in DOMAIN checked,
         i \in DOMAIN list /\ box \notin shifted => list[i] = box,
         UpdateToolTip(box, i, state, list)
  PROVE  /\ DOMAIN checked' = names
         /\ DOMAIN mIsActivated' \subseteq names
         /\ ~misled' /\ ~ended' => \A f \in DOMAIN mIsActivated' : mIsActivated'[f] = checked'[f]
<1>1. checked' = With(checked, box, state) BY DEF UpdateToolTip
<1>2. /\ DOMAIN checked' = names /\ checked'[box] = state
      /\ \A f \in DOMAIN checked : f # box => checked'[f] = checked[f]
  BY <1>1 DEF With
<1>3. CASE i \in DOMAIN list
  <2>1. /\ mIsActivated' = With(mIsActivated, list[i], state)
        /\ misled' = (misled \/ box \in shifted) /\ ended' = ended
    BY <1>3 DEF UpdateToolTip
  <2>2. /\ DOMAIN mIsActivated' = DOMAIN mIsActivated \cup {list[i]}
        /\ mIsActivated'[list[i]] = state
        /\ \A f \in DOMAIN mIsActivated : f # list[i] => mIsActivated'[f] = mIsActivated[f]
    BY <2>1 DEF With
  <2>3. list[i] \in names BY <1>3 DEF Names
  <2>4. ASSUME ~misled', ~ended', NEW f \in DOMAIN mIsActivated'
        PROVE  mIsActivated'[f] = checked'[f]
    <3>1. ~misled /\ ~ended /\ list[i] = box BY <1>3, <2>1, <2>4
    <3>2. CASE f = box BY <1>2, <2>2, <3>1, <3>2
    <3>3. CASE f # box
      <4>1. f \in DOMAIN mIsActivated /\ f \in DOMAIN checked BY <2>2, <2>4, <3>1, <3>3
      <4> QED BY <1>2, <2>2, <3>1, <3>3, <4>1
    <3> QED BY <3>2, <3>3
  <2> QED BY <1>2, <2>2, <2>3, <2>4
<1>4. CASE i \notin DOMAIN list
  <2>1. ended' /\ mIsActivated' = mIsActivated BY <1>4 DEF UpdateToolTip
  <2> QED BY <1>2, <2>1
<1> QED BY <1>3, <1>4

\* A filter is switched ...
LEMMA ToggleKeeps ==
  ASSUME FInv, NEW i \in Places, Toggle(i)
  PROVE  FInv'
<1> DEFINE box == mCheckBoxes[i]
           at == mCheckBoxIndexMap[box]
           state == ~checked[box]
           names == Names(mFilters)
<1>1. /\ mFilters' = mFilters /\ mCheckBoxes' = mCheckBoxes /\ mIndex' = mIndex /\ y' = y
      /\ mCheckBoxIndexMap' = mCheckBoxIndexMap /\ shifted' = shifted /\ dragged' = dragged
  BY DEF Toggle, lists
<1>2. SameLists' /\ Placed' /\ Drawn' /\ Boxed'
  BY <1>1 DEF FInv, SameLists, Placed, Drawn, Boxed, Places, Lines
<1>3. UpdateToolTip(box, at, state, mFilters) BY DEF Toggle
<1>4. box = mFilters[i] /\ box \in names BY DEF FInv, SameLists, Names, Places
<1>5. at \in DOMAIN mFilters /\ box \notin shifted => mFilters[at] = box
  BY <1>4 DEF FInv, Boxed, Places
<1> HIDE DEF box, at, state
<1>6. /\ DOMAIN checked = names /\ DOMAIN mIsActivated \subseteq names
      /\ ~misled /\ ~ended => \A f \in DOMAIN mIsActivated : mIsActivated[f] = checked[f]
  BY DEF FInv, Switched
<1>7. Switched'
  <2>1. /\ DOMAIN checked' = names
        /\ DOMAIN mIsActivated' \subseteq names
        /\ ~misled' /\ ~ended' => \A f \in DOMAIN mIsActivated' : mIsActivated'[f] = checked'[f]
    BY <1>3, <1>4, <1>5, <1>6, ToggleSwitches
  <2>2. names' = names BY <1>1
  <2> QED BY <2>1, <2>2 DEF Switched
<1> QED BY <1>2, <1>7 DEF FInv

\* ... or added: the invariant stays.
LEMMA AddFilterKeeps ==
  ASSUME FInv, NEW f \in FilterItems \ Names(mFilters), NEW enable, AddFilter(f, enable)
  PROVE  FInv'
<1> DEFINE n == Len(mFilters) + 1
           names == Names(mFilters)
<1>1. /\ mFilters \in Seq(FilterItems) /\ NoneTwice(mFilters) /\ mCheckBoxes = mFilters
      /\ Len(mFilters) \in Nat /\ DOMAIN mFilters = 1 .. Len(mFilters)
  BY ListIs DEF FInv, SameLists
<1>2. /\ mFilters' = Append(mFilters, f) /\ mCheckBoxes' = Append(mCheckBoxes, f)
      /\ mIndex' = With(mIndex, f, n) /\ y' = With(y, f, Top(n))
      /\ mCheckBoxIndexMap' = With(mCheckBoxIndexMap, f, n)
      /\ shifted' = shifted /\ dragged' = dragged /\ dragged = {}
  BY DEF AddFilter, Idle
<1>3. /\ mFilters' \in Seq(FilterItems) /\ NoneTwice(mFilters')
      /\ Len(mFilters') = n /\ DOMAIN mFilters' = 1 .. n
      /\ Names(mFilters') = names \cup {f}
      /\ mFilters'[n] = f /\ \A i \in 1 .. Len(mFilters) : mFilters'[i] = mFilters[i]
  BY <1>1, <1>2, AppendKeeps
<1>4. SameLists' BY <1>1, <1>2, <1>3 DEF SameLists
<1>5. \A i \in 1 .. n : i = n \/ i \in 1 .. Len(mFilters) BY <1>1
<1>6. \A i \in 1 .. Len(mFilters) : mFilters[i] \in names /\ mFilters[i] # f
  BY <1>1 DEF Names
<1>7. Names(mFilters)' = names \cup {f} BY <1>3 DEF Names
<1>8. Places' = 1 .. n BY <1>3 DEF Places
<1> HIDE DEF n, names
<1>9. Placed'
  <2>1. DOMAIN mIndex = names /\ \A i \in 1 .. Len(mFilters) : mIndex[mFilters[i]] = i
    BY <1>1 DEF FInv, Placed, Places, names
  <2>2. /\ DOMAIN mIndex' = names \cup {f} /\ mIndex'[f] = n
        /\ \A h \in names : h # f => mIndex'[h] = mIndex[h]
    BY <1>2, <2>1 DEF With
  <2>3. \A i \in 1 .. n : mIndex'[mFilters'[i]] = i
    BY <1>3, <1>5, <1>6, <2>1, <2>2
  <2> QED BY <1>7, <1>8, <2>2, <2>3 DEF Placed
<1>10. Drawn'
  <2>1. /\ DOMAIN y = names /\ \A i \in 1 .. Len(mFilters) : y[mFilters[i]] = Top(i)
    BY <1>1, <1>2 DEF FInv, Drawn, Places, names
  <2>2. /\ DOMAIN y' = names \cup {f} /\ y'[f] = Top(n)
        /\ \A h \in names : h # f => y'[h] = y[h]
    BY <1>2, <2>1 DEF With
  <2>3. \A i \in 1 .. n : y'[mFilters'[i]] = Top(i)
    BY <1>3, <1>5, <1>6, <2>1, <2>2
  <2>4. \A h \in Names(mFilters') : \E i \in 1 .. n : h = mFilters'[i]
    BY <1>3 DEF Names
  <2>5. n \in Nat BY <1>1 DEF n
  <2>6. Lines' = 0 .. Top(n) BY <1>3 DEF Lines, Top
  <2>7. \A h \in Names(mFilters') : y'[h] \in 0 .. Top(n)
    BY <2>3, <2>4, <2>5, TopIsLine
  <2> QED BY <1>2, <1>3, <1>7, <1>8, <2>2, <2>3, <2>6, <2>7 DEF Drawn
<1>11. Boxed'
  <2>1. /\ DOMAIN mCheckBoxIndexMap = names
        /\ \A i \in 1 .. Len(mFilters) :
             mFilters[i] \notin shifted => mCheckBoxIndexMap[mFilters[i]] = i
    BY <1>1 DEF FInv, Boxed, Places, names
  <2>2. /\ DOMAIN mCheckBoxIndexMap' = names \cup {f} /\ mCheckBoxIndexMap'[f] = n
        /\ \A h \in names : h # f => mCheckBoxIndexMap'[h] = mCheckBoxIndexMap[h]
    BY <1>2, <2>1 DEF With
  <2>3. \A i \in 1 .. n : mFilters'[i] \notin shifted => mCheckBoxIndexMap'[mFilters'[i]] = i
    BY <1>3, <1>5, <1>6, <2>1, <2>2
  <2> QED BY <1>2, <1>7, <1>8, <2>2, <2>3 DEF Boxed
<1>12. Switched'
  <2>1. /\ DOMAIN checked = names /\ DOMAIN mIsActivated \subseteq names
        /\ ~misled /\ ~ended => \A h \in DOMAIN mIsActivated : mIsActivated[h] = checked[h]
    BY DEF FInv, Switched, names
  <2>2. CASE enable
    <3> DEFINE on == TRUE
    <3>1. UpdateToolTip(f, n, on, mFilters') BY <2>2 DEF AddFilter, n
    <3> HIDE DEF on
    <3>2. mFilters'[n] = f BY <1>3
    <3> DEFINE all == names \cup {f}
    <3>3. /\ f \in all /\ Names(mFilters') \subseteq all /\ DOMAIN checked \cup {f} = all
          /\ DOMAIN mIsActivated \subseteq all
          /\ \A h \in DOMAIN mIsActivated : h = f \/ h \in DOMAIN checked
          /\ n \in DOMAIN mFilters' /\ f \notin shifted => mFilters'[n] = f
      BY <1>3, <2>1
    <3> HIDE DEF all
    <3>4. /\ DOMAIN checked' = all /\ DOMAIN mIsActivated' \subseteq all
          /\ ~misled' /\ ~ended' =>
               \A h \in DOMAIN mIsActivated' : mIsActivated'[h] = checked'[h]
      BY <2>1, <3>1, <3>3, ToggleSwitches
    <3> QED BY <1>7, <3>4 DEF Switched, all
  <2>3. CASE ~enable
    <3>1. /\ checked' = With(checked, f, FALSE)
          /\ mIsActivated' = mIsActivated /\ misled' = misled /\ ended' = ended
      BY <2>3 DEF AddFilter
    <3>2. /\ DOMAIN checked' = names \cup {f}
          /\ \A h \in names : h # f => checked'[h] = checked[h]
      BY <2>1, <3>1 DEF With
    <3>3. f \notin names BY DEF names
    <3> QED BY <1>7, <2>1, <3>1, <3>2, <3>3 DEF Switched
  <2> QED BY <2>2, <2>3
<1> QED BY <1>4, <1>9, <1>10, <1>11, <1>12 DEF FInv

\* Two items that change places, their boxes and all copies with them.
LEMMA SwapKeeps ==
  ASSUME SameLists, Placed, Boxed, NEW left \in Places, NEW right \in Places, left # right,
         SwapFilters(left, right)
  PROVE  /\ SameLists' /\ Placed' /\ Boxed'
         /\ Names(mFilters') = Names(mFilters) /\ Len(mFilters') = Len(mFilters)
         /\ DOMAIN mFilters' = DOMAIN mFilters
         /\ mFilters'[left] = mFilters[right] /\ mFilters'[right] = mFilters[left]
         /\ \A i \in Places : i # left /\ i # right => mFilters'[i] = mFilters[i]
<1>1. /\ mFilters \in Seq(FilterItems) /\ NoneTwice(mFilters) /\ mCheckBoxes = mFilters
      /\ left \in DOMAIN mFilters /\ right \in DOMAIN mFilters
  BY DEF SameLists, Places
<1>2. /\ mFilters' = Exchange(mFilters, left, right) /\ mCheckBoxes' = mFilters'
      /\ mIndex' = [mIndex EXCEPT ![mFilters'[left]] = left, ![mFilters'[right]] = right]
      /\ mCheckBoxIndexMap' =
           [mCheckBoxIndexMap EXCEPT ![mFilters'[left]] = left, ![mFilters'[right]] = right]
      /\ shifted' = shifted \ {mFilters[left], mFilters[right]}
  BY <1>1 DEF SwapFilters, IndexMap
<1>3. /\ mFilters' \in Seq(FilterItems) /\ NoneTwice(mFilters')
      /\ Len(mFilters') = Len(mFilters) /\ DOMAIN mFilters' = DOMAIN mFilters
      /\ Names(mFilters') = Names(mFilters)
      /\ mFilters'[left] = mFilters[right] /\ mFilters'[right] = mFilters[left]
      /\ \A i \in DOMAIN mFilters : i # left /\ i # right => mFilters'[i] = mFilters[i]
  BY <1>1, <1>2, ExchangeKeeps
<1>4. SameLists' BY <1>2, <1>3 DEF SameLists
<1>5. Names(mFilters)' = Names(mFilters) /\ Places' = DOMAIN mFilters
  BY <1>3 DEF Names, Places
<1>6. \A i, j \in DOMAIN mFilters : mFilters[i] = mFilters[j] => i = j
  BY <1>1 DEF NoneTwice
<1>7. \A i \in DOMAIN mFilters : mFilters[i] \in Names(mFilters) BY DEF Names
<1>8. Placed'
  <2>1. /\ DOMAIN mIndex = Names(mFilters)
        /\ \A i \in DOMAIN mFilters : mIndex[mFilters[i]] = i
    BY DEF Placed, Places
  <2>2. mIndex' = [mIndex EXCEPT ![mFilters[right]] = left, ![mFilters[left]] = right]
    BY <1>2, <1>3
  <2>3. DOMAIN mIndex' = Names(mFilters) BY <2>1, <2>2
  <2>4. mIndex'[mFilters[right]] = left /\ mIndex'[mFilters[left]] = right
    BY <1>1, <1>6, <1>7, <2>1, <2>2
  <2>5. \A i \in DOMAIN mFilters : i # left /\ i # right => mIndex'[mFilters[i]] = i
    BY <1>1, <1>6, <1>7, <2>1, <2>2
  <2>6. \A i \in DOMAIN mFilters : mIndex'[mFilters'[i]] = i
    BY <1>1, <1>3, <2>4, <2>5
  <2> QED BY <1>5, <2>3, <2>6 DEF Placed
<1>9. Boxed'
  <2> DEFINE map == mCheckBoxIndexMap
  <2>1. /\ DOMAIN map = Names(mFilters)
        /\ \A i \in DOMAIN mFilters : mFilters[i] \notin shifted => map[mFilters[i]] = i
    BY DEF Boxed, Places
  <2>2. map' = [map EXCEPT ![mFilters[right]] = left, ![mFilters[left]] = right]
    BY <1>2, <1>3
  <2>3. DOMAIN map' = Names(mFilters) BY <2>1, <2>2
  <2>4. map'[mFilters[right]] = left /\ map'[mFilters[left]] = right
    BY <1>1, <1>6, <1>7, <2>1, <2>2
  <2>5. \A i \in DOMAIN mFilters :
          i # left /\ i # right /\ mFilters[i] \notin shifted' => map'[mFilters[i]] = i
    BY <1>1, <1>2, <1>6, <1>7, <2>1, <2>2
  <2>6. \A i \in DOMAIN mFilters : mFilters'[i] \notin shifted' => map'[mFilters'[i]] = i
    BY <1>1, <1>3, <2>4, <2>5
  <2> QED BY <1>5, <2>3, <2>6 DEF Boxed
<1> QED BY <1>3, <1>4, <1>8, <1>9 DEF Places

\* The switches stay right when neither they nor the filters change.
LEMMA SwitchesStay ==
  ASSUME Switched, UNCHANGED switches, ended' = ended, Names(mFilters') = Names(mFilters)
  PROVE  Switched'
<1>1. Names(mFilters)' = Names(mFilters) BY DEF Names
<1>2. checked' = checked /\ mIsActivated' = mIsActivated /\ misled' = misled
  BY DEF switches
<1> QED BY <1>1, <1>2 DEF Switched

\* A line of the list is of a filter.
LEMMA LineIsInList ==
  ASSUME NEW line \in Nat, NEW n \in Nat, n > 0, line \in 0 .. 3 * (n - 1)
  PROVE  /\ line \div 3 + 1 \in 1 .. n
         /\ line % 3 = 2 => line \div 3 + 1 + 1 \in 1 .. n
<1>1. line \div 3 + 1 \in 1 .. n OBVIOUS
<1>2. line % 3 = 2 => line \div 3 + 2 \in 1 .. n OBVIOUS
<1>3. line \div 3 + 1 + 1 = line \div 3 + 2 OBVIOUS
<1> QED BY <1>1, <1>2, <1>3

\* The place a dragged item takes is within the list, and not its own.
LEMMA DisplacedPlaces ==
  ASSUME FInv, NEW f \in Names(mFilters), NEW i \in Displaced(f)
  PROVE  i \in Places /\ i # mIndex[f]
<1> DEFINE n == Len(mFilters)
           offset == y[f] \div 3 + 1
<1>1. n \in Nat /\ Places = 1 .. n BY ListIs DEF FInv, SameLists, Places
<1>2. n > 0 BY <1>1 DEF Names, Places
<1>3. y[f] \in 0 .. 3 * (n - 1) BY DEF FInv, Drawn, Lines, Top, SHeight
<1>4. y[f] \in Nat BY <1>1, <1>2, <1>3
<1>5. \/ i = offset /\ offset # mIndex[f]
      \/ i = offset + 1 /\ offset + 1 # mIndex[f] /\ y[f] % 3 = 2
  <2>1. SHeight = 3 /\ SHeight - 1 = 2 BY DEF SHeight
  <2>2. i \in (IF offset # mIndex[f] /\ y[f] % 3 = 0 THEN {offset}
               ELSE IF offset + 1 # mIndex[f] /\ y[f] % 3 = 2 THEN {offset + 1}
               ELSE {})
    BY <2>1 DEF Displaced
  <2> HIDE DEF offset
  <2> QED BY <2>2
<1>6. offset \in 1 .. n /\ (y[f] % 3 = 2 => offset + 1 \in 1 .. n)
  BY <1>1, <1>2, <1>3, <1>4, LineIsInList
<1> HIDE DEF n, offset
<1> QED BY <1>1, <1>5, <1>6

\* Places changed by the dialog, or by an item that hangs on the mouse.
LEMMA SwapChosenKeeps ==
  ASSUME FInv, NEW left \in Places, NEW right \in Places, SwapChosen(left, right)
  PROVE  FInv'
<1>1. /\ left # right /\ SwapFilters(left, right) /\ dragged = {} /\ dragged' = {}
      /\ y' = [y EXCEPT ![mFilters'[left]] = Top(left), ![mFilters'[right]] = Top(right)]
      /\ UNCHANGED switches /\ ended' = ended
  BY DEF SwapChosen, Idle
<1>2. /\ SameLists' /\ Placed' /\ Boxed'
      /\ Names(mFilters') = Names(mFilters) /\ Len(mFilters') = Len(mFilters)
      /\ DOMAIN mFilters' = DOMAIN mFilters
      /\ mFilters'[left] = mFilters[right] /\ mFilters'[right] = mFilters[left]
      /\ \A i \in Places : i # left /\ i # right => mFilters'[i] = mFilters[i]
  BY <1>1, SwapKeeps DEF FInv
<1>3. Switched' BY <1>1, <1>2, SwitchesStay DEF FInv
<1>4. Drawn'
  <2>1. /\ DOMAIN y = Names(mFilters) /\ Len(mFilters) \in Nat
        /\ DOMAIN mFilters = 1 .. Len(mFilters)
        /\ \A i \in Places : y[mFilters[i]] = Top(i)
    BY <1>1, ListIs DEF FInv, Drawn, SameLists
  <2>2. NoneTwice(mFilters) BY DEF FInv, SameLists
  <2>3. \A i \in Places : mFilters[i] \in Names(mFilters) BY DEF Names, Places
  <2>4. y' = [y EXCEPT ![mFilters[right]] = Top(left), ![mFilters[left]] = Top(right)]
    BY <1>1, <1>2
  <2>5. DOMAIN y' = Names(mFilters) BY <2>1, <2>4
  <2>6. y'[mFilters[right]] = Top(left) /\ y'[mFilters[left]] = Top(right)
    BY <1>1, <2>1, <2>2, <2>3, <2>4 DEF NoneTwice, Places
  <2>7. \A i \in Places : i # left /\ i # right => y'[mFilters[i]] = Top(i)
    BY <1>1, <2>1, <2>2, <2>3, <2>4 DEF NoneTwice, Places
  <2>8. \A i \in Places : y'[mFilters'[i]] = Top(i) BY <1>2, <2>6, <2>7
  <2>9. Names(mFilters)' = Names(mFilters) /\ Places' = Places /\ Lines' = Lines
    BY <1>2 DEF Names, Places, Lines
  <2>10. \A f \in Names(mFilters') : \E i \in Places : f = mFilters'[i]
    BY <1>2 DEF Names, Places
  <2>11. \A f \in Names(mFilters') : y'[f] \in Lines
    BY <2>1, <2>8, <2>10, TopIsLine DEF Lines, Places
  <2> QED BY <1>1, <1>2, <2>5, <2>8, <2>9, <2>11 DEF Drawn
<1> QED BY <1>2, <1>3, <1>4 DEF FInv

\* A filter is dragged to a line.
LEMMA MouseMoveKeeps ==
  ASSUME FInv, NEW f \in Names(mFilters), NEW line \in Lines, MouseMove(f, line)
  PROVE  FInv'
<1>0. /\ f \in dragged /\ dragged' = dragged /\ UNCHANGED switches /\ ended' = ended
  BY DEF MouseMove
<1>1. /\ DOMAIN y = Names(mFilters) /\ dragged = {f}
      /\ \A h \in Names(mFilters) : y[h] \in Lines
      /\ \A i \in Places : mFilters[i] # f => y[mFilters[i]] = Top(i)
  BY <1>0 DEF FInv, Drawn
<1>2. /\ Len(mFilters) \in Nat /\ Places = 1 .. Len(mFilters) /\ NoneTwice(mFilters)
  BY ListIs DEF FInv, SameLists, Places
<1>3. ASSUME NEW i \in Displaced(f), SwapFilters(mIndex[f], i),
             y' = [y EXCEPT ![mFilters[i]] = Top(mIndex[f]), ![f] = line]
      PROVE  FInv'
  <2> DEFINE at == mIndex[f]
  <2>1. PICK j \in Places : mFilters[j] = f BY DEF Names, Places
  <2>2. at = j /\ i \in Places /\ i # at
    BY <2>1, DisplacedPlaces DEF FInv, Placed
  <2>3. at \in Places /\ mFilters[at] = f /\ SwapFilters(at, i)
    BY <1>3, <2>1, <2>2
  <2> HIDE DEF at
  <2>4. /\ SameLists' /\ Placed' /\ Boxed'
        /\ Names(mFilters') = Names(mFilters) /\ Len(mFilters') = Len(mFilters)
        /\ DOMAIN mFilters' = DOMAIN mFilters
        /\ mFilters'[at] = mFilters[i] /\ mFilters'[i] = f
        /\ \A k \in Places : k # at /\ k # i => mFilters'[k] = mFilters[k]
    BY <2>2, <2>3, SwapKeeps DEF FInv
  <2>5. Switched' BY <1>0, <2>4, SwitchesStay DEF FInv
  <2>6. y' = [y EXCEPT ![mFilters[i]] = Top(at), ![f] = line] BY <1>3 DEF at
  <2>7. mFilters[i] # f /\ mFilters[i] \in Names(mFilters)
    BY <1>2, <2>2, <2>3 DEF NoneTwice, Places, Names
  <2>8. /\ DOMAIN y' = Names(mFilters) /\ y'[f] = line /\ y'[mFilters[i]] = Top(at)
        /\ \A h \in Names(mFilters) : h # f /\ h # mFilters[i] => y'[h] = y[h]
    BY <1>1, <2>6, <2>7
  <2>9. Names(mFilters)' = Names(mFilters) /\ Places' = Places /\ Lines' = Lines
    BY <2>4 DEF Names, Places, Lines
  <2>10. \A k \in Places : mFilters[k] \in Names(mFilters) BY DEF Places, Names
  <2>11. \A k \in Places : mFilters'[k] # f => y'[mFilters'[k]] = Top(k)
    <3> SUFFICES ASSUME NEW k \in Places, mFilters'[k] # f
                 PROVE  y'[mFilters'[k]] = Top(k)
      OBVIOUS
    <3>1. CASE k = at BY <2>4, <2>8, <3>1
    <3>2. CASE k # at
      <4>1. k # i /\ mFilters'[k] = mFilters[k] BY <2>4, <3>2
      <4>2. mFilters[k] # mFilters[i]
        BY <1>2, <2>2, <4>1 DEF NoneTwice, Places
      <4> QED BY <1>1, <2>8, <2>10, <4>1, <4>2
    <3> QED BY <3>1, <3>2
  <2>12. Top(at) \in Lines BY <1>2, <2>3, TopIsLine DEF Lines
  <2>13. \A h \in Names(mFilters) : y'[h] \in Lines BY <1>1, <2>8, <2>12
  <2>14. Drawn' BY <1>0, <1>1, <2>4, <2>8, <2>9, <2>11, <2>13 DEF Drawn
  <2> QED BY <2>4, <2>5, <2>14 DEF FInv
<1>4. ASSUME y' = [y EXCEPT ![f] = line],
             UNCHANGED <<mFilters, mCheckBoxes, mIndex, mCheckBoxIndexMap, shifted>>
      PROVE  FInv'
  <2>1. SameLists' /\ Placed' /\ Boxed' BY <1>4 DEF FInv, SameLists, Placed, Boxed, Places
  <2>2. Switched' BY <1>0, <1>4, SwitchesStay DEF FInv
  <2>3. Names(mFilters)' = Names(mFilters) /\ Places' = Places /\ Lines' = Lines
    BY <1>4 DEF Places, Lines
  <2>4. /\ DOMAIN y' = Names(mFilters) /\ y'[f] = line
        /\ \A h \in Names(mFilters) : h # f => y'[h] = y[h]
    BY <1>1, <1>4
  <2>5. \A k \in Places : mFilters[k] \in Names(mFilters) BY DEF Places, Names
  <2>6. \A h \in Names(mFilters) : y'[h] \in Lines BY <1>1, <2>4
  <2>7. \A k \in Places : mFilters[k] # f => y'[mFilters[k]] = Top(k)
    BY <1>1, <2>4, <2>5
  <2>8. Drawn' BY <1>0, <1>1, <1>4, <2>3, <2>4, <2>6, <2>7 DEF Drawn
  <2> QED BY <2>1, <2>2, <2>8 DEF FInv
<1> QED BY <1>3, <1>4 DEF MouseMove

\* The other events of the mouse: at most one item is held, and one that is
\* let go is drawn at its place.
LEMMA MouseKeeps ==
  ASSUME FInv, NEW f \in Names(mFilters),
         HoverEnter(f) \/ HoverLeave(f) \/ MousePress(f) \/ MouseRelease(f)
  PROVE  FInv'
<1>1. /\ mFilters' = mFilters /\ mCheckBoxes' = mCheckBoxes /\ mIndex' = mIndex
      /\ mCheckBoxIndexMap' = mCheckBoxIndexMap /\ shifted' = shifted
      /\ UNCHANGED switches /\ ended' = ended
  BY DEF HoverEnter, HoverLeave, MousePress, MouseRelease, lists
<1>2. SameLists' /\ Placed' /\ Boxed' BY <1>1 DEF FInv, SameLists, Placed, Boxed, Places
<1>3. Switched' BY <1>1, SwitchesStay DEF FInv
<1>4. Names(mFilters)' = Names(mFilters) /\ Places' = Places /\ Lines' = Lines
  BY <1>1 DEF Places, Lines
<1>5. CASE HoverEnter(f) \/ HoverLeave(f)
  <2>1. y' = y /\ dragged' = dragged BY <1>5 DEF HoverEnter, HoverLeave, lists
  <2>2. Drawn' BY <1>1, <1>4, <2>1 DEF FInv, Drawn
  <2> QED BY <1>2, <1>3, <2>2 DEF FInv
<1>6. CASE MousePress(f)
  <2>1. y' = y /\ dragged = {} /\ dragged' = {f} BY <1>6 DEF MousePress, Idle, lists
  <2>2. Drawn' BY <1>1, <1>4, <2>1 DEF FInv, Drawn
  <2> QED BY <1>2, <1>3, <2>2 DEF FInv
<1>7. CASE MouseRelease(f)
  <2>1. /\ f \in dragged /\ dragged' = {} /\ y' = [y EXCEPT ![f] = Top(mIndex[f])]
    BY <1>7 DEF MouseRelease
  <2>2. /\ DOMAIN y = Names(mFilters) /\ dragged = {f}
        /\ \A h \in Names(mFilters) : y[h] \in Lines
        /\ \A i \in Places : mFilters[i] # f => y[mFilters[i]] = Top(i)
    BY <2>1 DEF FInv, Drawn
  <2>3. PICK j \in Places : mFilters[j] = f BY DEF Names, Places
  <2>4. mIndex[f] = j BY <2>3 DEF FInv, Placed
  <2>5. /\ DOMAIN y' = Names(mFilters) /\ y'[f] = Top(j)
        /\ \A h \in Names(mFilters) : h # f => y'[h] = y[h]
    BY <2>1, <2>2, <2>4
  <2>6. Len(mFilters) \in Nat /\ Places = 1 .. Len(mFilters) /\ NoneTwice(mFilters)
    BY ListIs DEF FInv, SameLists, Places
  <2>7. Top(j) \in Lines BY <2>6, TopIsLine DEF Lines
  <2>8. \A h \in Names(mFilters) : y'[h] \in Lines BY <2>2, <2>5, <2>7
  <2>9. \A i \in Places : y'[mFilters[i]] = Top(i)
    <3>1. \A i \in Places : mFilters[i] \in Names(mFilters) BY DEF Names, Places
    <3>2. \A i \in Places : mFilters[i] = f => i = j BY <2>3, <2>6 DEF NoneTwice, Places
    <3> QED BY <2>2, <2>5, <3>1, <3>2
  <2>10. Drawn' BY <1>1, <1>4, <2>1, <2>5, <2>8, <2>9 DEF Drawn
  <2> QED BY <1>2, <1>3, <2>10 DEF FInv
<1> QED BY <1>5, <1>6, <1>7

\* The items behind a removed one move up, and so do their lines; their boxes
\* do too, but not the places these say.
LEMMA RemoveKeeps ==
  ASSUME FInv, dragged = {}, NEW i \in Places, RemoveAtPlace(i)
  PROVE  FInv'
<1> DEFINE n == Len(mFilters)
           names == Names(mFilters)
           f == mFilters[i]
           from(j) == IF j < i THEN j ELSE j + 1
<1>1. /\ mFilters \in Seq(FilterItems) /\ NoneTwice(mFilters) /\ mCheckBoxes = mFilters
      /\ n \in Nat /\ DOMAIN mFilters = 1 .. n /\ Places = 1 .. n
  BY ListIs DEF FInv, SameLists, Places
<1>2. /\ mFilters' = Erase(mFilters, i) /\ mCheckBoxes' = mFilters'
      /\ mIndex' = [h \in DOMAIN mIndex \ {f} |-> IF mIndex[h] > i THEN mIndex[h] - 1 ELSE mIndex[h]]
      /\ y' = [h \in DOMAIN mIndex' |-> IF i <= mIndex'[h] THEN Top(mIndex'[h]) ELSE y[h]]
      /\ mIsActivated' = Without(mIsActivated, {f})
      /\ mCheckBoxIndexMap' = Without(mCheckBoxIndexMap, {f})
      /\ checked' = Without(checked, {f})
      /\ shifted' = (shifted \ {f}) \cup {mFilters[j] : j \in i + 1 .. n}
      /\ misled' = misled /\ ended' = ended /\ dragged' = {}
  BY <1>1 DEF RemoveAtPlace, IndicesBehind
<1>3. /\ mFilters' \in Seq(FilterItems) /\ NoneTwice(mFilters')
      /\ Len(mFilters') = n - 1 /\ DOMAIN mFilters' = 1 .. n - 1
      /\ Names(mFilters') = names \ {f}
      /\ \A j \in 1 .. n - 1 : mFilters'[j] = mFilters[from(j)]
  BY <1>1, <1>2, EraseKeeps
<1>4. Names(mFilters)' = names \ {f} /\ Places' = 1 .. n - 1
  BY <1>3 DEF Names, Places
<1>5. SameLists' BY <1>2, <1>3 DEF SameLists
<1>6. \A j \in 1 .. n - 1 : /\ from(j) \in 1 .. n /\ from(j) # i
                            /\ mFilters[from(j)] \in names /\ mFilters[from(j)] # f
  BY <1>1 DEF Names, NoneTwice
<1>7. /\ DOMAIN mIndex = names /\ \A j \in 1 .. n : mIndex[mFilters[j]] = j
      /\ DOMAIN y = names /\ \A j \in 1 .. n : y[mFilters[j]] = Top(j)
      /\ DOMAIN mCheckBoxIndexMap = names
      /\ \A j \in 1 .. n : mFilters[j] \notin shifted => mCheckBoxIndexMap[mFilters[j]] = j
  BY <1>1 DEF FInv, Placed, Drawn, Boxed
<1>8. i \in 1 .. n BY <1>1
<1> HIDE DEF n, names, f
<1>9. DOMAIN mIndex' = names \ {f} /\ \A j \in 1 .. n - 1 : mIndex'[mFilters'[j]] = j
  <2>1. DOMAIN mIndex' = names \ {f} BY <1>2, <1>7
  <2>2. ASSUME NEW j \in 1 .. n - 1 PROVE mIndex'[mFilters'[j]] = j
    <3>1. /\ mFilters'[j] = mFilters[from(j)] /\ mFilters'[j] \in names \ {f}
          /\ mIndex[mFilters'[j]] = from(j)
      BY <1>3, <1>6, <1>7
    <3>2. mIndex'[mFilters'[j]] = IF from(j) > i THEN from(j) - 1 ELSE from(j)
      BY <1>2, <1>7, <3>1
    <3> QED BY <1>1, <1>8, <3>2
  <2> QED BY <2>1, <2>2
<1>10. Placed' BY <1>4, <1>9 DEF Placed
<1>11. Drawn'
  <2>1. DOMAIN y' = names \ {f} BY <1>2, <1>9
  <2>2. ASSUME NEW j \in 1 .. n - 1 PROVE y'[mFilters'[j]] = Top(j)
    <3>1. /\ mFilters'[j] = mFilters[from(j)] /\ mFilters'[j] \in names \ {f}
          /\ mIndex'[mFilters'[j]] = j
      BY <1>3, <1>6, <1>9
    <3>2. y'[mFilters'[j]] = IF i <= j THEN Top(j) ELSE y[mFilters'[j]]
      BY <1>2, <1>9, <3>1
    <3>3. CASE i <= j BY <3>2, <3>3
    <3>4. CASE ~(i <= j)
      <4>1. from(j) = j BY <1>1, <1>8, <3>4
      <4> QED BY <1>6, <1>7, <3>1, <3>2, <3>4, <4>1
    <3> QED BY <3>3, <3>4
  <2>3. n - 1 \in Nat BY <1>1, <1>8
  <2>4. Lines' = 0 .. Top(n - 1) BY <1>3 DEF Lines, Top
  <2>5. \A h \in Names(mFilters') : \E j \in 1 .. n - 1 : h = mFilters'[j]
    BY <1>3 DEF Names
  <2>6. \A h \in Names(mFilters') : y'[h] \in 0 .. Top(n - 1)
    BY <2>2, <2>3, <2>5, TopIsLine
  <2> QED BY <1>2, <1>3, <1>4, <2>1, <2>2, <2>4, <2>6 DEF Drawn
<1>12. Boxed'
  <2>1. /\ DOMAIN mCheckBoxIndexMap' = names \ {f}
        /\ \A h \in names \ {f} : mCheckBoxIndexMap'[h] = mCheckBoxIndexMap[h]
    BY <1>2, <1>7 DEF Without
  <2>2. ASSUME NEW j \in 1 .. n - 1, mFilters'[j] \notin shifted'
        PROVE  mCheckBoxIndexMap'[mFilters'[j]] = j
    <3>1. /\ mFilters'[j] = mFilters[from(j)] /\ mFilters'[j] \in names \ {f}
      BY <1>3, <1>6
    <3>2. mFilters'[j] \notin shifted BY <1>2, <2>2, <3>1
    <3>3. ~(from(j) \in i + 1 .. n) BY <1>2, <2>2, <3>1
    <3>4. from(j) = j BY <1>1, <1>8, <3>3
    <3> QED BY <1>6, <1>7, <2>1, <3>1, <3>2, <3>4
  <2> QED BY <1>4, <2>1, <2>2 DEF Boxed
<1>13. Switched'
  <2>1. /\ DOMAIN checked = names /\ DOMAIN mIsActivated \subseteq names
        /\ ~misled /\ ~ended => \A h \in DOMAIN mIsActivated : mIsActivated[h] = checked[h]
    BY DEF FInv, Switched, names
  <2>2. /\ DOMAIN checked' = names \ {f}
        /\ \A h \in names \ {f} : checked'[h] = checked[h]
        /\ DOMAIN mIsActivated' = DOMAIN mIsActivated \ {f}
        /\ \A h \in DOMAIN mIsActivated \ {f} : mIsActivated'[h] = mIsActivated[h]
    BY <1>2, <2>1 DEF Without
  <2>3. ASSUME ~misled', ~ended', NEW h \in DOMAIN mIsActivated'
        PROVE  mIsActivated'[h] = checked'[h]
    BY <1>2, <2>1, <2>2, <2>3
  <2> QED BY <1>4, <2>1, <2>2, <2>3 DEF Switched
<1> QED BY <1>5, <1>10, <1>11, <1>12, <1>13 DEF FInv

\* The selected filters are removed.
LEMMA RemoveFiltersKeeps ==
  ASSUME FInv, RemoveFilters
  PROVE  FInv'
<1>1. /\ mFilters' = <<>> /\ mCheckBoxes' = <<>> /\ mIndex' = <<>> /\ y' = <<>>
      /\ mCheckBoxIndexMap' = <<>> /\ checked' = <<>> /\ mIsActivated' = <<>>
      /\ dragged' = {}
  BY DEF RemoveFilters, Idle
<1>2. <<>> \in Seq(FilterItems) /\ DOMAIN <<>> = {} OBVIOUS
<1>3. Names(mFilters)' = {} /\ Places' = {} BY <1>1, <1>2 DEF Names, Places
<1>4. SameLists' BY <1>1, <1>2 DEF SameLists, NoneTwice
<1>5. Placed' BY <1>1, <1>2, <1>3 DEF Placed
<1>6. Drawn' BY <1>1, <1>2, <1>3 DEF Drawn
<1>7. Boxed' BY <1>1, <1>2, <1>3 DEF Boxed
<1>8. Switched' BY <1>1, <1>2, <1>3 DEF Switched
<1> QED BY <1>4, <1>5, <1>6, <1>7, <1>8 DEF FInv

\* Every step keeps the invariant.
LEMMA NextFInv ==
  ASSUME FInv, [FilterNext]_filterVars
  PROVE  FInv'
<1>1. CASE \E f \in FilterItems \ Names(mFilters), enable \in BOOLEAN : AddFilter(f, enable)
  BY <1>1, AddFilterKeeps
<1>2. CASE \E i \in Places : Toggle(i) \/ RemoveFilter(i)
  <2>1. ASSUME NEW i \in Places, RemoveFilter(i) PROVE FInv'
    <3>1. dragged = {} /\ RemoveAtPlace(i) BY <2>1 DEF RemoveFilter, Idle
    <3> QED BY <3>1, RemoveKeeps
  <2> QED BY <1>2, <2>1, ToggleKeeps
<1>3. CASE \E i, j \in Places : SwapChosen(i, j) BY <1>3, SwapChosenKeeps
<1>4. CASE RemoveSelectedFilter
  <2>1. dragged = {} BY <1>4 DEF RemoveSelectedFilter, Idle
  <2>2. ASSUME NEW f \in Names(mFilters), RemoveAtPlace(mIndex[f]) PROVE FInv'
    <3>1. mIndex[f] \in Places BY DEF FInv, Placed, Names, Places
    <3> QED BY <2>1, <2>2, <3>1, RemoveKeeps
  <2>3. ASSUME ended' = TRUE, UNCHANGED <<lists, switches, mpSelectedItem, dragged>>
        PROVE  FInv'
    <3>1. /\ mFilters' = mFilters /\ mCheckBoxes' = mCheckBoxes /\ mIndex' = mIndex /\ y' = y
          /\ mCheckBoxIndexMap' = mCheckBoxIndexMap /\ shifted' = shifted
          /\ mIsActivated' = mIsActivated /\ checked' = checked /\ dragged' = dragged
      BY <2>3 DEF lists, switches
    <3>2. SameLists' /\ Placed' /\ Drawn' /\ Boxed'
      BY <3>1 DEF FInv, SameLists, Placed, Drawn, Boxed, Places, Lines
    <3>3. Switched' BY <2>3, <3>1 DEF FInv, Switched
    <3> QED BY <3>2, <3>3 DEF FInv
  <2> QED BY <1>4, <2>2, <2>3 DEF RemoveSelectedFilter
<1>5. CASE RemoveFilters BY <1>5, RemoveFiltersKeeps
<1>6. CASE \E f \in Names(mFilters) :
             HoverEnter(f) \/ HoverLeave(f) \/ MousePress(f) \/ MouseRelease(f)
  BY <1>6, MouseKeeps
<1>7. CASE \E f \in Names(mFilters), line \in Lines : MouseMove(f, line)
  BY <1>7, MouseMoveKeeps
<1>8. CASE UNCHANGED filterVars
  <2>1. /\ mFilters' = mFilters /\ mCheckBoxes' = mCheckBoxes /\ mIndex' = mIndex /\ y' = y
        /\ mCheckBoxIndexMap' = mCheckBoxIndexMap /\ shifted' = shifted /\ dragged' = dragged
        /\ UNCHANGED switches /\ ended' = ended
    BY <1>8 DEF filterVars, lists
  <2>2. SameLists' /\ Placed' /\ Drawn' /\ Boxed'
    BY <2>1 DEF FInv, SameLists, Placed, Drawn, Boxed, Places, Lines
  <2>3. Switched' BY <2>1, SwitchesStay DEF FInv
  <2> QED BY <2>2, <2>3 DEF FInv
<1> QED BY <1>1, <1>2, <1>3, <1>4, <1>5, <1>6, <1>7, <1>8 DEF FilterNext

\* However a person adds, removes, swaps, drags and toggles filters, every item
\* knows its place and is drawn there unless the mouse holds it, and filters
\* are on as their boxes say until a box that a removal moved up is toggled.
THEOREM FiltersKnowTheirPlace == FilterSpec => []ItemsKnowTheirPlace
<1>1. FInv => ItemsKnowTheirPlace
  <2> SUFFICES ASSUME FInv PROVE ItemsKnowTheirPlace OBVIOUS
  <2>1. DOMAIN mIndex = Names(mFilters) /\ mCheckBoxes = mFilters
    BY DEF FInv, Placed, SameLists
  <2>2. ASSUME NEW i \in Places
        PROVE  /\ mIndex[mFilters[i]] = i
               /\ mFilters[i] \notin dragged => y[mFilters[i]] = Top(i)
               /\ ~misled /\ ~ended /\ mFilters[i] \in DOMAIN mIsActivated =>
                    mIsActivated[mFilters[i]] = checked[mCheckBoxes[i]]
    BY <2>1 DEF FInv, Placed, Drawn, Switched
  <2> QED BY <2>1, <2>2 DEF ItemsKnowTheirPlace
<1> QED BY <1>1, InitFInv, NextFInv, PTL DEF FilterSpec

-----------------------------------------------------------------------------
(***************************************************************************)
(* The boost back-end, for any graph and any sequence of calls, as long as *)
(* no vertex is removed that has edges or others behind it.                *)
(***************************************************************************)
\* The edge an element stands for while the descriptors of its ends are good.
EdgeOf(b, e) == [element |-> e, source |-> GetVertexDescriptor(b, BoostEnds[e][1]),
                 target |-> GetVertexDescriptor(b, BoostEnds[e][2])]

\* What the list of edges holds.
EdgeRecords == [element : BoostEdges, source : Nat, target : Nat]

IsBoost(b) == b = [vertices |-> b.vertices, edges |-> b.edges, mVertexMap |-> b.mVertexMap,
                   mEdgeMap |-> b.mEdgeMap, vid |-> b.vid, eid |-> b.eid,
                   msNewVertexId |-> b.msNewVertexId, msNewEdgeId |-> b.msNewEdgeId]

\* Vertices, their ids and their places are the same, one to one.
VerticesInPlace(b) ==
  /\ b.vertices \in Seq(BoostVertices) /\ b.msNewVertexId \in Nat
  /\ DOMAIN b.vid \subseteq BoostVertices
  /\ \A v \in DOMAIN b.vid : b.vid[v] \in Nat /\ b.vid[v] < b.msNewVertexId
  /\ \A v, w \in DOMAIN b.vid : b.vid[v] = b.vid[w] => v = w
  /\ DOMAIN b.mVertexMap = {b.vid[v] : v \in DOMAIN b.vid}
  /\ \A v \in DOMAIN b.vid : /\ GetVertexDescriptor(b, v) \in 1 .. Len(b.vertices)
                             /\ b.vertices[GetVertexDescriptor(b, v)] = v
  /\ \A i \in 1 .. Len(b.vertices) : /\ b.vertices[i] \in DOMAIN b.vid
                                     /\ GetVertexDescriptor(b, b.vertices[i]) = i

\* So are edges and their ids; and every edge has the places of its ends.
EdgesInPlace(b) ==
  /\ b.edges \in Seq(EdgeRecords) /\ b.msNewEdgeId \in Nat
  /\ NoneTwice(b.edges)
  /\ DOMAIN b.eid \subseteq BoostEdges
  /\ Held(b.edges) = {EdgeOf(b, e) : e \in DOMAIN b.eid}
  /\ \A e \in DOMAIN b.eid : BoostEnds[e][1] \in DOMAIN b.vid /\ BoostEnds[e][2] \in DOMAIN b.vid
  /\ \A e \in DOMAIN b.eid : b.eid[e] \in Nat /\ b.eid[e] < b.msNewEdgeId
  /\ \A e, f \in DOMAIN b.eid : b.eid[e] = b.eid[f] => e = f
  /\ DOMAIN b.mEdgeMap = {b.eid[e] : e \in DOMAIN b.eid}
  /\ \A e \in DOMAIN b.eid : b.mEdgeMap[b.eid[e]] = EdgeOf(b, e)

Orderly(b) == IsBoost(b) /\ VerticesInPlace(b) /\ EdgesInPlace(b)
BoostInv == ~disturbed => Orderly(boost) /\ ~undefined

\* The ends of edges are vertices.
LEMMA BoostEndsAre ==
  ASSUME NEW e \in BoostEdges
  PROVE  BoostEnds[e][1] \in BoostVertices /\ BoostEnds[e][2] \in BoostVertices
BY BoostAssumption

\* Edges are the same if their elements are.
LEMMA EdgeOfElement == ASSUME NEW b, NEW e PROVE EdgeOf(b, e).element = e
BY DEF EdgeOf

\* A new vertex comes to the end, under an id of its own.
LEMMA VertexJoins ==
  ASSUME NEW b, Orderly(b), NEW v \in BoostVertices, v \notin DOMAIN b.vid
  PROVE  /\ Orderly(AddVertexInternal(b, v))
         /\ DOMAIN AddVertexInternal(b, v).vid = DOMAIN b.vid \cup {v}
         /\ AddVertexInternal(b, v).eid = b.eid
         /\ AddVertexInternal(b, v).msNewEdgeId = b.msNewEdgeId
<1> DEFINE c == AddVertexInternal(b, v)
           id == b.msNewVertexId
           n == Len(b.vertices)
           vid == Over(Entry(v, id), b.vid)
           map == Over(Entry(id, n + 1), b.mVertexMap)
<1>1. c = [vertices |-> Append(b.vertices, v), edges |-> b.edges, mVertexMap |-> map,
           mEdgeMap |-> b.mEdgeMap, vid |-> vid, eid |-> b.eid,
           msNewVertexId |-> id + 1, msNewEdgeId |-> b.msNewEdgeId]
  <2>1. PICK vs, es, vm, em, vi, ei, nv, ne :
          b = [vertices |-> vs, edges |-> es, mVertexMap |-> vm, mEdgeMap |-> em, vid |-> vi, eid |-> ei,
               msNewVertexId |-> nv, msNewEdgeId |-> ne]
    BY DEF Orderly, IsBoost
  <2> HIDE DEF vid, map
  <2>2. c = [b EXCEPT !.vertices = Append(b.vertices, v), !.msNewVertexId = id + 1,
                      !.mVertexMap = map, !.vid = vid]
    BY <2>1 DEF AddVertexInternal, map, vid
  <2> HIDE DEF c
  <2> QED BY <2>1, <2>2
<1> HIDE DEF c
<1>2. /\ DOMAIN vid = DOMAIN b.vid \cup {v} /\ vid[v] = id
      /\ \A w \in DOMAIN b.vid : vid[w] = b.vid[w]
  BY DEF Over, Entry
<1>3. VerticesInPlace(b) /\ EdgesInPlace(b) BY DEF Orderly
<1>4. \A w \in DOMAIN b.vid : b.vid[w] # id /\ b.vid[w] \in Nat /\ id \in Nat BY <1>3 DEF VerticesInPlace
<1>5. /\ DOMAIN map = DOMAIN b.mVertexMap \cup {id} /\ map[id] = n + 1
      /\ \A w \in DOMAIN b.vid : map[b.vid[w]] = b.mVertexMap[b.vid[w]]
  BY <1>3, <1>4 DEF Over, Entry, VerticesInPlace
<1>6. /\ GetVertexDescriptor(c, v) = n + 1
      /\ \A w \in DOMAIN b.vid : GetVertexDescriptor(c, w) = GetVertexDescriptor(b, w)
  BY <1>1, <1>2, <1>5 DEF GetVertexDescriptor
<1> HIDE DEF vid, map
<1>7. n \in Nat /\ Len(Append(b.vertices, v)) = n + 1 /\ Append(b.vertices, v) \in Seq(BoostVertices)
      /\ Append(b.vertices, v)[n + 1] = v /\ \A i \in 1 .. n : Append(b.vertices, v)[i] = b.vertices[i]
  BY <1>3 DEF VerticesInPlace
<1>8. VerticesInPlace(c)
  <2>1. c.vertices = Append(b.vertices, v) /\ c.vid = vid /\ c.mVertexMap = map /\ c.msNewVertexId = id + 1
    BY <1>1
  <2>2. \A w \in DOMAIN vid : vid[w] \in Nat /\ vid[w] < id + 1 BY <1>2, <1>3, <1>4 DEF VerticesInPlace
  <2>3. \A w, x \in DOMAIN vid : vid[w] = vid[x] => w = x BY <1>2, <1>3, <1>4 DEF VerticesInPlace
  <2>4. DOMAIN map = {vid[w] : w \in DOMAIN vid} BY <1>2, <1>3, <1>5 DEF VerticesInPlace
  <2>5. \A w \in DOMAIN vid : /\ GetVertexDescriptor(c, w) \in 1 .. n + 1
                              /\ Append(b.vertices, v)[GetVertexDescriptor(c, w)] = w
    BY <1>2, <1>3, <1>6, <1>7 DEF VerticesInPlace
  <2>6. \A i \in 1 .. n + 1 : /\ Append(b.vertices, v)[i] \in DOMAIN vid
                              /\ GetVertexDescriptor(c, Append(b.vertices, v)[i]) = i
    <3> TAKE i \in 1 .. n + 1
    <3>1. i = n + 1 \/ i \in 1 .. n BY <1>7
    <3> QED BY <1>2, <1>3, <1>6, <1>7, <3>1 DEF VerticesInPlace
  <2>7. id + 1 \in Nat /\ DOMAIN vid \subseteq BoostVertices BY <1>2, <1>3 DEF VerticesInPlace
  <2>8. Len(c.vertices) = n + 1 BY <1>7, <2>1
  <2>9. \A w \in DOMAIN c.vid : /\ GetVertexDescriptor(c, w) \in 1 .. Len(c.vertices)
                                /\ c.vertices[GetVertexDescriptor(c, w)] = w
    BY <2>1, <2>5, <2>8
  <2>10. \A i \in 1 .. Len(c.vertices) : /\ c.vertices[i] \in DOMAIN c.vid
                                         /\ GetVertexDescriptor(c, c.vertices[i]) = i
    BY <2>1, <2>6, <2>8
  <2>11. c.vertices \in Seq(BoostVertices) /\ c.msNewVertexId \in Nat /\ DOMAIN c.vid \subseteq BoostVertices
    BY <1>7, <2>1, <2>7
  <2>12. \A w \in DOMAIN c.vid : c.vid[w] \in Nat /\ c.vid[w] < c.msNewVertexId BY <2>1, <2>2
  <2>13. \A w, x \in DOMAIN c.vid : c.vid[w] = c.vid[x] => w = x BY <2>1, <2>3
  <2>14. DOMAIN c.mVertexMap = {c.vid[w] : w \in DOMAIN c.vid} BY <2>1, <2>4
  <2> HIDE DEF c
  <2> QED BY <2>9, <2>10, <2>11, <2>12, <2>13, <2>14 DEF VerticesInPlace
<1>9. EdgesInPlace(c)
  <2>1. c.edges = b.edges /\ c.eid = b.eid /\ c.mEdgeMap = b.mEdgeMap /\ c.msNewEdgeId = b.msNewEdgeId
        /\ c.vid = vid
    BY <1>1
  <2>2. \A e \in DOMAIN b.eid : EdgeOf(c, e) = EdgeOf(b, e) BY <1>3, <1>6 DEF EdgeOf, EdgesInPlace
  <2>3. {EdgeOf(c, e) : e \in DOMAIN b.eid} = {EdgeOf(b, e) : e \in DOMAIN b.eid} BY <2>2
  <2>4. \A e \in DOMAIN b.eid : BoostEnds[e][1] \in DOMAIN vid /\ BoostEnds[e][2] \in DOMAIN vid
    BY <1>2, <1>3 DEF EdgesInPlace
  <2> QED BY <1>3, <2>1, <2>2, <2>3, <2>4 DEF EdgesInPlace
<1>10. IsBoost(c) BY <1>1 DEF IsBoost
<1> QED BY <1>1, <1>2, <1>8, <1>9, <1>10 DEF Orderly, c

\* So does a vertex that an edge brings along; one that is there stays.
LEMMA EndJoins ==
  ASSUME NEW b, Orderly(b), NEW v \in BoostVertices
  PROVE  /\ Orderly(Joined(b, v)) /\ DOMAIN Joined(b, v).vid = DOMAIN b.vid \cup {v}
         /\ Joined(b, v).eid = b.eid /\ Joined(b, v).msNewEdgeId = b.msNewEdgeId
BY VertexJoins DEF Joined

\* A new edge comes to the end of the list, with the places of its ends.
LEMMA EdgeJoins ==
  ASSUME NEW b, Orderly(b), NEW e \in BoostEdges, e \notin DOMAIN b.eid,
         BoostEnds[e][1] \in DOMAIN b.vid, BoostEnds[e][2] \in DOMAIN b.vid
  PROVE  Orderly(AddEdgeInternal(b, e))
<1> DEFINE c == AddEdgeInternal(b, e)
           id == b.msNewEdgeId
           edge == EdgeOf(b, e)
           eid == Over(Entry(e, id), b.eid)
           map == Over(Entry(id, edge), b.mEdgeMap)
           s == GetVertexDescriptor(b, BoostEnds[e][1])
           t == GetVertexDescriptor(b, BoostEnds[e][2])
<1>1. VerticesInPlace(b) /\ EdgesInPlace(b) BY DEF Orderly
<1>2. s \in 1 .. Len(b.vertices) /\ t \in 1 .. Len(b.vertices) BY <1>1 DEF VerticesInPlace
<1>3. c = [vertices |-> b.vertices, edges |-> Append(b.edges, edge), mVertexMap |-> b.mVertexMap,
           mEdgeMap |-> map, vid |-> b.vid, eid |-> eid,
           msNewVertexId |-> b.msNewVertexId, msNewEdgeId |-> id + 1]
  <2> DEFINE grown == [i \in 1 .. (IF s > t THEN s ELSE t) - Len(b.vertices) |-> NullVertex]
  <2>1. PICK vs, es, vm, em, vi, ei, nv, ne :
          b = [vertices |-> vs, edges |-> es, mVertexMap |-> vm, mEdgeMap |-> em, vid |-> vi, eid |-> ei,
               msNewVertexId |-> nv, msNewEdgeId |-> ne]
    BY DEF Orderly, IsBoost
  <2>2. c = [b EXCEPT !.vertices = b.vertices \o grown, !.edges = Append(b.edges, edge),
                      !.msNewEdgeId = id + 1, !.mEdgeMap = map, !.eid = eid]
    BY <2>1 DEF AddEdgeInternal, EdgeOf
  <2>3. b.vertices \o grown = b.vertices
    <3>1. b.vertices \in Seq(BoostVertices) /\ Len(b.vertices) \in Nat BY <1>1 DEF VerticesInPlace
    <3>2. (IF s > t THEN s ELSE t) - Len(b.vertices) \in Int
          /\ (IF s > t THEN s ELSE t) - Len(b.vertices) <= 0
      BY <1>2, <3>1
    <3> HIDE DEF s, t
    <3>3. 1 .. (IF s > t THEN s ELSE t) - Len(b.vertices) = {} BY <3>2
    <3>4. grown = <<>> BY <3>3
    <3> HIDE DEF grown
    <3> QED BY <3>1, <3>4
  <2> HIDE DEF c, map, eid, edge, grown
  <2> QED BY <2>1, <2>2, <2>3
<1> HIDE DEF c
<1>4. VerticesInPlace(c) BY <1>1, <1>3 DEF VerticesInPlace, GetVertexDescriptor
<1>5. \A f : EdgeOf(c, f) = EdgeOf(b, f) BY <1>3 DEF EdgeOf, GetVertexDescriptor
<1>6. /\ DOMAIN eid = DOMAIN b.eid \cup {e} /\ eid[e] = id
      /\ \A f \in DOMAIN b.eid : eid[f] = b.eid[f]
  BY DEF Over, Entry
<1>7. \A f \in DOMAIN b.eid : b.eid[f] # id /\ b.eid[f] \in Nat /\ id \in Nat BY <1>1 DEF EdgesInPlace
<1>8. /\ DOMAIN map = DOMAIN b.mEdgeMap \cup {id} /\ map[id] = edge
      /\ \A f \in DOMAIN b.eid : map[b.eid[f]] = b.mEdgeMap[b.eid[f]]
  BY <1>1, <1>7 DEF Over, Entry, EdgesInPlace
<1>9. edge \in EdgeRecords BY <1>2 DEF EdgeOf, EdgeRecords
<1> HIDE DEF eid, map, edge, s, t
<1>10. EdgesInPlace(c)
  <2>1. /\ c.edges = Append(b.edges, edge) /\ c.eid = eid /\ c.mEdgeMap = map /\ c.msNewEdgeId = id + 1
        /\ c.vid = b.vid
    BY <1>3
  <2>2. b.edges \in Seq(EdgeRecords) BY <1>1 DEF EdgesInPlace
  <2>3. edge \in EdgeRecords BY <1>9
  <2>4. /\ Append(b.edges, edge) \in Seq(EdgeRecords)
        /\ Len(b.edges) \in Nat /\ DOMAIN b.edges = 1 .. Len(b.edges)
        /\ DOMAIN Append(b.edges, edge) = 1 .. Len(b.edges) + 1
        /\ Append(b.edges, edge)[Len(b.edges) + 1] = edge
        /\ \A i \in 1 .. Len(b.edges) : Append(b.edges, edge)[i] = b.edges[i]
    BY <2>2, <2>3
  <2>5. edge \notin Held(b.edges)
    <3>1. \A f \in DOMAIN b.eid : EdgeOf(b, f) # edge
      <4> TAKE f \in DOMAIN b.eid
      <4>1. EdgeOf(b, f).element = f /\ edge.element = e BY EdgeOfElement DEF edge
      <4> QED BY <4>1
    <3> QED BY <1>1, <3>1 DEF EdgesInPlace
  <2>6. NoneTwice(Append(b.edges, edge)) BY <1>1, <2>2, <2>3, <2>5, OnceAppend DEF EdgesInPlace
  <2>7. Held(Append(b.edges, edge)) = {EdgeOf(c, f) : f \in DOMAIN eid}
    <3>1. \A x : x \in Held(Append(b.edges, edge)) <=> x \in Held(b.edges) \/ x = edge
      BY <2>2, <2>3, HeldAppend
    <3>2. Held(b.edges) = {EdgeOf(c, f) : f \in DOMAIN b.eid} BY <1>1, <1>5 DEF EdgesInPlace
    <3>3. edge = EdgeOf(c, e) BY <1>5 DEF edge
    <3> QED BY <1>6, <3>1, <3>2, <3>3
  <2>8. \A f \in DOMAIN eid : eid[f] \in Nat /\ eid[f] < id + 1 BY <1>1, <1>6, <1>7 DEF EdgesInPlace
  <2>9. \A f, g \in DOMAIN eid : eid[f] = eid[g] => f = g BY <1>1, <1>6, <1>7 DEF EdgesInPlace
  <2>10. DOMAIN map = {eid[f] : f \in DOMAIN eid} BY <1>1, <1>6, <1>8 DEF EdgesInPlace
  <2>11. \A f \in DOMAIN eid : map[eid[f]] = EdgeOf(c, f)
    BY <1>1, <1>5, <1>6, <1>8 DEF EdgesInPlace, edge
  <2>12. id + 1 \in Nat /\ DOMAIN eid \subseteq BoostEdges BY <1>1, <1>6 DEF EdgesInPlace
  <2>13. \A f \in DOMAIN eid : BoostEnds[f][1] \in DOMAIN b.vid /\ BoostEnds[f][2] \in DOMAIN b.vid
    BY <1>1, <1>6 DEF EdgesInPlace
  <2> QED BY <2>1, <2>4, <2>6, <2>7, <2>8, <2>9, <2>10, <2>11, <2>12, <2>13 DEF EdgesInPlace
<1>11. IsBoost(c) BY <1>3 DEF IsBoost
<1> QED BY <1>4, <1>10, <1>11 DEF Orderly, c

\* What the iterators of a vertex give.
LEMMA BoostIteratorsHold ==
  ASSUME NEW b, Orderly(b), NEW v \in DOMAIN b.vid
  PROVE  /\ EdgesFrom(b, v) = {EdgeOf(b, e) : e \in {f \in DOMAIN b.eid : BoostEnds[f][1] = v}}
         /\ EdgesTo(b, v) = {EdgeOf(b, e) : e \in {f \in DOMAIN b.eid : BoostEnds[f][2] = v}}
         /\ Held(OutEdges(b, v)) = EdgesFrom(b, v) /\ NoneTwice(OutEdges(b, v))
         /\ Held(InEdges(b, v)) = EdgesTo(b, v) /\ NoneTwice(InEdges(b, v))
         /\ OutEdges(b, v) \in Seq(EdgeRecords)
         /\ InEdges(b, v) \in Seq(EdgeRecords)
<1>1. VerticesInPlace(b) /\ EdgesInPlace(b) BY DEF Orderly
<1>2. ToSet(b.edges) = {EdgeOf(b, e) : e \in DOMAIN b.eid} BY <1>1 DEF EdgesInPlace, Held, ToSet
<1>3. \A w \in DOMAIN b.vid : GetVertexDescriptor(b, w) = GetVertexDescriptor(b, v) <=> w = v
  BY <1>1 DEF VerticesInPlace
<1>4. \A e \in DOMAIN b.eid : /\ EdgeOf(b, e).source = GetVertexDescriptor(b, v) <=> BoostEnds[e][1] = v
                              /\ EdgeOf(b, e).target = GetVertexDescriptor(b, v) <=> BoostEnds[e][2] = v
  BY <1>1, <1>3 DEF EdgeOf, EdgesInPlace
<1>5. EdgesFrom(b, v) = {EdgeOf(b, e) : e \in {f \in DOMAIN b.eid : BoostEnds[f][1] = v}}
  BY <1>2, <1>4 DEF EdgesFrom
<1>6. EdgesTo(b, v) = {EdgeOf(b, e) : e \in {f \in DOMAIN b.eid : BoostEnds[f][2] = v}}
  BY <1>2, <1>4 DEF EdgesTo
<1>7. EdgesFrom(b, v) \subseteq Held(b.edges) /\ EdgesTo(b, v) \subseteq Held(b.edges)
  BY DEF EdgesFrom, EdgesTo, Held, ToSet
<1>8. b.edges \in Seq(EdgeRecords) /\ NoneTwice(b.edges)
  BY <1>1 DEF EdgesInPlace
<1>9. /\ Held(OutEdges(b, v)) = EdgesFrom(b, v) /\ Held(InEdges(b, v)) = EdgesTo(b, v)
      /\ OutEdges(b, v) \in Seq(EdgeRecords)
      /\ InEdges(b, v) \in Seq(EdgeRecords)
  <2>1. /\ Held(OutEdges(b, v)) = Held(b.edges) \cap EdgesFrom(b, v) /\ OutEdges(b, v) \in Seq(EdgeRecords)
        /\ Held(InEdges(b, v)) = Held(b.edges) \cap EdgesTo(b, v) /\ InEdges(b, v) \in Seq(EdgeRecords)
    BY <1>8, AmongHolds, Zenon DEF OutEdges, InEdges
  <2> QED BY <1>7, <2>1
<1>10. NoneTwice(OutEdges(b, v)) /\ NoneTwice(InEdges(b, v))
  BY <1>8, AmongOnce, Zenon DEF OutEdges, InEdges
<1> QED BY <1>5, <1>6, <1>9, <1>10

\* A vertex without edges at the end of the vector goes and leaves the others
\* where they are.
LEMMA LastVertexLeaves ==
  ASSUME NEW b, Orderly(b), NEW v \in DOMAIN b.vid,
         GetVertexDescriptor(b, v) = Len(b.vertices), InOutEdges(b, v) = <<>>
  PROVE  Orderly(WithoutPlace(ForgetVertex(b, v), GetVertexDescriptor(b, v)))
<1> DEFINE d == GetVertexDescriptor(b, v)
           f == ForgetVertex(b, v)
           c == WithoutPlace(f, d)
           kept == Among(f.edges, {e \in ToSet(f.edges) : d \notin {e.source, e.target}})
           moved(place) == IF place > d THEN place - 1 ELSE place
           edges == [i \in DOMAIN kept |-> [kept[i] EXCEPT !.source = moved(@), !.target = moved(@)]]
           vid == RestrictDomain(b.vid, LAMBDA x : x # v)
           map == RestrictDomain(b.mVertexMap, LAMBDA id : id # b.vid[v])
           vertices == RemoveAt(b.vertices, d)
<1> HIDE DEF f, c, kept, edges, vid, map, vertices
<1>1. VerticesInPlace(b) /\ EdgesInPlace(b) /\ d \in Nat
  <2>1. VerticesInPlace(b) /\ EdgesInPlace(b) BY DEF Orderly
  <2>2. d \in 1 .. Len(b.vertices) BY <2>1 DEF VerticesInPlace
  <2>3. Len(b.vertices) \in Nat BY <2>1 DEF VerticesInPlace
  <2> HIDE DEF d
  <2>4. d \in Nat BY <2>2, <2>3
  <2> QED BY <2>1, <2>4
<1> USE DEF f, c, kept, edges, vid, map, vertices
<1>2. /\ f = [vertices |-> b.vertices, edges |-> b.edges, mVertexMap |-> map, mEdgeMap |-> b.mEdgeMap,
              vid |-> vid, eid |-> b.eid, msNewVertexId |-> b.msNewVertexId, msNewEdgeId |-> b.msNewEdgeId]
      /\ c = [f EXCEPT !.vertices = vertices, !.edges = edges]
  <2>1. PICK vs, es, vm, em, vi, ei, nv, ne :
          b = [vertices |-> vs, edges |-> es, mVertexMap |-> vm, mEdgeMap |-> em, vid |-> vi, eid |-> ei,
               msNewVertexId |-> nv, msNewEdgeId |-> ne]
    BY DEF Orderly, IsBoost
  <2>2. f = [b EXCEPT !.mVertexMap = map, !.vid = vid] BY <2>1 DEF ForgetVertex
  <2>3. c = [f EXCEPT !.vertices = RemoveAt(f.vertices, d), !.edges = edges] BY DEF WithoutPlace
  <2> HIDE DEF map, vid, f, c, edges, kept
  <2>4. f = [vertices |-> b.vertices, edges |-> b.edges, mVertexMap |-> map, mEdgeMap |-> b.mEdgeMap,
              vid |-> vid, eid |-> b.eid, msNewVertexId |-> b.msNewVertexId, msNewEdgeId |-> b.msNewEdgeId]
    BY <2>1, <2>2
  <2> QED BY <2>3, <2>4
<1> HIDE DEF f, c
<1>3. c = [vertices |-> vertices, edges |-> edges, mVertexMap |-> map, mEdgeMap |-> b.mEdgeMap,
           vid |-> vid, eid |-> b.eid, msNewVertexId |-> b.msNewVertexId, msNewEdgeId |-> b.msNewEdgeId]
  <2> HIDE DEF vertices, edges, map, vid
  <2> QED BY <1>2
<1>4. /\ DOMAIN vid = DOMAIN b.vid \ {v} /\ \A w \in DOMAIN vid : vid[w] = b.vid[w]
      /\ DOMAIN map = DOMAIN b.mVertexMap \ {b.vid[v]} /\ \A id \in DOMAIN map : map[id] = b.mVertexMap[id]
  BY DEF RestrictDomain, Restrict
<1>5. \A w \in DOMAIN vid : vid[w] # b.vid[v] /\ vid[w] \in DOMAIN map
  <2> HIDE DEF vid, map
  <2> TAKE w \in DOMAIN vid
  <2>1. w \in DOMAIN b.vid /\ w # v /\ vid[w] = b.vid[w] BY <1>4
  <2>2. b.vid[w] # b.vid[v] /\ b.vid[w] \in DOMAIN b.mVertexMap BY <1>1, <2>1 DEF VerticesInPlace
  <2> QED BY <1>4, <2>1, <2>2
<1>6. \A w \in DOMAIN vid : GetVertexDescriptor(c, w) = GetVertexDescriptor(b, w)
  BY <1>3, <1>4, <1>5 DEF GetVertexDescriptor
\* No edge has an end in v, ...
<1>7. \A e \in DOMAIN b.eid : BoostEnds[e][1] # v /\ BoostEnds[e][2] # v
  <2>1. OutEdges(b, v) \in Seq(EdgeRecords) /\ InEdges(b, v) \in Seq(EdgeRecords) BY BoostIteratorsHold
  <2>2. OutEdges(b, v) = <<>> /\ InEdges(b, v) = <<>> 
    <3>1. InEdges(b, v) \o OutEdges(b, v) = <<>> BY DEF InOutEdges
    <3>2. Len(InEdges(b, v)) + Len(OutEdges(b, v)) = 0 BY <2>1, <3>1
    <3> QED BY <2>1, <3>2
  <2>3. Held(<<>>) = {} BY DEF Held
  <2>4. EdgesFrom(b, v) = {} /\ EdgesTo(b, v) = {} BY <2>2, <2>3, BoostIteratorsHold
  <2>5. /\ {EdgeOf(b, e) : e \in {x \in DOMAIN b.eid : BoostEnds[x][1] = v}} = {}
        /\ {EdgeOf(b, e) : e \in {x \in DOMAIN b.eid : BoostEnds[x][2] = v}} = {}
    BY <2>4, BoostIteratorsHold, Zenon
  <2> QED BY <2>5, Zenon
\* ... so that all edges stay as they are.
<1>8. \A e \in DOMAIN b.eid : /\ BoostEnds[e][1] \in DOMAIN vid /\ BoostEnds[e][2] \in DOMAIN vid
                              /\ EdgeOf(c, e) = EdgeOf(b, e)
  <2> TAKE e \in DOMAIN b.eid
  <2>1. BoostEnds[e][1] \in DOMAIN vid /\ BoostEnds[e][2] \in DOMAIN vid
    BY <1>1, <1>4, <1>7 DEF EdgesInPlace
  <2> QED BY <1>6, <2>1 DEF EdgeOf
<1>9. \A e \in DOMAIN b.eid : /\ EdgeOf(b, e).source \in Nat /\ EdgeOf(b, e).source < d
                              /\ EdgeOf(b, e).target \in Nat /\ EdgeOf(b, e).target < d
  <2> TAKE e \in DOMAIN b.eid
  <2>1. \A w \in DOMAIN vid : GetVertexDescriptor(b, w) \in 1 .. d /\ GetVertexDescriptor(b, w) # d
    BY <1>1, <1>4 DEF VerticesInPlace
  <2>2. EdgeOf(b, e).source \in 1 .. d /\ EdgeOf(b, e).source # d
    BY <1>8, <2>1 DEF EdgeOf
  <2>3. EdgeOf(b, e).target \in 1 .. d /\ EdgeOf(b, e).target # d
    BY <1>8, <2>1 DEF EdgeOf
  <2> QED BY <1>1, <2>2, <2>3
<1>10. f.edges = b.edges /\ b.edges \in Seq(EdgeRecords) /\ NoneTwice(b.edges)
       /\ Held(b.edges) = {EdgeOf(b, e) : e \in DOMAIN b.eid} /\ Held(b.edges) = ToSet(b.edges)
  <2>1. f.edges = b.edges
    <3> HIDE DEF map, vid
    <3> QED BY <1>2
  <2> QED BY <1>1, <2>1 DEF EdgesInPlace, Held, ToSet
<1>11. kept \in Seq(EdgeRecords) /\ NoneTwice(kept) /\ Held(kept) = Held(b.edges)
  <2>1. \A x \in Held(b.edges) : d \notin {x.source, x.target} BY <1>1, <1>9, <1>10
  <2>2. {x \in ToSet(f.edges) : d \notin {x.source, x.target}} = Held(b.edges) BY <1>10, <2>1
  <2>3. kept = Among(b.edges, Held(b.edges)) BY <1>10, <2>2
  <2> HIDE DEF kept
  <2> QED BY <1>10, <2>3, AmongHolds, AmongOnce
<1>12. edges = kept
  <2>1. \A i \in DOMAIN kept : kept[i] \in Held(b.edges) BY <1>11 DEF Held
  <2>2. \A i \in DOMAIN kept : kept[i] \in EdgeRecords BY <1>11
  <2>3. \A i \in DOMAIN kept : ~(kept[i].source > d) /\ ~(kept[i].target > d)
    BY <1>1, <1>9, <1>10, <2>1
  <2>4. \A i \in DOMAIN kept : [kept[i] EXCEPT !.source = moved(@), !.target = moved(@)] = kept[i]
    BY <2>2, <2>3 DEF EdgeRecords
  <2>5. kept = [i \in DOMAIN kept |-> kept[i]]
    <3> HIDE DEF kept
    <3> QED BY <1>11
  <2> HIDE DEF kept, moved
  <2> QED BY <2>4, <2>5
<1>13. /\ vertices \in Seq(BoostVertices) /\ Len(vertices) = d - 1
       /\ \A i \in 1 .. d - 1 : vertices[i] = b.vertices[i]
  <2>1. b.vertices \in Seq(BoostVertices) /\ Len(b.vertices) = d /\ d \in 1 .. Len(b.vertices)
    BY <1>1 DEF VerticesInPlace
  <2>2. vertices = SubSeq(b.vertices, 1, d - 1) \o SubSeq(b.vertices, d + 1, d)
    BY <2>1 DEF RemoveAt
  <2> HIDE DEF d, vertices
  <2>3. SubSeq(b.vertices, 1, d - 1) \in Seq(BoostVertices) /\ Len(SubSeq(b.vertices, 1, d - 1)) = d - 1
        /\ \A i \in 1 .. d - 1 : SubSeq(b.vertices, 1, d - 1)[i] = b.vertices[i]
    BY <2>1
  <2>4. SubSeq(b.vertices, d + 1, d) = <<>> BY <2>1
  <2>5. vertices = SubSeq(b.vertices, 1, d - 1)
    <3> DEFINE front == SubSeq(b.vertices, 1, d - 1)
    <3>1. front \in Seq(BoostVertices) /\ vertices = front \o <<>> BY <2>2, <2>3, <2>4
    <3> HIDE DEF front
    <3>2. front \o <<>> = front BY <3>1
    <3> QED BY <3>1, <3>2 DEF front
  <2> QED BY <2>3, <2>5
<1> HIDE DEF vid, map, edges, vertices, kept
<1>14. VerticesInPlace(c)
  <2>1. c.vertices = vertices /\ c.vid = vid /\ c.mVertexMap = map /\ c.msNewVertexId = b.msNewVertexId
    BY <1>3
  <2>2. Len(b.vertices) = d /\ d \in Nat BY <1>1
  <2>3. \A w \in DOMAIN vid : vid[w] \in Nat /\ vid[w] < b.msNewVertexId
    BY <1>1, <1>4 DEF VerticesInPlace
  <2>4. \A w, x \in DOMAIN vid : vid[w] = vid[x] => w = x BY <1>1, <1>4 DEF VerticesInPlace
  <2>5. DOMAIN map = {vid[w] : w \in DOMAIN vid}
    <3>1. \A id \in DOMAIN map : \E w \in DOMAIN b.vid : id = b.vid[w] /\ w # v
      BY <1>1, <1>4 DEF VerticesInPlace
    <3>2. \A id \in DOMAIN map : \E w \in DOMAIN vid : id = vid[w]
      <4> TAKE id \in DOMAIN map
      <4>1. PICK w \in DOMAIN b.vid : id = b.vid[w] /\ w # v BY <3>1
      <4>2. w \in DOMAIN vid /\ id = vid[w] BY <1>4, <4>1
      <4> QED BY <4>2
    <3> QED BY <1>5, <3>2
  <2>6. \A w \in DOMAIN vid : GetVertexDescriptor(b, w) \in 1 .. d - 1 /\ b.vertices[GetVertexDescriptor(b, w)] = w
    <3> TAKE w \in DOMAIN vid
    <3>1. w \in DOMAIN b.vid /\ w # v BY <1>4
    <3>2. /\ GetVertexDescriptor(b, w) \in 1 .. d /\ b.vertices[GetVertexDescriptor(b, w)] = w
          /\ b.vertices[d] = v
      BY <1>1, <2>2, <3>1 DEF VerticesInPlace
    <3> HIDE DEF d
    <3> QED BY <2>2, <3>1, <3>2
  <2>7. \A w \in DOMAIN vid : /\ GetVertexDescriptor(c, w) \in 1 .. d - 1
                              /\ vertices[GetVertexDescriptor(c, w)] = w
    BY <1>6, <1>13, <2>6
  <2>8. \A i \in 1 .. d - 1 : /\ vertices[i] \in DOMAIN vid /\ GetVertexDescriptor(c, vertices[i]) = i
    <3> TAKE i \in 1 .. d - 1
    <3>1. i \in 1 .. Len(b.vertices) /\ i # d BY <2>2
    <3>2. b.vertices[i] \in DOMAIN b.vid /\ GetVertexDescriptor(b, b.vertices[i]) = i
      BY <1>1, <3>1 DEF VerticesInPlace
    <3>3. b.vertices[i] # v BY <3>1, <3>2
    <3> QED BY <1>4, <1>6, <1>13, <3>2, <3>3
  <2>9. b.msNewVertexId \in Nat /\ DOMAIN vid \subseteq BoostVertices BY <1>1, <1>4 DEF VerticesInPlace
  <2>10. Len(c.vertices) = d - 1 BY <1>13, <2>1
  <2>11. \A w \in DOMAIN c.vid : /\ GetVertexDescriptor(c, w) \in 1 .. Len(c.vertices)
                                 /\ c.vertices[GetVertexDescriptor(c, w)] = w
    BY <2>1, <2>7, <2>10
  <2>12. \A i \in 1 .. Len(c.vertices) : /\ c.vertices[i] \in DOMAIN c.vid
                                         /\ GetVertexDescriptor(c, c.vertices[i]) = i
    BY <2>1, <2>8, <2>10
  <2> QED BY <1>13, <2>1, <2>3, <2>4, <2>5, <2>9, <2>11, <2>12 DEF VerticesInPlace
<1>15. EdgesInPlace(c)
  <2>1. c.edges = kept /\ c.eid = b.eid /\ c.mEdgeMap = b.mEdgeMap /\ c.msNewEdgeId = b.msNewEdgeId
        /\ c.vid = vid
    BY <1>3, <1>12
  <2>2. {EdgeOf(c, e) : e \in DOMAIN b.eid} = {EdgeOf(b, e) : e \in DOMAIN b.eid} BY <1>8
  <2> QED BY <1>1, <1>8, <1>10, <1>11, <2>1, <2>2 DEF EdgesInPlace
<1>16. IsBoost(c) BY <1>3 DEF IsBoost
<1>17. Orderly(c) BY <1>14, <1>15, <1>16 DEF Orderly
<1> QED BY <1>17 DEF c, f

\* An edge goes with its id.
LEMMA EdgeLeaves ==
  ASSUME NEW b, Orderly(b), NEW e \in DOMAIN b.eid
  PROVE  /\ EdgesFound(b, e) # {}
         /\ Orderly([ForgetEdge(b, e) EXCEPT !.edges = Among(@, ToSet(@) \ EdgesFound(b, e))])
<1> DEFINE eid == RestrictDomain(b.eid, LAMBDA x : x # e)
           map == RestrictDomain(b.mEdgeMap, LAMBDA id : id # b.eid[e])
           f == ForgetEdge(b, e)
           edges == Among(b.edges, ToSet(b.edges) \ EdgesFound(b, e))
           c == [f EXCEPT !.edges = Among(@, ToSet(@) \ EdgesFound(b, e))]
<1>1. VerticesInPlace(b) /\ EdgesInPlace(b) BY DEF Orderly
<1>2. c = [vertices |-> b.vertices, edges |-> edges, mVertexMap |-> b.mVertexMap, mEdgeMap |-> map,
           vid |-> b.vid, eid |-> eid, msNewVertexId |-> b.msNewVertexId, msNewEdgeId |-> b.msNewEdgeId]
  <2>1. PICK vs, es, vm, em, vi, ei, nv, ne :
          b = [vertices |-> vs, edges |-> es, mVertexMap |-> vm, mEdgeMap |-> em, vid |-> vi, eid |-> ei,
               msNewVertexId |-> nv, msNewEdgeId |-> ne]
    BY DEF Orderly, IsBoost
  <2>2. f = [b EXCEPT !.mEdgeMap = map, !.eid = eid] BY <2>1 DEF ForgetEdge
  <2> HIDE DEF map, eid, f
  <2>3. f = [vertices |-> b.vertices, edges |-> b.edges, mVertexMap |-> b.mVertexMap, mEdgeMap |-> map,
             vid |-> b.vid, eid |-> eid, msNewVertexId |-> b.msNewVertexId, msNewEdgeId |-> b.msNewEdgeId]
    BY <2>1, <2>2
  <2>4. f.edges = b.edges BY <2>3
  <2>5. c = [f EXCEPT !.edges = edges] BY <2>4
  <2> HIDE DEF edges, c
  <2> QED BY <2>3, <2>5
<1>3. EdgesFound(b, e) = {EdgeOf(b, e)}
  <2>1. b.mEdgeMap[b.eid[e]] = EdgeOf(b, e) BY <1>1 DEF EdgesInPlace
  <2>2. EdgesFound(b, e) = {x \in ToSet(b.edges) : x.element = e /\ x.source = EdgeOf(b, e).source}
    BY <2>1 DEF EdgesFound
  <2>3. ToSet(b.edges) = {EdgeOf(b, x) : x \in DOMAIN b.eid} BY <1>1 DEF EdgesInPlace, Held, ToSet
  <2> QED BY <2>2, <2>3, EdgeOfElement
<1> HIDE DEF c
<1>4. /\ DOMAIN eid = DOMAIN b.eid \ {e} /\ \A x \in DOMAIN eid : eid[x] = b.eid[x]
      /\ DOMAIN map = DOMAIN b.mEdgeMap \ {b.eid[e]} /\ \A id \in DOMAIN map : map[id] = b.mEdgeMap[id]
  BY DEF RestrictDomain, Restrict
<1>5. \A x \in DOMAIN eid : eid[x] # b.eid[e] /\ eid[x] \in DOMAIN map
  <2> HIDE DEF eid, map
  <2> TAKE x \in DOMAIN eid
  <2>1. x \in DOMAIN b.eid /\ x # e /\ eid[x] = b.eid[x] BY <1>4
  <2>2. b.eid[x] # b.eid[e] /\ b.eid[x] \in DOMAIN b.mEdgeMap BY <1>1, <2>1 DEF EdgesInPlace
  <2> QED BY <1>4, <2>1, <2>2
<1>6. \A x : EdgeOf(c, x) = EdgeOf(b, x)
  <2> HIDE DEF eid, map, edges
  <2> QED BY <1>2 DEF EdgeOf, GetVertexDescriptor
<1>7. b.edges \in Seq(EdgeRecords) /\ NoneTwice(b.edges) /\ Held(b.edges) = {EdgeOf(b, x) : x \in DOMAIN b.eid}
      /\ Held(b.edges) = ToSet(b.edges)
  BY <1>1 DEF EdgesInPlace, Held, ToSet
<1>8. edges \in Seq(EdgeRecords) /\ NoneTwice(edges) /\ Held(edges) = {EdgeOf(b, x) : x \in DOMAIN eid}
  <2>1. edges \in Seq(EdgeRecords) /\ NoneTwice(edges)
        /\ Held(edges) = Held(b.edges) \cap (ToSet(b.edges) \ EdgesFound(b, e))
    <3> QED BY <1>7, AmongHolds, AmongOnce
  <2>2. Held(edges) = {EdgeOf(b, x) : x \in DOMAIN b.eid} \ {EdgeOf(b, e)} BY <1>3, <1>7, <2>1
  <2>3. \A x \in DOMAIN eid : EdgeOf(b, x) # EdgeOf(b, e)
    <3> TAKE x \in DOMAIN eid
    <3>1. EdgeOf(b, x).element # EdgeOf(b, e).element BY <1>4, EdgeOfElement
    <3> QED BY <3>1
  <2> HIDE DEF eid, edges
  <2> QED BY <1>4, <2>1, <2>2, <2>3
<1> HIDE DEF eid, map, edges
<1>9. VerticesInPlace(c) BY <1>1, <1>2 DEF VerticesInPlace, GetVertexDescriptor
<1>10. EdgesInPlace(c)
  <2>1. c.edges = edges /\ c.eid = eid /\ c.mEdgeMap = map /\ c.msNewEdgeId = b.msNewEdgeId /\ c.vid = b.vid
    BY <1>2
  <2>2. Held(edges) = {EdgeOf(c, x) : x \in DOMAIN eid} BY <1>6, <1>8
  <2>3. DOMAIN map = {eid[x] : x \in DOMAIN eid} BY <1>1, <1>4, <1>5 DEF EdgesInPlace
  <2>4. \A x \in DOMAIN eid : map[eid[x]] = EdgeOf(c, x) BY <1>1, <1>4, <1>5, <1>6 DEF EdgesInPlace
  <2>5. /\ DOMAIN eid \subseteq BoostEdges /\ b.msNewEdgeId \in Nat
        /\ \A x \in DOMAIN eid : BoostEnds[x][1] \in DOMAIN b.vid /\ BoostEnds[x][2] \in DOMAIN b.vid
        /\ \A x \in DOMAIN eid : eid[x] \in Nat /\ eid[x] < b.msNewEdgeId
        /\ \A x, z \in DOMAIN eid : eid[x] = eid[z] => x = z
    BY <1>1, <1>4 DEF EdgesInPlace
  <2> QED BY <1>8, <2>1, <2>2, <2>3, <2>4, <2>5 DEF EdgesInPlace
<1>11. IsBoost(c) BY <1>2 DEF IsBoost
<1>12. Orderly(c) BY <1>9, <1>10, <1>11 DEF Orderly
<1> QED BY <1>3, <1>12 DEF c, f

\* Before the first call nothing is there.
LEMMA EmptyBoostIsOrderly == Orderly(EmptyBoost)
<1> DEFINE b == EmptyBoost
<1>1. b = [vertices |-> <<>>, edges |-> <<>>, mVertexMap |-> <<>>, mEdgeMap |-> <<>>,
           vid |-> <<>>, eid |-> <<>>, msNewVertexId |-> 0, msNewEdgeId |-> 0]
  BY DEF EmptyBoost
<1> HIDE DEF b
<1>2. DOMAIN b.vid = {} /\ DOMAIN b.eid = {} /\ DOMAIN b.mVertexMap = {} /\ DOMAIN b.mEdgeMap = {}
      /\ b.vertices = <<>> /\ b.edges = <<>> /\ b.msNewVertexId \in Nat /\ b.msNewEdgeId \in Nat
  BY <1>1
<1>3. VerticesInPlace(b) BY <1>2 DEF VerticesInPlace
<1>4. EdgesInPlace(b) BY <1>2 DEF EdgesInPlace, NoneTwice, Held
<1> QED BY <1>1, <1>3, <1>4 DEF Orderly, IsBoost, b

\* Nothing is disturbed at first.
LEMMA BoostStarts == BoostInit => BoostInv
BY EmptyBoostIsOrderly DEF BoostInit, BoostInv

\* Every call keeps an orderly graph orderly.
LEMMA BoostKeeps ==
  ASSUME BoostInv, [BoostNext]_boostVars
  PROVE  BoostInv'
<1> SUFFICES ASSUME ~disturbed' PROVE Orderly(boost') /\ ~undefined' BY DEF BoostInv
<1>1. CASE UNCHANGED boostVars BY <1>1 DEF boostVars, BoostInv
<1>2. ASSUME NEW v \in BoostVertices, AddBoostVertex(v) PROVE Orderly(boost') /\ ~undefined'
  <2>1. Orderly(boost) /\ ~undefined BY <1>2 DEF AddBoostVertex, BoostInv
  <2> QED BY <1>2, <2>1, VertexJoins DEF AddBoostVertex
<1>3. ASSUME NEW v \in BoostVertices, RemoveBoostVertex(v) PROVE Orderly(boost') /\ ~undefined'
  <2> DEFINE d == GetVertexDescriptor(boost, v)
  <2>1. Orderly(boost) /\ v \in DOMAIN boost.vid /\ d = Len(boost.vertices)
        /\ InOutEdges(boost, v) = <<>>
    BY <1>3 DEF RemoveBoostVertex, BoostInv
  <2>2. d \in Nat
    <3>1. VerticesInPlace(boost) BY <2>1 DEF Orderly
    <3>2. Len(boost.vertices) \in Nat BY <3>1 DEF VerticesInPlace
    <3> QED BY <2>1, <3>2
  <2>3. ~undefined'
    <3>1. undefined' = (d > Len(boost.vertices)) BY <1>3 DEF RemoveBoostVertex
    <3> HIDE DEF d
    <3>2. ~(d > Len(boost.vertices)) BY <2>1, <2>2
    <3> QED BY <3>1, <3>2
  <2>4. boost' = WithoutPlace(ForgetVertex(boost, v), d) BY <1>3, <2>3 DEF RemoveBoostVertex
  <2> QED BY <2>1, <2>3, <2>4, LastVertexLeaves
<1>4. ASSUME NEW e \in BoostEdges, AddBoostEdge(e) PROVE Orderly(boost') /\ ~undefined'
  <2> DEFINE first == Joined(boost, BoostEnds[e][1])
             joined == Joined(first, BoostEnds[e][2])
  <2>1. Orderly(boost) /\ ~undefined /\ e \notin DOMAIN boost.eid
        /\ boost' = AddEdgeInternal(joined, e) /\ undefined' = undefined
    BY <1>4 DEF AddBoostEdge, BoostInv
  <2>2. Orderly(first) /\ DOMAIN first.vid = DOMAIN boost.vid \cup {BoostEnds[e][1]}
        /\ first.eid = boost.eid
    BY <2>1, BoostEndsAre, EndJoins
  <2> HIDE DEF first
  <2>3. Orderly(joined) /\ DOMAIN joined.vid = DOMAIN first.vid \cup {BoostEnds[e][2]}
        /\ joined.eid = first.eid
    BY <2>2, BoostEndsAre, EndJoins
  <2> HIDE DEF joined
  <2> QED BY <2>1, <2>2, <2>3, EdgeJoins
<1>5. ASSUME NEW e \in BoostEdges, RemoveBoostEdge(e) PROVE Orderly(boost') /\ ~undefined'
  <2>1. Orderly(boost) /\ e \in DOMAIN boost.eid BY <1>5 DEF RemoveBoostEdge, BoostInv
  <2>2. EdgesFound(boost, e) # {} BY <2>1, EdgeLeaves
  <2>3. ~undefined' BY <1>5, <2>2 DEF RemoveBoostEdge
  <2>4. boost' = [ForgetEdge(boost, e) EXCEPT !.edges = Among(@, ToSet(@) \ EdgesFound(boost, e))]
    BY <1>5, <2>3 DEF RemoveBoostEdge
  <2> QED BY <2>1, <2>3, <2>4, EdgeLeaves
<1> QED BY <1>1, <1>2, <1>3, <1>4, <1>5 DEF BoostNext

\* What ElementsOf and the lengths say of a list of edges.
LEMMA ElementsAre ==
  ASSUME NEW edges
  PROVE  ToSet(Elements(edges)) = {x.element : x \in Held(edges)}
BY DEF Elements, ToSet, Held

\* A list that holds the edges of some elements once has as many entries as
\* there are elements.
LEMMA EdgesCounted ==
  ASSUME NEW b, NEW edges \in Seq(EdgeRecords), NoneTwice(edges), NEW S,
         Held(edges) = {EdgeOf(b, e) : e \in S}
  PROVE  /\ Cardinality(S) = Len(edges) /\ ToSet(Elements(edges)) = S
         /\ IsInjective(Elements(edges))
<1> DEFINE name == [x \in Held(edges) |-> x.element]
<1>1. \A x \in Held(edges) : x.element \in S /\ x = EdgeOf(b, x.element) BY EdgeOfElement
<1>2. \A e \in S : EdgeOf(b, e) \in Held(edges) /\ EdgeOf(b, e).element = e BY EdgeOfElement
<1>3. name \in [Held(edges) -> S] BY <1>1
<1>4. \A x, z \in Held(edges) : name[x] = name[z] => x = z BY <1>1
<1>5. \A e \in S : \E x \in Held(edges) : name[x] = e BY <1>2
<1>6. Cardinality(S) = Len(edges)
  <2> HIDE DEF name
  <2> QED BY <1>3, <1>4, <1>5, CountOnce
<1>7. ToSet(Elements(edges)) = S
  <2>1. {x.element : x \in Held(edges)} = S
    <3>1. \A z : (\E x \in Held(edges) : z = x.element) <=> z \in S BY <1>1, <1>2
    <3> QED BY <3>1
  <2> QED BY <2>1, ElementsAre
<1>8. IsInjective(Elements(edges))
  <2>1. \A i \in DOMAIN edges : edges[i] \in Held(edges) BY DEF Held
  <2>2. DOMAIN Elements(edges) = DOMAIN edges /\ \A i \in DOMAIN edges : Elements(edges)[i] = edges[i].element
    BY DEF Elements
  <2> SUFFICES ASSUME NEW i \in DOMAIN edges, NEW j \in DOMAIN edges, edges[i].element = edges[j].element
               PROVE  i = j
    BY <2>2 DEF IsInjective
  <2>3. edges[i] = edges[j] BY <1>1, <2>1, Zenon
  <2> QED BY <2>3 DEF NoneTwice
<1> QED BY <1>6, <1>7, <1>8

\* In an orderly graph every look-up finds what it looks for.
LEMMA OrderlyIsFound == BoostInv => LookupsFindTheElement
<1> DEFINE b == boost
           ends(v, i) == {e \in DOMAIN boost.eid : BoostEnds[e][i] = v}
<1> SUFFICES ASSUME BoostInv, ~disturbed PROVE LookupsFindTheElement BY DEF LookupsFindTheElement
<1>1. Orderly(boost) /\ VerticesInPlace(boost) /\ EdgesInPlace(boost) /\ ~undefined BY DEF BoostInv, Orderly
<1>2. ToSet(boost.vertices) = DOMAIN boost.vid /\ IsInjective(boost.vertices)
  <2>1. DOMAIN boost.vertices = 1 .. Len(boost.vertices) BY <1>1 DEF VerticesInPlace
  <2>2. ToSet(boost.vertices) = DOMAIN boost.vid
    <3>1. \A v \in DOMAIN boost.vid : \E i \in DOMAIN boost.vertices : boost.vertices[i] = v
      BY <1>1, <2>1 DEF VerticesInPlace
    <3>2. \A i \in DOMAIN boost.vertices : boost.vertices[i] \in DOMAIN boost.vid
      BY <1>1, <2>1 DEF VerticesInPlace
    <3> QED BY <3>1, <3>2 DEF ToSet
  <2>3. \A i, j \in DOMAIN boost.vertices : boost.vertices[i] = boost.vertices[j] => i = j
    BY <1>1, <2>1 DEF VerticesInPlace
  <2> QED BY <2>2, <2>3 DEF IsInjective
<1>3. ToSet(Elements(boost.edges)) = DOMAIN boost.eid /\ IsInjective(Elements(boost.edges))
  <2>1. /\ boost.edges \in Seq(EdgeRecords) /\ NoneTwice(boost.edges)
        /\ Held(boost.edges) = {EdgeOf(boost, e) : e \in DOMAIN boost.eid}
    BY <1>1 DEF EdgesInPlace
  <2> QED BY <2>1, EdgesCounted
<1>4. \A e \in DOMAIN boost.eid : boost.mEdgeMap[boost.eid[e]] \in ToSet(boost.edges)
  <2>1. ToSet(boost.edges) = {EdgeOf(boost, e) : e \in DOMAIN boost.eid}
    BY <1>1 DEF EdgesInPlace, ToSet, Held
  <2> QED BY <1>1, <2>1 DEF EdgesInPlace
<1>5. ASSUME NEW v \in DOMAIN boost.vid
      PROVE  /\ ToSet(Elements(OutEdges(boost, v))) = ends(v, 1)
             /\ ToSet(Elements(InEdges(boost, v))) = ends(v, 2)
             /\ Len(InOutEdges(boost, v)) = Cardinality(ends(v, 1)) + Cardinality(ends(v, 2))
  <2> DEFINE from == ends(v, 1)
             to == ends(v, 2)
  <2>1. /\ OutEdges(boost, v) \in Seq(EdgeRecords) /\ NoneTwice(OutEdges(boost, v))
        /\ Held(OutEdges(boost, v)) = {EdgeOf(boost, e) : e \in from}
        /\ InEdges(boost, v) \in Seq(EdgeRecords) /\ NoneTwice(InEdges(boost, v))
        /\ Held(InEdges(boost, v)) = {EdgeOf(boost, e) : e \in to}
    BY <1>1, <1>5, BoostIteratorsHold
  <2> HIDE DEF from, to
  <2>2. Cardinality(from) = Len(OutEdges(boost, v)) /\ ToSet(Elements(OutEdges(boost, v))) = from
    BY <2>1, EdgesCounted
  <2>3. Cardinality(to) = Len(InEdges(boost, v)) /\ ToSet(Elements(InEdges(boost, v))) = to
    BY <2>1, EdgesCounted
  <2>4. Len(InOutEdges(boost, v)) = Len(InEdges(boost, v)) + Len(OutEdges(boost, v))
        /\ Len(InEdges(boost, v)) \in Nat /\ Len(OutEdges(boost, v)) \in Nat
    BY <2>1 DEF InOutEdges
  <2> QED BY <2>2, <2>3, <2>4 DEF from, to
<1>6. ASSUME NEW v \in DOMAIN boost.vid, NEW w \in DOMAIN boost.vid
      PROVE  ToSet(Elements(EdgesBetween(boost, v, w))) = ends(v, 1) \cap ends(w, 2)
  <2> DEFINE from == ends(v, 1)
             to == ends(w, 2)
  <2>1. /\ EdgesFrom(boost, v) = {EdgeOf(boost, e) : e \in from}
        /\ InEdges(boost, w) \in Seq(EdgeRecords)
        /\ Held(InEdges(boost, w)) = {EdgeOf(boost, e) : e \in to}
    BY <1>1, <1>6, BoostIteratorsHold
  <2> HIDE DEF from, to
  <2>2. Held(EdgesBetween(boost, v, w)) = Held(InEdges(boost, w)) \cap EdgesFrom(boost, v)
    BY <2>1, AmongHolds DEF EdgesBetween
  <2>3. \A z : (\E x \in Held(EdgesBetween(boost, v, w)) : z = x.element) <=> z \in from \cap to
    <3>1. \A e, f : EdgeOf(boost, e) = EdgeOf(boost, f) => e = f BY EdgeOfElement
    <3> QED BY <2>1, <2>2, <3>1, EdgeOfElement
  <2>4. {x.element : x \in Held(EdgesBetween(boost, v, w))} = from \cap to BY <2>3
  <2> QED BY <2>4, ElementsAre DEF from, to
<1> QED BY <1>1, <1>2, <1>3, <1>4, <1>5, <1>6 DEF LookupsFindTheElement, VerticesInPlace, EdgesInPlace

\* LookupsFindTheElement holds in every state of the boost back-end: as long
\* as only vertices at the end are removed, and after their edges.
THEOREM LookupsFind == BoostSpec => []LookupsFindTheElement
<1>1. BoostInit => BoostInv BY BoostStarts
<1>2. BoostInv /\ [BoostNext]_boostVars => BoostInv' BY BoostKeeps
<1>3. BoostInv => LookupsFindTheElement BY OrderlyIsFound
<1> QED BY <1>1, <1>2, <1>3, PTL DEF BoostSpec

(* RandomDraw, for any ids, densities and number of random numbers.            *)

\* Densities are numbers, and without an update there are none.
DrawInv ==
  /\ DOMAIN mProbabilityDensity \subseteq DrawIds
  /\ \A id \in DOMAIN mProbabilityDensity : mProbabilityDensity[id] \in Nat
  /\ ~mUpdated => DOMAIN mProbabilityDensity = {}
  /\ DrawsAnItem

DensitiesAre == \A n \in Nat : Density(n) \in Nat

\* Sums of densities.
SumsUpTo(k, n) == k = [m \in 0 .. n |-> IF m = 0 THEN Density(0) ELSE k[m - 1] + Density(m)]

\* There are the sums of the densities up to any item.
LEMMA SumsExist ==
  ASSUME NEW n \in Nat
  PROVE  \E k : SumsUpTo(k, n)
<1> DEFINE T == {m \in Nat : \E k : SumsUpTo(k, m)}
<1>1. 0 \in T
  <2>1. SumsUpTo([i \in 0 .. 0 |-> Density(0)], 0) BY DEF SumsUpTo
  <2> QED BY <2>1
<1>2. ASSUME NEW m \in T PROVE m + 1 \in T
  <2>1. PICK k : SumsUpTo(k, m) BY <1>2
  <2> DEFINE h == [i \in 0 .. m + 1 |-> IF i = m + 1 THEN k[m] + Density(m + 1) ELSE k[i]]
  <2>2. m \in Nat BY <1>2
  <2>3. ASSUME NEW i \in 0 .. m + 1 PROVE h[i] = IF i = 0 THEN Density(0) ELSE h[i - 1] + Density(i)
    <3>1. CASE i = m + 1 BY <2>2, <3>1
    <3>2. CASE i # m + 1
      <4>1. i \in 0 .. m /\ h[i] = k[i] BY <2>2, <3>2
      <4>2. i # 0 => i - 1 \in 0 .. m + 1 /\ i - 1 # m + 1 BY <2>2, <4>1
      <4>3. i # 0 => h[i - 1] = k[i - 1] BY <4>2
      <4>4. k[i] = IF i = 0 THEN Density(0) ELSE k[i - 1] + Density(i) BY <2>1, <4>1 DEF SumsUpTo
      <4> QED BY <4>1, <4>3, <4>4
    <3> QED BY <3>1, <3>2
  <2>4. SumsUpTo(h, m + 1) BY <2>3 DEF SumsUpTo
  <2> QED BY <2>2, <2>4
<1>3. T = Nat BY <1>1, <1>2, Induction
<1> QED BY <1>3

\* They are the same however far they are taken.
LEMMA SumsAgree ==
  ASSUME NEW n \in Nat, NEW k, NEW h, SumsUpTo(k, n), SumsUpTo(h, n + 1)
  PROVE  k[n] = h[n]
<1> DEFINE T == {m \in Nat : m <= n => k[m] = h[m]}
<1>1. 0 \in T BY DEF SumsUpTo
<1>2. ASSUME NEW m \in T PROVE m + 1 \in T
  <2> SUFFICES ASSUME m + 1 <= n PROVE k[m + 1] = h[m + 1] BY <1>2
  <2>1. m + 1 \in 0 .. n /\ m + 1 \in 0 .. n + 1 /\ m + 1 # 0 /\ (m + 1) - 1 = m /\ m <= n BY <1>2
  <2>2. k[m + 1] = k[m] + Density(m + 1) /\ h[m + 1] = h[m] + Density(m + 1) BY <2>1 DEF SumsUpTo
  <2> QED BY <1>2, <2>1, <2>2
<1>3. T = Nat BY <1>1, <1>2, Induction
<1> QED BY <1>3

\* Each adds the density of its item to the sum before it (sumDensities).
LEMMA SumsAdd ==
  ASSUME DensitiesAre
  PROVE  /\ DensityUpTo(0) = Density(0)
         /\ \A n \in Nat : /\ DensityUpTo(n) \in Nat
                          /\ DensityUpTo(n + 1) = DensityUpTo(n) + Density(n + 1)
<1> DEFINE sums(n) == CHOOSE k : SumsUpTo(k, n)
<1>1. \A n \in Nat : SumsUpTo(sums(n), n) BY SumsExist
<1>2. \A n : DensityUpTo(n) = sums(n)[n] BY DEF DensityUpTo, SumsUpTo
<1> HIDE DEF sums
<1>3. DensityUpTo(0) = Density(0)
  <2>1. 0 \in 0 .. 0 OBVIOUS
  <2> QED BY <1>1, <1>2, <2>1 DEF SumsUpTo
<1>4. ASSUME NEW n \in Nat PROVE DensityUpTo(n + 1) = DensityUpTo(n) + Density(n + 1)
  <2>1. n + 1 \in 0 .. n + 1 /\ n + 1 # 0 /\ (n + 1) - 1 = n /\ n + 1 \in Nat OBVIOUS
  <2>2. sums(n + 1)[n + 1] = sums(n + 1)[n] + Density(n + 1) BY <1>1, <2>1 DEF SumsUpTo
  <2>3. sums(n)[n] = sums(n + 1)[n] BY <1>1, <2>1, SumsAgree
  <2> QED BY <1>2, <2>2, <2>3
<1> DEFINE T == {n \in Nat : DensityUpTo(n) \in Nat}
<1>5. 0 \in T BY <1>3 DEF DensitiesAre
<1>6. ASSUME NEW n \in T PROVE n + 1 \in T BY <1>4, <1>6 DEF DensitiesAre
<1>7. T = Nat BY <1>5, <1>6, Induction
<1> QED BY <1>3, <1>4, <1>7

\* They grow, and from nothing to something at an item with a density.
LEMMA SumsGrow ==
  ASSUME DensitiesAre, NEW n \in Nat, NEW m \in Nat, m <= n
  PROVE  DensityUpTo(m) <= DensityUpTo(n) /\ Density(m) <= DensityUpTo(n)
<1> DEFINE T == {i \in Nat : m <= i => DensityUpTo(m) <= DensityUpTo(i)}
<1>1. 0 \in T BY SumsAdd
<1>2. ASSUME NEW i \in T PROVE i + 1 \in T
  <2>1. /\ DensityUpTo(m) \in Nat /\ DensityUpTo(i) \in Nat /\ DensityUpTo(i + 1) \in Nat
        /\ DensityUpTo(i + 1) = DensityUpTo(i) + Density(i + 1) /\ Density(i + 1) \in Nat
    BY <1>2, SumsAdd DEF DensitiesAre
  <2>2. CASE m = i + 1 BY <1>2, <2>1, <2>2
  <2>3. CASE m # i + 1 BY <1>2, <2>1, <2>3
  <2> QED BY <2>2, <2>3
<1>3. T = Nat BY <1>1, <1>2, Induction
<1>4. DensityUpTo(m) <= DensityUpTo(n) BY <1>3
<1>5. DensityUpTo(m) \in Nat /\ DensityUpTo(n) \in Nat /\ Density(m) \in Nat BY SumsAdd DEF DensitiesAre
<1>6. Density(m) <= DensityUpTo(m)
  <2>1. CASE m = 0 BY <1>5, <2>1, SumsAdd
  <2>2. CASE m # 0
    <3>1. m - 1 \in Nat /\ (m - 1) + 1 = m BY <2>2
    <3>2. DensityUpTo(m) = DensityUpTo(m - 1) + Density(m) /\ DensityUpTo(m - 1) \in Nat BY <3>1, SumsAdd
    <3> QED BY <1>5, <3>2
  <2> QED BY <2>1, <2>2
<1> QED BY <1>4, <1>5, <1>6

\* A sum above zero is reached at an item that has a density.
LEMMA SumReachedAtItem ==
  ASSUME DensitiesAre, NEW n \in Nat, DensityUpTo(n) > 0
  PROVE  \E m \in Nat : /\ m <= n /\ DensityUpTo(m) = DensityUpTo(n)
                       /\ m \in DOMAIN mProbabilityDensity /\ mProbabilityDensity[m] > 0
<1> DEFINE T == {m \in Nat : DensityUpTo(m) = DensityUpTo(n)}
<1>1. PICK m \in T : \A i \in T : m <= i BY LeastNatural
<1>2. m \in Nat /\ m <= n /\ DensityUpTo(m) = DensityUpTo(n) BY <1>1
<1>3. Density(m) > 0
  <2>1. CASE m = 0 BY <1>2, <2>1, SumsAdd
  <2>2. CASE m # 0
    <3>1. m - 1 \in Nat /\ (m - 1) + 1 = m /\ ~(m <= m - 1) BY <1>2, <2>2
    <3>2. DensityUpTo(m) = DensityUpTo(m - 1) + Density(m) /\ DensityUpTo(m - 1) \in Nat BY <3>1, SumsAdd
    <3>3. DensityUpTo(m - 1) # DensityUpTo(m) BY <1>1, <1>2, <3>1
    <3>4. Density(m) \in Nat BY <1>2 DEF DensitiesAre
    <3> QED BY <3>2, <3>3, <3>4
  <2> QED BY <2>1, <2>2
<1> QED BY <1>2, <1>3 DEF Density

\* A finite set of numbers has a greatest.
LEMMA GreatestIs ==
  ASSUME NEW S, S \subseteq Nat, IsFiniteSet(S), S # {}
  PROVE  Max(S) \in S /\ \A x \in S : x <= Max(S)
<1> DEFINE T == {s \in SUBSET S : s # {} => \E x \in s : \A z \in s : z <= x}
<1>1. {} \in T OBVIOUS
<1>2. ASSUME NEW s \in SUBSET S, NEW x \in S, s \in T, x \notin s PROVE s \cup {x} \in T
  <2>1. CASE s = {} BY <2>1
  <2>2. CASE s # {}
    <3>1. PICK top \in s : \A z \in s : z <= top BY <1>2, <2>2
    <3>2. x \in Nat /\ \A z \in s : z \in Nat OBVIOUS
    <3>3. CASE x <= top BY <3>1, <3>2, <3>3
    <3>4. CASE ~(x <= top)
      <4>1. top \in Nat /\ x \in Nat /\ top <= x BY <3>1, <3>2, <3>4
      <4>2. \A z \in s : z <= x
        <5> TAKE z \in s
        <5>1. z \in Nat /\ z <= top BY <3>1, <3>2
        <5> QED BY <4>1, <5>1
      <4>3. \A z \in s \cup {x} : z <= x BY <4>1, <4>2
      <4> QED BY <4>3
    <3> QED BY <3>3, <3>4
  <2> QED BY <2>1, <2>2
<1>3. S \in T
  <2> HIDE DEF T
  <2> QED BY <1>1, <1>2, FiniteInduction
<1>4. \E x \in S : \A z \in S : x >= z
  <2>1. PICK x \in S : \A z \in S : z <= x BY <1>3
  <2> QED BY <2>1
<1>5. Max(S) \in S /\ \A z \in S : Max(S) >= z BY <1>4 DEF Max
<1> QED BY <1>5

\* Drawing.
LEMMA DrawFinds ==
  ASSUME DrawInv, NEW number \in 0 .. Parts - 1, DrawItem(number)
  PROVE  DrawsAnItem'
<1> DEFINE items == DOMAIN mProbabilityDensity
           possible == {id \in items : mProbabilityDensity[id] > 0}
           sum == GetProbabilityDensitySum
           hits == {id \in items : number * sum <= Parts * DensityUpTo(id)}
           fails == mProbabilityDensity = <<>> \/ sum = 0 \/ hits = {}
           last == Max(DrawIds)
<1>1. mProbabilityDensity' = mProbabilityDensity /\ drawn' = <<number, IF fails THEN Nothing ELSE Min(hits)>>
  BY DEF DrawItem
<1> SUFFICES /\ fails <=> possible = {}
             /\ ~fails => Min(hits) # Nothing
             /\ ~fails /\ number > 0 => Min(hits) \in possible
  BY <1>1 DEF DrawsAnItem
<1>2. /\ Parts \in Nat /\ Parts > 0 /\ number \in Nat /\ number < Parts
      /\ items \subseteq Nat /\ last \in Nat /\ \A id \in items : id <= last
  <2>1. Parts \in Nat /\ Parts > 0 BY DrawAssumption
  <2>2. DrawIds \subseteq Nat /\ IsFiniteSet(DrawIds) /\ DrawIds # {} BY DrawAssumption
  <2>3. last \in DrawIds /\ \A x \in DrawIds : x <= last BY <2>2, GreatestIs
  <2>4. items \subseteq DrawIds BY DEF DrawInv
  <2>5. number \in Nat /\ number < Parts BY <2>1
  <2> HIDE DEF items, last
  <2>6. items \subseteq Nat /\ last \in Nat /\ \A id \in items : id <= last BY <2>2, <2>3, <2>4
  <2> QED BY <2>1, <2>5, <2>6
<1>3. DensitiesAre BY DEF DensitiesAre, Density, DrawInv
<1>4. CASE items = {}
  <2>1. hits = {} /\ possible = {} BY <1>4
  <2> QED BY <2>1
<1>5. CASE items # {} /\ possible = {}
  <2>1. sum = DensityUpTo(last) BY <1>5 DEF GetProbabilityDensitySum, DrawInv, AllDensities
  <2>2. sum \in Nat BY <1>2, <1>3, <2>1, SumsAdd
  <2>3. ~(sum > 0) BY <1>2, <1>3, <1>5, <2>1, SumReachedAtItem
  <2>4. fails BY <2>2, <2>3
  <2> QED BY <1>5, <2>4
<1>6. CASE possible # {}
  <2>1. sum = DensityUpTo(last) /\ mProbabilityDensity # <<>>
    BY <1>6 DEF GetProbabilityDensitySum, DrawInv, AllDensities
  <2>2. sum \in Nat /\ sum > 0
    <3>1. PICK id \in possible : TRUE BY <1>6
    <3>2. Density(id) > 0 /\ Density(id) \in Nat /\ id \in Nat /\ id <= last
      BY <1>2, <1>3 DEF Density, DensitiesAre
    <3>3. Density(id) <= sum /\ sum \in Nat BY <1>2, <1>3, <2>1, <3>2, SumsGrow, SumsAdd
    <3> QED BY <3>2, <3>3
  <2> HIDE DEF sum
  <2>3. number * sum \in Nat /\ number * sum <= Parts * sum
    <3>1. Parts - number \in Nat /\ Parts = number + (Parts - number) BY <1>2
    <3>2. Parts * sum = number * sum + (Parts - number) * sum BY <1>2, <2>2, <3>1
    <3>3. number * sum \in Nat /\ (Parts - number) * sum \in Nat BY <1>2, <2>2, <3>1
    <3> QED BY <3>2, <3>3
  <2>4. hits # {}
    <3>1. PICK m \in Nat : DensityUpTo(m) = sum /\ m \in items
      BY <1>2, <1>3, <2>1, <2>2, SumReachedAtItem
    <3> QED BY <2>3, <3>1
  <2>5. Min(hits) \in hits /\ \A id \in hits : Min(hits) <= id
    <3>1. \E x \in hits : \A z \in hits : x <= z BY <1>2, <2>4, LeastNatural
    <3> QED BY <3>1 DEF Min
  <2> DEFINE h == Min(hits)
  <2> HIDE DEF h
  <2>6. h \in items /\ h \in Nat /\ number * sum <= Parts * DensityUpTo(h) BY <1>2, <2>5 DEF h
  <2>7. ~fails BY <2>1, <2>2, <2>4
  <2>8. ASSUME number > 0 PROVE h \in possible
    <3>1. number * sum > 0 BY <1>2, <2>2, <2>8
    <3>2. DensityUpTo(h) \in Nat BY <1>3, <2>6, SumsAdd
    <3>3. DensityUpTo(h) > 0
      <4>1. DensityUpTo(h) # 0 BY <1>2, <2>3, <2>6, <3>1
      <4> QED BY <3>2, <4>1
    <3>4. PICK m \in Nat : /\ m <= h /\ DensityUpTo(m) = DensityUpTo(h)
                          /\ m \in items /\ mProbabilityDensity[m] > 0
      BY <1>3, <2>6, <3>3, SumReachedAtItem
    <3>5. m \in hits BY <2>6, <3>4
    <3>6. h <= m BY <2>5, <3>5 DEF h
    <3>7. h = m BY <2>6, <3>4, <3>6
    <3> QED BY <3>4, <3>7
  <2>9. h # Nothing BY <2>6 DEF Nothing
  <2> QED BY <1>6, <2>7, <2>8, <2>9 DEF h
<1> QED BY <1>4, <1>5, <1>6

\* A draw gives an item whenever one has a density, and never one without,
\* unless the random number is zero.
THEOREM DrawsItemsWithDensity == DrawSpec => []DrawsAnItem
<1>1. DrawInit => DrawInv BY DEF DrawInit, DrawInv, DrawsAnItem
<1>2. DrawInv /\ [DrawNext]_drawVars => DrawInv'
  <2> SUFFICES ASSUME DrawInv, [DrawNext]_drawVars PROVE DrawInv' OBVIOUS
  <2>1. ASSUME NEW id \in DrawIds, RemoveItem(id) PROVE DrawInv'
    <3>1. mProbabilityDensity' = RestrictDomain(mProbabilityDensity, LAMBDA x : x # id) /\ mUpdated' = TRUE
          /\ drawn' = <<>>
      BY <2>1 DEF RemoveItem
    <3>2. /\ DOMAIN mProbabilityDensity' \subseteq DOMAIN mProbabilityDensity
          /\ \A x \in DOMAIN mProbabilityDensity' : mProbabilityDensity'[x] = mProbabilityDensity[x]
      BY <3>1 DEF RestrictDomain, Restrict
    <3> QED BY <3>1, <3>2 DEF DrawInv, DrawsAnItem
  <2>2. ASSUME NEW id \in DrawIds, NEW d \in Densities, SetProbabilityDensity(id, d) PROVE DrawInv'
    <3>1. mProbabilityDensity' = Over(Entry(id, d), mProbabilityDensity) /\ mUpdated' = TRUE /\ drawn' = <<>>
      BY <2>2 DEF SetProbabilityDensity
    <3>2. /\ DOMAIN mProbabilityDensity' = {id} \cup DOMAIN mProbabilityDensity
          /\ \A x \in DOMAIN mProbabilityDensity' :
               mProbabilityDensity'[x] = IF x = id THEN d ELSE mProbabilityDensity[x]
      BY <3>1 DEF Over, Entry
    <3>3. d \in Nat BY DrawAssumption
    <3> QED BY <3>1, <3>2, <3>3 DEF DrawInv, DrawsAnItem
  <2>3. ASSUME NEW number \in 0 .. Parts - 1, DrawItem(number) PROVE DrawInv'
    <3>1. DrawsAnItem' BY <2>3, DrawFinds
    <3>2. mProbabilityDensity' = mProbabilityDensity /\ mUpdated' = mUpdated BY <2>3 DEF DrawItem
    <3> QED BY <3>1, <3>2 DEF DrawInv
  <2>4. CASE UNCHANGED drawVars BY <2>4 DEF drawVars, DrawInv, DrawsAnItem
  <2> QED BY <2>1, <2>2, <2>3, <2>4 DEF DrawNext
<1>3. DrawInv => DrawsAnItem BY DEF DrawInv
<1> QED BY <1>1, <1>2, <1>3, PTL DEF DrawSpec

(* BipartiteGraph, for any vertices and any number of links.                   *)

Links == LinkedVertices \X LinkedVertices

\* The links of a vertex at the end i, and the vertices at the other ends.
LinksOf(v, i) == {n \in DOMAIN linkings : linkings[n][i] = v}
LinkedWith(v) == {linkings[n][2] : n \in LinksOf(v, 1)} \cup {linkings[n][1] : n \in LinksOf(v, 2)}
Leaving(v) == Among(mpGraph.edges, {v} \X LinkedVertices)

LinksInv ==
  /\ mpGraph = [vertices |-> mpGraph.vertices, edges |-> mpGraph.edges]
  /\ linkings \in Seq(Links) /\ mpGraph.edges \in Seq(Links)
  /\ mpGraph.vertices \subseteq LinkedVertices
  /\ \A n \in DOMAIN linkings : linkings[n][1] \in mpRed /\ linkings[n][2] \in mpBlue
  /\ \A v, w \in LinkedVertices : <<v, w>> \in Held(mpGraph.edges) <=> w \in LinkedWith(v)
  /\ \A v \in LinkedVertices :
       Len(Leaving(v)) = Cardinality(LinksOf(v, 1)) + Cardinality(LinksOf(v, 2))

\* The lengths of the lists Among goes through.
AmongCounts(c, list, set) ==
  /\ c[0] = 0 /\ Len(Among(list, set)) = c[Len(list)]
  /\ \A n \in 0 .. Len(list) : c[n] \in Nat
  /\ \A n \in 1 .. Len(list) : c[n] = c[n - 1] + (IF list[n] \in set THEN 1 ELSE 0)

\* What Among keeps can be counted step by step.
LEMMA AmongIsCounted ==
  ASSUME NEW A, NEW list \in Seq(A), NEW set
  PROVE  \E c : AmongCounts(c, list, set)
<1>1. PICK k : AmongSteps(k, list, set, A) BY AmongTakesSteps
<1> DEFINE c == [n \in 0 .. Len(list) |-> Len(k[n])]
<1>2. Len(list) \in Nat OBVIOUS
<1>3. k[0] = <<>> BY <1>1, <1>2 DEF AmongSteps, AmongUpto
<1>4. \A n \in 0 .. Len(list) : k[n] \in Seq(A) BY <1>1 DEF AmongSteps
<1>5. ASSUME NEW n \in 1 .. Len(list)
      PROVE  c[n] = c[n - 1] + (IF list[n] \in set THEN 1 ELSE 0)
  <2>1. n \in 0 .. Len(list) /\ n # 0 /\ n - 1 \in 0 .. Len(list) BY <1>2
  <2>2. k[n] = IF list[n] \in set THEN Append(k[n - 1], list[n]) ELSE k[n - 1]
    BY <1>1, <2>1 DEF AmongSteps, AmongUpto
  <2>3. k[n - 1] \in Seq(A) /\ c[n] = Len(k[n]) /\ c[n - 1] = Len(k[n - 1]) BY <1>4, <2>1
  <2>4. Len(k[n - 1]) \in Nat BY <2>3
  <2>5. CASE list[n] \in set
    <3>1. Len(Append(k[n - 1], list[n])) = Len(k[n - 1]) + 1 BY <2>3
    <3> QED BY <2>2, <2>3, <2>5, <3>1
  <2>6. CASE list[n] \notin set BY <2>2, <2>3, <2>4, <2>6
  <2> QED BY <2>5, <2>6
<1>6. c[0] = 0 /\ Len(Among(list, set)) = c[Len(list)]
  <2>1. 0 \in 0 .. Len(list) /\ Len(list) \in 0 .. Len(list) BY <1>2
  <2>2. Len(<<>>) = 0 OBVIOUS
  <2>3. Among(list, set) = k[Len(list)] BY <1>1 DEF AmongSteps
  <2> QED BY <1>3, <2>1, <2>2, <2>3
<1>7. \A n \in 0 .. Len(list) : c[n] \in Nat
  <2> TAKE n \in 0 .. Len(list)
  <2>1. k[n] \in Seq(A) /\ c[n] = Len(k[n]) BY <1>4
  <2> QED BY <2>1
<1> HIDE DEF c
<1> QED BY <1>5, <1>6, <1>7 DEF AmongCounts

\* What is kept of a list with a new head.
LEMMA AmongBehind ==
  ASSUME NEW A, NEW list \in Seq(A), NEW x \in A, NEW set
  PROVE  Len(Among(<<x>> \o list, set)) = Len(Among(list, set)) + (IF x \in set THEN 1 ELSE 0)
<1> DEFINE longer == <<x>> \o list
<1>1. Len(list) \in Nat /\ longer \in Seq(A) /\ Len(longer) = Len(list) + 1 /\ longer[1] = x
  OBVIOUS
<1>2. \A i \in 1 .. Len(list) : longer[i + 1] = list[i] OBVIOUS
<1> HIDE DEF longer
<1>3. PICK c : AmongCounts(c, list, set) BY AmongIsCounted
<1>4. PICK d : AmongCounts(d, longer, set) BY <1>1, AmongIsCounted
<1>5. PICK more \in Nat : more = IF x \in set THEN 1 ELSE 0 OBVIOUS
<1> DEFINE T == {n \in Nat : n <= Len(list) => d[n + 1] = c[n] + more}
<1>6. 0 \in T
  <2>1. c[0] = 0 /\ d[0] = 0 BY <1>3, <1>4 DEF AmongCounts
  <2>2. 1 \in 1 .. Len(longer) /\ 1 - 1 = 0 /\ 0 + 1 = 1 BY <1>1
  <2>3. d[1] = d[0] + (IF longer[1] \in set THEN 1 ELSE 0) BY <1>4, <2>2 DEF AmongCounts
  <2>4. d[0 + 1] = c[0] + more BY <1>1, <1>5, <2>1, <2>2, <2>3
  <2> QED BY <2>4
<1>7. ASSUME NEW n \in T PROVE n + 1 \in T
  <2>1. n \in Nat /\ n + 1 \in Nat BY <1>7
  <2> DEFINE m == n + 1
  <2>2. CASE m <= Len(list)
    <3>1. /\ m \in 1 .. Len(list) /\ m - 1 = n /\ n <= Len(list) /\ n \in 0 .. Len(list)
          /\ m + 1 \in 1 .. Len(longer) /\ (m + 1) - 1 = m
      BY <1>1, <2>1, <2>2
    <3>2. d[m] = c[n] + more BY <1>7, <3>1
    <3> HIDE DEF m
    <3>3. c[m] = c[n] + (IF list[m] \in set THEN 1 ELSE 0) BY <1>3, <3>1 DEF AmongCounts
    <3>4. d[m + 1] = d[m] + (IF longer[m + 1] \in set THEN 1 ELSE 0) BY <1>4, <3>1 DEF AmongCounts
    <3>5. longer[m + 1] = list[m] BY <1>2, <3>1
    <3>6. c[n] \in Nat BY <1>3, <3>1 DEF AmongCounts
    <3>7. d[m + 1] = c[m] + more BY <3>2, <3>3, <3>4, <3>5, <3>6
    <3> QED BY <2>1, <3>7 DEF m
  <2>3. CASE ~(m <= Len(list)) BY <2>1, <2>3
  <2> QED BY <2>2, <2>3
<1>8. Len(list) \in T
  <2>1. T \subseteq Nat OBVIOUS
  <2> HIDE DEF T
  <2>2. T = Nat BY <1>6, <1>7, <2>1, Induction
  <2> QED BY <1>1, <2>2
<1>9. d[Len(list) + 1] = c[Len(list)] + more BY <1>1, <1>8
<1> QED BY <1>1, <1>3, <1>4, <1>5, <1>9 DEF AmongCounts, longer

\* Two elements are put in front of a list one by one.
LEMMA TwoInFront ==
  ASSUME NEW A, NEW x \in A, NEW z \in A, NEW list \in Seq(A)
  PROVE  <<x, z>> \o list = <<x>> \o (<<z>> \o list)
<1>1. <<x>> \in Seq(A) /\ <<z>> \in Seq(A) OBVIOUS
<1>2. PICK pair \in Seq(A) : pair = <<x, z>>
  <2>1. <<x, z>> \in Seq(A) OBVIOUS
  <2> QED BY <2>1
<1>3. PICK both \in Seq(A) : both = <<x>> \o <<z>>
  <2>1. <<x>> \o <<z>> \in Seq(A) BY <1>1
  <2> QED BY <2>1
<1>4. Len(pair) = 2 /\ pair[1] = x /\ pair[2] = z BY <1>2
<1>5. Len(both) = 2 /\ both[1] = x /\ both[2] = z BY <1>3
<1>6. both = pair
  <2>1. \A i \in 1 .. Len(both) : both[i] = pair[i]
    <3> TAKE i \in 1 .. Len(both)
    <3>1. i = 1 \/ i = 2 BY <1>5
    <3> QED BY <1>4, <1>5, <3>1
  <2> QED BY <1>4, <1>5, <2>1, SeqEqual
<1> QED BY <1>1, <1>2, <1>3, <1>6, ConcatAssociative

\* Linking two vertices.
LEMMA LinkKeeps ==
  ASSUME LinksInv, NEW red \in LinkedVertices, NEW blue \in LinkedVertices, LinkVertices(red, blue)
  PROVE  LinksInv'
<1>1. PICK there \in Links : there = <<red, blue>> /\ there[1] = red /\ there[2] = blue
  <2>1. <<red, blue>> \in Links /\ <<red, blue>>[1] = red /\ <<red, blue>>[2] = blue BY DEF Links
  <2> QED BY <2>1
<1>2. PICK back \in Links : back = <<blue, red>> /\ back[1] = blue /\ back[2] = red
  <2>1. <<blue, red>> \in Links /\ <<blue, red>>[1] = blue /\ <<blue, red>>[2] = red BY DEF Links
  <2> QED BY <2>1
<1>3. PICK n \in Nat : n = Len(linkings) BY DEF LinksInv
<1>4. PICK edges \in Seq(Links) : edges = mpGraph.edges BY DEF LinksInv
<1>5. PICK one \in Seq(Links) : one = <<there>> \o edges BY HeldBehind
<1>6. PICK two \in Seq(Links) : two = <<back>> \o one BY HeldBehind
<1>7. /\ mpGraph' = [vertices |-> mpGraph.vertices \cup {red, blue}, edges |-> two]
      /\ mpRed' = mpRed \cup {red} /\ mpBlue' = mpBlue \cup {blue}
      /\ linkings' = Append(linkings, there)
  <2>0. back \in Links /\ there \in Links /\ edges \in Seq(Links) OBVIOUS
  <2>1. <<back, there>> \o edges = <<back>> \o (<<there>> \o edges) BY <2>0, TwoInFront, SMTT(30)
  <2>2. <<back, there>> \o edges = two BY <1>5, <1>6, <2>1
  <2> QED BY <1>1, <1>2, <1>4, <2>2 DEF LinkVertices
<1>8. Held(two) = Held(edges) \cup {there, back}
  <2>1. Held(one) = {there} \cup Held(edges) BY <1>5, HeldBehind
  <2>2. Held(two) = {back} \cup Held(one) BY <1>6, HeldBehind
  <2> QED BY <2>1, <2>2
<1>9. /\ linkings' \in Seq(Links) /\ DOMAIN linkings = 1 .. n /\ DOMAIN linkings' = 1 .. n + 1
      /\ linkings'[n + 1] = there /\ \A i \in 1 .. n : linkings'[i] = linkings[i]
  <2>1. linkings \in Seq(Links) BY DEF LinksInv
  <2> QED BY <1>3, <1>7, <2>1
<1>10. \A v, i : LinksOf(v, i)' = LinksOf(v, i) \cup (IF there[i] = v THEN {n + 1} ELSE {})
  BY <1>9 DEF LinksOf
<1>11. \A v, i : IsFiniteSet(LinksOf(v, i)) /\ n + 1 \notin LinksOf(v, i)
                 /\ Cardinality(LinksOf(v, i)) \in Nat
  <2> TAKE v, i
  <2>1. LinksOf(v, i) \subseteq 1 .. n BY <1>9 DEF LinksOf
  <2>2. IsFiniteSet(1 .. n) BY FS_Interval
  <2>3. IsFiniteSet(LinksOf(v, i)) BY <2>1, <2>2, FS_Subset
  <2>4. n + 1 \notin 1 .. n OBVIOUS
  <2> QED BY <2>1, <2>3, <2>4, FS_CardinalityType
<1>12. \A v, i : Cardinality(LinksOf(v, i)') = Cardinality(LinksOf(v, i)) + (IF there[i] = v THEN 1 ELSE 0)
  <2> TAKE v, i
  <2>1. CASE there[i] = v
    <3>1. Cardinality(LinksOf(v, i) \cup {n + 1}) = Cardinality(LinksOf(v, i)) + 1 BY <1>11, FS_AddElement
    <3> QED BY <1>10, <2>1, <3>1
  <2>2. CASE there[i] # v
    <3>1. LinksOf(v, i)' = LinksOf(v, i) BY <1>10, <2>2
    <3> QED BY <1>11, <2>2, <3>1
  <2> QED BY <2>1, <2>2
<1>13. ASSUME NEW v \in LinkedVertices
       PROVE  Len(Leaving(v)') = Cardinality(LinksOf(v, 1)') + Cardinality(LinksOf(v, 2)')
  <2> DEFINE set == {v} \X LinkedVertices
  <2>1. there \in set <=> red = v BY <1>1
  <2>2. back \in set <=> blue = v BY <1>2
  <2>3. Leaving(v) = Among(edges, set) BY <1>4 DEF Leaving
  <2>4. Leaving(v)' = Among(two, set) BY <1>7 DEF Leaving
  <2> HIDE DEF set
  <2>5. Len(Among(one, set)) = Len(Among(edges, set)) + (IF there \in set THEN 1 ELSE 0)
    BY <1>5, AmongBehind
  <2>6. Len(Among(two, set)) = Len(Among(one, set)) + (IF back \in set THEN 1 ELSE 0)
    BY <1>6, AmongBehind
  <2>7. Len(Among(edges, set)) = Cardinality(LinksOf(v, 1)) + Cardinality(LinksOf(v, 2))
    BY <2>3 DEF LinksInv
  <2>8. Cardinality(LinksOf(v, 1)') = Cardinality(LinksOf(v, 1)) + (IF red = v THEN 1 ELSE 0)
    BY <1>1, <1>12
  <2>9. Cardinality(LinksOf(v, 2)') = Cardinality(LinksOf(v, 2)) + (IF blue = v THEN 1 ELSE 0)
    BY <1>1, <1>12
  <2>10. Cardinality(LinksOf(v, 1)) \in Nat /\ Cardinality(LinksOf(v, 2)) \in Nat BY <1>11
  <2>11. Len(Leaving(v)') = Cardinality(LinksOf(v, 1)) + Cardinality(LinksOf(v, 2))
                            + (IF red = v THEN 1 ELSE 0) + (IF blue = v THEN 1 ELSE 0)
    BY <2>1, <2>2, <2>4, <2>5, <2>6, <2>7
  <2> QED BY <2>8, <2>9, <2>10, <2>11
<1>14. ASSUME NEW v \in LinkedVertices, NEW w \in LinkedVertices
       PROVE  <<v, w>> \in Held(mpGraph'.edges) <=> w \in LinkedWith(v)'
  <2>1. <<v, w>> \in Held(mpGraph'.edges) <=>
          <<v, w>> \in Held(edges) \/ (v = red /\ w = blue) \/ (v = blue /\ w = red)
    <3>1. mpGraph'.edges = two BY <1>7
    <3>2. <<v, w>> = there <=> v = red /\ w = blue BY <1>1
    <3>3. <<v, w>> = back <=> v = blue /\ w = red BY <1>2
    <3> QED BY <1>8, <3>1, <3>2, <3>3
  <2>2. \A l : l \in LinksOf(v, 1)' <=> l \in LinksOf(v, 1) \/ (red = v /\ l = n + 1) BY <1>1, <1>10
  <2>3. \A l : l \in LinksOf(v, 2)' <=> l \in LinksOf(v, 2) \/ (blue = v /\ l = n + 1) BY <1>1, <1>10
  <2>4. \A l \in LinksOf(v, 1) \cup LinksOf(v, 2) : linkings'[l] = linkings[l] BY <1>9 DEF LinksOf
  <2>5. w \in LinkedWith(v)' <=> w \in LinkedWith(v) \/ (v = red /\ w = blue) \/ (v = blue /\ w = red)
    <3>1. w \in LinkedWith(v) <=> \/ \E l \in LinksOf(v, 1) : w = linkings[l][2]
                                  \/ \E l \in LinksOf(v, 2) : w = linkings[l][1]
      BY DEF LinkedWith
    <3>2. w \in LinkedWith(v)' <=> \/ \E l \in LinksOf(v, 1)' : w = linkings'[l][2]
                                   \/ \E l \in LinksOf(v, 2)' : w = linkings'[l][1]
      BY DEF LinkedWith
    <3>3. linkings'[n + 1][1] = red /\ linkings'[n + 1][2] = blue BY <1>1, <1>9
    <3>4. (\E l \in LinksOf(v, 1)' : w = linkings'[l][2]) <=>
            (\E l \in LinksOf(v, 1) : w = linkings[l][2]) \/ (red = v /\ w = blue)
      BY <2>2, <2>4, <3>3
    <3>5. (\E l \in LinksOf(v, 2)' : w = linkings'[l][1]) <=>
            (\E l \in LinksOf(v, 2) : w = linkings[l][1]) \/ (blue = v /\ w = red)
      BY <2>3, <2>4, <3>3
    <3> QED BY <3>1, <3>2, <3>4, <3>5
  <2>6. <<v, w>> \in Held(edges) <=> w \in LinkedWith(v) BY <1>4 DEF LinksInv
  <2> QED BY <2>1, <2>5, <2>6
<1>15. mpGraph' = [vertices |-> mpGraph'.vertices, edges |-> mpGraph'.edges]
       /\ mpGraph'.edges \in Seq(Links) /\ mpGraph'.vertices \subseteq LinkedVertices
  <2>1. mpGraph.vertices \subseteq LinkedVertices BY DEF LinksInv
  <2>2. mpGraph'.vertices = mpGraph.vertices \cup {red, blue} /\ mpGraph'.edges = two BY <1>7
  <2> QED BY <1>7, <2>1, <2>2
<1>16. \A i \in DOMAIN linkings' : linkings'[i][1] \in mpRed' /\ linkings'[i][2] \in mpBlue'
  <2> TAKE i \in DOMAIN linkings'
  <2>1. CASE i = n + 1 BY <1>1, <1>7, <1>9, <2>1
  <2>2. CASE i # n + 1
    <3>1. i \in 1 .. n BY <1>9, <2>2
    <3>2. linkings[i][1] \in mpRed /\ linkings[i][2] \in mpBlue BY <1>9, <3>1 DEF LinksInv
    <3> QED BY <1>7, <1>9, <3>1, <3>2
  <2> QED BY <2>1, <2>2
<1> QED BY <1>9, <1>13, <1>14, <1>15, <1>16 DEF LinksInv

\* PartnersAreLinked: the partners of a vertex are those it was linked with, one
\* for every link.
THEOREM PartnersAreThoseLinked == BipartiteSpec => []PartnersAreLinked
<1>1. BipartiteInit => LinksInv
  <2> SUFFICES ASSUME BipartiteInit PROVE LinksInv OBVIOUS
  <2>1. linkings = <<>> /\ mpGraph = [vertices |-> {}, edges |-> <<>>] BY DEF BipartiteInit
  <2>2. Held(<<>>) = {} /\ <<>> \in Seq(Links) /\ DOMAIN linkings = {} BY <2>1 DEF Held
  <2>3. \A v, i : LinksOf(v, i) = {} BY <2>2 DEF LinksOf
  <2>4. \A v : LinkedWith(v) = {} BY <2>3 DEF LinkedWith
  <2>5. \A v \in LinkedVertices : Len(Leaving(v)) = 0
    <3> TAKE v \in LinkedVertices
    <3>1. mpGraph.edges = <<>> /\ <<>> \in Seq(Links) /\ Len(<<>>) = 0 BY <2>1
    <3>2. PICK c : AmongCounts(c, <<>>, {v} \X LinkedVertices) BY <3>1, AmongIsCounted
    <3> QED BY <3>1, <3>2 DEF AmongCounts, Leaving
  <2>6. Cardinality({}) = 0 BY FS_EmptySet
  <2>7. mpGraph.vertices = {} /\ mpGraph.edges = <<>> BY <2>1
  <2>8. \A v \in LinkedVertices : Len(Leaving(v)) = Cardinality(LinksOf(v, 1)) + Cardinality(LinksOf(v, 2))
    <3> TAKE v \in LinkedVertices
    <3>1. LinksOf(v, 1) = {} /\ LinksOf(v, 2) = {} BY <2>3
    <3>2. Cardinality(LinksOf(v, 1)) = 0 /\ Cardinality(LinksOf(v, 2)) = 0 BY <2>6, <3>1
    <3>3. Len(Leaving(v)) = 0 BY <2>5
    <3> QED BY <3>2, <3>3
  <2>9. \A v, w \in LinkedVertices : <<v, w>> \in Held(mpGraph.edges) <=> w \in LinkedWith(v)
    BY <2>2, <2>4, <2>7
  <2> QED BY <2>1, <2>2, <2>7, <2>8, <2>9 DEF LinksInv
<1>2. LinksInv /\ [BipartiteNext]_bipartiteVars => LinksInv'
  <2>1. ASSUME LinksInv, UNCHANGED bipartiteVars PROVE LinksInv'
    <3>1. mpGraph' = mpGraph /\ mpRed' = mpRed /\ mpBlue' = mpBlue /\ linkings' = linkings
      BY <2>1 DEF bipartiteVars
    <3>2. \A v, i : LinksOf(v, i)' = LinksOf(v, i) BY <3>1 DEF LinksOf
    <3>3. \A v : LinkedWith(v)' = LinkedWith(v) BY <3>1, <3>2 DEF LinkedWith
    <3>4. \A v : Leaving(v)' = Leaving(v) BY <3>1 DEF Leaving
    <3> QED BY <2>1, <3>1, <3>2, <3>3, <3>4 DEF LinksInv
  <2> QED BY <2>1, LinkKeeps DEF BipartiteNext
<1>3. LinksInv => PartnersAreLinked
  <2> SUFFICES ASSUME LinksInv, NEW v \in mpGraph.vertices
               PROVE  /\ ToSet(GetPartners(v)) = LinkedWith(v)
                      /\ Len(GetPartners(v)) = Cardinality(LinksOf(v, 1)) + Cardinality(LinksOf(v, 2))
                      /\ v \notin mpBlue => LinkedWith(v) \subseteq mpBlue
                      /\ v \notin mpRed => LinkedWith(v) \subseteq mpRed
    BY DEF PartnersAreLinked, LinkedWith, LinksOf, HasUniquePartner
  <2>1. v \in LinkedVertices /\ mpGraph.edges \in Seq(Links) BY DEF LinksInv
  <2> DEFINE out == Leaving(v)
  <2>2. out \in Seq(Links) /\ Held(out) = Held(mpGraph.edges) \cap ({v} \X LinkedVertices)
    BY <2>1, AmongHolds DEF Leaving
  <2>3. GetPartners(v) = [i \in DOMAIN out |-> out[i][2]] BY DEF GetPartners, Leaving
  <2> HIDE DEF out
  <2>4. Len(GetPartners(v)) = Len(out)
    <3>1. DOMAIN out = 1 .. Len(out) /\ Len(out) \in Nat BY <2>2
    <3> QED BY <2>3, <3>1
  <2>5. ToSet(GetPartners(v)) = {e[2] : e \in Held(out)} BY <2>3 DEF ToSet, Held
  <2>6. LinkedWith(v) \subseteq LinkedVertices
    <3>1. \A i \in DOMAIN linkings : linkings[i] \in Links BY DEF LinksInv
    <3> QED BY <3>1 DEF LinkedWith, LinksOf, Links
  <2>7. \A w \in LinkedVertices : <<v, w>> \in Held(mpGraph.edges) <=> w \in LinkedWith(v)
    BY <2>1 DEF LinksInv
  <2>8. {e[2] : e \in Held(out)} = LinkedWith(v)
    <3>1. ASSUME NEW e \in Held(out) PROVE e[2] \in LinkedWith(v)
      <4>1. e \in {v} \X LinkedVertices BY <2>2
      <4>2. e = <<v, e[2]>> /\ e[2] \in LinkedVertices BY <4>1
      <4> QED BY <2>2, <2>7, <4>2
    <3>2. ASSUME NEW w \in LinkedWith(v) PROVE w \in {e[2] : e \in Held(out)}
      <4>1. w \in LinkedVertices BY <2>6
      <4>2. <<v, w>> \in Held(out) BY <2>2, <2>7, <4>1
      <4>3. <<v, w>>[2] = w OBVIOUS
      <4> QED BY <4>2, <4>3
    <3> QED BY <3>1, <3>2
  <2>9. v \notin mpBlue => LinkedWith(v) \subseteq mpBlue BY DEF LinksInv, LinkedWith, LinksOf
  <2>10. v \notin mpRed => LinkedWith(v) \subseteq mpRed BY DEF LinksInv, LinkedWith, LinksOf
  <2> QED BY <2>1, <2>4, <2>5, <2>8, <2>9, <2>10 DEF LinksInv, out
<1> QED BY <1>1, <1>2, <1>3, PTL DEF BipartiteSpec

-----------------------------------------------------------------------------
(* Filters, for any number of filters and any lists of them.                   *)

\* Filters hold filters with a higher number.
ListsInv ==
  /\ held \in [FilterNumbers -> Seq(FilterNumbers)]
  /\ \A f \in FilterNumbers : \A g \in Held(held[f]) : g > f

\* What a list is without the element at a position.
LEMMA ApartAt ==
  ASSUME NEW A, NEW s \in Seq(A), NEW i \in 1 .. Len(s)
  PROVE  /\ RemoveAt(s, i) \in Seq(A) /\ Len(RemoveAt(s, i)) = Len(s) - 1
         /\ \A j \in 1 .. Len(s) - 1 : RemoveAt(s, i)[j] = IF j < i THEN s[j] ELSE s[j + 1]
         /\ Held(RemoveAt(s, i)) \subseteq Held(s)
<1>1. Len(s) \in Nat /\ i \in Nat /\ 1 <= i /\ i <= Len(s) /\ DOMAIN s = 1 .. Len(s) OBVIOUS
<1>2. PICK a \in Seq(A) : /\ a = SubSeq(s, 1, i - 1) /\ Len(a) = i - 1
                          /\ \A j \in 1 .. i - 1 : a[j] = s[j]
  <2>1. SubSeq(s, 1, i - 1) \in Seq(A) BY <1>1
  <2>2. Len(SubSeq(s, 1, i - 1)) = i - 1 BY <1>1
  <2>3. \A j \in 1 .. i - 1 : SubSeq(s, 1, i - 1)[j] = s[j] BY <1>1
  <2> QED BY <2>1, <2>2, <2>3
<1>3. PICK b \in Seq(A) : /\ b = SubSeq(s, i + 1, Len(s)) /\ Len(b) = Len(s) - i
                          /\ \A j \in 1 .. Len(s) - i : b[j] = s[j + i]
  <2>1. SubSeq(s, i + 1, Len(s)) \in Seq(A) BY <1>1
  <2>2. Len(SubSeq(s, i + 1, Len(s))) = Len(s) - i
    <3>1. CASE i = Len(s)
      <4>1. SubSeq(s, i + 1, Len(s)) = <<>> BY <1>1, <3>1, SubSeqEmpty
      <4>2. Len(<<>>) = 0 /\ Len(s) - i = 0 BY <1>1, <3>1
      <4> QED BY <4>1, <4>2
    <3>2. CASE i < Len(s)
      <4>1. i + 1 \in Int /\ Len(s) \in Int /\ \A j \in i + 1 .. Len(s) : s[j] \in A BY <1>1
      <4>2. Len(SubSeq(s, i + 1, Len(s))) = IF i + 1 <= Len(s) THEN Len(s) - (i + 1) + 1 ELSE 0
        BY <4>1, SubSeqProperties
      <4>3. i + 1 <= Len(s) /\ Len(s) - (i + 1) + 1 = Len(s) - i BY <1>1, <3>2
      <4> QED BY <4>2, <4>3
    <3>3. i = Len(s) \/ i < Len(s)
      <4>1. \A m, n \in Nat : m <= n => m = n \/ m < n OBVIOUS
      <4> QED BY <1>1, <4>1
    <3> QED BY <3>1, <3>2, <3>3
  <2>3. \A j \in 1 .. Len(s) - i : SubSeq(s, i + 1, Len(s))[j] = s[j + i] BY <1>1
  <2> QED BY <2>1, <2>2, <2>3
<1>4. PICK c \in Seq(A) : /\ c = a \o b /\ Len(c) = Len(s) - 1
                          /\ \A j \in 1 .. Len(s) - 1 : c[j] = IF j <= i - 1 THEN a[j] ELSE b[j - (i - 1)]
  <2>1. Len(a) = i - 1 /\ Len(b) = Len(s) - i BY <1>2, <1>3
  <2>2. Len(a) + Len(b) = Len(s) - 1 BY <1>1, <2>1
  <2>3. /\ a \o b \in Seq(A) /\ Len(a \o b) = Len(a) + Len(b)
        /\ \A j \in 1 .. Len(a) + Len(b) : (a \o b)[j] = IF j <= Len(a) THEN a[j] ELSE b[j - Len(a)]
    BY ConcatProperties
  <2> QED BY <2>1, <2>2, <2>3
<1>5. c = RemoveAt(s, i) BY <1>2, <1>3, <1>4 DEF RemoveAt
<1>6. \A j \in 1 .. Len(s) - 1 : c[j] = IF j < i THEN s[j] ELSE s[j + 1]
  <2> TAKE j \in 1 .. Len(s) - 1
  <2>1. CASE j < i
    <3>1. j \in 1 .. i - 1 /\ j <= i - 1 BY <1>1, <2>1
    <3> QED BY <1>2, <1>4, <2>1, <3>1
  <2>2. CASE ~(j < i)
    <3>1. j - (i - 1) \in 1 .. Len(s) - i /\ (j - (i - 1)) + i = j + 1 /\ ~(j <= i - 1) BY <1>1, <2>2
    <3> QED BY <1>3, <1>4, <2>2, <3>1
  <2> QED BY <2>1, <2>2
<1>7. ASSUME NEW x \in Held(c) PROVE x \in Held(s)
  <2>1. PICK j \in 1 .. Len(s) - 1 : x = c[j] BY <1>4, <1>7 DEF Held
  <2>2. j \in DOMAIN s /\ j + 1 \in DOMAIN s BY <1>1
  <2> QED BY <1>6, <2>1, <2>2 DEF Held
<1> QED BY <1>4, <1>5, <1>6, <1>7

\* An element that was put in a list is at its position, and the list without
\* it is what it was.
LEMMA PutAt ==
  ASSUME NEW A, NEW s \in Seq(A), NEW e \in A, NEW i \in 1 .. Len(s) + 1
  PROVE  /\ InsertAt(s, i, e) \in Seq(A) /\ InsertAt(s, i, e)[i] = e
         /\ RemoveAt(InsertAt(s, i, e), i) = s
         /\ Held(InsertAt(s, i, e)) \subseteq Held(s) \cup {e}
<1>1. Len(s) \in Nat /\ i \in Nat /\ 1 <= i /\ i <= Len(s) + 1 /\ DOMAIN s = 1 .. Len(s) OBVIOUS
<1>2. PICK a \in Seq(A) : /\ a = SubSeq(s, 1, i - 1) /\ Len(a) = i - 1
                          /\ \A j \in 1 .. i - 1 : a[j] = s[j]
  <2>1. SubSeq(s, 1, i - 1) \in Seq(A) BY <1>1
  <2>2. Len(SubSeq(s, 1, i - 1)) = i - 1 BY <1>1
  <2>3. \A j \in 1 .. i - 1 : SubSeq(s, 1, i - 1)[j] = s[j] BY <1>1
  <2> QED BY <2>1, <2>2, <2>3
<1>3. PICK b \in Seq(A) : /\ b = SubSeq(s, i, Len(s)) /\ Len(b) = Len(s) - (i - 1)
                          /\ \A j \in 1 .. Len(s) - (i - 1) : b[j] = s[j + (i - 1)]
  <2>1. SubSeq(s, i, Len(s)) \in Seq(A) BY <1>1
  <2>2. Len(SubSeq(s, i, Len(s))) = Len(s) - (i - 1) BY <1>1
  <2>3. \A j \in 1 .. Len(s) - (i - 1) : SubSeq(s, i, Len(s))[j] = s[j + (i - 1)] BY <1>1
  <2> QED BY <2>1, <2>2, <2>3
<1>4. PICK d \in Seq(A) : /\ d = a \o <<e>> /\ Len(d) = i /\ d[i] = e
                          /\ \A j \in 1 .. i - 1 : d[j] = s[j]
  <2>1. <<e>> \in Seq(A) /\ Len(<<e>>) = 1 /\ <<e>>[1] = e OBVIOUS
  <2>2. a \o <<e>> \in Seq(A) /\ Len(a \o <<e>>) = i BY <1>1, <1>2, <2>1, ConcatProperties
  <2>3. (a \o <<e>>)[i] = e BY <1>1, <1>2, <2>1, ConcatProperties
  <2>4. \A j \in 1 .. i - 1 : (a \o <<e>>)[j] = s[j] BY <1>1, <1>2, <2>1, ConcatProperties
  <2> QED BY <2>2, <2>3, <2>4
<1>5. PICK c \in Seq(A) : /\ c = d \o b /\ Len(c) = Len(s) + 1
                          /\ \A j \in 1 .. Len(s) + 1 : c[j] = IF j <= i THEN d[j] ELSE b[j - i]
  <2>1. Len(d) = i /\ Len(b) = Len(s) - (i - 1) BY <1>3, <1>4
  <2>2. Len(d) + Len(b) = Len(s) + 1 BY <1>1, <2>1
  <2>3. /\ d \o b \in Seq(A) /\ Len(d \o b) = Len(d) + Len(b)
        /\ \A j \in 1 .. Len(d) + Len(b) : (d \o b)[j] = IF j <= Len(d) THEN d[j] ELSE b[j - Len(d)]
    BY ConcatProperties
  <2> QED BY <2>1, <2>2, <2>3
<1>6. c = InsertAt(s, i, e) BY <1>2, <1>3, <1>4, <1>5 DEF InsertAt
<1>7. c[i] = e BY <1>1, <1>4, <1>5
<1>8. \A j \in 1 .. i - 1 : c[j] = s[j] BY <1>1, <1>4, <1>5
<1>9. \A j \in i .. Len(s) : c[j + 1] = s[j]
  <2> TAKE j \in i .. Len(s)
  <2>1. j + 1 \in 1 .. Len(s) + 1 /\ ~(j + 1 <= i) BY <1>1
  <2>2. (j + 1) - i \in 1 .. Len(s) - (i - 1) /\ ((j + 1) - i) + (i - 1) = j BY <1>1
  <2> QED BY <1>3, <1>5, <2>1, <2>2
<1>10. PICK r \in Seq(A) : /\ r = RemoveAt(c, i) /\ Len(r) = Len(s)
                           /\ \A j \in 1 .. Len(s) : r[j] = IF j < i THEN c[j] ELSE c[j + 1]
  <2>1. i \in 1 .. Len(c) /\ Len(c) - 1 = Len(s) BY <1>1, <1>5
  <2>2. RemoveAt(c, i) \in Seq(A) /\ Len(RemoveAt(c, i)) = Len(s) BY <2>1, ApartAt
  <2>3. \A j \in 1 .. Len(s) : RemoveAt(c, i)[j] = IF j < i THEN c[j] ELSE c[j + 1] BY <2>1, ApartAt
  <2> QED BY <2>2, <2>3
<1>11. r = s
  <2>1. \A j \in 1 .. Len(r) : r[j] = s[j] BY <1>1, <1>8, <1>9, <1>10
  <2> QED BY <1>10, <2>1, SeqEqual
<1>12. ASSUME NEW x \in Held(c) PROVE x \in Held(s) \cup {e}
  <2>1. PICK j \in 1 .. Len(s) + 1 : x = c[j] BY <1>5, <1>12 DEF Held
  <2>2. CASE j < i
    <3>1. j \in 1 .. i - 1 /\ j \in DOMAIN s BY <1>1, <2>2
    <3> QED BY <1>8, <2>1, <3>1 DEF Held
  <2>3. CASE j = i BY <1>7, <2>1, <2>3
  <2>4. CASE j > i
    <3>1. j - 1 \in i .. Len(s) /\ (j - 1) + 1 = j /\ j - 1 \in DOMAIN s BY <1>1, <2>4
    <3>2. x = s[j - 1] BY <1>9, <2>1, <3>1
    <3> QED BY <3>1, <3>2 DEF Held
  <2> QED BY <1>1, <2>2, <2>3, <2>4
<1> QED BY <1>5, <1>6, <1>7, <1>10, <1>11, <1>12

\* What the caller was told of the last change, as FiltersKeepTheirPlace has it.
Apart(list, position) == IF position = -1 THEN list ELSE RemoveAt(list, position + 1)
ToldRight ==
  changed # <<>> =>
    LET list == held[changed.of]
    IN /\ Apart(list, changed.given) = Apart(changed.before, changed.taken)
       /\ changed.given # -1 => list[changed.given + 1] = changed.filter

\* A change of one list.
LEMMA ChangeKeeps ==
  ASSUME ListsInv, NEW f \in FilterNumbers, NEW list \in Seq(FilterNumbers), NEW taken, NEW given, NEW g,
         \A h \in Held(list) : h > f, Change(f, list, taken, given, g),
         Apart(list, given) = Apart(held[f], taken), given # -1 => list[given + 1] = g
  PROVE  ListsInv' /\ ToldRight'
<1>1. held' = [held EXCEPT ![f] = list] BY DEF Change
<1>2. changed' = [of |-> f, before |-> held[f], taken |-> taken, given |-> given, filter |-> g] BY DEF Change
<1>3. held \in [FilterNumbers -> Seq(FilterNumbers)] BY DEF ListsInv
<1>4. held' \in [FilterNumbers -> Seq(FilterNumbers)] /\ held'[f] = list
      /\ \A h \in FilterNumbers : h # f => held'[h] = held[h]
  BY <1>1, <1>3
<1>5. ListsInv'
  <2>1. ASSUME NEW h \in FilterNumbers PROVE \A x \in Held(held'[h]) : x > h
    <3>1. CASE h = f BY <1>4, <3>1
    <3>2. CASE h # f BY <1>4, <3>2 DEF ListsInv
    <3> QED BY <3>1, <3>2
  <2> QED BY <1>4, <2>1 DEF ListsInv
<1>6. ToldRight'
  <2>1. changed'.of = f /\ changed'.before = held[f] /\ changed'.taken = taken /\ changed'.given = given
        /\ changed'.filter = g
    BY <1>2
  <2> QED BY <1>4, <2>1 DEF ToldRight, Apart
<1> QED BY <1>5, <1>6

\* An element is put in the list, from which one may have been taken.
LEMMA AddAtKeeps ==
  ASSUME ListsInv, NEW f \in FilterNumbers, NEW list \in Seq(FilterNumbers), NEW g \in FilterNumbers, g > f,
         \A h \in Held(list) : h > f, NEW position \in Int, -1 <= position, position <= Len(list),
         NEW taken, list = Apart(held[f], taken), AddAt(f, list, g, position, taken)
  PROVE  ListsInv' /\ ToldRight'
<1>1. Len(list) \in Nat /\ Len(list) # -1 OBVIOUS
<1>2. CASE position = -1
  <2>1. Change(f, Append(list, g), taken, Len(list), g) BY <1>2 DEF AddAt
  <2>2. Append(list, g) \in Seq(FilterNumbers) /\ Append(list, g)[Len(list) + 1] = g
        /\ Len(Append(list, g)) = Len(list) + 1 /\ \A j \in 1 .. Len(list) : Append(list, g)[j] = list[j]
    OBVIOUS
  <2>3. \A h \in Held(Append(list, g)) : h > f BY HeldAppend
  <2>4. RemoveAt(Append(list, g), Len(list) + 1) = list
    <3>1. PICK longer \in Seq(FilterNumbers) : longer = Append(list, g) BY <2>2
    <3>2. Len(list) + 1 \in 1 .. Len(longer) /\ Len(longer) - 1 = Len(list) BY <1>1, <2>2, <3>1
    <3>3. PICK last \in 1 .. Len(longer) : last = Len(list) + 1 BY <3>2
    <3>4. PICK r \in Seq(FilterNumbers) :
            /\ r = RemoveAt(longer, last) /\ Len(r) = Len(longer) - 1
            /\ \A j \in 1 .. Len(longer) - 1 : r[j] = IF j < last THEN longer[j] ELSE longer[j + 1]
      BY ApartAt
    <3>5. \A j \in 1 .. Len(r) : j < last /\ j \in 1 .. Len(longer) - 1 /\ j \in 1 .. Len(list)
      BY <1>1, <3>2, <3>3, <3>4
    <3>6. \A j \in 1 .. Len(r) : r[j] = list[j] BY <2>2, <3>1, <3>4, <3>5
    <3>7. r = list BY <3>2, <3>4, <3>6, SeqEqual
    <3> QED BY <3>1, <3>3, <3>4, <3>7
  <2>5. Apart(Append(list, g), Len(list)) = Apart(held[f], taken) BY <1>1, <2>4 DEF Apart
  <2> QED BY <2>1, <2>2, <2>3, <2>5, ChangeKeeps
<1>3. CASE position # -1
  <2>1. Change(f, InsertAt(list, position + 1, g), taken, position, g) BY <1>3 DEF AddAt
  <2>2. position + 1 \in 1 .. Len(list) + 1 BY <1>1, <1>3
  <2>3. /\ InsertAt(list, position + 1, g) \in Seq(FilterNumbers)
        /\ InsertAt(list, position + 1, g)[position + 1] = g
        /\ RemoveAt(InsertAt(list, position + 1, g), position + 1) = list
        /\ Held(InsertAt(list, position + 1, g)) \subseteq Held(list) \cup {g}
    BY <2>2, PutAt
  <2>4. \A h \in Held(InsertAt(list, position + 1, g)) : h > f BY <2>3
  <2>5. Apart(InsertAt(list, position + 1, g), position) = Apart(held[f], taken) BY <1>3, <2>3 DEF Apart
  <2> QED BY <2>1, <2>3, <2>4, <2>5, ChangeKeeps
<1> QED BY <1>2, <1>3

\* Every call of a filter's keeps its list a list, and tells the caller right.
LEMMA ListsKept ==
  ASSUME ListsInv, ToldRight, [FilterListNext]_listVars
  PROVE  ListsInv' /\ ToldRight'
<1>1. CASE UNCHANGED listVars BY <1>1 DEF listVars, ListsInv, ToldRight
<1>2. ASSUME FilterListNext PROVE ListsInv' /\ ToldRight'
  <2>1. PICK f \in FilterNumbers :
          \/ ClearFilters(f)
          \/ \E position \in -1 .. MaxFilters :
               \/ RemoveFilterAt(f, position)
               \/ \E g \in FilterNumbers : /\ g > f
                                           /\ AddToFilter(f, g, position) \/ ReplaceFilter(f, g, position)
    BY <1>2 DEF FilterListNext
  <2>2. held \in [FilterNumbers -> Seq(FilterNumbers)] BY DEF ListsInv
  <2>3. held[f] \in Seq(FilterNumbers) /\ Len(held[f]) \in Nat /\ \A g \in Held(held[f]) : g > f
    BY <2>2 DEF ListsInv
  <2>4. CASE ClearFilters(f)
    <3>1. held' = [held EXCEPT ![f] = <<>>] /\ changed' = <<>> BY <2>4 DEF ClearFilters
    <3>2. <<>> \in Seq(FilterNumbers) /\ Held(<<>>) = {} BY DEF Held
    <3>3. held' \in [FilterNumbers -> Seq(FilterNumbers)] BY <2>2, <3>1, <3>2
    <3>4. \A h \in FilterNumbers : Held(held'[h]) \subseteq Held(held[h]) BY <2>2, <3>1, <3>2
    <3>5. ListsInv' BY <3>3, <3>4 DEF ListsInv
    <3>6. ToldRight' BY <3>1 DEF ToldRight
    <3> QED BY <3>5, <3>6
  <2>5. ASSUME Unchanged(f) PROVE ListsInv' /\ ToldRight'
    <3>1. Change(f, held[f], -1, -1, f) BY <2>5 DEF Unchanged
    <3> QED BY <2>3, <3>1, ChangeKeeps
  <2>6. ASSUME NEW position \in -1 .. MaxFilters, HasPosition(held[f], position)
        PROVE  /\ position # -1 /\ position \in Int /\ -1 <= position
               /\ RemoveAt(held[f], position + 1) \in Seq(FilterNumbers)
               /\ position <= Len(RemoveAt(held[f], position + 1))
               /\ \A h \in Held(RemoveAt(held[f], position + 1)) : h > f
               /\ RemoveAt(held[f], position + 1) = Apart(held[f], position)
    <3>1. position \in 0 .. Len(held[f]) - 1 BY <2>6 DEF HasPosition
    <3>2. position \in Nat /\ position <= Len(held[f]) - 1 BY <2>3, <3>1
    <3>3. position + 1 \in 1 .. Len(held[f]) BY <2>3, <3>2
    <3>4. /\ RemoveAt(held[f], position + 1) \in Seq(FilterNumbers)
          /\ Len(RemoveAt(held[f], position + 1)) = Len(held[f]) - 1
          /\ Held(RemoveAt(held[f], position + 1)) \subseteq Held(held[f])
      BY <2>3, <3>3, ApartAt
    <3>5. position # -1 /\ -1 <= position BY <3>2
    <3> QED BY <2>3, <3>2, <3>4, <3>5 DEF Apart
  <2>7. ASSUME NEW position \in -1 .. MaxFilters, RemoveFilterAt(f, position) PROVE ListsInv' /\ ToldRight'
    <3>1. CASE HasPosition(held[f], position)
      <4> DEFINE list == RemoveAt(held[f], position + 1)
      <4>1. Change(f, list, position, -1, f) BY <2>7, <3>1 DEF RemoveFilterAt
      <4>2. /\ list \in Seq(FilterNumbers) /\ \A h \in Held(list) : h > f
            /\ list = Apart(held[f], position)
        BY <2>6, <3>1
      <4>3. Apart(list, -1) = list BY DEF Apart
      <4> HIDE DEF list
      <4> QED BY <4>1, <4>2, <4>3, ChangeKeeps
    <3>2. CASE ~HasPosition(held[f], position)
      <4>1. Unchanged(f) BY <2>7, <3>2 DEF RemoveFilterAt
      <4> QED BY <2>5, <4>1
    <3> QED BY <3>1, <3>2
  <2>8. ASSUME NEW position \in -1 .. MaxFilters, NEW g \in FilterNumbers, g > f, AddToFilter(f, g, position)
        PROVE  ListsInv' /\ ToldRight'
    <3>1. position <= Len(held[f]) /\ AddAt(f, held[f], g, position, -1) BY <2>8 DEF AddToFilter
    <3>2. position \in Int /\ -1 <= position BY <2>8, FilterAssumption
    <3>3. held[f] = Apart(held[f], -1) BY DEF Apart
    <3> QED BY <2>3, <2>8, <3>1, <3>2, <3>3, AddAtKeeps
  <2>9. ASSUME NEW position \in -1 .. MaxFilters, NEW g \in FilterNumbers, g > f, ReplaceFilter(f, g, position)
        PROVE  ListsInv' /\ ToldRight'
    <3>1. CASE position = -1
      <4>1. AddToFilter(f, g, -1) BY <2>9, <3>1 DEF ReplaceFilter
      <4> QED BY <2>8, <2>9, <3>1, <4>1
    <3>2. CASE position # -1 /\ ~HasPosition(held[f], position)
      <4>1. Unchanged(f) BY <2>9, <3>2 DEF ReplaceFilter
      <4> QED BY <2>5, <4>1
    <3>3. CASE position # -1 /\ HasPosition(held[f], position)
      <4> DEFINE list == RemoveAt(held[f], position + 1)
      <4>1. AddAt(f, list, g, position, position) BY <2>9, <3>3 DEF ReplaceFilter
      <4>2. /\ position \in Int /\ -1 <= position
            /\ list \in Seq(FilterNumbers) /\ position <= Len(list) /\ \A h \in Held(list) : h > f
            /\ list = Apart(held[f], position)
        BY <2>6, <3>3
      <4> HIDE DEF list
      <4> QED BY <2>9, <4>1, <4>2, AddAtKeeps
    <3> QED BY <3>1, <3>2, <3>3
  <2> QED BY <2>1, <2>4, <2>7, <2>8, <2>9
<1> QED BY <1>1, <1>2

-----------------------------------------------------------------------------
(* What filters match.                                                         *)
FilteredElements == UNION {Applies[f] : f \in FilterNumbers}

\* What the recursion of MatchedByAny asks for.
Matching(m) == m = [f \in FilterNumbers |-> Applies[f] \cup UNION {m[g] : g \in ToSet(held[f])}]

\* As filters only hold filters with a higher number, there is such a function.
LEMMA MatchingExists ==
  ASSUME ListsInv
  PROVE  \E m : Matching(m)
<1> DEFINE M == [FilterNumbers -> SUBSET FilteredElements]
           next(m) == [f \in FilterNumbers |-> Applies[f] \cup UNION {m[g] : g \in ToSet(held[f])}]
           step == [m \in M |-> next(m)]
           start == [f \in FilterNumbers |-> {}]
           N == Len(Applies)
<1>1. N \in Nat /\ FilterNumbers = 1 .. N BY FilterAssumption
<1>2. \A f \in FilterNumbers : \A g \in ToSet(held[f]) : g \in FilterNumbers /\ g > f
  <2> TAKE f \in FilterNumbers
  <2>1. held[f] \in Seq(FilterNumbers) BY DEF ListsInv
  <2>2. ToSet(held[f]) = Held(held[f]) /\ Held(held[f]) \subseteq FilterNumbers BY <2>1 DEF ToSet, Held
  <2> QED BY <2>2 DEF ListsInv
<1>3. start \in M OBVIOUS
<1>4. ASSUME NEW m \in M PROVE next(m) \in M
  <2>1. ASSUME NEW f \in FilterNumbers
        PROVE  Applies[f] \cup UNION {m[g] : g \in ToSet(held[f])} \in SUBSET FilteredElements
    <3>1. Applies[f] \subseteq FilteredElements BY DEF FilteredElements
    <3>2. \A g \in ToSet(held[f]) : m[g] \subseteq FilteredElements BY <1>2
    <3> QED BY <3>1, <3>2
  <2> QED BY <2>1
<1>5. step \in [M -> M] BY <1>4
<1> HIDE DEF M, start
<1>6. PICK k : Iterates(k, start, step, M) BY <1>3, <1>5, Recursion
<1>7. \A n \in Nat : k[n] \in M /\ k[n + 1] = next(k[n]) BY <1>6 DEF Iterates
<1> DEFINE T == {n \in Nat : \A f \in FilterNumbers : f + n > N => k[n + 1][f] = k[n][f]}
<1>8. 0 \in T BY <1>1
<1>9. ASSUME NEW n \in T PROVE n + 1 \in T
  <2> SUFFICES ASSUME NEW f \in FilterNumbers, f + (n + 1) > N PROVE k[(n + 1) + 1][f] = k[n + 1][f]
    BY <1>9
  <2>1. n \in Nat /\ n + 1 \in Nat BY <1>9
  <2>2. \A g \in ToSet(held[f]) : k[n + 1][g] = k[n][g]
    <3> TAKE g \in ToSet(held[f])
    <3>1. g \in FilterNumbers /\ g > f BY <1>2
    <3>2. g + n > N BY <1>1, <2>1, <3>1
    <3> QED BY <1>9, <3>1, <3>2
  <2>3. k[(n + 1) + 1][f] = Applies[f] \cup UNION {k[n + 1][g] : g \in ToSet(held[f])} BY <1>7, <2>1
  <2>4. k[n + 1][f] = Applies[f] \cup UNION {k[n][g] : g \in ToSet(held[f])} BY <1>7, <2>1
  <2> QED BY <2>2, <2>3, <2>4
<1>10. N \in T
  <2>1. T \subseteq Nat OBVIOUS
  <2> HIDE DEF T
  <2>2. T = Nat BY <1>8, <1>9, <2>1, Induction
  <2> QED BY <1>1, <2>2
<1>11. \A f \in FilterNumbers : k[N + 1][f] = k[N][f] BY <1>1, <1>10
<1>12. k[N] = next(k[N])
  <2>1. k[N] \in M /\ k[N + 1] = next(k[N]) BY <1>1, <1>7
  <2>2. k[N] = [f \in FilterNumbers |-> k[N][f]] BY <2>1 DEF M
  <2>3. next(k[N]) = [f \in FilterNumbers |-> next(k[N])[f]] OBVIOUS
  <2> QED BY <1>11, <2>1, <2>2, <2>3
<1> QED BY <1>12 DEF Matching

\* MatchedByAny is such a function.
LEMMA MatchedIsMatching ==
  ASSUME ListsInv
  PROVE  Matching(MatchedByAny)
<1>1. \E m : Matching(m) BY MatchingExists
<1>2. MatchedByAny = CHOOSE m : Matching(m) BY DEF MatchedByAny, Matching
<1> HIDE DEF Matching
<1> QED BY <1>1, <1>2, Zenon

\* The filters that lists hold.
LEMMA HeldAreHigher ==
  ASSUME ListsInv, NEW f \in FilterNumbers
  PROVE  \A g \in ToSet(held[f]) : g \in FilterNumbers /\ g > f
<1>1. held[f] \in Seq(FilterNumbers) BY DEF ListsInv
<1>2. ToSet(held[f]) = Held(held[f]) /\ Held(held[f]) \subseteq FilterNumbers BY <1>1 DEF ToSet, Held
<1> QED BY <1>2 DEF ListsInv

\* The filters below one, as steps from it: as many as there are filters are
\* enough, as every step finds filters with higher numbers.
Further(s) == s \cup UNION {ToSet(held[g]) : g \in s}
Steps(i, f) ==
  /\ i[0] = {f}
  /\ \A n \in Nat : i[n] \subseteq FilterNumbers /\ i[n + 1] = Further(i[n])

\* The filters below one are those that steps from it reach.
LEMMA BelowTakesSteps ==
  ASSUME ListsInv, NEW f \in FilterNumbers
  PROVE  \E i : Steps(i, f) /\ Below(f) = i[Len(Applies)]
<1> DEFINE N == Len(Applies)
           S == SUBSET FilterNumbers
           step == [s \in S |-> Further(s)]
           Upto(k) == k = [n \in 0 .. Len(Applies) |->
                             IF n = 0 THEN {f} ELSE k[n - 1] \cup UNION {ToSet(held[g]) : g \in k[n - 1]}]
<1>1. N \in Nat BY FilterAssumption
<1>2. {f} \in S OBVIOUS
<1>3. step \in [S -> S]
  <2>1. ASSUME NEW s \in S PROVE Further(s) \in S
    <3>1. \A g \in s : ToSet(held[g]) \subseteq FilterNumbers BY HeldAreHigher
    <3> QED BY <3>1 DEF Further
  <2> QED BY <2>1
<1>4. PICK i : Iterates(i, {f}, step, S) BY <1>2, <1>3, Recursion
<1>5. i[0] = {f} /\ \A n \in Nat : i[n] \in S /\ i[n + 1] = Further(i[n])
  BY <1>4 DEF Iterates
<1>6. Steps(i, f) BY <1>5 DEF Steps
<1> DEFINE w == [n \in 0 .. N |-> i[n]]
<1>7. Upto(w)
  <2>1. ASSUME NEW n \in 0 .. N
        PROVE  w[n] = IF n = 0 THEN {f} ELSE w[n - 1] \cup UNION {ToSet(held[g]) : g \in w[n - 1]}
    <3>1. CASE n = 0 BY <1>5, <2>1, <3>1
    <3>2. CASE n # 0
      <4>1. n - 1 \in Nat /\ n - 1 \in 0 .. N /\ (n - 1) + 1 = n BY <1>1, <2>1, <3>2
      <4>2. i[n] = Further(i[n - 1]) BY <1>5, <4>1
      <4>3. w[n] = i[n] /\ w[n - 1] = i[n - 1] BY <2>1, <4>1
      <4> QED BY <3>2, <4>2, <4>3 DEF Further
    <3> QED BY <3>1, <3>2
  <2> QED BY <2>1
<1> DEFINE k == CHOOSE h : Upto(h)
<1>8. Below(f) = k[N] BY DEF Below
<1>9. Upto(k)
  <2> HIDE DEF Upto, w
  <2> QED BY <1>7, Zenon
<1> HIDE DEF k
<1> DEFINE T == {n \in Nat : n <= N => k[n] = i[n]}
<1>10. 0 \in T BY <1>1, <1>5, <1>9
<1>11. ASSUME NEW n \in T PROVE n + 1 \in T
  <2> SUFFICES ASSUME n + 1 <= N PROVE k[n + 1] = i[n + 1] BY <1>11
  <2>1. n \in Nat /\ n + 1 \in 0 .. N /\ n + 1 # 0 /\ (n + 1) - 1 = n /\ n <= N BY <1>1, <1>11
  <2>2. k[n + 1] = k[n] \cup UNION {ToSet(held[g]) : g \in k[n]} BY <1>9, <2>1
  <2>3. k[n] = i[n] BY <1>11, <2>1
  <2> QED BY <1>5, <2>1, <2>2, <2>3 DEF Further
<1>12. N \in T
  <2>1. T \subseteq Nat OBVIOUS
  <2> HIDE DEF T
  <2>2. T = Nat BY <1>10, <1>11, <2>1, Induction
  <2> QED BY <1>1, <2>2
<1> QED BY <1>1, <1>6, <1>8, <1>12

\* What a filter below holds is below.
LEMMA BelowIsClosed ==
  ASSUME ListsInv, NEW f \in FilterNumbers, NEW i, Steps(i, f)
  PROVE  \A g \in i[Len(Applies)] : ToSet(held[g]) \subseteq i[Len(Applies)]
<1> DEFINE N == Len(Applies)
           T == {n \in Nat : \A h \in i[n + 1] : h \in i[n] \/ h > f + n}
<1>1. N \in Nat /\ FilterNumbers = 1 .. N BY FilterAssumption
<1>2. \A n \in Nat : i[n] \subseteq FilterNumbers /\ i[n + 1] = Further(i[n]) BY DEF Steps
<1>3. 0 \in T
  <2>1. i[0] = {f} /\ i[0 + 1] = {f} \cup ToSet(held[f])
    <3>1. i[0] = {f} BY DEF Steps
    <3>2. i[0 + 1] = Further(i[0])
      <4>1. 0 \in Nat OBVIOUS
      <4> HIDE DEF T
      <4> QED BY <1>2, <4>1
    <3>3. Further({f}) = {f} \cup ToSet(held[f])
      <4>1. UNION {ToSet(held[g]) : g \in {f}} = ToSet(held[f]) OBVIOUS
      <4> QED BY <4>1 DEF Further
    <3> QED BY <3>1, <3>2, <3>3
  <2>2. \A h \in ToSet(held[f]) : h > f + 0 BY <1>1, HeldAreHigher
  <2> QED BY <2>1, <2>2
<1>4. ASSUME NEW n \in T PROVE n + 1 \in T
  <2> SUFFICES ASSUME NEW h \in i[(n + 1) + 1], h \notin i[n + 1] PROVE h > f + (n + 1) BY <1>4
  <2>1. n \in Nat /\ n + 1 \in Nat BY <1>4
  <2>2. PICK g \in i[n + 1] : h \in ToSet(held[g]) BY <1>2, <2>1 DEF Further
  <2>3. g \notin i[n] BY <1>2, <2>1, <2>2 DEF Further
  <2>4. g > f + n BY <1>4, <2>2, <2>3
  <2>5. g \in FilterNumbers BY <1>2, <2>1, <2>2
  <2>6. h > g /\ h \in FilterNumbers BY <2>2, <2>5, HeldAreHigher
  <2> QED BY <1>1, <2>1, <2>4, <2>5, <2>6
<1>5. N \in T
  <2>1. T \subseteq Nat OBVIOUS
  <2> HIDE DEF T
  <2>2. T = Nat BY <1>3, <1>4, <2>1, Induction
  <2> QED BY <1>1, <2>2
<1>6. ASSUME NEW g \in i[N], NEW h \in ToSet(held[g]) PROVE h \in i[N]
  <2>1. h \in i[N + 1]
    <3>1. i[N + 1] = Further(i[N]) BY <1>1, <1>2
    <3> QED BY <1>6, <3>1 DEF Further
  <2>2. h \in FilterNumbers
    <3>1. N + 1 \in Nat BY <1>1
    <3>2. i[N + 1] \subseteq FilterNumbers BY <1>2, <3>1
    <3> QED BY <2>1, <3>2
  <2>3. ~(h > f + N) BY <1>1, <2>2
  <2> QED BY <1>5, <2>1, <2>3
<1> QED BY <1>6

\* A filter matches what any filter below it matches by itself.
LEMMA MatchesWhatIsBelow ==
  ASSUME ListsInv, NEW f \in FilterNumbers
  PROVE  MatchedByAny[f] = UNION {Applies[g] : g \in Below(f)}
<1> DEFINE m == MatchedByAny
           N == Len(Applies)
<1>1. N \in Nat /\ FilterNumbers = 1 .. N BY FilterAssumption
<1>2. \A g \in FilterNumbers : m[g] = Applies[g] \cup UNION {m[h] : h \in ToSet(held[g])}
  <2>1. Matching(MatchedByAny) BY MatchedIsMatching
  <2> HIDE DEF m
  <2>2. Matching(m) BY <2>1 DEF m
  <2> QED BY <2>2 DEF Matching
<1> HIDE DEF m
<1>3. PICK i : Steps(i, f) /\ Below(f) = i[N] BY BelowTakesSteps
<1>4. \A n \in Nat : i[n] \subseteq FilterNumbers /\ i[n + 1] = Further(i[n]) BY <1>3 DEF Steps
<1> DEFINE U == UNION {Applies[g] : g \in i[N]}
<1>5. U \subseteq m[f]
  <2> DEFINE T == {n \in Nat : \A g \in i[n] : m[g] \subseteq m[f]}
  <2>1. 0 \in T BY <1>3 DEF Steps
  <2>2. ASSUME NEW n \in T PROVE n + 1 \in T
    <3> SUFFICES ASSUME NEW h \in i[n + 1] PROVE m[h] \subseteq m[f] BY <2>2
    <3>1. CASE h \in i[n] BY <2>2, <3>1
    <3>2. CASE h \notin i[n]
      <4>1. PICK g \in i[n] : h \in ToSet(held[g]) BY <1>4, <2>2, <3>2 DEF Further
      <4>2. g \in FilterNumbers BY <1>4, <2>2, <4>1
      <4>3. m[h] \subseteq m[g] BY <1>2, <4>1, <4>2
      <4> QED BY <2>2, <4>1, <4>3
    <3> QED BY <3>1, <3>2
  <2>3. N \in T
    <3>1. T \subseteq Nat OBVIOUS
    <3> HIDE DEF T
    <3>2. T = Nat BY <2>1, <2>2, <3>1, Induction
    <3> QED BY <1>1, <3>2
  <2>4. \A g \in i[N] : Applies[g] \subseteq m[f] BY <1>1, <1>2, <1>4, <2>3
  <2> QED BY <2>4
<1>6. f \in i[N]
  <2> DEFINE T == {n \in Nat : f \in i[n]}
  <2>1. 0 \in T BY <1>3 DEF Steps
  <2>2. \A n \in T : n + 1 \in T BY <1>4 DEF Further
  <2>3. T \subseteq Nat OBVIOUS
  <2> HIDE DEF T
  <2>4. T = Nat BY <2>1, <2>2, <2>3, Induction
  <2> QED BY <1>1, <2>4 DEF T
<1>7. m[f] \subseteq U
  <2> DEFINE T == {n \in Nat : \A g \in i[N] : g + n > N => m[g] \subseteq U}
  <2>1. 0 \in T
    <3>1. \A g \in i[N] : g \in FilterNumbers BY <1>1, <1>4
    <3>2. \A g \in i[N] : ~(g + 0 > N) BY <1>1, <3>1
    <3> HIDE DEF U
    <3> QED BY <3>2
  <2>2. ASSUME NEW n \in T PROVE n + 1 \in T
    <3> SUFFICES ASSUME NEW g \in i[N], g + (n + 1) > N PROVE m[g] \subseteq U BY <2>2
    <3>1. n \in Nat /\ g \in FilterNumbers BY <1>1, <1>4, <2>2
    <3>2. ASSUME NEW h \in ToSet(held[g]) PROVE m[h] \subseteq U
      <4>1. h > g /\ h \in FilterNumbers BY <3>1, <3>2, HeldAreHigher
      <4>2. h \in i[N] BY <1>3, <3>2, BelowIsClosed
      <4>3. h + n > N BY <1>1, <3>1, <4>1
      <4> QED BY <2>2, <4>2, <4>3
    <3>3. Applies[g] \subseteq U OBVIOUS
    <3> HIDE DEF U
    <3> QED BY <1>2, <3>1, <3>2, <3>3
  <2>3. N \in T
    <3>1. T \subseteq Nat OBVIOUS
    <3> HIDE DEF T
    <3>2. T = Nat BY <2>1, <2>2, <3>1, Induction
    <3> QED BY <1>1, <3>2
  <2>4. f + N > N BY <1>1
  <2> QED BY <1>6, <2>3, <2>4
<1> QED BY <1>3, <1>5, <1>7 DEF m

\* With AND, a filter matches nothing that it, or a filter that it holds and
\* that holds none, does not.
LEMMA MatchesWithAll ==
  ASSUME ListsInv, NEW f \in FilterNumbers, NEW g \in {f} \cup {h \in ToSet(held[f]) : held[h] = <<>>}
  PROVE  MatchedByAll(f) \subseteq Applies[g]
<1>1. CASE g = f BY <1>1 DEF MatchedByAll
<1>2. CASE g # f
  <2>1. g \in ToSet(held[f]) /\ held[g] = <<>> BY <1>2
  <2>2. g \in FilterNumbers BY <2>1, HeldAreHigher
  <2>3. ToSet(held[g]) = {} BY <2>1 DEF ToSet
  <2>4. MatchedByAny[g] = Applies[g]
    <3> DEFINE m == MatchedByAny
    <3>1. Matching(MatchedByAny) BY MatchedIsMatching
    <3> HIDE DEF m
    <3>2. Matching(m) BY <3>1 DEF m
    <3>3. m[g] = Applies[g] \cup UNION {m[h] : h \in ToSet(held[g])} BY <2>2, <3>2 DEF Matching
    <3>4. m[g] = Applies[g] BY <2>3, <3>3
    <3> QED BY <3>4 DEF m
  <2>5. \A o \in MatchedByAll(f) : o \in MatchedByAny[g] BY <2>1 DEF MatchedByAll
  <2> HIDE DEF MatchedByAll
  <2> QED BY <2>4, <2>5
<1> QED BY <1>1, <1>2

\* A filter matches what any filter below it matches by itself, to any depth,
\* with AND nothing that it or a filter without a list does not; and a filter
\* that is added, replaced or removed leaves all others where they are, for any
\* number of filters and lists of any length.
THEOREM FiltersAreAsked == FilterListSpec => []FiltersKeepTheirPlace
<1>1. FilterListInit => ListsInv /\ ToldRight
  <2> SUFFICES ASSUME FilterListInit PROVE ListsInv /\ ToldRight OBVIOUS
  <2>1. held = [f \in FilterNumbers |-> <<>>] /\ changed = <<>> BY DEF FilterListInit
  <2>2. <<>> \in Seq(FilterNumbers) /\ Held(<<>>) = {} BY DEF Held
  <2> QED BY <2>1, <2>2 DEF ListsInv, ToldRight
<1>2. ListsInv /\ ToldRight /\ [FilterListNext]_listVars => ListsInv' /\ ToldRight' BY ListsKept
<1>3. ListsInv /\ ToldRight => FiltersKeepTheirPlace
  <2> SUFFICES ASSUME ListsInv, ToldRight PROVE FiltersKeepTheirPlace OBVIOUS
  <2>1. \A f \in FilterNumbers : MatchedByAny[f] = UNION {Applies[g] : g \in Below(f)}
    BY MatchesWhatIsBelow
  <2>2. \A f \in FilterNumbers : \A g \in {f} \cup {h \in ToSet(held[f]) : held[h] = <<>>} :
          MatchedByAll(f) \subseteq Applies[g]
    BY MatchesWithAll
  <2> HIDE DEF MatchedByAny
  <2> QED BY <2>1, <2>2 DEF FiltersKeepTheirPlace, ToldRight, Apart
<1> QED BY <1>1, <1>2, <1>3, PTL DEF FilterListSpec

-----------------------------------------------------------------------------
(* SnapGraph, for any graph.                                                   *)
SnapIds(V) == [V -> Nat]
SnapGraphs == [nid : UNION {SnapIds(V) : V \in SUBSET SnapVertices}, edges : Seq(DOMAIN SnapEnds),
               MxNId : Nat, MxEId : Nat]
IsSnap(s) == s \in SnapGraphs /\ NoneTwice(s.edges)

\* The edges there are.
LEMMA SnapList ==
  ASSUME IsSnap(snap)
  PROVE  /\ snap.edges \in Seq(DOMAIN SnapEnds) /\ NoneTwice(snap.edges)
         /\ SnapEdges = Held(snap.edges) /\ SnapEdges \subseteq DOMAIN SnapEnds
<1>1. snap.edges \in Seq(DOMAIN SnapEnds) BY DEF IsSnap, SnapGraphs
<1>2. Range(snap.edges) = Held(snap.edges) BY DEF Range, Held
<1>3. Held(snap.edges) \subseteq DOMAIN SnapEnds BY <1>1 DEF Held
<1> QED BY <1>1, <1>2, <1>3 DEF IsSnap, SnapEdges

\* The net has an edge between two nodes when there is one, and always the same.
LEMMA GetsOne ==
  ASSUME IsSnap(snap), NEW a, NEW b, Between(a, b) # {}
  PROVE  GetEI(a, b) \in Between(a, b)
<1> DEFINE s == Among(snap.edges, Between(a, b))
<1>1. s \in Seq(DOMAIN SnapEnds) /\ Held(s) = Held(snap.edges) \cap Between(a, b)
  BY SnapList, AmongHolds
<1>2. Held(s) = Between(a, b)
  <2>1. Between(a, b) \subseteq SnapEdges BY DEF Between
  <2> QED BY <1>1, <2>1, SnapList
<1>3. GetEI(a, b) = Head(s) BY DEF GetEI, ById
<1> HIDE DEF s
<1>4. s # <<>>
  <2>1. Held(<<>>) = {} BY DEF Held
  <2> QED BY <1>2, <2>1
<1>5. Head(s) = s[1] /\ 1 \in DOMAIN s BY <1>1, <1>4
<1> QED BY <1>2, <1>3, <1>5 DEF Held

\* The edges between two vertices leave the one and enter the other.
LEMMA BetweenIs ==
  ASSUME IsSnap(snap), NEW a, NEW b
  PROVE  Between(a, b) = OutOf(a) \cap Into(b)
<1>1. ASSUME NEW e \in SnapEdges PROVE SnapEnds[e] = <<a, b>> <=> SnapEnds[e][1] = a /\ SnapEnds[e][2] = b
  <2>1. SnapEnds[e] \in SnapVertices \X SnapVertices BY SnapAssumption, SnapList
  <2> QED BY <2>1
<1> QED BY <1>1 DEF Between, OutOf, Into

\* First is the net's edge for the ends of an edge.
First(e) == GetEI(SnapEnds[e][1], SnapEnds[e][2])
\* The edge that a lookup finds is between the same vertices.
LEMMA FirstIsParallel ==
  ASSUME IsSnap(snap), NEW e \in SnapEdges
  PROVE  First(e) \in SnapEdges /\ SnapEnds[First(e)] = SnapEnds[e]
<1>1. SnapEnds[e] \in SnapVertices \X SnapVertices BY SnapAssumption, SnapList
<1> DEFINE a == SnapEnds[e][1]
           b == SnapEnds[e][2]
<1>2. SnapEnds[e] = <<a, b>> BY <1>1
<1>3. e \in Between(a, b) BY <1>2 DEF Between
<1>4. GetEI(a, b) \in Between(a, b) BY <1>3, GetsOne
<1> QED BY <1>2, <1>4 DEF Between, First

Iterated(list, S) ==
  /\ list \in Seq(SnapEdges) /\ Len(list) = Cardinality(S) /\ IsFiniteSet(S)
  /\ Held(list) = {First(e) : e \in S}

\* The iterator over incoming edges comes to each once, and so do lookups.
LEMMA IteratesIn ==
  ASSUME IsSnap(snap), NEW v
  PROVE  /\ Iterated(InEdgeIterator(v), Into(v))
         /\ \A a : Len(GetEdges(a, v)) = Cardinality(Between(a, v))
<1> DEFINE in == Among(snap.edges, Into(v))
           s == [i \in DOMAIN in |-> GetEI(SnapEnds[in[i]][1], v)]
<1>1. in \in Seq(DOMAIN SnapEnds) /\ Held(in) = Into(v) /\ NoneTwice(in)
      /\ Len(in) = Cardinality(Into(v)) /\ IsFiniteSet(Into(v))
  <2>1. Held(snap.edges) \cap Into(v) = Into(v) BY SnapList DEF Into
  <2>2. in \in Seq(DOMAIN SnapEnds) /\ Held(in) = Into(v) BY <2>1, SnapList, AmongHolds
  <2>3. NoneTwice(in) BY SnapList, AmongOnce
  <2>4. Len(in) = Cardinality(Into(v)) /\ IsFiniteSet(Into(v)) BY <2>1, SnapList, CountAmong
  <2> QED BY <2>2, <2>3, <2>4
<1>2. s = InEdgeIterator(v) BY DEF InEdgeIterator, ById, Into
<1> HIDE DEF in
<1>3. Len(in) \in Nat /\ DOMAIN in = 1 .. Len(in) BY <1>1
<1>4. ASSUME NEW i \in 1 .. Len(in)
      PROVE  in[i] \in Into(v) /\ s[i] = First(in[i]) /\ s[i] \in SnapEdges /\ SnapEnds[s[i]] = SnapEnds[in[i]]
  <2>1. in[i] \in Into(v) BY <1>1, <1>3 DEF Held
  <2>2. in[i] \in SnapEdges /\ SnapEnds[in[i]][2] = v BY <2>1 DEF Into
  <2>3. s[i] = First(in[i]) BY <1>3, <2>2 DEF First
  <2> QED BY <2>1, <2>2, <2>3, FirstIsParallel
<1>5. s \in Seq(SnapEdges) /\ Len(s) = Len(in) /\ DOMAIN s = 1 .. Len(in)
  <2>1. s \in [1 .. Len(in) -> SnapEdges] BY <1>3, <1>4
  <2> QED BY <1>3, <2>1
<1> HIDE DEF s
<1>6. Held(s) = {First(e) : e \in Into(v)}
  <2>1. \A x \in Held(s) : x \in {First(e) : e \in Into(v)} BY <1>4, <1>5 DEF Held
  <2>2. \A e \in Into(v) : First(e) \in Held(s) BY <1>1, <1>3, <1>4, <1>5 DEF Held
  <2> QED BY <2>1, <2>2
<1>7. ASSUME NEW a PROVE Len(GetEdges(a, v)) = Cardinality(Between(a, v))
  <2>1. \A i \in 1 .. Len(s) : s[i] \in OutOf(a) <=> in[i] \in OutOf(a)
    <3> TAKE i \in 1 .. Len(s)
    <3>1. in[i] \in SnapEdges /\ s[i] \in SnapEdges /\ SnapEnds[s[i]] = SnapEnds[in[i]]
      BY <1>4, <1>5 DEF Into
    <3> QED BY <3>1 DEF OutOf
  <2>2. Len(Among(s, OutOf(a))) = Len(Among(in, OutOf(a))) BY <1>1, <1>5, <2>1, AmongAlike
  <2>3. Len(Among(in, OutOf(a))) = Cardinality(Into(v) \cap OutOf(a)) BY <1>1, CountAmong
  <2>4. Into(v) \cap OutOf(a) = Between(a, v) BY BetweenIs
  <2>5. GetEdges(a, v) = Among(s, OutOf(a)) BY <1>2 DEF GetEdges, OutOf
  <2> QED BY <2>2, <2>3, <2>4, <2>5
<1> QED BY <1>1, <1>2, <1>5, <1>6, <1>7 DEF Iterated

\* So does the iterator over outgoing edges.
LEMMA IteratesOut ==
  ASSUME IsSnap(snap), NEW v
  PROVE  Iterated(OutEdgeIterator(v), OutOf(v))
<1> DEFINE out == Among(snap.edges, OutOf(v))
           s == [i \in DOMAIN out |-> GetEI(v, SnapEnds[out[i]][2])]
<1>1. out \in Seq(DOMAIN SnapEnds) /\ Held(out) = OutOf(v) /\ NoneTwice(out)
      /\ Len(out) = Cardinality(OutOf(v)) /\ IsFiniteSet(OutOf(v))
  <2>1. Held(snap.edges) \cap OutOf(v) = OutOf(v) BY SnapList DEF OutOf
  <2>2. out \in Seq(DOMAIN SnapEnds) /\ Held(out) = OutOf(v) BY <2>1, SnapList, AmongHolds
  <2>3. NoneTwice(out) BY SnapList, AmongOnce
  <2>4. Len(out) = Cardinality(OutOf(v)) /\ IsFiniteSet(OutOf(v)) BY <2>1, SnapList, CountAmong
  <2> QED BY <2>2, <2>3, <2>4
<1>2. s = OutEdgeIterator(v) BY DEF OutEdgeIterator, ById, OutOf
<1> HIDE DEF out
<1>3. Len(out) \in Nat /\ DOMAIN out = 1 .. Len(out) BY <1>1
<1>4. ASSUME NEW i \in 1 .. Len(out)
      PROVE  out[i] \in OutOf(v) /\ s[i] = First(out[i]) /\ s[i] \in SnapEdges
  <2>1. out[i] \in OutOf(v) BY <1>1, <1>3 DEF Held
  <2>2. out[i] \in SnapEdges /\ SnapEnds[out[i]][1] = v BY <2>1 DEF OutOf
  <2>3. s[i] = First(out[i]) BY <1>3, <2>2 DEF First
  <2> QED BY <2>1, <2>2, <2>3, FirstIsParallel
<1>5. s \in Seq(SnapEdges) /\ Len(s) = Len(out) /\ DOMAIN s = 1 .. Len(out)
  <2>1. s \in [1 .. Len(out) -> SnapEdges] BY <1>3, <1>4
  <2> QED BY <1>3, <2>1
<1> HIDE DEF s
<1>6. Held(s) = {First(e) : e \in OutOf(v)}
  <2>1. \A x \in Held(s) : x \in {First(e) : e \in OutOf(v)} BY <1>4, <1>5 DEF Held
  <2>2. \A e \in OutOf(v) : First(e) \in Held(s) BY <1>1, <1>3, <1>4, <1>5 DEF Held
  <2> QED BY <2>1, <2>2
<1> QED BY <1>1, <1>2, <1>5, <1>6 DEF Iterated


\* getEdges yields the net's edge for each edge from one node to the other.
LEMMA GetsEach ==
  ASSUME IsSnap(snap), NEW a, NEW b
  PROVE  /\ GetEdges(a, b) \in Seq(SnapEdges) /\ Len(GetEdges(a, b)) = Cardinality(Between(a, b))
         /\ \A i \in 1 .. Len(GetEdges(a, b)) : GetEdges(a, b)[i] = GetEI(a, b)
         /\ IsFiniteSet(Between(a, b)) /\ Between(a, b) \subseteq SnapEdges
         /\ \A e \in Between(a, b) : First(e) = GetEI(a, b)
<1>1. Iterated(InEdgeIterator(b), Into(b)) /\ Len(GetEdges(a, b)) = Cardinality(Between(a, b)) BY IteratesIn
<1>2. InEdgeIterator(b) \in Seq(SnapEdges) /\ Held(InEdgeIterator(b)) = {First(e) : e \in Into(b)}
      /\ IsFiniteSet(Into(b))
  BY <1>1 DEF Iterated
<1>3. GetEdges(a, b) = Among(InEdgeIterator(b), OutOf(a)) BY DEF GetEdges, OutOf
<1>4. GetEdges(a, b) \in Seq(SnapEdges) /\ Held(GetEdges(a, b)) = Held(InEdgeIterator(b)) \cap OutOf(a)
  BY <1>2, <1>3, AmongHolds
<1>5. Between(a, b) = OutOf(a) \cap Into(b) BY BetweenIs
<1>6. \A e \in Between(a, b) : First(e) = GetEI(a, b) BY <1>5 DEF First, OutOf, Into
<1>7. ASSUME NEW x \in Held(GetEdges(a, b)) PROVE x = GetEI(a, b)
  <2>1. PICK e \in Into(b) : x = First(e) BY <1>2, <1>4, <1>7
  <2>2. e \in SnapEdges /\ x \in OutOf(a) BY <1>4, <1>7, <2>1 DEF Into
  <2>3. SnapEnds[x] = SnapEnds[e] BY <2>1, <2>2, FirstIsParallel
  <2>4. e \in OutOf(a) BY <2>2, <2>3 DEF OutOf
  <2> QED BY <1>5, <1>6, <2>1, <2>4
<1>8. \A i \in 1 .. Len(GetEdges(a, b)) : GetEdges(a, b)[i] \in Held(GetEdges(a, b)) BY <1>4 DEF Held
<1>9. IsFiniteSet(Between(a, b)) /\ Between(a, b) \subseteq SnapEdges
  <2>1. Between(a, b) \in SUBSET Into(b) BY <1>5
  <2> QED BY <1>2, <2>1, FS_Subset DEF Between
<1> QED BY <1>1, <1>4, <1>6, <1>7, <1>8, <1>9

\* The part of a list before its first repetition.
Again(s) == {j \in DOMAIN s : s[j] \in {s[i] : i \in 1 .. j - 1}}
Once(s) == IF Again(s) = {} THEN s ELSE SubSeq(s, 1, Min(Again(s)) - 1)

\* That part has nothing twice, and is the whole list where nothing is repeated.
LEMMA CutOff ==
  ASSUME NEW A, NEW s \in Seq(A)
  PROVE  /\ Once(s) \in Seq(A) /\ NoneTwice(Once(s)) /\ Held(Once(s)) \subseteq Held(s)
         /\ Again(s) = {} => Once(s) = s
         /\ s # <<>> => Len(Once(s)) > 0
         /\ Again(s) # {} => \E j \in Again(s) :
              Len(Once(s)) = j - 1 /\ \A i \in 1 .. j - 1 : Once(s)[i] = s[i]
<1>1. Len(s) \in Nat /\ DOMAIN s = 1 .. Len(s) OBVIOUS
<1>2. Again(s) \subseteq Nat /\ \A j \in Again(s) : j >= 2 /\ j <= Len(s)
  <2>1. ASSUME NEW j \in Again(s) PROVE j \in Nat /\ j >= 2 /\ j <= Len(s)
    <3>1. j \in 1 .. Len(s) /\ \E i \in 1 .. j - 1 : s[j] = s[i] BY <1>1, <2>1 DEF Again
    <3> QED BY <1>1, <3>1
  <2> QED BY <2>1
<1>3. CASE Again(s) = {}
  <2>1. Once(s) = s BY <1>3 DEF Once
  <2>2. NoneTwice(s)
    <3> SUFFICES ASSUME NEW i \in 1 .. Len(s), NEW j \in 1 .. Len(s), s[i] = s[j], i # j PROVE FALSE
      BY <1>1 DEF NoneTwice
    <3>1. CASE i < j
      <4>1. i \in 1 .. j - 1 BY <1>1, <3>1
      <4>2. j \in Again(s) BY <1>1, <4>1 DEF Again
      <4> QED BY <1>3, <4>2
    <3>2. CASE j < i
      <4>1. j \in 1 .. i - 1 BY <1>1, <3>2
      <4>2. i \in Again(s) BY <1>1, <4>1 DEF Again
      <4> QED BY <1>3, <4>2
    <3> QED BY <1>1, <3>1, <3>2
  <2> QED BY <1>1, <1>3, <2>1, <2>2
<1>4. CASE Again(s) # {}
  <2>1. PICK j \in Again(s) : \A m \in Again(s) : j <= m BY <1>2, <1>4, LeastNatural
  <2>2. Min(Again(s)) = j
    <3>1. Min(Again(s)) \in Again(s) /\ \A m \in Again(s) : Min(Again(s)) <= m BY <2>1 DEF Min
    <3>2. j <= Min(Again(s)) /\ Min(Again(s)) <= j /\ Min(Again(s)) \in Nat /\ j \in Nat BY <1>2, <2>1, <3>1
    <3> QED BY <3>2
  <2>3. j \in Nat /\ 2 <= j /\ j <= Len(s) BY <1>2, <2>1
  <2>4. PICK c \in Seq(A) : /\ c = Once(s) /\ Len(c) = j - 1
                            /\ \A i \in 1 .. j - 1 : c[i] = s[i]
    <3>1. SubSeq(s, 1, j - 1) \in Seq(A) BY <1>1, <2>3
    <3>2. Len(SubSeq(s, 1, j - 1)) = j - 1 BY <1>1, <2>3
    <3>3. \A i \in 1 .. j - 1 : SubSeq(s, 1, j - 1)[i] = s[i] BY <1>1, <2>3
    <3>4. Once(s) = SubSeq(s, 1, j - 1) BY <1>4, <2>2 DEF Once
    <3> QED BY <3>1, <3>2, <3>3, <3>4
  <2>5. DOMAIN c = 1 .. j - 1 BY <2>3, <2>4
  <2>6. Held(c) \subseteq Held(s)
    <3>1. ASSUME NEW x \in Held(c) PROVE x \in Held(s)
      <4>1. PICK i \in 1 .. j - 1 : x = c[i] BY <2>5, <3>1 DEF Held
      <4>2. i \in DOMAIN s /\ x = s[i] BY <1>1, <2>3, <2>4, <4>1
      <4> QED BY <4>2 DEF Held
    <3> QED BY <3>1
  <2>7. NoneTwice(c)
    <3> SUFFICES ASSUME NEW i \in 1 .. j - 1, NEW h \in 1 .. j - 1, c[i] = c[h], i < h PROVE FALSE
      BY <2>3, <2>5 DEF NoneTwice
    <3>1. s[i] = s[h] BY <2>4
    <3>2. i \in 1 .. h - 1 /\ h \in DOMAIN s BY <1>1, <2>3
    <3>3. h \in Again(s) BY <3>1, <3>2 DEF Again
    <3>4. j <= h BY <2>1, <3>3
    <3> QED BY <2>3, <3>4
  <2>8. Len(c) > 0 BY <2>3, <2>4
  <2> QED BY <1>4, <2>1, <2>4, <2>6, <2>7, <2>8
<1> QED BY <1>3, <1>4

\* What removeEdges takes away, and whether it throws.
BothWays(a, b) == Between(a, b) \cup Between(b, a)
FoundFor(a, b) == GetEdges(a, b) \o GetEdges(b, a)
TakenAway(a, b) == Once(FoundFor(a, b))

\* What a removal finds: as often as there are edges, the first of them.
LEMMA FoundBothWays ==
  ASSUME IsSnap(snap), NEW a, NEW b
  PROVE  LET s == FoundFor(a, b)
             n == Cardinality(Between(a, b))
             m == Cardinality(Between(b, a))
         IN /\ n \in Nat /\ m \in Nat /\ s \in Seq(SnapEdges) /\ Len(s) = n + m
            /\ \A i \in 1 .. n : s[i] = GetEI(a, b)
            /\ \A i \in n + 1 .. n + m : s[i] = GetEI(b, a)
            /\ Held(s) = {First(e) : e \in BothWays(a, b)}
            /\ IsFiniteSet(BothWays(a, b)) /\ BothWays(a, b) \subseteq SnapEdges
            /\ Held(s) \subseteq BothWays(a, b)
<1> DEFINE p == GetEdges(a, b)
           q == GetEdges(b, a)
           n == Cardinality(Between(a, b))
           m == Cardinality(Between(b, a))
           s == FoundFor(a, b)
<1>1. /\ p \in Seq(SnapEdges) /\ Len(p) = n /\ \A i \in 1 .. Len(p) : p[i] = GetEI(a, b)
      /\ IsFiniteSet(Between(a, b)) /\ Between(a, b) \subseteq SnapEdges
      /\ \A e \in Between(a, b) : First(e) = GetEI(a, b)
  BY GetsEach
<1>2. /\ q \in Seq(SnapEdges) /\ Len(q) = m /\ \A i \in 1 .. Len(q) : q[i] = GetEI(b, a)
      /\ IsFiniteSet(Between(b, a)) /\ Between(b, a) \subseteq SnapEdges
      /\ \A e \in Between(b, a) : First(e) = GetEI(b, a)
  BY GetsEach
<1>3. s = p \o q BY DEF FoundFor
<1> HIDE DEF p, q, s
<1>4. n \in Nat /\ m \in Nat /\ (n > 0 <=> Between(a, b) # {}) /\ (m > 0 <=> Between(b, a) # {})
  BY <1>1, <1>2, Several
<1> HIDE DEF n, m
<1>5. s \in Seq(SnapEdges) /\ Len(s) = n + m
      /\ \A i \in 1 .. Len(p) + Len(q) : s[i] = IF i <= Len(p) THEN p[i] ELSE q[i - Len(p)]
  BY <1>1, <1>2, <1>3, ConcatProperties
<1>6. ASSUME NEW i \in 1 .. n PROVE s[i] = GetEI(a, b)
  <2>1. i \in 1 .. Len(p) + Len(q) /\ i <= Len(p) /\ i \in 1 .. Len(p) BY <1>1, <1>2, <1>4, <1>6
  <2> QED BY <1>1, <1>5, <2>1
<1>7. ASSUME NEW i \in n + 1 .. n + m PROVE s[i] = GetEI(b, a)
  <2>1. i \in 1 .. Len(p) + Len(q) /\ ~(i <= Len(p)) /\ i - Len(p) \in 1 .. Len(q) BY <1>1, <1>2, <1>4, <1>7
  <2> QED BY <1>2, <1>5, <2>1
<1>8. ASSUME NEW x \in Held(s) PROVE x \in {First(e) : e \in BothWays(a, b)}
  <2>1. PICK i \in 1 .. n + m : x = s[i] BY <1>4, <1>5, <1>8 DEF Held
  <2>2. CASE i \in 1 .. n
    <3>1. Between(a, b) # {} BY <1>4, <2>2
    <3> QED BY <1>1, <1>6, <2>1, <2>2, <3>1 DEF BothWays
  <2>3. CASE i \in n + 1 .. n + m
    <3>1. Between(b, a) # {} BY <1>4, <2>3
    <3> QED BY <1>2, <1>7, <2>1, <2>3, <3>1 DEF BothWays
  <2> QED BY <1>4, <2>2, <2>3
<1>9. ASSUME NEW e \in BothWays(a, b) PROVE First(e) \in Held(s)
  <2>1. DOMAIN s = 1 .. n + m BY <1>4, <1>5
  <2>2. CASE e \in Between(a, b)
    <3>1. 1 \in 1 .. n /\ 1 \in 1 .. n + m BY <1>4, <2>2
    <3>2. s[1] = GetEI(a, b) BY <1>6, <3>1
    <3> QED BY <1>1, <2>1, <2>2, <3>1, <3>2 DEF Held
  <2>3. CASE e \in Between(b, a)
    <3>1. n + 1 \in n + 1 .. n + m /\ n + 1 \in 1 .. n + m BY <1>4, <2>3
    <3>2. s[n + 1] = GetEI(b, a) BY <1>7, <3>1
    <3> QED BY <1>2, <2>1, <2>3, <3>1, <3>2 DEF Held
  <2> QED BY <2>2, <2>3 DEF BothWays
<1>10. IsFiniteSet(BothWays(a, b)) /\ BothWays(a, b) \subseteq SnapEdges BY <1>1, <1>2, FS_Union DEF BothWays
<1>11. ASSUME NEW e \in BothWays(a, b) PROVE First(e) \in BothWays(a, b)
  <2>1. e \in SnapEdges BY <1>10
  <2>2. First(e) \in SnapEdges /\ SnapEnds[First(e)] = SnapEnds[e] BY <2>1, FirstIsParallel
  <2> QED BY <2>2 DEF BothWays, Between
<1> QED BY <1>4, <1>5, <1>6, <1>7, <1>8, <1>9, <1>10, <1>11 DEF n, m, s

\* It counts what it takes away.
LEMMA TakesAway ==
  ASSUME IsSnap(snap), NEW a, NEW b
  PROVE  LET s      == FoundFor(a, b)
             before == BothWays(a, b)
             left   == before \ Held(Once(s))
             count  == Len(Once(s))
         IN /\ count = Cardinality(before) - Cardinality(left)
            /\ left # {} <=> Parallel(before)
            /\ Again(s) # {} <=> left # {} \/ (a = b /\ count > 0)
<1> DEFINE s == FoundFor(a, b)
           n == Cardinality(Between(a, b))
           m == Cardinality(Between(b, a))
           before == BothWays(a, b)
           left == before \ Held(Once(s))
           count == Len(Once(s))
<1>1. /\ n \in Nat /\ m \in Nat /\ s \in Seq(SnapEdges) /\ Len(s) = n + m
      /\ \A i \in 1 .. n : s[i] = GetEI(a, b)
      /\ \A i \in n + 1 .. n + m : s[i] = GetEI(b, a)
      /\ Held(s) = {First(e) : e \in before}
      /\ IsFiniteSet(before) /\ before \subseteq SnapEdges
      /\ Held(s) \subseteq before
  BY FoundBothWays
<1>2. /\ Once(s) \in Seq(SnapEdges) /\ NoneTwice(Once(s)) /\ Held(Once(s)) \subseteq Held(s)
      /\ Again(s) = {} => Once(s) = s
      /\ s # <<>> => Len(Once(s)) > 0
      /\ Again(s) # {} => \E j \in Again(s) :
           Len(Once(s)) = j - 1 /\ \A i \in 1 .. j - 1 : Once(s)[i] = s[i]
  BY <1>1, CutOff
<1>3. n > 1 <=> \E e, f \in Between(a, b) : e # f
  <2>1. IsFiniteSet(Between(a, b)) BY GetsEach
  <2> QED BY <2>1, Several
<1>4. m > 1 <=> \E e, f \in Between(b, a) : e # f
  <2>1. IsFiniteSet(Between(b, a)) BY GetsEach
  <2> QED BY <2>1, Several
<1>5. before = Between(a, b) \cup Between(b, a) BY DEF BothWays
<1>6. DOMAIN s = 1 .. n + m BY <1>1
<1>7. Again(s) = {j \in 1 .. n + m : \E i \in 1 .. j - 1 : s[j] = s[i]} BY <1>6 DEF Again
<1> HIDE DEF s, n, m, before
<1>8. count = Cardinality(before) - Cardinality(left)
  <2> DEFINE R == Held(Once(s))
             name == [x \in R |-> x]
  <2>1. R \subseteq before BY <1>1, <1>2
  <2>2. name \in [R -> R] /\ (\A x, z \in R : name[x] = name[z] => x = z)
        /\ \A z \in R : \E x \in R : name[x] = z
    OBVIOUS
  <2>3. Cardinality(R) = Len(Once(s)) BY <1>2, <2>2, CountOnce
  <2> HIDE DEF R
  <2>4. before \cap R = R BY <2>1
  <2>5. Cardinality(before \ R) = Cardinality(before) - Cardinality(R)
    <3>1. Cardinality(before \ R) = Cardinality(before) - Cardinality(before \cap R) BY <1>1, FS_Difference
    <3> QED BY <2>4, <3>1
  <2>6. Cardinality(before) \in Nat /\ Cardinality(R) \in Nat
    <3>1. IsFiniteSet(R) BY <1>1, <2>1, FS_Subset
    <3> QED BY <1>1, <3>1, FS_CardinalityType
  <2> QED BY <2>3, <2>5, <2>6 DEF R
<1>9. ASSUME Parallel(before) PROVE left # {}
  <2>1. PICK e \in before, f \in before : e # f /\ SnapEnds[e] = SnapEnds[f] BY <1>9 DEF Parallel
  <2>2. ASSUME NEW x \in Held(s) PROVE First(x) = x
    <3>1. PICK z \in before : x = First(z) BY <1>1, <2>2
    <3>2. SnapEnds[x] = SnapEnds[z] BY <1>1, <3>1, FirstIsParallel
    <3> QED BY <3>1, <3>2 DEF First
  <2>3. First(e) = First(f) BY <2>1 DEF First
  <2>4. ~(e \in Held(s) /\ f \in Held(s)) BY <2>1, <2>2, <2>3
  <2> QED BY <1>2, <2>1, <2>4
<1>10. ASSUME ~Parallel(before)
       PROVE  /\ n <= 1 /\ m <= 1 /\ left = {}
              /\ Again(s) # {} => n = 1 /\ m = 1 /\ s[1] = s[2] /\ count = 1
  <2>1. n <= 1
    <3>1. \A e, f \in Between(a, b) : e = f BY <1>5, <1>10 DEF Parallel, Between
    <3> QED BY <1>1, <1>3, <3>1
  <2>2. m <= 1
    <3>1. \A e, f \in Between(b, a) : e = f BY <1>5, <1>10 DEF Parallel, Between
    <3> QED BY <1>1, <1>4, <3>1
  <2>3. before \subseteq Held(s)
    <3>1. ASSUME NEW e \in before PROVE e \in Held(s)
      <4>1. First(e) \in Held(s) BY <1>1
      <4>2. First(e) \in before /\ SnapEnds[First(e)] = SnapEnds[e] BY <1>1, <4>1, FirstIsParallel
      <4>3. First(e) = e BY <1>10, <4>2 DEF Parallel
      <4> QED BY <4>1, <4>3
    <3> QED BY <3>1
  <2>4. ASSUME Again(s) # {} PROVE n = 1 /\ m = 1 /\ s[1] = s[2] /\ count = 1 /\ Once(s)[1] = s[1]
    <3>1. PICK j \in Again(s) : Len(Once(s)) = j - 1 /\ \A i \in 1 .. j - 1 : Once(s)[i] = s[i]
      BY <1>2, <2>4
    <3>2. j \in 1 .. n + m /\ \E i \in 1 .. j - 1 : s[j] = s[i] BY <1>7, <3>1
    <3>3. PICK i \in 1 .. j - 1 : s[j] = s[i] BY <3>2
    <3>4. n = 1 /\ m = 1 /\ j = 2 /\ i = 1 BY <1>1, <2>1, <2>2, <3>2, <3>3
    <3> QED BY <3>1, <3>3, <3>4
  <2>5. Held(s) \subseteq Held(Once(s))
    <3>1. CASE Again(s) = {} BY <1>2, <3>1
    <3>2. CASE Again(s) # {}
      <4>1. DOMAIN s = 1 .. 2 /\ s[1] = s[2] /\ Once(s)[1] = s[1] /\ Len(Once(s)) = 1 BY <1>6, <2>4, <3>2
      <4>2. \A i \in DOMAIN s : s[i] = s[1] BY <4>1
      <4>3. 1 \in DOMAIN Once(s) BY <1>2, <4>1
      <4> QED BY <4>1, <4>2, <4>3 DEF Held
    <3> QED BY <3>1, <3>2
  <2> QED BY <2>1, <2>2, <2>3, <2>4, <2>5
<1>11. ASSUME Again(s) # {} PROVE left # {} \/ (a = b /\ count > 0)
  <2>1. CASE Parallel(before) BY <1>9, <2>1
  <2>2. CASE ~Parallel(before)
    <3>1. n = 1 /\ m = 1 /\ s[1] = s[2] /\ count = 1 BY <1>10, <1>11, <2>2
    <3>2. s[1] = GetEI(a, b) /\ s[2] = GetEI(b, a) BY <1>1, <3>1
    <3>3. Between(a, b) # {} /\ Between(b, a) # {}
      <4>1. IsFiniteSet(Between(a, b)) /\ IsFiniteSet(Between(b, a)) BY GetsEach
      <4>2. Cardinality({}) = 0 BY FS_EmptySet
      <4> QED BY <3>1, <4>1, <4>2 DEF n, m
    <3>4. GetEI(a, b) \in Between(a, b) /\ GetEI(b, a) \in Between(b, a) BY <3>3, GetsOne
    <3>5. <<a, b>> = <<b, a>> BY <3>1, <3>2, <3>4 DEF Between
    <3>6. a = b BY <3>5
    <3> QED BY <3>1, <3>6
  <2> QED BY <2>1, <2>2
<1>12. ASSUME Again(s) = {} PROVE left = {} /\ ~(a = b /\ count > 0)
  <2>1. \A j \in 1 .. n + m : \A i \in 1 .. j - 1 : s[j] # s[i] BY <1>7, <1>12
  <2>2. n <= 1
    <3> SUFFICES ASSUME n > 1 PROVE FALSE BY <1>1
    <3>1. 1 \in 1 .. n /\ 2 \in 1 .. n /\ 2 \in 1 .. n + m /\ 1 \in 1 .. 2 - 1 BY <1>1
    <3> QED BY <1>1, <2>1, <3>1
  <2>3. m <= 1
    <3> SUFFICES ASSUME m > 1 PROVE FALSE BY <1>1
    <3>1. /\ n + 1 \in n + 1 .. n + m /\ n + 2 \in n + 1 .. n + m
          /\ n + 2 \in 1 .. n + m /\ n + 1 \in 1 .. (n + 2) - 1
      BY <1>1
    <3> QED BY <1>1, <2>1, <3>1
  <2>4. ASSUME a = b, count > 0 PROVE FALSE
    <3>1. n = m BY <2>4 DEF n, m
    <3>2. Once(s) = s /\ Len(s) > 0 BY <1>2, <1>12, <2>4
    <3>3. n = 1 /\ m = 1 BY <1>1, <2>2, <3>1, <3>2
    <3>4. s[1] = s[2]
      <4>1. 1 \in 1 .. n /\ 2 \in n + 1 .. n + m BY <3>3
      <4> QED BY <1>1, <2>4, <4>1
    <3>5. 2 \in 1 .. n + m /\ 1 \in 1 .. 2 - 1 BY <3>3
    <3> QED BY <2>1, <3>4, <3>5
  <2>5. ~Parallel(before)
    <3> SUFFICES ASSUME Parallel(before) PROVE FALSE OBVIOUS
    <3>1. PICK e \in before, f \in before : e # f /\ SnapEnds[e] = SnapEnds[f] BY DEF Parallel
    <3>2. (e \in Between(a, b) /\ f \in Between(a, b)) \/ (e \in Between(b, a) /\ f \in Between(b, a))
      BY <1>1, <1>5, <3>1 DEF Between
    <3>3. n > 1 \/ m > 1 BY <1>3, <1>4, <3>1, <3>2
    <3> QED BY <1>1, <2>2, <2>3, <3>3
  <2>6. left = {} BY <1>10, <2>5
  <2> QED BY <2>4, <2>6
<1>13. left # {} <=> Parallel(before) BY <1>9, <1>10
<1>14. Again(s) # {} <=> left # {} \/ (a = b /\ count > 0) BY <1>11, <1>12
<1> QED BY <1>8, <1>13, <1>14 DEF s, before

-----------------------------------------------------------------------------
\* What keeps a graph one: nodes and edges that are added or removed.
LEMMA NodeAdded ==
  ASSUME NEW s, IsSnap(s), NEW v \in SnapVertices
  PROVE  IsSnap(WithNode(s, v)) /\ WithNode(s, v).edges = s.edges
<1>1. s \in SnapGraphs BY DEF IsSnap
<1>2. PICK V \in SUBSET SnapVertices : s.nid \in SnapIds(V) BY <1>1 DEF SnapGraphs
<1>3. CASE v \in DOMAIN s.nid BY <1>3 DEF WithNode
<1>4. CASE v \notin DOMAIN s.nid
  <2> DEFINE nid == Over(Entry(v, s.MxNId), s.nid)
             t == [s EXCEPT !.nid = nid, !.MxNId = @ + 1]
  <2>1. WithNode(s, v) = t BY <1>4 DEF WithNode
  <2>2. s.MxNId \in Nat /\ s.nid \in [V -> Nat] BY <1>1, <1>2 DEF SnapGraphs, SnapIds
  <2>3. nid \in [V \cup {v} -> Nat]
    <3>1. DOMAIN nid = V \cup {v} BY <2>2 DEF Over, Entry
    <3>2. \A x \in V \cup {v} : nid[x] \in Nat BY <2>2 DEF Over, Entry
    <3>3. nid = [x \in DOMAIN nid |-> nid[x]] BY DEF Over
    <3> QED BY <3>1, <3>2, <3>3
  <2> HIDE DEF nid
  <2>4. nid \in UNION {SnapIds(W) : W \in SUBSET SnapVertices}
    <3>1. V \cup {v} \in SUBSET SnapVertices /\ nid \in SnapIds(V \cup {v}) BY <2>3 DEF SnapIds
    <3> QED BY <3>1
  <2>5. t \in SnapGraphs /\ t.edges = s.edges
    <3> DEFINE ids == UNION {SnapIds(W) : W \in SUBSET SnapVertices}
               seqs == Seq(DOMAIN SnapEnds)
    <3>1. nid \in ids /\ s \in [nid : ids, edges : seqs, MxNId : Nat, MxEId : Nat]
      BY <1>1, <2>4 DEF SnapGraphs
    <3> HIDE DEF ids, seqs
    <3>2. t = [nid |-> nid, edges |-> s.edges, MxNId |-> s.MxNId + 1, MxEId |-> s.MxEId]
      <4>1. t = [s EXCEPT !.nid = nid, !.MxNId = s.MxNId + 1] OBVIOUS
      <4> HIDE DEF t
      <4> QED BY <3>1, <4>1
    <3>3. s.edges \in seqs /\ s.MxNId + 1 \in Nat /\ s.MxEId \in Nat BY <3>1
    <3> HIDE DEF t
    <3>4. t \in [nid : ids, edges : seqs, MxNId : Nat, MxEId : Nat] /\ t.edges = s.edges BY <3>1, <3>2, <3>3
    <3> QED BY <3>4 DEF SnapGraphs, ids, seqs
  <2> QED BY <2>1, <2>5 DEF IsSnap
<1> QED BY <1>3, <1>4

\* An edge is added behind the others.
LEMMA EdgeAdded ==
  ASSUME NEW s, IsSnap(s), NEW e \in DOMAIN SnapEnds, e \notin Held(s.edges)
  PROVE  IsSnap(WithSnapEdge(s, e)) /\ WithSnapEdge(s, e).edges = Append(s.edges, e)
<1> DEFINE a == SnapEnds[e][1]
           b == SnapEnds[e][2]
           t == WithNode(s, a)
           u == WithNode(t, b)
           w == [u EXCEPT !.edges = Append(@, e), !.MxEId = @ + 1]
<1>1. a \in SnapVertices /\ b \in SnapVertices BY SnapAssumption
<1>2. IsSnap(t) /\ t.edges = s.edges BY <1>1, NodeAdded
<1> HIDE DEF a, b, t
<1>3. IsSnap(u) /\ u.edges = s.edges BY <1>1, <1>2, NodeAdded
<1>4. w = WithSnapEdge(s, e) BY DEF WithSnapEdge, a, b, t
<1> HIDE DEF u
<1>5. u \in SnapGraphs /\ NoneTwice(u.edges) /\ u.edges \in Seq(DOMAIN SnapEnds) BY <1>3 DEF IsSnap, SnapGraphs
<1>6. Append(u.edges, e) \in Seq(DOMAIN SnapEnds) BY <1>5
<1>7. NoneTwice(Append(u.edges, e)) BY <1>3, <1>5, OnceAppend
<1>8. w.edges = Append(u.edges, e) /\ w \in SnapGraphs
  <2> DEFINE ids == UNION {SnapIds(W) : W \in SUBSET SnapVertices}
             seqs == Seq(DOMAIN SnapEnds)
             longer == Append(u.edges, e)
  <2>1. longer \in seqs /\ u \in [nid : ids, edges : seqs, MxNId : Nat, MxEId : Nat]
    BY <1>5, <1>6 DEF SnapGraphs
  <2>2. w = [u EXCEPT !.edges = longer, !.MxEId = @ + 1]
    <3> HIDE DEF ids, seqs
    <3> QED BY <2>1
  <2> HIDE DEF ids, seqs, longer, w
  <2>3. w = [nid |-> u.nid, edges |-> longer, MxNId |-> u.MxNId, MxEId |-> u.MxEId + 1] BY <2>1, <2>2
  <2>4. u.nid \in ids /\ u.MxNId \in Nat /\ u.MxEId + 1 \in Nat BY <2>1
  <2>5. w.edges = longer /\ w \in [nid : ids, edges : seqs, MxNId : Nat, MxEId : Nat] BY <2>1, <2>3, <2>4
  <2> QED BY <2>5 DEF SnapGraphs, ids, seqs, longer
<1> QED BY <1>3, <1>4, <1>7, <1>8 DEF IsSnap

\* Edges are taken from the others.
LEMMA EdgesTaken ==
  ASSUME NEW s, IsSnap(s), NEW es
  PROVE  IsSnap(WithoutSnapEdges(s, es)) /\ Held(WithoutSnapEdges(s, es).edges) = Held(s.edges) \ es
<1> DEFINE kept == Among(s.edges, Range(s.edges) \ es)
           t == [s EXCEPT !.edges = kept]
<1>1. s \in SnapGraphs /\ NoneTwice(s.edges) /\ s.edges \in Seq(DOMAIN SnapEnds) BY DEF IsSnap, SnapGraphs
<1>2. Range(s.edges) = Held(s.edges) BY DEF Range, Held
<1>3. kept \in Seq(DOMAIN SnapEnds) /\ Held(kept) = Held(s.edges) \ es
  <2>1. Held(kept) = Held(s.edges) \cap (Range(s.edges) \ es) BY <1>1, AmongHolds
  <2>2. kept \in Seq(DOMAIN SnapEnds) BY <1>1, AmongHolds
  <2> HIDE DEF kept
  <2> QED BY <1>2, <2>1, <2>2
<1>4. NoneTwice(kept) BY <1>1, AmongOnce
<1>5. WithoutSnapEdges(s, es) = t BY DEF WithoutSnapEdges
<1> HIDE DEF kept
<1>6. t.edges = kept /\ t \in SnapGraphs BY <1>1, <1>3 DEF SnapGraphs
<1> QED BY <1>3, <1>4, <1>5, <1>6 DEF IsSnap

\* The empty graph is well formed.
LEMMA NothingYet == IsSnap(EmptySnap)
<1>1. EmptySnap.nid \in [{} -> Nat] BY DEF EmptySnap
<1>2. {} \in SUBSET SnapVertices /\ EmptySnap.nid \in SnapIds({}) BY <1>1 DEF SnapIds
<1>3. EmptySnap.edges = <<>> /\ <<>> \in Seq(DOMAIN SnapEnds) /\ EmptySnap.MxNId = 0 /\ EmptySnap.MxEId = 0
  BY DEF EmptySnap
<1>4. EmptySnap \in SnapGraphs
  <2> DEFINE ids == UNION {SnapIds(V) : V \in SUBSET SnapVertices}
  <2>1. EmptySnap.nid \in ids BY <1>2
  <2> HIDE DEF ids
  <2>2. EmptySnap \in [nid : ids, edges : Seq(DOMAIN SnapEnds), MxNId : Nat, MxEId : Nat]
    BY <1>3, <2>1 DEF EmptySnap
  <2> QED BY <2>2 DEF SnapGraphs, ids
<1>5. NoneTwice(<<>>) BY DEF NoneTwice
<1> QED BY <1>3, <1>4, <1>5 DEF IsSnap

\* A copy, whatever the order in which the edges are added to it.
LEMMA CopyIsSnap ==
  ASSUME NEW edges \in Seq(DOMAIN SnapEnds), NoneTwice(edges)
  PROVE  IsSnap(SnapOf(edges))
<1> DEFINE N == Len(edges)
           G == {s \in SnapGraphs : IsSnap(s)}
           S == {p \in Nat \X G : p[1] <= N => Held(p[2].edges) = {edges[i] : i \in 1 .. p[1]}}
           next(p) == IF p[1] + 1 \in 1 .. N THEN WithSnapEdge(p[2], edges[p[1] + 1]) ELSE p[2]
           step == [p \in S |-> <<p[1] + 1, next(p)>>]
           Upto(k) == k = [n \in 0 .. Len(edges) |->
                             IF n = 0 THEN EmptySnap ELSE WithSnapEdge(k[n - 1], edges[n])]
<1>1. N \in Nat /\ DOMAIN edges = 1 .. N OBVIOUS
<1>2. <<0, EmptySnap>> \in S
  <2>1. EmptySnap \in G BY NothingYet DEF IsSnap
  <2>2. EmptySnap.edges = <<>> /\ Held(<<>>) = {} BY DEF EmptySnap, Held
  <2> HIDE DEF G
  <2>3. {edges[i] : i \in 1 .. 0} = {} OBVIOUS
  <2> QED BY <2>1, <2>2, <2>3
<1>3. step \in [S -> S]
  <2>1. ASSUME NEW p \in S PROVE <<p[1] + 1, next(p)>> \in S
    <3>1. p[1] \in Nat /\ IsSnap(p[2]) /\ (p[1] <= N => Held(p[2].edges) = {edges[i] : i \in 1 .. p[1]})
      BY <2>1
    <3>2. CASE p[1] + 1 \in 1 .. N
      <4> DEFINE e == edges[p[1] + 1]
                 u == WithSnapEdge(p[2], e)
      <4>1. e \in DOMAIN SnapEnds BY <1>1, <3>2
      <4>2. e \notin Held(p[2].edges)
        <5>1. \A i \in 1 .. p[1] : i \in DOMAIN edges /\ p[1] + 1 \in DOMAIN edges /\ i # p[1] + 1
          BY <1>1, <3>1, <3>2
        <5>2. \A i \in 1 .. p[1] : edges[i] # e BY <5>1 DEF NoneTwice
        <5> QED BY <3>1, <3>2, <5>2
      <4> HIDE DEF e
      <4>3. IsSnap(u) /\ u.edges = Append(p[2].edges, e) BY <3>1, <4>1, <4>2, EdgeAdded
      <4> HIDE DEF u
      <4>4. p[2].edges \in Seq(DOMAIN SnapEnds) BY <3>1 DEF IsSnap, SnapGraphs
      <4>5. \A x : x \in Held(u.edges) <=> x \in Held(p[2].edges) \/ x = e BY <4>1, <4>3, <4>4, HeldAppend
      <4>6. Held(u.edges) = {edges[i] : i \in 1 .. p[1] + 1}
        <5>1. Held(p[2].edges) = {edges[i] : i \in 1 .. p[1]} BY <3>1, <3>2
        <5>2. \A x : x \in {edges[i] : i \in 1 .. p[1] + 1} <=> x \in {edges[i] : i \in 1 .. p[1]} \/ x = e
          BY <3>1 DEF e
        <5> QED BY <4>5, <5>1, <5>2
      <4>7. u \in G BY <4>3 DEF IsSnap
      <4>8. next(p) = u BY <3>2 DEF u, e
      <4> HIDE DEF G, next
      <4> QED BY <3>1, <4>6, <4>7, <4>8
    <3>3. CASE p[1] + 1 \notin 1 .. N
      <4>1. next(p) = p[2] /\ p[2] \in G BY <2>1, <3>3
      <4>2. ~(p[1] + 1 <= N) BY <1>1, <3>1, <3>3
      <4> HIDE DEF G, next
      <4> QED BY <3>1, <4>1, <4>2
    <3> QED BY <3>2, <3>3
  <2> HIDE DEF S, next
  <2> QED BY <2>1
<1> HIDE DEF S
<1>4. PICK f : Iterates(f, <<0, EmptySnap>>, step, S) BY <1>2, <1>3, Recursion
<1>5. f[0] = <<0, EmptySnap>> /\ \A n \in Nat : f[n] \in S /\ f[n + 1] = <<f[n][1] + 1, next(f[n])>>
  BY <1>4 DEF Iterates
<1>6. \A n \in Nat : f[n][1] = n
  <2> DEFINE T == {n \in Nat : f[n][1] = n}
  <2>1. 0 \in T BY <1>5
  <2>2. ASSUME NEW n \in T PROVE n + 1 \in T
    <3>1. n \in Nat /\ f[n][1] = n BY <2>2
    <3>2. f[n + 1] = <<f[n][1] + 1, next(f[n])>> BY <1>5, <3>1
    <3> HIDE DEF next
    <3>3. f[n + 1][1] = n + 1 BY <3>1, <3>2
    <3> QED BY <3>1, <3>3
  <2>3. T \subseteq Nat OBVIOUS
  <2> HIDE DEF T
  <2>4. T = Nat BY <2>1, <2>2, <2>3, Induction
  <2> QED BY <2>4 DEF T
<1> DEFINE w == [n \in 0 .. N |-> f[n][2]]
<1>7. Upto(w)
  <2>1. ASSUME NEW n \in 0 .. N
        PROVE  w[n] = IF n = 0 THEN EmptySnap ELSE WithSnapEdge(w[n - 1], edges[n])
    <3>1. CASE n = 0 BY <1>1, <1>5, <3>1
    <3>2. CASE n # 0
      <4>1. n - 1 \in Nat /\ n - 1 \in 0 .. N /\ (n - 1) + 1 = n /\ n \in 1 .. N BY <1>1, <2>1, <3>2
      <4>2. f[n] = <<f[n - 1][1] + 1, next(f[n - 1])>> /\ f[n - 1][1] = n - 1 BY <1>5, <1>6, <4>1
      <4>3. f[n][2] = WithSnapEdge(f[n - 1][2], edges[n]) BY <4>1, <4>2
      <4>4. w[n] = f[n][2] /\ w[n - 1] = f[n - 1][2] BY <2>1, <4>1
      <4> HIDE DEF w
      <4> QED BY <3>2, <4>3, <4>4
    <3> QED BY <3>1, <3>2
  <2> QED BY <2>1
<1> DEFINE k == CHOOSE h : Upto(h)
<1>8. SnapOf(edges) = k[N] BY DEF SnapOf
<1>9. Upto(k)
  <2> HIDE DEF Upto, w
  <2> QED BY <1>7, Zenon
<1> HIDE DEF k, next
<1> DEFINE T == {n \in Nat : n <= N => k[n] = f[n][2]}
<1>10. 0 \in T BY <1>1, <1>5, <1>9
<1>11. ASSUME NEW n \in T PROVE n + 1 \in T
  <2> SUFFICES ASSUME n + 1 <= N PROVE k[n + 1] = f[n + 1][2] BY <1>11
  <2>1. n \in Nat /\ n + 1 \in 0 .. N /\ n + 1 # 0 /\ (n + 1) - 1 = n /\ n <= N /\ n \in 0 .. N
    BY <1>1, <1>11
  <2>2. k[n + 1] = WithSnapEdge(k[n], edges[n + 1]) BY <1>9, <2>1
  <2>3. w[n + 1] = WithSnapEdge(w[n], edges[n + 1])
    <3> HIDE DEF w
    <3> QED BY <1>7, <2>1
  <2>4. w[n + 1] = f[n + 1][2] /\ w[n] = f[n][2] BY <2>1
  <2>5. k[n] = f[n][2] BY <1>11, <2>1
  <2> HIDE DEF w
  <2> QED BY <2>2, <2>3, <2>4, <2>5
<1>12. N \in T
  <2>1. T \subseteq Nat OBVIOUS
  <2> HIDE DEF T
  <2>2. T = Nat BY <1>10, <1>11, <2>1, Induction
  <2> QED BY <1>1, <2>2
<1>13. IsSnap(f[N][2])
  <2>1. f[N] \in S BY <1>1, <1>5
  <2> QED BY <2>1 DEF S
<1> QED BY <1>1, <1>8, <1>12, <1>13

-----------------------------------------------------------------------------
\* What the caller of removeEdges sees, if it was the last call.
RemovalRight ==
  removal # NoRemoval =>
    LET left == removal.before \cap SnapEdges
    IN /\ IsFiniteSet(removal.before)
       /\ removal.count = Cardinality(removal.before) - Cardinality(left)
       /\ left # {} <=> Parallel(removal.before)
       /\ removal.thrown <=> left # {} \/ (removal.ends[1] = removal.ends[2] /\ removal.count > 0)

\* Removing the edges between two vertices keeps the graph well formed.
LEMMA RemovesEdges ==
  ASSUME IsSnap(snap), NEW a, NEW b, RemoveSnapEdges(a, b)
  PROVE  IsSnap(snap)' /\ RemovalRight'
<1> DEFINE s == FoundFor(a, b)
           before == BothWays(a, b)
           R == Held(Once(s))
           left == before \ R
           count == Len(Once(s))
<1>1. /\ snap' = WithoutSnapEdges(snap, Range(Once(s)))
      /\ removal' = [ends |-> <<a, b>>, before |-> before, thrown |-> Again(s) # {}, count |-> count]
  BY DEF RemoveSnapEdges, FoundFor, BothWays, Again, Once
<1>2. Range(Once(s)) = R BY DEF Range, Held
<1>3. before \subseteq SnapEdges /\ IsFiniteSet(before) BY FoundBothWays
<1>4. /\ count = Cardinality(before) - Cardinality(left)
      /\ left # {} <=> Parallel(before)
      /\ Again(s) # {} <=> left # {} \/ (a = b /\ count > 0)
  BY TakesAway
<1> HIDE DEF s, before, R, count
<1>5. IsSnap(snap') /\ Held(snap'.edges) = Held(snap.edges) \ R BY <1>1, <1>2, EdgesTaken
<1>6. SnapEdges' = Held(snap'.edges) BY DEF SnapEdges, Range, Held
<1>7. before \cap SnapEdges' = left
  <2>1. SnapEdges = Held(snap.edges) BY SnapList
  <2> QED BY <1>3, <1>5, <1>6, <2>1
<1>8. /\ removal'.before = before /\ removal'.count = count /\ removal'.ends = <<a, b>>
      /\ removal'.thrown = (Again(s) # {})
  BY <1>1
<1>9. removal'.before \cap SnapEdges' = left BY <1>7, <1>8
<1>10. removal'.ends[1] = a /\ removal'.ends[2] = b BY <1>8
<1> HIDE DEF left
<1>11. RemovalRight' BY <1>3, <1>4, <1>8, <1>9, <1>10 DEF RemovalRight, Parallel
<1> QED BY <1>5, <1>11

\* So does every operation.
LEMMA SnapStep ==
  ASSUME IsSnap(snap), RemovalRight, [SnapNext]_snapVars
  PROVE  IsSnap(snap)' /\ RemovalRight'
<1>1. CASE UNCHANGED snapVars BY <1>1 DEF snapVars, RemovalRight, SnapEdges, Parallel
<1>2. ASSUME removal' = NoRemoval PROVE RemovalRight' BY <1>2 DEF RemovalRight
<1>3. ASSUME SnapNext PROVE IsSnap(snap)' /\ RemovalRight'
  <2>1. ASSUME NEW v \in SnapVertices, AddSnapVertex(v) PROVE IsSnap(snap)' /\ RemovalRight'
    <3>1. snap' = WithNode(snap, v) /\ removal' = NoRemoval BY <2>1 DEF AddSnapVertex
    <3>2. IsSnap(WithNode(snap, v)) BY NodeAdded
    <3> QED BY <1>2, <3>1, <3>2
  <2>2. ASSUME NEW v \in SnapVertices, RemoveSnapVertex(v) PROVE IsSnap(snap)' /\ RemovalRight'
    <3> DEFINE nid == Restrict(snap.nid, DOMAIN snap.nid \ {v})
               t == [snap EXCEPT !.nid = nid]
               ids == UNION {SnapIds(V) : V \in SUBSET SnapVertices}
               seqs == Seq(DOMAIN SnapEnds)
    <3>1. snap' = t /\ removal' = NoRemoval BY <2>2 DEF RemoveSnapVertex
    <3>2. snap \in SnapGraphs /\ NoneTwice(snap.edges) BY DEF IsSnap
    <3>3. PICK V \in SUBSET SnapVertices : snap.nid \in [V -> Nat] BY <3>2 DEF SnapGraphs, SnapIds
    <3>4. nid \in [V \ {v} -> Nat] BY <3>3 DEF Restrict
    <3> HIDE DEF nid
    <3>5. nid \in ids
      <4>1. V \ {v} \in SUBSET SnapVertices /\ nid \in SnapIds(V \ {v}) BY <3>4 DEF SnapIds
      <4> QED BY <4>1
    <3>6. snap \in [nid : ids, edges : seqs, MxNId : Nat, MxEId : Nat] BY <3>2 DEF SnapGraphs
    <3> HIDE DEF ids, seqs
    <3>7. t \in [nid : ids, edges : seqs, MxNId : Nat, MxEId : Nat] /\ t.edges = snap.edges BY <3>5, <3>6
    <3>8. t \in SnapGraphs BY <3>7 DEF SnapGraphs, ids, seqs
    <3> HIDE DEF t
    <3>9. IsSnap(t) BY <3>2, <3>7, <3>8 DEF IsSnap
    <3> QED BY <1>2, <3>1, <3>9
  <2>3. ASSUME NEW e \in DOMAIN SnapEnds, AddSnapEdge(e) PROVE IsSnap(snap)' /\ RemovalRight'
    <3>1. e \notin SnapEdges /\ snap' = WithSnapEdge(snap, e) /\ removal' = NoRemoval BY <2>3 DEF AddSnapEdge
    <3>2. e \notin Held(snap.edges) BY <3>1, SnapList
    <3>3. IsSnap(WithSnapEdge(snap, e)) BY <3>2, EdgeAdded
    <3> QED BY <1>2, <3>1, <3>3
  <2>4. ASSUME NEW e \in DOMAIN SnapEnds, RemoveSnapEdge(e) PROVE IsSnap(snap)' /\ RemovalRight'
    <3>1. snap' = WithoutSnapEdges(snap, {e}) /\ removal' = NoRemoval BY <2>4 DEF RemoveSnapEdge
    <3>2. IsSnap(WithoutSnapEdges(snap, {e})) BY EdgesTaken
    <3> QED BY <1>2, <3>1, <3>2
  <2>5. ASSUME CopySnap PROVE IsSnap(snap)' /\ RemovalRight'
    <3>1. PICK edges \in SetToSeqs(SnapEdges) : snap' = SnapOf(edges) /\ removal' = NoRemoval
      BY <2>5 DEF CopySnap
    <3>2. edges \in Seq(DOMAIN SnapEnds) /\ NoneTwice(edges)
      <4> DEFINE D == 1 .. Cardinality(SnapEdges)
      <4>1. edges \in [D -> SnapEdges] /\ \A i, j \in D : i # j => edges[i] # edges[j] BY <3>1 DEF SetToSeqs
      <4>2. SnapEdges \subseteq DOMAIN SnapEnds BY SnapList
      <4>3. Cardinality(SnapEdges) \in Nat
        <5>1. IsFiniteSet(Held(snap.edges) \cap SnapEdges) BY SnapList, CountAmong
        <5>2. Held(snap.edges) \cap SnapEdges = SnapEdges BY SnapList
        <5> QED BY <5>1, <5>2, FS_CardinalityType
      <4>4. edges \in Seq(SnapEdges) BY <4>1, <4>3
      <4>5. NoneTwice(edges) BY <4>1 DEF NoneTwice
      <4> QED BY <4>2, <4>4, <4>5
    <3>3. IsSnap(SnapOf(edges)) BY <3>2, CopyIsSnap
    <3> QED BY <1>2, <3>1, <3>3
  <2> QED BY <1>3, <2>1, <2>2, <2>3, <2>4, <2>5, RemovesEdges DEF SnapNext
<1> QED BY <1>1, <1>3

\* What the iterators of a vertex yield.
LEMMA IteratesBoth ==
  ASSUME IsSnap(snap), NEW v
  PROVE  LET yielded == InOutEdgeIterator(v)
         IN /\ Len(yielded) = Cardinality(OutOf(v)) + Cardinality(Into(v))
            /\ Range(yielded) = OutOf(v) \cup Into(v) <=> ~Parallel(OutOf(v) \cup Into(v))
<1> DEFINE in == InEdgeIterator(v)
           out == OutEdgeIterator(v)
           all == OutOf(v) \cup Into(v)
<1>1. Iterated(in, Into(v)) /\ Iterated(out, OutOf(v)) BY IteratesIn, IteratesOut
<1> HIDE DEF in, out
<1>2. in \o out \in Seq(SnapEdges) /\ Held(in \o out) = Held(in) \cup Held(out) BY <1>1, HeldTogether DEF Iterated
<1>3. Len(in \o out) = Len(in) + Len(out) BY <1>1 DEF Iterated
<1>4. Cardinality(OutOf(v)) \in Nat /\ Cardinality(Into(v)) \in Nat BY <1>1, FS_CardinalityType DEF Iterated
<1>5. Held(in \o out) = {First(e) : e \in all} BY <1>1, <1>2 DEF Iterated
<1>6. all \subseteq SnapEdges BY DEF OutOf, Into
<1>7. \A e \in all : First(e) \in all /\ SnapEnds[First(e)] = SnapEnds[e]
  <2> TAKE e \in all
  <2>1. First(e) \in SnapEdges /\ SnapEnds[First(e)] = SnapEnds[e] BY <1>6, FirstIsParallel
  <2> QED BY <2>1 DEF OutOf, Into
<1>8. ASSUME ~Parallel(all) PROVE {First(e) : e \in all} = all
  <2>1. \A e \in all : First(e) = e BY <1>7, <1>8 DEF Parallel
  <2> HIDE DEF all
  <2> QED BY <2>1
<1>9. ASSUME Parallel(all) PROVE {First(e) : e \in all} # all
  <2>1. PICK e \in all, f \in all : e # f /\ SnapEnds[e] = SnapEnds[f] BY <1>9 DEF Parallel
  <2>2. First(e) = First(f) BY <2>1 DEF First
  <2>3. \A x \in {First(g) : g \in all} : First(x) = x
    <3> TAKE x \in {First(g) : g \in all}
    <3>1. PICK g \in all : x = First(g) OBVIOUS
    <3>2. SnapEnds[x] = SnapEnds[g] BY <1>7, <3>1
    <3> QED BY <3>1, <3>2 DEF First
  <2> HIDE DEF all
  <2> QED BY <2>1, <2>2, <2>3
<1>10. Range(in \o out) = Held(in \o out) BY DEF Range, Held
<1>11. InOutEdgeIterator(v) = in \o out BY DEF InOutEdgeIterator, in, out
<1>12. Len(in \o out) = Cardinality(OutOf(v)) + Cardinality(Into(v)) BY <1>1, <1>3, <1>4 DEF Iterated
<1>13. Range(in \o out) = all <=> ~Parallel(all) BY <1>5, <1>8, <1>9, <1>10
<1> QED BY <1>11, <1>12, <1>13

\* In a snap graph whose edges in question are not parallel, removeEdges leaves
\* none between two vertices and counts them, and the iterator of a vertex yields
\* each of its edges once per end: for graphs of any size, and copies of them.
THEOREM SnapServesSingleEdges == SnapSpec => []SingleEdgesAreServed
<1>1. SnapInit => IsSnap(snap) /\ RemovalRight
  <2> SUFFICES ASSUME SnapInit PROVE IsSnap(snap) /\ RemovalRight OBVIOUS
  <2>1. snap = EmptySnap /\ removal = NoRemoval BY DEF SnapInit
  <2> QED BY <2>1, NothingYet DEF RemovalRight
<1>2. IsSnap(snap) /\ RemovalRight /\ [SnapNext]_snapVars => IsSnap(snap)' /\ RemovalRight' BY SnapStep
<1>3. IsSnap(snap) /\ RemovalRight => SingleEdgesAreServed
  <2> SUFFICES ASSUME IsSnap(snap), RemovalRight PROVE SingleEdgesAreServed OBVIOUS
  <2>1. ASSUME NEW v \in DOMAIN snap.nid, ~Parallel(Into(v) \cup OutOf(v))
        PROVE  LET yielded == InOutEdgeIterator(v)
               IN /\ Len(yielded) = Cardinality(Into(v)) + Cardinality(OutOf(v))
                  /\ Range(yielded) = Into(v) \cup OutOf(v)
    <3> DEFINE yielded == InOutEdgeIterator(v)
    <3>1. Into(v) \cup OutOf(v) = OutOf(v) \cup Into(v) OBVIOUS
    <3>2. /\ Len(yielded) = Cardinality(OutOf(v)) + Cardinality(Into(v))
          /\ Range(yielded) = OutOf(v) \cup Into(v)
      BY <2>1, <3>1, IteratesBoth
    <3>3. Cardinality(OutOf(v)) \in Nat /\ Cardinality(Into(v)) \in Nat
      <4>1. Iterated(InEdgeIterator(v), Into(v)) /\ Iterated(OutEdgeIterator(v), OutOf(v))
        BY IteratesIn, IteratesOut
      <4> QED BY <4>1, FS_CardinalityType DEF Iterated
    <3> HIDE DEF yielded
    <3>4. Len(yielded) = Cardinality(Into(v)) + Cardinality(OutOf(v)) BY <3>2, <3>3
    <3> QED BY <3>1, <3>2, <3>4 DEF yielded
  <2>2. ASSUME removal # NoRemoval, ~Parallel(removal.before)
        PROVE  /\ removal.before \cap SnapEdges = {}
               /\ removal.ends[1] # removal.ends[2] =>
                    ~removal.thrown /\ removal.count = Cardinality(removal.before)
    <3> DEFINE left == removal.before \cap SnapEdges
    <3>1. /\ IsFiniteSet(removal.before)
          /\ removal.count = Cardinality(removal.before) - Cardinality(left)
          /\ left # {} <=> Parallel(removal.before)
          /\ removal.thrown <=> left # {} \/ (removal.ends[1] = removal.ends[2] /\ removal.count > 0)
      BY <2>2 DEF RemovalRight
    <3>2. left = {} BY <2>2, <3>1
    <3>3. Cardinality(removal.before) \in Nat /\ Cardinality({}) = 0 BY <3>1, FS_CardinalityType, FS_EmptySet
    <3>4. removal.count = Cardinality(removal.before)
      <4>1. removal.count = Cardinality(removal.before) - Cardinality({}) BY <3>1, <3>2
      <4> QED BY <3>3, <4>1
    <3> QED BY <3>1, <3>2, <3>4
  <2> QED BY <2>1, <2>2 DEF SingleEdgesAreServed
<1> QED BY <1>1, <1>2, <1>3, PTL DEF SnapSpec

(***************************************************************************)
(* Connected components.  boost's forest: ways up end in one root, which   *)
(* compressing them keeps and linking roots joins.  With the edges done so *)
(* far it joins what they join and nothing that is not connected; ranks    *)
(* count vertices from below, which is why only components of four or more *)
(* show another vertex than their root.  lemon's numbers: each component   *)
(* has one, and as many vertices get it as the component has.              *)
(***************************************************************************)
GraphIds == ToSet(order)

\* Every parent has a greater rank than those below it.
Rising(above, r) ==
  /\ above \in [GraphIds -> GraphIds] /\ r \in [GraphIds -> Nat]
  /\ \A v \in GraphIds : above[v] # v => r[v] < r[above[v]]

\* The way up: where it begins, where it goes on, and that it is all there is.
LEMMA PathUp ==
  ASSUME NEW above \in [GraphIds -> GraphIds], NEW v \in GraphIds
  PROVE  /\ Path(above, v) \subseteq GraphIds /\ v \in Path(above, v)
         /\ \A u \in Path(above, v) : above[u] \in Path(above, v)
         /\ \A us \in SUBSET GraphIds : v \in us /\ (\A w \in us : above[w] \in us) => Path(above, v) \subseteq us
BY DEF Path

\* Of two vertices on a way up, one is above the other.
LEMMA PathIsChain ==
  ASSUME NEW above \in [GraphIds -> GraphIds], NEW v \in GraphIds,
         NEW x \in Path(above, v), NEW q \in Path(above, v)
  PROVE  x \in Path(above, q) \/ q \in Path(above, x)
<1> DEFINE us == {u \in GraphIds : \A w \in Path(above, v) : u \in Path(above, w) \/ w \in Path(above, u)}
<1>1. v \in us BY PathUp
<1>2. ASSUME NEW u \in us PROVE above[u] \in us
  <2>1. above[u] \in GraphIds OBVIOUS
  <2>2. SUFFICES ASSUME NEW w \in Path(above, v) PROVE above[u] \in Path(above, w) \/ w \in Path(above, above[u])
    BY <2>1
  <2>3. w \in GraphIds /\ u \in GraphIds BY PathUp
  <2>4. CASE u \in Path(above, w) BY <2>3, <2>4, PathUp
  <2>5. CASE w \in Path(above, u)
    <3> DEFINE ws == {u} \cup Path(above, above[u])
    <3>1. ws \in SUBSET GraphIds /\ u \in ws /\ \A z \in ws : above[z] \in ws BY <2>1, <2>3, PathUp
    <3>2. Path(above, u) \subseteq ws
      <4> HIDE DEF ws
      <4> QED BY <2>3, <3>1, PathUp
    <3>3. w = u \/ w \in Path(above, above[u]) BY <2>5, <3>2
    <3> QED BY <2>1, <2>3, <3>3, PathUp
  <2>6. u \in Path(above, w) \/ w \in Path(above, u) BY <1>2
  <2> QED BY <2>4, <2>5, <2>6
<1>3. us \in SUBSET GraphIds OBVIOUS
<1>4. Path(above, v) \subseteq us
  <2> HIDE DEF us
  <2> QED BY <1>1, <1>2, <1>3, PathUp
<1> QED BY <1>4

\* Numbers of finitely many have a bound.
LEMMA Bounded ==
  ASSUME NEW S, IsFiniteSet(S), NEW r \in [S -> Nat]
  PROVE  \E b \in Nat : \A x \in S : r[x] <= b
<1> DEFINE T == {s \in SUBSET S : \E b \in Nat : \A x \in s : r[x] <= b}
<1>1. {} \in T OBVIOUS
<1>2. ASSUME NEW s \in SUBSET S, NEW x \in S, s \in T PROVE s \cup {x} \in T
  <2>1. PICK b \in Nat : \A q \in s : r[q] <= b BY <1>2
  <2>2. CASE r[x] <= b BY <2>1, <2>2
  <2>3. CASE ~ (r[x] <= b)
    <3>1. r[x] \in Nat /\ \A q \in s \cup {x} : r[q] <= r[x] BY <2>1, <2>3
    <3> QED BY <3>1
  <2> QED BY <2>2, <2>3
<1>3. S \in T
  <2> HIDE DEF T
  <2> QED BY <1>1, <1>2, FiniteInduction
<1> QED BY <1>3

\* Where ranks rise, every way up ends, in one root.
LEMMA RootOf ==
  ASSUME NEW above, NEW r, Rising(above, r), IsFiniteSet(GraphIds), NEW v \in GraphIds
  PROVE  /\ Root(above, v) \in Path(above, v) /\ above[Root(above, v)] = Root(above, v)
         /\ \A u \in Path(above, v) : above[u] = u => u = Root(above, v)
<1>0. above \in [GraphIds -> GraphIds] /\ r \in [GraphIds -> Nat] BY DEF Rising
<1>1. \E u \in Path(above, v) : above[u] = u
  <2>1. PICK b \in Nat : \A x \in GraphIds : r[x] <= b BY <1>0, Bounded
  <2> DEFINE gaps == {b - r[u] : u \in Path(above, v)}
  <2>2. gaps \subseteq Nat /\ gaps # {} BY <1>0, <2>1, PathUp
  <2>3. PICK g \in gaps : \A m \in gaps : g <= m BY <2>2, LeastNatural
  <2>4. PICK u \in Path(above, v) : g = b - r[u] BY <2>3
  <2>5. u \in GraphIds /\ above[u] \in GraphIds /\ above[u] \in Path(above, v) BY <1>0, PathUp
  <2>6. b - r[u] <= b - r[above[u]] BY <2>3, <2>4, <2>5
  <2>7. ~ (r[u] < r[above[u]]) BY <1>0, <2>5, <2>6
  <2> QED BY <2>5, <2>7 DEF Rising
<1>2. Root(above, v) \in Path(above, v) /\ above[Root(above, v)] = Root(above, v)
  BY <1>1 DEF Root
<1>3. ASSUME NEW x \in Path(above, v), NEW q \in Path(above, v), above[x] = x, above[q] = q PROVE x = q
  <2>1. ASSUME NEW z \in GraphIds, above[z] = z PROVE Path(above, z) \subseteq {z}
    <3>1. {z} \in SUBSET GraphIds /\ z \in {z} /\ \A w \in {z} : above[w] \in {z} BY <2>1
    <3> QED BY <1>0, <3>1, PathUp
  <2>2. x \in GraphIds /\ q \in GraphIds BY <1>0, PathUp
  <2>3. x \in Path(above, q) \/ q \in Path(above, x) BY <1>0, PathIsChain
  <2> QED BY <1>3, <2>1, <2>2, <2>3
<1> QED BY <1>2, <1>3

\* A vertex and the one above it have the same root; a root is its own; and
\* every other has a smaller rank than its root.
LEMMA RootAbove ==
  ASSUME NEW above, NEW r, Rising(above, r), IsFiniteSet(GraphIds), NEW v \in GraphIds
  PROVE  /\ Root(above, v) \in GraphIds /\ above[Root(above, v)] = Root(above, v)
         /\ Root(above, above[v]) = Root(above, v)
         /\ above[v] = v <=> Root(above, v) = v
         /\ v # Root(above, v) => r[v] < r[Root(above, v)]
<1>0. above \in [GraphIds -> GraphIds] /\ r \in [GraphIds -> Nat] BY DEF Rising
<1>1. Root(above, v) \in GraphIds /\ above[Root(above, v)] = Root(above, v) BY <1>0, RootOf, PathUp
<1>2. Root(above, above[v]) = Root(above, v)
  <2>1. above[v] \in GraphIds /\ Path(above, above[v]) \subseteq Path(above, v) BY <1>0, PathUp
  <2>2. Root(above, above[v]) \in Path(above, above[v]) BY <2>1, RootOf
  <2>3. above[Root(above, above[v])] = Root(above, above[v]) BY <2>1, RootOf
  <2> QED BY <2>1, <2>2, <2>3, RootOf
<1>3. above[v] = v <=> Root(above, v) = v BY <1>0, <1>1, RootOf, PathUp
<1>4. v # Root(above, v) => r[v] < r[Root(above, v)]
  <2> DEFINE us == {u \in GraphIds : u = v \/ r[v] < r[u]}
  <2>1. v \in us /\ us \in SUBSET GraphIds OBVIOUS
  <2>2. ASSUME NEW u \in us PROVE above[u] \in us
    <3>1. u \in GraphIds /\ above[u] \in GraphIds /\ r[v] \in Nat /\ r[u] \in Nat /\ r[above[u]] \in Nat BY <1>0
    <3>2. above[u] # u => r[u] < r[above[u]] BY <3>1 DEF Rising
    <3> QED BY <3>1, <3>2
  <2>3. Path(above, v) \subseteq us
    <3> HIDE DEF us
    <3> QED BY <1>0, <2>1, <2>2, PathUp
  <2>4. Root(above, v) \in us BY <2>3, RootOf
  <2> QED BY <2>4
<1> QED BY <1>1, <1>2, <1>3, <1>4

\* What is constant on ways up, and a root of itself, gives the roots.
LEMMA RootsAre ==
  ASSUME NEW above, NEW r, Rising(above, r), IsFiniteSet(GraphIds), NEW f \in [GraphIds -> GraphIds],
         \A u \in GraphIds : f[above[u]] = f[u] /\ (above[u] = u => f[u] = u), NEW v \in GraphIds
  PROVE  Root(above, v) = f[v]
<1>0. above \in [GraphIds -> GraphIds] BY DEF Rising
<1> DEFINE us == {u \in GraphIds : f[u] = f[v]}
<1>1. v \in us /\ us \in SUBSET GraphIds /\ \A u \in us : above[u] \in us BY <1>0
<1>2. Path(above, v) \subseteq us
  <2> HIDE DEF us
  <2> QED BY <1>0, <1>1, PathUp
<1>3. Root(above, v) \in GraphIds /\ f[Root(above, v)] = f[v] BY <1>2, RootOf
<1>4. above[Root(above, v)] = Root(above, v) BY RootOf
<1> QED BY <1>3, <1>4

-----------------------------------------------------------------------------
\* Compressing a way up changes no root, and ranks still rise.
LEMMA Compressing ==
  ASSUME NEW above, NEW r, Rising(above, r), IsFiniteSet(GraphIds), NEW v \in GraphIds
  PROVE  /\ Rising(Compressed(above, v), r)
         /\ \A u \in GraphIds : Root(Compressed(above, v), u) = Root(above, u)
<1> DEFINE c == Compressed(above, v)
           f == [u \in GraphIds |-> Root(above, u)]
<1>0. above \in [GraphIds -> GraphIds] /\ r \in [GraphIds -> Nat] /\ DOMAIN above = GraphIds BY DEF Rising
<1>1. \A u \in GraphIds : c[u] = IF u \in Path(above, v) THEN Root(above, v) ELSE above[u]
  BY <1>0 DEF Compressed
<1>2. ASSUME NEW u \in Path(above, v) PROVE Root(above, u) = Root(above, v)
  <2>1. u \in GraphIds /\ Path(above, u) \subseteq Path(above, v) BY <1>0, PathUp
  <2>2. Root(above, u) \in Path(above, u) /\ above[Root(above, u)] = Root(above, u) BY <2>1, RootOf
  <2> QED BY <2>1, <2>2, RootOf
<1>3. \A u \in GraphIds : c[u] = u <=> above[u] = u
  BY <1>0, <1>1, <1>2, RootAbove, RootOf
<1>4. Rising(c, r)
  <2>1. c \in [GraphIds -> GraphIds]
    <3>1. \A u \in GraphIds : c[u] \in GraphIds BY <1>0, <1>1, RootAbove
    <3>2. c = [u \in GraphIds |-> c[u]] BY <1>0 DEF Compressed
    <3> QED BY <3>1, <3>2
  <2>2. ASSUME NEW u \in GraphIds, c[u] # u PROVE r[u] < r[c[u]]
    <3>1. CASE u \in Path(above, v) BY <1>1, <1>2, <2>2, <3>1, RootAbove
    <3>2. CASE u \notin Path(above, v) BY <1>1, <2>2, <3>2 DEF Rising
    <3> QED BY <3>1, <3>2
  <2> HIDE DEF c
  <2> QED BY <1>0, <2>1, <2>2 DEF Rising
<1>5. f \in [GraphIds -> GraphIds] BY RootAbove
<1>6. ASSUME NEW u \in GraphIds PROVE f[c[u]] = f[u] /\ (c[u] = u => f[u] = u)
  <2>1. c[u] \in GraphIds BY <1>4 DEF Rising
  <2>2. Root(above, c[u]) = Root(above, u)
    <3>1. CASE u \in Path(above, v)
      <4>1. c[u] = Root(above, v) /\ Root(above, u) = Root(above, v) BY <1>1, <1>2, <3>1
      <4> QED BY <4>1, RootAbove
    <3>2. CASE u \notin Path(above, v) BY <1>1, <3>2, RootAbove
    <3> QED BY <3>1, <3>2
  <2>3. c[u] = u => Root(above, u) = u BY <1>3, RootAbove
  <2> QED BY <2>1, <2>2, <2>3
<1>7. ASSUME NEW u \in GraphIds PROVE Root(c, u) = f[u]
  <2> HIDE DEF c, f
  <2> QED BY <1>4, <1>5, <1>6, RootsAre
<1> QED BY <1>4, <1>7

\* below is above with the root child put under the root top; ranks are r before
\* and s after.
PutUnder(above, r, child, top, below, s) ==
  /\ child \in GraphIds /\ top \in GraphIds /\ child # top
  /\ Root(above, child) = child /\ Root(above, top) = top
  /\ below \in [GraphIds -> GraphIds] /\ below[child] = top
  /\ \A u \in GraphIds : u # child => below[u] = above[u]
  /\ s \in [GraphIds -> Nat] /\ \A u \in GraphIds : u # top => s[u] = r[u]
  /\ \/ r[child] < r[top] /\ s[top] = r[top]
     \/ r[child] = r[top] /\ s[top] = r[top] + 1

\* It hands the other what was below itself.
LEMMA LinkingRoots ==
  ASSUME NEW above, NEW r, Rising(above, r), IsFiniteSet(GraphIds),
         NEW child, NEW top, NEW below, NEW s, PutUnder(above, r, child, top, below, s)
  PROVE  /\ Rising(below, s)
         /\ \A u \in GraphIds : Root(below, u) = IF Root(above, u) = child THEN top ELSE Root(above, u)
<1> DEFINE f == [u \in GraphIds |-> IF Root(above, u) = child THEN top ELSE Root(above, u)]
<1>0. above \in [GraphIds -> GraphIds] /\ r \in [GraphIds -> Nat] BY DEF Rising
<1>1. /\ child \in GraphIds /\ top \in GraphIds /\ child # top /\ above[child] = child /\ above[top] = top
      /\ below \in [GraphIds -> GraphIds] /\ below[child] = top
      /\ \A u \in GraphIds : u # child => below[u] = above[u]
      /\ s \in [GraphIds -> Nat] /\ \A u \in GraphIds : u # top => s[u] = r[u]
      /\ s[child] < s[top] /\ r[top] <= s[top]
  BY <1>0, RootAbove DEF PutUnder
<1>2. Rising(below, s)
  <2>1. ASSUME NEW u \in GraphIds, below[u] # u PROVE s[u] < s[below[u]]
    <3>1. CASE u = child BY <1>1, <3>1
    <3>2. CASE u # child
      <4>1. below[u] = above[u] /\ u # top /\ above[u] \in GraphIds BY <1>0, <1>1, <2>1, <3>2
      <4>2. r[u] < r[above[u]] /\ s[u] = r[u] BY <1>1, <2>1, <4>1 DEF Rising
      <4>3. r[above[u]] <= s[above[u]] BY <1>0, <1>1, <4>1
      <4> QED BY <1>0, <1>1, <4>1, <4>2, <4>3
    <3> QED BY <3>1, <3>2
  <2> QED BY <1>1, <2>1 DEF Rising
<1>3. f \in [GraphIds -> GraphIds] BY <1>1, RootAbove
<1>4. ASSUME NEW u \in GraphIds PROVE f[below[u]] = f[u] /\ (below[u] = u => f[u] = u)
  <2>1. CASE u = child
    <3>1. Root(above, child) = child /\ Root(above, top) = top BY <1>1, RootAbove
    <3> QED BY <1>1, <2>1, <3>1
  <2>2. CASE u # child
    <3>1. above[u] \in GraphIds /\ below[u] = above[u] BY <1>0, <1>1, <2>2
    <3>2. Root(above, above[u]) = Root(above, u) /\ (above[u] = u => Root(above, u) = u) BY RootAbove
    <3> QED BY <2>2, <3>1, <3>2
  <2> QED BY <2>1, <2>2
<1>5. ASSUME NEW u \in GraphIds PROVE Root(below, u) = f[u]
  <2> HIDE DEF f
  <2> QED BY ONLY IsFiniteSet(GraphIds), <1>2, <1>3, <1>4, <1>5, RootsAre
<1>6. \A u \in GraphIds : Root(below, u) = IF Root(above, u) = child THEN top ELSE Root(above, u)
  BY <1>5
<1> QED BY <1>2, <1>6

-----------------------------------------------------------------------------
\* Being connected is an equivalence, and edges connect.
LEMMA Connected ==
  ASSUME links \in Seq(GraphIds \X GraphIds),
         NEW u \in GraphIds, NEW v \in GraphIds, NEW w \in GraphIds
  PROVE  /\ v \in ComponentOf(v)
         /\ v \in ComponentOf(u) => u \in ComponentOf(v)
         /\ v \in ComponentOf(u) /\ w \in ComponentOf(v) => w \in ComponentOf(u)
         /\ \A i \in DOMAIN links : links[i][2] \in ComponentOf(links[i][1])
<1>1. v \in ComponentOf(v) BY DEF ComponentOf, GraphIds
<1>2. ASSUME v \in ComponentOf(u) PROVE u \in ComponentOf(v)
  <2>1. SUFFICES ASSUME NEW vs \in SUBSET GraphIds, v \in vs, Separate(vs), u \notin vs PROVE FALSE
    BY DEF ComponentOf, GraphIds
  <2>2. \A i \in DOMAIN links : links[i][1] \in GraphIds /\ links[i][2] \in GraphIds
    <3>1. \A i \in DOMAIN links : links[i] \in GraphIds \X GraphIds OBVIOUS
    <3> QED BY <3>1
  <2>3. Separate(GraphIds \ vs) BY <2>1, <2>2 DEF Separate
  <2>4. v \in GraphIds \ vs BY <1>2, <2>1, <2>3 DEF ComponentOf, GraphIds
  <2> QED BY <2>1, <2>4
<1>3. v \in ComponentOf(u) /\ w \in ComponentOf(v) => w \in ComponentOf(u)
  BY DEF ComponentOf, GraphIds
<1>4. ASSUME NEW i \in DOMAIN links PROVE links[i][2] \in ComponentOf(links[i][1])
  <2>1. links[i] \in GraphIds \X GraphIds OBVIOUS
  <2>2. links[i][2] \in GraphIds BY <2>1
  <2> QED BY <2>2 DEF ComponentOf, GraphIds, Separate
<1> QED BY <1>1, <1>2, <1>3, <1>4

\* The vertices with a root.
Under(above, t) == {v \in GraphIds : Root(above, v) = t}

\* What holds of the forest when the first k edges are done: it joins their ends,
\* and nothing that is not connected; a root's rank is above zero only if it has
\* another vertex below it, and above one only if it has three.
Forest(above, r, k) ==
  /\ Rising(above, r)
  /\ \A v \in GraphIds : Root(above, v) \in ComponentOf(v)
  /\ \A i \in 1 .. k : Root(above, links[i][1]) = Root(above, links[i][2])
  /\ \A v \in GraphIds : Root(above, v) = v =>
       /\ r[v] >= 1 => Cardinality(Under(above, v)) >= 2
       /\ r[v] >= 2 => Cardinality(Under(above, v)) >= 4

ForestInv ==
  /\ order \in Seq(Int) /\ \A i, j \in DOMAIN order : order[i] = order[j] => i = j
  /\ links \in Seq(GraphIds \X GraphIds)
  /\ backend = "boost" =>
       /\ waiting \in Seq(GraphIds \X GraphIds) /\ Len(waiting) <= Len(links)
       /\ \A i \in 1 .. Len(waiting) : waiting[i] = links[Len(links) - Len(waiting) + i]
       /\ Forest(parent, rank, Len(links) - Len(waiting))
  /\ related # <<>> => backend = "lemon" /\ related = [v \in GraphIds |-> NodeMap(v)]

\* The vertices are finitely many.
LEMMA MembersFinite == ASSUME order \in Seq(Int) PROVE IsFiniteSet(GraphIds)
<1> DEFINE f == [i \in 1 .. Len(order) |-> order[i]]
<1>1. DOMAIN order = 1 .. Len(order) OBVIOUS
<1>2. GraphIds = {order[i] : i \in 1 .. Len(order)} BY <1>1 DEF GraphIds, ToSet
<1>3. f \in Surjection(1 .. Len(order), GraphIds) BY <1>2 DEF Surjection
<1> QED BY <1>3, FS_Interval, FS_Surjection

\* find_set changes nothing of this ...
LEMMA ForestCompressed ==
  ASSUME order \in Seq(Int), links \in Seq(GraphIds \X GraphIds),
         NEW above, NEW r, NEW k \in 0 .. Len(links), Forest(above, r, k), NEW x \in GraphIds
  PROVE  /\ Forest(Compressed(above, x), r, k)
         /\ \A u \in GraphIds : Root(Compressed(above, x), u) = Root(above, u)
<1> DEFINE c == Compressed(above, x)
<1>1. IsFiniteSet(GraphIds) /\ Rising(above, r) BY MembersFinite DEF Forest
<1>2. Rising(c, r) /\ \A u \in GraphIds : Root(c, u) = Root(above, u) BY <1>1, Compressing
<1> HIDE DEF c
<1>3. \A v \in GraphIds : Under(c, v) = Under(above, v) BY <1>2 DEF Under
<1>4. \A i \in 1 .. k : links[i][1] \in GraphIds /\ links[i][2] \in GraphIds
  <2>1. \A i \in 1 .. k : links[i] \in GraphIds \X GraphIds OBVIOUS
  <2> QED BY <2>1
<1>5. Forest(c, r, k) BY <1>2, <1>3, <1>4 DEF Forest
<1> QED BY <1>2, <1>5 DEF c

\* ... and linking two roots keeps it if they are connected and ranks are right.
LEMMA ForestLinked ==
  ASSUME order \in Seq(Int), links \in Seq(GraphIds \X GraphIds),
         NEW above, NEW r, NEW k \in 0 .. Len(links), Forest(above, r, k),
         NEW child, NEW top, NEW below, NEW s, PutUnder(above, r, child, top, below, s), child \in ComponentOf(top)
  PROVE  /\ Forest(below, s, k)
         /\ \A u \in GraphIds : Root(below, u) = IF Root(above, u) = child THEN top ELSE Root(above, u)
<1>1. IsFiniteSet(GraphIds) /\ Rising(above, r) /\ r \in [GraphIds -> Nat] BY MembersFinite DEF Forest, Rising
<1>2. /\ child \in GraphIds /\ top \in GraphIds /\ child # top
      /\ Root(above, child) = child /\ Root(above, top) = top
      /\ s \in [GraphIds -> Nat] /\ \A u \in GraphIds : u # top => s[u] = r[u]
      /\ s[top] = r[top] \/ (r[child] = r[top] /\ s[top] = r[top] + 1)
  BY DEF PutUnder
<1>4. Rising(below, s) /\ \A u \in GraphIds : Root(below, u) = IF Root(above, u) = child THEN top ELSE Root(above, u)
  BY <1>1, LinkingRoots
<1>5. ASSUME NEW v \in GraphIds PROVE Root(below, v) \in ComponentOf(v)
  <2>1. Root(above, v) \in ComponentOf(v) /\ Root(above, v) \in GraphIds BY <1>1, RootAbove DEF Forest
  <2>2. top \in ComponentOf(child) BY <1>2, Connected
  <2>3. Root(above, v) = child => top \in ComponentOf(v) BY <1>2, <2>1, <2>2, Connected
  <2> QED BY <1>2, <1>4, <2>1, <2>3
<1>6. ASSUME NEW i \in 1 .. k PROVE Root(below, links[i][1]) = Root(below, links[i][2])
  <2>1. links[i] \in GraphIds \X GraphIds OBVIOUS
  <2>2. links[i][1] \in GraphIds /\ links[i][2] \in GraphIds BY <2>1
  <2>3. Root(above, links[i][1]) = Root(above, links[i][2]) BY DEF Forest
  <2> QED BY <1>4, <2>2, <2>3
<1>7. ASSUME NEW v \in GraphIds, Root(below, v) = v
      PROVE  /\ s[v] >= 1 => Cardinality(Under(below, v)) >= 2
             /\ s[v] >= 2 => Cardinality(Under(below, v)) >= 4
  <2>1. v # child /\ Root(above, v) = v BY <1>2, <1>4, <1>7
  <2>2. CASE v # top
    <3>1. Under(below, v) = Under(above, v) BY <1>2, <1>4, <2>1, <2>2 DEF Under
    <3>2. s[v] = r[v] BY <1>2, <2>2
    <3> QED BY <2>1, <3>1, <3>2 DEF Forest
  <2>3. CASE v = top
    <3> DEFINE S == Under(above, child)
               T == Under(above, top)
    <3>1. Under(below, v) = S \cup T BY <1>2, <1>4, <2>3 DEF Under
    <3>2. S \subseteq GraphIds /\ T \subseteq GraphIds /\ S \cap T = {} /\ child \in S /\ top \in T BY <1>2 DEF Under
    <3>3. IsFiniteSet(S) /\ IsFiniteSet(T) BY <1>1, <3>2, FS_Subset
    <3>4. Cardinality(S) \in Nat /\ Cardinality(T) \in Nat /\ Cardinality(S) >= 1 /\ Cardinality(T) >= 1
      BY <3>2, <3>3, FS_CardinalityType, FS_EmptySet
    <3>5. Cardinality(S \cup T) = Cardinality(S) + Cardinality(T)
      <4>1. Cardinality(S \cup T) = Cardinality(S) + Cardinality(T) - Cardinality(S \cap T) BY <3>3, FS_Union
      <4>2. Cardinality(S \cap T) = 0 BY <3>2, FS_EmptySet
      <4> QED BY <3>4, <4>1, <4>2
    <3>6. /\ r[child] >= 1 => Cardinality(S) >= 2
          /\ r[top] >= 1 => Cardinality(T) >= 2
          /\ r[top] >= 2 => Cardinality(T) >= 4
      BY <1>2 DEF Forest
    <3>7. s[top] >= 2 => r[top] >= 2 \/ (r[top] >= 1 /\ r[child] >= 1) BY <1>1, <1>2
    <3> HIDE DEF S, T
    <3>8. s[top] \in Nat /\ r[top] \in Nat /\ r[child] \in Nat BY <1>1, <1>2
    <3>9. ASSUME s[top] >= 1 PROVE Cardinality(Under(below, v)) >= 2 BY <3>1, <3>4, <3>5
    <3>10. ASSUME s[top] >= 2 PROVE Cardinality(Under(below, v)) >= 4 BY <3>1, <3>4, <3>5, <3>6, <3>7, <3>8, <3>10
    <3> QED BY <2>3, <3>9, <3>10
  <2> QED BY <2>2, <2>3
<1>8. Forest(below, s, k) BY <1>4, <1>5, <1>6, <1>7 DEF Forest
<1> QED BY <1>4, <1>8

-----------------------------------------------------------------------------
\* Lists without their heads.
LEMMA Tailed ==
  ASSUME NEW S, NEW list \in Seq(S), list # <<>>
  PROVE  /\ Head(list) = list[1] /\ Len(list) >= 1 /\ Len(Tail(list)) = Len(list) - 1 /\ Tail(list) \in Seq(S)
         /\ \A i \in 1 .. Len(list) - 1 : Tail(list)[i] = list[i + 1]
OBVIOUS

\* union_set takes the next edge.
LEMMA UnionSetKeepsForest ==
  ASSUME ForestInv, UnionSet
  PROVE  ForestInv'
<1> DEFINE k == Len(links) - Len(waiting)
           a == Head(waiting)[1]
           b == Head(waiting)[2]
           f == Compressed(Compressed(parent, a), b)
           i == Root(f, a)
           j == Root(f, b)
<1>1. /\ order \in Seq(Int) /\ links \in Seq(GraphIds \X GraphIds) /\ waiting \in Seq(GraphIds \X GraphIds)
      /\ waiting # <<>> /\ k \in 0 .. Len(links) /\ k + 1 \in 1 .. Len(links) /\ Len(waiting) >= 1
      /\ Forest(parent, rank, k) /\ backend = "boost"
  <2>1. waiting # <<>> /\ backend = "boost" BY DEF UnionSet
  <2>2. /\ order \in Seq(Int) /\ links \in Seq(GraphIds \X GraphIds) /\ waiting \in Seq(GraphIds \X GraphIds)
        /\ Len(waiting) <= Len(links) /\ Forest(parent, rank, k)
    BY <2>1 DEF ForestInv
  <2>3. Len(waiting) >= 1 /\ Len(waiting) \in Nat /\ Len(links) \in Nat BY <2>1, <2>2, Tailed
  <2> QED BY <2>1, <2>2, <2>3
<1>2. links[k + 1] = Head(waiting) /\ Head(waiting) \in GraphIds \X GraphIds
  <2>1. Head(waiting) = waiting[1] /\ waiting[1] = links[k + 1] BY <1>1, Tailed DEF ForestInv
  <2> QED BY <1>1, <2>1
<1>3. a \in GraphIds /\ b \in GraphIds /\ links[k + 1][1] = a /\ links[k + 1][2] = b BY <1>2
<1>4. Forest(f, rank, k)
  <2>1. Forest(Compressed(parent, a), rank, k) BY <1>1, <1>3, ForestCompressed
  <2> QED BY <1>1, <1>3, <2>1, ForestCompressed
<1>5. IsFiniteSet(GraphIds) /\ Rising(f, rank) /\ rank \in [GraphIds -> Nat]
  BY <1>1, <1>4, MembersFinite DEF Forest, Rising
<1>6. /\ parent' = IF i = j THEN f
                   ELSE IF rank[i] > rank[j] THEN [f EXCEPT ![j] = i] ELSE [f EXCEPT ![i] = j]
      /\ rank' = IF i # j /\ rank[i] = rank[j] THEN [rank EXCEPT ![j] = @ + 1] ELSE rank
      /\ waiting' = Tail(waiting) /\ UNCHANGED <<backend, order, links, related>>
  BY DEF UnionSet, Linking
<1> HIDE DEF f
<1>7. /\ i \in GraphIds /\ f[i] = i /\ Root(f, i) = i
      /\ j \in GraphIds /\ f[j] = j /\ Root(f, j) = j
  <2>1. i \in GraphIds /\ f[i] = i /\ j \in GraphIds /\ f[j] = j BY <1>3, <1>5, RootAbove
  <2> QED BY <1>5, <2>1, RootAbove
<1>8. i \in ComponentOf(j) /\ j \in ComponentOf(i)
  <2>1. i \in ComponentOf(a) /\ j \in ComponentOf(b) BY <1>3, <1>4 DEF Forest
  <2>2. b \in ComponentOf(a) BY <1>1, <1>3, Connected
  <2>3. j \in ComponentOf(a) BY <1>1, <1>3, <1>7, <2>1, <2>2, Connected
  <2>4. a \in ComponentOf(i) BY <1>1, <1>3, <1>7, <2>1, Connected
  <2>5. j \in ComponentOf(i) BY <1>1, <1>3, <1>7, <2>3, <2>4, Connected
  <2> QED BY <1>1, <1>7, <2>5, Connected
<1>9. Forest(parent', rank', k) /\ Root(parent', a) = Root(parent', b)
  <2> HIDE DEF i, j, a, b
  <2>1. CASE i = j BY <1>4, <1>6, <2>1 DEF i, j
  <2>2. CASE i # j /\ rank[i] > rank[j]
    <3>1. parent' = [f EXCEPT ![j] = i] /\ rank' = rank BY <1>5, <1>6, <1>7, <2>2
    <3>2. PutUnder(f, rank, j, i, parent', rank')
      <4>1. f \in [GraphIds -> GraphIds] BY <1>5 DEF Rising
      <4>2. parent' \in [GraphIds -> GraphIds] /\ parent'[j] = i /\ \A u \in GraphIds : u # j => parent'[u] = f[u]
        BY <1>7, <3>1, <4>1
      <4>3. rank[j] \in Nat /\ rank[i] \in Nat BY <1>5, <1>7
      <4>4. rank[j] < rank[i] BY <2>2, <4>3
      <4>5. rank' \in [GraphIds -> Nat] /\ rank'[i] = rank[i] /\ \A u \in GraphIds : u # i => rank'[u] = rank[u]
        BY <1>5, <3>1
      <4> QED BY <1>7, <2>2, <4>2, <4>4, <4>5 DEF PutUnder
    <3>3. Forest(parent', rank', k)
          /\ \A u \in GraphIds : Root(parent', u) = IF Root(f, u) = j THEN i ELSE Root(f, u)
      BY <1>1, <1>4, <1>8, <3>2, ForestLinked
    <3> QED BY <1>3, <3>3 DEF i, j
  <2>3. CASE i # j /\ ~ (rank[i] > rank[j])
    <3>1. parent' = [f EXCEPT ![i] = j] BY <1>6, <2>3
    <3>2. PutUnder(f, rank, i, j, parent', rank')
      <4>1. f \in [GraphIds -> GraphIds] BY <1>5 DEF Rising
      <4>2. parent' \in [GraphIds -> GraphIds] /\ parent'[i] = j /\ \A u \in GraphIds : u # i => parent'[u] = f[u]
        BY <1>7, <3>1, <4>1
      <4>3. rank[i] \in Nat /\ rank[j] \in Nat BY <1>5, <1>7
      <4>4. CASE rank[i] = rank[j]
        <5>1. rank' = [rank EXCEPT ![j] = rank[j] + 1] BY <1>6, <2>3, <4>4
        <5>2. /\ rank' \in [GraphIds -> Nat] /\ rank'[j] = rank[j] + 1
              /\ \A u \in GraphIds : u # j => rank'[u] = rank[u]
          BY <1>5, <1>7, <4>3, <5>1
        <5> QED BY <1>7, <2>3, <4>2, <4>4, <5>2 DEF PutUnder
      <4>5. CASE rank[i] # rank[j]
        <5>1. rank' = rank /\ rank[i] < rank[j] BY <1>6, <2>3, <4>3, <4>5
        <5>2. rank' \in [GraphIds -> Nat] /\ rank'[j] = rank[j] /\ \A u \in GraphIds : u # j => rank'[u] = rank[u]
          BY <1>5, <5>1
        <5>3. rank[i] < rank[j] BY <5>1
        <5> QED BY <1>7, <2>3, <4>2, <5>2, <5>3 DEF PutUnder
      <4> QED BY <4>4, <4>5
    <3>3. Forest(parent', rank', k)
          /\ \A u \in GraphIds : Root(parent', u) = IF Root(f, u) = i THEN j ELSE Root(f, u)
      BY <1>1, <1>4, <1>8, <3>2, ForestLinked
    <3> QED BY <1>3, <3>3 DEF i, j
  <2> QED BY <2>1, <2>2, <2>3
<1>10. Forest(parent', rank', k + 1)
  <2> HIDE DEF i, j, a, b, k
  <2>1. ASSUME NEW n \in 1 .. k + 1 PROVE Root(parent', links[n][1]) = Root(parent', links[n][2])
    <3>1. n \in 1 .. k \/ n = k + 1 BY <1>1
    <3> QED BY <1>3, <1>9, <3>1 DEF Forest
  <2> QED BY <1>9, <2>1 DEF Forest
<1>11. Len(waiting') <= Len(links) /\ k + 1 = Len(links) - Len(waiting') /\ waiting' \in Seq(GraphIds \X GraphIds)
  BY <1>1, <1>6, Tailed DEF ForestInv
<1>12. ASSUME NEW n \in 1 .. Len(waiting') PROVE waiting'[n] = links[Len(links) - Len(waiting') + n]
  <2>1. Len(waiting') = Len(waiting) - 1 /\ waiting'[n] = waiting[n + 1] /\ n + 1 \in 1 .. Len(waiting)
    BY <1>1, <1>6, <1>12, Tailed
  <2>2. waiting[n + 1] = links[Len(links) - Len(waiting) + (n + 1)] BY <1>1, <2>1 DEF ForestInv
  <2>3. Len(links) - Len(waiting) + (n + 1) = Len(links) - Len(waiting') + n BY <1>1, <2>1
  <2> QED BY <2>1, <2>2, <2>3
<1>13. UNCHANGED <<links, order>> /\ GraphIds' = GraphIds BY <1>6 DEF GraphIds
<1>14. Forest(parent, rank, Len(links) - Len(waiting))'
  <2>1. \A v \in GraphIds : ComponentOf(v)' = ComponentOf(v) BY <1>13 DEF ComponentOf, Separate
  <2> QED BY <1>10, <1>11, <1>13, <2>1 DEF Forest, Rising, Under
<1> QED BY <1>1, <1>6, <1>11, <1>12, <1>13, <1>14 DEF ForestInv

-----------------------------------------------------------------------------
\* What lemon's numbers are given to: every component, once.
Listing(f) == f = [n \in 0 .. Len(order) |-> IF n = 0 THEN <<>> ELSE WithComponent(f[n - 1], CopyOrder[n])]

\* The components are listed, each once.
LEMMA ComponentsAreListed ==
  ASSUME order \in Seq(Int)
  PROVE  /\ Components \in Seq(SUBSET GraphIds) /\ NoneTwice(Components)
         /\ Held(Components) = {ComponentOf(v) : v \in GraphIds}
<1> DEFINE n == Len(order)
           A == SUBSET GraphIds
           upto(m) == {ComponentOf(CopyOrder[x]) : x \in 1 .. m}
           S == [i \in 0 .. n |-> {s \in Seq(A) : NoneTwice(s) /\ Held(s) = upto(i)}]
           turn(i, s) == WithComponent(s, CopyOrder[i])
           step == [i \in 1 .. n |-> [s \in S[i - 1] |-> turn(i, s)]]
           f == CHOOSE f : Listing(f)
<1>1. n \in Nat OBVIOUS
<1>2. ASSUME NEW i \in 1 .. n, NEW s \in S[i - 1] PROVE turn(i, s) \in S[i]
  <2>1. i - 1 \in 0 .. n /\ i \in 0 .. n /\ 1 .. i = 1 .. i - 1 \cup {i} BY <1>1
  <2>2. upto(i) = upto(i - 1) \cup {ComponentOf(CopyOrder[i])} BY <2>1
  <2>3. ComponentOf(CopyOrder[i]) \in A BY DEF ComponentOf, GraphIds
  <2> HIDE DEF upto, A
  <2>4. s \in Seq(A) /\ NoneTwice(s) /\ Held(s) = upto(i - 1) BY <1>2, <2>1
  <2>5. ToSet(s) = Held(s) BY DEF ToSet, Held
  <2>6. CASE ComponentOf(CopyOrder[i]) \in ToSet(s) BY <2>1, <2>2, <2>4, <2>5, <2>6 DEF WithComponent
  <2>7. CASE ComponentOf(CopyOrder[i]) \notin ToSet(s)
    <3> DEFINE c == ComponentOf(CopyOrder[i])
               t == Append(s, c)
    <3>1. turn(i, s) = t BY <2>7 DEF WithComponent
    <3>2. c \in A /\ c \notin Held(s) BY <2>3, <2>5, <2>7
    <3> HIDE DEF c
    <3>3. t \in Seq(A) BY <2>4, <3>2
    <3>4. NoneTwice(t) BY <2>4, <3>2, OnceAppend
    <3>5. Held(t) = Held(s) \cup {c} BY <2>4, <3>2, HeldAppend
    <3>6. Held(t) = upto(i) BY <2>2, <2>4, <3>5 DEF c
    <3> HIDE DEF t, turn
    <3> QED BY <2>1, <3>1, <3>3, <3>4, <3>6
  <2> QED BY <2>6, <2>7
<1>3. <<>> \in S[0]
  <2>1. upto(0) = {} OBVIOUS
  <2>2. NoneTwice(<<>>) /\ Held(<<>>) = {} BY DEF NoneTwice, Held
  <2> QED BY <1>1, <2>1, <2>2
<1>4. Listing(f)
  <2>1. \A i \in 1 .. n : \A s \in S[i - 1] : step[i][s] = turn(i, s) OBVIOUS
  <2> HIDE DEF S, step
  <2>2. PICK g : Loops(g, n, <<>>, step) /\ \A i \in 0 .. n : g[i] \in S[i]
    <3>1. \A i \in 1 .. n : \A s \in S[i - 1] : step[i][s] \in S[i] BY <1>2, <2>1, Zenon
    <3> QED BY <1>1, <1>3, <3>1, LoopRuns
  <2> HIDE DEF turn
  <2>3. \A i \in 1 .. n : step[i][g[i - 1]] = turn(i, g[i - 1])
    <3>1. \A i \in 1 .. n : i - 1 \in 0 .. n BY <1>1
    <3> QED BY <2>1, <2>2, <3>1
  <2>4. g = [i \in 0 .. n |-> IF i = 0 THEN <<>> ELSE turn(i, g[i - 1])]
    <3>1. \A i \in 0 .. n : i # 0 => i \in 1 .. n BY <1>1
    <3> QED BY <2>2, <2>3, <3>1 DEF Loops
  <2>5. Listing(g) BY <2>4 DEF Listing, turn
  <2> QED BY <2>5, Zenon
<1>5. Components = f[n] BY DEF Components, Listing
<1> HIDE DEF f
<1>6. f[0] = <<>> /\ \A i \in 1 .. n : f[i] = turn(i, f[i - 1])
  <2>1. \A i \in 1 .. n : i \in 0 .. n /\ i # 0 BY <1>1
  <2>2. 0 \in 0 .. n BY <1>1
  <2> QED BY <1>4, <2>1, <2>2 DEF Listing
<1> HIDE DEF turn, S
<1>7. \A i \in 0 .. n : f[i] \in S[i] BY <1>1, <1>2, <1>3, <1>6, LoopKeeps
<1>8. f[n] \in S[n] /\ n \in 0 .. n BY <1>1, <1>7
<1>9. f[n] \in Seq(A) /\ NoneTwice(f[n]) /\ Held(f[n]) = upto(n) BY <1>8 DEF S
<1>10. upto(n) = {ComponentOf(v) : v \in GraphIds}
  <2>1. \A i \in 1 .. n : CopyOrder[i] = order[(n - i) + 1] /\ (n - i) + 1 \in 1 .. n
    BY <1>1 DEF CopyOrder, Reverse
  <2>2. \A i \in 1 .. n : CopyOrder[i] \in GraphIds BY <2>1 DEF GraphIds, ToSet
  <2>3. ASSUME NEW v \in GraphIds PROVE \E i \in 1 .. n : CopyOrder[i] = v
    <3>1. PICK j \in 1 .. n : order[j] = v BY DEF GraphIds, ToSet
    <3>2. (n - j) + 1 \in 1 .. n /\ (n - ((n - j) + 1)) + 1 = j BY <1>1
    <3> QED BY <2>1, <3>1, <3>2
  <2> QED BY <2>2, <2>3
<1> QED BY <1>5, <1>9, <1>10

\* If ids have no gaps, as many vertices get a number as its component has: v
\* gets that of the vertex at place v + 1.
LEMMA RelatedCounts ==
  ASSUME ForestInv, related # <<>>, GraphIds = 0 .. Len(order) - 1, NEW i \in DOMAIN Components
  PROVE  Cardinality({v \in GraphIds : related[v] = i}) = Cardinality(Components[i])
<1> DEFINE C == Components
           M == {v \in GraphIds : related[v] = i}
           f == [v \in M |-> order[v + 1]]
<1>1. /\ order \in Seq(Int) /\ links \in Seq(GraphIds \X GraphIds) /\ related = [v \in GraphIds |-> NodeMap(v)]
      /\ \A x, z \in DOMAIN order : order[x] = order[z] => x = z
  BY DEF ForestInv
<1>2. /\ C \in Seq(SUBSET GraphIds) /\ Held(C) = {ComponentOf(v) : v \in GraphIds}
      /\ \A x, z \in DOMAIN C : C[x] = C[z] => x = z
  BY <1>1, ComponentsAreListed DEF NoneTwice
<1>3. ASSUME NEW v \in GraphIds PROVE order[v + 1] \in GraphIds /\ v + 1 \in DOMAIN order /\ v \in Int
  <2>1. v + 1 \in 1 .. Len(order) BY <1>1
  <2> QED BY <1>1, <2>1 DEF GraphIds, ToSet
<1> HIDE DEF C
<1>4. ASSUME NEW w \in GraphIds, NEW x \in DOMAIN C, w \in C[x] PROVE C[x] = ComponentOf(w)
  <2>1. C[x] \in Held(C) BY DEF Held
  <2>2. PICK u \in GraphIds : C[x] = ComponentOf(u) BY <1>2, <2>1
  <2>3. w \in ComponentOf(u) /\ u \in ComponentOf(w) BY <1>1, <1>4, <2>2, Connected
  <2>4. \A q \in ComponentOf(u) : q \in GraphIds /\ q \in ComponentOf(w)
    <3>1. \A q \in ComponentOf(u) : q \in GraphIds BY DEF ComponentOf, GraphIds
    <3> QED BY <1>1, <2>3, <3>1, Connected
  <2>5. \A q \in ComponentOf(w) : q \in ComponentOf(u)
    <3>1. \A q \in ComponentOf(w) : q \in GraphIds BY DEF ComponentOf, GraphIds
    <3> QED BY <1>1, <2>3, <3>1, Connected
  <2> QED BY <2>2, <2>4, <2>5
<1>5. ASSUME NEW v \in GraphIds
      PROVE  related[v] = i <=> order[v + 1] \in C[i]
  <2> DEFINE w == order[v + 1]
  <2>1. w \in GraphIds BY <1>3
  <2>2. related[v] = CHOOSE x \in DOMAIN C : w \in C[x]
    <3>1. v < Len(order) BY <1>1
    <3> QED BY <1>1, <3>1 DEF NodeMap, C
  <2> HIDE DEF w
  <2>3. \E x \in DOMAIN C : w \in C[x]
    <3>1. ComponentOf(w) \in Held(C) BY <1>2, <2>1
    <3>2. PICK x \in DOMAIN C : C[x] = ComponentOf(w) BY <3>1 DEF Held
    <3>3. w \in ComponentOf(w) BY <1>1, <2>1, Connected
    <3> QED BY <3>2, <3>3
  <2>4. related[v] \in DOMAIN C /\ w \in C[related[v]] BY <2>2, <2>3
  <2>5. C[related[v]] = ComponentOf(w) BY <1>4, <2>1, <2>4
  <2>6. ASSUME w \in C[i] PROVE related[v] = i
    <3>1. i \in DOMAIN C BY DEF C
    <3>2. C[i] = ComponentOf(w) BY <1>4, <2>1, <2>6, <3>1
    <3> QED BY <1>2, <2>4, <2>5, <3>1, <3>2
  <2>7. related[v] = i => w \in C[i] BY <2>4
  <2> QED BY <2>6, <2>7 DEF w
<1>6. M = {v \in GraphIds : order[v + 1] \in C[i]} BY <1>5
<1>7. f \in Bijection(M, C[i])
  <2> HIDE DEF M
  <2>1. f \in [M -> C[i]] BY <1>6
  <2>2. ASSUME NEW v \in M, NEW w \in M, f[v] = f[w] PROVE v = w
    <3>1. v \in GraphIds /\ w \in GraphIds BY <1>6
    <3>2. order[v + 1] = order[w + 1] BY <2>2
    <3>3. v + 1 = w + 1 BY <1>1, <1>3, <3>1, <3>2
    <3> QED BY <1>3, <3>1, <3>3
  <2>3. ASSUME NEW x \in C[i] PROVE \E v \in M : f[v] = x
    <3>1. i \in DOMAIN C BY DEF C
    <3>2. x \in GraphIds BY <1>2, <3>1
    <3>3. PICK z \in 1 .. Len(order) : order[z] = x BY <1>1, <3>2 DEF GraphIds, ToSet
    <3>4. z - 1 \in GraphIds /\ (z - 1) + 1 = z BY <1>1
    <3>5. z - 1 \in M BY <1>6, <3>3, <3>4
    <3> QED BY <3>3, <3>4, <3>5
  <2> HIDE DEF f
  <2> QED BY <2>1, <2>2, <2>3 DEF Bijection, Injection, Surjection, IsInjective
<1>8. IsFiniteSet(M) BY <1>1, MembersFinite, FS_Subset
<1>9. Cardinality(C[i]) = Cardinality(M)
  <2> HIDE DEF M, f
  <2> QED BY <1>7, <1>8, FS_Bijection DEF ExistsBijection
<1> QED BY <1>9 DEF C

-----------------------------------------------------------------------------
\* When all edges are done, the vertices with one root are a component.
LEMMA ForestIsComponents ==
  ASSUME order \in Seq(Int), links \in Seq(GraphIds \X GraphIds),
         NEW above, NEW r, Forest(above, r, Len(links)), NEW v \in GraphIds
  PROVE  ComponentOf(v) = Under(above, Root(above, v))
<1> DEFINE vs == Under(above, Root(above, v))
<1>1. IsFiniteSet(GraphIds) /\ Rising(above, r) BY MembersFinite DEF Forest
<1>2. Separate(vs)
  <2>1. \A i \in DOMAIN links : links[i] \in GraphIds \X GraphIds /\ i \in 1 .. Len(links) OBVIOUS
  <2>2. \A i \in DOMAIN links : /\ links[i][1] \in GraphIds /\ links[i][2] \in GraphIds
                                /\ Root(above, links[i][1]) = Root(above, links[i][2])
    BY <2>1 DEF Forest
  <2> QED BY <2>2 DEF Separate, Under
<1>3. v \in vs /\ vs \in SUBSET GraphIds BY DEF Under
<1>4. ComponentOf(v) \subseteq vs
  <2> HIDE DEF vs
  <2> QED BY <1>2, <1>3 DEF ComponentOf, GraphIds
<1>5. ASSUME NEW w \in vs PROVE w \in ComponentOf(v)
  <2>1. w \in GraphIds /\ Root(above, w) = Root(above, v) BY DEF Under
  <2>2. Root(above, v) \in GraphIds BY <1>1, RootAbove
  <2>3. Root(above, v) \in ComponentOf(v) /\ Root(above, v) \in ComponentOf(w) BY <2>1 DEF Forest
  <2>4. w \in ComponentOf(Root(above, v)) BY <2>1, <2>2, <2>3, Connected
  <2> QED BY <2>1, <2>2, <2>3, <2>4, Connected
<1> QED BY <1>4, <1>5

\* Then the parents are the roots, and others only in components of four or more.
LEMMA ParentsAreShown ==
  ASSUME ForestInv, backend = "boost", waiting = <<>>, NEW v \in GraphIds
  PROVE  /\ ComponentOf(v) \cap Shown # {}
         /\ Cardinality(ComponentOf(v)) < 4 => Cardinality(ComponentOf(v) \cap Shown) = 1
<1> DEFINE t == Root(parent, v)
<1>1. /\ order \in Seq(Int) /\ links \in Seq(GraphIds \X GraphIds) /\ Forest(parent, rank, Len(links))
  BY DEF ForestInv
<1>2. /\ IsFiniteSet(GraphIds) /\ Rising(parent, rank)
      /\ parent \in [GraphIds -> GraphIds] /\ rank \in [GraphIds -> Nat]
  BY <1>1, MembersFinite DEF Forest, Rising
<1>3. t \in GraphIds /\ parent[t] = t /\ Root(parent, t) = t
  <2>1. t \in GraphIds /\ parent[t] = t BY <1>2, RootAbove
  <2> QED BY <1>2, <2>1, RootAbove
<1>4. ComponentOf(v) = Under(parent, t) BY <1>1, ForestIsComponents
<1> HIDE DEF t
<1>5. t \in ComponentOf(v) \cap Shown BY <1>2, <1>3, <1>4 DEF Under, Shown, Range
<1>6. ASSUME Cardinality(ComponentOf(v)) < 4, NEW p \in ComponentOf(v) \cap Shown PROVE p = t
  <2>1. PICK u \in GraphIds : parent[u] = p BY <1>2 DEF Shown, Range
  <2>2. p \in GraphIds /\ Root(parent, p) = t BY <1>4 DEF Under
  <2> SUFFICES ASSUME p # t PROVE FALSE OBVIOUS
  <2>3. rank[p] < rank[t] BY <1>2, <2>2, RootAbove
  <2>4. parent[p] # p BY <1>2, <2>2, RootAbove
  <2>5. u # p BY <2>1, <2>4
  <2>6. rank[u] < rank[p] BY <2>1, <2>5, <1>2 DEF Rising
  <2>7. rank[t] >= 2
    <3>1. rank[u] \in Nat /\ rank[p] \in Nat /\ rank[t] \in Nat BY <1>2, <1>3, <2>2
    <3> QED BY <2>3, <2>6, <3>1
  <2>8. Cardinality(Under(parent, t)) >= 4 BY <1>1, <1>3, <2>7 DEF Forest
  <2>9. Cardinality(Under(parent, t)) \in Nat
    <3>1. Under(parent, t) \subseteq GraphIds BY DEF Under
    <3> QED BY <1>2, <3>1, FS_Subset, FS_CardinalityType
  <2> QED BY <1>4, <1>6, <2>8, <2>9
<1>7. ASSUME Cardinality(ComponentOf(v)) < 4 PROVE Cardinality(ComponentOf(v) \cap Shown) = 1
  <2>1. ComponentOf(v) \cap Shown = {t} BY <1>5, <1>6, <1>7
  <2> QED BY <2>1, FS_Singleton
<1> QED BY <1>5, <1>7

-----------------------------------------------------------------------------
\* A set is listed by its elements.
LEMMA SetIsListed ==
  ASSUME NEW S, IsFiniteSet(S)
  PROVE  SetToSeq(S) \in Seq(S)
<1> DEFINE n == Cardinality(S)
<1>1. n \in Nat BY FS_CardinalityType
<1>2. PICK f : f \in Bijection(1 .. n, S) BY FS_CardinalityType DEF ExistsBijection
<1>3. f \in [1 .. n -> S] /\ IsInjective(f) BY <1>2 DEF Bijection, Injection, IsInjective
<1>4. SetToSeq(S) \in [1 .. n -> S] BY <1>3 DEF SetToSeq
<1> HIDE DEF n
<1> QED BY <1>1, <1>4, SeqDef

\* The graph before the first edge: every vertex its own root.
LEMMA ForestInitially == ComponentInit => ForestInv
<1> SUFFICES ASSUME ComponentInit PROVE ForestInv OBVIOUS
<1>1. order \in Seq(Int) /\ \A i, j \in DOMAIN order : order[i] = order[j] => i = j
  <2>1. CASE backend = "boost"
    <3>1. PICK n \in 1 .. MaxNodes : order = Newest(n) BY <2>1 DEF ComponentInit
    <3>2. n \in Nat BY MaxAssumption
    <3> QED BY <3>1, <3>2 DEF Newest
  <2>2. CASE backend = "lemon"
    <3>1. PICK n \in 1 .. MaxNodes : order \in Injection(1 .. n, NodeIds) BY <2>2 DEF ComponentInit
    <3>2. n \in Nat BY MaxAssumption
    <3>3. order \in [1 .. n -> Int] BY <3>1, MaxAssumption DEF Injection, NodeIds
    <3>4. order \in Seq(Int) BY <3>2, <3>3, SeqDef
    <3> QED BY <3>1, <3>4 DEF Injection, IsInjective
  <2> QED BY <2>1, <2>2 DEF ComponentInit
<1>2. IsFiniteSet(GraphIds) BY <1>1, MembersFinite
<1>3. links \in Seq(GraphIds \X GraphIds)
  <2>1. Pairs \subseteq GraphIds \X GraphIds BY DEF Pairs, GraphIds
  <2>2. CASE backend = "boost"
    <3>1. PICK k \in 0 .. MaxLinks : links \in [1 .. k -> Pairs] BY <2>2 DEF ComponentInit
    <3>2. k \in Nat BY MaxAssumption
    <3> QED BY <2>1, <3>1, <3>2, SeqDef
  <2>3. CASE backend = "lemon"
    <3>1. PICK ps \in SUBSET Pairs : links = SetToSeq(ps) BY <2>3 DEF ComponentInit
    <3>2. IsFiniteSet(ps)
      <4>1. IsFiniteSet(GraphIds \X GraphIds) BY <1>2, FS_Product
      <4> QED BY <2>1, <4>1, FS_Subset
    <3>3. SetToSeq(ps) \in Seq(ps) BY <3>2, SetIsListed
    <3> QED BY <2>1, <3>1, <3>3
  <2> QED BY <2>2, <2>3 DEF ComponentInit
<1>4. waiting = links /\ rank = [v \in GraphIds |-> 0] /\ parent = [v \in GraphIds |-> v] /\ related = <<>>
  BY DEF ComponentInit, GraphIds
<1>5. Rising(parent, rank) BY <1>4 DEF Rising
<1>6. ASSUME NEW v \in GraphIds PROVE Root(parent, v) = v
  <2>1. parent[v] = v BY <1>4
  <2> QED BY <1>2, <1>5, <2>1, RootAbove
<1>7. Forest(parent, rank, 0)
  <2>1. \A v \in GraphIds : v \in ComponentOf(v) BY <1>3, Connected
  <2>2. \A v \in GraphIds : rank[v] = 0 BY <1>4
  <2> QED BY <1>5, <1>6, <2>1, <2>2 DEF Forest
<1>8. Len(links) - Len(waiting) = 0 /\ Len(waiting) <= Len(links)
      /\ \A i \in 1 .. Len(waiting) : waiting[i] = links[Len(links) - Len(waiting) + i]
  BY <1>3, <1>4
<1> QED BY <1>1, <1>3, <1>4, <1>7, <1>8 DEF ForestInv

\* Whatever the graph and the order of its edges, boost's subgraph shows a vertex
\* of every component, and only one of those with less than four; and if ids have
\* no gaps, lemon relates as many vertices to a component vertex as its component
\* has.
THEOREM ComponentsAreKnown == ComponentSpec => []ComponentsAreFound
<1>1. ComponentInit => ForestInv BY ForestInitially
<1>2. ForestInv /\ [ComponentNext]_componentVars => ForestInv'
  <2> SUFFICES ASSUME ForestInv, [ComponentNext]_componentVars PROVE ForestInv' OBVIOUS
  <2>1. CASE UnionSet BY <2>1, UnionSetKeepsForest
  <2>2. CASE Relate
    <3>1. /\ backend = "lemon" /\ UNCHANGED <<backend, order, links, rank, parent>>
          /\ related' = [v \in GraphIds |-> NodeMap(v)]
      BY <2>2 DEF Relate, GraphIds
    <3>2. GraphIds' = GraphIds BY <3>1 DEF GraphIds
    <3>3. \A v : NodeMap(v)' = NodeMap(v)
      <4>1. Components' = Components
        BY <3>1 DEF Components, WithComponent, CopyOrder, Reverse, ComponentOf, Separate
      <4> QED BY <3>1, <4>1 DEF NodeMap
    <3>4. related' = [v \in GraphIds |-> NodeMap(v)]' BY <3>1, <3>2, <3>3
    <3> QED BY <3>1, <3>2, <3>4 DEF ForestInv
  <2>3. CASE UNCHANGED componentVars
    <3>1. UNCHANGED <<backend, order, links, waiting, rank, parent, related>> BY <2>3 DEF componentVars
    <3>2. GraphIds' = GraphIds BY <3>1 DEF GraphIds
    <3>3. \A v : ComponentOf(v)' = ComponentOf(v) BY <3>1 DEF ComponentOf, Separate
    <3>4. \A v : NodeMap(v)' = NodeMap(v)
      <4>1. Components' = Components
        BY <3>1 DEF Components, WithComponent, CopyOrder, Reverse, ComponentOf, Separate
      <4> QED BY <3>1, <4>1 DEF NodeMap
    <3>5. Forest(parent, rank, Len(links) - Len(waiting)) => Forest(parent, rank, Len(links) - Len(waiting))'
      BY <3>1, <3>2, <3>3 DEF Forest, Rising, Under
    <3> QED BY <3>1, <3>2, <3>4, <3>5 DEF ForestInv
  <2> QED BY <2>1, <2>2, <2>3 DEF ComponentNext
<1>3. ForestInv => ComponentsAreFound
  <2> SUFFICES ASSUME ForestInv PROVE ComponentsAreFound OBVIOUS
  <2>1. ASSUME backend = "boost", waiting = <<>>, NEW v \in ToSet(order)
        PROVE  /\ ComponentOf(v) \cap Shown # {}
               /\ Cardinality(ComponentOf(v)) < 4 => Cardinality(ComponentOf(v) \cap Shown) = 1
    BY <2>1, ParentsAreShown DEF GraphIds
  <2>2. ASSUME related # <<>>, ToSet(order) = 0 .. Len(order) - 1, NEW i \in DOMAIN Components
        PROVE  Cardinality({v \in ToSet(order) : related[v] = i}) = Cardinality(Components[i])
    BY <2>2, RelatedCounts DEF GraphIds
  <2> QED BY <2>1, <2>2 DEF ComponentsAreFound
<1> QED BY <1>1, <1>2, <1>3, PTL DEF ComponentSpec
=============================================================================
