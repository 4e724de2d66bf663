---------------------------------- MODULE Delta ----------------------------------
(***************************************************************************)
(* Delta: the steps that turn one graph into another.  run() collects the  *)
(* differences of the two graphs in four vectors; every getNext() applies  *)
(* one of them to the source graph.  Both graphs share their elements, and *)
(* the caller holds them: the source graph may change between the calls.   *)
(*                                                                         *)
(* A graph is what BaseGraph's calls leave of it when no observer throws:  *)
(* the associated vertices and edges, and the edges with an arc (removing  *)
(* a vertex erases its arcs, and leaves their edges associated).           *)
(***************************************************************************)
EXTENDS Integers, FiniteSets

CONSTANTS
  Vertices, Edges, Source, Target,
  MaxRuns,     \* bound: calls of run()
  MaxEdits     \* bound: calls with which the caller changes the source graph

ASSUME DeltaAssumption ==
  /\ Source \in [Edges -> Vertices] /\ Target \in [Edges -> Vertices]
  /\ MaxRuns \in Nat /\ MaxEdits \in Nat

VARIABLES
  sourceGraph,  \* mpSourceGraph
  targetGraph,  \* mpTargetGraph, which nobody changes
  differences,  \* the four vectors; the same element is collected by each run
  op,           \* how the last call ended: "idle", "raised" or "undefined"
  runs,         \* history: calls of run()
  edits         \* history: the caller's own changes

deltaVars == <<sourceGraph, targetGraph, differences, op, runs, edits>>

Ends(e) == {Source[e], Target[e]}

Graphs ==
  {h \in [vertices : SUBSET Vertices, edges : SUBSET Edges, arcs : SUBSET Edges] :
     h.arcs \subseteq h.edges}

\* Graphs without remains: every edge has its arc and its end points.
Intact(h) == h.arcs = h.edges /\ \A e \in h.edges : Ends(e) \subseteq h.vertices

Lists == {"removeEdges", "removeVertices", "addVertices", "addEdges"}

Members(list) == IF list \in {"removeEdges", "addEdges"} THEN Edges ELSE Vertices

DeltaInit ==
  /\ sourceGraph \in {h \in Graphs : Intact(h)}
  /\ targetGraph \in {h \in Graphs : Intact(h)}
  /\ differences = [list \in Lists |-> {}]
  /\ op = "idle" /\ runs = 0 /\ edits = 0

-----------------------------------------------------------------------------
(* The graph calls.  Each gives the graph it leaves and how it ends.       *)

Raised(h) == [graph |-> h, op |-> "raised"]
Done(h)   == [graph |-> h, op |-> "idle"]

AddVertex(h, v) ==
  IF v \in h.vertices THEN Raised(h)
  ELSE Done([h EXCEPT !.vertices = @ \cup {v}])

\* addEdge adds missing end points itself.
AddEdge(h, e) ==
  IF e \in h.edges THEN Raised(h)
  ELSE Done([vertices |-> h.vertices \cup Ends(e),
             edges |-> h.edges \cup {e}, arcs |-> h.arcs \cup {e}])

RemoveVertex(h, v) ==
  IF v \notin h.vertices THEN Raised(h)
  ELSE Done([h EXCEPT !.vertices = @ \ {v}, !.arcs = {e \in @ : v \notin Ends(e)}])

\* The arc of an associated edge is gone with its vertex: erased twice.
RemoveEdge(h, e) ==
  IF e \notin h.edges THEN Raised(h)
  ELSE IF e \notin h.arcs THEN [graph |-> h, op |-> "undefined"]
  ELSE Done([h EXCEPT !.edges = @ \ {e}, !.arcs = @ \ {e}])

-----------------------------------------------------------------------------
\* Mutant of Found: all edges of the source graph are removed.
FoundAll ==
  [removeEdges    |-> sourceGraph.arcs,
   removeVertices |-> sourceGraph.vertices \ targetGraph.vertices,
   addVertices    |-> targetGraph.vertices \ sourceGraph.vertices,
   addEdges       |-> targetGraph.arcs \ sourceGraph.edges]

\* run() iterates over arcs and asks contains(), the association.
Found ==
  [removeEdges    |-> sourceGraph.arcs \ targetGraph.edges,
   removeVertices |-> sourceGraph.vertices \ targetGraph.vertices,
   addVertices    |-> targetGraph.vertices \ sourceGraph.vertices,
   addEdges       |-> targetGraph.arcs \ sourceGraph.edges]

Run ==
  /\ op # "undefined" /\ runs < MaxRuns
  /\ differences' = [list \in Lists |-> differences[list] \cup {runs} \X Found[list]]
  /\ runs' = runs + 1
  /\ op' = "idle"
  /\ UNCHANGED <<sourceGraph, targetGraph, edits>>

\* What the last run put at the end of a vector is popped first.
Backs(list) == {d \in differences[list] : \A c \in differences[list] : c[1] <= d[1]}

\* One difference is popped, and applied if the call does not throw.
Apply(list, d, call) ==
  /\ differences' = [differences EXCEPT ![list] = @ \ {d}]
  /\ sourceGraph' = call.graph
  /\ op' = call.op
  /\ UNCHANGED <<targetGraph, runs, edits>>

Drained(lists) == \A list \in lists : differences[list] = {}

RemoveNextEdge ==
  /\ op # "undefined"
  /\ \E d \in Backs("removeEdges") : Apply("removeEdges", d, RemoveEdge(sourceGraph, d[2]))

RemoveNextVertex ==
  /\ op # "undefined" /\ Drained({"removeEdges"})
  /\ \E d \in Backs("removeVertices") : Apply("removeVertices", d, RemoveVertex(sourceGraph, d[2]))

AddNextVertex ==
  /\ op # "undefined" /\ Drained({"removeEdges", "removeVertices"})
  /\ \E d \in Backs("addVertices") : Apply("addVertices", d, AddVertex(sourceGraph, d[2]))

\* Mutant of AddNextEdge: edges are added before the vertices.
AddNextEdgeFirst ==
  /\ op # "undefined" /\ Drained({"removeEdges", "removeVertices"})
  /\ \E d \in Backs("addEdges") : Apply("addEdges", d, AddEdge(sourceGraph, d[2]))

AddNextEdge ==
  /\ op # "undefined" /\ Drained({"removeEdges", "removeVertices", "addVertices"})
  /\ \E d \in Backs("addEdges") : Apply("addEdges", d, AddEdge(sourceGraph, d[2]))

NothingNext ==
  /\ op # "undefined" /\ Drained(Lists)
  /\ op' = "raised"
  /\ UNCHANGED <<sourceGraph, targetGraph, differences, runs, edits>>

GetNext == RemoveNextEdge \/ RemoveNextVertex \/ AddNextVertex \/ AddNextEdge \/ NothingNext

HasNext == ~Drained(Lists)

\* The caller changes the source graph with a call that does not throw.
Edit ==
  /\ op # "undefined" /\ edits < MaxEdits
  /\ \E done \in {AddVertex(sourceGraph, v) : v \in Vertices}
            \cup {RemoveVertex(sourceGraph, v) : v \in Vertices}
            \cup {AddEdge(sourceGraph, e) : e \in Edges}
            \cup {RemoveEdge(sourceGraph, e) : e \in Edges} :
       /\ done.op = "idle"
       /\ sourceGraph' = done.graph
  /\ op' = "idle" /\ edits' = edits + 1
  /\ UNCHANGED <<targetGraph, differences, runs>>

DeltaNext == Run \/ GetNext \/ Edit

DeltaSpec == DeltaInit /\ [][DeltaNext]_deltaVars

-----------------------------------------------------------------------------
DeltaTypeOK ==
  /\ sourceGraph \in Graphs /\ targetGraph \in Graphs
  /\ differences \in [Lists -> SUBSET ((0 .. MaxRuns - 1) \X (Vertices \cup Edges))]
  /\ \A list \in Lists : \A d \in differences[list] : d[2] \in Members(list)
  /\ op \in {"idle", "raised", "undefined"}
  /\ runs \in 0 .. MaxRuns /\ edits \in 0 .. MaxEdits

\* Every graph getNext returns is one: it is never left with an edge whose end
\* points are gone, whichever order the vectors are in and also when run() was
\* called more than once, so that differences are applied twice.
StepsAreGraphs == edits = 0 => Intact(sourceGraph) /\ op # "undefined"

\* When hasNext is false after a run, the source graph is the target graph,
\* even if getNext threw on differences that were there twice.
ReachesTarget == edits = 0 /\ runs > 0 /\ ~HasNext => sourceGraph = targetGraph

\* After one run no getNext throws before hasNext is false.
NoStepFails == [][GetNext /\ HasNext /\ runs = 1 /\ edits = 0 => op' = "idle"]_deltaVars

\* getNext never takes away what both graphs have, whatever the caller has
\* done to the source graph since run().
CommonStays ==
  [][GetNext =>
       /\ sourceGraph.vertices \cap targetGraph.vertices \subseteq sourceGraph'.vertices
       /\ sourceGraph.edges \cap targetGraph.edges \subseteq sourceGraph'.edges
       /\ sourceGraph.arcs \cap targetGraph.arcs \subseteq sourceGraph'.arcs]_deltaVars
=============================================================================
