------------------------------- MODULE GVGraph -------------------------------
(* io::GVGraph: a graphviz copy of a base graph, made element by element.  Two *)
(* maps tell, by the ids of the base graph, which graphviz node or edge stands *)
(* for an element; the way back is by name.  The base graph may change, and    *)
(* give ids again, at any time: nobody tells the copy.                         *)
EXTENDS LemonGraph, FiniteSetsExt

CONSTANTS Labels,        \* labels an edge can have
          MaxEdits       \* bound: changes of the base graph

ASSUME ElementsAssumption == IsFiniteSet(Vertices) /\ IsFiniteSet(Edges) /\ Labels # {}

VARIABLES
    mpBaseGraph,         \* the base graph: see LemonGraph
    labels,              \* edge -> its label
    gv,                  \* the copy: see NewGraph
    edits,
    orphaned             \* history: edges whose place in mEdges another took

gvVars == <<mpBaseGraph, labels, gv, edits, orphaned>>

\* Graphviz nodes are their names, edges are known by name between two nodes.
NewGraph == [mNodes |-> <<>>, mEdges |-> <<>>, nodes |-> {}, edges |-> {},
             mpContext |-> TRUE, mAppliedLayout |-> FALSE, laidOut |-> {},
             thrown |-> FALSE, crashed |-> FALSE]

NodeName(v) == <<v, mpBaseGraph.vid[v]>>
EdgeName(e) == <<labels[e], mpBaseGraph.eid[e]>>

\* Calls one after the other, until one throws.
Call(copies, Do(_)) == UNION {IF c.thrown THEN {c} ELSE Do(c) : c \in copies}
CallAll(copies, args, Do(_, _)) ==
    LET after[n \in 0 .. Len(args)] ==
          IF n = 0 THEN copies ELSE Call(after[n - 1], LAMBDA c : Do(c, args[n]))
    IN after[Len(args)]
Throw(c) == [c EXCEPT !.thrown = TRUE]

---------------------------------------------------------------------------
(* Removing.                                                                   *)
RemoveEdgeIds(c, ids) ==
    [c EXCEPT !.edges = @ \ {c.mEdges[id] : id \in ids},
              !.mEdges = RestrictDomain(@, LAMBDA id : id \notin ids)]

\* The edges of a node have the id of an edge with their name, or no id: then
\* nothing is removed.  They are removed in any order, until an id comes again.
IdOf(c, edge) == {id \in DOMAIN c.mEdges : c.mEdges[id].name = edge.name}
AtNode(c, node) == {edge \in c.edges : node \in {edge.tail, edge.head}}
Forget(c, id) ==
    [c EXCEPT !.edges = @ \ AtNode(c, c.mNodes[id]), !.nodes = @ \ {c.mNodes[id]},
              !.laidOut = @ \ {c.mNodes[id]},
              !.mNodes = RestrictDomain(@, LAMBDA x : x # id)]

\* Mutant of RemoveNodeId: graphviz removes the edges, the map keeps them.
RemoveNodeOnly(c, id) == {Forget(c, id)}
RemoveNodeId(c, id) ==
    LET listed == AtNode(c, c.mNodes[id])
        ids == UNION {IdOf(c, edge) : edge \in listed}
        again == {x \in ids : Cardinality({edge \in listed : x \in IdOf(c, edge)}) > 1}
    IN IF \E edge \in listed : IdOf(c, edge) = {} THEN {Throw(c)}
       ELSE IF again = {} THEN {Forget(RemoveEdgeIds(c, ids), id)}
       ELSE {Throw(RemoveEdgeIds(c, some)) : some \in {xs \in SUBSET ids : xs \cap again # {}}}

RemoveNodeIfThere(c, id) == IF id \in DOMAIN c.mNodes THEN RemoveNodeId(c, id) ELSE {c}

ClearEdges(c) == RemoveEdgeIds(c, DOMAIN c.mEdges)

\* As often as there are nodes, unless one throws.
RemoveFirstNode(c, n) == RemoveNodeIfThere(c, Min(DOMAIN c.mNodes))
ClearNodes(c) == CallAll({c}, [n \in 1 .. Cardinality(DOMAIN c.mNodes) |-> n], RemoveFirstNode)

---------------------------------------------------------------------------
(* Adding.  A node takes the place of one with its id, which goes with its     *)
(* edges; an edge takes the place of one with its id, which stays.             *)

AddGVNode(c, v) ==
    LET id == mpBaseGraph.vid[v] IN
    Call(RemoveNodeIfThere(c, id),
         LAMBDA d : {[d EXCEPT !.mNodes = Over(Entry(id, NodeName(v)), @), !.nodes = @ \cup {NodeName(v)}]})

EndIds(e) == {mpBaseGraph.vid[v] : v \in ToSet(EdgeEnds[e])}
GVEdge(c, e) == [name |-> EdgeName(e), tail |-> c.mNodes[mpBaseGraph.vid[EdgeEnds[e][1]]],
                 head |-> c.mNodes[mpBaseGraph.vid[EdgeEnds[e][2]]]]
AddGVEdge(c, e) ==
    IF EndIds(e) \subseteq DOMAIN c.mNodes
    THEN {[c EXCEPT !.edges = @ \cup {GVEdge(c, e)},
                    !.mEdges = Over(Entry(mpBaseGraph.eid[e], GVEdge(c, e)), @)]}
    ELSE {Throw(c)}

InitializeFromBaseGraph(c) ==
    CallAll(CallAll({c}, mpBaseGraph.vertices, AddGVNode), mpBaseGraph.edges, AddGVEdge)

---------------------------------------------------------------------------
(* Layouts.  Freeing one gives the context up, and nobody makes another.       *)
FreeLayout(c) == [c EXCEPT !.mpContext = FALSE, !.laidOut = {}]
Freed(c) == IF c.mAppliedLayout THEN FreeLayout(c) ELSE c
Clear(c) == ClearNodes(ClearEdges(Freed(c)))

ApplyGVLayout(c) ==
    IF DOMAIN c.mNodes = {} THEN c
    ELSE IF Freed(c).mpContext THEN [c EXCEPT !.mAppliedLayout = TRUE, !.laidOut = c.nodes]
    ELSE [Freed(c) EXCEPT !.crashed = TRUE]

\* Mutant of RenderToFile: the graph is laid out again in any case.
RenderAnew(c, forced) == LET d == ApplyGVLayout(c) IN IF d.laidOut = {} THEN Throw(d) ELSE d

\* Without a context, or with a node no layout has seen, rendering is undefined;
\* without any layout it fails.
RenderToFile(c, forced) ==
    LET d == IF forced \/ ~c.mAppliedLayout THEN ApplyGVLayout(c) ELSE c IN
    IF d.crashed \/ ~d.mpContext \/ (d.laidOut # {} /\ d.nodes # d.laidOut)
    THEN [d EXCEPT !.crashed = TRUE]
    ELSE IF d.laidOut = {} THEN Throw(d) ELSE d

\* GraphvizWriter::write, with a copy of its own.
GraphvizWrite == Call(InitializeFromBaseGraph(NewGraph),
                      LAMBDA c : {RenderToFile(ApplyGVLayout(c), FALSE)})

---------------------------------------------------------------------------
(* Whoever holds the copy makes calls of it and catches what they throw.       *)
Orphans(c, d) == {c.mEdges[id] : id \in {x \in DOMAIN c.mEdges \cap DOMAIN d.mEdges :
                                            c.mEdges[x] # d.mEdges[x]}} \cap d.edges
Becomes(copies) ==
    /\ ~gv.crashed
    /\ \E d \in copies : /\ gv' = [d EXCEPT !.thrown = FALSE]
                         /\ orphaned' = (orphaned \/ Orphans(gv, d) # {})
    /\ UNCHANGED <<mpBaseGraph, labels, edits>>

\* Every call asks the base graph for the id first.
CallNode(v) == \/ Becomes(AddGVNode(gv, v))
               \/ Becomes(RemoveNodeIfThere(gv, mpBaseGraph.vid[v]))
CallEdge(e) == \/ ToSet(EdgeEnds[e]) \subseteq ToSet(mpBaseGraph.vertices) /\ Becomes(AddGVEdge(gv, e))
               \/ mpBaseGraph.eid[e] \in DOMAIN gv.mEdges
                  /\ Becomes({RemoveEdgeIds(gv, {mpBaseGraph.eid[e]})})
CallAny == \/ Becomes(InitializeFromBaseGraph(gv))
           \/ Becomes(ClearNodes(gv)) \/ Becomes({ClearEdges(gv)}) \/ Becomes(Clear(gv))
           \/ Becomes({ApplyGVLayout(gv)})
           \/ \E forced \in BOOLEAN : Becomes({RenderToFile(gv, forced)})

ChangeBase(g) == /\ ~gv.crashed /\ edits < MaxEdits /\ edits' = edits + 1
                 /\ mpBaseGraph' = g /\ UNCHANGED <<gv, orphaned>>
EditBase ==
    \/ \E v \in Vertices : /\ ChangeBase(IF v \in DOMAIN mpBaseGraph.vid THEN WithoutVertex(mpBaseGraph, v)
                                       ELSE WithVertex(mpBaseGraph, v))
                           /\ UNCHANGED labels
    \/ \E e \in Edges : /\ Live(mpBaseGraph, e) /\ ChangeBase(WithoutEdge(mpBaseGraph, e))
                        /\ UNCHANGED labels
    \/ \E e \in Edges : /\ e \notin DOMAIN mpBaseGraph.eid
                        /\ ToSet(EdgeEnds[e]) \subseteq ToSet(mpBaseGraph.vertices)
                        /\ ChangeBase(WithEdge(mpBaseGraph, e)) /\ UNCHANGED labels
    \/ \E e \in Edges, l \in Labels : labels' = [labels EXCEPT ![e] = l] /\ ChangeBase(mpBaseGraph)

GVInit == /\ mpBaseGraph = GraphOf(SetToSeq(Vertices), SetToSeq(Edges))
          /\ labels = [e \in Edges |-> CHOOSE l \in Labels : TRUE]
          /\ gv = NewGraph /\ edits = 0 /\ orphaned = FALSE
GVNext ==
    \/ \E v \in DOMAIN mpBaseGraph.vid : CallNode(v)
    \/ \E e \in DOMAIN mpBaseGraph.eid : CallEdge(e)
    \/ CallAny
    \/ EditBase
GVSpec == GVInit /\ [][GVNext]_gvVars

---------------------------------------------------------------------------
\* The maps hold no node and no edge that graphviz no longer has, however calls
\* and changes of the base graph follow each other, and also when a call threw
\* half way.  And they hold all graphviz has, so that clearing finds everything,
\* until an edge takes the place of another in the map (GVGraph::addNode,
\* addEdge, removeNode, getId).
MapsMatch ==
    /\ Range(gv.mNodes) \subseteq gv.nodes /\ Range(gv.mEdges) \subseteq gv.edges
    /\ ~orphaned => gv.nodes = Range(gv.mNodes) /\ gv.edges = Range(gv.mEdges)

\* A graph that is written is laid out once and rendered: the writer throws for
\* the empty graph and never meets a layout that was freed, whatever ids the
\* graph has (GraphvizWriter::write).
WriterRendersOnce ==
    \A c \in GraphvizWrite : ~c.crashed /\ (c.thrown <=> mpBaseGraph.vertices = <<>>)
=============================================================================
