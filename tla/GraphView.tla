------------------------------ MODULE GraphView ------------------------------
(* GraphAnalysisGui and its BaseGraphView: a window that shows one graph.  The  *)
(* program changes the graph and every event of it redraws the view; a person  *)
(* moves items, chooses layouts and imports other graphs.  All of this is done *)
(* by one thread: a step is an event it handles.                               *)
EXTENDS LemonGraph

CONSTANTS FirstGraph,          \* the graph the window is opened with
          Importable,          \* graphs that can be imported, of elements of their own
          Origin, Positions,   \* where items are created; other places
          MaxChanges           \* bound: changes, layouts, moves and imports

\* The window is opened with a graph: it has every element once, and its edges
\* have their ends in it.
ASSUME StartAssumption ==
    /\ FirstGraph = GraphOf(FirstGraph.vertices, FirstGraph.edges)
    /\ FirstGraph.vertices \in Seq(Vertices) /\ FirstGraph.edges \in Seq(Edges)
    /\ IsInjective(FirstGraph.vertices) /\ IsInjective(FirstGraph.edges)
    /\ \A e \in ToSet(FirstGraph.edges) : ToSet(EdgeEnds[e]) \subseteq ToSet(FirstGraph.vertices)

VARIABLES
    graph,         \* the graph: see GraphOf
    view,          \* the scene: see NewView
    mCoordinates,  \* what GridLayout remembers
    connected,     \* graphChanged of the current QBaseGraph reaches the window
    status,        \* "ok"; "ended" when the program was terminated or crashed
    changes

viewVars == <<graph, view, mCoordinates, connected, status, changes>>

NoLine == <<>>

---------------------------------------------------------------------------
(* The view: the items of vertices and edges, and where movable items were.    *)
NewView == [items |-> <<>>, edgeItems |-> <<>>, mItemCoordinateCache |-> <<>>, crashed |-> FALSE]

\* clearVisualization leaves the cache.
ClearVisualization(w) == [w EXCEPT !.items = <<>>, !.edgeItems = <<>>]

\* populateCanvas makes an item for every element; it takes the place of an
\* older one in the maps.  A line is drawn when one of its ends moves.
VertexItem == [pos |-> Origin, visible |-> TRUE]
EdgeItem == [points |-> NoLine, visible |-> TRUE]
PopulateCanvas(w, g) ==
    [w EXCEPT !.items = Over([v \in ToSet(g.vertices) |-> VertexItem], @),
              !.edgeItems = Over([e \in ToSet(g.edges) |-> EdgeItem], @)]

\* Mutant of UpdateEdgePositions: only the edges that leave the vertex follow.
UpdateEdgePositionsOut(w, g, moved) ==
    [w EXCEPT !.edgeItems = [e \in DOMAIN @ |->
        IF Live(g, e) /\ EdgeEnds[e][1] \in moved
        THEN [@[e] EXCEPT !.points = <<w.items[EdgeEnds[e][1]].pos, w.items[EdgeEnds[e][2]].pos>>]
        ELSE @[e]]]

\* The lines of all edges at a moved item are drawn anew.
UpdateEdgePositions(w, g, moved) ==
    [w EXCEPT !.edgeItems = [e \in DOMAIN @ |->
        IF Live(g, e) /\ ToSet(EdgeEnds[e]) \cap moved # {}
        THEN [@[e] EXCEPT !.points = <<w.items[EdgeEnds[e][1]].pos, w.items[EdgeEnds[e][2]].pos>>]
        ELSE @[e]]]

\* Mutant of CacheVertexItemPosition: the first position is kept.
CacheFirstPosition(w, moved) ==
    [w EXCEPT !.mItemCoordinateCache = Over(@, [v \in moved |-> w.items[v].pos])]
CacheVertexItemPosition(w, moved) ==
    [w EXCEPT !.mItemCoordinateCache = Over([v \in moved |-> w.items[v].pos], @)]

\* Setting positions: an item that is there already says nothing, the others
\* take their lines with them and are remembered.
SetPos(w, g, coordinates) ==
    LET moved == {v \in DOMAIN coordinates : w.items[v].pos # coordinates[v]}
        placed == [w EXCEPT !.items = [v \in DOMAIN @ |->
                     IF v \in moved THEN [@[v] EXCEPT !.pos = coordinates[v]] ELSE @[v]]]
    IN CacheVertexItemPosition(UpdateEdgePositions(placed, g, moved), moved)

\* applyLayout.  A position of a vertex without an item is erased from the map
\* the loop goes over: the loop then ends anywhere, or the program does. (That
\* looking for the item also leaves an empty entry in mVertexItemMap is left out:
\* every redraw drops it, and only the vertex's return to a graph the window does
\* not hear of would find it.)
Crash == [NewView EXCEPT !.crashed = TRUE]
ApplyLayout(w, g, coordinates) ==
    LET populated == PopulateCanvas(w, g)
        known == DOMAIN coordinates \cap DOMAIN populated.items
    IN IF known = DOMAIN coordinates THEN {SetPos(populated, g, coordinates)}
       ELSE {Crash} \cup
            {SetPos(populated, g, Restrict(coordinates, some)) : some \in SUBSET known}

\* Does what Do does unless the program has crashed.
Then(views, Do(_)) == UNION {IF w.crashed THEN {w} ELSE Do(w) : w \in views}

Update(w, g) == ApplyLayout(w, g, w.mItemCoordinateCache)

UpdateVisualization(w, g) == Update(ClearVisualization(w), g)

---------------------------------------------------------------------------
(* Layouts.  GVLayout places every vertex of the graph, on a canvas of its own *)
(* that is made anew; GridLayout places the items in the scene, and never      *)
(* forgets a vertex it has placed.                                             *)
GVLayout(g) == [ToSet(g.vertices) -> Positions]

GridCoordinates(w, g, cells) ==
    Over(Restrict(cells, ToSet(g.vertices) \cap DOMAIN w.items), mCoordinates)

Shows(views) ==
    \E w \in views : IF w.crashed THEN status' = "ended" /\ UNCHANGED view
                     ELSE view' = w /\ UNCHANGED status

Change == status = "ok" /\ changes < MaxChanges /\ changes' = changes + 1

\* selectLayout shows the layout, clears the scene and shows the positions that
\* were remembered.
SelectDot ==
    /\ Change
    /\ \E coordinates \in GVLayout(graph) :
          Shows(Then(ApplyLayout(view, graph, coordinates),
                     LAMBDA w : UpdateVisualization(w, graph)))
    /\ UNCHANGED <<graph, mCoordinates, connected>>

SelectGrid ==
    /\ Change
    /\ \E cells \in GVLayout(graph) :
          LET coordinates == GridCoordinates(view, graph, cells)
              onGrid == SetPos(view, graph,
                               Restrict(coordinates, ToSet(graph.vertices) \cap DOMAIN view.items))
          IN /\ mCoordinates' = coordinates
             /\ Shows(Then(ApplyLayout(onGrid, graph, coordinates),
                           LAMBDA w : UpdateVisualization(w, graph)))
    /\ UNCHANGED <<graph, connected>>

---------------------------------------------------------------------------
(* The graph changes: by the program, or by a person who clicks for a vertex   *)
(* or draws an edge.                                                           *)
Notify(g) ==
    /\ graph' = g
    /\ IF connected THEN Shows(UpdateVisualization(view, g)) ELSE UNCHANGED <<view, status>>
    /\ UNCHANGED <<mCoordinates, connected>>

AddVertex(v) == Change /\ v \notin DOMAIN graph.vid /\ Notify(WithVertex(graph, v))
AddEdge(e) ==
    /\ Change /\ e \notin DOMAIN graph.eid /\ ToSet(EdgeEnds[e]) \subseteq ToSet(graph.vertices)
    /\ Notify(WithEdge(graph, e))
RemoveVertex(v) == Change /\ v \in ToSet(graph.vertices) /\ Notify(WithoutVertex(graph, v))
RemoveEdge(e) == Change /\ Live(graph, e) /\ Notify(WithoutEdge(graph, e))

\* Moving an item asks the graph for the edges of its vertex, which throws if
\* the graph no longer has it.
MovesTo(coordinates) ==
    /\ Change
    /\ IF \A v \in DOMAIN coordinates :
             view.items[v].pos # coordinates[v] => v \in ToSet(graph.vertices)
       THEN view' = SetPos(view, graph, coordinates) /\ UNCHANGED status
       ELSE status' = "ended" /\ UNCHANGED view
    /\ UNCHANGED <<graph, mCoordinates, connected>>

Move(v, p) == v \in DOMAIN view.items /\ MovesTo(Entry(v, p))

\* Ctrl+R: every item goes somewhere; Ctrl+L, or another tab: as after a change.
Shuffle == view.items # <<>> /\
           \E coordinates \in [DOMAIN view.items -> Positions \cup {Origin}] : MovesTo(coordinates)

Redraw == /\ Change
          /\ Shows(UpdateVisualization(view, graph))
          /\ UNCHANGED <<graph, mCoordinates, connected>>

\* activateGraph: the graph is another, its observer is not connected.
ActivateGraph(g) ==
    /\ Change
    /\ graph' = g /\ connected' = FALSE
    /\ \E coordinates \in GVLayout(g) :
          LET shown == Then(Update(ClearVisualization(view), g),
                            LAMBDA w : UpdateVisualization(w, g))
              laidOut == Then(shown, LAMBDA w : ApplyLayout(w, g, coordinates))
          IN Shows(Then(laidOut, LAMBDA w : UpdateVisualization(w, g)))
    /\ UNCHANGED mCoordinates

\* A file that cannot be read, and a dialog that is cancelled, change nothing.
ImportGraph(g) ==
    /\ ToSet(g.vertices) \cap (DOMAIN view.mItemCoordinateCache \cup DOMAIN graph.vid) = {}
    /\ ActivateGraph(g)

ViewInit ==
    /\ graph = FirstGraph
    /\ view \in UpdateVisualization(NewView, FirstGraph)
    /\ mCoordinates = <<>> /\ connected = TRUE /\ status = "ok" /\ changes = 0

ViewChange ==
    \/ \E v \in Vertices : AddVertex(v) \/ RemoveVertex(v)
    \/ \E e \in Edges : AddEdge(e) \/ RemoveEdge(e)
    \/ \E v \in Vertices, p \in Positions \cup {Origin} : Move(v, p)
    \/ SelectDot \/ SelectGrid \/ Shuffle \/ Redraw

---------------------------------------------------------------------------

\* As long as the graph's changes reach the window, the line of every edge of it
\* is drawn between the places where its ends are, unless these have never moved
\* (GraphWidget::updateEdgePositions).  A graph that was imported changes unseen:
\* the line of an edge that left it and came back stays where it was.
EdgesFollowItems ==
    status = "ok" /\ connected =>
      \A e \in DOMAIN view.edgeItems : Live(graph, e) =>
         LET at == [i \in {1, 2} |-> view.items[EdgeEnds[e][i]].pos]
         IN view.edgeItems[e].points \in
               {<<at[1], at[2]>>} \cup IF at = <<Origin, Origin>> THEN {NoLine} ELSE {}

\* Redrawing after a change of the graph leaves every item where it was, as
\* long as no vertex with a remembered position has left the graph
\* (GraphWidget::vertexPositionHasChanged caches the position to reload it).
LayoutSurvivesChange ==
    [][graph' # graph /\ connected' /\ status' = "ok"
       /\ DOMAIN view.mItemCoordinateCache \subseteq
             ToSet(graph.vertices) \cap ToSet(graph'.vertices)
       => \A v \in DOMAIN view.items \cap DOMAIN view'.items :
             view'.items[v].pos = view.items[v].pos]_viewVars
=============================================================================
