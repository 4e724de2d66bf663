-------------------------------- MODULE SubGraph --------------------------------
(***************************************************************************)
(* A SubGraph over a BaseGraph: a view whose members are switched on and   *)
(* off while the graph underneath goes on changing.  lemon keeps one bool  *)
(* per node and arc in maps that follow the graph; SubGraph.cpp, used for  *)
(* the other back-ends, keeps the sets of disabled ids and never hears of  *)
(* the graph's changes.                                                    *)
(***************************************************************************)
EXTENDS BaseGraph

CONSTANTS
  MemberMaps,       \* lemon's maps (TRUE) or SubGraph.cpp's sets (FALSE)
  VertexFilters,    \* what applyFilters may be called with: sets with the
  EdgeFilters       \*   filter, or empty for Filter::Null()

\* An arc left behind by a throwing observer would make disable(vertex) throw;
\* such arcs are the subject of BaseGraph.
ASSUME MemberAssumption ==
  /\ MemberMaps \in BOOLEAN
  /\ ObserversThrow = FALSE

VARIABLES
  mDisabledVertices,  \* the ids that are not members; with maps, the ids
  mDisabledEdges      \*   whose entry is false

members == <<mDisabledVertices, mDisabledEdges>>

EnabledVertices ==
  {v \in Vertices : HasVertex(g, v) /\ g.vid[v] \notin mDisabledVertices}
EnabledEdges ==
  {e \in Edges : HasEdge(g, e) /\ g.eid[e] \notin mDisabledEdges}

GraphVertices == {g.node[i] : i \in LiveNodes(g)}
GraphEdges    == {g.arc[i].edge : i \in LiveArcs(g)}

VertexIds(vs) == {g.vid[v] : v \in vs}
EdgeIds(es)   == {g.eid[e] : e \in es}

\* Mutant of Incident: only the edges that leave the vertex.
IncidentOut(v) == {e \in GraphEdges : v = Source[e]}

\* BaseGraph::getEdgeIterator(vertex): the in-arcs, then the out-arcs.
Incident(v) == {e \in GraphEdges : v \in {Source[e], Target[e]}}

\* The ids disabled in a new subgraph before a filter is applied.
Blank == IF MemberMaps THEN Ids ELSE {}

SubInit ==
  /\ Init
  /\ mDisabledVertices = Blank
  /\ mDisabledEdges = Blank

\* lemon resets the entry of an erased node or arc; a set is not told.
Followed(disabled, before, after) ==
  IF MemberMaps THEN disabled \cup (before \ after) ELSE disabled

\* A step of the graph, and what it does to the members of the view.
GraphStep ==
  /\ Next
  /\ mDisabledVertices' = Followed(mDisabledVertices, LiveNodes(g), LiveNodes(g'))
  /\ mDisabledEdges' = Followed(mDisabledEdges, LiveArcs(g), LiveArcs(g'))

\* getSubGraph: a new view of the graph, with everything in it enabled.
GetSubGraph ==
  /\ Calling
  /\ mDisabledVertices' = Blank \ LiveNodes(g)
  /\ mDisabledEdges' = Blank \ LiveArcs(g)
  /\ UNCHANGED vars

EnableVertex(v) ==
  /\ Calling /\ HasVertex(g, v)
  /\ mDisabledVertices' = mDisabledVertices \ {g.vid[v]}
  /\ UNCHANGED <<vars, mDisabledEdges>>

\* lemon's disable(vertex) disables the edges at the vertex too.
EdgesDisabledWith(vs) ==
  IF MemberMaps THEN EdgeIds(UNION {Incident(v) : v \in vs}) ELSE {}

DisableVertex(v) ==
  /\ Calling /\ HasVertex(g, v)
  /\ mDisabledVertices' = mDisabledVertices \cup {g.vid[v]}
  /\ mDisabledEdges' = mDisabledEdges \cup EdgesDisabledWith({v})
  /\ UNCHANGED vars

EnableEdge(e) ==
  /\ Calling /\ HasEdge(g, e)
  /\ mDisabledEdges' = mDisabledEdges \ {g.eid[e]}
  /\ UNCHANGED <<vars, mDisabledVertices>>

DisableEdge(e) ==
  /\ Calling /\ HasEdge(g, e)
  /\ mDisabledEdges' = mDisabledEdges \cup {g.eid[e]}
  /\ UNCHANGED <<vars, mDisabledVertices>>

\* The edges applyFilters disables: those a context filter matches, in
\* themselves and at both ends. Other filters disable no edge.
FilteredEdges(filter) ==
  IF filter.context THEN filter.matches \cap filter.sources \cap filter.targets ELSE {}

\* What is disabled after the edges have been filtered.
AfterEdges(efs) ==
  (IF efs = {} THEN mDisabledEdges ELSE mDisabledEdges \ EdgeIds(GraphEdges))
    \cup EdgeIds(UNION {FilteredEdges(f) \cap GraphEdges : f \in efs})

\* applyFilters: first the edges, then the vertices, whose disabling may
\* disable edges again. (disableAllEdges etc. call it with fixed filters.)
\* Edges that the filter does not disable are enabled, whatever their ends.
ApplyFilters(vfs, efs) ==
  LET matched == (UNION vfs) \cap GraphVertices
  IN  /\ Calling
      /\ mDisabledVertices' =
           IF vfs = {} THEN mDisabledVertices
           ELSE (mDisabledVertices \ VertexIds(GraphVertices)) \cup VertexIds(matched)
      /\ mDisabledEdges' = AfterEdges(efs) \cup EdgesDisabledWith(matched)
      /\ UNCHANGED vars

SubNext ==
  \/ GraphStep
  \/ GetSubGraph
  \/ \E v \in Vertices : EnableVertex(v) \/ DisableVertex(v)
  \/ \E e \in Edges : EnableEdge(e) \/ DisableEdge(e)
  \/ \E vfs \in VertexFilters, efs \in EdgeFilters : ApplyFilters(vfs, efs)

SubSpec == SubInit /\ [][SubNext]_<<vars, members>>

-----------------------------------------------------------------------------
\* toBaseGraph adds the enabled vertices and then the enabled edges to a new
\* graph, whose addEdge adds the end points that are missing.
ExportedVertices ==
  (GraphVertices \cap EnabledVertices) \cup
    UNION {{Source[e], Target[e]} : e \in GraphEdges \cap EnabledEdges}

-----------------------------------------------------------------------------
SubTypeOK ==
  /\ TypeOK
  /\ mDisabledVertices \subseteq Ids
  /\ mDisabledEdges \subseteq Ids

\* toBaseGraph copies "only the enabled nodes and edges" (SubGraph.hpp:132). It
\* does not where an edge was enabled whose end is disabled: addEdge brings the
\* end along.
ExportIsView == ExportedVertices \subseteq EnabledVertices

\* "Disabling a vertex will result in disabling all outgoing or incoming edges"
\* (SubGraph.hpp:26): a vertex that stays in the graph stops being a member,
\* whether by hand, by a filter that has just enabled all edges, or by
\* percolation, only together with its edges. lemon's views keep this promise,
\* those of SubGraph.cpp do not.
VertexTakesItsEdges ==
  [][\A v \in EnabledVertices \ EnabledVertices' :
       HasVertex(g, v)' => \A e \in EnabledEdges' : v \notin {Source[e], Target[e]}
    ]_<<vars, members>>

\* The view keeps up with the graph: a step of the graph never changes whether
\* an element that stays is a member, and every element that arrives has the
\* default state (not a member with maps, a member with sets), not that of a
\* former owner of its id.
KeepsUp ==
  [][g' # g =>
       /\ \A v \in Vertices :
            HasVertex(g, v)' =>
              (v \in EnabledVertices' <=>
                 IF HasVertex(g, v) THEN v \in EnabledVertices ELSE ~MemberMaps)
       /\ \A e \in Edges :
            HasEdge(g, e)' =>
              (e \in EnabledEdges' <=>
                 IF HasEdge(g, e) THEN e \in EnabledEdges ELSE ~MemberMaps)
    ]_<<vars, members>>
=============================================================================
