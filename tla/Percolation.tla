------------------------------ MODULE Percolation ------------------------------
(***************************************************************************)
(* Percolation simulates the loss of vertices and edges: it keeps a view   *)
(* of a graph, strategies switch random members of it off and return an    *)
(* event for each, and reset switches everything on again.  The graph may  *)
(* go on changing meanwhile.                                               *)
(***************************************************************************)
EXTENDS SubGraph

VARIABLES
  percolating,  \* the view is left to percolation; others switch it by hand
  gone          \* history: the elements whose loss the events since the last
                \* reset report, and what went or came without an event

percVars == <<percolating, gone>>

\* Percolation::Percolation: a new view of the graph, everything enabled.
NewPercolation == GetSubGraph /\ gone' = {}

PercInit == SubInit /\ gone = {} /\ percolating \in BOOLEAN

LiveElements == GraphVertices \cup GraphEdges

\* UniformRandomVertexRemoval::apply: a random number decides for every vertex
\* of the view; REMOVE_VERTEX events for those that are disabled. lemon's view
\* loses their edges too, of which no event tells.
RemoveVertices(vs) ==
  /\ Calling
  /\ vs \subseteq EnabledVertices \cap GraphVertices
  /\ mDisabledVertices' = mDisabledVertices \cup VertexIds(vs)
  /\ mDisabledEdges' = mDisabledEdges \cup EdgesDisabledWith(vs)
  /\ gone' = gone \cup vs
               \cup (IF MemberMaps THEN UNION {Incident(v) : v \in vs} ELSE {})
  /\ UNCHANGED vars

\* UniformRandomEdgeRemoval::apply, with REMOVE_EDGE events.
RemoveEdgesOfView(es) ==
  /\ Calling
  /\ es \subseteq EnabledEdges \cap GraphEdges
  /\ mDisabledEdges' = mDisabledEdges \cup EdgeIds(es)
  /\ gone' = gone \cup es
  /\ UNCHANGED <<vars, mDisabledVertices>>

\* Mutant of Reset: only the edges come back.
ResetEdges ==
  /\ Calling
  /\ mDisabledEdges' = mDisabledEdges \ EdgeIds(GraphEdges)
  /\ gone' = {}
  /\ UNCHANGED <<vars, mDisabledVertices>>

\* Percolation::reset: enableAllVertices, then enableAllEdges.
Reset ==
  /\ Calling
  /\ mDisabledVertices' = mDisabledVertices \ VertexIds(GraphVertices)
  /\ mDisabledEdges' = mDisabledEdges \ EdgeIds(GraphEdges)
  /\ gone' = {}
  /\ UNCHANGED vars

\* The graph changes: elements that leave it count no more, and lemon's view
\* starts without those that arrive.
Meanwhile ==
  /\ GraphStep
  /\ gone' = (gone \cap LiveElements') \cup
                (IF MemberMaps THEN LiveElements' \ LiveElements ELSE {})

PercNext ==
  /\ UNCHANGED percolating
  /\ \/ /\ percolating
        /\ \/ NewPercolation \/ Reset \/ Meanwhile
           \/ \E vs \in SUBSET EnabledVertices : RemoveVertices(vs)
           \/ \E es \in SUBSET EnabledEdges : RemoveEdgesOfView(es)
     \/ ~percolating /\ SubNext /\ UNCHANGED gone

PercSpec == PercInit /\ [][PercNext]_<<vars, members, percVars>>

\* The events tell what is left of the graph: through any mix of strategies,
\* resets and changes of the graph, a live element is missing from the view
\* exactly if an event since the last reset reported its loss, or that of a
\* vertex lemon's view lost it with, or it came to lemon's graph later.
EventsTellTheView ==
  percolating => LiveElements \ (EnabledVertices \cup EnabledEdges) = gone
=============================================================================
