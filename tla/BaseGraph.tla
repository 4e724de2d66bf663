------------------------------- MODULE BaseGraph -------------------------------
(***************************************************************************)
(* One graph of the library: the calls of BaseGraph that change it, over   *)
(* the id-indexed containers of a back-end (lemon::ListDigraph, or snap's  *)
(* TNodeEdgeNet), with the ids each vertex and edge keeps for the graph    *)
(* (GraphElement::mGraphElementMap) and the events its observers get.      *)
(*                                                                         *)
(* The library is called from one thread: a call that loops over the graph *)
(* (clear, removeEdges) is a sequence of steps, because an exception of an *)
(* observer can end it after any of them.                                  *)
(***************************************************************************)
EXTENDS Integers, FiniteSets

CONSTANTS
  Vertices, Edges,     \* the elements of the program
  Source, Target,      \* the end points of every edge
  NoVertex, NoArc,     \* contents of an id that is not in use
  MaxIds,              \* bound: a back-end hands out the ids below MaxIds
  RecyclesIds,         \* lemon reuses freed ids, snap counts up
  RemovesEdgesFirst,   \* callers remove a vertex only after its edges
  ObserversThrow       \* an observer's notify may throw

Ids == 0 .. MaxIds - 1
NoId == -1
Arcs == [edge : Edges, from : Ids, to : Ids]

ASSUME ElementAssumption ==
  /\ NoVertex \notin Vertices
  /\ NoArc \notin Arcs
  /\ Source \in [Edges -> Vertices]
  /\ Target \in [Edges -> Vertices]

ASSUME ModeAssumption ==
  /\ MaxIds \in Nat
  /\ RecyclesIds \in BOOLEAN
  /\ RemovesEdgesFirst \in BOOLEAN
  /\ ObserversThrow \in BOOLEAN

\* snap finds the edges at a vertex by their end points (GetEI) and so yields
\* one of several parallel edges repeatedly: they are left to lemon.
ASSUME ParallelAssumption ==
  ~RecyclesIds =>
    \A e, f \in Edges : Source[e] = Source[f] /\ Target[e] = Target[f] => e = f

VARIABLES
  g,             \* associations and back-end containers, see Graphs
  seenVertices,  \* what an observer that follows the events believes
  seenEdges,     \*   to be in the graph
  op,            \* the call in progress, or how the last one ended
  pending        \* removeEdges: the edges collected and not yet removed

vars == <<g, seenVertices, seenEdges, op, pending>>

(***************************************************************************)
(* vid, eid   : the id an element is associated with, NoId if none         *)
(* node, arc  : the back-end's containers (mVertexMap; mEdgeMap and ends)  *)
(* nodes, arcs: how many ids the back-end has ever handed out              *)
(***************************************************************************)
Graphs ==
  [vid : [Vertices -> Ids \cup {NoId}], eid : [Edges -> Ids \cup {NoId}],
   node : [Ids -> Vertices \cup {NoVertex}], arc : [Ids -> Arcs \cup {NoArc}],
   nodes : 0 .. MaxIds, arcs : 0 .. MaxIds]

Empty ==
  [vid |-> [v \in Vertices |-> NoId], eid |-> [e \in Edges |-> NoId],
   node |-> [i \in Ids |-> NoVertex], arc |-> [i \in Ids |-> NoArc],
   nodes |-> 0, arcs |-> 0]

HasVertex(h, v) == h.vid[v] # NoId
HasEdge(h, e)   == h.eid[e] # NoId
LiveNodes(h)    == {i \in Ids : h.node[i] # NoVertex}
LiveArcs(h)     == {i \in Ids : h.arc[i] # NoArc}

\* Mutant of NewIds: freed ids are reused by a back-end that counts up.
NewIdsRecycled(live, count) ==
  LET freed == (0 .. count - 1) \ live
  IN  IF freed # {} THEN freed ELSE {count} \cap Ids

\* The ids a back-end may give to a new element: a freed one if it reuses
\* them and has any, else the next one.
NewIds(live, count) ==
  LET freed == (0 .. count - 1) \ live
  IN  IF RecyclesIds /\ freed # {} THEN freed ELSE {count} \cap Ids

Counted(count, i) == IF i = count THEN count + 1 ELSE count

(***************************************************************************)
(* The back-end primitives: add/removeVertexInternal, add/removeEdge-      *)
(* Internal with the (dis)association of the element.  Erasing a node      *)
(* erases its arcs, but not the associations of the edges they stand for.  *)
(***************************************************************************)
WithVertex(h, v, i) ==
  [h EXCEPT !.vid[v] = i, !.node[i] = v, !.nodes = Counted(@, i)]

WithEdge(h, e, i) ==
  [h EXCEPT !.eid[e] = i, !.arcs = Counted(@, i),
            !.arc[i] = [edge |-> e, from |-> h.vid[Source[e]],
                                    to   |-> h.vid[Target[e]]]]

WithoutVertex(h, v) ==
  [h EXCEPT !.vid[v] = NoId, !.node[h.vid[v]] = NoVertex,
            !.arc = [i \in Ids |->
                       IF h.arc[i] # NoArc /\ h.vid[v] \in {h.arc[i].from, h.arc[i].to}
                       THEN NoArc ELSE h.arc[i]]]

\* Mutant of WithoutEdge: no disassociation.
WithoutEdgeAssociated(h, e) == [h EXCEPT !.arc[h.eid[e]] = NoArc]

WithoutEdge(h, e) ==
  [h EXCEPT !.eid[e] = NoId, !.arc[h.eid[e]] = NoArc]

(***************************************************************************)
(* Notification.  The observers are a set of pointers: one that throws may *)
(* come before or after the one that follows the events.                   *)
(***************************************************************************)
Outcomes   == {"delivered"} \cup
              (IF ObserversThrow THEN {"threw before", "threw after"} ELSE {})
Reached(o) == o # "threw before"
Threw(o)   == o # "delivered"
Ended(o)   == IF Threw(o) THEN "raised" ELSE "idle"

Calling == op \in {"idle", "raised"}

-----------------------------------------------------------------------------
Init ==
  /\ g = Empty
  /\ seenVertices = {} /\ seenEdges = {}
  /\ op = "idle"
  /\ pending = {}

\* A call whose precondition fails throws before it changes anything.
Rejected ==
  /\ Calling
  /\ op' = "raised"
  /\ UNCHANGED <<g, seenVertices, seenEdges, pending>>

AddVertex(v) ==
  /\ Calling
  /\ ~HasVertex(g, v)
  /\ \E i \in NewIds(LiveNodes(g), g.nodes), o \in Outcomes :
       /\ g' = WithVertex(g, v, i)
       /\ seenVertices' = IF Reached(o) THEN seenVertices \cup {v} ELSE seenVertices
       /\ op' = Ended(o)
  /\ UNCHANGED <<seenEdges, pending>>

\* Mutant of Joined: addEdge does not add missing end points.
JoinedNever(h, v) == {h}

\* The graphs addEdge's addVertex(v), with its exceptions swallowed, can leave.
Joined(h, v) ==
  IF HasVertex(h, v) THEN {h}
  ELSE {WithVertex(h, v, i) : i \in NewIds(LiveNodes(h), h.nodes)}

\* Mutant of Arriving: end points are added without an event.
ArrivingNever(added) == {{}}

\* The vertices whose ADDED event arrives: all, unless an observer throws.
Arriving(added) == IF ObserversThrow THEN SUBSET added ELSE {added}

\* End points not in the graph are added first.  If the ADDED event of the
\* edge throws, the edge is disassociated, but its arc stays.
AddEdge(e) ==
  /\ Calling
  /\ ~HasEdge(g, e)
  /\ \E h1 \in Joined(g, Source[e]) : \E h2 \in Joined(h1, Target[e]) :
     \E i \in NewIds(LiveArcs(h2), h2.arcs), o \in Outcomes,
        told \in Arriving({v \in {Source[e], Target[e]} : ~HasVertex(g, v)}) :
       /\ g' = IF Threw(o) THEN [WithEdge(h2, e, i) EXCEPT !.eid[e] = NoId]
                           ELSE WithEdge(h2, e, i)
       /\ seenVertices' = seenVertices \cup told
       /\ seenEdges' = IF Reached(o) THEN seenEdges \cup {e} ELSE seenEdges
       /\ op' = Ended(o)
  /\ UNCHANGED pending

\* removeVertex on an associated vertex; next is how the caller goes on.
DropVertex(v, next) ==
  \E o \in Outcomes :
    /\ g' = WithoutVertex(g, v)
    /\ seenVertices' = IF Reached(o) THEN seenVertices \ {v} ELSE seenVertices
    /\ op' = IF Threw(o) THEN "raised" ELSE next
    /\ UNCHANGED seenEdges

RemoveVertex(v) ==
  /\ Calling
  /\ HasVertex(g, v)
  /\ RemovesEdgesFirst =>
       \A e \in Edges : HasEdge(g, e) => v \notin {Source[e], Target[e]}
  /\ DropVertex(v, "idle")
  /\ UNCHANGED pending

\* removeEdge on any edge.  Erasing an id the back-end has already freed is
\* undefined behaviour (lemon) or a failed assertion (snap): the model stops.
DropEdge(e, next) ==
  \/ /\ ~HasEdge(g, e)
     /\ op' = "raised"
     /\ UNCHANGED <<g, seenVertices, seenEdges>>
  \/ /\ HasEdge(g, e)
     /\ g.eid[e] \notin LiveArcs(g)
     /\ op' = "undefined"
     /\ UNCHANGED <<g, seenVertices, seenEdges>>
  \/ /\ HasEdge(g, e)
     /\ g.eid[e] \in LiveArcs(g)
     /\ \E o \in Outcomes :
          /\ g' = WithoutEdge(g, e)
          /\ seenEdges' = IF Reached(o) THEN seenEdges \ {e} ELSE seenEdges
          /\ op' = IF Threw(o) THEN "raised" ELSE next
     /\ UNCHANGED seenVertices

RemoveEdge(e) ==
  /\ Calling
  /\ HasEdge(g, e)
  /\ DropEdge(e, "idle")
  /\ UNCHANGED pending

\* Mutant of EdgesBetween: the direction is ignored.
EdgesBetweenEitherWay(a, b) ==
  {i \in LiveArcs(g) : {Source[g.arc[i].edge], Target[g.arc[i].edge]} = {a, b}}

\* getEdges(a, b): the in-arcs of b whose edge has source a.
EdgesBetween(a, b) ==
  {i \in LiveArcs(g) : g.arc[i].to = g.vid[b] /\ Source[g.arc[i].edge] = a}

\* removeEdges(a, b) first collects getEdges(a, b) and then getEdges(b, a).
BeginRemoveEdges(a, b) ==
  /\ Calling
  /\ HasVertex(g, a) /\ HasVertex(g, b)
  /\ pending' = {<<1, i, g.arc[i].edge>> : i \in EdgesBetween(a, b)} \cup
                {<<2, i, g.arc[i].edge>> : i \in EdgesBetween(b, a)}
  /\ op' = "removeEdges"
  /\ UNCHANGED <<g, seenVertices, seenEdges>>

RemoveNext ==
  /\ op = "removeEdges"
  /\ \E p \in pending :
       /\ \A q \in pending : p[1] <= q[1]
       /\ DropEdge(p[3], "removeEdges")
       /\ pending' = IF op' = "removeEdges" THEN pending \ {p} ELSE {}

EndRemoveEdges ==
  /\ op = "removeEdges" /\ pending = {}
  /\ op' = "idle"
  /\ UNCHANGED <<g, seenVertices, seenEdges, pending>>

BeginClear ==
  /\ Calling
  /\ op' = "clearEdges"
  /\ UNCHANGED <<g, seenVertices, seenEdges, pending>>

\* Every round of clear takes the first element of a new iterator.
ClearEdge ==
  /\ op = "clearEdges"
  /\ \E i \in LiveArcs(g) : DropEdge(g.arc[i].edge, "clearEdges")
  /\ UNCHANGED pending

\* Mutants of ClearVertices: it does not wait for the edges; an empty graph
\* keeps it waiting.
ClearVerticesFirst ==
  /\ op = "clearEdges"
  /\ op' = "clearVertices"
  /\ UNCHANGED <<g, seenVertices, seenEdges, pending>>

ClearVerticesOfAny ==
  /\ op = "clearEdges" /\ LiveArcs(g) = {} /\ LiveNodes(g) # {}
  /\ op' = "clearVertices"
  /\ UNCHANGED <<g, seenVertices, seenEdges, pending>>

ClearVertices ==
  /\ op = "clearEdges" /\ LiveArcs(g) = {}
  /\ op' = "clearVertices"
  /\ UNCHANGED <<g, seenVertices, seenEdges, pending>>

ClearVertex ==
  /\ op = "clearVertices"
  /\ \E i \in LiveNodes(g) : DropVertex(g.node[i], "clearVertices")
  /\ UNCHANGED pending

EndClear ==
  /\ op = "clearVertices" /\ LiveNodes(g) = {}
  /\ op' = "idle"
  /\ UNCHANGED <<g, seenVertices, seenEdges, pending>>

Running ==
  \/ RemoveNext \/ EndRemoveEdges
  \/ ClearEdge \/ ClearVertices \/ ClearVertex \/ EndClear

Next ==
  \/ Rejected
  \/ \E v \in Vertices : AddVertex(v) \/ RemoveVertex(v)
  \/ \E e \in Edges : AddEdge(e) \/ RemoveEdge(e)
  \/ \E a, b \in Vertices : BeginRemoveEdges(a, b)
  \/ BeginClear
  \/ Running

Spec == Init /\ [][Next]_vars

\* A call that has begun runs on in its caller's thread until it returns.
FairSpec == Spec /\ WF_vars(Running)
-----------------------------------------------------------------------------
TypeOK ==
  /\ g \in Graphs
  /\ seenVertices \subseteq Vertices
  /\ seenEdges \subseteq Edges
  /\ op \in {"idle", "raised", "removeEdges", "clearEdges", "clearVertices",
             "undefined"}
  /\ pending \subseteq {1, 2} \X Ids \X Edges

\* getVertex(getVertexId(v)) is v, and every node of the back-end belongs to
\* the vertex associated with its id: addVertex and removeVertex keep the
\* association and mVertexMap in step, whatever observers and callers do.
VertexIndexed ==
  /\ \A v \in Vertices : HasVertex(g, v) => g.node[g.vid[v]] = v
  /\ \A i \in LiveNodes(g) : g.vid[g.node[i]] = i

\* The two ends of a live arc are the nodes of its edge's source and target.
ArcsAttached ==
  \A i \in LiveArcs(g) :
    /\ g.node[g.arc[i].from] = Source[g.arc[i].edge]
    /\ g.node[g.arc[i].to]   = Target[g.arc[i].edge]

\* An edge for which contains() answers true has a live arc of its own under
\* its id, so getEdge(getEdgeId(e)) is e and removeEdge(e) is well defined:
\* holds as long as callers remove the edges of a vertex before the vertex.
ContainedEdgeIsLive ==
  \A e \in Edges :
    HasEdge(g, e) => g.eid[e] \in LiveArcs(g) /\ g.arc[g.eid[e]].edge = e

\* No edge of the graph dangles: contains(edge) implies contains(its ends).
EndpointsContained ==
  \A e \in Edges :
    HasEdge(g, e) => HasVertex(g, Source[e]) /\ HasVertex(g, Target[e])

\* The events tell the truth: an observer that adds on EVENT_TYPE_ADDED and
\* deletes on EVENT_TYPE_REMOVED holds exactly what the iterators yield, also
\* between two steps of clear and removeEdges.
MirrorExact ==
  /\ seenVertices = {g.node[i] : i \in LiveNodes(g)}
  /\ seenEdges = {g.arc[i].edge : i \in LiveArcs(g)}

\* No call erases an id the back-end has already freed.
NeverUndefined == op # "undefined"

\* A clear() that returns leaves no element associated with the graph, so each
\* of them can be added again.
ClearLeavesNothing ==
  [][op = "clearVertices" /\ op' = "idle" =>
       /\ \A v \in Vertices : ~HasVertex(g', v)
       /\ \A e \in Edges : ~HasEdge(g', e)]_vars

\* removeEdges(a, b) removes the "edges which link two vertices" and returns their
\* number (BaseGraph.hpp:173). It throws if there is a loop at a = b, which is in
\* both of the lists it has collected; but if no observer throws, only there, and
\* only once all that it has collected is removed.
RemoveEdgesLeavesNone ==
  [][op = "removeEdges" /\ op' = "raised" =>
       \A p \in pending : Source[p[3]] = Target[p[3]] /\ ~HasEdge(g, p[3])]_vars

\* The loops of clear and removeEdges end, also when an observer throws in
\* them and orphaned arcs are in the way: each round removes an arc or throws.
CallsEnd == op \in {"removeEdges", "clearEdges", "clearVertices"} ~> Calling

=============================================================================
