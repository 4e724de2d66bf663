------------------------------- MODULE SnapGraph -------------------------------
(* The snap back-end: a net of nodes and edges whose ids count up. What        *)
(* iterates over the edges of a vertex asks the net, for each neighbour, for   *)
(* an edge between two nodes, and gets the first one.                          *)
EXTENDS Maps, Integers, SequencesExt, FiniteSetsExt, Functions

CONSTANTS SnapVertices, SnapEnds,     \* vertices, edge -> <<source, target>>
          MaxNodeIds, MaxEdgeIds      \* bounds: ids given to nodes, to edges
ASSUME SnapAssumption == SnapEnds \in [DOMAIN SnapEnds -> SnapVertices \X SnapVertices]

VARIABLES snap,       \* the graph, see EmptySnap
          removal     \* what the last removeEdges did, if it was the last call

snapVars == <<snap, removal>>

\* nid has the ids of the vertices.  An edge gets the next id, so that the edges
\* are listed by id if a new one comes last.
EmptySnap == [nid |-> <<>>, edges |-> <<>>, MxNId |-> 0, MxEId |-> 0]
NoRemoval == <<>>
SnapInit  == snap = EmptySnap /\ removal = NoRemoval

SnapEdges == Range(snap.edges)
WithNode(s, v) == IF v \in DOMAIN s.nid THEN s
                  ELSE [s EXCEPT !.nid = Over(Entry(v, s.MxNId), @), !.MxNId = @ + 1]
\* addEdge adds the ends that are missing.
WithSnapEdge(s, e) ==
    [WithNode(WithNode(s, SnapEnds[e][1]), SnapEnds[e][2])
        EXCEPT !.edges = Append(@, e), !.MxEId = @ + 1]
WithoutSnapEdges(s, es) == [s EXCEPT !.edges = Among(@, Range(@) \ es)]

---------------------------------------------------------------------------
\* Nodes list their edges by id.
ById(es) == Among(snap.edges, es)
Between(a, b) == {e \in SnapEdges : SnapEnds[e] = <<a, b>>}

\* Mutant of GetEI: the edges are taken for undirected.
GetEIUndirected(a, b) == Head(ById(Between(a, b) \cup Between(b, a)))

\* The net's edge from a to b is the first of those.
GetEI(a, b) == Head(ById(Between(a, b)))

\* One edge for every edge that leaves (enters) the vertex.
OutEdgeIterator(v) ==
    LET out == ById({e \in SnapEdges : SnapEnds[e][1] = v})
    IN [i \in DOMAIN out |-> GetEI(v, SnapEnds[out[i]][2])]
InEdgeIterator(v) ==
    LET in == ById({e \in SnapEdges : SnapEnds[e][2] = v})
    IN [i \in DOMAIN in |-> GetEI(SnapEnds[in[i]][1], v)]
InOutEdgeIterator(v) == InEdgeIterator(v) \o OutEdgeIterator(v)

GetEdges(a, b) == Among(InEdgeIterator(b), {e \in SnapEdges : SnapEnds[e][1] = a})

---------------------------------------------------------------------------
AddSnapVertex(v) == /\ v \notin DOMAIN snap.nid /\ snap.MxNId < MaxNodeIds
                    /\ snap' = WithNode(snap, v) /\ removal' = NoRemoval

AddSnapEdge(e) == /\ e \notin SnapEdges /\ snap.MxEId < MaxEdgeIds
                  /\ snap' = WithSnapEdge(snap, e) /\ snap'.MxNId <= MaxNodeIds
                  /\ removal' = NoRemoval

\* Callers remove the edges first; what they leave behind otherwise is the
\* subject of BaseGraph.
RemoveSnapVertex(v) ==
    /\ v \in DOMAIN snap.nid /\ InOutEdgeIterator(v) = <<>>
    /\ snap' = [snap EXCEPT !.nid = Restrict(@, DOMAIN @ \ {v})]
    /\ removal' = NoRemoval

RemoveSnapEdge(e) == /\ e \in SnapEdges
                     /\ snap' = WithoutSnapEdges(snap, {e}) /\ removal' = NoRemoval

\* removeEdges takes what getEdges yields for both directions, and throws at an
\* edge it has already removed.
RemoveSnapEdges(a, b) ==
    LET found   == GetEdges(a, b) \o GetEdges(b, a)
        twice   == {j \in DOMAIN found : found[j] \in {found[i] : i \in 1 .. j - 1}}
        removed == IF twice = {} THEN found ELSE SubSeq(found, 1, Min(twice) - 1)
    IN /\ {a, b} \subseteq DOMAIN snap.nid
       /\ snap' = WithoutSnapEdges(snap, Range(removed))
       /\ removal' = [ends |-> <<a, b>>, before |-> Between(a, b) \cup Between(b, a),
                      thrown |-> twice # {}, count |-> Len(removed)]

\* copy adds the edges to a new graph, in the order of the net's hash table.
SnapOf(edges) ==
    LET added[n \in 0 .. Len(edges)] ==
          IF n = 0 THEN EmptySnap ELSE WithSnapEdge(added[n - 1], edges[n])
    IN added[Len(edges)]
CopySnap == /\ \E edges \in SetToSeqs(SnapEdges) : snap' = SnapOf(edges)
            /\ removal' = NoRemoval

SnapNext == \/ \E v \in SnapVertices : AddSnapVertex(v) \/ RemoveSnapVertex(v)
            \/ \E e \in DOMAIN SnapEnds : AddSnapEdge(e) \/ RemoveSnapEdge(e)
            \/ \E a, b \in SnapVertices : RemoveSnapEdges(a, b)
            \/ CopySnap
SnapSpec == SnapInit /\ [][SnapNext]_snapVars

\* Edges with the same ends, and those that end in a vertex or leave it.
Parallel(es) == \E e, f \in es : e # f /\ SnapEnds[e] = SnapEnds[f]
Into(v)  == {e \in SnapEdges : SnapEnds[e][2] = v}
OutOf(v) == {e \in SnapEdges : SnapEnds[e][1] = v}

\* As long as no two edges concerned are parallel: removeEdges leaves none
\* between two vertices and, unless it is called for the loops of one, does not
\* throw and returns how many there were; the iterator of a vertex yields each
\* edge that ends in it and each that leaves it once. Where edges are parallel
\* BaseGraph.hpp:173 and :302 promise the same and do not get it: the first of
\* them is yielded for each, and removeEdges throws when it meets it again.
SingleEdgesAreServed ==
    /\ removal # NoRemoval /\ ~Parallel(removal.before) =>
         /\ removal.before \cap SnapEdges = {}
         /\ removal.ends[1] # removal.ends[2] =>
              ~removal.thrown /\ removal.count = Cardinality(removal.before)
    /\ \A v \in DOMAIN snap.nid :
         LET yielded == InOutEdgeIterator(v)
         IN ~Parallel(Into(v) \cup OutOf(v)) =>
              /\ Len(yielded) = Cardinality(Into(v)) + Cardinality(OutOf(v))
              /\ Range(yielded) = Into(v) \cup OutOf(v)
=============================================================================
