------------------------------ MODULE BoostGraph ------------------------------
(* The boost back-end: vertices in a vector, whose places are their            *)
(* descriptors, and edges in lists.  Two maps lead from the ids the graph      *)
(* gives to descriptors.  Removing a vertex from the vector moves those behind *)
(* it, and the maps are not told.                                              *)
EXTENDS Maps, Integers, SequencesExt, Functions, TLC

CONSTANTS BoostVertices, BoostEnds,   \* vertices, edge -> <<source, target>>
          NullVertex, MaxIds          \* bound: ids of vertices, and of edges

BoostEdges == DOMAIN BoostEnds

ASSUME BoostAssumption == BoostEnds \in [BoostEdges -> BoostVertices \X BoostVertices]

VARIABLES boost,      \* the graph, see EmptyBoost
          undefined,  \* the last call used a descriptor of nothing
          disturbed   \* a vertex was removed that had edges or others behind it

boostVars == <<boost, undefined, disturbed>>

\* Edges live in one list, each with the places of its ends; vid and eid are
\* the ids associated with the elements; ids are counted and never reused.
EmptyBoost == [vertices |-> <<>>, edges |-> <<>>, mVertexMap |-> <<>>, mEdgeMap |-> <<>>,
               vid |-> <<>>, eid |-> <<>>, msNewVertexId |-> 0, msNewEdgeId |-> 0]
BoostInit == boost = EmptyBoost /\ undefined = FALSE /\ disturbed = FALSE

AddVertexInternal(b, v) ==
    [b EXCEPT !.vertices = Append(@, v), !.msNewVertexId = @ + 1,
              !.mVertexMap = Over(Entry(b.msNewVertexId, Len(b.vertices) + 1), @),
              !.vid = Over(Entry(v, b.msNewVertexId), @)]

Joined(b, v) == IF v \in DOMAIN b.vid THEN b ELSE AddVertexInternal(b, v)

GetVertexDescriptor(b, v) == b.mVertexMap[b.vid[v]]

\* An edge to a place behind the last vertex makes the vector grow.
AddEdgeInternal(b, e) ==
    LET s == GetVertexDescriptor(b, BoostEnds[e][1])
        t == GetVertexDescriptor(b, BoostEnds[e][2])
        grown == [i \in 1 .. (IF s > t THEN s ELSE t) - Len(b.vertices) |-> NullVertex]
        edge == [element |-> e, source |-> s, target |-> t]
    IN [b EXCEPT !.vertices = @ \o grown, !.edges = Append(@, edge), !.msNewEdgeId = @ + 1,
                 !.mEdgeMap = Over(Entry(b.msNewEdgeId, edge), @),
                 !.eid = Over(Entry(e, b.msNewEdgeId), @)]

\* clear_vertex and remove_vertex: the graph's own edges follow the vertices.
WithoutPlace(b, d) ==
    LET moved(place) == IF place > d THEN place - 1 ELSE place
        kept == Among(b.edges, {e \in ToSet(b.edges) : d \notin {e.source, e.target}})
    IN [b EXCEPT !.vertices = RemoveAt(@, d),
                 !.edges = [i \in DOMAIN kept |->
                    [kept[i] EXCEPT !.source = moved(@), !.target = moved(@)]]]

\* Mutant of ForgetVertex: the id stays in the map.
ForgetVertexOnly(b, v) == [b EXCEPT !.vid = RestrictDomain(@, LAMBDA x : x # v)]

\* The vertex loses its id. Its edges keep theirs.
ForgetVertex(b, v) ==
    [b EXCEPT !.mVertexMap = RestrictDomain(@, LAMBDA id : id # b.vid[v]),
              !.vid = RestrictDomain(@, LAMBDA x : x # v)]
ForgetEdge(b, e) ==
    [b EXCEPT !.mEdgeMap = RestrictDomain(@, LAMBDA id : id # b.eid[e]),
              !.eid = RestrictDomain(@, LAMBDA x : x # e)]

\* remove_edge looks through the edges of what its descriptor says is the
\* source.
EdgesFound(b, e) == LET d == b.mEdgeMap[b.eid[e]]
                    IN {x \in ToSet(b.edges) : x.element = e /\ x.source = d.source}

EdgesFrom(b, v) == {e \in ToSet(b.edges) : e.source = GetVertexDescriptor(b, v)}
EdgesTo(b, v)   == {e \in ToSet(b.edges) : e.target = GetVertexDescriptor(b, v)}
OutEdges(b, v) == Among(b.edges, EdgesFrom(b, v))
InEdges(b, v)  == Among(b.edges, EdgesTo(b, v))
\* getEdges(source, target): from the target's in-edges.
EdgesBetween(b, v, w) == Among(InEdges(b, w), EdgesFrom(b, v))
\* The iterator over all edges of a vertex: in-edges first.
InOutEdges(b, v) == InEdges(b, v) \o OutEdges(b, v)
Elements(edges) == [i \in DOMAIN edges |-> edges[i].element]

---------------------------------------------------------------------------
AddBoostVertex(v) ==
    /\ v \notin DOMAIN boost.vid /\ boost.msNewVertexId < MaxIds
    /\ boost' = AddVertexInternal(boost, v) /\ UNCHANGED <<undefined, disturbed>>

\* BaseGraph::addEdge adds the ends that are missing.
AddBoostEdge(e) ==
    LET joined == Joined(Joined(boost, BoostEnds[e][1]), BoostEnds[e][2])
    IN /\ e \notin DOMAIN boost.eid
       /\ boost.msNewEdgeId < MaxIds /\ joined.msNewVertexId <= MaxIds
       /\ boost' = AddEdgeInternal(joined, e)
       /\ UNCHANGED <<undefined, disturbed>>

RemoveBoostVertex(v) ==
    LET d == GetVertexDescriptor(boost, v)
        b == ForgetVertex(boost, v)
    IN /\ v \in DOMAIN boost.vid
       /\ undefined' = (d > Len(boost.vertices))
       /\ disturbed' = (disturbed \/ d # Len(boost.vertices) \/ InOutEdges(boost, v) # <<>>)
       /\ boost' = IF undefined' THEN b ELSE WithoutPlace(b, d)

RemoveBoostEdge(e) ==
    LET found == EdgesFound(boost, e)
        b == ForgetEdge(boost, e)
    IN /\ e \in DOMAIN boost.eid
       /\ undefined' = (found = {})
       /\ boost' = IF undefined' THEN b
                   ELSE [b EXCEPT !.edges = Among(@, ToSet(@) \ found)]
       /\ UNCHANGED disturbed

\* After an undefined call anything may happen.
BoostNext == /\ ~undefined
             /\ \/ \E v \in BoostVertices : AddBoostVertex(v) \/ RemoveBoostVertex(v)
                \/ \E e \in BoostEdges : AddBoostEdge(e) \/ RemoveBoostEdge(e)
BoostSpec == BoostInit /\ [][BoostNext]_boostVars

\* As long as vertices are removed only from the end of the vector and after
\* their edges, every id leads to its element, an id that is no longer in use
\* to none, and the iterators and getEdges yield each vertex's edges, and each
\* of them once per end.
LookupsFindTheElement ==
    LET elements(edges) == ToSet(Elements(edges))
        ends(v, i) == {e \in DOMAIN boost.eid : BoostEnds[e][i] = v}
    IN disturbed \/
       /\ ~undefined
       /\ DOMAIN boost.mVertexMap = {boost.vid[v] : v \in DOMAIN boost.vid}
       /\ DOMAIN boost.mEdgeMap = {boost.eid[e] : e \in DOMAIN boost.eid}
       /\ ToSet(boost.vertices) = DOMAIN boost.vid /\ IsInjective(boost.vertices)
       /\ elements(boost.edges) = DOMAIN boost.eid /\ IsInjective(Elements(boost.edges))
       /\ \A e \in DOMAIN boost.eid : boost.mEdgeMap[boost.eid[e]] \in ToSet(boost.edges)
       /\ \A v \in DOMAIN boost.vid :
            /\ boost.vertices[GetVertexDescriptor(boost, v)] = v
            /\ elements(OutEdges(boost, v)) = ends(v, 1)
            /\ elements(InEdges(boost, v)) = ends(v, 2)
            /\ Len(InOutEdges(boost, v)) = Cardinality(ends(v, 1)) + Cardinality(ends(v, 2))
            /\ \A w \in DOMAIN boost.vid :
                 elements(EdgesBetween(boost, v, w)) = ends(v, 1) \cap ends(w, 2)
=============================================================================
