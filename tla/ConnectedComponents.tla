-------------------------- MODULE ConnectedComponents --------------------------
(* identifyConnectedComponents of two back-ends.  boost's merges vertices with *)
(* a forest of parents, edge by edge, and enables what any vertex has for a    *)
(* parent.  lemon's makes a copy of the graph, numbers the components of the   *)
(* copy, and relates every vertex to a new one for its component.              *)
EXTENDS Integers, SequencesExt, FiniteSetsExt, Functions

CONSTANTS MaxNodes, MaxLinks   \* bounds: vertices and edges of a graph
ASSUME MaxAssumption == MaxNodes \in Nat /\ MaxLinks \in Nat

NodeIds == 0 .. MaxNodes - 1

VARIABLES backend, \* whose algorithm this is: "boost" or "lemon"
          order,   \* the ids of the vertices, in the order lemon iterates
          links,   \* the edges, pairs of vertices, in boost's order
          waiting,    \* the edges still to be looked at
          rank, parent,   \* boost's forest
          related  \* lemon: vertex -> number of its component vertex

componentVars == <<backend, order, links, waiting, rank, parent, related>>

\* No edge joins the vertices vs to others.
Separate(vs) == \A i \in DOMAIN links : links[i][1] \in vs <=> links[i][2] \in vs
\* The vertices connected to v, by definition.
ComponentOf(v) == {w \in ToSet(order) : \A vs \in SUBSET ToSet(order) : v \in vs /\ Separate(vs) => w \in vs}

\* Ids of lemon's nodes are 0, 1, ... and newer ones come first as long as
\* none was removed; removing and adding leads to any order and any gaps.
Newest(n) == [i \in 1 .. n |-> n - i]
Pairs == {p \in ToSet(order) \X ToSet(order) : p[1] # p[2]}
ComponentInit ==
    /\ \/ backend = "boost" /\ order \in {Newest(n) : n \in 1 .. MaxNodes}
          /\ links \in UNION {[1 .. k -> Pairs] : k \in 0 .. MaxLinks}
       \/ backend = "lemon" /\ order \in UNION {Injection(1 .. n, NodeIds) : n \in 1 .. MaxNodes}
          /\ links \in {SetToSeq(ps) : ps \in SUBSET {p \in Pairs : p[1] < p[2]}}
    /\ waiting = links
    /\ rank = [v \in ToSet(order) |-> 0] /\ parent = [v \in ToSet(order) |-> v]
    /\ related = <<>>

---------------------------------------------------------------------------
\* find_set: the vertices from v to the root, and all of them put below it.
Path(above, v) == {u \in DOMAIN above : \A us \in SUBSET DOMAIN above :
                     v \in us /\ (\A w \in us : above[w] \in us) => u \in us}
Root(above, v) == CHOOSE r \in Path(above, v) : above[r] = r
Compressed(above, v) ==
    [u \in DOMAIN above |-> IF u \in Path(above, v) THEN Root(above, v) ELSE above[u]]

\* Mutant of Linking: it links the vertices themselves, not their roots.
LinkingVertices(above, v, w) == [above |-> above, from |-> v, to |-> w]

\* What union_set links: the roots of both ends.
Linking(above, v, w) ==
    LET found == Compressed(Compressed(above, v), w)
    IN [above |-> found, from |-> Root(found, v), to |-> Root(found, w)]

\* incremental_components: union_set for the next edge, by rank.
UnionSet ==
    LET l == Linking(parent, Head(waiting)[1], Head(waiting)[2])
        i == l.from
        j == l.to
    IN /\ backend = "boost" /\ waiting # <<>>
       /\ parent' = IF i = j THEN l.above
                    ELSE IF rank[i] > rank[j] THEN [l.above EXCEPT ![j] = i] ELSE [l.above EXCEPT ![i] = j]
       /\ rank' = IF i # j /\ rank[i] = rank[j] THEN [rank EXCEPT ![j] = @ + 1] ELSE rank
       /\ waiting' = Tail(waiting)
       /\ UNCHANGED <<backend, order, links, related>>

\* The vertices boost's subgraph shows: all parents, not only the roots.
Shown == Range(parent)

---------------------------------------------------------------------------
\* The copy has its vertices in the opposite order, and the ids 0, 1, ...
CopyOrder == Reverse(order)

\* lemon's numbers for the components of the copy, as it meets them.
WithComponent(list, v) == IF ComponentOf(v) \in ToSet(list) THEN list ELSE Append(list, ComponentOf(v))
Components ==
    LET list[n \in 0 .. Len(order)] == IF n = 0 THEN <<>> ELSE WithComponent(list[n - 1], CopyOrder[n])
    IN list[Len(order)]
Undefined == 0

\* The number in nodeMap for an id: one of the copy's vertices, those of the
\* components that were added to the copy after the map was filled, or none.
NodeMap(id) ==
    IF id < Len(order) THEN CHOOSE i \in DOMAIN Components : order[id + 1] \in Components[i]
    ELSE IF id < Len(order) + Len(Components) THEN 1 ELSE Undefined

\* Every vertex is related to the component vertex with the number at its id
\* in this graph; the map has the ids of the copy.
Relate == /\ backend = "lemon" /\ related = <<>>
          /\ related' = [v \in ToSet(order) |-> NodeMap(v)]
          /\ waiting' = <<>>
          /\ UNCHANGED <<backend, order, links, rank, parent>>

ComponentNext == UnionSet \/ Relate
ComponentSpec == ComponentInit /\ [][ComponentNext]_componentVars

---------------------------------------------------------------------------
\* boost's subgraph shows at least one vertex of every component, and only one
\* of those with less than four. lemon's relates as many vertices to each
\* component vertex as its component has, if ids have no gaps, though not
\* always those it has (see the next property).
ComponentsAreFound ==
    /\ backend = "boost" /\ waiting = <<>> =>
         \A v \in ToSet(order) :
            /\ ComponentOf(v) \cap Shown # {}
            /\ Cardinality(ComponentOf(v)) < 4 => Cardinality(ComponentOf(v) \cap Shown) = 1
    /\ related # <<>> /\ ToSet(order) = 0 .. Len(order) - 1 =>
         \A i \in DOMAIN Components :
            Cardinality({v \in ToSet(order) : related[v] = i}) = Cardinality(Components[i])

\* "Add an edge to relate vertices to their components": in a graph nothing was
\* removed from, two vertices are related to the same component vertex exactly
\* if they are connected.
VerticesKnowTheirComponent ==
    related # <<>> /\ order = Newest(Len(order)) =>
        \A v, w \in ToSet(order) : related[v] = related[w] <=> w \in ComponentOf(v)
=============================================================================
