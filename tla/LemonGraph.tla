----------------------------- MODULE LemonGraph -----------------------------
(* A lemon graph as the code that shows it sees it: elements in the order      *)
(* lemon iterates, newest first, with the ids they have in the graph.  Lemon   *)
(* uses the id that was freed last again; edges that went with their vertex    *)
(* keep theirs.                                                                *)
EXTENDS Maps, Integers, FiniteSets, SequencesExt, Functions

CONSTANTS Vertices, EdgeEnds   \* the elements: vertices, edge -> <<source, target>>

Edges == DOMAIN EdgeEnds

ASSUME EndsAssumption == EdgeEnds \in [Edges -> Vertices \X Vertices]

Place(s, x) == CHOOSE i \in DOMAIN s : s[i] = x
GraphOf(vs, es) ==
    [vertices |-> vs, edges |-> es, freeNodes |-> <<>>, freeArcs |-> <<>>,
     vid |-> [v \in ToSet(vs) |-> Len(vs) - Place(vs, v)],
     eid |-> [e \in ToSet(es) |-> Len(es) - Place(es, e)]]

Live(g, e) == e \in ToSet(g.edges)
LiveIds(g) == {g.eid[e] : e \in ToSet(g.edges)}
NewId(used, free) == IF free = <<>> THEN Len(used) ELSE Head(free)
Rest(free) == IF free = <<>> THEN free ELSE Tail(free)

WithVertex(g, v) ==
    [g EXCEPT !.vertices = <<v>> \o @, !.freeNodes = Rest(@),
              !.vid = Over(Entry(v, NewId(g.vertices, g.freeNodes)), @)]
WithEdge(g, e) ==
    [g EXCEPT !.edges = <<e>> \o @, !.freeArcs = Rest(@),
              !.eid = Over(Entry(e, NewId(g.edges, g.freeArcs)), @)]

\* The arcs of a node are erased in this order, those that leave it first, and
\* their ids are used again from the last on.
ArcsOf(g, v) == Among(g.edges, {e \in Edges : EdgeEnds[e][1] = v}) \o
                Among(g.edges, {e \in Edges : EdgeEnds[e][2] = v /\ EdgeEnds[e][1] # v})
LastFirst(g, arcs) == [i \in DOMAIN arcs |-> g.eid[arcs[Len(arcs) + 1 - i]]]
WithoutVertex(g, v) ==
    [g EXCEPT !.vertices = Among(@, Vertices \ {v}), !.vid = RestrictDomain(@, LAMBDA x : x # v),
              !.freeNodes = <<g.vid[v]>> \o @,
              !.edges = Among(@, {e \in Edges : v \notin ToSet(EdgeEnds[e])}),
              !.freeArcs = LastFirst(g, ArcsOf(g, v)) \o @]
WithoutEdge(g, e) ==
    [g EXCEPT !.edges = Among(@, Edges \ {e}), !.eid = RestrictDomain(@, LAMBDA x : x # e),
              !.freeArcs = <<g.eid[e]>> \o @]
=============================================================================
