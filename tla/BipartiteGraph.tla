----------------------------- MODULE BipartiteGraph -----------------------------
(* A graph of red and blue vertices: every link of a red and a blue vertex is  *)
(* an edge there and one back, and two views tell the vertices of each colour. *)
EXTENDS Maps, Integers, SequencesExt, FiniteSetsExt

CONSTANTS LinkedVertices, MaxLinkings   \* vertices; bound: calls of linkVertices

VARIABLES mpGraph,        \* [vertices, edges]: a set, and the <<source, target>> of
                          \* every edge, those of a vertex newest first
          mpRed, mpBlue,  \* the vertices that are enabled in each view
          linkings        \* history: the calls of linkVertices

bipartiteVars == <<mpGraph, mpRed, mpBlue, linkings>>

BipartiteInit == /\ mpGraph = [vertices |-> {}, edges |-> <<>>]
                 /\ mpRed = {} /\ mpBlue = {} /\ linkings = <<>>

\* Mutant of LinkVertices: there is no edge back.
LinkVerticesOneWay(red, blue) ==
    /\ Len(linkings) < MaxLinkings
    /\ mpGraph' = [vertices |-> mpGraph.vertices \cup {red, blue},
                   edges |-> <<<<red, blue>>>> \o mpGraph.edges]
    /\ mpRed' = mpRed \cup {red} /\ mpBlue' = mpBlue \cup {blue}
    /\ linkings' = Append(linkings, <<red, blue>>)

\* Vertices the graph has already are not added again, but their colour is. New
\* vertices are in neither of lemon's views until they are enabled.
LinkVertices(red, blue) ==
    /\ Len(linkings) < MaxLinkings
    /\ mpGraph' = [vertices |-> mpGraph.vertices \cup {red, blue},
                   edges |-> <<<<blue, red>>, <<red, blue>>>> \o mpGraph.edges]
    /\ mpRed' = mpRed \cup {red} /\ mpBlue' = mpBlue \cup {blue}
    /\ linkings' = Append(linkings, <<red, blue>>)

BipartiteNext == \E red, blue \in LinkedVertices : LinkVertices(red, blue)
BipartiteSpec == BipartiteInit /\ [][BipartiteNext]_bipartiteVars

GetPartners(v) ==
    LET out == Among(mpGraph.edges, {v} \X LinkedVertices)
    IN [i \in DOMAIN out |-> out[i][2]]

\* getUniquePartner throws unless there is one.
HasUniquePartner(v) == Len(GetPartners(v)) = 1

\* A vertex that is linked has as many partners as links, with the vertices it
\* was linked with, whichever colour it had; it has a unique partner exactly if
\* it was linked once, not twice with the same vertex; and the partners of a
\* vertex of one colour only are in the other view.
PartnersAreLinked ==
    \A v \in mpGraph.vertices :
        LET as(i) == {n \in DOMAIN linkings : linkings[n][i] = v}
            others == {linkings[n][2] : n \in as(1)} \cup {linkings[n][1] : n \in as(2)}
        IN /\ ToSet(GetPartners(v)) = others
           /\ Len(GetPartners(v)) = Cardinality(as(1)) + Cardinality(as(2))
           /\ HasUniquePartner(v) <=> Cardinality(as(1)) + Cardinality(as(2)) = 1
           /\ v \notin mpBlue => others \subseteq mpBlue
           /\ v \notin mpRed => others \subseteq mpRed
=============================================================================
