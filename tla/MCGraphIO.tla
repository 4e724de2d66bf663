----------------------------- MODULE MCGraphIO -----------------------------
(* Instances of GraphIO and of GVGraph, which have nothing in common: a        *)
(* behaviour is one of either.  GraphIO has two classes of vertices (2 and 4) that derive from a   *)
(* third (3), whose name is between theirs, and one class of edges (6).  The   *)
(* programs differ in what they register.                                      *)
EXTENDS GraphIO, GVGraph

VARIABLE part   \* whose behaviour this is

MCClassParents == [t \in 1 .. 6 |-> IF t \in {2, 4} THEN {3} ELSE {}]

Class(t, ps, as) == [type |-> t, parents |-> ps, members |-> as, default |-> FALSE]
Default(t) == [type |-> t, parents |-> {}, members |-> {}, default |-> TRUE]

\* Everything with its hierarchy; an early program without one; a program that
\* forgot the parent class; one with an attribute called "label" and a default
\* class of its own; one that registers a class twice, the parent too late.
MCPrograms ==
    {<<Class(3, {}, {1}), Class(2, {3}, {1}), Class(4, {3}, {1}), Class(6, {}, {1})>>,
     <<Class(2, {}, {1}), Class(4, {}, {1}), Class(6, {}, {1})>>,
     <<Class(2, {3}, {1}), Class(6, {}, {})>>,
     <<Class(3, {}, {2}), Class(4, {3}, {1}), Class(2, {3}, {1}), Default(3)>>,
     <<Class(4, {}, {}), Class(3, {}, {1}), Class(4, {3}, {1})>>}

VertexOf(t, label) == [type |-> t, label |-> label]
EdgeOf(t, label, s, d) == [type |-> t, label |-> label, source |-> s, target |-> d]

\* Up to two vertices; none, one or two edges, the second after an edge without
\* a label.
MCGraphs ==
    LET some == {VertexOf(t, l) : t \in {1, 2, 4}, l \in {"word", "two words", "", "<markup>"}}
        first == {VertexOf(t, l) : t \in {2}, l \in {"word", ""}}
        second == {VertexOf(4, "word"), VertexOf(1, "two words")}
    IN {[nodes |-> ns, edges |-> <<>>] : ns \in {<<>>} \cup {<<v>> : v \in some}} \cup
       {[nodes |-> <<v, w>>, edges |-> es] :
           v \in first, w \in second,
           es \in {<<EdgeOf(6, "word", 2, 1)>>,
                   <<EdgeOf(6, "", 1, 2), EdgeOf(5, "word", 1, 1)>>}}

MCVertices == {"a", "b"}
MCEdgeEnds == ("ab" :> <<"a", "b">>) @@ ("ba" :> <<"b", "a">>) @@ ("aa" :> <<"a", "a">>)

MCNames == {<<>>, <<"gexf">>, <<"xml">>, <<"graphml">>, <<"yaml">>, <<"yml">>}

NoFiles == /\ disk = <<>> /\ nodes = <<>> /\ edges = <<>>
           /\ vertexTypeManager = StartedVertices(CHOOSE p \in Programs : TRUE)
           /\ edgeTypeManager = StartedEdges(CHOOSE p \in Programs : TRUE)
           /\ last = [call |-> "start", name |-> <<>>, outcome |-> "ok"]
MCInit == /\ GVInit
          /\ \/ part = "GraphIO" /\ Init
             \/ part = "GVGraph" /\ NoFiles
MCNext == \/ part = "GraphIO" /\ Next /\ UNCHANGED <<gvVars, part>>
          \/ part = "GVGraph" /\ GVNext /\ UNCHANGED <<vars, part>>
MCSpec == MCInit /\ [][MCNext]_<<vars, gvVars, part>>
=============================================================================
