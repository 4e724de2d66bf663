---------------------------- MODULE MCBaseGraph ----------------------------
(***************************************************************************)
(* Instance of BaseGraph: two vertices, two opposite edges between them    *)
(* and a loop, e3.                                                         *)
(***************************************************************************)
EXTENDS BaseGraph, TLC

CONSTANTS v1, v2, ab, ba, e3

MCVertices == {v1, v2}
MCEdges    == {ab, ba, e3}
MCSource   == ab :> v1 @@ ba :> v2 @@ e3 :> v1
MCTarget   == ab :> v2 @@ ba :> v1 @@ e3 :> v1
=============================================================================
