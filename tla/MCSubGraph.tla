------------------------------- MODULE MCSubGraph -------------------------------
(***************************************************************************)
(* Instance of SubGraph: two vertices and two opposite edges, or two       *)
(* parallel ones, an opposite one and a loop.  Each filter stands for a    *)
(* way applyFilters can combine its two parts. A behaviour either switches *)
(* members by hand and by filters, or leaves that to Percolation.          *)
(***************************************************************************)
EXTENDS Percolation, TLC

CONSTANTS v1, v2, ab, ba, ab2, aa

MCVertices == {v1, v2}
MCEdges    == {ab, ba}
MCSource   == ab :> v1 @@ ba :> v2
MCTarget   == ab :> v2 @@ ba :> v1

MCAllEdges  == {ab, ba, ab2, aa}
MCAllSource == MCSource @@ ab2 :> v1 @@ aa :> v1
MCAllTarget == MCTarget @@ ab2 :> v2 @@ aa :> v1

EdgeFilter(context, matches, sources, targets) ==
  [context |-> context, matches |-> matches, sources |-> sources, targets |-> targets]

\* Null, PermitAll, DenyAll, and a filter on one vertex.
MCVertexFilters == {{}, {{}}, {MCVertices}, {{v1}}}

\* Null, PermitAll, DenyAll, a filter on the edges out of v1, a filter that
\* matches all targets but one source, and one that knows no context.
MCEdgeFilters ==
  {{}, {EdgeFilter(TRUE, {}, {}, {})}, {EdgeFilter(TRUE, Edges, Edges, Edges)},
   {EdgeFilter(TRUE, {ab}, {ab}, {ab})}, {EdgeFilter(TRUE, Edges, {ba}, Edges)},
   {EdgeFilter(FALSE, Edges, {}, {})}}
===============================================================================
