----------------------------- MODULE MCComponents -----------------------------
(* Instances of components that have nothing in common: Delta, ShortestPaths,  *)
(* CorrelationClustering, FilterManager, Filters, BoostGraph, SnapGraph,       *)
(* ConnectedComponents, BipartiteGraph, ElementRegistry and RandomDraw.  A     *)
(* behaviour is one of one of them, while the others stay in a state they may  *)
(* start from.                                                                 *)
(*                                                                             *)
(* Delta: all pairs of graphs over three vertices, two edges in a row and a    *)
(* loop between them.  ShortestPaths: every graph over four vertices with the  *)
(* edges of a path that does not follow the vertices' order, a shortcut, a way *)
(* back, and a parallel edge or a loop.  CorrelationClustering: a triangle and *)
(* an edge opposite to one of its sides.  BoostGraph: two opposite edges and a *)
(* loop, and a vertex without any.  SnapGraph: two parallel edges, an opposite *)
(* one and a loop.  Filters: three, of which the first holds others, and they  *)
(* the third.                                                                  *)
EXTENDS Delta, ShortestPaths, CorrelationClustering, FilterManager,
        Filters, BoostGraph, SnapGraph, ConnectedComponents, BipartiteGraph,
        ElementRegistry, RandomDraw, TLC

\* The items differ in nothing but their names.
MCSymmetry == Permutations(FilterItems)

VARIABLE part   \* whose behaviour this is

MCVertices == {"a", "b", "c"}
MCEdges    == {"ab", "bb", "bc"}
MCSource   == "ab" :> "a" @@ "bb" :> "b" @@ "bc" :> "b"
MCTarget   == "ab" :> "b" @@ "bb" :> "b" @@ "bc" :> "c"

MCArcs      == {"path1", "path2", "path3", "shortcut", "back", "parallel", "loop"}
MCArcSource == "path1" :> 1 @@ "path2" :> 3 @@ "path3" :> 2 @@ "shortcut" :> 1 @@ "back" :> 4
                 @@ "parallel" :> 1 @@ "loop" :> 1
MCArcTarget == "path1" :> 3 @@ "path2" :> 2 @@ "path3" :> 4 @@ "shortcut" :> 4 @@ "back" :> 1
                 @@ "parallel" :> 3 @@ "loop" :> 1
MCWeights == {-1, 2}

MCGraphEdges == {"12", "23", "31", "21"}
MCFrom == "12" :> 1 @@ "23" :> 2 @@ "31" :> 3 @@ "21" :> 2
MCTo   == "12" :> 2 @@ "23" :> 3 @@ "31" :> 1 @@ "21" :> 1
MCEdgeWeights == {2, -1}
MCInitialVolumes == {-1, 9}
MCThousandths(n) == <<1393, 2208, 2786, 3235>>[n]

MCBoostEnds == "ab" :> <<"a", "b">> @@ "ba" :> <<"b", "a">> @@ "aa" :> <<"a", "a">>
MCSnapEnds  == MCBoostEnds @@ "parallel" :> <<"a", "b">>

MCApplies == <<{"x"}, {"y"}, {"x", "z"}>>

---------------------------------------------------------------------------
NoGraphs == LET none == [vertices |-> {}, edges |-> {}, arcs |-> {}]
            IN sourceGraph = none /\ targetGraph = none /\ DeltaInit
NoPaths  == weight = <<>> /\ detect = FALSE /\ PathInit
OneCluster ==
    /\ mEdgeWeight = [e \in GraphEdges |-> 2] /\ mColumnToEdge = SetToSeq(GraphEdges)
    /\ mInitialVolume = 9 /\ mEdgeActivation = [e \in GraphEdges |-> 0] /\ ClusterInit

OneOrder == /\ backend = "boost" /\ order = <<0>> /\ links = <<>> /\ waiting = <<>>
            /\ rank = (0 :> 0) /\ parent = (0 :> 0) /\ related = <<>>

MCInit == /\ FilterInit /\ FilterListInit /\ BoostInit /\ SnapInit
          /\ BipartiteInit /\ RegistryInit /\ DrawInit
          /\ \/ part = "Delta" /\ NoPaths /\ OneCluster /\ OneOrder /\ DeltaInit
             \/ part = "ShortestPaths" /\ NoGraphs /\ OneCluster /\ OneOrder /\ PathInit
                /\ ~({"parallel", "loop"} \subseteq DOMAIN weight)
             \/ part = "CorrelationClustering" /\ NoGraphs /\ NoPaths /\ OneOrder /\ ClusterInit
             \/ part = "ConnectedComponents" /\ NoGraphs /\ NoPaths /\ OneCluster /\ ComponentInit
             \/ part \in {"FilterManager", "Filters", "BoostGraph", "SnapGraph",
                          "BipartiteGraph", "ElementRegistry", "RandomDraw"}
                /\ NoGraphs /\ NoPaths /\ OneCluster /\ OneOrder

MCNext ==
    /\ UNCHANGED part
    /\ \/ /\ part = "Delta" /\ DeltaNext
          /\ UNCHANGED <<pathVars, clusterVars, filterVars, listVars, boostVars,
                         snapVars, componentVars, bipartiteVars, registryVars, drawVars>>
       \/ /\ part = "ShortestPaths" /\ PathNext
          /\ UNCHANGED <<deltaVars, clusterVars, filterVars, listVars, boostVars,
                         snapVars, componentVars, bipartiteVars, registryVars, drawVars>>
       \/ /\ part = "CorrelationClustering" /\ ClusterNext
          /\ UNCHANGED <<deltaVars, pathVars, filterVars, listVars, boostVars,
                         snapVars, componentVars, bipartiteVars, registryVars, drawVars>>
       \/ /\ part = "FilterManager" /\ FilterNext
          /\ UNCHANGED <<deltaVars, pathVars, clusterVars, listVars, boostVars,
                         snapVars, componentVars, bipartiteVars, registryVars, drawVars>>
       \/ /\ part = "Filters" /\ FilterListNext
          /\ UNCHANGED <<deltaVars, pathVars, clusterVars, filterVars, boostVars,
                         snapVars, componentVars, bipartiteVars, registryVars, drawVars>>
       \/ /\ part = "BoostGraph" /\ BoostNext
          /\ UNCHANGED <<deltaVars, pathVars, clusterVars, filterVars, listVars,
                         snapVars, componentVars, bipartiteVars, registryVars, drawVars>>
       \/ /\ part = "SnapGraph" /\ SnapNext
          /\ UNCHANGED <<deltaVars, pathVars, clusterVars, filterVars, listVars,
                         boostVars, componentVars, bipartiteVars, registryVars, drawVars>>
       \/ /\ part = "ConnectedComponents" /\ ComponentNext
          /\ UNCHANGED <<deltaVars, pathVars, clusterVars, filterVars, listVars,
                         boostVars, snapVars, bipartiteVars, registryVars, drawVars>>
       \/ /\ part = "BipartiteGraph" /\ BipartiteNext
          /\ UNCHANGED <<deltaVars, pathVars, clusterVars, filterVars, listVars,
                         boostVars, snapVars, componentVars, registryVars, drawVars>>
       \/ /\ part = "ElementRegistry" /\ RegistryNext
          /\ UNCHANGED <<deltaVars, pathVars, clusterVars, filterVars, listVars,
                         boostVars, snapVars, componentVars, bipartiteVars, drawVars>>
       \/ /\ part = "RandomDraw" /\ DrawNext
          /\ UNCHANGED <<deltaVars, pathVars, clusterVars, filterVars, listVars,
                         boostVars, snapVars, componentVars, bipartiteVars, registryVars>>

mcVars == <<deltaVars, pathVars, clusterVars, filterVars, listVars, boostVars, snapVars,
            componentVars, bipartiteVars, registryVars, drawVars, part>>

MCSpec == MCInit /\ [][MCNext]_mcVars
=============================================================================
