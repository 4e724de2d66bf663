------------------------------ MODULE ShortestPaths ------------------------------
(***************************************************************************)
(* FloydWarshall::allShortestPaths, as the loop runs over its matrix.      *)
(* Vertices are numbered in the order the vertex iterators yield them, the *)
(* same for the three nested loops.  The matrix is a map that is filled as *)
(* pairs are asked for.                                                    *)
(***************************************************************************)
EXTENDS Integers, FiniteSets, FiniteSetsExt

CONSTANTS
  N,                       \* number of vertices
  Arcs, ArcSource, ArcTarget,
  Weights,                 \* of the edges, integers
  Infinity                 \* no path

Nodes == 1 .. N

ASSUME PathAssumption ==
  /\ N \in Nat \ {0} /\ IsFiniteSet(Arcs)
  /\ ArcSource \in [Arcs -> Nodes] /\ ArcTarget \in [Arcs -> Nodes]
  /\ Weights \subseteq Int /\ Infinity \notin Int

VARIABLES
  weight,       \* of the edges the graph has
  detect,       \* detectNegativeCycle
  least,        \* of the graph, for comparison: the least weights of walks
  matrix,       \* distanceMatrix
  i, j, k,      \* where the loops are; k = 0 when a row begins
  distanceJI,   \* read before the loop over k
  status        \* "running", "returned" or "raised"

pathVars == <<weight, detect, least, matrix, i, j, k, distanceJI, status>>

Plus(x, y)   == IF Infinity \in {x, y} THEN Infinity ELSE x + y
Longer(x, y) == y # Infinity /\ (x # Infinity => x > y)

\* The matrices before the loops: 0 on the diagonal, then the weight of the
\* edges, where an edge overwrites what was there: a loop the 0, one of several
\* parallel edges those the iterator yields earlier.
Pair(e) == <<ArcSource[e], ArcTarget[e]>>

Direct(w) ==
  LET lasts == {last \in SUBSET DOMAIN w :
                  \A e \in DOMAIN w : Cardinality({d \in last : Pair(d) = Pair(e)}) = 1}
      diagonal == {<<v, v>> : v \in Nodes}
  IN  {[p \in diagonal \cup {Pair(e) : e \in last} |->
          IF \E e \in last : Pair(e) = p
          THEN w[CHOOSE e \in last : Pair(e) = p] ELSE 0] : last \in lasts}

\* A pair that has no distance yet gets none.
Lazy(m, p) == IF p \in DOMAIN m THEN m[p] ELSE Infinity

(***************************************************************************)
(* The reference, which has nothing of the code's matrix: the least weight *)
(* of the walks of one to N edges of the graph.                            *)
(***************************************************************************)
\* The weight of a step is that of the lightest of the edges that make it.
Lightest(w) ==
  [p \in {Pair(e) : e \in DOMAIN w} |-> Min({w[e] : e \in {d \in DOMAIN w : Pair(d) = p}})]

Least(xs) == IF xs \subseteq {Infinity} THEN Infinity ELSE Min(xs \ {Infinity})

\* The least weights of walks of one step more.
Lengthened(m, walks) ==
  [p \in Nodes \X Nodes |->
     Least({walks[p]} \cup {Plus(walks[<<p[1], v>>], Lazy(m, <<v, p[2]>>)) : v \in Nodes})]

LeastWalks(m) ==
  LET walk[n \in 1 .. N] ==
        IF n = 1 THEN [p \in Nodes \X Nodes |-> Lazy(m, p)] ELSE Lengthened(m, walk[n - 1])
  IN  walk[N]

PathInit ==
  /\ weight \in UNION {[present -> Weights] : present \in SUBSET Arcs}
  /\ detect \in BOOLEAN
  /\ matrix \in Direct(weight)
  /\ \E m \in {Lightest(weight)} : least = LeastWalks(m)
  /\ i = 1 /\ j = 1 /\ k = 0
  /\ distanceJI = Infinity
  /\ status = "running"

Initialized(m, ps) == [p \in DOMAIN m \cup ps |-> Lazy(m, p)]

BeginRow ==
  /\ status = "running" /\ k = 0
  /\ distanceJI' = Lazy(matrix, <<j, i>>)
  /\ matrix' = Initialized(matrix, {<<j, i>>})
  /\ k' = 1
  /\ UNCHANGED <<weight, detect, least, i, j, status>>

Advance ==
  IF k < N THEN i' = i /\ j' = j /\ k' = k + 1 /\ status' = "running"
  ELSE /\ k' = 0
       /\ j' = (j % N) + 1 /\ i' = IF j = N THEN (i % N) + 1 ELSE i
       /\ status' = IF i = N /\ j = N THEN "returned" ELSE "running"

\* Mutant of Skipped: no absolute value is taken.
SkippedNegative(transitive) ==
  j = k /\ transitive # Infinity /\ transitive <= 0

\* |transitive| below epsilon, on the diagonal.
Skipped(transitive) == j = k /\ transitive = 0

Relax ==
  /\ status = "running" /\ k # 0
  /\ LET transitive == Plus(distanceJI, Lazy(matrix, <<i, k>>))
         asked      == Initialized(matrix, {<<j, k>>, <<i, k>>})
         shorter    == ~Skipped(transitive) /\ Longer(Lazy(matrix, <<j, k>>), transitive)
     IN  \/ /\ shorter /\ detect /\ j = k /\ transitive < 0
            /\ matrix' = asked
            /\ status' = "raised"
            /\ UNCHANGED <<i, j, k>>
         \/ /\ shorter /\ ~(detect /\ j = k /\ transitive < 0)
            /\ matrix' = [asked EXCEPT ![<<j, k>>] = transitive]
            /\ Advance
         \/ /\ ~shorter
            /\ matrix' = asked
            /\ Advance
  /\ UNCHANGED <<weight, detect, least, distanceJI>>

PathNext == BeginRow \/ Relax

PathSpec == PathInit /\ [][PathNext]_pathVars

-----------------------------------------------------------------------------
NegativeCycle == \E v \in Nodes : Longer(0, least[<<v, v>>])

HasLoop(v) == \E e \in DOMAIN weight : ArcSource[e] = v /\ ArcTarget[e] = v

\* A negative cycle shows: by the exception, or if that is not asked for by a
\* negative distance of a vertex to itself.
Noticed == status = "raised" \/ \E v \in Nodes : Longer(0, matrix[<<v, v>>])

\* It does not matter which of several parallel edges the matrix is left with.
ParallelsWeighAlike ==
  \A d, e \in DOMAIN weight : Pair(d) = Pair(e) => weight[d] = weight[e]

\* In a graph without negative cycles no distance returned is below that of the
\* shortest path, and a vertex without a loop is at distance 0 from itself. If
\* parallel edges weigh the same, the distances are those of the shortest
\* paths. A negative cycle that is noticed is there; in a graph whose parallel
\* edges weigh the same none is overlooked. More does not hold: a heavier edge
\* hides a lighter one that is parallel and comes earlier, and a loop's weight
\* becomes the distance of its vertex to itself (FloydWarshall.cpp:39).
ShortestDistances ==
  /\ status = "returned" /\ ~NegativeCycle =>
       \A u, v \in Nodes :
         IF u = v THEN HasLoop(v) \/ matrix[<<v, v>>] = 0
         ELSE /\ ~Longer(least[<<u, v>>], matrix[<<u, v>>])
              /\ ParallelsWeighAlike => matrix[<<u, v>>] = least[<<u, v>>]
  /\ status # "running" =>
       /\ Noticed => NegativeCycle
       /\ ParallelsWeighAlike /\ NegativeCycle => Noticed
=============================================================================
