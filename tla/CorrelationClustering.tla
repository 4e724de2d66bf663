------------------------ MODULE CorrelationClustering ------------------------
(* algorithms::CorrelationClustering.  The constructor lets a linear program   *)
(* give every edge a distance between 0, its ends belong together, and 1;      *)
(* round() then cuts the graph into balls: it takes a vertex, grows a ball     *)
(* along the nearest edges of that vertex until little of what the ball holds  *)
(* is cut off, makes the ball a cluster, and goes on with what is left.        *)
(* Distances and radii are counted in halves.                                  *)
EXTENDS Integers, FiniteSetsExt, SequencesExt

CONSTANTS
    GraphEdges, From, To,  \* the graph
    EdgeWeights,           \* values of mEdgeWeightFunction
    InitialVolumes,        \* what mInitialVolume may hold: the constructor reads it first
    Thousandths(_)         \* 1000 * 2.01 * log(n + 1) for n vertices

One == 2                   \* the distance 1
Infinite == 99             \* the radius when no edge was left

VARIABLES
    mEdgeWeight, mColumnToEdge, mInitialVolume,
    mEdgeActivation,       \* edge -> distance
    rest,                  \* the vertices of the copy round() takes apart
    ball,                  \* <<>>, or the ball that grows: see NewBall
    clusters,              \* history: the balls that were marked
    raised

clusterVars ==
    <<mEdgeWeight, mColumnToEdge, mInitialVolume, mEdgeActivation, rest, ball, clusters, raised>>

EndsOf(e) == {From[e], To[e]}
GraphVertices == UNION {EndsOf(e) : e \in GraphEdges}

---------------------------------------------------------------------------
(* The linear program: for three columns whose edges seem to form a triangle,  *)
(* no distance is longer than the two others together.                         *)

GetInvolvedVertices(e0, e1) ==
    SelectSeq(<<From[e0], To[e0]>>, LAMBDA v : v \notin EndsOf(e1)) \o <<From[e1], To[e1]>>

\* The answer depends on the order of the three: of two parallel edges and one
\* that meets them, and of a loop.
AreFormingTriangle(e0, e1, e2) ==
    LET vertices == GetInvolvedVertices(e0, e1) IN
    Len(vertices) = 3 /\ EndsOf(e2) \subseteq ToSet(vertices)

\* A loop on a vertex of the two others is what the constructor throws at.
SelfLoop(e0, e1, e2) == AreFormingTriangle(e0, e1, e2) /\ From[e2] = To[e2]

Before(columns) == {t \in (DOMAIN columns) \X (DOMAIN columns) \X (DOMAIN columns) :
                       t[1] < t[2] /\ t[2] < t[3]}
Triangles(columns) ==
    {t \in Before(columns) : AreFormingTriangle(columns[t[1]], columns[t[2]], columns[t[3]])}
SelfLoops(columns) ==
    {t \in Before(columns) : SelfLoop(columns[t[1]], columns[t[2]], columns[t[3]])}
Admitted(columns, x) ==
    \A t \in Triangles(columns) :
        LET d == [i \in 1 .. 3 |-> x[columns[t[i]]]]
        IN d[1] <= d[2] + d[3] /\ d[2] <= d[1] + d[3] /\ d[3] <= d[1] + d[2]

\* The values the simplex algorithm ends with; nobody asks it how it ended, so
\* they need not be the best.
Solutions(columns) == {x \in [GraphEdges -> 0 .. One] : Admitted(columns, x)}

---------------------------------------------------------------------------
(* Sums over the positive edges of the graph that was given, also those that   *)
(* lead to what is no longer left.  An edge within the ball is met at each of  *)
(* its ends, and counts whole whatever its distance.                           *)
Positive == {e \in GraphEdges : mEdgeWeight[e] > 0}
CutEdges(b) == {e \in Positive : EndsOf(e) \cap b.vertices # {} /\ ~(EndsOf(e) \subseteq b.vertices)}
Within(b) == {e \in Positive : EndsOf(e) \subseteq b.vertices}

Cut(b) == MapThenSumSet(LAMBDA e : mEdgeWeight[e], CutEdges(b))
Volume(b) ==
    IF b.radius = 0 THEN One * mInitialVolume
    ELSE MapThenSumSet(LAMBDA e : mEdgeWeight[e] * (b.radius - mEdgeActivation[e]), CutEdges(b))
         + 2 * One * MapThenSumSet(LAMBDA e : mEdgeWeight[e], Within(b))
Grows(b) == 1000 * One * Cut(b) > Thousandths(Cardinality(GraphVertices)) * Volume(b)

NewBall(v) == [centre |-> v, vertices |-> {v}, edges |-> {}, radius |-> 0]

\* The edges of the centre that lead out of the ball, to what is left.
Leading(b) == {e \in GraphEdges : /\ EndsOf(e) \subseteq rest /\ b.centre \in EndsOf(e)
                                  /\ ~(EndsOf(e) \subseteq b.vertices)}
Candidates(b) == {e \in Leading(b) : mEdgeActivation[e] # One}

\* Mutant of Nearest: the comparison with the shortest so far is forgotten.
NearestAny(b) == Candidates(b)
Nearest(b) == {e \in Candidates(b) : \A d \in Candidates(b) : mEdgeActivation[e] <= mEdgeActivation[d]}

---------------------------------------------------------------------------
\* The vertex the iterator of the copy gives first.
PickVertex ==
    /\ ~raised /\ ball = <<>>
    /\ \E v \in rest : ball' = <<NewBall(v)>>
    /\ UNCHANGED <<mEdgeActivation, rest, clusters, raised>>

GrowBall ==
    /\ ~raised /\ ball # <<>> /\ ball[1].radius # Infinite /\ Grows(ball[1])
    /\ IF \E e \in Leading(ball[1]) : mEdgeActivation[e] < ball[1].radius
       THEN raised' = TRUE /\ UNCHANGED ball
       ELSE /\ UNCHANGED raised
            /\ \/ \E e \in Nearest(ball[1]) :
                    ball' = <<[ball[1] EXCEPT !.vertices = @ \cup EndsOf(e), !.edges = @ \cup {e},
                                              !.radius = mEdgeActivation[e]]>>
               \/ /\ Candidates(ball[1]) = {}
                  /\ ball' = <<[ball[1] EXCEPT !.radius = Infinite]>>
    /\ UNCHANGED <<mEdgeActivation, rest, clusters>>

\* Mutant of Taken: only the centre leaves the graph.
TakenCentre(b) == {b.centre}
Taken(b) == b.vertices

\* Only the edges the ball grew along are marked.
MarkCluster ==
    /\ ~raised /\ ball # <<>>
    /\ ball[1].radius = Infinite \/ ~Grows(ball[1])
    /\ mEdgeActivation' = [e \in GraphEdges |-> IF e \in ball[1].edges THEN 0 ELSE mEdgeActivation[e]]
    /\ rest' = rest \ Taken(ball[1])
    /\ clusters' = clusters \cup {ball[1].vertices}
    /\ ball' = <<>>
    /\ UNCHANGED raised

ClusterInit ==
    /\ mEdgeWeight \in [GraphEdges -> EdgeWeights]
    /\ mColumnToEdge \in {SetToSeq(GraphEdges), Reverse(SetToSeq(GraphEdges))}
    /\ mInitialVolume \in InitialVolumes
    /\ mEdgeActivation \in Solutions(mColumnToEdge)
    /\ rest = GraphVertices /\ ball = <<>> /\ clusters = {}
    /\ raised = (SelfLoops(mColumnToEdge) # {})

ClusterNext == /\ PickVertex \/ GrowBall \/ MarkCluster
               /\ UNCHANGED <<mEdgeWeight, mColumnToEdge, mInitialVolume>>

ClusterSpec == ClusterInit /\ [][ClusterNext]_clusterVars

---------------------------------------------------------------------------
\* The radius never passes an edge of the centre that is not in the ball:
\* "This edge should be already included in the ball" is never thrown, whatever
\* the solver answers and whatever the first volume was
\* (CorrelationClustering::round).
NearEdgesAreInTheBall ==
    SelfLoops(mColumnToEdge) = {} => ~raised

\* Clusters are disjoint, together with what is left they are all vertices, and
\* an edge a ball grew along joins two vertices of its cluster: rounding never
\* puts a vertex into two (CorrelationClustering::round).
ClustersAreDisjoint ==
    /\ \A c, d \in clusters : c = d \/ c \cap d = {}
    /\ UNION clusters = GraphVertices \ rest
    /\ ball # <<>> => ball[1].vertices \subseteq rest

=============================================================================
