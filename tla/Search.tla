--------------------------------- MODULE Search ---------------------------------
(***************************************************************************)
(* BFS and DFS over a graph, with the visitor that follows them.  Both     *)
(* loops are the same but for the end of mStack they take from.  The       *)
(* statuses live in the visitor and mStack in the search object: callers   *)
(* may run again with either, also after a visitor's callback has thrown   *)
(* out of a search and left both as they were.                             *)
(***************************************************************************)
EXTENDS Integers, SequencesExt

CONSTANTS
  SearchVertices, SearchEdges, Source, Target,   \* of the graphs there are
  Searched,        \* the sets of edges a searched graph may have
  NoVertex,        \* no vertex is being processed
  MaxRuns          \* bound: searches with one visitor

ASSUME SearchAssumption ==
  /\ NoVertex \notin SearchVertices
  /\ Source \in [SearchEdges -> SearchVertices]
  /\ Target \in [SearchEdges -> SearchVertices]
  /\ Searched \subseteq SUBSET SearchEdges
  /\ MaxRuns \in Nat

VARIABLES
  edges,      \* the edges of the graph
  followed,   \* those the skipper does not skip
  fifo,       \* BFS (TRUE) or DFS (FALSE)
  mVertexStatus,   \* the visitor's
  mStack,     \* vertices to be processed
  vertex,     \* the vertex being processed
  todo,       \* edges its iterator has not yielded
  op,         \* "idle", "searching", or "raised" by a callback
  starts,     \* history: where searches began
  tree,       \* history: the edges treeEdge was called with
  runs,       \* history: number of searches
  thrown      \* history: a callback has thrown

searchVars == <<edges, followed, fifo, mVertexStatus, mStack, vertex, todo, op,
                starts, tree, runs, thrown>>

With(s) == {v \in SearchVertices : mVertexStatus[v] = s}

SearchInit ==
  /\ edges \in Searched
  /\ followed \in SUBSET edges
  /\ fifo \in BOOLEAN
  /\ mVertexStatus = [v \in SearchVertices |-> "UNKNOWN"]
  /\ mStack = <<>>
  /\ vertex = NoVertex /\ todo = {}
  /\ op = "idle"
  /\ starts = {} /\ tree = {} /\ runs = 0 /\ thrown = FALSE

\* A callback throws: the loop is left as it is.
Raise ==
  /\ op' = "raised" /\ thrown' = TRUE
  /\ vertex' = NoVertex /\ todo' = {}

\* run(startVertex), or run() from the first vertex the graph yields; the
\* graph is not empty. initializeVertex and startVertex come last.
Run(v) ==
  /\ op \in {"idle", "raised"} /\ runs < MaxRuns
  /\ mStack' = Append(mStack, v)
  /\ mVertexStatus' = [mVertexStatus EXCEPT ![v] = "REGISTERED"]
  /\ starts' = starts \cup {v}
  /\ runs' = runs + 1
  /\ \/ op' = "searching" /\ UNCHANGED <<vertex, todo, thrown>>
     \/ Raise
  /\ UNCHANGED <<edges, followed, fifo, tree>>

\* Mutant of Left: nothing is popped.
LeftAll == mStack

\* front() and pop() of BFS's queue, back() and pop_back() of DFS's vector.
Taken == IF fifo THEN Head(mStack) ELSE Last(mStack)
Left  == IF fifo THEN Tail(mStack) ELSE Front(mStack)

Take ==
  /\ op = "searching" /\ vertex = NoVertex /\ mStack # <<>>
  /\ vertex' = Taken
  /\ mStack' = Left
  /\ todo' = {e \in edges : Source[e] = Taken}
  /\ UNCHANGED <<edges, followed, fifo, mVertexStatus, op, starts, tree, runs, thrown>>

SkipEdge ==
  /\ op = "searching"
  /\ \E e \in todo \ followed : todo' = todo \ {e}
  /\ UNCHANGED <<edges, followed, fifo, mVertexStatus, mStack, vertex, op, starts, tree,
                 runs, thrown>>

\* Mutants of TreeEdge: the new vertex is not pushed; it is put in front.
TreeEdgeUnpushed(e) ==
  /\ mVertexStatus[Target[e]] = "UNKNOWN"
  /\ tree' = tree \cup {e}
  /\ UNCHANGED mStack
  /\ mVertexStatus' = [mVertexStatus EXCEPT ![Target[e]] = "REGISTERED"]

TreeEdgeInFront(e) ==
  /\ mVertexStatus[Target[e]] = "UNKNOWN"
  /\ tree' = tree \cup {e}
  /\ mStack' = <<Target[e]>> \o mStack
  /\ mVertexStatus' = [mVertexStatus EXCEPT ![Target[e]] = "REGISTERED"]

\* An edge to a vertex not seen before.
TreeEdge(e) ==
  /\ mVertexStatus[Target[e]] = "UNKNOWN"
  /\ tree' = tree \cup {e}
  /\ mStack' = Append(mStack, Target[e])
  /\ mVertexStatus' = [mVertexStatus EXCEPT ![Target[e]] = "REGISTERED"]

\* backEdge to a registered vertex, forwardOrCrossEdge to a visited one.
OtherEdge(e) ==
  /\ mVertexStatus[Target[e]] # "UNKNOWN"
  /\ UNCHANGED <<tree, mStack, mVertexStatus>>

\* examineEdge, and the branch for the status of the edge's target.
ExamineEdge(e) ==
  /\ TreeEdge(e) \/ OtherEdge(e)
  /\ todo' = todo \ {e}
  /\ UNCHANGED <<edges, followed, fifo, vertex, op, starts, runs, thrown>>

\* A callback throws while an edge is examined: before anything has changed,
\* or in discoverVertex, when the vertex is pushed but not yet registered.
ExamineThrows(e) ==
  /\ Raise
  /\ \/ UNCHANGED <<tree, mStack>>
     \/ /\ mVertexStatus[Target[e]] = "UNKNOWN"
        /\ tree' = tree \cup {e}
        /\ mStack' = Append(mStack, Target[e])
  /\ UNCHANGED <<edges, followed, fifo, mVertexStatus, starts, runs>>

Examine ==
  /\ op = "searching"
  /\ \E e \in todo \cap followed : ExamineEdge(e) \/ ExamineThrows(e)

\* leafVertex and finishVertex come after the status is set.
FinishVertex ==
  /\ op = "searching" /\ vertex # NoVertex /\ todo = {}
  /\ mVertexStatus' = [mVertexStatus EXCEPT ![vertex] = "VISITED"]
  /\ \/ vertex' = NoVertex /\ UNCHANGED <<op, todo, thrown>>
     \/ Raise
  /\ UNCHANGED <<edges, followed, fifo, mStack, starts, tree, runs>>

Return ==
  /\ op = "searching" /\ vertex = NoVertex /\ mStack = <<>>
  /\ op' = "idle"
  /\ UNCHANGED <<edges, followed, fifo, mVertexStatus, mStack, vertex, todo, starts,
                 tree, runs, thrown>>

Searching == Take \/ SkipEdge \/ Examine \/ FinishVertex \/ Return

SearchNext == Searching \/ \E v \in SearchVertices : Run(v)

SearchSpec == SearchInit /\ [][SearchNext]_searchVars

\* A search that has begun runs on in its caller's thread.
FairSearch == SearchSpec /\ WF_searchVars(Searching)

-----------------------------------------------------------------------------
SearchTypeOK ==
  /\ edges \in SUBSET SearchEdges /\ followed \in SUBSET edges /\ fifo \in BOOLEAN
  /\ mVertexStatus \in [SearchVertices -> {"UNKNOWN", "REGISTERED", "VISITED"}]
  /\ mStack \in Seq(SearchVertices)
  /\ vertex \in SearchVertices \cup {NoVertex}
  /\ todo \in SUBSET edges
  /\ op \in {"idle", "searching", "raised"}
  /\ starts \in SUBSET SearchVertices /\ tree \in SUBSET followed
  /\ runs \in 0 .. MaxRuns /\ thrown \in BOOLEAN

Closed(vs) == \A e \in followed : Source[e] \in vs => Target[e] \in vs

\* A search returns with all there is to find: the visited vertices are the
\* least set that holds every start and is closed under the followed edges,
\* for BFS and DFS, and also when one visitor is used for several searches.
FindsReachable ==
  op = "idle" /\ ~thrown =>
    /\ starts \subseteq With("VISITED") /\ Closed(With("VISITED"))
    /\ \A vs \in SUBSET SearchVertices :
         starts \subseteq vs /\ Closed(vs) => With("VISITED") \subseteq vs

\* Nothing else is ever touched, not even after a callback has thrown.
OnlyReachable ==
  \A vs \in SUBSET SearchVertices :
    starts \subseteq vs /\ Closed(vs) =>
      \A v \in SearchVertices : mVertexStatus[v] # "UNKNOWN" => v \in vs

\* As long as no callback throws, the registered vertices are those waiting or
\* being processed, and each of them is so once.
RegisteredIsPending ==
  ~thrown =>
    /\ With("REGISTERED") = {v \in SearchVertices : Contains(mStack, v) \/ v = vertex}
    /\ \A i, j \in DOMAIN mStack : mStack[i] = mStack[j] => i = j
    /\ ~Contains(mStack, vertex)

\* treeEdge is called with the edges of a forest: one into each vertex that is
\* found and not a start.
TreeIsForest ==
  ~thrown =>
    /\ \A d, e \in tree : Target[d] = Target[e] => d = e
    /\ \A v \in SearchVertices \ starts :
         mVertexStatus[v] # "UNKNOWN" <=> \E e \in tree : Target[e] = v

\* The vertices at most n followed edges away from the starts.
Within ==
  LET within[n \in Nat] ==
        IF n = 0 THEN starts
        ELSE within[n - 1] \cup
               {Target[e] : e \in {d \in followed : Source[d] \in within[n - 1]}}
  IN  within

\* BFS goes in the order of distance: when it comes to a vertex, all that are
\* nearer to the start have been visited.
NearestFirst ==
  fifo /\ runs = 1 /\ vertex # NoVertex =>
    \A n \in 0 .. Cardinality(SearchVertices) :
      vertex \in Within[n] \/ Within[n] \subseteq With("VISITED")

\* Every search comes to an end, whatever earlier ones have left in mStack.
SearchEnds == op = "searching" ~> op # "searching"
=============================================================================
