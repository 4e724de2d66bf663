----------------------------- MODULE CallbackProofs -----------------------------
(***************************************************************************)
(* Proofs about the components that call others back while they work: the  *)
(* searches, on any graph and with any skipper and visitor, and the        *)
(* transaction observer, for every number of events and every nesting.     *)
(* Unless a theorem says so, visitors and observers may throw; stopFailed  *)
(* tells whether an exception has ever left the emitting loop.             *)
(***************************************************************************)
EXTENDS Search, TransactionObserver, SequenceTheorems, DataInduction

-----------------------------------------------------------------------------
(* Searches.                                                                   *)

\* What holds of every search, also of one that a callback ends.
Shape ==
  /\ SearchTypeOK
  /\ \A e \in todo : Source[e] = vertex
  /\ op # "searching" => vertex = NoVertex
  /\ op = "raised" => thrown

\* Everything seen or waiting can be reached from a start.
Reached ==
  \A vs \in SUBSET SearchVertices :
    starts \subseteq vs /\ Closed(vs) =>
      \A v \in SearchVertices : mVertexStatus[v] # "UNKNOWN" \/ Contains(mStack, v) \/ v = vertex => v \in vs

\* Without an exception, the followed edges of visited vertices, and those the
\* iterator of the current one has yielded, lead to vertices that are known.
Explored ==
  ~thrown =>
    /\ op # "searching" => mStack = <<>>
    /\ \A v \in starts : mVertexStatus[v] # "UNKNOWN"
    /\ \A e \in followed :
         mVertexStatus[Source[e]] = "VISITED" \/ (Source[e] = vertex /\ e \notin todo)
           => mVertexStatus[Target[e]] # "UNKNOWN"

SearchInv == Shape /\ Reached /\ Explored /\ RegisteredIsPending /\ TreeIsForest

-----------------------------------------------------------------------------
\* Taking a vertex from either end splits the waiting ones into it and the rest.
LEMMA TakenAndLeft ==
  ASSUME mStack \in Seq(SearchVertices), mStack # <<>>
  PROVE  /\ Taken \in SearchVertices /\ Left \in Seq(SearchVertices)
         /\ \A v : Contains(mStack, v) <=> Contains(Left, v) \/ v = Taken
         /\ NoneTwice(mStack) => NoneTwice(Left) /\ ~Contains(Left, Taken)
<1> DEFINE n == Len(mStack)
<1>1. n \in Nat /\ n > 0 /\ DOMAIN mStack = 1 .. n
      /\ \A i \in 1 .. n : mStack[i] \in SearchVertices
  OBVIOUS
<1>2. CASE fifo
  <2>1. Taken = mStack[1] /\ Left = Tail(mStack) BY <1>2 DEF Taken, Left
  <2>2. Left \in Seq(SearchVertices) /\ Len(Left) = n - 1
        /\ \A i \in 1 .. n - 1 : Left[i] = mStack[i + 1]
    BY <2>1
  <2>3. ASSUME NEW v PROVE Contains(mStack, v) <=> Contains(Left, v) \/ v = Taken
    <3>1. ASSUME NEW i \in 1 .. n, mStack[i] = v PROVE Contains(Left, v) \/ v = Taken
      <4>1. CASE i = 1 BY <2>1, <3>1, <4>1
      <4>2. CASE i # 1
        <5>1. i - 1 \in 1 .. Len(Left) /\ Left[i - 1] = v BY <1>1, <2>2, <3>1, <4>2
        <5> QED BY <5>1 DEF Contains
      <4> QED BY <4>1, <4>2
    <3>2. ASSUME NEW i \in 1 .. n - 1, Left[i] = v PROVE Contains(mStack, v)
      BY <1>1, <2>2, <3>2 DEF Contains
    <3>3. v = Taken => Contains(mStack, v) BY <1>1, <2>1 DEF Contains
    <3> QED BY <2>2, <3>1, <3>2, <3>3 DEF Contains
  <2>4. NoneTwice(mStack) => NoneTwice(Left) /\ ~Contains(Left, Taken)
    BY <1>1, <2>1, <2>2 DEF NoneTwice, Contains
  <2> QED BY <1>1, <2>1, <2>2, <2>3, <2>4
<1>3. CASE ~fifo
  <2>1. Taken = mStack[n] /\ Left = SubSeq(mStack, 1, n - 1)
    BY <1>3 DEF Taken, Left, Last, Front
  <2>2. Left \in Seq(SearchVertices) /\ Len(Left) = n - 1
        /\ \A i \in 1 .. n - 1 : Left[i] = mStack[i]
    BY <1>1, <2>1
  <2>3. ASSUME NEW v PROVE Contains(mStack, v) <=> Contains(Left, v) \/ v = Taken
    <3>1. ASSUME NEW i \in 1 .. n, mStack[i] = v PROVE Contains(Left, v) \/ v = Taken
      <4>1. CASE i = n BY <2>1, <3>1, <4>1
      <4>2. CASE i # n
        <5>0. n \in Nat /\ i \in 1 .. n BY <1>1
        <5>1. i \in 1 .. n - 1 BY <5>0, <4>2
        <5>2. i \in 1 .. Len(Left) /\ Left[i] = v BY <2>2, <3>1, <5>1
        <5> QED BY <5>2 DEF Contains
      <4> QED BY <4>1, <4>2
    <3>2. ASSUME NEW i \in 1 .. n - 1, Left[i] = v PROVE Contains(mStack, v)
      BY <1>1, <2>2, <3>2 DEF Contains
    <3>3. v = Taken => Contains(mStack, v) BY <1>1, <2>1 DEF Contains
    <3> QED BY <2>2, <3>1, <3>2, <3>3 DEF Contains
  <2>4. NoneTwice(mStack) => NoneTwice(Left) /\ ~Contains(Left, Taken)
    BY <1>1, <2>1, <2>2 DEF NoneTwice, Contains
  <2> QED BY <1>1, <2>1, <2>2, <2>3, <2>4
<1> QED BY <1>2, <1>3

\* A vertex is pushed.
LEMMA Pushed ==
  ASSUME NEW s \in Seq(SearchVertices), NEW v \in SearchVertices
  PROVE  /\ Append(s, v) \in Seq(SearchVertices)
         /\ \A w : Contains(Append(s, v), w) <=> Contains(s, w) \/ w = v
         /\ NoneTwice(s) /\ ~Contains(s, v) => NoneTwice(Append(s, v))
<1> DEFINE t == Append(s, v)
<1>1. /\ t \in Seq(SearchVertices) /\ Len(s) \in Nat /\ Len(t) = Len(s) + 1
      /\ \A i \in 1 .. Len(s) : t[i] = s[i]
      /\ t[Len(s) + 1] = v /\ DOMAIN s = 1 .. Len(s) /\ DOMAIN t = 1 .. Len(t)
  OBVIOUS
<1> HIDE DEF t
<1>2. ASSUME NEW w PROVE Contains(t, w) <=> Contains(s, w) \/ w = v
  <2>1. ASSUME NEW i \in 1 .. Len(t), t[i] = w PROVE Contains(s, w) \/ w = v
    <3>1. CASE i = Len(s) + 1 BY <1>1, <2>1, <3>1
    <3>2. CASE i \in 1 .. Len(s) BY <1>1, <2>1, <3>2 DEF Contains
    <3> QED BY <1>1, <3>1, <3>2
  <2>2. ASSUME NEW i \in 1 .. Len(s), s[i] = w PROVE Contains(t, w)
    BY <1>1, <2>2 DEF Contains
  <2>3. w = v => Contains(t, w) BY <1>1 DEF Contains
  <2> QED BY <2>1, <2>2, <2>3 DEF Contains
<1>3. NoneTwice(s) /\ ~Contains(s, v) => NoneTwice(t)
  BY <1>1 DEF NoneTwice, Contains
<1> QED BY <1>1, <1>2, <1>3 DEF t

-----------------------------------------------------------------------------
\* The invariant holds before the search.
LEMMA SearchInitInv == SearchInit => SearchInv
<1> SUFFICES ASSUME SearchInit PROVE SearchInv OBVIOUS
<1> USE SearchAssumption DEF SearchInit
<1>0. \A v : ~Contains(mStack, v) BY DEF Contains
<1>1. Shape
  <2>1. edges \in SUBSET SearchEdges OBVIOUS
  <2>2. mVertexStatus \in [SearchVertices -> {"UNKNOWN", "REGISTERED", "VISITED"}] OBVIOUS
  <2>3. mStack \in Seq(SearchVertices) /\ runs \in 0 .. MaxRuns OBVIOUS
  <2> QED BY <2>1, <2>2, <2>3 DEF Shape, SearchTypeOK
<1>2. Reached BY <1>0 DEF Reached
<1>3. Explored BY DEF Explored
<1>4. RegisteredIsPending BY <1>0 DEF RegisteredIsPending, With
<1>5. TreeIsForest BY DEF TreeIsForest
<1> QED BY <1>1, <1>2, <1>3, <1>4, <1>5 DEF SearchInv

\* A search starts: nothing is waiting if none was left by an exception.
LEMMA RunInv ==
  ASSUME SearchInv, NEW v \in SearchVertices, Run(v)
  PROVE  SearchInv'
<1> USE SearchAssumption DEF SearchInv
<1>0. SearchTypeOK /\ mStack \in Seq(SearchVertices) /\ v # NoVertex
  BY DEF Shape, SearchTypeOK
<1>1. /\ mStack' = Append(mStack, v) /\ mStack' \in Seq(SearchVertices)
      /\ \A w : Contains(mStack', w) <=> Contains(mStack, w) \/ w = v
      /\ NoneTwice(mStack) /\ ~Contains(mStack, v) => NoneTwice(mStack')
  BY <1>0, Pushed DEF Run
<1>2. /\ mVertexStatus' = [mVertexStatus EXCEPT ![v] = "REGISTERED"]
      /\ starts' = starts \cup {v}
      /\ vertex = NoVertex /\ todo = {} /\ vertex' = NoVertex /\ todo' = {}
      /\ UNCHANGED <<edges, followed, tree>>
      /\ op' \in {"searching", "raised"}
      /\ ~thrown' => ~thrown /\ op = "idle" /\ op' = "searching"
      /\ op' = "raised" => thrown'
  <2>1. vertex = NoVertex BY DEF Run, Shape
  <2>2. todo = {} BY <2>1 DEF Shape, SearchTypeOK
  <2> QED BY <2>1, <2>2 DEF Run, Raise, Shape, SearchTypeOK
<1>3. Shape'
  <2>1. mVertexStatus' \in [SearchVertices -> {"UNKNOWN", "REGISTERED", "VISITED"}]
    BY <1>0, <1>2 DEF SearchTypeOK
  <2>2. runs' \in 0 .. MaxRuns BY <1>0 DEF Run, SearchTypeOK
  <2>3. thrown' \in BOOLEAN /\ fifo' \in BOOLEAN BY <1>0 DEF Run, Raise, SearchTypeOK
  <2> QED BY <1>0, <1>1, <1>2, <2>1, <2>2, <2>3 DEF Shape, SearchTypeOK
<1>4. \A w \in SearchVertices : mVertexStatus'[w] = IF w = v THEN "REGISTERED" ELSE mVertexStatus[w]
  BY <1>0, <1>2 DEF SearchTypeOK
<1>5. Reached' BY <1>1, <1>2, <1>4 DEF Reached, Closed
<1>6. CASE thrown' BY <1>3, <1>5, <1>6 DEF Explored, RegisteredIsPending, TreeIsForest
<1>7. CASE ~thrown'
  <2>1. mStack = <<>> /\ \A w : ~Contains(mStack, w)
    BY <1>2, <1>7 DEF Explored, Contains
  <2>2. Explored'
    <3>1. followed \in SUBSET SearchEdges BY <1>0 DEF SearchTypeOK
    <3> QED BY <1>0, <1>2, <1>4, <1>7, <3>1 DEF Explored
  <2>3. With("REGISTERED") = {} BY <1>0, <1>2, <1>7, <2>1 DEF RegisteredIsPending
  <2>4. NoneTwice(mStack') BY <1>1, <2>1 DEF NoneTwice
  <2>5. RegisteredIsPending'
    <3>1. With("REGISTERED")' = {v}
      BY <1>4, <2>3 DEF With
    <3>2. \A w : Contains(mStack', w) <=> w = v BY <1>1, <2>1
    <3> QED BY <1>0, <1>2, <2>4, <3>1, <3>2 DEF RegisteredIsPending, NoneTwice
  <2>6. TreeIsForest' BY <1>2, <1>4, <1>7 DEF TreeIsForest
  <2> QED BY <1>3, <1>5, <2>2, <2>5, <2>6
<1> QED BY <1>6, <1>7

\* A vertex is taken from the list ...
LEMMA TakeInv ==
  ASSUME SearchInv, Take
  PROVE  SearchInv'
<1> USE SearchAssumption DEF SearchInv
<1>0. SearchTypeOK /\ mStack \in Seq(SearchVertices) BY DEF Shape, SearchTypeOK
<1>1. /\ Taken \in SearchVertices /\ Left \in Seq(SearchVertices)
      /\ \A v : Contains(mStack, v) <=> Contains(Left, v) \/ v = Taken
      /\ NoneTwice(mStack) => NoneTwice(Left) /\ ~Contains(Left, Taken)
  BY <1>0, TakenAndLeft DEF Take
<1>2. /\ vertex = NoVertex /\ vertex' = Taken /\ mStack' = Left
      /\ todo' = {e \in edges : Source[e] = Taken}
      /\ op = "searching" /\ op' = op
      /\ UNCHANGED <<edges, followed, fifo, mVertexStatus, starts, tree, runs, thrown>>
  BY DEF Take
<1>3. Shape' BY <1>0, <1>1, <1>2 DEF Shape, SearchTypeOK
<1>4. Reached' BY <1>1, <1>2 DEF Reached, Closed
<1>5. Explored'
  <2>1. followed \in SUBSET edges BY <1>0 DEF SearchTypeOK
  <2> QED BY <1>1, <1>2, <2>1 DEF Explored
<1>6. RegisteredIsPending'
  <2> SUFFICES ASSUME ~thrown PROVE RegisteredIsPending' BY <1>2 DEF RegisteredIsPending
  <2>1. NoneTwice(mStack) BY DEF RegisteredIsPending, NoneTwice
  <2>2. With("REGISTERED")' = With("REGISTERED") BY <1>2 DEF With
  <2>3. {v \in SearchVertices : Contains(mStack', v) \/ v = vertex'} =
        {v \in SearchVertices : Contains(mStack, v) \/ v = vertex}
    BY <1>1, <1>2
  <2> QED BY <1>1, <1>2, <2>1, <2>2, <2>3 DEF RegisteredIsPending, NoneTwice
<1>7. TreeIsForest' BY <1>2 DEF TreeIsForest
<1> QED BY <1>3, <1>4, <1>5, <1>6, <1>7

\* ... an edge of it is examined ...
LEMMA ExamineInv ==
  ASSUME SearchInv, Examine
  PROVE  SearchInv'
<1> USE SearchAssumption DEF SearchInv
<1>0. SearchTypeOK /\ mStack \in Seq(SearchVertices) BY DEF Shape, SearchTypeOK
<1>1. PICK e \in todo \cap followed : ExamineEdge(e) \/ ExamineThrows(e)
  BY DEF Examine
<1> DEFINE t == Target[e]
<1>2. /\ e \in SearchEdges /\ t \in SearchVertices /\ t # NoVertex /\ Source[e] = vertex
      /\ vertex \in SearchVertices /\ op = "searching" /\ e \in edges /\ e \in followed
      /\ followed \in SUBSET SearchEdges
  BY <1>0 DEF Shape, SearchTypeOK, Examine
<1> HIDE DEF t
<1>3. /\ Append(mStack, t) \in Seq(SearchVertices)
      /\ \A w : Contains(Append(mStack, t), w) <=> Contains(mStack, w) \/ w = t
      /\ NoneTwice(mStack) /\ ~Contains(mStack, t) => NoneTwice(Append(mStack, t))
  BY <1>0, <1>2, Pushed
<1>4. \A vs : starts \subseteq vs /\ Closed(vs) /\ vs \in SUBSET SearchVertices => t \in vs
  BY <1>2 DEF Reached, Closed, t
<1>5. CASE ExamineThrows(e)
  <2>1. /\ thrown' /\ vertex' = NoVertex /\ todo' = {} /\ op' = "raised" /\ thrown' \in BOOLEAN
        /\ UNCHANGED <<edges, followed, fifo, mVertexStatus, starts, runs>>
        /\ \/ UNCHANGED <<tree, mStack>>
           \/ tree' = tree \cup {e} /\ mStack' = Append(mStack, t)
    BY <1>5 DEF ExamineThrows, Raise, t
  <2>2. Shape' BY <1>0, <1>2, <1>3, <2>1 DEF Shape, SearchTypeOK
  <2>3. Reached'
    <3>1. CASE mStack' = mStack
      BY <1>0, <2>1, <3>1 DEF Reached, Closed, SearchTypeOK
    <3>2. CASE mStack' = Append(mStack, t)
      <4>1. starts' = starts /\ mVertexStatus' = mVertexStatus /\ \A vs : Closed(vs)' = Closed(vs)
        BY <2>1 DEF Closed
      <4>2. \A v \in SearchVertices : Contains(mStack', v) => Contains(mStack, v) \/ v = t
        BY <1>3, <3>2
      <4>3. \A v \in SearchVertices : v # vertex' BY <2>1
      <4> QED BY <1>4, <4>1, <4>2, <4>3 DEF Reached
    <3> QED BY <2>1, <3>1, <3>2
  <2> QED BY <2>1, <2>2, <2>3 DEF Explored, RegisteredIsPending, TreeIsForest
<1>6. CASE ExamineEdge(e) /\ OtherEdge(e)
  <2>1. /\ mVertexStatus[t] # "UNKNOWN" /\ todo' = todo \ {e}
        /\ UNCHANGED <<edges, followed, fifo, vertex, op, starts, runs, thrown, tree, mStack, mVertexStatus>>
    BY <1>6 DEF ExamineEdge, OtherEdge, t
  <2>2. Shape' BY <1>0, <2>1 DEF Shape, SearchTypeOK
  <2>3. Reached' BY <2>1 DEF Reached, Closed
  <2>4. Explored' BY <2>1 DEF Explored, t
  <2>5. RegisteredIsPending' BY <2>1 DEF RegisteredIsPending, With
  <2>6. TreeIsForest' BY <2>1 DEF TreeIsForest
  <2> QED BY <2>2, <2>3, <2>4, <2>5, <2>6
<1>7. CASE ExamineEdge(e) /\ TreeEdge(e)
  <2>1. /\ mVertexStatus[t] = "UNKNOWN" /\ todo' = todo \ {e}
        /\ tree' = tree \cup {e} /\ mStack' = Append(mStack, t)
        /\ mVertexStatus' = [mVertexStatus EXCEPT ![t] = "REGISTERED"]
        /\ UNCHANGED <<edges, followed, fifo, vertex, op, starts, runs, thrown>>
    BY <1>7 DEF ExamineEdge, TreeEdge, t
  <2>2. \A w \in SearchVertices : mVertexStatus'[w] = IF w = t THEN "REGISTERED" ELSE mVertexStatus[w]
    BY <1>0, <2>1 DEF SearchTypeOK
  <2>3. Shape'
    <3>1. mVertexStatus' \in [SearchVertices -> {"UNKNOWN", "REGISTERED", "VISITED"}]
      BY <1>0, <2>1 DEF SearchTypeOK
    <3> QED BY <1>0, <1>2, <1>3, <2>1, <3>1 DEF Shape, SearchTypeOK
  <2>4. Reached' BY <1>3, <1>4, <2>1, <2>2 DEF Reached, Closed
  <2>5. Explored'
    <3> SUFFICES ASSUME ~thrown PROVE Explored' BY <2>1 DEF Explored
    <3>1. \A w \in SearchVertices : mVertexStatus[w] # "UNKNOWN" => mVertexStatus'[w] # "UNKNOWN" BY <2>2
    <3>2. \A w \in SearchVertices : mVertexStatus'[w] = "VISITED" => mVertexStatus[w] = "VISITED" BY <2>2
    <3>3. \A d \in followed : Source[d] \in SearchVertices /\ Target[d] \in SearchVertices
      BY <1>2
    <3>4. starts \subseteq SearchVertices BY <1>0 DEF SearchTypeOK
    <3>5. mVertexStatus'[t] # "UNKNOWN" BY <1>2, <2>2
    <3> QED BY <1>2, <2>1, <3>1, <3>2, <3>3, <3>4, <3>5 DEF Explored, t
  <2>6. RegisteredIsPending'
    <3> SUFFICES ASSUME ~thrown PROVE RegisteredIsPending' BY <2>1 DEF RegisteredIsPending
    <3>1. t \notin With("REGISTERED") BY <2>1 DEF With
    <3>2. ~Contains(mStack, t) /\ t # vertex BY <1>2, <3>1 DEF RegisteredIsPending
    <3>3. NoneTwice(mStack') BY <1>3, <2>1, <3>2 DEF RegisteredIsPending, NoneTwice
    <3>4. With("REGISTERED")' = With("REGISTERED") \cup {t}
      BY <1>2, <2>2 DEF With
    <3>5. {v \in SearchVertices : Contains(mStack', v) \/ v = vertex'} =
          {v \in SearchVertices : Contains(mStack, v) \/ v = vertex} \cup {t}
      BY <1>2, <1>3, <2>1
    <3>6. ~Contains(mStack', vertex')
      BY <1>3, <2>1, <3>2 DEF RegisteredIsPending
    <3> QED BY <3>3, <3>4, <3>5, <3>6 DEF RegisteredIsPending, NoneTwice
  <2>7. TreeIsForest'
    <3> SUFFICES ASSUME ~thrown PROVE TreeIsForest' BY <2>1 DEF TreeIsForest
    <3>1. t \notin starts BY <2>1 DEF Explored
    <3>2. \A d \in tree : Target[d] # t BY <1>2, <2>1, <3>1 DEF TreeIsForest
    <3>3. \A c, d \in tree' : Target[c] = Target[d] => c = d
      BY <2>1, <3>2 DEF TreeIsForest, t
    <3>4. ASSUME NEW w \in SearchVertices \ starts
          PROVE  mVertexStatus'[w] # "UNKNOWN" <=> \E d \in tree' : Target[d] = w
      BY <2>1, <2>2, <3>4 DEF TreeIsForest, t
    <3> QED BY <2>1, <3>3, <3>4 DEF TreeIsForest
  <2> QED BY <2>3, <2>4, <2>5, <2>6, <2>7
<1> QED BY <1>1, <1>5, <1>6, <1>7 DEF ExamineEdge

\* ... and it is finished: the invariant stays.
LEMMA FinishInv ==
  ASSUME SearchInv, FinishVertex
  PROVE  SearchInv'
<1> USE SearchAssumption DEF SearchInv
<1>0. SearchTypeOK /\ vertex \in SearchVertices /\ vertex # NoVertex /\ todo = {} /\ op = "searching"
  BY DEF Shape, SearchTypeOK, FinishVertex
<1>1. /\ mVertexStatus' = [mVertexStatus EXCEPT ![vertex] = "VISITED"]
      /\ vertex' = NoVertex /\ todo' = {}
      /\ \/ op' = op /\ thrown' = thrown
         \/ op' = "raised" /\ thrown' = TRUE
      /\ UNCHANGED <<edges, followed, fifo, mStack, starts, tree, runs>>
  BY <1>0 DEF FinishVertex, Raise
<1>2. \A w \in SearchVertices : mVertexStatus'[w] = IF w = vertex THEN "VISITED" ELSE mVertexStatus[w]
  BY <1>0, <1>1 DEF SearchTypeOK
<1>3. Shape'
  <2>1. mVertexStatus' \in [SearchVertices -> {"UNKNOWN", "REGISTERED", "VISITED"}]
    BY <1>0, <1>1 DEF SearchTypeOK
  <2> QED BY <1>0, <1>1, <2>1 DEF Shape, SearchTypeOK
<1>4. Reached'
  <2>1. \A w \in SearchVertices :
          mVertexStatus'[w] # "UNKNOWN" \/ Contains(mStack', w) \/ w = vertex' =>
          mVertexStatus[w] # "UNKNOWN" \/ Contains(mStack, w) \/ w = vertex
    BY <1>1, <1>2
  <2> QED BY <1>1, <2>1 DEF Reached, Closed
<1>5. CASE thrown' BY <1>3, <1>4, <1>5 DEF Explored, RegisteredIsPending, TreeIsForest
<1>6. CASE ~thrown'
  <2>0. ~thrown /\ op' = "searching" BY <1>0, <1>1, <1>6
  <2>1. \A w \in SearchVertices : mVertexStatus[w] # "UNKNOWN" <=> mVertexStatus'[w] # "UNKNOWN"
    <3>1. mVertexStatus[vertex] = "REGISTERED" BY <1>0, <2>0 DEF RegisteredIsPending, With
    <3> QED BY <1>2, <3>1
  <2>2. Explored'
    <3>1. \A d \in followed : Source[d] \in SearchVertices /\ Target[d] \in SearchVertices
      BY <1>0 DEF SearchTypeOK
    <3>2. starts \subseteq SearchVertices BY <1>0 DEF SearchTypeOK
    <3>3. \A d \in followed :
            mVertexStatus'[Source[d]] = "VISITED" \/ (Source[d] = vertex' /\ d \notin todo')
              => mVertexStatus'[Target[d]] # "UNKNOWN"
      BY <1>0, <1>1, <1>2, <2>0, <2>1, <3>1 DEF Explored
    <3> QED BY <1>1, <2>0, <2>1, <3>2, <3>3 DEF Explored
  <2>3. RegisteredIsPending'
    <3>1. With("REGISTERED")' = With("REGISTERED") \ {vertex} BY <1>2 DEF With
    <3>2. ~Contains(mStack, NoVertex)
      <4>1. \A i \in 1 .. Len(mStack) : mStack[i] \in SearchVertices BY <1>0 DEF SearchTypeOK
      <4> QED BY <4>1 DEF Contains
    <3> QED BY <1>0, <1>1, <2>0, <3>1, <3>2 DEF RegisteredIsPending
  <2>4. TreeIsForest' BY <1>1, <2>0, <2>1 DEF TreeIsForest
  <2> QED BY <1>3, <1>4, <2>2, <2>3, <2>4
<1> QED BY <1>5, <1>6

\* Every step keeps the invariant.
LEMMA SearchNextInv == SearchInv /\ [SearchNext]_searchVars => SearchInv'
<1> SUFFICES ASSUME SearchInv, [SearchNext]_searchVars PROVE SearchInv' OBVIOUS
<1>1. ASSUME UNCHANGED <<edges, followed, mVertexStatus, mStack, vertex, starts, tree, thrown>>,
             todo' \in SUBSET todo, todo \ todo' \subseteq edges \ followed,
             op' = op \/ (op = "searching" /\ op' = "idle" /\ vertex = NoVertex /\ mStack = <<>>),
             fifo' = fifo, runs' = runs
      PROVE  SearchInv'
  <2> USE DEF SearchInv
  <2>1. Shape' BY <1>1 DEF Shape, SearchTypeOK
  <2>2. Reached' BY <1>1 DEF Reached, Closed
  <2>3. Explored' BY <1>1 DEF Explored
  <2>4. RegisteredIsPending' BY <1>1 DEF RegisteredIsPending, With
  <2>5. TreeIsForest' BY <1>1 DEF TreeIsForest
  <2> QED BY <2>1, <2>2, <2>3, <2>4, <2>5
<1>2. CASE SkipEdge
  <2>1. todo \subseteq edges BY DEF SearchInv, Shape, SearchTypeOK
  <2> QED BY <1>1, <1>2, <2>1 DEF SkipEdge
<1>3. CASE Return BY <1>1, <1>3 DEF Return
<1>4. CASE UNCHANGED searchVars BY <1>1, <1>4 DEF searchVars
<1> QED
  BY <1>2, <1>3, <1>4, RunInv, TakeInv, ExamineInv, FinishInv DEF SearchNext, Searching

\* The invariant holds throughout.
LEMMA SearchSpecInv == SearchSpec => []SearchInv
BY SearchInitInv, SearchNextInv, PTL DEF SearchSpec

-----------------------------------------------------------------------------
\* Every search is well typed.
THEOREM SearchTypeCorrect == SearchSpec => []SearchTypeOK
<1>1. SearchInv => SearchTypeOK BY DEF SearchInv, Shape
<1> QED BY <1>1, SearchSpecInv, PTL

\* BFS and DFS touch only vertices that can be reached from a start over edges
\* the skipper lets pass, even if callbacks throw and searches are repeated.
THEOREM SearchStaysInReach == SearchSpec => []OnlyReachable
<1>1. SearchInv => OnlyReachable BY DEF SearchInv, Reached, OnlyReachable
<1> QED BY <1>1, SearchSpecInv, PTL

\* The statuses tell where a vertex is: registered ones wait or are processed.
THEOREM PendingOnce == SearchSpec => []RegisteredIsPending
<1>1. SearchInv => RegisteredIsPending BY DEF SearchInv
<1> QED BY <1>1, SearchSpecInv, PTL

\* treeEdge is called with the edges of a forest that spans what is found.
THEOREM TreeEdgesAreForest == SearchSpec => []TreeIsForest
<1>1. SearchInv => TreeIsForest BY DEF SearchInv
<1> QED BY <1>1, SearchSpecInv, PTL

\* A search that returns has visited exactly what its starts can reach.
THEOREM SearchFindsReachable == SearchSpec => []FindsReachable
<1>1. SearchInv => FindsReachable
  <2> SUFFICES ASSUME SearchInv, op = "idle", ~thrown
               PROVE  /\ starts \subseteq With("VISITED") /\ Closed(With("VISITED"))
                      /\ \A vs \in SUBSET SearchVertices :
                           starts \subseteq vs /\ Closed(vs) => With("VISITED") \subseteq vs
    BY DEF FindsReachable
  <2> USE SearchAssumption DEF SearchInv
  <2>0. SearchTypeOK /\ vertex = NoVertex /\ mStack = <<>>
    BY DEF Shape, Explored
  <2>1. \A v : ~Contains(mStack, v) BY <2>0 DEF Contains
  <2>2. With("REGISTERED") = {} BY <2>0, <2>1 DEF RegisteredIsPending
  <2>3. \A v \in SearchVertices : mVertexStatus[v] # "UNKNOWN" => v \in With("VISITED")
    BY <2>0, <2>2 DEF With, SearchTypeOK
  <2>4. starts \subseteq With("VISITED")
    BY <2>0, <2>3 DEF Explored, SearchTypeOK
  <2>5. Closed(With("VISITED"))
    <3> SUFFICES ASSUME NEW e \in followed, Source[e] \in With("VISITED")
                 PROVE  Target[e] \in With("VISITED")
      BY DEF Closed
    <3>1. Target[e] \in SearchVertices BY <2>0 DEF SearchTypeOK
    <3> QED BY <2>3, <3>1 DEF Explored, With
  <2>6. \A vs \in SUBSET SearchVertices :
          starts \subseteq vs /\ Closed(vs) => With("VISITED") \subseteq vs
    BY DEF Reached, With
  <2> QED BY <2>4, <2>5, <2>6
<1> QED BY <1>1, SearchSpecInv, PTL

-----------------------------------------------------------------------------
(* The order of BFS.  Within is a recursive function of the starts and the     *)
(* followed edges: what its definition promises has to be proved first.        *)

Next1(F, vs) == vs \cup {Target[e] : e \in {d \in F : Source[d] \in vs}}

Levels(S, F) ==
  LET within[n \in Nat] == IF n = 0 THEN S ELSE Next1(F, within[n - 1]) IN within

\* The levels are what their recursion says.
LEMMA LevelsUnfold ==
  ASSUME NEW S \in SUBSET SearchVertices, NEW F \in SUBSET SearchEdges
  PROVE  /\ Levels(S, F) \in [Nat -> SUBSET SearchVertices]
         /\ Levels(S, F)[0] = S
         /\ \A n \in Nat : Levels(S, F)[n + 1] = Next1(F, Levels(S, F)[n])
<1> DEFINE sets == SUBSET SearchVertices
<1>1. PICK step \in [sets -> sets] : \A x \in sets : step[x] = Next1(F, x)
  <2>1. \A x \in sets : Next1(F, x) \in sets BY SearchAssumption DEF Next1
  <2>2. [x \in sets |-> Next1(F, x)] \in [sets -> sets] BY <2>1
  <2> QED BY <2>2
<1>2. S \in sets OBVIOUS
<1> HIDE DEF sets
<1>3. PICK f \in [Nat -> sets] : f[0] = S /\ \A n \in Nat : f[n + 1] = step[f[n]]
  <2>1. step \in [sets -> sets] BY <1>1
  <2>2. \E f : Iterates(f, S, step, sets) BY <1>2, <2>1, Recursion, Zenon
  <2> QED BY <2>2 DEF Iterates
<1>4. f = [n \in Nat |-> IF n = 0 THEN S ELSE Next1(F, f[n - 1])]
  <2> SUFFICES ASSUME NEW n \in Nat PROVE f[n] = IF n = 0 THEN S ELSE Next1(F, f[n - 1])
    BY Zenon
  <2>1. CASE n = 0 BY <1>3, <2>1
  <2>2. CASE n # 0
    <3>1. n - 1 \in Nat /\ n = (n - 1) + 1 BY <2>2
    <3> QED BY <1>1, <1>3, <2>2, <3>1
  <2> QED BY <2>1, <2>2
<1> DEFINE W == Levels(S, F)
<1>5. W = [n \in Nat |-> IF n = 0 THEN S ELSE Next1(F, W[n - 1])]
  BY <1>4, Zenon DEF Levels
<1> HIDE DEF W
<1>6. W[0] = S BY <1>5
<1>7. ASSUME NEW n \in Nat PROVE W[n + 1] = Next1(F, W[n])
  <2>1. n + 1 \in Nat /\ n + 1 # 0 /\ (n + 1) - 1 = n OBVIOUS
  <2> QED BY <1>5, <2>1
<1>8. W \in [Nat -> sets]
  <2>1. \A n \in Nat : W[n] \in sets
    <3> DEFINE T == {n \in Nat : W[n] \in sets}
    <3>1. 0 \in T BY <1>2, <1>6
    <3>2. \A n \in T : n + 1 \in T BY <1>1, <1>7
    <3>3. T = Nat BY <3>1, <3>2, Induction
    <3> QED BY <3>3
  <2> QED BY <1>5, <2>1
<1> QED BY <1>6, <1>7, <1>8 DEF W, sets

\* Levels grow.
LEMMA LevelsGrow ==
  ASSUME NEW S \in SUBSET SearchVertices, NEW F \in SUBSET SearchEdges, NEW m \in Nat, NEW n \in Nat, m <= n
  PROVE  Levels(S, F)[m] \subseteq Levels(S, F)[n]
<1> DEFINE W == Levels(S, F)
           T == {k \in Nat : W[m] \subseteq W[m + k]}
<1>1. \A k \in Nat : W[k + 1] = Next1(F, W[k]) BY LevelsUnfold
<1> HIDE DEF W
<1>2. 0 \in T OBVIOUS
<1>3. ASSUME NEW k \in T PROVE k + 1 \in T
  <2>1. m + k \in Nat /\ m + (k + 1) = (m + k) + 1 OBVIOUS
  <2>2. W[m + k] \subseteq W[m + (k + 1)] BY <1>1, <2>1 DEF Next1
  <2> QED BY <2>2
<1>4. T = Nat BY <1>2, <1>3, Induction
<1>5. n - m \in Nat /\ m + (n - m) = n OBVIOUS
<1>6. n - m \in T BY <1>4, <1>5
<1> QED BY <1>5, <1>6 DEF W

\* They are the ones the reference counts steps by.
LEMMA WithinIsLevels == Within = Levels(starts, followed)
BY Zenon DEF Within, Levels, Next1

\* Before the first search nothing has happened; an exception in it is the end
\* of it.
Untouched ==
  /\ runs = 0 => /\ ~thrown /\ op = "idle" /\ mStack = <<>> /\ starts = {}
                 /\ \A v \in SearchVertices : mVertexStatus[v] = "UNKNOWN"
  /\ runs = 1 /\ thrown => op = "raised"

Known == {v \in SearchVertices : mVertexStatus[v] # "UNKNOWN"}

\* BFS works at the vertices of level n: the levels before are visited, level n
\* is known, nothing beyond the next is, and the queue holds what is left of
\* level n before all of the next.
Frontier(n) ==
  /\ \A m \in Nat : m < n => Within[m] \subseteq With("VISITED")
  /\ Within[n] \subseteq Known /\ Known \subseteq Within[n + 1]
  /\ vertex # NoVertex => vertex \in Within[n]
  /\ \A i, j \in DOMAIN mStack : i < j /\ mStack[j] \in Within[n] => mStack[i] \in Within[n]

Ordered == fifo /\ runs = 1 /\ ~thrown => \E n \in Nat : Frontier(n)

\* Before the search nothing is reached and the list is in order.
LEMMA InitOrdered == SearchInit => Untouched /\ Ordered
BY DEF SearchInit, Untouched, Ordered

\* Before the first run nothing is reached, and a run that throws has ended.
LEMMA UntouchedStays == SearchInv /\ Untouched /\ [SearchNext]_searchVars => Untouched'
<1> SUFFICES ASSUME SearchInv, Untouched, [SearchNext]_searchVars PROVE Untouched' OBVIOUS
<1>0. runs \in Nat BY SearchAssumption DEF SearchInv, Shape, SearchTypeOK
<1>1. CASE \E v \in SearchVertices : Run(v)
  BY <1>0, <1>1 DEF Untouched, Run, Raise
<1>2. CASE Searching
  BY <1>2 DEF Untouched, Searching, Take, SkipEdge, Examine, ExamineEdge, ExamineThrows, FinishVertex, Return, Raise
<1>3. CASE UNCHANGED searchVars BY <1>3 DEF Untouched, searchVars
<1> QED BY <1>1, <1>2, <1>3 DEF SearchNext

\* What a level is does not change while one search goes on.
LEMMA LevelsStay ==
  ASSUME SearchInv, starts' = starts, followed' = followed
  PROVE  /\ Within' = Within
         /\ starts \in SUBSET SearchVertices /\ followed \in SUBSET SearchEdges
         /\ Within \in [Nat -> SUBSET SearchVertices]
         /\ \A m, n \in Nat : m <= n => Within[m] \subseteq Within[n]
         /\ \A n \in Nat : Within[n + 1] = Next1(followed, Within[n])
<1>1. starts \in SUBSET SearchVertices /\ followed \in SUBSET SearchEdges
  BY DEF SearchInv, Shape, SearchTypeOK
<1>2. Within' = Levels(starts', followed') BY Zenon DEF Within, Levels, Next1
<1>3. Within' = Within BY <1>2, WithinIsLevels
<1>4. /\ Within \in [Nat -> SUBSET SearchVertices]
      /\ \A n \in Nat : Within[n + 1] = Next1(followed, Within[n])
  BY <1>1, WithinIsLevels, LevelsUnfold
<1>5. \A m, n \in Nat : m <= n => Within[m] \subseteq Within[n]
  BY <1>1, WithinIsLevels, LevelsGrow
<1> QED BY <1>1, <1>3, <1>4, <1>5

\* The first search begins: its start is level 0.
LEMMA RunOrdered ==
  ASSUME SearchInv, Untouched, NEW v \in SearchVertices, Run(v)
  PROVE  Ordered'
<1> SUFFICES ASSUME runs' = 1, ~thrown' PROVE Frontier(0)'
  BY DEF Ordered
<1>1. runs = 0 /\ mStack = <<>> /\ starts = {} /\ \A w \in SearchVertices : mVertexStatus[w] = "UNKNOWN"
  <2>1. runs \in Nat BY SearchAssumption DEF SearchInv, Shape, SearchTypeOK
  <2> QED BY <2>1 DEF Run, Untouched
<1>2. /\ mStack' = <<v>> /\ starts' = {v} /\ vertex' = NoVertex
      /\ mVertexStatus' = [mVertexStatus EXCEPT ![v] = "REGISTERED"] /\ followed' = followed
  BY <1>1 DEF Run, Raise, SearchInv, Shape
<1>3. mVertexStatus \in [SearchVertices -> {"UNKNOWN", "REGISTERED", "VISITED"}] /\ followed \in SUBSET SearchEdges
  BY DEF SearchInv, Shape, SearchTypeOK
<1>4. Known' = {v} BY <1>1, <1>2, <1>3 DEF Known
<1>5. /\ Within'[0] = {v} /\ Within'[1] = Next1(followed, {v})
  <2>1. Within' = Levels({v}, followed) BY <1>2, Zenon DEF Within, Levels, Next1
  <2>2. {v} \in SUBSET SearchVertices OBVIOUS
  <2>3. /\ Levels({v}, followed)[0] = {v}
        /\ \A n \in Nat : Levels({v}, followed)[n + 1] = Next1(followed, Levels({v}, followed)[n])
    BY <1>3, <2>2, LevelsUnfold
  <2>4. Levels({v}, followed)[0 + 1] = Next1(followed, {v}) BY <2>3
  <2> QED BY <2>1, <2>3, <2>4
<1>6. \A i, j \in DOMAIN mStack' : ~(i < j) BY <1>2
<1> QED BY <1>2, <1>4, <1>5, <1>6 DEF Frontier, Next1

\* A vertex of level n comes first, or none is left: then level n + 1 begins.
LEMMA TakeOrdered ==
  ASSUME SearchInv, Ordered, Take
  PROVE  Ordered'
<1> SUFFICES ASSUME fifo, runs = 1, ~thrown PROVE \E n \in Nat : Frontier(n)'
  BY DEF Ordered, Take
<1>0. PICK n \in Nat : Frontier(n) BY DEF Ordered
<1>1. /\ mStack \in Seq(SearchVertices) /\ mStack # <<>> /\ vertex = NoVertex
      /\ mVertexStatus \in [SearchVertices -> {"UNKNOWN", "REGISTERED", "VISITED"}]
  BY DEF SearchInv, Shape, SearchTypeOK, Take
<1>2. /\ vertex' = mStack[1] /\ mStack' = Tail(mStack)
      /\ UNCHANGED <<mVertexStatus, starts, followed>>
  BY <1>1 DEF Take, Taken, Left
<1>3. Known' = Known /\ With("VISITED")' = With("VISITED") BY <1>2 DEF Known, With
<1>4. /\ Within' = Within /\ Within \in [Nat -> SUBSET SearchVertices]
      /\ \A k, m \in Nat : k <= m => Within[k] \subseteq Within[m]
      /\ \A m \in Nat : Within[m + 1] = Next1(followed, Within[m])
  BY <1>2, LevelsStay
<1>5. /\ DOMAIN mStack = 1 .. Len(mStack) /\ Len(mStack) \in Nat \ {0}
      /\ DOMAIN mStack' = 1 .. Len(mStack) - 1
      /\ \A i \in 1 .. Len(mStack) - 1 : mStack'[i] = mStack[i + 1]
      /\ \A i \in 1 .. Len(mStack) : mStack[i] \in SearchVertices
  BY <1>1, <1>2
<1>6. CASE mStack[1] \in Within[n]
  <2>1. \A i, j \in DOMAIN mStack' : i < j /\ mStack'[j] \in Within[n] => mStack'[i] \in Within[n]
    <3> SUFFICES ASSUME NEW i \in DOMAIN mStack', NEW j \in DOMAIN mStack', i < j, mStack'[j] \in Within[n]
                 PROVE  mStack'[i] \in Within[n]
      OBVIOUS
    <3>1. /\ i + 1 \in DOMAIN mStack /\ j + 1 \in DOMAIN mStack /\ i + 1 < j + 1
          /\ mStack'[i] = mStack[i + 1] /\ mStack'[j] = mStack[j + 1]
      BY <1>5
    <3> QED BY <1>0, <3>1 DEF Frontier
  <2>2. Frontier(n)' BY <1>0, <1>2, <1>3, <1>4, <1>6, <2>1 DEF Frontier
  <2> QED BY <2>2
<1>7. CASE mStack[1] \notin Within[n]
  <2>1. \A i \in DOMAIN mStack : mStack[i] \notin Within[n]
    <3> SUFFICES ASSUME NEW i \in DOMAIN mStack, mStack[i] \in Within[n] PROVE FALSE OBVIOUS
    <3>1. 1 \in DOMAIN mStack /\ (i = 1 \/ 1 < i) BY <1>5
    <3> QED BY <1>0, <1>7, <3>1 DEF Frontier
  <2>2. \A i \in DOMAIN mStack : mStack[i] \in Within[n + 1]
    <3> SUFFICES ASSUME NEW i \in DOMAIN mStack PROVE mStack[i] \in Within[n + 1] OBVIOUS
    <3>1. mStack[i] \in SearchVertices /\ Contains(mStack, mStack[i]) BY <1>5 DEF Contains
    <3>2. mStack[i] \in With("REGISTERED") BY <3>1 DEF SearchInv, RegisteredIsPending
    <3> QED BY <1>0, <3>1, <3>2 DEF Frontier, Known, With
  <2>3. Within[n] \subseteq With("VISITED")
    <3> SUFFICES ASSUME NEW v \in Within[n], v \notin With("VISITED") PROVE FALSE OBVIOUS
    <3>1. v \in SearchVertices /\ mVertexStatus[v] # "UNKNOWN" BY <1>0 DEF Frontier, Known
    <3>2. v \in With("REGISTERED") BY <1>1, <3>1 DEF With
    <3>3. Contains(mStack, v) \/ v = vertex
      BY <3>2 DEF SearchInv, RegisteredIsPending
    <3>4. v # NoVertex BY <3>1, SearchAssumption
    <3>5. PICK i \in 1 .. Len(mStack) : mStack[i] = v BY <1>1, <3>3, <3>4 DEF Contains
    <3> QED BY <1>5, <2>1, <3>5
  <2>4. Within[n + 1] \subseteq Known
    <3>1. \A e \in followed : Source[e] \in With("VISITED") => Target[e] \in Known
      <4>1. \A e \in followed : Source[e] \in SearchVertices /\ Target[e] \in SearchVertices
        BY SearchAssumption DEF SearchInv, Shape, SearchTypeOK
      <4> QED BY <4>1 DEF SearchInv, Explored, Known, With
    <3> QED BY <1>0, <1>4, <2>3, <3>1 DEF Next1, Frontier
  <2>5. \A m \in Nat : m < n + 1 => Within[m] \subseteq With("VISITED")
    <3> SUFFICES ASSUME NEW m \in Nat, m < n + 1 PROVE Within[m] \subseteq With("VISITED") OBVIOUS
    <3>1. m <= n BY <1>0
    <3> QED BY <1>0, <1>4, <2>3, <3>1
  <2>6. Known \subseteq Within[(n + 1) + 1]
    <3>1. Within[n + 1] \subseteq Within[(n + 1) + 1] BY <1>0, <1>4
    <3> QED BY <1>0, <3>1 DEF Frontier
  <2>7. vertex' \in Within[n + 1] BY <1>2, <1>5, <2>2
  <2>8. \A i \in DOMAIN mStack' : mStack'[i] \in Within[n + 1]
    <3> SUFFICES ASSUME NEW i \in DOMAIN mStack' PROVE mStack'[i] \in Within[n + 1] OBVIOUS
    <3>1. i + 1 \in DOMAIN mStack /\ mStack'[i] = mStack[i + 1] BY <1>5
    <3> QED BY <2>2, <3>1
  <2>9. Frontier(n + 1)' BY <1>3, <1>4, <2>4, <2>5, <2>6, <2>7, <2>8 DEF Frontier
  <2> QED BY <2>9
<1> QED BY <1>6, <1>7

\* A vertex that is found comes last, and is not further than the next level.
LEMMA ExamineOrdered ==
  ASSUME SearchInv, Ordered, Examine
  PROVE  Ordered'
<1> SUFFICES ASSUME fifo, runs = 1, ~thrown' PROVE \E n \in Nat : Frontier(n)'
  BY DEF Ordered, Examine, ExamineEdge, ExamineThrows
<1>1. PICK e \in todo \cap followed : ExamineEdge(e) BY DEF Examine, ExamineThrows, Raise
<1>2. ~thrown /\ UNCHANGED <<starts, followed, vertex>> BY <1>1 DEF ExamineEdge
<1>3. PICK n \in Nat : Frontier(n) BY <1>2 DEF Ordered
<1>4. /\ Within' = Within /\ Within \in [Nat -> SUBSET SearchVertices]
      /\ Within[n + 1] = Next1(followed, Within[n])
  BY <1>2, LevelsStay
<1>5. CASE OtherEdge(e)
  <2>1. UNCHANGED <<mStack, mVertexStatus>> BY <1>5 DEF OtherEdge
  <2>2. Known' = Known /\ With("VISITED")' = With("VISITED") BY <2>1 DEF Known, With
  <2> QED BY <1>2, <1>3, <1>4, <2>1, <2>2 DEF Frontier
<1>6. CASE TreeEdge(e)
  <2> DEFINE t == Target[e]
  <2>0. /\ mVertexStatus \in [SearchVertices -> {"UNKNOWN", "REGISTERED", "VISITED"}]
        /\ mStack \in Seq(SearchVertices) /\ t \in SearchVertices /\ Source[e] = vertex /\ vertex # NoVertex
    BY SearchAssumption DEF SearchInv, Shape, SearchTypeOK
  <2> HIDE DEF t
  <2>1. /\ mVertexStatus[t] = "UNKNOWN" /\ mStack' = Append(mStack, t)
        /\ mVertexStatus' = [mVertexStatus EXCEPT ![t] = "REGISTERED"]
    BY <1>6 DEF TreeEdge, t
  <2>2. Known' = Known \cup {t} /\ With("VISITED")' = With("VISITED")
    BY <2>0, <2>1 DEF Known, With
  <2>3. t \in Within[n + 1] BY <1>1, <1>3, <1>4, <2>0 DEF Frontier, Next1, t
  <2>4. t \notin Within[n] BY <1>3, <2>1 DEF Frontier, Known
  <2>5. /\ DOMAIN mStack = 1 .. Len(mStack) /\ Len(mStack) \in Nat
        /\ DOMAIN mStack' = 1 .. Len(mStack) + 1
        /\ \A i \in 1 .. Len(mStack) : mStack'[i] = mStack[i]
        /\ mStack'[Len(mStack) + 1] = t
    BY <2>0, <2>1
  <2>6. \A i, j \in DOMAIN mStack' : i < j /\ mStack'[j] \in Within[n] => mStack'[i] \in Within[n]
    <3> SUFFICES ASSUME NEW i \in DOMAIN mStack', NEW j \in DOMAIN mStack', i < j, mStack'[j] \in Within[n]
                 PROVE  mStack'[i] \in Within[n]
      OBVIOUS
    <3>1. j # Len(mStack) + 1 BY <2>4, <2>5
    <3>2. /\ i \in DOMAIN mStack /\ j \in DOMAIN mStack
          /\ mStack'[i] = mStack[i] /\ mStack'[j] = mStack[j]
      BY <2>5, <3>1
    <3> QED BY <1>3, <3>2 DEF Frontier
  <2> QED BY <1>2, <1>3, <1>4, <2>2, <2>3, <2>6 DEF Frontier
<1> QED BY <1>1, <1>5, <1>6 DEF ExamineEdge

\* A vertex is finished: the list stays in order.
LEMMA FinishOrdered ==
  ASSUME SearchInv, Ordered, FinishVertex
  PROVE  Ordered'
<1> SUFFICES ASSUME fifo, runs = 1, ~thrown' PROVE \E n \in Nat : Frontier(n)'
  BY DEF Ordered, FinishVertex
<1>1. /\ ~thrown /\ vertex' = NoVertex /\ UNCHANGED <<starts, followed, mStack>>
      /\ mVertexStatus' = [mVertexStatus EXCEPT ![vertex] = "VISITED"] /\ vertex # NoVertex
  BY DEF FinishVertex, Raise
<1>2. PICK n \in Nat : Frontier(n) BY <1>1 DEF Ordered
<1>3. Within' = Within BY <1>1, LevelsStay
<1>4. /\ mVertexStatus \in [SearchVertices -> {"UNKNOWN", "REGISTERED", "VISITED"}] /\ vertex \in SearchVertices
      /\ mVertexStatus[vertex] = "REGISTERED"
  BY <1>1 DEF SearchInv, Shape, SearchTypeOK, RegisteredIsPending, With
<1>5. Known' = Known /\ With("VISITED") \subseteq With("VISITED")'
  BY <1>1, <1>4 DEF Known, With
<1> QED BY <1>1, <1>2, <1>3, <1>5 DEF Frontier

\* Every step keeps the list in order.
LEMMA OrderedStays ==
  SearchInv /\ Untouched /\ Ordered /\ [SearchNext]_searchVars => Ordered'
<1> SUFFICES ASSUME SearchInv, Untouched, Ordered, [SearchNext]_searchVars PROVE Ordered' OBVIOUS
<1>1. ASSUME UNCHANGED <<fifo, runs, thrown, starts, followed, mVertexStatus, vertex, mStack>>
      PROVE  Ordered'
  <2>1. Within' = Within BY <1>1, LevelsStay
  <2>2. Known' = Known /\ With("VISITED")' = With("VISITED") BY <1>1 DEF Known, With
  <2> QED BY <1>1, <2>1, <2>2 DEF Ordered, Frontier
<1>2. CASE SkipEdge BY <1>1, <1>2 DEF SkipEdge
<1>3. CASE Return BY <1>1, <1>3 DEF Return
<1>4. CASE UNCHANGED searchVars BY <1>1, <1>4 DEF searchVars
<1> QED
  BY <1>2, <1>3, <1>4, RunOrdered, TakeOrdered, ExamineOrdered, FinishOrdered
  DEF SearchNext, Searching

\* BFS comes to vertices in the order of their distance: all that are nearer
\* have been visited.
THEOREM NearestComeFirst == SearchSpec => []NearestFirst
<1> DEFINE Inv == SearchInv /\ Untouched /\ Ordered
<1>1. SearchInit => Inv BY SearchInitInv, InitOrdered
<1>2. Inv /\ [SearchNext]_searchVars => Inv'
  BY SearchNextInv, UntouchedStays, OrderedStays
<1>3. Inv => NearestFirst
  <2> SUFFICES ASSUME Inv, fifo, runs = 1, vertex # NoVertex,
                      NEW n \in 0 .. Cardinality(SearchVertices), vertex \notin Within[n]
               PROVE  Within[n] \subseteq With("VISITED")
    BY DEF NearestFirst
  <2>1. ~thrown BY DEF Untouched, SearchInv, Shape
  <2>2. PICK k \in Nat : Frontier(k) BY <2>1 DEF Ordered
  <2>3. n \in Nat BY DEF SearchInv
  <2>4. \A i, j \in Nat : i <= j => Within[i] \subseteq Within[j]
    <3>1. starts \in SUBSET SearchVertices /\ followed \in SUBSET SearchEdges
      BY DEF SearchInv, Shape, SearchTypeOK
    <3> QED BY <3>1, WithinIsLevels, LevelsGrow
  <2>5. n < k BY <2>2, <2>3, <2>4 DEF Frontier
  <2> QED BY <2>2, <2>3, <2>5 DEF Frontier
<1> QED BY <1>1, <1>2, <1>3, PTL DEF SearchSpec

-----------------------------------------------------------------------------
(* TransactionObserver.                                                        *)

History(n) == [i \in 1 .. n |-> i]

\* Events are held only while a transaction is open, and what was passed on
\* and what is held make up the history.
OInv ==
  /\ sent \in Nat
  /\ mEvents \in Seq(Nat) /\ delivered \in Seq(Nat)
  /\ mTransactionLevel \in Int
  /\ ~inTransaction => mEvents = <<>>
  /\ delivered \o mEvents = History(sent)

\* A balanced client never finds the level below its own depth, ...
CInv ==
  /\ depth \in Nat /\ mTransactionLevel \in Int
  /\ mTransactionLevel >= depth

\* ... and finds it there if no STOP has failed.
DInv ==
  /\ depth \in Nat
  /\ mTransactionLevel = depth
  /\ innerDepth = depth

-----------------------------------------------------------------------------
\* The history grows by appending the next event.
LEMMA HistoryGrows ==
  ASSUME NEW n \in Nat
  PROVE  History(n + 1) = Append(History(n), n + 1)
<1>1. /\ Len(History(n)) = n /\ History(n) \in Seq(Nat)
      /\ \A i \in 1 .. n : History(n)[i] = i
  BY DEF History
<1>2. Len(Append(History(n), n + 1)) = n + 1 /\ Append(History(n), n + 1) \in Seq(Nat)
  BY <1>1
<1>3. \A i \in 1 .. n + 1 : Append(History(n), n + 1)[i] = i
  BY <1>1
<1>4. Append(History(n), n + 1) = [i \in 1 .. n + 1 |-> Append(History(n), n + 1)[i]]
  BY <1>2
<1> QED BY <1>3, <1>4 DEF History

\* Appending to the second of two lists is appending to both.
LEMMA ConcatAppend ==
  ASSUME NEW s \in Seq(Nat), NEW t \in Seq(Nat), NEW x \in Nat
  PROVE  s \o Append(t, x) = Append(s \o t, x)
OBVIOUS

\* No step takes stopFailed back.
LEMMA ThrownStays ==
  ASSUME [Next]_vars, ~stopFailed', stopFailed \in BOOLEAN
  PROVE  ~stopFailed /\ ~StopThrows
BY DEF Next, AddEvent, Start, Stop, StopThrows, vars

\* A step that does not throw keeps what is sent, deferred and emitted in order.
LEMMA NextOInv ==
  ASSUME ~StopThrows, OInv, [Next]_vars
  PROVE  OInv'
<1>1. CASE AddEvent
  <2>1. /\ sent \in Nat /\ sent' = sent + 1 /\ mTransactionLevel' = mTransactionLevel
        /\ mEvents \in Seq(Nat) /\ delivered \in Seq(Nat)
        /\ delivered \o mEvents = History(sent)
    BY <1>1 DEF AddEvent, OInv
  <2>2. History(sent') = Append(delivered \o mEvents, sent + 1)
    BY <2>1, HistoryGrows
  <2>3. CASE inTransaction /\ mEvents' = Append(mEvents, sent + 1) /\ delivered' = delivered
    <3>1. sent + 1 \in Nat BY <2>1
    <3>2. delivered \o Append(mEvents, sent + 1) = Append(delivered \o mEvents, sent + 1)
      BY <2>1, <3>1, ConcatAppend
    <3>3. delivered' \o mEvents' = History(sent') BY <2>2, <2>3, <3>2
    <3>4. mEvents' \in Seq(Nat) /\ delivered' \in Seq(Nat) BY <2>1, <2>3, <3>1
    <3>5. inTransaction' BY <2>1, <2>3 DEF inTransaction
    <3> QED BY <2>1, <3>1, <3>3, <3>4, <3>5 DEF OInv
  <2>4. CASE ~inTransaction /\ delivered' = Append(delivered, sent + 1) /\ mEvents' = mEvents
    <3>1. mEvents = <<>> BY <2>4 DEF OInv
    <3>2. delivered' \in Seq(Nat) BY <2>1, <2>4
    <3>3. delivered \o mEvents = delivered /\ delivered' \o mEvents' = delivered'
      BY <2>1, <2>4, <3>1, <3>2
    <3>4. delivered' \o mEvents' = History(sent') BY <2>2, <2>4, <3>3
    <3> QED BY <2>1, <2>4, <3>1, <3>2, <3>4 DEF OInv, inTransaction
  <2> QED BY <1>1, <2>3, <2>4 DEF AddEvent
<1>2. CASE Start BY <1>2 DEF Start, OInv, inTransaction
<1>3. CASE Stop
  <2>1. /\ delivered' = delivered \o mEvents /\ mEvents' = <<>> /\ sent' = sent
        /\ mTransactionLevel' = mTransactionLevel - 1
    BY <1>3 DEF Stop, Emitted
  <2>2. delivered \o mEvents \in Seq(Nat) BY ConcatProperties DEF OInv
  <2>3. delivered' \o mEvents' = delivered' BY <2>1, <2>2
  <2> QED BY <2>1, <2>2, <2>3 DEF OInv, inTransaction
<1>4. CASE StopThrows BY <1>4
<1>5. CASE UNCHANGED vars BY <1>5 DEF vars, OInv, inTransaction
<1> QED BY <1>1, <1>2, <1>3, <1>4, <1>5 DEF Next

\* At first nothing is sent.
LEMMA InitOInv == Init => OInv
<1> SUFFICES ASSUME Init PROVE OInv OBVIOUS
<1>1. History(0) = <<>> BY DEF History
<1> QED BY <1>1 DEF Init, OInv, inTransaction

\* The level stays the depth of a balanced client if no STOP fails ...
LEMMA NextDInv ==
  ASSUME ~StopThrows, Balanced, DInv, [Next]_vars
  PROVE  DInv'
<1>1. CASE AddEvent BY <1>1 DEF AddEvent, DInv
<1>2. CASE Start BY <1>2 DEF Start, DInv
<1>3. CASE Stop BY <1>3 DEF Stop, DInv
<1>4. CASE StopThrows BY <1>4
<1>5. CASE UNCHANGED vars BY <1>5 DEF vars, DInv
<1> QED BY <1>1, <1>2, <1>3, <1>4, <1>5 DEF Next

\* ... and never falls below it.
LEMMA NextCInv ==
  ASSUME Balanced, CInv, [Next]_vars
  PROVE  CInv'
<1>1. CASE AddEvent BY <1>1 DEF AddEvent, CInv
<1>2. CASE Start BY <1>2 DEF Start, CInv
<1>3. CASE Stop BY <1>3 DEF Stop, CInv
<1>4. CASE StopThrows BY <1>4 DEF StopThrows, CInv
<1>5. CASE UNCHANGED vars BY <1>5 DEF vars, CInv
<1> QED BY <1>1, <1>2, <1>3, <1>4, <1>5 DEF Next

\* The two invariants, as long as no STOP has failed.
Whole == stopFailed \in BOOLEAN /\ (~stopFailed => OInv)
Level == stopFailed \in BOOLEAN /\ (~stopFailed => DInv)

\* As long as no STOP has failed, the events emitted are whole ...
LEMMA NextWhole == Whole /\ [Next]_vars => Whole'
<1> SUFFICES ASSUME Whole, [Next]_vars PROVE Whole' OBVIOUS
<1>1. stopFailed' \in BOOLEAN
  BY DEF Whole, Next, AddEvent, Start, Stop, StopThrows, vars
<1>2. ASSUME ~stopFailed' PROVE OInv'
  BY <1>2, ThrownStays, NextOInv DEF Whole
<1> QED BY <1>1, <1>2 DEF Whole

\* ... and the level is the depth of the balanced client.
LEMMA NextLevel == Balanced /\ Level /\ [Next]_vars => Level'
<1> SUFFICES ASSUME Balanced, Level, [Next]_vars PROVE Level' OBVIOUS
<1>1. stopFailed' \in BOOLEAN
  BY DEF Level, Next, AddEvent, Start, Stop, StopThrows, vars
<1>2. ASSUME ~stopFailed' PROVE DInv'
  BY <1>2, ThrownStays, NextDInv DEF Level
<1> QED BY <1>1, <1>2 DEF Level

\* Every event held or passed on is one the graph has issued, and the bounds
\* of the client hold; also after a STOP has failed, and for any client.
THEOREM ObserverTypeCorrect == Spec => []TypeOK
<1>1. Init => TypeOK
  <2> SUFFICES ASSUME Init PROVE TypeOK OBVIOUS
  <2>1. mEvents \in Seq(1 .. sent) /\ delivered \in Seq(1 .. sent)
    <3>1. <<>> \in Seq(1 .. sent) OBVIOUS
    <3> QED BY <3>1 DEF Init
  <2>2. sent = 0 /\ depth = 0 /\ mTransactionLevel = 0 /\ innerDepth = 0
    BY DEF Init
  <2>3. /\ sent \in 0 .. MaxEvents /\ depth \in 0 .. MaxDepth
        /\ mTransactionLevel \in Int /\ innerDepth \in Int
    BY <2>2, BoundAssumption
  <2>4. stopFailed \in BOOLEAN BY DEF Init
  <2> QED BY <2>1, <2>3, <2>4 DEF TypeOK
<1>2. TypeOK /\ [Next]_vars => TypeOK'
  <2> SUFFICES ASSUME TypeOK, [Next]_vars PROVE TypeOK' OBVIOUS
  <2>0. /\ sent \in 0 .. MaxEvents /\ MaxEvents \in Nat /\ MaxDepth \in Nat
        /\ mEvents \in Seq(1 .. sent) /\ delivered \in Seq(1 .. sent)
        /\ depth \in 0 .. MaxDepth
    BY BoundAssumption DEF TypeOK
  <2>1. CASE AddEvent
    <3>1. sent' = sent + 1 /\ sent' \in 0 .. MaxEvents /\ sent + 1 \in 1 .. sent'
      BY <2>0, <2>1 DEF AddEvent
    <3>2. mEvents \in Seq(1 .. sent') /\ delivered \in Seq(1 .. sent')
      <4>1. ASSUME NEW s \in Seq(1 .. sent) PROVE s \in Seq(1 .. sent')
        BY <2>0, <3>1
      <4> QED BY <2>0, <4>1
    <3>3. mEvents' \in Seq(1 .. sent') /\ delivered' \in Seq(1 .. sent')
      <4>1. ASSUME NEW s \in Seq(1 .. sent') PROVE Append(s, sent + 1) \in Seq(1 .. sent')
        BY <3>1
      <4> QED BY <2>1, <3>2, <4>1 DEF AddEvent
    <3> QED BY <2>1, <3>1, <3>3 DEF AddEvent, TypeOK
  <2>2. CASE Start BY <2>0, <2>2 DEF Start, TypeOK
  <2>3. CASE Stop
    <3>1. delivered \o mEvents \in Seq(1 .. sent) BY <2>0, ConcatProperties
    <3>2. <<>> \in Seq(1 .. sent) OBVIOUS
    <3>3. mTransactionLevel' \in Int /\ innerDepth' \in Int /\ depth' \in 0 .. MaxDepth
      BY <2>0, <2>3 DEF Stop, TypeOK
    <3> QED BY <2>3, <3>1, <3>2, <3>3 DEF Stop, Emitted, TypeOK
  <2>4. CASE StopThrows
    <3>1. PICK n \in 1 .. Len(mEvents) : delivered' = delivered \o SubSeq(mEvents, 1, n)
      BY <2>4 DEF StopThrows
    <3>2. SubSeq(mEvents, 1, n) \in Seq(1 .. sent) BY <2>0
    <3>3. delivered' \in Seq(1 .. sent) BY <2>0, <3>1, <3>2, ConcatProperties
    <3>4. depth' \in 0 .. MaxDepth BY <2>0, <2>4 DEF StopThrows
    <3> QED BY <2>4, <3>3, <3>4 DEF StopThrows, TypeOK
  <2>5. CASE UNCHANGED vars BY <2>5 DEF vars, TypeOK
  <2> QED BY <2>1, <2>2, <2>3, <2>4, <2>5 DEF Next
<1> QED BY <1>1, <1>2, PTL DEF Spec

\* Until the observer throws out of an emitting loop, it gets every event once
\* and in order, however the client nests or unbalances its transactions.
THEOREM EventsInOrder == Spec => []OrderKept
<1>1. Init => Whole BY InitOInv DEF Init, Whole
<1>2. Whole => OrderKept BY DEF Whole, OInv, OrderKept, History
<1> QED BY <1>1, <1>2, NextWhole, PTL DEF Spec

\* For balanced clients the level is their depth, the observer is told of the
\* same transactions and nothing is held outside them, until a STOP fails.
THEOREM LevelFollowsDepth ==
  ASSUME Balanced
  PROVE  Spec => []LevelIsDepth
<1>1. Init => Whole /\ Level
  <2> SUFFICES ASSUME Init PROVE Whole /\ Level OBVIOUS
  <2>1. DInv BY DEF Init, DInv
  <2>2. stopFailed = FALSE BY DEF Init
  <2> QED BY <2>1, <2>2, InitOInv DEF Whole, Level
<1>2. Level /\ [Next]_vars => Level' BY NextLevel
<1>3. Whole /\ Level => LevelIsDepth
  BY DEF Whole, Level, OInv, DInv, LevelIsDepth, inTransaction
<1> QED BY <1>1, <1>2, <1>3, NextWhole, PTL DEF Spec

\* For balanced clients the level covers their depth, also after failed STOPs.
THEOREM LevelCovers ==
  ASSUME Balanced
  PROVE  Spec => []LevelCoversDepth
<1>1. Init => CInv BY DEF Init, CInv
<1>2. CInv /\ [Next]_vars => CInv' BY NextCInv
<1>3. CInv => LevelCoversDepth BY DEF CInv, LevelCoversDepth
<1> QED BY <1>1, <1>2, <1>3, PTL DEF Spec

\* For balanced clients no event of an open transaction is passed on at once,
\* also after failed STOPs.
THEOREM HeldWhileOpen ==
  ASSUME Balanced
  PROVE  Spec => HeldInTransaction
<1>1. Init => CInv BY DEF Init, CInv
<1>2. CInv /\ [Next]_vars => CInv' BY NextCInv
<1>3. CInv /\ [Next]_vars => [sent' # sent /\ depth > 0 => delivered' = delivered]_vars
  <2> SUFFICES ASSUME CInv, [Next]_vars, sent' # sent, depth > 0
               PROVE  delivered' = delivered
    OBVIOUS
  <2>1. AddEvent BY DEF Next, Start, Stop, StopThrows, vars
  <2> QED BY <2>1 DEF AddEvent, inTransaction, CInv
<1> QED BY <1>1, <1>2, <1>3, PTL DEF Spec, HeldInTransaction

\* Without nesting the filter does what its documentation says.
THEOREM FlatImplementsContract ==
  ASSUME ~ObserverThrows, Balanced, MaxDepth = 1
  PROVE  Spec => ImplementsContract
<1>0. ~StopThrows BY DEF StopThrows
<1> DEFINE Flat == DInv /\ depth \in {0, 1} /\ OInv
<1>1. Init => Flat BY InitOInv DEF Init, DInv
<1>2. Flat /\ [Next]_vars => Flat'
  <2> SUFFICES ASSUME Flat, [Next]_vars PROVE depth' \in {0, 1}
    BY <1>0, NextDInv, NextOInv
  <2> QED BY DEF Next, AddEvent, Start, Stop, StopThrows, vars, DInv
<1>3. Init => Contract!Init BY DEF Init, Contract!Init
<1>4. Flat /\ [Next]_vars =>
        [Contract!Issue \/ Contract!Start \/ Contract!StopInner \/ Contract!StopOutermost]_Contract!contractVars
  <2> SUFFICES ASSUME Flat, Next
               PROVE  \/ Contract!Issue \/ Contract!Start \/ Contract!StopOutermost
                      \/ UNCHANGED Contract!contractVars
    BY DEF vars, Contract!contractVars
  <2>1. CASE AddEvent
    BY <2>1 DEF AddEvent, Contract!Issue, inTransaction, DInv
  <2>2. CASE Start BY <2>2 DEF Start, Contract!Start
  <2>3. CASE Stop
    <3>1. depth = 1 /\ depth' = 0 BY <2>3 DEF Stop, DInv
    <3> QED BY <2>3, <3>1 DEF Stop, Emitted, Contract!StopOutermost
  <2>4. CASE StopThrows BY <1>0, <2>4
  <2> QED BY <2>1, <2>2, <2>3, <2>4 DEF Next
<1> HIDE DEF Flat
<1> QED BY <1>1, <1>2, <1>3, <1>4, PTL DEF Spec, Contract!Spec, ImplementsContract
=============================================================================
