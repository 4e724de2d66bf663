---------------------------- MODULE GraphViewProofs ----------------------------
(***************************************************************************)
(* Proofs about what shows a lemon graph: the window and its players, for  *)
(* any graph, layouts and number of changes, and the graphviz copy, for    *)
(* any calls and changes of the base graph.  The invariant of the window   *)
(* is about one that is told of the changes of its graph; it says when a   *)
(* redrawn view is the old one.  That of the copy relates it to the copy   *)
(* it was made of, call by call.                                           *)
(***************************************************************************)
EXTENDS Player, GVGraph, SequenceTheorems, DataInduction

\* A graph as the view needs it: its edges have their ends in it.
HasEnds(g) ==
  /\ {"vertices", "edges", "vid", "eid", "freeNodes", "freeArcs"} \subseteq DOMAIN g
  /\ g.vertices \in Seq(Vertices) /\ g.edges \in Seq(Edges)
  /\ \A e \in ToSet(g.edges) : EdgeEnds[e][1] \in ToSet(g.vertices) /\ EdgeEnds[e][2] \in ToSet(g.vertices)

IsItem(i) == i = [pos |-> i.pos, visible |-> i.visible]
IsLine(l) == l = [points |-> l.points, visible |-> l.visible]

\* A scene that did not crash: items with positions, edge items with lines.
IsScene(w) ==
  /\ w = [items |-> w.items, edgeItems |-> w.edgeItems,
          mItemCoordinateCache |-> w.mItemCoordinateCache, crashed |-> FALSE]
  /\ \A v \in DOMAIN w.items : IsItem(w.items[v])
  /\ \A e \in DOMAIN w.edgeItems : IsLine(w.edgeItems[e])

\* Every element of the graph has its item, ...
Populated(w, g) == DOMAIN w.items = ToSet(g.vertices) /\ DOMAIN w.edgeItems = ToSet(g.edges)

\* ... every line lies between its ends or was never drawn, ...
At(w, e) == <<w.items[EdgeEnds[e][1]].pos, w.items[EdgeEnds[e][2]].pos>>
Lines(w, g) ==
  \A e \in DOMAIN w.edgeItems : Live(g, e) =>
     w.edgeItems[e].points = At(w, e) \/ (w.edgeItems[e].points = NoLine /\ At(w, e) = <<Origin, Origin>>)

\* ... and every item is where the cache says, or has never moved.
Cached(w, v) == IF v \in DOMAIN w.mItemCoordinateCache THEN w.mItemCoordinateCache[v] ELSE Origin
Remembered(w) == \A v \in DOMAIN w.items : w.items[v].pos = Cached(w, v)

\* The redrawn view of a window that hears of all changes.  Positions of
\* vertices that left the graph make a redraw lose others.
Redrawn(w, g) ==
  /\ IsScene(w) /\ Populated(w, g) /\ Lines(w, g)
  /\ DOMAIN w.mItemCoordinateCache \subseteq ToSet(g.vertices) => Remembered(w)

ViewInv == status = "ok" /\ connected => HasEnds(graph) /\ Redrawn(view, graph)

-----------------------------------------------------------------------------
(* Graphs.                                                                     *)

\* What a list holds and ToSet are the same.
LEMMA HeldIsToSet == \A s : Held(s) = ToSet(s)
BY DEF Held, ToSet

\* The ends of an edge.
LEMMA EndsAre ==
  ASSUME NEW e \in Edges
  PROVE  /\ ToSet(EdgeEnds[e]) = {EdgeEnds[e][1], EdgeEnds[e][2]}
         /\ EdgeEnds[e][1] \in Vertices /\ EdgeEnds[e][2] \in Vertices
<1>1. EdgeEnds[e] \in Vertices \X Vertices BY EndsAssumption
<1>2. EdgeEnds[e] = <<EdgeEnds[e][1], EdgeEnds[e][2]>> BY <1>1
<1>3. DOMAIN EdgeEnds[e] = {1, 2} BY <1>2
<1> QED BY <1>1, <1>3 DEF ToSet

\* Every edge of the graph the window starts with has its ends.
LEMMA EndsOfStart == HasEnds(FirstGraph)
<1>1. FirstGraph = GraphOf(FirstGraph.vertices, FirstGraph.edges) BY StartAssumption
<1>2. {"vertices", "edges", "vid", "eid", "freeNodes", "freeArcs"} \subseteq DOMAIN FirstGraph
  BY <1>1 DEF GraphOf
<1>3. \A e \in ToSet(FirstGraph.edges) : e \in Edges BY StartAssumption DEF ToSet
<1> QED BY <1>2, <1>3, StartAssumption, EndsAre DEF HasEnds

\* Every change of the graph leaves one whose edges have their ends.
LEMMA EndsWithVertex ==
  ASSUME NEW g, HasEnds(g), NEW v \in Vertices
  PROVE  HasEnds(WithVertex(g, v))
<1> DEFINE h == WithVertex(g, v)
<1>1. DOMAIN h = DOMAIN g /\ h.edges = g.edges /\ h.vertices = <<v>> \o g.vertices
  BY DEF WithVertex, HasEnds
<1>2. h.vertices \in Seq(Vertices) BY <1>1 DEF HasEnds
<1>3. ToSet(g.vertices) \subseteq ToSet(h.vertices)
  <2>1. ASSUME NEW i \in DOMAIN g.vertices
        PROVE  i + 1 \in DOMAIN h.vertices /\ h.vertices[i + 1] = g.vertices[i]
    BY <1>1 DEF HasEnds
  <2> QED BY <2>1 DEF ToSet
<1> QED BY <1>1, <1>2, <1>3 DEF HasEnds

\* Adding an edge adds the ends that are missing.
LEMMA EndsWithEdge ==
  ASSUME NEW g, HasEnds(g), NEW e \in Edges, ToSet(EdgeEnds[e]) \subseteq ToSet(g.vertices)
  PROVE  HasEnds(WithEdge(g, e))
<1> DEFINE h == WithEdge(g, e)
<1>1. DOMAIN h = DOMAIN g /\ h.vertices = g.vertices /\ h.edges = <<e>> \o g.edges
  BY DEF WithEdge, HasEnds
<1>2. h.edges \in Seq(Edges) BY <1>1 DEF HasEnds
<1>3. ToSet(h.edges) \subseteq {e} \cup ToSet(g.edges)
  <2>1. ASSUME NEW i \in DOMAIN h.edges, i # 1
        PROVE  i - 1 \in DOMAIN g.edges /\ h.edges[i] = g.edges[i - 1]
    BY <1>1, <2>1 DEF HasEnds
  <2>2. h.edges[1] = e BY <1>1 DEF HasEnds
  <2> QED BY <2>1, <2>2 DEF ToSet
<1>4. EdgeEnds[e][1] \in ToSet(g.vertices) /\ EdgeEnds[e][2] \in ToSet(g.vertices) BY EndsAre
<1> QED BY <1>1, <1>2, <1>3, <1>4 DEF HasEnds

\* A vertex takes its edges along.
LEMMA EndsWithoutVertex ==
  ASSUME NEW g, HasEnds(g), NEW v
  PROVE  HasEnds(WithoutVertex(g, v))
<1> DEFINE h == WithoutVertex(g, v)
           es == {e \in Edges : v \notin ToSet(EdgeEnds[e])}
<1>1. /\ DOMAIN h = DOMAIN g
      /\ h.vertices = Among(g.vertices, Vertices \ {v}) /\ h.edges = Among(g.edges, es)
  BY DEF WithoutVertex, HasEnds
<1>2. /\ h.vertices \in Seq(Vertices) /\ h.edges \in Seq(Edges)
      /\ ToSet(h.vertices) = ToSet(g.vertices) \cap (Vertices \ {v})
      /\ ToSet(h.edges) = ToSet(g.edges) \cap es
  BY <1>1, AmongHolds, HeldIsToSet DEF HasEnds
<1>3. ASSUME NEW e \in ToSet(h.edges)
      PROVE  EdgeEnds[e][1] \in ToSet(h.vertices) /\ EdgeEnds[e][2] \in ToSet(h.vertices)
  <2>1. e \in Edges /\ v \notin ToSet(EdgeEnds[e]) /\ e \in ToSet(g.edges) BY <1>2
  <2> QED BY <1>2, <2>1, EndsAre DEF HasEnds
<1> QED BY <1>1, <1>2, <1>3 DEF HasEnds

\* An edge leaves no edge without ends.
LEMMA EndsWithoutEdge ==
  ASSUME NEW g, HasEnds(g), NEW e
  PROVE  HasEnds(WithoutEdge(g, e))
<1> DEFINE h == WithoutEdge(g, e)
<1>1. /\ DOMAIN h = DOMAIN g
      /\ h.vertices = g.vertices /\ h.edges = Among(g.edges, Edges \ {e})
  BY DEF WithoutEdge, HasEnds
<1>2. h.edges \in Seq(Edges) /\ ToSet(h.edges) \subseteq ToSet(g.edges)
  BY <1>1, AmongHolds, HeldIsToSet DEF HasEnds
<1> QED BY <1>1, <1>2 DEF HasEnds

-----------------------------------------------------------------------------
(* Scenes.                                                                     *)

\* Drawing anew the elements of a graph.
LEMMA PopulateScene ==
  ASSUME NEW w, IsScene(w), NEW g
  PROVE  /\ IsScene(PopulateCanvas(w, g))
         /\ DOMAIN PopulateCanvas(w, g).items = ToSet(g.vertices) \cup DOMAIN w.items
         /\ DOMAIN PopulateCanvas(w, g).edgeItems = ToSet(g.edges) \cup DOMAIN w.edgeItems
         /\ PopulateCanvas(w, g).mItemCoordinateCache = w.mItemCoordinateCache
         /\ \A v \in ToSet(g.vertices) : PopulateCanvas(w, g).items[v].pos = Origin
         /\ \A e \in ToSet(g.edges) : PopulateCanvas(w, g).edgeItems[e].points = NoLine
<1> DEFINE p == PopulateCanvas(w, g)
           vs == ToSet(g.vertices)
           es == ToSet(g.edges)
<1>1. /\ p.items = Over([v \in vs |-> VertexItem], w.items)
      /\ p.edgeItems = Over([e \in es |-> EdgeItem], w.edgeItems)
      /\ p.mItemCoordinateCache = w.mItemCoordinateCache
      /\ p = [items |-> p.items, edgeItems |-> p.edgeItems,
              mItemCoordinateCache |-> p.mItemCoordinateCache, crashed |-> FALSE]
  <2>1. PICK i, l, c : w = [items |-> i, edgeItems |-> l, mItemCoordinateCache |-> c, crashed |-> FALSE]
    BY DEF IsScene
  <2>2. w.items = i /\ w.edgeItems = l /\ w.mItemCoordinateCache = c BY <2>1
  <2> DEFINE newItems == Over([v \in vs |-> VertexItem], i)
             newLines == Over([e \in es |-> EdgeItem], l)
  <2>3. p = [w EXCEPT !.items = newItems, !.edgeItems = newLines] BY <2>2 DEF PopulateCanvas
  <2> HIDE DEF p, newItems, newLines
  <2>4. p = [items |-> newItems, edgeItems |-> newLines, mItemCoordinateCache |-> c, crashed |-> FALSE]
    BY <2>1, <2>3
  <2> QED BY <2>2, <2>4 DEF newItems, newLines
<1> HIDE DEF p, vs, es
<1>2. /\ DOMAIN p.items = vs \cup DOMAIN w.items
      /\ \A v \in DOMAIN p.items : p.items[v] = IF v \in vs THEN VertexItem ELSE w.items[v]
  BY <1>1 DEF Over
<1>3. /\ DOMAIN p.edgeItems = es \cup DOMAIN w.edgeItems
      /\ \A e \in DOMAIN p.edgeItems : p.edgeItems[e] = IF e \in es THEN EdgeItem ELSE w.edgeItems[e]
  BY <1>1 DEF Over
<1>4. IsItem(VertexItem) /\ IsLine(EdgeItem) /\ VertexItem.pos = Origin /\ EdgeItem.points = NoLine
  BY DEF IsItem, IsLine, VertexItem, EdgeItem
<1>5. \A v \in DOMAIN p.items : IsItem(p.items[v]) BY <1>2, <1>4 DEF IsScene
<1>6. \A e \in DOMAIN p.edgeItems : IsLine(p.edgeItems[e]) BY <1>3, <1>4 DEF IsScene
<1>7. IsScene(p) BY <1>1, <1>5, <1>6 DEF IsScene
<1> QED BY <1>1, <1>2, <1>3, <1>4, <1>7 DEF p, vs, es

\* Nothing of it is hidden.
LEMMA PopulateShows ==
  ASSUME NEW w, IsScene(w), NEW g
  PROVE  /\ \A v \in ToSet(g.vertices) : PopulateCanvas(w, g).items[v].visible = TRUE
         /\ \A e \in ToSet(g.edges) : PopulateCanvas(w, g).edgeItems[e].visible = TRUE
<1> DEFINE p == PopulateCanvas(w, g)
           newItems == Over([v \in ToSet(g.vertices) |-> VertexItem], w.items)
           newLines == Over([e \in ToSet(g.edges) |-> EdgeItem], w.edgeItems)
<1>1. p = [w EXCEPT !.items = newItems, !.edgeItems = newLines] BY DEF PopulateCanvas
<1>2. \A v \in ToSet(g.vertices) : newItems[v] = VertexItem BY DEF Over
<1>3. \A e \in ToSet(g.edges) : newLines[e] = EdgeItem BY DEF Over
<1> HIDE DEF p, newItems, newLines
<1>4. p.items = newItems /\ p.edgeItems = newLines BY <1>1 DEF IsScene
<1>5. VertexItem.visible = TRUE /\ EdgeItem.visible = TRUE BY DEF VertexItem, EdgeItem
<1>6. /\ \A v \in ToSet(g.vertices) : p.items[v].visible = TRUE
      /\ \A e \in ToSet(g.edges) : p.edgeItems[e].visible = TRUE
  BY <1>2, <1>3, <1>4, <1>5
<1> QED BY <1>6 DEF p

\* Placing items that are there: where they are, and what is remembered.
LEMMA PlaceItems ==
  ASSUME NEW w, IsScene(w), NEW g, NEW c, DOMAIN c \subseteq DOMAIN w.items
  PROVE  /\ IsScene(SetPos(w, g, c))
         /\ DOMAIN SetPos(w, g, c).items = DOMAIN w.items
         /\ DOMAIN SetPos(w, g, c).edgeItems = DOMAIN w.edgeItems
         /\ \A v \in DOMAIN w.items :
              SetPos(w, g, c).items[v].pos = IF v \in DOMAIN c THEN c[v] ELSE w.items[v].pos
         /\ LET moved == {v \in DOMAIN c : w.items[v].pos # c[v]}
                cache == SetPos(w, g, c).mItemCoordinateCache
            IN /\ DOMAIN cache = moved \cup DOMAIN w.mItemCoordinateCache
               /\ \A v \in DOMAIN cache : cache[v] = IF v \in moved THEN c[v] ELSE w.mItemCoordinateCache[v]
         /\ \A e \in DOMAIN w.edgeItems :
              SetPos(w, g, c).edgeItems[e].points =
                IF Live(g, e) /\ ToSet(EdgeEnds[e]) \cap {v \in DOMAIN c : w.items[v].pos # c[v]} # {}
                THEN At(SetPos(w, g, c), e) ELSE w.edgeItems[e].points
         /\ \A v \in DOMAIN w.items : SetPos(w, g, c).items[v].visible = w.items[v].visible
         /\ \A e \in DOMAIN w.edgeItems : SetPos(w, g, c).edgeItems[e].visible = w.edgeItems[e].visible
<1> DEFINE moved == {v \in DOMAIN c : w.items[v].pos # c[v]}
           items == [v \in DOMAIN w.items |-> IF v \in moved THEN [w.items[v] EXCEPT !.pos = c[v]] ELSE w.items[v]]
           placed == [w EXCEPT !.items = [v \in DOMAIN @ |->
                        IF v \in moved THEN [@[v] EXCEPT !.pos = c[v]] ELSE @[v]]]
           drawn == UpdateEdgePositions(placed, g, moved)
           s == SetPos(w, g, c)
<1>1. s = CacheVertexItemPosition(drawn, moved) BY DEF SetPos
<1>2. placed = [items |-> items, edgeItems |-> w.edgeItems,
                mItemCoordinateCache |-> w.mItemCoordinateCache, crashed |-> FALSE]
  <2>1. placed = [w EXCEPT !.items = items] OBVIOUS
  <2> HIDE DEF items, placed
  <2>2. PICK i, l, k : w = [items |-> i, edgeItems |-> l, mItemCoordinateCache |-> k, crashed |-> FALSE]
    BY DEF IsScene
  <2> QED BY <2>1, <2>2
<1> DEFINE lines == [e \in DOMAIN w.edgeItems |->
                       IF Live(g, e) /\ ToSet(EdgeEnds[e]) \cap moved # {}
                       THEN [w.edgeItems[e] EXCEPT !.points = <<items[EdgeEnds[e][1]].pos, items[EdgeEnds[e][2]].pos>>]
                       ELSE w.edgeItems[e]]
           cache == Over([v \in moved |-> items[v].pos], w.mItemCoordinateCache)
<1> HIDE DEF items, placed, moved
<1>3. drawn = [items |-> items, edgeItems |-> lines,
               mItemCoordinateCache |-> w.mItemCoordinateCache, crashed |-> FALSE]
  <2>1. placed.items = items /\ placed.edgeItems = w.edgeItems BY <1>2
  <2>2. drawn = [placed EXCEPT !.edgeItems = lines] BY <2>1 DEF UpdateEdgePositions
  <2> HIDE DEF drawn, lines
  <2> QED BY <1>2, <2>2
<1> HIDE DEF drawn, lines
<1>4. s = [items |-> items, edgeItems |-> lines, mItemCoordinateCache |-> cache, crashed |-> FALSE]
  <2>1. drawn.items = items /\ drawn.mItemCoordinateCache = w.mItemCoordinateCache BY <1>3
  <2>2. s = [drawn EXCEPT !.mItemCoordinateCache = cache] BY <1>1, <2>1 DEF CacheVertexItemPosition
  <2> HIDE DEF s, cache
  <2> QED BY <1>3, <2>2
<1>5. moved \subseteq DOMAIN w.items /\ moved \subseteq DOMAIN c BY DEF moved
<1>6. /\ DOMAIN items = DOMAIN w.items
      /\ \A v \in DOMAIN w.items :
           /\ IsItem(items[v]) /\ items[v].pos = IF v \in moved THEN c[v] ELSE w.items[v].pos
           /\ items[v].visible = w.items[v].visible
  BY DEF items, IsScene, IsItem
<1>7. \A v \in DOMAIN w.items : items[v].pos = IF v \in DOMAIN c THEN c[v] ELSE w.items[v].pos
  BY <1>6 DEF moved
<1>8. /\ DOMAIN cache = moved \cup DOMAIN w.mItemCoordinateCache
      /\ \A v \in DOMAIN cache : cache[v] = IF v \in moved THEN c[v] ELSE w.mItemCoordinateCache[v]
  BY <1>5, <1>6 DEF Over
<1>9. /\ DOMAIN lines = DOMAIN w.edgeItems
      /\ \A e \in DOMAIN w.edgeItems :
           /\ IsLine(lines[e])
           /\ lines[e].points = IF Live(g, e) /\ ToSet(EdgeEnds[e]) \cap moved # {}
                                THEN <<items[EdgeEnds[e][1]].pos, items[EdgeEnds[e][2]].pos>>
                                ELSE w.edgeItems[e].points
           /\ lines[e].visible = w.edgeItems[e].visible
  BY DEF lines, IsScene, IsLine
<1> HIDE DEF s, cache
<1>10. \A e : At(s, e) = <<items[EdgeEnds[e][1]].pos, items[EdgeEnds[e][2]].pos>> BY <1>4 DEF At
<1>11. IsScene(s) BY <1>4, <1>6, <1>9 DEF IsScene
<1>12. s.items = items /\ s.edgeItems = lines /\ s.mItemCoordinateCache = cache BY <1>4
<1> USE DEF s
<1> QED BY <1>6, <1>7, <1>8, <1>9, <1>10, <1>11, <1>12 DEF moved

\* Lines follow their ends.
LEMMA LinesFollow ==
  ASSUME NEW w, IsScene(w), NEW g, HasEnds(g), Populated(w, g), Lines(w, g),
         NEW c, DOMAIN c \subseteq DOMAIN w.items
  PROVE  Lines(SetPos(w, g, c), g)
<1> DEFINE s == SetPos(w, g, c)
           moved == {v \in DOMAIN c : w.items[v].pos # c[v]}
<1>1. /\ DOMAIN s.edgeItems = DOMAIN w.edgeItems
      /\ \A v \in DOMAIN w.items : s.items[v].pos = IF v \in DOMAIN c THEN c[v] ELSE w.items[v].pos
      /\ \A e \in DOMAIN w.edgeItems :
           s.edgeItems[e].points = IF Live(g, e) /\ ToSet(EdgeEnds[e]) \cap moved # {}
                                   THEN At(s, e) ELSE w.edgeItems[e].points
  BY PlaceItems
<1> HIDE DEF s
<1>2. ASSUME NEW e \in DOMAIN w.edgeItems, Live(g, e), ToSet(EdgeEnds[e]) \cap moved = {}
      PROVE  At(s, e) = At(w, e)
  <2>1. e \in Edges /\ EdgeEnds[e][1] \in ToSet(g.vertices) /\ EdgeEnds[e][2] \in ToSet(g.vertices)
    BY <1>2 DEF HasEnds, Live, ToSet
  <2>2. EdgeEnds[e][1] \notin moved /\ EdgeEnds[e][2] \notin moved BY <1>2, <2>1, EndsAre
  <2>3. EdgeEnds[e][1] \in DOMAIN w.items /\ EdgeEnds[e][2] \in DOMAIN w.items BY <2>1 DEF Populated
  <2> QED BY <1>1, <2>2, <2>3 DEF At
<1> HIDE DEF moved
<1> SUFFICES ASSUME NEW e \in DOMAIN s.edgeItems, Live(g, e)
             PROVE  s.edgeItems[e].points = At(s, e) \/ (s.edgeItems[e].points = NoLine /\ At(s, e) = <<Origin, Origin>>)
  BY DEF Lines, s
<1>3. w.edgeItems[e].points = At(w, e) \/ (w.edgeItems[e].points = NoLine /\ At(w, e) = <<Origin, Origin>>)
  BY <1>1 DEF Lines
<1>4. e \in DOMAIN w.edgeItems BY <1>1
<1>5. CASE ToSet(EdgeEnds[e]) \cap moved # {}
  <2>1. s.edgeItems[e].points = At(s, e) BY <1>1, <1>4, <1>5
  <2> QED BY <2>1
<1>6. CASE ToSet(EdgeEnds[e]) \cap moved = {}
  <2>1. s.edgeItems[e].points = w.edgeItems[e].points BY <1>1, <1>4, <1>6
  <2>2. At(s, e) = At(w, e) BY <1>2, <1>4, <1>6
  <2> QED BY <1>3, <2>1, <2>2
<1> QED BY <1>5, <1>6

\* Everything a view shows is visible.
AllSeen(w) == /\ \A v \in DOMAIN w.items : w.items[v].visible = TRUE
              /\ \A e \in DOMAIN w.edgeItems : w.edgeItems[e].visible = TRUE

\* The view of a graph is drawn anew: what is left has not crashed, shows the
\* graph, and what was remembered is remembered still.
LEMMA RedrawsView ==
  ASSUME NEW w, IsScene(w), NEW g, HasEnds(g), NEW x \in UpdateVisualization(w, g), ~x.crashed
  PROVE  /\ Redrawn(x, g) /\ AllSeen(x)
         /\ DOMAIN x.mItemCoordinateCache = DOMAIN w.mItemCoordinateCache
         /\ \A v \in DOMAIN w.mItemCoordinateCache : x.mItemCoordinateCache[v] = w.mItemCoordinateCache[v]
<1> DEFINE cleared == ClearVisualization(w)
           p == PopulateCanvas(cleared, g)
           cache == w.mItemCoordinateCache
           known == DOMAIN cache \cap DOMAIN p.items
<1>1. cleared = [items |-> <<>>, edgeItems |-> <<>>, mItemCoordinateCache |-> cache, crashed |-> FALSE]
  <2>1. PICK i, l, k : w = [items |-> i, edgeItems |-> l, mItemCoordinateCache |-> k, crashed |-> FALSE]
    BY DEF IsScene
  <2>2. cleared = [w EXCEPT !.items = <<>>, !.edgeItems = <<>>] BY DEF ClearVisualization
  <2>3. w.mItemCoordinateCache = k BY <2>1
  <2> HIDE DEF cleared
  <2> QED BY <2>1, <2>2, <2>3
<1>2. IsScene(cleared) BY <1>1 DEF IsScene
<1>3. DOMAIN cleared.items = {} /\ DOMAIN cleared.edgeItems = {} /\ cleared.mItemCoordinateCache = cache BY <1>1
<1> HIDE DEF cleared
<1>4. /\ IsScene(p) /\ Populated(p, g) /\ p.mItemCoordinateCache = cache
      /\ \A v \in ToSet(g.vertices) : p.items[v].pos = Origin
      /\ \A e \in ToSet(g.edges) : p.edgeItems[e].points = NoLine
      /\ AllSeen(p)
  <2>1. /\ IsScene(p) /\ p.mItemCoordinateCache = cleared.mItemCoordinateCache
        /\ DOMAIN p.items = ToSet(g.vertices) \cup DOMAIN cleared.items
        /\ DOMAIN p.edgeItems = ToSet(g.edges) \cup DOMAIN cleared.edgeItems
        /\ \A v \in ToSet(g.vertices) : p.items[v].pos = Origin
        /\ \A e \in ToSet(g.edges) : p.edgeItems[e].points = NoLine
    BY <1>2, PopulateScene, Zenon
  <2>2. /\ \A v \in ToSet(g.vertices) : p.items[v].visible = TRUE
        /\ \A e \in ToSet(g.edges) : p.edgeItems[e].visible = TRUE
    BY <1>2, PopulateShows, Zenon
  <2> HIDE DEF p
  <2> QED BY <1>3, <2>1, <2>2 DEF Populated, AllSeen
<1>5. Lines(p, g)
  <2> SUFFICES ASSUME NEW e \in DOMAIN p.edgeItems, Live(g, e)
               PROVE  p.edgeItems[e].points = NoLine /\ At(p, e) = <<Origin, Origin>>
    BY DEF Lines
  <2>1. EdgeEnds[e][1] \in ToSet(g.vertices) /\ EdgeEnds[e][2] \in ToSet(g.vertices)
    BY DEF HasEnds, Live
  <2> QED BY <1>4, <2>1 DEF Live, At
<1>6. PICK c : /\ x = SetPos(p, g, c) /\ DOMAIN c \subseteq DOMAIN p.items \cap DOMAIN cache
               /\ \A v \in DOMAIN c : c[v] = cache[v]
               /\ known = DOMAIN cache => DOMAIN c = DOMAIN cache
  <2>1. x \in ApplyLayout(cleared, g, cache) BY <1>3 DEF UpdateVisualization, Update, cleared
  <2>2. CASE known = DOMAIN cache
    <3>1. x = SetPos(p, g, cache) BY <2>1, <2>2 DEF ApplyLayout
    <3> HIDE DEF p
    <3> QED BY <2>2, <3>1
  <2>3. CASE known # DOMAIN cache
    <3>1. Crash.crashed BY DEF Crash, NewView
    <3>2. x # Crash BY <3>1
    <3>3. PICK some \in SUBSET known : x = SetPos(p, g, Restrict(cache, some))
      BY <2>1, <2>3, <3>2 DEF ApplyLayout
    <3> HIDE DEF p
    <3>4. DOMAIN Restrict(cache, some) = some /\ \A v \in some : Restrict(cache, some)[v] = cache[v]
      BY DEF Restrict
    <3> QED BY <2>3, <3>3, <3>4
  <2> QED BY <2>2, <2>3
<1> HIDE DEF p
<1> DEFINE moved == {v \in DOMAIN c : p.items[v].pos # c[v]}
<1>7. /\ IsScene(x) /\ DOMAIN x.items = DOMAIN p.items /\ DOMAIN x.edgeItems = DOMAIN p.edgeItems
      /\ \A v \in DOMAIN p.items : x.items[v].pos = IF v \in DOMAIN c THEN c[v] ELSE p.items[v].pos
      /\ DOMAIN x.mItemCoordinateCache = moved \cup DOMAIN cache
      /\ \A v \in DOMAIN x.mItemCoordinateCache :
           x.mItemCoordinateCache[v] = IF v \in moved THEN c[v] ELSE cache[v]
  BY <1>4, <1>6, PlaceItems
<1>8. Lines(x, g) BY <1>4, <1>5, <1>6, LinesFollow
<1>9. Populated(x, g) BY <1>4, <1>7 DEF Populated
<1>10. moved \subseteq DOMAIN cache BY <1>6
<1>11. /\ DOMAIN x.mItemCoordinateCache = DOMAIN cache
       /\ \A v \in DOMAIN cache : x.mItemCoordinateCache[v] = cache[v]
  BY <1>6, <1>7, <1>10
<1>12. ASSUME DOMAIN cache \subseteq ToSet(g.vertices) PROVE Remembered(x)
  <2>1. DOMAIN c = DOMAIN cache BY <1>4, <1>6, <1>12 DEF Populated
  <2>2. ASSUME NEW v \in DOMAIN x.items PROVE x.items[v].pos = Cached(x, v)
    BY <1>4, <1>6, <1>7, <1>11, <2>1, <2>2 DEF Cached, Populated
  <2> QED BY <2>2 DEF Remembered
<1>13. AllSeen(x)
  <2>1. /\ \A v \in DOMAIN p.items : x.items[v].visible = p.items[v].visible
        /\ \A e \in DOMAIN p.edgeItems : x.edgeItems[e].visible = p.edgeItems[e].visible
    BY <1>4, <1>6, PlaceItems
  <2> QED BY <1>4, <1>7, <2>1 DEF AllSeen
<1> QED BY <1>7, <1>8, <1>9, <1>11, <1>12, <1>13 DEF Redrawn

\* A layout leaves a scene, if the program survives it.
LEMMA LayoutLeavesScene ==
  ASSUME NEW w, IsScene(w), NEW g, NEW c, NEW x \in ApplyLayout(w, g, c), ~x.crashed
  PROVE  IsScene(x)
<1> DEFINE p == PopulateCanvas(w, g)
           known == DOMAIN c \cap DOMAIN p.items
<1>1. IsScene(p) BY PopulateScene
<1>2. \E d : DOMAIN d \subseteq DOMAIN p.items /\ x = SetPos(p, g, d)
  <2>1. CASE known = DOMAIN c
    <3>1. x = SetPos(p, g, c) BY <2>1 DEF ApplyLayout
    <3> HIDE DEF p
    <3> QED BY <2>1, <3>1
  <2>2. CASE known # DOMAIN c
    <3>1. Crash.crashed BY DEF Crash, NewView
    <3>2. x # Crash BY <3>1
    <3>3. PICK some \in SUBSET known : x = SetPos(p, g, Restrict(c, some))
      BY <2>2, <3>2 DEF ApplyLayout
    <3> HIDE DEF p
    <3>4. DOMAIN Restrict(c, some) = some BY DEF Restrict
    <3> QED BY <3>3, <3>4
  <2> QED BY <2>1, <2>2
<1> HIDE DEF p
<1> QED BY <1>1, <1>2, PlaceItems

\* A window that shows what was drawn anew shows the graph.
LEMMA ShowsRedrawn ==
  ASSUME NEW w, IsScene(w), NEW g, HasEnds(g), Shows(UpdateVisualization(w, g)), status' = "ok"
  PROVE  /\ Redrawn(view', g) /\ AllSeen(view')
         /\ DOMAIN view'.mItemCoordinateCache = DOMAIN w.mItemCoordinateCache
         /\ \A v \in DOMAIN w.mItemCoordinateCache :
              view'.mItemCoordinateCache[v] = w.mItemCoordinateCache[v]
<1>1. PICK x \in UpdateVisualization(w, g) :
        IF x.crashed THEN status' = "ended" /\ UNCHANGED view ELSE view' = x /\ UNCHANGED status
  BY DEF Shows
<1>2. ~x.crashed /\ view' = x BY <1>1
<1>3. /\ Redrawn(x, g) /\ AllSeen(x)
      /\ DOMAIN x.mItemCoordinateCache = DOMAIN w.mItemCoordinateCache
      /\ \A v \in DOMAIN w.mItemCoordinateCache : x.mItemCoordinateCache[v] = w.mItemCoordinateCache[v]
  BY <1>2, RedrawsView
<1> QED BY <1>2, <1>3 DEF AllSeen

\* So does one that showed a layout before.
LaidOut(w, g, c) == UNION {IF x.crashed THEN {x} ELSE UpdateVisualization(x, g) : x \in ApplyLayout(w, g, c)}
\* A layout moves vertices, and lines after them.
LEMMA ShowsLaidOut ==
  ASSUME NEW w, IsScene(w), NEW g, HasEnds(g), NEW c, status' = "ok", Shows(LaidOut(w, g, c))
  PROVE  Redrawn(view', g) /\ AllSeen(view')
<1>1. PICK y \in LaidOut(w, g, c) :
        IF y.crashed THEN status' = "ended" /\ UNCHANGED view ELSE view' = y /\ UNCHANGED status
  BY DEF Shows
<1>2. ~y.crashed /\ view' = y BY <1>1
<1>3. PICK x \in ApplyLayout(w, g, c) : y \in IF x.crashed THEN {x} ELSE UpdateVisualization(x, g)
  BY <1>1 DEF LaidOut
<1>4. ~x.crashed /\ y \in UpdateVisualization(x, g) BY <1>2, <1>3
<1>5. Redrawn(y, g) /\ AllSeen(y) BY <1>2, <1>4, LayoutLeavesScene, RedrawsView
<1> QED BY <1>2, <1>5 DEF AllSeen

-----------------------------------------------------------------------------
(* The window.                                                                 *)

\* Moving items keeps their lines, and is remembered.
LEMMA MovesKeep ==
  ASSUME NEW w, NEW g, HasEnds(g), Redrawn(w, g), NEW c, DOMAIN c \subseteq DOMAIN w.items
  PROVE  Redrawn(SetPos(w, g, c), g)
<1> DEFINE s == SetPos(w, g, c)
           moved == {v \in DOMAIN c : w.items[v].pos # c[v]}
<1>1. IsScene(w) /\ Populated(w, g) /\ Lines(w, g) BY DEF Redrawn
<1>2. /\ IsScene(s) /\ DOMAIN s.items = DOMAIN w.items /\ DOMAIN s.edgeItems = DOMAIN w.edgeItems
      /\ \A v \in DOMAIN w.items : s.items[v].pos = IF v \in DOMAIN c THEN c[v] ELSE w.items[v].pos
      /\ DOMAIN s.mItemCoordinateCache = moved \cup DOMAIN w.mItemCoordinateCache
      /\ \A v \in DOMAIN s.mItemCoordinateCache :
           s.mItemCoordinateCache[v] = IF v \in moved THEN c[v] ELSE w.mItemCoordinateCache[v]
  BY <1>1, PlaceItems
<1>3. Lines(s, g) BY <1>1, LinesFollow
<1> HIDE DEF s
<1>4. Populated(s, g) BY <1>1, <1>2 DEF Populated
<1>5. ASSUME DOMAIN s.mItemCoordinateCache \subseteq ToSet(g.vertices) PROVE Remembered(s)
  <2>1. Remembered(w) BY <1>2, <1>5 DEF Redrawn
  <2>2. ASSUME NEW v \in DOMAIN s.items PROVE s.items[v].pos = Cached(s, v)
    <3>1. v \in DOMAIN w.items /\ w.items[v].pos = Cached(w, v) BY <1>2, <2>1 DEF Remembered
    <3>2. CASE v \in moved
      <4>1. s.items[v].pos = c[v] /\ v \in DOMAIN s.mItemCoordinateCache BY <1>2, <3>1, <3>2
      <4> QED BY <1>2, <3>2, <4>1 DEF Cached
    <3>3. CASE v \notin moved
      <4>1. s.items[v].pos = w.items[v].pos BY <1>2, <3>1, <3>3
      <4>2. Cached(s, v) = Cached(w, v) BY <1>2, <3>3 DEF Cached
      <4> QED BY <3>1, <4>1, <4>2
    <3> QED BY <3>2, <3>3
  <2> QED BY <2>2 DEF Remembered
<1>6. Redrawn(s, g) BY <1>2, <1>3, <1>4, <1>5 DEF Redrawn
<1> QED BY <1>6 DEF s

\* A change of the graph the window hears of.
LEMMA NotifyKeeps ==
  ASSUME ViewInv, status = "ok", NEW g, HasEnds(g), Notify(g)
  PROVE  ViewInv'
<1> SUFFICES ASSUME status' = "ok", connected' PROVE HasEnds(graph') /\ Redrawn(view', graph')
  BY DEF ViewInv
<1>1. graph' = g /\ connected /\ Shows(UpdateVisualization(view, g)) BY DEF Notify
<1>2. IsScene(view) BY <1>1 DEF ViewInv, Redrawn
<1>3. Redrawn(view', g) BY <1>1, <1>2, ShowsRedrawn
<1> QED BY <1>1, <1>3

\* Dragging a vertex takes the ends of its lines along.
LEMMA MovesToKeeps ==
  ASSUME ViewInv, status = "ok", NEW c, DOMAIN c \subseteq DOMAIN view.items, MovesTo(c)
  PROVE  ViewInv'
<1> SUFFICES ASSUME status' = "ok", connected' PROVE HasEnds(graph') /\ Redrawn(view', graph')
  BY DEF ViewInv
<1>1. graph' = graph /\ connected /\ view' = SetPos(view, graph, c) BY DEF MovesTo
<1>2. HasEnds(graph) /\ Redrawn(view, graph) BY <1>1 DEF ViewInv
<1>3. Redrawn(SetPos(view, graph, c), graph) BY <1>2, MovesKeep
<1> QED BY <1>1, <1>2, <1>3

\* Every change of the graph, the layout and the places of items keeps the
\* invariant.
LEMMA ViewChangeKeeps == ViewInv /\ ViewChange => ViewInv'
<1> SUFFICES ASSUME ViewInv, ViewChange PROVE ViewInv' OBVIOUS
<1>0. status = "ok" BY DEF ViewChange, AddVertex, RemoveVertex, AddEdge, RemoveEdge, Move, MovesTo,
        SelectDot, SelectGrid, Shuffle, Redraw, Change
<1>1. CASE connected
  <2>1. HasEnds(graph) /\ Redrawn(view, graph) /\ IsScene(view) BY <1>0, <1>1 DEF ViewInv, Redrawn
  <2>2. ASSUME NEW v \in Vertices, AddVertex(v) PROVE ViewInv'
    BY <1>0, <2>1, <2>2, EndsWithVertex, NotifyKeeps DEF AddVertex
  <2>3. ASSUME NEW v \in Vertices, RemoveVertex(v) PROVE ViewInv'
    BY <1>0, <2>1, <2>3, EndsWithoutVertex, NotifyKeeps DEF RemoveVertex
  <2>4. ASSUME NEW e \in Edges, AddEdge(e) PROVE ViewInv'
    BY <1>0, <2>1, <2>4, EndsWithEdge, NotifyKeeps DEF AddEdge
  <2>5. ASSUME NEW e \in Edges, RemoveEdge(e) PROVE ViewInv'
    BY <1>0, <2>1, <2>5, EndsWithoutEdge, NotifyKeeps DEF RemoveEdge
  <2>6. ASSUME NEW v \in Vertices, NEW p \in Positions \cup {Origin}, Move(v, p) PROVE ViewInv'
    <3>1. DOMAIN Entry(v, p) \subseteq DOMAIN view.items /\ MovesTo(Entry(v, p)) BY <2>6 DEF Move, Entry
    <3> QED BY <1>0, <3>1, MovesToKeeps
  <2>7. CASE SelectDot
    <3> SUFFICES ASSUME status' = "ok" PROVE Redrawn(view', graph) /\ graph' = graph
      BY <2>1 DEF ViewInv
    <3>1. graph' = graph BY <2>7 DEF SelectDot
    <3>2. PICK c : Shows(LaidOut(view, graph, c))
      BY <2>7 DEF SelectDot, Then, LaidOut
    <3> QED BY <2>1, <3>1, <3>2, ShowsLaidOut
  <2>8. CASE SelectGrid
    <3> SUFFICES ASSUME status' = "ok" PROVE Redrawn(view', graph) /\ graph' = graph
      BY <2>1 DEF ViewInv
    <3>1. graph' = graph BY <2>8 DEF SelectGrid
    <3>2. PICK cells \in GVLayout(graph) :
            LET coordinates == GridCoordinates(view, graph, cells)
                onGrid == SetPos(view, graph,
                                 Restrict(coordinates, ToSet(graph.vertices) \cap DOMAIN view.items))
            IN Shows(LaidOut(onGrid, graph, coordinates))
      BY <2>8 DEF SelectGrid, Then, LaidOut
    <3> DEFINE coordinates == GridCoordinates(view, graph, cells)
               there == Restrict(coordinates, ToSet(graph.vertices) \cap DOMAIN view.items)
               onGrid == SetPos(view, graph, there)
    <3>3. DOMAIN there \subseteq DOMAIN view.items BY DEF Restrict
    <3>4. IsScene(onGrid) BY <2>1, <3>3, PlaceItems
    <3>5. Shows(LaidOut(onGrid, graph, coordinates)) BY <3>2
    <3> HIDE DEF onGrid, coordinates
    <3> QED BY <2>1, <3>1, <3>4, <3>5, ShowsLaidOut
  <2>9. CASE Shuffle
    <3>1. PICK c \in [DOMAIN view.items -> Positions \cup {Origin}] : MovesTo(c) BY <2>9 DEF Shuffle
    <3> QED BY <1>0, <3>1, MovesToKeeps
  <2>10. CASE Redraw
    <3> SUFFICES ASSUME status' = "ok" PROVE Redrawn(view', graph) /\ graph' = graph
      BY <2>1 DEF ViewInv
    <3> QED BY <2>1, <2>10, ShowsRedrawn DEF Redraw
  <2> QED BY <2>2, <2>3, <2>4, <2>5, <2>6, <2>7, <2>8, <2>9, <2>10 DEF ViewChange
<1>2. CASE ~connected
  <2>1. connected' = connected BY DEF ViewChange, AddVertex, RemoveVertex, AddEdge, RemoveEdge, Notify,
          Move, MovesTo, SelectDot, SelectGrid, Shuffle, Redraw
  <2> QED BY <1>2, <2>1 DEF ViewInv
<1> QED BY <1>1, <1>2

\* What players show and hide stays where it is.
LEMMA VisibleKeeps ==
  ASSUME NEW w, NEW g, Redrawn(w, g), NEW x, IsScene(x),
         DOMAIN x.items = DOMAIN w.items, DOMAIN x.edgeItems = DOMAIN w.edgeItems,
         x.mItemCoordinateCache = w.mItemCoordinateCache,
         \A v \in DOMAIN w.items : x.items[v].pos = w.items[v].pos,
         \A e \in DOMAIN w.edgeItems : x.edgeItems[e].points = w.edgeItems[e].points,
         HasEnds(g)
  PROVE  Redrawn(x, g)
<1>1. Populated(w, g) /\ Lines(w, g) BY DEF Redrawn
<1>2. Populated(x, g) BY <1>1 DEF Populated
<1>3. Lines(x, g)
  <2> SUFFICES ASSUME NEW e \in DOMAIN x.edgeItems, Live(g, e)
               PROVE  x.edgeItems[e].points = At(x, e) \/ (x.edgeItems[e].points = NoLine /\ At(x, e) = <<Origin, Origin>>)
    BY DEF Lines
  <2>1. EdgeEnds[e][1] \in DOMAIN w.items /\ EdgeEnds[e][2] \in DOMAIN w.items
    BY <1>1 DEF HasEnds, Live, Populated
  <2>2. At(x, e) = At(w, e) BY <2>1 DEF At
  <2>3. x.edgeItems[e].points = w.edgeItems[e].points OBVIOUS
  <2> QED BY <1>1, <2>2, <2>3 DEF Lines
<1>4. Remembered(w) => Remembered(x) BY DEF Remembered, Cached
<1> QED BY <1>2, <1>3, <1>4 DEF Redrawn

\* Every message of the graph, received in time, keeps the picture true.
LEMMA ReceiveKeeps == ViewInv /\ Receive => ViewInv'
<1> SUFFICES ASSUME ViewInv, Receive, status' = "ok", connected'
             PROVE  HasEnds(graph') /\ Redrawn(view', graph')
  BY DEF ViewInv
<1>1. graph' = graph /\ status = "ok" /\ connected BY DEF Receive
<1>2. HasEnds(graph) /\ Redrawn(view, graph) /\ IsScene(view) BY <1>1 DEF ViewInv, Redrawn
<1>3. PICK i, l, k : view = [items |-> i, edgeItems |-> l, mItemCoordinateCache |-> k, crashed |-> FALSE]
  BY <1>2 DEF IsScene
<1>4. view.items = i /\ view.edgeItems = l /\ view.mItemCoordinateCache = k BY <1>3
<1> DEFINE s == Head(signals)
<1>5. CASE view' = SetVertexVisible(view, s)
  <2> DEFINE j == [v \in DOMAIN i |->
                     IF v \in ToSet(graph.vertices) /\ graph.vid[v] = s.id
                     THEN [i[v] EXCEPT !.visible = s.visible] ELSE i[v]]
  <2>1. view' = [view EXCEPT !.items = j] BY <1>4, <1>5 DEF SetVertexVisible
  <2>2. DOMAIN j = DOMAIN i /\ \A v \in DOMAIN i : IsItem(j[v]) /\ j[v].pos = i[v].pos
    BY <1>2, <1>4 DEF IsScene, IsItem
  <2> HIDE DEF j
  <2>3. view' = [items |-> j, edgeItems |-> l, mItemCoordinateCache |-> k, crashed |-> FALSE] BY <1>3, <2>1
  <2>4. view'.items = j /\ view'.edgeItems = l /\ view'.mItemCoordinateCache = k BY <2>3
  <2>5. IsScene(view') BY <1>2, <1>4, <2>2, <2>3, <2>4 DEF IsScene
  <2>6. Redrawn(view', graph) BY <1>2, <1>4, <2>2, <2>4, <2>5, VisibleKeeps
  <2> QED BY <1>1, <1>2, <2>6
<1>6. CASE view' = SetEdgeVisible(view, s)
  <2> DEFINE j == [e \in DOMAIN l |->
                     IF Live(graph, e) /\ graph.eid[e] = s.id
                     THEN [l[e] EXCEPT !.visible = s.visible] ELSE l[e]]
  <2>1. view' = [view EXCEPT !.edgeItems = j] BY <1>4, <1>6 DEF SetEdgeVisible
  <2>2. DOMAIN j = DOMAIN l /\ \A e \in DOMAIN l : IsLine(j[e]) /\ j[e].points = l[e].points
    BY <1>2, <1>4 DEF IsScene, IsLine
  <2> HIDE DEF j
  <2>3. view' = [items |-> i, edgeItems |-> j, mItemCoordinateCache |-> k, crashed |-> FALSE] BY <1>3, <2>1
  <2>4. view'.items = i /\ view'.edgeItems = j /\ view'.mItemCoordinateCache = k BY <2>3
  <2>5. IsScene(view') BY <1>2, <1>4, <2>2, <2>3, <2>4 DEF IsScene
  <2>6. Redrawn(view', graph) BY <1>2, <1>4, <2>2, <2>4, <2>5, VisibleKeeps
  <2> QED BY <1>1, <1>2, <2>6
<1> QED BY <1>1, <1>5, <1>6 DEF Receive

\* So does every step of the window and of the player.
LEMMA PlayerKeeps == ViewInv /\ [PlayerNext]_<<viewVars, playerVars>> => ViewInv'
<1> SUFFICES ASSUME ViewInv, [PlayerNext]_<<viewVars, playerVars>> PROVE ViewInv' OBVIOUS
<1>1. CASE UNCHANGED <<graph, view, connected>> /\ (status' = "ok" => status = "ok")
  BY <1>1 DEF ViewInv
<1>2. CASE ViewChange BY <1>2, ViewChangeKeeps
<1>3. ASSUME NEW g, ImportGraph(g) PROVE ViewInv'
  BY <1>3 DEF ImportGraph, ActivateGraph, ViewInv
<1>4. ASSUME NEW show, PlayGraph(show) PROVE ViewInv' BY <1>1, <1>4 DEF PlayGraph
<1>5. ASSUME NEW i, ThreadStep(i) PROVE ViewInv' BY <1>1, <1>5 DEF ThreadStep
<1>6. CASE Receive BY <1>6, ReceiveKeeps
<1>7. CASE UNCHANGED <<viewVars, playerVars>> BY <1>1, <1>7 DEF viewVars
<1> QED BY <1>2, <1>3, <1>4, <1>5, <1>6, <1>7 DEF PlayerNext

\* The first picture is one of the graph the window starts with.
LEMMA PlayerStarts == PlayerInit => ViewInv
<1> SUFFICES ASSUME PlayerInit, status = "ok" PROVE HasEnds(graph) /\ Redrawn(view, graph)
  BY DEF ViewInv
<1>1. graph = FirstGraph /\ view \in UpdateVisualization(NewView, FirstGraph) BY DEF PlayerInit, ViewInit
<1>2. IsScene(NewView) BY DEF NewView, IsScene
<1>3. ~view.crashed
  <2>1. NewView.mItemCoordinateCache = <<>> /\ DOMAIN NewView.mItemCoordinateCache = {} BY DEF NewView
  <2>2. ClearVisualization(NewView).mItemCoordinateCache = <<>> BY DEF NewView, ClearVisualization
  <2>3. view = SetPos(PopulateCanvas(ClearVisualization(NewView), FirstGraph), FirstGraph, <<>>)
    BY <1>1, <2>1, <2>2 DEF UpdateVisualization, Update, ApplyLayout
  <2>4. ClearVisualization(NewView) = NewView
    <3>1. PICK z : z = <<>> OBVIOUS
    <3>2. NewView = [items |-> z, edgeItems |-> z, mItemCoordinateCache |-> z, crashed |-> FALSE]
      BY <3>1 DEF NewView
    <3>3. ClearVisualization(NewView) = [NewView EXCEPT !.items = z, !.edgeItems = z]
      BY <3>1 DEF ClearVisualization
    <3> QED BY <3>2, <3>3
  <2>5. IsScene(PopulateCanvas(NewView, FirstGraph)) BY <1>2, PopulateScene
  <2>6. DOMAIN <<>> = {} OBVIOUS
  <2>7. IsScene(SetPos(PopulateCanvas(NewView, FirstGraph), FirstGraph, <<>>)) BY <2>5, <2>6, PlaceItems
  <2>8. IsScene(view) BY <2>3, <2>4, <2>7
  <2> QED BY <2>8 DEF IsScene
<1> QED BY <1>1, <1>2, <1>3, EndsOfStart, RedrawsView

-----------------------------------------------------------------------------
\* The invariant of a window that hears of all changes of its graph.
THEOREM ViewIsRedrawn == PlayerSpec => []ViewInv
<1> QED BY PlayerStarts, PlayerKeeps, PTL DEF PlayerSpec

\* Every line of the graph shown lies between its ends, for any graph, layouts,
\* moves and players, as long as the window hears of the graph's changes
\* (GraphWidget::updateEdgePositions).
THEOREM LinesFollowItems == PlayerSpec => []EdgesFollowItems
<1>1. ViewInv => EdgesFollowItems
  <2> SUFFICES ASSUME ViewInv, status = "ok", connected, NEW e \in DOMAIN view.edgeItems, Live(graph, e)
               PROVE  LET at == [i \in {1, 2} |-> view.items[EdgeEnds[e][i]].pos]
                      IN view.edgeItems[e].points \in
                           {<<at[1], at[2]>>} \cup IF at = <<Origin, Origin>> THEN {NoLine} ELSE {}
    BY DEF EdgesFollowItems
  <2>1. Lines(view, graph) BY DEF ViewInv, Redrawn
  <2> DEFINE at == [i \in {1, 2} |-> view.items[EdgeEnds[e][i]].pos]
  <2>2. at[1] = view.items[EdgeEnds[e][1]].pos /\ at[2] = view.items[EdgeEnds[e][2]].pos OBVIOUS
  <2>3. at = <<at[1], at[2]>> OBVIOUS
  <2> HIDE DEF at
  <2>4. At(view, e) = <<at[1], at[2]>> BY <2>2 DEF At
  <2>5. view.edgeItems[e].points = <<at[1], at[2]>>
        \/ (view.edgeItems[e].points = NoLine /\ at = <<Origin, Origin>>)
    BY <2>1, <2>3, <2>4 DEF Lines
  <2> QED BY <2>5 DEF at
<1> QED BY <1>1, ViewIsRedrawn, PTL

\* Redrawing after a change of the graph leaves every item where it was, unless
\* a remembered vertex has gone (GraphWidget::vertexPositionHasChanged).
RedrawKeepsPlaces ==
  graph' # graph /\ connected' /\ status' = "ok"
  /\ DOMAIN view.mItemCoordinateCache \subseteq ToSet(graph.vertices) \cap ToSet(graph'.vertices)
  => \A v \in DOMAIN view.items \cap DOMAIN view'.items : view'.items[v].pos = view.items[v].pos

\* LayoutSurvivesChange: no change of the graph moves an item that stays.
THEOREM RedrawsKeepPlaces == PlayerSpec => LayoutSurvivesChange
<1>1. ViewInv /\ [PlayerNext]_<<viewVars, playerVars>> => [RedrawKeepsPlaces]_viewVars
  <2> SUFFICES ASSUME ViewInv, PlayerNext, graph' # graph, connected', status' = "ok",
                      DOMAIN view.mItemCoordinateCache \subseteq ToSet(graph.vertices) \cap ToSet(graph'.vertices),
                      NEW v \in DOMAIN view.items \cap DOMAIN view'.items
               PROVE  view'.items[v].pos = view.items[v].pos
    BY DEF RedrawKeepsPlaces, viewVars
  <2>1. PICK g : Notify(g) /\ status = "ok"
    <3>1. CASE ViewChange
      <4>1. \E g : Notify(g)
        BY <3>1 DEF ViewChange, AddVertex, RemoveVertex, AddEdge, RemoveEdge, Move, MovesTo,
                    SelectDot, SelectGrid, Shuffle, Redraw
      <4>2. status = "ok" BY <3>1 DEF ViewChange, AddVertex, RemoveVertex, AddEdge, RemoveEdge,
                    Move, MovesTo, SelectDot, SelectGrid, Shuffle, Redraw, Change
      <4> QED BY <4>1, <4>2
    <3>2. CASE ~ViewChange
      BY <3>2 DEF PlayerNext, ImportGraph, ActivateGraph, PlayGraph, ThreadStep, Receive
    <3> QED BY <3>1, <3>2
  <2>2. graph' = g /\ connected /\ Shows(UpdateVisualization(view, g)) BY <2>1 DEF Notify
  <2>3. HasEnds(graph) /\ Redrawn(view, graph) /\ IsScene(view) BY <2>1, <2>2 DEF ViewInv, Redrawn
  <2>4. HasEnds(g)
    <3>1. ViewInv' BY PlayerKeeps
    <3> QED BY <2>2, <3>1 DEF ViewInv
  <2>5. /\ Redrawn(view', g)
        /\ DOMAIN view'.mItemCoordinateCache = DOMAIN view.mItemCoordinateCache
        /\ \A x \in DOMAIN view.mItemCoordinateCache :
             view'.mItemCoordinateCache[x] = view.mItemCoordinateCache[x]
    BY <2>2, <2>3, <2>4, ShowsRedrawn
  <2>6. Remembered(view) /\ Remembered(view') BY <2>2, <2>3, <2>5 DEF Redrawn
  <2>7. Cached(view', v) = Cached(view, v) BY <2>5 DEF Cached
  <2> QED BY <2>6, <2>7 DEF Remembered
<1>2. PlayerSpec => [][RedrawKeepsPlaces]_viewVars BY <1>1, ViewIsRedrawn, PTL DEF PlayerSpec
<1> QED BY <1>2 DEF LayoutSurvivesChange, RedrawKeepsPlaces

-----------------------------------------------------------------------------
(* Ids.                                                                        *)

\* The ids in use and those that were freed are the first few numbers, each
\* once.
IdsOf(list, id) == {id[x] : x \in ToSet(list)}
Numbered(list, id, free) ==
  /\ NoneTwice(list)
  /\ ToSet(list) \subseteq DOMAIN id
  /\ \A x, y \in ToSet(list) : id[x] = id[y] => x = y
  /\ free \in Seq(Nat) /\ NoneTwice(free)
  /\ \A x \in ToSet(list) : id[x] \notin Held(free)
  /\ \E n \in Nat : IdsOf(list, id) \cup Held(free) = 0 .. n - 1

\* A new element gets an id that no other has.
LEMMA NewIdIsNew ==
  ASSUME NEW A, NEW list \in Seq(A), NEW id, NEW free, Numbered(list, id, free)
  PROVE  /\ NewId(list, free) \in Nat /\ NewId(list, free) \notin IdsOf(list, id)
         /\ Rest(free) \in Seq(Nat) /\ NoneTwice(Rest(free))
         /\ NewId(list, free) \notin Held(Rest(free))
         /\ Held(Rest(free)) \subseteq Held(free)
         /\ \E n \in Nat : {NewId(list, free)} \cup IdsOf(list, id) \cup Held(Rest(free)) = 0 .. n - 1
<1> DEFINE new == NewId(list, free)
<1>1. PICK n \in Nat : IdsOf(list, id) \cup Held(free) = 0 .. n - 1 BY DEF Numbered
<1>2. free \in Seq(Nat) /\ NoneTwice(free) /\ NoneTwice(list)
  BY DEF Numbered
<1>3. Held(list) = ToSet(list) BY HeldIsToSet
<1>4. CASE free = <<>>
  <2>1. Held(free) = {} /\ NoneTwice(<<>>) BY <1>4 DEF Held, NoneTwice
  <2>2. IdsOf(list, id) = 0 .. n - 1 BY <1>1, <2>1
  <2> DEFINE name == [e \in Held(list) |-> id[e]]
  <2>3. name \in [Held(list) -> 0 .. n - 1] BY <1>3, <2>2 DEF IdsOf
  <2>4. \A x, y \in Held(list) : name[x] = name[y] => x = y BY <1>3 DEF Numbered
  <2>5. \A z \in 0 .. n - 1 : \E x \in Held(list) : name[x] = z BY <1>3, <2>2 DEF IdsOf
  <2> HIDE DEF name
  <2> DEFINE some == 0 .. n - 1
  <2>6. Cardinality(0 .. n - 1) = Len(list)
    <3>1. Cardinality(some) = Len(list)
      <4>1. name \in [Held(list) -> some] /\ \A z \in some : \E x \in Held(list) : name[x] = z
        BY <2>3, <2>5
      <4> HIDE DEF some
      <4> QED BY <1>2, <2>4, <4>1, CountOnce
    <3> QED BY <3>1
  <2>7. Cardinality(0 .. n - 1) = n
    <3>1. Cardinality(0 .. n - 1) = IF 0 > n - 1 THEN 0 ELSE (n - 1) - 0 + 1 BY FS_Interval
    <3> QED BY <3>1
  <2>8. new = n BY <1>4, <2>6, <2>7 DEF NewId
  <2>9. Rest(free) = <<>> BY <1>4 DEF Rest
  <2>10. {n} \cup 0 .. n - 1 = 0 .. (n + 1) - 1 /\ n + 1 \in Nat OBVIOUS
  <2>11. Rest(free) \in Seq(Nat) /\ NoneTwice(Rest(free)) /\ Held(Rest(free)) = {}
    BY <1>2, <1>4, <2>1, <2>9
  <2>12. new \in Nat /\ new \notin IdsOf(list, id) BY <2>2, <2>8
  <2>13. {new} \cup IdsOf(list, id) \cup Held(Rest(free)) = 0 .. (n + 1) - 1 BY <2>2, <2>8, <2>10, <2>11
  <2> QED BY <1>4, <2>1, <2>10, <2>11, <2>12, <2>13
<1>5. CASE free # <<>>
  <2>1. new = Head(free) /\ Rest(free) = Tail(free) BY <1>5 DEF NewId, Rest
  <2>2. free = <<new>> \o Rest(free) /\ Rest(free) \in Seq(Nat) /\ new \in Nat BY <1>2, <1>5, <2>1
  <2>3. Held(free) = {new} \cup Held(Rest(free)) BY <2>2, HeldBehind
  <2>4. DOMAIN Rest(free) = 1 .. Len(free) - 1 /\ DOMAIN free = 1 .. Len(free) /\ Len(free) \in Nat
    BY <1>2, <1>5, <2>1
  <2>5. \A i \in DOMAIN Rest(free) : i + 1 \in DOMAIN free /\ Rest(free)[i] = free[i + 1]
    BY <1>2, <1>5, <2>1
  <2>6. free[1] = new /\ 1 \in DOMAIN free BY <1>2, <1>5, <2>1
  <2>7. \A i, j \in DOMAIN free : free[i] = free[j] => i = j BY <1>2 DEF NoneTwice
  <2>8. NoneTwice(Rest(free))
    <3> SUFFICES ASSUME NEW i \in DOMAIN Rest(free), NEW j \in DOMAIN Rest(free), Rest(free)[i] = Rest(free)[j]
                 PROVE  i = j
      BY DEF NoneTwice
    <3>1. i + 1 = j + 1 BY <2>5, <2>7
    <3> QED BY <2>4, <3>1
  <2>9. new \notin Held(Rest(free))
    <3>1. \A i \in DOMAIN Rest(free) : i + 1 # 1 BY <2>4
    <3>2. \A i \in DOMAIN Rest(free) : Rest(free)[i] # new BY <2>5, <2>6, <2>7, <3>1
    <3> QED BY <3>2 DEF Held
  <2>10. new \notin IdsOf(list, id) BY <2>3 DEF Numbered, IdsOf
  <2>11. {new} \cup IdsOf(list, id) \cup Held(Rest(free)) = 0 .. n - 1 BY <1>1, <2>3
  <2> QED BY <2>2, <2>3, <2>8, <2>9, <2>10, <2>11
<1> QED BY <1>4, <1>5

\* Adding an element, or taking one away, keeps the ids of the others.
LEMMA NumberGiven ==
  ASSUME NEW A, NEW list \in Seq(A), NEW id, NEW free, Numbered(list, id, free),
         NEW e \in A, e \notin ToSet(list)
  PROVE  Numbered(<<e>> \o list, Over(Entry(e, NewId(list, free)), id), Rest(free))
<1> DEFINE new == NewId(list, free)
           longer == <<e>> \o list
           map == Over(Entry(e, new), id)
<1>1. NoneTwice(list) BY DEF Numbered
<1>2. ToSet(longer) = {e} \cup ToSet(list) /\ NoneTwice(longer) BY <1>1, HeldBehind, HeldIsToSet
<1>3. /\ DOMAIN map = {e} \cup DOMAIN id
      /\ \A f \in DOMAIN map : map[f] = IF f = e THEN new ELSE id[f]
  BY DEF Over, Entry
<1>4. /\ new \in Nat /\ new \notin IdsOf(list, id)
      /\ Rest(free) \in Seq(Nat) /\ NoneTwice(Rest(free))
      /\ new \notin Held(Rest(free)) /\ Held(Rest(free)) \subseteq Held(free)
      /\ \E n \in Nat : {new} \cup IdsOf(list, id) \cup Held(Rest(free)) = 0 .. n - 1
  BY NewIdIsNew
<1> HIDE DEF new, longer, map
<1>5. map[e] = new /\ \A f \in ToSet(list) : map[f] = id[f] BY <1>3 DEF Numbered
<1>6. \A f \in ToSet(list) : id[f] # new BY <1>4 DEF IdsOf
<1>7. \A a, b \in ToSet(longer) : map[a] = map[b] => a = b BY <1>2, <1>5, <1>6 DEF Numbered
<1>8. IdsOf(longer, map) = {new} \cup IdsOf(list, id) BY <1>2, <1>5 DEF IdsOf
<1>9. ToSet(longer) \subseteq DOMAIN map BY <1>2, <1>3 DEF Numbered
<1>10. \A f \in ToSet(longer) : map[f] \notin Held(Rest(free)) BY <1>2, <1>4, <1>5 DEF Numbered
<1> QED BY <1>2, <1>4, <1>7, <1>8, <1>9, <1>10 DEF Numbered, longer, map, new

\* The number of an element that is taken away is free again.
LEMMA NumberTaken ==
  ASSUME NEW A, NEW list \in Seq(A), NEW id, NEW free, Numbered(list, id, free), NEW e \in ToSet(list)
  PROVE  Numbered(Among(list, A \ {e}), RestrictDomain(id, LAMBDA x : x # e), <<id[e]>> \o free)
<1> DEFINE shorter == Among(list, A \ {e})
           map == RestrictDomain(id, LAMBDA x : x # e)
           more == <<id[e]>> \o free
<1>1. NoneTwice(list) BY DEF Numbered
<1>2. ToSet(shorter) = ToSet(list) \ {e} /\ NoneTwice(shorter)
  <2>1. Held(shorter) = Held(list) \cap (A \ {e}) BY AmongHolds
  <2>2. ToSet(list) \subseteq A BY DEF ToSet
  <2> QED BY <1>1, <2>1, <2>2, AmongOnce, HeldIsToSet
<1>3. DOMAIN map = DOMAIN id \ {e} /\ \A f \in DOMAIN map : map[f] = id[f] BY DEF RestrictDomain, Restrict
<1> HIDE DEF shorter, map
<1>4. \A f \in ToSet(shorter) : f \in ToSet(list) /\ f # e /\ f \in DOMAIN map /\ map[f] = id[f]
  BY <1>2, <1>3 DEF Numbered
<1>5. id[e] \in IdsOf(list, id) /\ id[e] \notin Held(free) BY DEF IdsOf, Numbered
<1>6. PICK n \in Nat : IdsOf(list, id) \cup Held(free) = 0 .. n - 1 BY DEF Numbered
<1>7. id[e] \in Nat /\ free \in Seq(Nat) /\ NoneTwice(free) BY <1>5, <1>6 DEF Numbered
<1>8. more \in Seq(Nat) /\ Held(more) = {id[e]} \cup Held(free) /\ NoneTwice(more) BY <1>5, <1>7, HeldBehind
<1> HIDE DEF more
<1>9. IdsOf(list, id) = {id[e]} \cup IdsOf(shorter, map) BY <1>2, <1>4 DEF IdsOf
<1>10. IdsOf(shorter, map) \cup Held(more) = 0 .. n - 1 BY <1>6, <1>8, <1>9
<1>11. \A a, b \in ToSet(shorter) : map[a] = map[b] => a = b BY <1>4 DEF Numbered
<1>12. \A f \in ToSet(shorter) : map[f] \notin Held(more) BY <1>4, <1>8 DEF Numbered
<1>13. ToSet(shorter) \subseteq DOMAIN map BY <1>4
<1> QED BY <1>2, <1>6, <1>8, <1>10, <1>11, <1>12, <1>13 DEF Numbered, shorter, map, more

\* Lemon numbers what it is given from the last on.
LEMMA NumberFirst ==
  ASSUME NEW A, NEW list \in Seq(A), NoneTwice(list)
  PROVE  Numbered(list, [x \in ToSet(list) |-> Len(list) - Place(list, x)], <<>>)
<1> DEFINE id == [x \in ToSet(list) |-> Len(list) - Place(list, x)]
           n == Len(list)
<1>1. n \in Nat /\ DOMAIN list = 1 .. n OBVIOUS
<1>2. \A x \in ToSet(list) : Place(list, x) \in 1 .. n /\ list[Place(list, x)] = x
  <2> TAKE x \in ToSet(list)
  <2>1. \E i \in DOMAIN list : list[i] = x BY DEF ToSet
  <2> QED BY <1>1, <2>1 DEF Place
<1>3. \A i \in 1 .. n : list[i] \in ToSet(list) /\ Place(list, list[i]) = i
  <2> TAKE i \in 1 .. n
  <2>1. list[i] \in ToSet(list) BY <1>1 DEF ToSet
  <2> QED BY <1>1, <1>2, <2>1 DEF NoneTwice
<1>4. \A x \in ToSet(list) : id[x] = n - Place(list, x) OBVIOUS
<1> HIDE DEF n
<1>5. DOMAIN id = ToSet(list) OBVIOUS
<1> HIDE DEF id
<1>6. Held(<<>>) = {} /\ NoneTwice(<<>>) /\ <<>> \in Seq(Nat) BY DEF Held, NoneTwice
<1>7. \A x, y \in ToSet(list) : id[x] = id[y] => x = y
  <2> SUFFICES ASSUME NEW x \in ToSet(list), NEW y \in ToSet(list), id[x] = id[y] PROVE x = y OBVIOUS
  <2>1. n - Place(list, x) = n - Place(list, y) BY <1>4
  <2>2. Place(list, x) = Place(list, y) BY <1>1, <1>2, <2>1
  <2> QED BY <1>2, <2>2
<1>8. IdsOf(list, id) = 0 .. n - 1
  <2>1. \A x \in ToSet(list) : id[x] \in 0 .. n - 1
    <3> TAKE x \in ToSet(list)
    <3>1. id[x] = n - Place(list, x) BY <1>4
    <3> QED BY <1>1, <1>2, <3>1
  <2>2. \A z \in 0 .. n - 1 : \E x \in ToSet(list) : id[x] = z
    <3> TAKE z \in 0 .. n - 1
    <3>1. n - z \in 1 .. n /\ n - (n - z) = z BY <1>1
    <3>2. id[list[n - z]] = n - (n - z) BY <1>3, <1>4, <3>1
    <3> QED BY <1>3, <3>1, <3>2
  <2> QED BY <2>1, <2>2 DEF IdsOf
<1>9. IdsOf(list, id) \cup Held(<<>>) = 0 .. n - 1 BY <1>6, <1>8
<1> QED BY <1>1, <1>5, <1>6, <1>7, <1>9 DEF Numbered, id, n

\* The edges of a graph, and its vertices.
IdsOnce(g) == Numbered(g.edges, g.eid, g.freeArcs)
NodeIdsOnce(g) == Numbered(g.vertices, g.vid, g.freeNodes) /\ DOMAIN g.vid \subseteq Vertices

\* Ids stay different with a new edge,
LEMMA IdsWithEdge ==
  ASSUME NEW g, HasEnds(g), NEW e \in Edges
  PROVE  /\ IdsOnce(g) /\ e \notin ToSet(g.edges) => IdsOnce(WithEdge(g, e))
         /\ NodeIdsOnce(g) => NodeIdsOnce(WithEdge(g, e))
<1> DEFINE h == WithEdge(g, e)
<1>1. /\ h.edges = <<e>> \o g.edges /\ h.freeArcs = Rest(g.freeArcs)
      /\ h.eid = Over(Entry(e, NewId(g.edges, g.freeArcs)), g.eid)
      /\ h.vertices = g.vertices /\ h.vid = g.vid /\ h.freeNodes = g.freeNodes
  BY DEF WithEdge, HasEnds
<1> HIDE DEF h
<1>2. IdsOnce(g) /\ e \notin ToSet(g.edges) => IdsOnce(h)
  <2>1. IdsOnce(g) /\ e \notin ToSet(g.edges) =>
          Numbered(<<e>> \o g.edges, Over(Entry(e, NewId(g.edges, g.freeArcs)), g.eid), Rest(g.freeArcs))
    BY NumberGiven DEF IdsOnce, HasEnds
  <2> QED BY <1>1, <2>1 DEF IdsOnce
<1>3. NodeIdsOnce(g) => NodeIdsOnce(h) BY <1>1 DEF NodeIdsOnce
<1> QED BY <1>2, <1>3 DEF h

\* with a new vertex,
LEMMA IdsWithVertex ==
  ASSUME NEW g, HasEnds(g), NEW v
  PROVE  /\ IdsOnce(g) => IdsOnce(WithVertex(g, v))
         /\ NodeIdsOnce(g) /\ v \in Vertices /\ v \notin ToSet(g.vertices) => NodeIdsOnce(WithVertex(g, v))
<1> DEFINE h == WithVertex(g, v)
<1>1. /\ h.edges = g.edges /\ h.freeArcs = g.freeArcs /\ h.eid = g.eid
      /\ h.vertices = <<v>> \o g.vertices /\ h.freeNodes = Rest(g.freeNodes)
      /\ h.vid = Over(Entry(v, NewId(g.vertices, g.freeNodes)), g.vid)
  BY DEF WithVertex, HasEnds
<1> HIDE DEF h
<1>2. IdsOnce(g) => IdsOnce(h) BY <1>1 DEF IdsOnce
<1>3. ASSUME NodeIdsOnce(g), v \in Vertices, v \notin ToSet(g.vertices) PROVE NodeIdsOnce(h)
  <2>1. Numbered(<<v>> \o g.vertices, Over(Entry(v, NewId(g.vertices, g.freeNodes)), g.vid), Rest(g.freeNodes))
    BY <1>3, NumberGiven DEF NodeIdsOnce, HasEnds
  <2>2. DOMAIN h.vid = {v} \cup DOMAIN g.vid BY <1>1 DEF Over, Entry
  <2> QED BY <1>1, <1>3, <2>1, <2>2 DEF NodeIdsOnce
<1> QED BY <1>2, <1>3 DEF h

\* without an edge,
LEMMA IdsWithoutEdge ==
  ASSUME NEW g, HasEnds(g), NEW e \in ToSet(g.edges)
  PROVE  /\ IdsOnce(g) => IdsOnce(WithoutEdge(g, e))
         /\ NodeIdsOnce(g) => NodeIdsOnce(WithoutEdge(g, e))
<1> DEFINE h == WithoutEdge(g, e)
<1>1. /\ h.edges = Among(g.edges, Edges \ {e}) /\ h.freeArcs = <<g.eid[e]>> \o g.freeArcs
      /\ h.eid = RestrictDomain(g.eid, LAMBDA x : x # e)
      /\ h.vertices = g.vertices /\ h.vid = g.vid /\ h.freeNodes = g.freeNodes
  BY DEF WithoutEdge, HasEnds
<1> HIDE DEF h
<1>2. ASSUME IdsOnce(g) PROVE IdsOnce(h)
  <2>1. Numbered(Among(g.edges, Edges \ {e}), RestrictDomain(g.eid, LAMBDA x : x # e),
                 <<g.eid[e]>> \o g.freeArcs)
    BY <1>2, NumberTaken DEF IdsOnce, HasEnds
  <2> QED BY <1>1, <2>1 DEF IdsOnce
<1>3. NodeIdsOnce(g) => NodeIdsOnce(h) BY <1>1 DEF NodeIdsOnce
<1> QED BY <1>2, <1>3 DEF h

\* The ids of the edges that leave with a vertex are the ones that are freed.
LEMMA IdsLastFirst ==
  ASSUME NEW g, HasEnds(g), IdsOnce(g), NEW arcs \in Seq(Edges), NoneTwice(arcs),
         Held(arcs) \subseteq ToSet(g.edges)
  PROVE  /\ LastFirst(g, arcs) \in Seq(Nat) /\ NoneTwice(LastFirst(g, arcs))
         /\ Held(LastFirst(g, arcs)) = {g.eid[e] : e \in Held(arcs)}
<1> DEFINE ids == LastFirst(g, arcs)
           n == Len(arcs)
<1>1. n \in Nat /\ DOMAIN arcs = 1 .. n OBVIOUS
<1>2. \A e \in Held(arcs) : g.eid[e] \in Nat
  <2>1. PICK k \in Nat : LiveIds(g) \cup Held(g.freeArcs) = 0 .. k - 1 BY DEF IdsOnce, Numbered, IdsOf, LiveIds
  <2>2. \A e \in Held(arcs) : g.eid[e] \in LiveIds(g) BY DEF LiveIds
  <2> QED BY <2>1, <2>2
<1>3. \A i \in 1 .. n : n + 1 - i \in 1 .. n /\ n + 1 - (n + 1 - i) = i BY <1>1
<1>4. ids = [i \in 1 .. n |-> g.eid[arcs[n + 1 - i]]] BY <1>1 DEF LastFirst
<1> HIDE DEF ids, n
<1>5. \A i \in 1 .. n : arcs[i] \in Held(arcs) BY <1>1 DEF Held
<1>6. ids \in Seq(Nat) /\ DOMAIN ids = 1 .. n
  <2>1. ids \in [1 .. n -> Nat] BY <1>2, <1>3, <1>4, <1>5
  <2> QED BY <1>1, <2>1, <1>4, SeqDef
<1>7. \A i, j \in 1 .. n : g.eid[arcs[i]] = g.eid[arcs[j]] => i = j
  <2>1. \A i, j \in 1 .. n : arcs[i] = arcs[j] => i = j BY <1>1 DEF NoneTwice
  <2>2. \A a, b \in Held(arcs) : g.eid[a] = g.eid[b] => a = b BY DEF IdsOnce, Numbered, IdsOf, LiveIds
  <2> QED BY <1>5, <2>1, <2>2
<1>8. NoneTwice(ids)
  <2> SUFFICES ASSUME NEW i \in 1 .. n, NEW j \in 1 .. n, ids[i] = ids[j] PROVE i = j
    BY <1>6 DEF NoneTwice
  <2>1. n + 1 - i = n + 1 - j BY <1>3, <1>4, <1>7
  <2> QED BY <1>1, <2>1
<1>9. Held(ids) = {g.eid[e] : e \in Held(arcs)}
  <2>1. ASSUME NEW i \in 1 .. n PROVE ids[i] \in {g.eid[e] : e \in Held(arcs)}
    BY <1>3, <1>4, <1>5
  <2>2. ASSUME NEW e \in Held(arcs) PROVE \E i \in 1 .. n : ids[i] = g.eid[e]
    <3>1. PICK i \in 1 .. n : arcs[i] = e BY <1>1 DEF Held
    <3>2. ids[n + 1 - i] = g.eid[arcs[i]] BY <1>3, <1>4
    <3> QED BY <1>3, <3>1, <3>2
  <2> QED BY <1>6, <2>1, <2>2 DEF Held
<1> QED BY <1>6, <1>8, <1>9 DEF ids

\* and without a vertex: those of nodes,
LEMMA NodeIdsWithoutVertex ==
  ASSUME NEW g, HasEnds(g), NodeIdsOnce(g), NEW v \in ToSet(g.vertices)
  PROVE  NodeIdsOnce(WithoutVertex(g, v))
<1> DEFINE h == WithoutVertex(g, v)
<1>1. /\ h.vertices = Among(g.vertices, Vertices \ {v}) /\ h.freeNodes = <<g.vid[v]>> \o g.freeNodes
      /\ h.vid = RestrictDomain(g.vid, LAMBDA x : x # v)
  BY DEF WithoutVertex, HasEnds
<1> HIDE DEF h
<1>2. Numbered(Among(g.vertices, Vertices \ {v}), RestrictDomain(g.vid, LAMBDA x : x # v),
               <<g.vid[v]>> \o g.freeNodes)
  BY NumberTaken DEF NodeIdsOnce, HasEnds
<1>3. DOMAIN RestrictDomain(g.vid, LAMBDA x : x # v) \subseteq DOMAIN g.vid BY DEF RestrictDomain, Restrict
<1>4. NodeIdsOnce(h) BY <1>1, <1>2, <1>3 DEF NodeIdsOnce
<1> QED BY <1>4 DEF h

\* and all of them.
LEMMA IdsWithoutVertex ==
  ASSUME NEW g, HasEnds(g), IdsOnce(g), NEW v
  PROVE  IdsOnce(WithoutVertex(g, v))
<1> DEFINE h == WithoutVertex(g, v)
           stay == {e \in Edges : v \notin ToSet(EdgeEnds[e])}
           out == {e \in Edges : EdgeEnds[e][1] = v}
           in == {e \in Edges : EdgeEnds[e][2] = v /\ EdgeEnds[e][1] # v}
           arcs == ArcsOf(g, v)
           es == ToSet(g.edges)
<1>1. /\ h.edges = Among(g.edges, stay) /\ h.freeArcs = LastFirst(g, arcs) \o g.freeArcs /\ h.eid = g.eid
  BY DEF WithoutVertex, HasEnds
<1>2. g.edges \in Seq(Edges) /\ NoneTwice(g.edges) /\ Held(g.edges) = es /\ es \subseteq Edges
  BY HeldIsToSet DEF HasEnds, IdsOnce, Numbered, IdsOf, ToSet, LiveIds
<1>3. \A e \in Edges : e \in stay <=> e \notin out /\ e \notin in BY EndsAre
<1>4. out \cap in = {} OBVIOUS
<1>5. arcs = Among(g.edges, out) \o Among(g.edges, in) BY DEF ArcsOf
<1> HIDE DEF h, stay, out, in, arcs, es
<1>6. ToSet(h.edges) = es \cap stay /\ NoneTwice(h.edges)
  BY <1>1, <1>2, AmongHolds, AmongOnce, HeldIsToSet
<1>7. arcs \in Seq(Edges) /\ Held(arcs) = es \ stay /\ NoneTwice(arcs)
  <2>1. /\ Among(g.edges, out) \in Seq(Edges) /\ Among(g.edges, in) \in Seq(Edges)
        /\ Held(Among(g.edges, out)) = es \cap out /\ Held(Among(g.edges, in)) = es \cap in
        /\ NoneTwice(Among(g.edges, out)) /\ NoneTwice(Among(g.edges, in))
    BY <1>2, AmongHolds, AmongOnce
  <2>2. Held(Among(g.edges, out)) \cap Held(Among(g.edges, in)) = {} BY <1>4, <2>1
  <2>3. arcs \in Seq(Edges) /\ Held(arcs) = (es \cap out) \cup (es \cap in) /\ NoneTwice(arcs)
    BY <1>5, <2>1, <2>2, HeldTogether
  <2> QED BY <1>2, <1>3, <2>3
<1>8. /\ LastFirst(g, arcs) \in Seq(Nat) /\ NoneTwice(LastFirst(g, arcs))
      /\ Held(LastFirst(g, arcs)) = {g.eid[e] : e \in es \ stay}
  BY <1>7, IdsLastFirst DEF es
<1>9. \A e \in es : e \in DOMAIN g.eid /\ g.eid[e] \notin Held(g.freeArcs) BY DEF IdsOnce, Numbered, IdsOf, es, LiveIds
<1>10. \A e, f \in es : g.eid[e] = g.eid[f] => e = f BY DEF IdsOnce, Numbered, IdsOf, es, LiveIds
<1>11. /\ h.freeArcs \in Seq(Nat) /\ NoneTwice(h.freeArcs)
       /\ Held(h.freeArcs) = {g.eid[e] : e \in es \ stay} \cup Held(g.freeArcs)
  <2>1. Held(LastFirst(g, arcs)) \cap Held(g.freeArcs) = {} BY <1>8, <1>9
  <2>2. g.freeArcs \in Seq(Nat) /\ NoneTwice(g.freeArcs) BY DEF IdsOnce, Numbered, IdsOf, LiveIds
  <2> QED BY <1>1, <1>8, <2>1, <2>2, HeldTogether
<1>12. LiveIds(h) \cup Held(h.freeArcs) = LiveIds(g) \cup Held(g.freeArcs)
  <2>1. LiveIds(h) = {g.eid[e] : e \in es \cap stay} BY <1>1, <1>6 DEF LiveIds
  <2>2. LiveIds(g) = {g.eid[e] : e \in es} BY DEF LiveIds, es
  <2> QED BY <1>11, <2>1, <2>2
<1>13. \A e \in ToSet(h.edges) : h.eid[e] \notin Held(h.freeArcs) BY <1>1, <1>6, <1>9, <1>10, <1>11
<1>14. \E n \in Nat : LiveIds(h) \cup Held(h.freeArcs) = 0 .. n - 1 BY <1>12 DEF IdsOnce, Numbered, IdsOf, LiveIds
<1> QED BY <1>1, <1>6, <1>9, <1>10, <1>11, <1>13, <1>14 DEF IdsOnce, Numbered, IdsOf, h, LiveIds

\* The graph that holds all elements, listed once each.
LEMMA ListOfSet ==
  ASSUME NEW S, IsFiniteSet(S)
  PROVE  SetToSeq(S) \in Seq(S) /\ ToSet(SetToSeq(S)) = S /\ NoneTwice(SetToSeq(S))
<1> DEFINE n == Cardinality(S)
           list == SetToSeq(S)
<1>1. n \in Nat BY FS_CardinalityType
<1>2. \E f \in [1 .. n -> S] : IsInjective(f) /\ \A x \in S : \E i \in 1 .. n : f[i] = x
  <2>1. PICK m \in Nat : ExistsBijection(1 .. m, S) BY FS_NatBijection
  <2> HIDE DEF n
  <2>2. m = n BY <2>1, FS_CountingElements DEF n
  <2>3. PICK f : f \in Bijection(1 .. n, S) BY <2>1, <2>2 DEF ExistsBijection
  <2> QED BY <2>3 DEF Bijection, Injection, Surjection, IsInjective
<1>3. list \in [1 .. n -> S] /\ IsInjective(list) BY <1>2 DEF SetToSeq
<1> HIDE DEF list
<1>4. list \in Seq(S) BY <1>1, <1>3, SeqDef
<1>5. NoneTwice(list) BY <1>3 DEF NoneTwice, IsInjective
<1>6. \A x \in S : \E i \in 1 .. n : list[i] = x
  <2>1. list \in Injection(1 .. n, S) BY <1>3 DEF Injection, IsInjective
  <2>2. Cardinality(1 .. n) = n
    <3>1. Cardinality(1 .. n) = IF 1 > n THEN 0 ELSE n - 1 + 1 BY <1>1, FS_Interval
    <3> QED BY <1>1, <3>1
  <2>3. list \in Surjection(1 .. n, S) BY <2>1, <2>2, FS_Injection
  <2> QED BY <2>3 DEF Surjection
<1> QED BY <1>3, <1>4, <1>5, <1>6 DEF ToSet, list

\* The graph of all elements has ids that differ.
LEMMA GraphOfAll ==
  LET g == GraphOf(SetToSeq(Vertices), SetToSeq(Edges)) IN HasEnds(g) /\ IdsOnce(g)
<1> DEFINE vs == SetToSeq(Vertices)
           es == SetToSeq(Edges)
           g == GraphOf(vs, es)
<1>1. vs \in Seq(Vertices) /\ ToSet(vs) = Vertices BY ElementsAssumption, ListOfSet
<1>2. es \in Seq(Edges) /\ ToSet(es) = Edges /\ NoneTwice(es) BY ElementsAssumption, ListOfSet
<1> HIDE DEF vs, es
<1>3. /\ {"vertices", "edges", "vid", "eid", "freeNodes", "freeArcs"} \subseteq DOMAIN g
      /\ g.vertices = vs /\ g.edges = es /\ g.freeArcs = <<>>
      /\ g.eid = [e \in ToSet(es) |-> Len(es) - Place(es, e)]
  BY DEF GraphOf
<1> HIDE DEF g
<1>4. HasEnds(g) BY <1>1, <1>2, <1>3, EndsAre DEF HasEnds
<1>5. Numbered(es, [e \in ToSet(es) |-> Len(es) - Place(es, e)], <<>>) BY <1>2, NumberFirst
<1>6. IdsOnce(g) BY <1>3, <1>5 DEF IdsOnce
<1> QED BY <1>4, <1>6 DEF g, vs, es

-----------------------------------------------------------------------------
(* Copies.                                                                     *)

IsCopy(c) ==
  c = [mNodes |-> c.mNodes, mEdges |-> c.mEdges, nodes |-> c.nodes, edges |-> c.edges,
       mpContext |-> c.mpContext, mAppliedLayout |-> c.mAppliedLayout, laidOut |-> c.laidOut,
       thrown |-> c.thrown, crashed |-> c.crashed]

\* Elements are in the maps under the id that is part of their name; what the
\* maps hold is in graphviz, and they hold all its nodes.
Sound(c) ==
  /\ IsCopy(c) /\ IsFiniteSet(DOMAIN c.mNodes)
  /\ \A id \in DOMAIN c.mNodes : c.mNodes[id][2] = id
  /\ c.nodes = Range(c.mNodes)
  /\ \A id \in DOMAIN c.mEdges : c.mEdges[id].name[2] = id
  /\ Range(c.mEdges) \subseteq c.edges

\* d is what calls made of c: it has edges of c's, under ids in new also others.
\* When c's map held all edges, an edge that is not in d's had its place taken.
Follows(c, d, new) ==
  /\ Sound(d)
  /\ \A id \in DOMAIN d.mEdges : id \in new \/ (id \in DOMAIN c.mEdges /\ d.mEdges[id] = c.mEdges[id])
  /\ c.edges = Range(c.mEdges) =>
       \A edge \in d.edges :
          \/ edge \in Range(d.mEdges)
          \/ \E id \in DOMAIN c.mEdges \cap DOMAIN d.mEdges :
                 c.mEdges[id] = edge /\ d.mEdges[id] # edge

\* A sound copy follows itself.
LEMMA FollowsItself ==
  ASSUME NEW c, Sound(c)
  PROVE  Follows(c, c, {})
BY DEF Follows

\* Calls that leave the elements alone.
LEMMA SameElements ==
  ASSUME NEW c, NEW new, NEW d, Follows(c, d, new), NEW e, IsCopy(e),
         e.mNodes = d.mNodes, e.nodes = d.nodes, e.mEdges = d.mEdges, e.edges = d.edges
  PROVE  Follows(c, e, new)
BY DEF Follows, Sound

\* Removing edges by their ids.
LEMMA RemoveEdgeIdsFollows ==
  ASSUME NEW c, NEW d, Follows(c, d, {}), NEW ids, ids \subseteq DOMAIN d.mEdges
  PROVE  Follows(c, RemoveEdgeIds(d, ids), {})
<1> DEFINE e == RemoveEdgeIds(d, ids)
           map == RestrictDomain(d.mEdges, LAMBDA id : id \notin ids)
           gone == {d.mEdges[id] : id \in ids}
<1>1. /\ IsCopy(e) /\ e.mNodes = d.mNodes /\ e.nodes = d.nodes
      /\ e.mEdges = map /\ e.edges = d.edges \ gone
  <2>1. e = [d EXCEPT !.edges = d.edges \ gone, !.mEdges = map] BY DEF RemoveEdgeIds
  <2> HIDE DEF e, map, gone
  <2>2. IsCopy(d) BY DEF Follows, Sound
  <2> QED BY <2>1, <2>2 DEF IsCopy
<1>2. DOMAIN map = DOMAIN d.mEdges \ ids /\ \A id \in DOMAIN map : map[id] = d.mEdges[id]
  BY DEF RestrictDomain, Restrict
<1> HIDE DEF e, map
<1>3. \A id \in DOMAIN d.mEdges : d.mEdges[id].name[2] = id BY DEF Follows, Sound
<1>4. \A id \in DOMAIN map : map[id] \in d.edges /\ map[id] \notin gone
  <2> TAKE id \in DOMAIN map
  <2>1. id \in DOMAIN d.mEdges /\ id \notin ids /\ map[id] = d.mEdges[id] BY <1>2
  <2>2. map[id] \in d.edges BY <2>1 DEF Follows, Sound, Range
  <2> QED BY <1>3, <2>1, <2>2
<1>5. Sound(e)
  <2>1. /\ IsFiniteSet(DOMAIN e.mNodes) /\ e.nodes = Range(e.mNodes)
        /\ \A id \in DOMAIN e.mNodes : e.mNodes[id][2] = id
    BY <1>1 DEF Follows, Sound
  <2>2. \A id \in DOMAIN e.mEdges : e.mEdges[id].name[2] = id BY <1>1, <1>2, <1>3
  <2>3. Range(e.mEdges) \subseteq e.edges BY <1>1, <1>4 DEF Range
  <2> QED BY <1>1, <2>1, <2>2, <2>3 DEF Sound
<1>6. \A id \in DOMAIN e.mEdges : id \in DOMAIN c.mEdges /\ e.mEdges[id] = c.mEdges[id]
  BY <1>1, <1>2 DEF Follows
<1>7. ASSUME c.edges = Range(c.mEdges), NEW edge \in e.edges PROVE edge \in Range(e.mEdges)
  <2>1. edge \in Range(d.mEdges) BY <1>1, <1>7 DEF Follows
  <2>2. PICK id \in DOMAIN d.mEdges : d.mEdges[id] = edge BY <2>1 DEF Range
  <2>3. id \notin ids BY <1>1, <1>7, <2>2
  <2> QED BY <1>1, <1>2, <2>2, <2>3 DEF Range
<1> QED BY <1>5, <1>6, <1>7 DEF Follows, e

\* Removing a node takes its edges out of the map, or throws.
LEMMA RemoveNodeFollows ==
  ASSUME NEW c, NEW d, Follows(c, d, {}), NEW id, NEW e \in RemoveNodeIfThere(d, id)
  PROVE  Follows(c, e, {}) /\ (e.thrown \/ id \notin DOMAIN e.mNodes)
<1> DEFINE listed == AtNode(d, d.mNodes[id])
           ids == UNION {IdOf(d, edge) : edge \in listed}
           again == {x \in ids : Cardinality({edge \in listed : x \in IdOf(d, edge)}) > 1}
<1>1. ids \subseteq DOMAIN d.mEdges BY DEF IdOf
<1>2. CASE id \notin DOMAIN d.mNodes
  <2>1. e = d BY <1>2 DEF RemoveNodeIfThere
  <2> QED BY <1>2, <2>1
<1>3. CASE id \in DOMAIN d.mNodes
  <2>1. e \in RemoveNodeId(d, id) BY <1>3 DEF RemoveNodeIfThere
  <2>2. \/ e = Throw(d) \/ e = Forget(RemoveEdgeIds(d, ids), id)
        \/ \E some \in SUBSET ids : e = Throw(RemoveEdgeIds(d, some))
    BY <2>1 DEF RemoveNodeId
  <2>3. ASSUME NEW f, Follows(c, f, {}), e = Throw(f) PROVE Follows(c, e, {}) /\ e.thrown
    <3>1. /\ IsCopy(e) /\ e.mNodes = f.mNodes /\ e.nodes = f.nodes
          /\ e.mEdges = f.mEdges /\ e.edges = f.edges /\ e.thrown
      BY <2>3 DEF Throw, IsCopy, Follows, Sound
    <3> QED BY <2>3, <3>1, SameElements
  <2>4. CASE e = Throw(d) BY <2>3, <2>4
  <2>5. CASE \E some \in SUBSET ids : e = Throw(RemoveEdgeIds(d, some))
    <3>1. PICK some \in SUBSET ids : e = Throw(RemoveEdgeIds(d, some)) BY <2>5
    <3>2. some \subseteq DOMAIN d.mEdges BY <1>1
    <3>3. Follows(c, RemoveEdgeIds(d, some), {}) BY <3>2, RemoveEdgeIdsFollows
    <3> QED BY <2>3, <3>1, <3>3
  <2>6. CASE e = Forget(RemoveEdgeIds(d, ids), id)
    <3> DEFINE f == RemoveEdgeIds(d, ids)
               node == f.mNodes[id]
               map == RestrictDomain(f.mNodes, LAMBDA x : x # id)
    <3>1. Follows(c, f, {}) BY <1>1, RemoveEdgeIdsFollows
    <3>2. f.mNodes = d.mNodes /\ f.mEdges = RestrictDomain(d.mEdges, LAMBDA x : x \notin ids)
          /\ f.edges = d.edges \ {d.mEdges[x] : x \in ids}
      <4>1. IsCopy(d) BY DEF Follows, Sound
      <4> DEFINE kept == RestrictDomain(d.mEdges, LAMBDA x : x \notin ids)
                 gone == {d.mEdges[x] : x \in ids}
      <4>2. f = [d EXCEPT !.edges = d.edges \ gone, !.mEdges = kept] BY DEF RemoveEdgeIds
      <4> HIDE DEF kept, gone, f
      <4> QED BY <4>1, <4>2 DEF IsCopy, kept, gone
    <3> DEFINE g == AtNode(f, node)
    <3>3. e = [f EXCEPT !.edges = f.edges \ g, !.nodes = f.nodes \ {node},
                        !.laidOut = f.laidOut \ {node}, !.mNodes = map]
      BY <2>6 DEF Forget
    <3>4. DOMAIN map = DOMAIN d.mNodes \ {id} /\ \A x \in DOMAIN map : map[x] = d.mNodes[x]
      BY <3>2 DEF RestrictDomain, Restrict
    <3>5. DOMAIN f.mEdges = DOMAIN d.mEdges \ ids /\ \A x \in DOMAIN f.mEdges : f.mEdges[x] = d.mEdges[x]
      BY <3>2 DEF RestrictDomain, Restrict
    <3>6. \A x \in DOMAIN f.mEdges : f.mEdges[x] \in f.edges /\ f.mEdges[x] \notin g
      <4> SUFFICES ASSUME NEW x \in DOMAIN f.mEdges, f.mEdges[x] \in g PROVE FALSE
        <5> HIDE DEF f, g
        <5>1. Range(f.mEdges) \subseteq f.edges BY <3>1 DEF Follows, Sound
        <5>2. \A x \in DOMAIN f.mEdges : f.mEdges[x] \in f.edges BY <5>1 DEF Range
        <5> QED BY <5>2
      <4>1. x \in DOMAIN d.mEdges /\ x \notin ids /\ f.mEdges[x] = d.mEdges[x] BY <3>5
      <4>2. d.mEdges[x] \in listed BY <3>2, <4>1 DEF AtNode
      <4>3. x \in IdOf(d, d.mEdges[x]) BY <4>1 DEF IdOf
      <4> QED BY <4>1, <4>2, <4>3
    <3> HIDE DEF map, g, node, f, ids
    <3>7. /\ IsCopy(e) /\ e.edges = f.edges \ g /\ e.nodes = f.nodes \ {node} /\ e.mNodes = map
          /\ e.mEdges = f.mEdges
      <4>1. IsCopy(f) BY <3>1 DEF Follows, Sound
      <4> QED BY <3>3, <4>1 DEF IsCopy
    <3>8. node = d.mNodes[id] BY <3>2 DEF node
    <3>9. /\ IsFiniteSet(DOMAIN d.mNodes) /\ f.nodes = Range(d.mNodes)
          /\ \A x \in DOMAIN d.mNodes : d.mNodes[x][2] = x
      BY <3>1, <3>2 DEF Follows, Sound
    <3>10. e.nodes = Range(e.mNodes)
      <4>1. \A x \in DOMAIN map : map[x] \in f.nodes \ {node}
        <5> TAKE x \in DOMAIN map
        <5>1. x \in DOMAIN d.mNodes /\ x # id /\ map[x] = d.mNodes[x] BY <3>4
        <5>2. d.mNodes[x] \in f.nodes BY <3>9, <5>1 DEF Range
        <5> QED BY <1>3, <3>8, <3>9, <5>1, <5>2
      <4>2. \A n \in f.nodes \ {node} : \E x \in DOMAIN map : map[x] = n
        <5> TAKE n \in f.nodes \ {node}
        <5>1. PICK x \in DOMAIN d.mNodes : d.mNodes[x] = n BY <3>9 DEF Range
        <5> QED BY <3>4, <3>8, <5>1
      <4> QED BY <3>7, <4>1, <4>2 DEF Range
    <3>11. IsFiniteSet(DOMAIN e.mNodes) BY <3>4, <3>7, <3>9, FS_Subset
    <3>12. Sound(e)
      <4>1. \A x \in DOMAIN e.mNodes : e.mNodes[x][2] = x BY <3>4, <3>7, <3>9
      <4>2. \A x \in DOMAIN e.mEdges : e.mEdges[x].name[2] = x BY <3>1, <3>7 DEF Follows, Sound
      <4>3. Range(e.mEdges) \subseteq e.edges BY <3>6, <3>7 DEF Range
      <4> QED BY <3>7, <3>10, <3>11, <4>1, <4>2, <4>3 DEF Sound
    <3>13. \A x \in DOMAIN e.mEdges : x \in DOMAIN c.mEdges /\ e.mEdges[x] = c.mEdges[x]
      BY <3>1, <3>7 DEF Follows
    <3>14. ASSUME c.edges = Range(c.mEdges), NEW edge \in e.edges PROVE edge \in Range(e.mEdges)
      <4>1. edge \in f.edges BY <3>7, <3>14
      <4> QED BY <3>1, <3>7, <3>14, <4>1 DEF Follows
    <3> QED BY <3>4, <3>7, <3>12, <3>13, <3>14 DEF Follows
  <2> QED BY <2>2, <2>4, <2>5, <2>6
<1> QED BY <1>2, <1>3

\* Adding a node.
LEMMA AddNodeFollows ==
  ASSUME NEW c, NEW d, Follows(c, d, {}), NEW v, NEW e \in AddGVNode(d, v)
  PROVE  Follows(c, e, {})
<1> DEFINE id == mpBaseGraph.vid[v]
           node == NodeName(v)
<1>1. PICK f \in RemoveNodeIfThere(d, id) :
        e = IF f.thrown THEN f
            ELSE [f EXCEPT !.mNodes = Over(Entry(id, node), f.mNodes), !.nodes = f.nodes \cup {node}]
  BY DEF AddGVNode, Call
<1>2. Follows(c, f, {}) BY RemoveNodeFollows
<1>3. CASE f.thrown BY <1>1, <1>2, <1>3
<1>4. CASE ~f.thrown
  <2> DEFINE map == Over(Entry(id, node), f.mNodes)
  <2>1. DOMAIN map = {id} \cup DOMAIN f.mNodes
        /\ \A x \in DOMAIN map : map[x] = IF x = id THEN node ELSE f.mNodes[x]
    BY DEF Over, Entry
  <2>2. node[2] = id BY DEF NodeName
  <2> HIDE DEF map, node, id
  <2>3. e = [f EXCEPT !.mNodes = map, !.nodes = f.nodes \cup {node}] BY <1>1, <1>4 DEF map
  <2>4. /\ IsCopy(e) /\ e.mNodes = map /\ e.nodes = f.nodes \cup {node}
        /\ e.edges = f.edges /\ e.mEdges = f.mEdges
    <3>1. IsCopy(f) BY <1>2 DEF Follows, Sound
    <3> QED BY <2>3, <3>1 DEF IsCopy
  <2>5. /\ IsFiniteSet(DOMAIN f.mNodes) /\ f.nodes = Range(f.mNodes)
        /\ \A x \in DOMAIN f.mNodes : f.mNodes[x][2] = x
    BY <1>2 DEF Follows, Sound
  <2>6. id \notin DOMAIN f.mNodes BY <1>1, <1>4, RemoveNodeFollows DEF id
  <2>7. e.nodes = Range(e.mNodes)
    <3>1. \A x \in DOMAIN map : map[x] \in e.nodes BY <2>1, <2>4, <2>5 DEF Range
    <3>2. map[id] = node /\ \A x \in DOMAIN f.mNodes : map[x] = f.mNodes[x] BY <2>1, <2>6
    <3>3. \A n \in e.nodes : \E x \in DOMAIN map : map[x] = n
      <4> TAKE n \in e.nodes
      <4>1. CASE n = node BY <2>1, <3>2, <4>1
      <4>2. CASE n \in f.nodes
        <5>1. PICK x \in DOMAIN f.mNodes : f.mNodes[x] = n BY <2>5, <4>2 DEF Range
        <5> QED BY <2>1, <3>2, <5>1
      <4> QED BY <2>4, <4>1, <4>2
    <3> QED BY <2>4, <3>1, <3>3 DEF Range
  <2>8. Sound(e)
    <3>1. IsFiniteSet(DOMAIN e.mNodes) BY <2>1, <2>4, <2>5, FS_AddElement
    <3>2. \A x \in DOMAIN e.mNodes : e.mNodes[x][2] = x BY <2>1, <2>2, <2>4, <2>5
    <3>3. /\ \A x \in DOMAIN e.mEdges : e.mEdges[x].name[2] = x
          /\ Range(e.mEdges) \subseteq e.edges
      BY <1>2, <2>4 DEF Follows, Sound
    <3> QED BY <2>4, <2>7, <3>1, <3>2, <3>3 DEF Sound
  <2> QED BY <1>2, <2>4, <2>8 DEF Follows
<1> QED BY <1>3, <1>4

\* Adding an edge, under an id that is not among the new ones.
LEMMA AddEdgeFollows ==
  ASSUME NEW c, NEW d, NEW new, Follows(c, d, new), NEW a, mpBaseGraph.eid[a] \notin new,
         NEW e \in AddGVEdge(d, a)
  PROVE  Follows(c, e, new \cup {mpBaseGraph.eid[a]})
<1> DEFINE id == mpBaseGraph.eid[a]
           line == GVEdge(d, a)
           map == Over(Entry(id, line), d.mEdges)
<1>1. IsCopy(d) BY DEF Follows, Sound
<1>2. CASE e = Throw(d)
  <2>1. /\ IsCopy(e) /\ e.mNodes = d.mNodes /\ e.nodes = d.nodes
        /\ e.mEdges = d.mEdges /\ e.edges = d.edges
    BY <1>1, <1>2 DEF Throw, IsCopy
  <2>2. Follows(c, e, new) BY <2>1, SameElements
  <2> QED BY <2>2 DEF Follows
<1>3. CASE e = [d EXCEPT !.edges = d.edges \cup {line}, !.mEdges = map]
  <2>1. line.name[2] = id BY DEF GVEdge, EdgeName
  <2>2. /\ DOMAIN map = {id} \cup DOMAIN d.mEdges
        /\ map[id] = line /\ \A x \in DOMAIN d.mEdges : x # id => map[x] = d.mEdges[x]
    BY DEF Over, Entry
  <2> HIDE DEF map, line, id
  <2>3. /\ IsCopy(e) /\ e.mNodes = d.mNodes /\ e.nodes = d.nodes
        /\ e.edges = d.edges \cup {line} /\ e.mEdges = map
    BY <1>1, <1>3 DEF IsCopy
  <2>4. \A x \in DOMAIN d.mEdges : d.mEdges[x].name[2] = x /\ d.mEdges[x] \in d.edges
    BY DEF Follows, Sound, Range
  <2>5. Sound(e)
    <3>1. /\ IsFiniteSet(DOMAIN e.mNodes) /\ e.nodes = Range(e.mNodes)
          /\ \A x \in DOMAIN e.mNodes : e.mNodes[x][2] = x
      BY <2>3 DEF Follows, Sound
    <3>2. \A x \in DOMAIN map : map[x].name[2] = x /\ map[x] \in e.edges BY <2>1, <2>2, <2>3, <2>4
    <3> QED BY <2>3, <3>1, <3>2 DEF Sound, Range
  <2>6. \A x \in DOMAIN e.mEdges :
          x \in new \cup {id} \/ (x \in DOMAIN c.mEdges /\ e.mEdges[x] = c.mEdges[x])
    BY <2>2, <2>3 DEF Follows
  <2>7. ASSUME c.edges = Range(c.mEdges), NEW edge \in e.edges, edge \notin Range(e.mEdges)
        PROVE  \E x \in DOMAIN c.mEdges \cap DOMAIN e.mEdges : c.mEdges[x] = edge /\ e.mEdges[x] # edge
    <3>1. edge # line /\ edge \in d.edges BY <2>2, <2>3, <2>7 DEF Range
    <3>2. CASE edge \in Range(d.mEdges)
      <4>1. PICK x \in DOMAIN d.mEdges : d.mEdges[x] = edge BY <3>2 DEF Range
      <4>2. x = id BY <2>2, <2>3, <2>7, <4>1 DEF Range
      <4>3. id \in DOMAIN c.mEdges /\ c.mEdges[id] = edge BY <4>1, <4>2 DEF Follows, id
      <4> QED BY <2>2, <2>3, <3>1, <4>3
    <3>3. CASE edge \notin Range(d.mEdges)
      <4>1. PICK x \in DOMAIN c.mEdges \cap DOMAIN d.mEdges : c.mEdges[x] = edge /\ d.mEdges[x] # edge
        BY <2>7, <3>1, <3>3 DEF Follows
      <4>2. x # id BY <4>1 DEF Follows, id
      <4> QED BY <2>2, <2>3, <4>1, <4>2
    <3> QED BY <3>2, <3>3
  <2> QED BY <2>5, <2>6, <2>7 DEF Follows, id
<1> QED BY <1>2, <1>3 DEF AddGVEdge

\* What the calls of a loop have made of a set of copies, one after the other:
\* adding nodes, ...
AddingNodes(k, copies, args) ==
  k = [n \in 0 .. Len(args) |->
         IF n = 0 THEN copies ELSE Call(k[n - 1], LAMBDA c : AddGVNode(c, args[n]))]

\* The nodes of a transaction are added one after another,
LEMMA AddingNodesCalls ==
  ASSUME NEW copies, NEW args, Len(args) \in Nat
  PROVE  \E k : AddingNodes(k, copies, args) /\ CallAll(copies, args, AddGVNode) = k[Len(args)]
<1> DEFINE upto(k, n) == k = [i \in 0 .. n |->
             IF i = 0 THEN copies ELSE Call(k[i - 1], LAMBDA c : AddGVNode(c, args[i]))]
           T == {n \in Nat : \E k : upto(k, n)}
<1>1. 0 \in T
  <2>1. upto([i \in 0 .. 0 |-> copies], 0) OBVIOUS
  <2> QED BY <2>1
<1>2. ASSUME NEW n \in T PROVE n + 1 \in T
  <2>1. PICK k : upto(k, n) BY <1>2
  <2> DEFINE next == Call(k[n], LAMBDA c : AddGVNode(c, args[n + 1]))
             h == [i \in 0 .. n + 1 |-> IF i = n + 1 THEN next ELSE k[i]]
  <2>2. n \in Nat BY <1>2
  <2>3. ASSUME NEW i \in 0 .. n + 1
        PROVE  h[i] = IF i = 0 THEN copies ELSE Call(h[i - 1], LAMBDA c : AddGVNode(c, args[i]))
    <3>1. CASE i = n + 1
      <4>1. i # 0 /\ i - 1 = n /\ i - 1 \in 0 .. n + 1 /\ i - 1 # n + 1 BY <2>2, <3>1
      <4>2. h[i - 1] = k[n] BY <4>1
      <4>3. h[i] = next BY <3>1
      <4> QED BY <3>1, <4>1, <4>2, <4>3
    <3>2. CASE i # n + 1
      <4>1. i \in 0 .. n /\ h[i] = k[i] BY <2>2, <3>2
      <4>2. i # 0 => i - 1 \in 0 .. n + 1 /\ i - 1 # n + 1 BY <2>2, <4>1
      <4>3. i # 0 => h[i - 1] = k[i - 1] BY <4>2
      <4>4. k[i] = IF i = 0 THEN copies ELSE Call(k[i - 1], LAMBDA c : AddGVNode(c, args[i])) BY <2>1, <4>1
      <4> QED BY <4>1, <4>3, <4>4
    <3> QED BY <3>1, <3>2
  <2>4. upto(h, n + 1) BY <2>3
  <2>5. n + 1 \in Nat BY <2>2
  <2> QED BY <2>4, <2>5
<1>3. T = Nat BY <1>1, <1>2, Induction
<1>4. \E k : AddingNodes(k, copies, args) BY <1>3 DEF AddingNodes
<1> DEFINE k == CHOOSE k : AddingNodes(k, copies, args)
<1>5. AddingNodes(k, copies, args) BY <1>4
<1>6. CallAll(copies, args, AddGVNode) = k[Len(args)] BY DEF CallAll, AddingNodes
<1> QED BY <1>5, <1>6

\* ... adding edges, ...
AddingEdges(k, copies, args) ==
  k = [n \in 0 .. Len(args) |->
         IF n = 0 THEN copies ELSE Call(k[n - 1], LAMBDA c : AddGVEdge(c, args[n]))]

\* then its edges,
LEMMA AddingEdgesCalls ==
  ASSUME NEW copies, NEW args, Len(args) \in Nat
  PROVE  \E k : AddingEdges(k, copies, args) /\ CallAll(copies, args, AddGVEdge) = k[Len(args)]
<1> DEFINE upto(k, n) == k = [i \in 0 .. n |->
             IF i = 0 THEN copies ELSE Call(k[i - 1], LAMBDA c : AddGVEdge(c, args[i]))]
           T == {n \in Nat : \E k : upto(k, n)}
<1>1. 0 \in T
  <2>1. upto([i \in 0 .. 0 |-> copies], 0) OBVIOUS
  <2> QED BY <2>1
<1>2. ASSUME NEW n \in T PROVE n + 1 \in T
  <2>1. PICK k : upto(k, n) BY <1>2
  <2> DEFINE next == Call(k[n], LAMBDA c : AddGVEdge(c, args[n + 1]))
             h == [i \in 0 .. n + 1 |-> IF i = n + 1 THEN next ELSE k[i]]
  <2>2. n \in Nat BY <1>2
  <2>3. ASSUME NEW i \in 0 .. n + 1
        PROVE  h[i] = IF i = 0 THEN copies ELSE Call(h[i - 1], LAMBDA c : AddGVEdge(c, args[i]))
    <3>1. CASE i = n + 1
      <4>1. i # 0 /\ i - 1 = n /\ i - 1 \in 0 .. n + 1 /\ i - 1 # n + 1 BY <2>2, <3>1
      <4>2. h[i - 1] = k[n] BY <4>1
      <4>3. h[i] = next BY <3>1
      <4> QED BY <3>1, <4>1, <4>2, <4>3
    <3>2. CASE i # n + 1
      <4>1. i \in 0 .. n /\ h[i] = k[i] BY <2>2, <3>2
      <4>2. i # 0 => i - 1 \in 0 .. n + 1 /\ i - 1 # n + 1 BY <2>2, <4>1
      <4>3. i # 0 => h[i - 1] = k[i - 1] BY <4>2
      <4>4. k[i] = IF i = 0 THEN copies ELSE Call(k[i - 1], LAMBDA c : AddGVEdge(c, args[i])) BY <2>1, <4>1
      <4> QED BY <4>1, <4>3, <4>4
    <3> QED BY <3>1, <3>2
  <2>4. upto(h, n + 1) BY <2>3
  <2>5. n + 1 \in Nat BY <2>2
  <2> QED BY <2>4, <2>5
<1>3. T = Nat BY <1>1, <1>2, Induction
<1>4. \E k : AddingEdges(k, copies, args) BY <1>3 DEF AddingEdges
<1> DEFINE k == CHOOSE k : AddingEdges(k, copies, args)
<1>5. AddingEdges(k, copies, args) BY <1>4
<1>6. CallAll(copies, args, AddGVEdge) = k[Len(args)] BY DEF CallAll, AddingEdges
<1> QED BY <1>5, <1>6

\* ... and removing nodes.
RemovingNodes(k, copies, args) ==
  k = [n \in 0 .. Len(args) |->
         IF n = 0 THEN copies ELSE Call(k[n - 1], LAMBDA c : RemoveFirstNode(c, args[n]))]

\* and its nodes removed one after another.
LEMMA RemovingNodesCalls ==
  ASSUME NEW copies, NEW args, Len(args) \in Nat
  PROVE  \E k : RemovingNodes(k, copies, args) /\ CallAll(copies, args, RemoveFirstNode) = k[Len(args)]
<1> DEFINE upto(k, n) == k = [i \in 0 .. n |->
             IF i = 0 THEN copies ELSE Call(k[i - 1], LAMBDA c : RemoveFirstNode(c, args[i]))]
           T == {n \in Nat : \E k : upto(k, n)}
<1>1. 0 \in T
  <2>1. upto([i \in 0 .. 0 |-> copies], 0) OBVIOUS
  <2> QED BY <2>1
<1>2. ASSUME NEW n \in T PROVE n + 1 \in T
  <2>1. PICK k : upto(k, n) BY <1>2
  <2> DEFINE next == Call(k[n], LAMBDA c : RemoveFirstNode(c, args[n + 1]))
             h == [i \in 0 .. n + 1 |-> IF i = n + 1 THEN next ELSE k[i]]
  <2>2. n \in Nat BY <1>2
  <2>3. ASSUME NEW i \in 0 .. n + 1
        PROVE  h[i] = IF i = 0 THEN copies ELSE Call(h[i - 1], LAMBDA c : RemoveFirstNode(c, args[i]))
    <3>1. CASE i = n + 1
      <4>1. i # 0 /\ i - 1 = n /\ i - 1 \in 0 .. n + 1 /\ i - 1 # n + 1 BY <2>2, <3>1
      <4>2. h[i - 1] = k[n] BY <4>1
      <4>3. h[i] = next BY <3>1
      <4> QED BY <3>1, <4>1, <4>2, <4>3
    <3>2. CASE i # n + 1
      <4>1. i \in 0 .. n /\ h[i] = k[i] BY <2>2, <3>2
      <4>2. i # 0 => i - 1 \in 0 .. n + 1 /\ i - 1 # n + 1 BY <2>2, <4>1
      <4>3. i # 0 => h[i - 1] = k[i - 1] BY <4>2
      <4>4. k[i] = IF i = 0 THEN copies ELSE Call(k[i - 1], LAMBDA c : RemoveFirstNode(c, args[i])) BY <2>1, <4>1
      <4> QED BY <4>1, <4>3, <4>4
    <3> QED BY <3>1, <3>2
  <2>4. upto(h, n + 1) BY <2>3
  <2>5. n + 1 \in Nat BY <2>2
  <2> QED BY <2>4, <2>5
<1>3. T = Nat BY <1>1, <1>2, Induction
<1>4. \E k : RemovingNodes(k, copies, args) BY <1>3 DEF RemovingNodes
<1> DEFINE k == CHOOSE k : RemovingNodes(k, copies, args)
<1>5. RemovingNodes(k, copies, args) BY <1>4
<1>6. CallAll(copies, args, RemoveFirstNode) = k[Len(args)] BY DEF CallAll, RemovingNodes
<1> QED BY <1>5, <1>6

\* Loops over nodes leave copies that follow, ...
LEMMA AddNodesFollow ==
  ASSUME NEW c, NEW copies, \A d \in copies : Follows(c, d, {}), NEW args, Len(args) \in Nat,
         NEW e \in CallAll(copies, args, AddGVNode)
  PROVE  Follows(c, e, {})
<1>1. PICK k : AddingNodes(k, copies, args) /\ CallAll(copies, args, AddGVNode) = k[Len(args)] BY AddingNodesCalls
<1> DEFINE T == {n \in Nat : n <= Len(args) => \A d \in k[n] : Follows(c, d, {})}
<1>2. 0 \in T
  <2>1. k[0] = copies BY <1>1 DEF AddingNodes
  <2> QED BY <2>1
<1>3. ASSUME NEW n \in T PROVE n + 1 \in T
  <2> SUFFICES ASSUME n + 1 <= Len(args), NEW d \in k[n + 1] PROVE Follows(c, d, {}) BY <1>3
  <2>1. n + 1 \in 0 .. Len(args) /\ n + 1 # 0 /\ (n + 1) - 1 = n /\ n <= Len(args) BY <1>3
  <2>2. k[n + 1] = UNION {IF f.thrown THEN {f} ELSE AddGVNode(f, args[n + 1]) : f \in k[n]}
    BY <1>1, <2>1 DEF AddingNodes, Call
  <2>3. PICK f \in k[n] : d \in IF f.thrown THEN {f} ELSE AddGVNode(f, args[n + 1]) BY <2>2
  <2>4. Follows(c, f, {}) BY <1>3, <2>1
  <2>5. CASE f.thrown BY <2>3, <2>4, <2>5
  <2>6. CASE ~f.thrown BY <2>3, <2>4, <2>6, AddNodeFollows
  <2> QED BY <2>5, <2>6
<1>4. T = Nat BY <1>2, <1>3, Induction
<1>5. Len(args) \in T BY <1>4
<1> QED BY <1>1, <1>5

\* However many are removed, the copy still follows the graph.
LEMMA RemoveNodesFollow ==
  ASSUME NEW c, NEW copies, \A d \in copies : Follows(c, d, {}), NEW args, Len(args) \in Nat,
         NEW e \in CallAll(copies, args, RemoveFirstNode)
  PROVE  Follows(c, e, {})
<1>1. PICK k : RemovingNodes(k, copies, args) /\ CallAll(copies, args, RemoveFirstNode) = k[Len(args)] BY RemovingNodesCalls
<1> DEFINE T == {n \in Nat : n <= Len(args) => \A d \in k[n] : Follows(c, d, {})}
<1>2. 0 \in T
  <2>1. k[0] = copies BY <1>1 DEF RemovingNodes
  <2> QED BY <2>1
<1>3. ASSUME NEW n \in T PROVE n + 1 \in T
  <2> SUFFICES ASSUME n + 1 <= Len(args), NEW d \in k[n + 1] PROVE Follows(c, d, {}) BY <1>3
  <2>1. n + 1 \in 0 .. Len(args) /\ n + 1 # 0 /\ (n + 1) - 1 = n /\ n <= Len(args) BY <1>3
  <2>2. k[n + 1] = UNION {IF f.thrown THEN {f} ELSE RemoveFirstNode(f, args[n + 1]) : f \in k[n]}
    BY <1>1, <2>1 DEF RemovingNodes, Call
  <2>3. PICK f \in k[n] : d \in IF f.thrown THEN {f} ELSE RemoveFirstNode(f, args[n + 1]) BY <2>2
  <2>4. Follows(c, f, {}) BY <1>3, <2>1
  <2>5. CASE f.thrown BY <2>3, <2>4, <2>5
  <2>6. CASE ~f.thrown BY <2>3, <2>4, <2>6, RemoveNodeFollows DEF RemoveFirstNode
  <2> QED BY <2>5, <2>6
<1>4. T = Nat BY <1>2, <1>3, Induction
<1>5. Len(args) \in T BY <1>4
<1> QED BY <1>1, <1>5

\* ... and so does the loop over the edges of the graph, whose ids are distinct.
LEMMA AddEdgesFollow ==
  ASSUME HasEnds(mpBaseGraph), IdsOnce(mpBaseGraph),
         NEW c, NEW copies, \A d \in copies : Follows(c, d, {}),
         NEW e \in CallAll(copies, mpBaseGraph.edges, AddGVEdge)
  PROVE  \E new : Follows(c, e, new)
<1> DEFINE args == mpBaseGraph.edges
           id(i) == mpBaseGraph.eid[args[i]]
           upto(n) == {id(i) : i \in 1 .. n}
<1>0. Len(args) \in Nat /\ DOMAIN args = 1 .. Len(args) BY DEF HasEnds
<1>1. PICK k : AddingEdges(k, copies, args) /\ CallAll(copies, args, AddGVEdge) = k[Len(args)] BY <1>0, AddingEdgesCalls
<1>2. \A i, j \in 1 .. Len(args) : id(i) = id(j) => i = j
  <2>1. \A i \in 1 .. Len(args) : args[i] \in ToSet(args) BY <1>0 DEF ToSet
  <2>2. \A i, j \in 1 .. Len(args) : args[i] = args[j] => i = j BY <1>0 DEF IdsOnce, Numbered, IdsOf, NoneTwice, LiveIds
  <2>3. \A a, b \in ToSet(args) : mpBaseGraph.eid[a] = mpBaseGraph.eid[b] => a = b BY DEF IdsOnce, Numbered, IdsOf, LiveIds
  <2> QED BY <2>1, <2>2, <2>3
<1> DEFINE T == {n \in Nat : n <= Len(args) => \A d \in k[n] : Follows(c, d, upto(n))}
<1>3. 0 \in T
  <2>1. k[0] = copies BY <1>0, <1>1 DEF AddingEdges
  <2>2. upto(0) = {} OBVIOUS
  <2> QED BY <2>1, <2>2
<1>4. ASSUME NEW n \in T PROVE n + 1 \in T
  <2> SUFFICES ASSUME n + 1 <= Len(args), NEW d \in k[n + 1] PROVE Follows(c, d, upto(n + 1)) BY <1>4
  <2>1. /\ n + 1 \in 0 .. Len(args) /\ n + 1 # 0 /\ (n + 1) - 1 = n /\ n <= Len(args) /\ n \in Nat
        /\ n + 1 \in 1 .. Len(args) /\ n + 1 \notin 1 .. n /\ 1 .. n \subseteq 1 .. Len(args)
    BY <1>0, <1>4
  <2>2. k[n + 1] = UNION {IF f.thrown THEN {f} ELSE AddGVEdge(f, args[n + 1]) : f \in k[n]}
    BY <1>1, <2>1 DEF AddingEdges, Call
  <2>3. PICK f \in k[n] : d \in IF f.thrown THEN {f} ELSE AddGVEdge(f, args[n + 1]) BY <2>2
  <2>4. Follows(c, f, upto(n)) BY <1>4, <2>1
  <2>5. upto(n + 1) = upto(n) \cup {id(n + 1)}
    <3>1. 1 .. n + 1 = 1 .. n \cup {n + 1} BY <2>1
    <3> QED BY <3>1
  <2>6. CASE f.thrown
    <3>1. d = f BY <2>3, <2>6
    <3> HIDE DEF upto
    <3>2. Follows(c, d, upto(n) \cup {id(n + 1)}) BY <2>4, <3>1 DEF Follows
    <3> QED BY <2>5, <3>2
  <2>7. CASE ~f.thrown
    <3>1. id(n + 1) \notin upto(n) BY <1>2, <2>1
    <3> DEFINE a == args[n + 1]
    <3>2. d \in AddGVEdge(f, a) BY <2>3, <2>7
    <3> HIDE DEF upto, a
    <3>3. Follows(c, d, upto(n) \cup {mpBaseGraph.eid[a]}) BY <2>4, <3>1, <3>2, AddEdgeFollows DEF a
    <3> QED BY <2>5, <3>3 DEF a
  <2> QED BY <2>6, <2>7
<1>5. T = Nat BY <1>3, <1>4, Induction
<1>6. Len(args) \in T /\ Len(args) <= Len(args) BY <1>0, <1>5
<1>7. Follows(c, e, upto(Len(args))) BY <1>1, <1>6
<1> QED BY <1>7

-----------------------------------------------------------------------------
(* What holds of every copy.                                                   *)
CopyInv ==
  /\ HasEnds(mpBaseGraph) /\ IdsOnce(mpBaseGraph)
  /\ Sound(gv) /\ (~orphaned => gv.edges = Range(gv.mEdges))

\* A call of something that follows leaves such a copy.
LEMMA BecomesKeeps ==
  ASSUME CopyInv, NEW copies, \A d \in copies : \E new : Follows(gv, d, new), Becomes(copies)
  PROVE  CopyInv'
<1>1. PICK d \in copies : /\ gv' = [d EXCEPT !.thrown = FALSE]
                          /\ orphaned' = (orphaned \/ Orphans(gv, d) # {})
  BY DEF Becomes
<1>2. PICK new : Follows(gv, d, new) BY <1>1
<1>3. mpBaseGraph' = mpBaseGraph BY DEF Becomes
<1>4. IsCopy(d) BY <1>2 DEF Follows, Sound
<1>5. /\ IsCopy(gv') /\ gv'.mNodes = d.mNodes /\ gv'.nodes = d.nodes
      /\ gv'.mEdges = d.mEdges /\ gv'.edges = d.edges
  BY <1>1, <1>4 DEF IsCopy
<1>6. Follows(gv, gv', new) BY <1>2, <1>5, SameElements
<1>7. Sound(gv)' BY <1>6 DEF Follows, Sound, IsCopy
<1>8. ASSUME ~orphaned' PROVE gv'.edges = Range(gv'.mEdges)
  <2>1. gv.edges = Range(gv.mEdges) /\ Orphans(gv, d) = {} BY <1>1, <1>8 DEF CopyInv
  <2>2. ASSUME NEW edge \in d.edges PROVE edge \in Range(d.mEdges)
    <3> SUFFICES ASSUME NEW id \in DOMAIN gv.mEdges \cap DOMAIN d.mEdges,
                        gv.mEdges[id] = edge, d.mEdges[id] # edge
                 PROVE  FALSE
      BY <1>2, <2>1 DEF Follows
    <3>1. edge \in Orphans(gv, d) BY DEF Orphans
    <3> QED BY <2>1, <3>1
  <2>3. Range(d.mEdges) \subseteq d.edges BY <1>2 DEF Follows, Sound
  <2>4. d.edges = Range(d.mEdges) BY <2>2, <2>3
  <2> QED BY <1>5, <2>4
<1>9. HasEnds(mpBaseGraph)' /\ IdsOnce(mpBaseGraph)' BY <1>3 DEF CopyInv, HasEnds, IdsOnce, Numbered, IdsOf, LiveIds
<1> QED BY <1>7, <1>8, <1>9 DEF CopyInv, Range

\* Laying out and rendering leave the elements alone.
LEMMA LayoutFollows ==
  ASSUME NEW c, Sound(c)
  PROVE  /\ Follows(c, ApplyGVLayout(c), {})
         /\ \A forced : Follows(c, RenderToFile(c, forced), {})
         /\ Follows(c, Freed(c), {})
<1> DEFINE same(d) == /\ IsCopy(d) /\ d.mNodes = c.mNodes /\ d.nodes = c.nodes
                      /\ d.mEdges = c.mEdges /\ d.edges = c.edges
<1>1. \A d : same(d) => Follows(c, d, {}) BY FollowsItself, SameElements
<1>2. same(c) BY DEF Sound
<1>3. ASSUME NEW d, same(d)
      PROVE  /\ same([d EXCEPT !.mpContext = FALSE, !.laidOut = {}]) /\ same([d EXCEPT !.crashed = TRUE])
             /\ same([d EXCEPT !.mAppliedLayout = TRUE, !.laidOut = c.nodes]) /\ same([d EXCEPT !.thrown = TRUE])
  <2>1. IsCopy(d) BY <1>3
  <2>2. ASSUME NEW e, e = [d EXCEPT !.mpContext = FALSE, !.laidOut = {}] PROVE same(e)
    BY <1>3, <2>1, <2>2 DEF IsCopy
  <2>3. ASSUME NEW e, e = [d EXCEPT !.crashed = TRUE] PROVE same(e)
    BY <1>3, <2>1, <2>3 DEF IsCopy
  <2>4. ASSUME NEW e, e = [d EXCEPT !.mAppliedLayout = TRUE, !.laidOut = c.nodes] PROVE same(e)
    BY <1>3, <2>1, <2>4 DEF IsCopy
  <2>5. ASSUME NEW e, e = [d EXCEPT !.thrown = TRUE] PROVE same(e)
    BY <1>3, <2>1, <2>5 DEF IsCopy
  <2> QED BY <2>2, <2>3, <2>4, <2>5
<1> HIDE DEF same
<1>4. same(Freed(c)) BY <1>2, <1>3 DEF Freed, FreeLayout
<1>5. same(ApplyGVLayout(c)) BY <1>2, <1>3, <1>4 DEF ApplyGVLayout
<1>6. \A forced : same(RenderToFile(c, forced)) BY <1>2, <1>3, <1>5 DEF RenderToFile, Throw
<1> QED BY <1>1, <1>4, <1>5, <1>6

\* Clearing the maps.
LEMMA ClearFollows ==
  ASSUME NEW c, NEW d, Follows(c, d, {})
  PROVE  Follows(c, ClearEdges(d), {}) /\ \A e \in ClearNodes(d) : Follows(c, e, {})
<1>1. Follows(c, ClearEdges(d), {})
  <2>1. DOMAIN d.mEdges \subseteq DOMAIN d.mEdges OBVIOUS
  <2> QED BY <2>1, RemoveEdgeIdsFollows DEF ClearEdges
<1>2. ASSUME NEW e \in ClearNodes(d) PROVE Follows(c, e, {})
  <2> DEFINE n == Cardinality(DOMAIN d.mNodes)
             turns == [i \in 1 .. n |-> i]
  <2>1. n \in Nat BY FS_CardinalityType DEF Follows, Sound
  <2>2. Len(turns) \in Nat
    <3>1. turns \in Seq(Nat) BY <2>1, SeqDef
    <3> HIDE DEF turns
    <3> QED BY <3>1
  <2>3. \A f \in {d} : Follows(c, f, {}) OBVIOUS
  <2>4. e \in CallAll({d}, turns, RemoveFirstNode) BY DEF ClearNodes
  <2> HIDE DEF turns
  <2> QED BY <2>2, <2>3, <2>4, RemoveNodesFollow
<1> QED BY <1>1, <1>2

\* A new copy, of a graph with everything.
LEMMA CopyInitially == GVInit => CopyInv
<1> SUFFICES ASSUME GVInit PROVE CopyInv OBVIOUS
<1>1. HasEnds(mpBaseGraph) /\ IdsOnce(mpBaseGraph) BY GraphOfAll DEF GVInit
<1>2. gv = NewGraph BY DEF GVInit
<1>3. IsCopy(NewGraph) BY DEF IsCopy, NewGraph
<1>4. /\ NewGraph.mNodes = <<>> /\ NewGraph.mEdges = <<>> /\ NewGraph.nodes = {} /\ NewGraph.edges = {}
  BY DEF NewGraph
<1>5. DOMAIN <<>> = {} /\ Range(<<>>) = {} /\ IsFiniteSet({}) BY FS_EmptySet DEF Range
<1> QED BY <1>1, <1>2, <1>3, <1>4, <1>5 DEF CopyInv, Sound

\* Changes of the base graph: nobody tells the copy.
LEMMA EditKeeps == CopyInv /\ EditBase => CopyInv'
<1> SUFFICES ASSUME CopyInv, EditBase PROVE CopyInv' OBVIOUS
<1>1. HasEnds(mpBaseGraph) /\ IdsOnce(mpBaseGraph) BY DEF CopyInv
<1>2. ASSUME NEW h, HasEnds(h), IdsOnce(h), ChangeBase(h) PROVE CopyInv'
  <2>1. gv' = gv /\ orphaned' = orphaned /\ mpBaseGraph' = h BY <1>2 DEF ChangeBase
  <2>2. HasEnds(mpBaseGraph)' /\ IdsOnce(mpBaseGraph)' BY <1>2, <2>1 DEF HasEnds, IdsOnce, Numbered, IdsOf, LiveIds
  <2> QED BY <2>1, <2>2 DEF CopyInv, Sound, IsCopy
<1>3. ASSUME NEW v \in Vertices,
             ChangeBase(IF v \in DOMAIN mpBaseGraph.vid THEN WithoutVertex(mpBaseGraph, v) ELSE WithVertex(mpBaseGraph, v))
      PROVE  CopyInv'
  BY <1>1, <1>2, <1>3, EndsWithVertex, EndsWithoutVertex, IdsWithVertex, IdsWithoutVertex
<1>4. ASSUME NEW e \in Edges, Live(mpBaseGraph, e), ChangeBase(WithoutEdge(mpBaseGraph, e)) PROVE CopyInv'
  BY <1>1, <1>2, <1>4, EndsWithoutEdge, IdsWithoutEdge DEF Live
<1>5. ASSUME NEW e \in Edges, e \notin DOMAIN mpBaseGraph.eid,
             ToSet(EdgeEnds[e]) \subseteq ToSet(mpBaseGraph.vertices), ChangeBase(WithEdge(mpBaseGraph, e))
      PROVE  CopyInv'
  <2>1. e \notin ToSet(mpBaseGraph.edges) BY <1>1, <1>5 DEF IdsOnce, Numbered, IdsOf, LiveIds
  <2> QED BY <1>1, <1>2, <1>5, <2>1, EndsWithEdge, IdsWithEdge
<1>6. ChangeBase(mpBaseGraph) => CopyInv' BY <1>1, <1>2
<1> QED BY <1>3, <1>4, <1>5, <1>6 DEF EditBase

\* Every step keeps the invariant of the copy.
LEMMA CopyKept == CopyInv /\ [GVNext]_gvVars => CopyInv'
<1> SUFFICES ASSUME CopyInv, [GVNext]_gvVars PROVE CopyInv' OBVIOUS
<1>1. HasEnds(mpBaseGraph) /\ IdsOnce(mpBaseGraph) /\ Sound(gv) BY DEF CopyInv
<1>2. Follows(gv, gv, {}) BY <1>1, FollowsItself
<1>3. ASSUME NEW copies, Becomes(copies), \A d \in copies : Follows(gv, d, {}) PROVE CopyInv'
  BY <1>3, BecomesKeeps
<1>4. ASSUME NEW d, Becomes({d}), Follows(gv, d, {}) PROVE CopyInv' BY <1>4, BecomesKeeps
<1>5. ASSUME NEW v, CallNode(v) PROVE CopyInv'
  BY <1>2, <1>3, <1>5, AddNodeFollows, RemoveNodeFollows DEF CallNode
<1>6. ASSUME NEW e, CallEdge(e) PROVE CopyInv'
  <2>1. CASE Becomes(AddGVEdge(gv, e))
    <3>1. \A d \in AddGVEdge(gv, e) : \E new : Follows(gv, d, new)
      <4> TAKE d \in AddGVEdge(gv, e)
      <4>1. mpBaseGraph.eid[e] \notin {} OBVIOUS
      <4> QED BY <1>2, <4>1, AddEdgeFollows
    <3> QED BY <2>1, <3>1, BecomesKeeps
  <2>2. CASE mpBaseGraph.eid[e] \in DOMAIN gv.mEdges /\ Becomes({RemoveEdgeIds(gv, {mpBaseGraph.eid[e]})})
    <3>1. {mpBaseGraph.eid[e]} \subseteq DOMAIN gv.mEdges BY <2>2
    <3>2. Follows(gv, RemoveEdgeIds(gv, {mpBaseGraph.eid[e]}), {}) BY <1>2, <3>1, RemoveEdgeIdsFollows
    <3> QED BY <1>4, <2>2, <3>2
  <2> QED BY <1>6, <2>1, <2>2 DEF CallEdge
<1>7. ASSUME CallAny PROVE CopyInv'
  <2>1. CASE Becomes(InitializeFromBaseGraph(gv))
    <3> DEFINE copies == CallAll({gv}, mpBaseGraph.vertices, AddGVNode)
    <3>1. Len(mpBaseGraph.vertices) \in Nat BY <1>1 DEF HasEnds
    <3>2. \A d \in {gv} : Follows(gv, d, {}) BY <1>2
    <3>3. \A d \in copies : Follows(gv, d, {}) BY <3>1, <3>2, AddNodesFollow
    <3> HIDE DEF copies
    <3>4. \A e \in CallAll(copies, mpBaseGraph.edges, AddGVEdge) : \E new : Follows(gv, e, new)
      BY <1>1, <3>3, AddEdgesFollow
    <3>5. \A e \in InitializeFromBaseGraph(gv) : \E new : Follows(gv, e, new)
      BY <3>4 DEF InitializeFromBaseGraph, copies
    <3> QED BY <2>1, <3>5, BecomesKeeps
  <2>2. CASE Becomes(ClearNodes(gv)) BY <1>2, <1>3, <2>2, ClearFollows
  <2>3. CASE Becomes({ClearEdges(gv)}) BY <1>2, <1>4, <2>3, ClearFollows
  <2>4. CASE Becomes(Clear(gv))
    <3>1. Follows(gv, Freed(gv), {}) BY <1>1, LayoutFollows
    <3>2. Follows(gv, ClearEdges(Freed(gv)), {}) BY <3>1, ClearFollows
    <3>3. \A e \in Clear(gv) : Follows(gv, e, {}) BY <3>2, ClearFollows DEF Clear
    <3> QED BY <1>3, <2>4, <3>3
  <2>5. CASE Becomes({ApplyGVLayout(gv)}) BY <1>1, <1>4, <2>5, LayoutFollows
  <2>6. ASSUME NEW forced \in BOOLEAN, Becomes({RenderToFile(gv, forced)}) PROVE CopyInv'
    BY <1>1, <1>4, <2>6, LayoutFollows
  <2> QED BY <1>7, <2>1, <2>2, <2>3, <2>4, <2>5, <2>6 DEF CallAny
<1>8. EditBase => CopyInv' BY EditKeeps
<1>9. ASSUME UNCHANGED gvVars PROVE CopyInv'
  BY <1>9 DEF gvVars, CopyInv, Sound, IsCopy, HasEnds, IdsOnce, Numbered, IdsOf, LiveIds
<1> QED BY <1>5, <1>6, <1>7, <1>8, <1>9 DEF GVNext

\* The maps of a graphviz copy and graphviz itself have the same nodes, always,
\* and the same edges until one takes the place of another in the map.
THEOREM MapsStayWithGraphviz == GVSpec => []MapsMatch
<1>1. CopyInv => MapsMatch BY DEF CopyInv, Sound, MapsMatch
<1> QED BY <1>1, CopyInitially, CopyKept, PTL DEF GVSpec

-----------------------------------------------------------------------------
(* The writer.                                                                 *)

\* A copy with nodes for some ids on which no layout was computed.
Blank(c, ids) ==
  /\ IsCopy(c) /\ DOMAIN c.mNodes = ids
  /\ c.mpContext /\ ~c.mAppliedLayout /\ c.laidOut = {} /\ ~c.thrown /\ ~c.crashed
Drawn(c, ids) == Blank(c, ids) /\ (c.nodes = {} <=> ids = {})
Edgeless(c) == c.edges = {} /\ DOMAIN c.mEdges = {}

\* A node is added without an exception when there are no edges yet.
LEMMA AddNodeDraws ==
  ASSUME NEW c, NEW ids, Drawn(c, ids), Edgeless(c), NEW v, NEW e \in AddGVNode(c, v)
  PROVE  Drawn(e, ids \cup {mpBaseGraph.vid[v]}) /\ Edgeless(e)
<1> DEFINE id == mpBaseGraph.vid[v]
           node == NodeName(v)
<1>1. PICK f \in RemoveNodeIfThere(c, id) :
        e = IF f.thrown THEN f
            ELSE [f EXCEPT !.mNodes = Over(Entry(id, node), f.mNodes), !.nodes = f.nodes \cup {node}]
  BY DEF AddGVNode, Call
<1>2. Blank(f, ids \ {id}) /\ Edgeless(f)
  <2>1. CASE id \notin DOMAIN c.mNodes
    <3>1. f = c /\ ids \ {id} = ids BY <1>1, <2>1 DEF RemoveNodeIfThere, Drawn, Blank
    <3> QED BY <3>1 DEF Drawn
  <2>2. CASE id \in DOMAIN c.mNodes
    <3> DEFINE old == c.mNodes[id]
               r == RemoveEdgeIds(c, {})
               map == RestrictDomain(c.mNodes, LAMBDA x : x # id)
    <3>1. AtNode(c, old) = {} BY DEF AtNode, Edgeless
    <3>2. RemoveNodeId(c, id) = {Forget(r, id)}
      <4>1. UNION {IdOf(c, edge) : edge \in {}} = {} OBVIOUS
      <4> QED BY <3>1, <4>1 DEF RemoveNodeId
    <3>3. f = Forget(r, id) BY <1>1, <2>2, <3>2 DEF RemoveNodeIfThere
    <3> DEFINE noEdges == RestrictDomain(c.mEdges, LAMBDA x : x \notin {})
    <3>4. r = [c EXCEPT !.edges = c.edges \ {c.mEdges[x] : x \in {}}, !.mEdges = noEdges] BY DEF RemoveEdgeIds
    <3>5. DOMAIN noEdges = {} BY DEF RestrictDomain, Restrict, Edgeless
    <3> HIDE DEF r, noEdges
    <3>6. /\ IsCopy(r) /\ r.mNodes = c.mNodes /\ r.nodes = c.nodes /\ r.edges = {} /\ r.mEdges = noEdges
          /\ r.mpContext = c.mpContext /\ r.mAppliedLayout = c.mAppliedLayout /\ r.laidOut = c.laidOut
          /\ r.thrown = c.thrown /\ r.crashed = c.crashed
      BY <3>4 DEF IsCopy, Drawn, Blank, Edgeless
    <3>7. f = [r EXCEPT !.edges = r.edges \ AtNode(r, old), !.nodes = r.nodes \ {old},
                        !.laidOut = r.laidOut \ {old}, !.mNodes = map]
      BY <3>3, <3>6 DEF Forget
    <3>8. DOMAIN map = ids \ {id} /\ \A x \in DOMAIN map : map[x] = c.mNodes[x]
      BY DEF RestrictDomain, Restrict, Drawn, Blank
    <3> HIDE DEF map, old
    <3>9. /\ IsCopy(f) /\ f.mNodes = map /\ f.nodes = c.nodes \ {old} /\ f.edges = {} /\ f.mEdges = noEdges
          /\ f.mpContext = c.mpContext /\ f.mAppliedLayout = c.mAppliedLayout /\ f.laidOut = {}
          /\ f.thrown = c.thrown /\ f.crashed = c.crashed
      BY <3>6, <3>7 DEF IsCopy, Drawn, Blank
    <3> QED BY <3>5, <3>8, <3>9 DEF Blank, Drawn, Edgeless
  <2>3. DOMAIN c.mNodes = ids BY DEF Drawn, Blank
  <2> QED BY <2>1, <2>2
<1> DEFINE map == Over(Entry(id, node), f.mNodes)
<1>3. DOMAIN map = {id} \cup DOMAIN f.mNodes BY DEF Over, Entry
<1> HIDE DEF map, node, id
<1>4. e = [f EXCEPT !.mNodes = map, !.nodes = f.nodes \cup {node}] BY <1>1, <1>2 DEF Blank, map
<1>5. Blank(e, ids \cup {id}) /\ Edgeless(e) /\ node \in e.nodes
  BY <1>2, <1>3, <1>4 DEF Blank, Edgeless, IsCopy
<1> QED BY <1>5 DEF Drawn, id

\* An edge is, when its ends have nodes.
LEMMA AddEdgeDraws ==
  ASSUME HasEnds(mpBaseGraph), NEW c, Drawn(c, {mpBaseGraph.vid[v] : v \in ToSet(mpBaseGraph.vertices)}),
         NEW a \in ToSet(mpBaseGraph.edges), NEW e \in AddGVEdge(c, a)
  PROVE  Drawn(e, {mpBaseGraph.vid[v] : v \in ToSet(mpBaseGraph.vertices)})
<1> DEFINE line == GVEdge(c, a)
           map == Over(Entry(mpBaseGraph.eid[a], line), c.mEdges)
<1>1. a \in Edges BY DEF HasEnds, ToSet
<1>2. ToSet(EdgeEnds[a]) \subseteq ToSet(mpBaseGraph.vertices) BY <1>1, EndsAre DEF HasEnds
<1>3. EndIds(a) \subseteq DOMAIN c.mNodes BY <1>2 DEF EndIds, Drawn, Blank
<1>4. e = [c EXCEPT !.edges = c.edges \cup {line}, !.mEdges = map] BY <1>3 DEF AddGVEdge
<1> HIDE DEF line, map
<1>5. /\ IsCopy(e) /\ e.mNodes = c.mNodes /\ e.nodes = c.nodes
      /\ e.mpContext = c.mpContext /\ e.mAppliedLayout = c.mAppliedLayout /\ e.laidOut = c.laidOut
      /\ e.thrown = c.thrown /\ e.crashed = c.crashed
  BY <1>4 DEF Drawn, Blank, IsCopy
<1> QED BY <1>5 DEF Drawn, Blank

\* So a new copy can be made of any graph.
LEMMA InitializeDraws ==
  ASSUME HasEnds(mpBaseGraph), NEW e \in InitializeFromBaseGraph(NewGraph)
  PROVE  Drawn(e, {mpBaseGraph.vid[v] : v \in ToSet(mpBaseGraph.vertices)})
<1> DEFINE vs == mpBaseGraph.vertices
           es == mpBaseGraph.edges
           ids == {mpBaseGraph.vid[v] : v \in ToSet(vs)}
           upto(n) == {mpBaseGraph.vid[vs[i]] : i \in 1 .. n}
           copies == CallAll({NewGraph}, vs, AddGVNode)
<1>1. /\ Len(vs) \in Nat /\ DOMAIN vs = 1 .. Len(vs)
      /\ Len(es) \in Nat /\ DOMAIN es = 1 .. Len(es)
  BY DEF HasEnds
<1>2. ASSUME NEW d \in copies PROVE Drawn(d, ids)
  <2>1. PICK k : AddingNodes(k, {NewGraph}, vs) /\ copies = k[Len(vs)] BY <1>1, AddingNodesCalls
  <2> HIDE DEF copies
  <2> DEFINE T == {n \in Nat : n <= Len(vs) => \A f \in k[n] : Drawn(f, upto(n)) /\ Edgeless(f)}
  <2>2. 0 \in T
    <3>1. k[0] = {NewGraph}
      <4>1. 0 \in 0 .. Len(vs) BY <1>1
      <4> QED BY <2>1, <4>1 DEF AddingNodes
    <3>2. Drawn(NewGraph, {}) /\ Edgeless(NewGraph) BY DEF NewGraph, Drawn, Blank, Edgeless, IsCopy
    <3>3. upto(0) = {} OBVIOUS
    <3> QED BY <3>1, <3>2, <3>3
  <2>3. ASSUME NEW n \in T PROVE n + 1 \in T
    <3>0. n + 1 \in Nat BY <2>3
    <3> SUFFICES ASSUME n + 1 <= Len(vs), NEW f \in k[n + 1] PROVE Drawn(f, upto(n + 1)) /\ Edgeless(f)
      BY <3>0
    <3>1. n + 1 \in 0 .. Len(vs) /\ n + 1 # 0 /\ (n + 1) - 1 = n /\ n <= Len(vs) /\ n \in Nat
      BY <1>1, <2>3
    <3>2. k[n + 1] = UNION {IF g.thrown THEN {g} ELSE AddGVNode(g, vs[n + 1]) : g \in k[n]}
      BY <2>1, <3>1 DEF AddingNodes, Call
    <3>3. PICK g \in k[n] : f \in IF g.thrown THEN {g} ELSE AddGVNode(g, vs[n + 1]) BY <3>2
    <3>4. Drawn(g, upto(n)) /\ Edgeless(g) BY <2>3, <3>1
    <3>5. f \in AddGVNode(g, vs[n + 1]) BY <3>3, <3>4 DEF Drawn, Blank
    <3>6. 1 .. n + 1 = 1 .. n \cup {n + 1} BY <3>1
    <3>7. upto(n + 1) = upto(n) \cup {mpBaseGraph.vid[vs[n + 1]]} BY <3>6
    <3> HIDE DEF upto
    <3>8. Drawn(f, upto(n) \cup {mpBaseGraph.vid[vs[n + 1]]}) /\ Edgeless(f) BY <3>4, <3>5, AddNodeDraws
    <3> QED BY <3>7, <3>8
  <2>4. T = Nat BY <2>2, <2>3, Induction
  <2>5. Len(vs) \in T /\ Len(vs) <= Len(vs)
    <3> HIDE DEF T
    <3> QED BY <1>1, <2>4
  <2>6. Drawn(d, upto(Len(vs))) BY <2>1, <2>5
  <2>7. upto(Len(vs)) = ids BY <1>1 DEF ToSet
  <2> QED BY <2>6, <2>7
<1> HIDE DEF copies, ids
<1>3. e \in CallAll(copies, es, AddGVEdge) BY DEF InitializeFromBaseGraph, copies
<1>4. PICK k : AddingEdges(k, copies, es) /\ CallAll(copies, es, AddGVEdge) = k[Len(es)] BY <1>1, AddingEdgesCalls
<1> DEFINE T == {n \in Nat : n <= Len(es) => \A d \in k[n] : Drawn(d, ids)}
<1>5. 0 \in T
  <2>1. k[0] = copies BY <1>1, <1>4 DEF AddingEdges
  <2> QED BY <1>2, <2>1
<1>6. ASSUME NEW n \in T PROVE n + 1 \in T
  <2> SUFFICES ASSUME n + 1 <= Len(es), NEW d \in k[n + 1] PROVE Drawn(d, ids) BY <1>6
  <2>1. /\ n + 1 \in 0 .. Len(es) /\ n + 1 # 0 /\ (n + 1) - 1 = n /\ n <= Len(es)
        /\ n + 1 \in 1 .. Len(es)
    BY <1>1, <1>6
  <2>2. k[n + 1] = UNION {IF f.thrown THEN {f} ELSE AddGVEdge(f, es[n + 1]) : f \in k[n]}
    BY <1>4, <2>1 DEF AddingEdges, Call
  <2>3. PICK f \in k[n] : d \in IF f.thrown THEN {f} ELSE AddGVEdge(f, es[n + 1]) BY <2>2
  <2>4. Drawn(f, ids) BY <1>6, <2>1
  <2>5. d \in AddGVEdge(f, es[n + 1]) BY <2>3, <2>4 DEF Drawn, Blank
  <2>6. es[n + 1] \in ToSet(es) BY <1>1, <2>1 DEF ToSet
  <2> QED BY <2>4, <2>5, <2>6, AddEdgeDraws DEF ids
<1>7. T = Nat BY <1>5, <1>6, Induction
<1>8. Len(es) \in T /\ Len(es) <= Len(es) BY <1>1, <1>7
<1>9. Drawn(e, ids) BY <1>3, <1>4, <1>8
<1> QED BY <1>9 DEF ids

\* WriterRendersOnce: whatever graph is written, and whatever ids its elements
\* have, the writer never meets a layout that was freed, and throws exactly
\* for the empty graph.
THEOREM WriterNeverCrashes == GVSpec => []WriterRendersOnce
<1>1. ASSUME CopyInv PROVE WriterRendersOnce
  <2>1. HasEnds(mpBaseGraph) BY <1>1 DEF CopyInv
  <2> DEFINE ids == {mpBaseGraph.vid[v] : v \in ToSet(mpBaseGraph.vertices)}
  <2>2. ids = {} <=> mpBaseGraph.vertices = <<>>
    <3>1. mpBaseGraph.vertices \in Seq(Vertices) BY <2>1 DEF HasEnds
    <3>2. CASE mpBaseGraph.vertices = <<>> BY <3>2 DEF ToSet
    <3>3. CASE mpBaseGraph.vertices # <<>>
      <4>1. 1 \in DOMAIN mpBaseGraph.vertices BY <3>1, <3>3
      <4> QED BY <3>3, <4>1 DEF ToSet
    <3> QED BY <3>2, <3>3
  <2> HIDE DEF ids
  <2> SUFFICES ASSUME NEW e \in GraphvizWrite PROVE ~e.crashed /\ (e.thrown <=> ids = {})
    BY <2>2 DEF WriterRendersOnce
  <2>3. PICK c \in InitializeFromBaseGraph(NewGraph) :
          e = IF c.thrown THEN c ELSE RenderToFile(ApplyGVLayout(c), FALSE)
    BY DEF GraphvizWrite, Call
  <2>4. Drawn(c, ids) BY <2>1, InitializeDraws DEF ids
  <2>5. e = RenderToFile(ApplyGVLayout(c), FALSE) /\ Freed(c) = c BY <2>3, <2>4 DEF Drawn, Blank, Freed
  <2>6. CASE ids = {}
    <3>1. ApplyGVLayout(c) = c BY <2>4, <2>6 DEF ApplyGVLayout, Drawn, Blank
    <3>2. e = Throw(c) BY <2>4, <2>5, <2>6, <3>1 DEF RenderToFile, Drawn, Blank
    <3> QED BY <2>4, <2>6, <3>2 DEF Throw, Drawn, Blank, IsCopy
  <2>7. CASE ids # {}
    <3> DEFINE d == [c EXCEPT !.mAppliedLayout = TRUE, !.laidOut = c.nodes]
    <3>1. ApplyGVLayout(c) = d BY <2>4, <2>5, <2>7 DEF ApplyGVLayout, Drawn, Blank
    <3> HIDE DEF d
    <3>2. /\ d.mAppliedLayout /\ d.mpContext /\ ~d.crashed /\ ~d.thrown
          /\ d.laidOut = d.nodes /\ d.nodes # {}
      BY <2>4, <2>7 DEF d, Drawn, Blank, IsCopy
    <3>3. e = d BY <2>5, <3>1, <3>2 DEF RenderToFile
    <3> QED BY <2>7, <3>2, <3>3
  <2> QED BY <2>6, <2>7
<1> QED BY <1>1, CopyInitially, CopyKept, PTL DEF GVSpec

-----------------------------------------------------------------------------
(* What a player lists.                                                        *)

\* appendUnique, turn by turn.
AppendingUnique(f, list, more) ==
  f = [n \in 0 .. Len(more) |->
         IF n = 0 THEN list
         ELSE IF more[n] \in ToSet(f[n - 1]) THEN f[n - 1] ELSE Append(f[n - 1], more[n])]

\* Elements appended to a list unless it holds them are in it, once.
LEMMA AppendUniqueHolds ==
  ASSUME NEW A, NEW list \in Seq(A), NoneTwice(list), NEW more \in Seq(A)
  PROVE  /\ AppendUnique(list, more) \in Seq(A) /\ NoneTwice(AppendUnique(list, more))
         /\ Held(AppendUnique(list, more)) = Held(list) \cup Held(more)
<1> DEFINE n == Len(more)
           upto(i) == {more[j] : j \in 1 .. i}
           S == [i \in 0 .. n |-> {l \in Seq(A) : NoneTwice(l) /\ Held(l) = Held(list) \cup upto(i)}]
           turn(i, s) == IF more[i] \in ToSet(s) THEN s ELSE Append(s, more[i])
           step == [i \in 1 .. n |-> [s \in S[i - 1] |-> turn(i, s)]]
           f == CHOOSE f : AppendingUnique(f, list, more)
<1>1. n \in Nat OBVIOUS
<1>2. ASSUME NEW i \in 1 .. n, NEW s \in S[i - 1] PROVE turn(i, s) \in S[i]
  <2>1. /\ i - 1 \in 0 .. n /\ i \in 0 .. n /\ more[i] \in A
        /\ 1 .. i = 1 .. i - 1 \cup {i}
    BY <1>1
  <2>2. upto(i) = upto(i - 1) \cup {more[i]} BY <2>1
  <2> HIDE DEF upto
  <2>3. s \in Seq(A) /\ NoneTwice(s) /\ Held(s) = Held(list) \cup upto(i - 1) BY <1>2, <2>1
  <2>4. CASE more[i] \in ToSet(s) BY <2>1, <2>2, <2>3, <2>4, HeldIsToSet
  <2>5. CASE more[i] \notin ToSet(s)
    <3>1. /\ Append(s, more[i]) \in Seq(A) /\ NoneTwice(Append(s, more[i]))
          /\ \A x : x \in Held(Append(s, more[i])) <=> x \in Held(s) \/ x = more[i]
      BY <2>1, <2>3, <2>5, HeldIsToSet, OnceAppend, HeldAppend
    <3> QED BY <2>1, <2>2, <2>3, <2>5, <3>1
  <2> QED BY <2>4, <2>5
<1>3. list \in S[0]
  <2>1. upto(0) = {} OBVIOUS
  <2> QED BY <1>1, <2>1
<1>4. AppendingUnique(f, list, more)
  <2>1. \A i \in 1 .. n : \A s \in S[i - 1] : step[i][s] = turn(i, s) OBVIOUS
  <2> HIDE DEF S, step
  <2>2. PICK g : Loops(g, n, list, step) /\ \A i \in 0 .. n : g[i] \in S[i]
    <3>1. \A i \in 1 .. n : \A s \in S[i - 1] : step[i][s] \in S[i] BY <1>2, <2>1, Zenon
    <3> QED BY <1>1, <1>3, <3>1, LoopRuns
  <2> HIDE DEF turn
  <2>3. \A i \in 1 .. n : step[i][g[i - 1]] = turn(i, g[i - 1])
    <3>1. \A i \in 1 .. n : i - 1 \in 0 .. n BY <1>1
    <3> QED BY <2>1, <2>2, <3>1
  <2>4. g = [i \in 0 .. n |-> IF i = 0 THEN list ELSE turn(i, g[i - 1])]
    <3>1. \A i \in 0 .. n : i # 0 => i \in 1 .. n BY <1>1
    <3> QED BY <2>2, <2>3, <3>1 DEF Loops
  <2>5. AppendingUnique(g, list, more) BY <2>4 DEF AppendingUnique, turn
  <2> QED BY <2>5, Zenon
<1>5. AppendUnique(list, more) = f[n] BY DEF AppendUnique, AppendingUnique
<1> HIDE DEF f
<1>6. f[0] = list /\ \A i \in 1 .. n : f[i] = turn(i, f[i - 1])
  <2>1. \A i \in 1 .. n : i \in 0 .. n /\ i # 0 BY <1>1
  <2>2. 0 \in 0 .. n BY <1>1
  <2> QED BY <1>4, <2>1, <2>2 DEF AppendingUnique
<1> HIDE DEF turn, S
<1>7. \A i \in 0 .. n : f[i] \in S[i] BY <1>1, <1>2, <1>3, <1>6, LoopKeeps
<1>8. f[n] \in S[n] /\ n \in 0 .. n BY <1>1, <1>7
<1>9. upto(n) = Held(more) BY <1>1 DEF Held
<1> QED BY <1>5, <1>8, <1>9 DEF S

-----------------------------------------------------------------------------
(* The order of vertices.                                                      *)

\* A list is one of what it holds.
LEMMA ListOfHeld ==
  ASSUME NEW A, NEW list \in Seq(A), NEW B, Held(list) \subseteq B
  PROVE  list \in Seq(B)
<1>1. Len(list) \in Nat /\ DOMAIN list = 1 .. Len(list) OBVIOUS
<1>2. \A i \in 1 .. Len(list) : list[i] \in B BY <1>1 DEF Held
<1>3. list = [i \in 1 .. Len(list) |-> list[i]] BY <1>1
<1> QED BY <1>1, <1>2, <1>3, SeqDef

\* The vertices edges lead to from one.
LEMMA NeighboursAreVertices ==
  ASSUME NEW g, HasEnds(g), NEW v
  PROVE  OutNeighbours(g, v) \in Seq(ToSet(g.vertices))
<1> DEFINE out == Among(g.edges, {e \in Edges : EdgeEnds[e][1] = v})
<1>1. out \in Seq(Edges) /\ Held(out) \subseteq ToSet(g.edges) BY AmongHolds, HeldIsToSet DEF HasEnds
<1>2. OutNeighbours(g, v) = [i \in DOMAIN out |-> EdgeEnds[out[i]][2]] BY DEF OutNeighbours
<1> HIDE DEF out
<1>3. DOMAIN out = 1 .. Len(out) /\ Len(out) \in Nat BY <1>1
<1>4. \A i \in DOMAIN out : EdgeEnds[out[i]][2] \in ToSet(g.vertices) BY <1>1 DEF HasEnds, Held
<1> QED BY <1>2, <1>3, <1>4, SeqDef


Searches(g) ==
  LET V == ToSet(g.vertices)
  IN {s \in [queue : Seq(V), known : SUBSET V, list : Seq(V)] : NoneTwice(s.list)}

SearchTurn(g, s) ==
  IF s.queue = <<>> THEN s
  ELSE LET new == Among(AppendUnique(<<>>, OutNeighbours(g, Head(s.queue))), Vertices \ s.known)
       IN [queue |-> Tail(s.queue) \o new, known |-> s.known \cup ToSet(new),
           list |-> AppendUnique(s.list, new)]
SearchStart(start, found) == [queue |-> <<start>>, known |-> found.known \cup {start},
                              list |-> AppendUnique(found.list, <<start>>)]
Searching(f, g, start, found) ==
  f = [n \in 0 .. Len(g.vertices) |-> IF n = 0 THEN SearchStart(start, found) ELSE SearchTurn(g, f[n - 1])]

\* A turn of a search lists more vertices, each once.
LEMMA SearchGoesOn ==
  ASSUME NEW g, HasEnds(g), NEW s \in Searches(g)
  PROVE  SearchTurn(g, s) \in Searches(g) /\ Held(s.list) \subseteq Held(SearchTurn(g, s).list)
<1>1. CASE s.queue = <<>> BY <1>1 DEF SearchTurn
<1>2. CASE s.queue # <<>>
  <2> DEFINE V == ToSet(g.vertices)
             out == OutNeighbours(g, Head(s.queue))
             new == Among(AppendUnique(<<>>, out), Vertices \ s.known)
  <2>1. /\ s.queue \in Seq(V) /\ s.known \in SUBSET V
        /\ s.list \in Seq(V) /\ NoneTwice(s.list)
    BY DEF Searches
  <2>2. out \in Seq(V) BY NeighboursAreVertices
  <2>3. <<>> \in Seq(V) /\ NoneTwice(<<>>) BY DEF NoneTwice
  <2> HIDE DEF out
  <2>4. AppendUnique(<<>>, out) \in Seq(V) BY <2>2, <2>3, AppendUniqueHolds
  <2>5. new \in Seq(V) BY <2>4, AmongHolds
  <2>6. SearchTurn(g, s) = [queue |-> Tail(s.queue) \o new, known |-> s.known \cup ToSet(new),
                            list |-> AppendUnique(s.list, new)]
    BY <1>2 DEF SearchTurn, out
  <2> HIDE DEF new
  <2>7. /\ AppendUnique(s.list, new) \in Seq(V) /\ NoneTwice(AppendUnique(s.list, new))
        /\ Held(AppendUnique(s.list, new)) = Held(s.list) \cup Held(new)
    BY <2>1, <2>5, AppendUniqueHolds
  <2>8. Tail(s.queue) \o new \in Seq(V)
    <3> HIDE DEF V
    <3>1. Tail(s.queue) \in Seq(V) BY <1>2, <2>1
    <3> QED BY <2>5, <3>1
  <2>9. s.known \cup ToSet(new) \in SUBSET V BY <2>1, <2>5 DEF ToSet
  <2> QED BY <2>6, <2>7, <2>8, <2>9 DEF Searches
<1> QED BY <1>1, <1>2

\* A search lists where it starts, and what was listed.
LEMMA SearchLists ==
  ASSUME NEW g, HasEnds(g), NEW start \in ToSet(g.vertices), NEW found \in Searches(g)
  PROVE  /\ Search(g, start, found) \in Searches(g)
         /\ Held(found.list) \cup {start} \subseteq Held(Search(g, start, found).list)
<1> DEFINE V == ToSet(g.vertices)
           n == Len(g.vertices)
           a == SearchStart(start, found)
           now == {s \in Searches(g) : Held(found.list) \cup {start} \subseteq Held(s.list)}
           S == [i \in 0 .. n |-> now]
           step == [i \in 1 .. n |-> [s \in now |-> SearchTurn(g, s)]]
           f == CHOOSE f : Searching(f, g, start, found)
<1>1. n \in Nat BY DEF HasEnds
<1>2. a \in now
  <2>1. /\ found.known \in SUBSET V /\ found.list \in Seq(V) /\ NoneTwice(found.list)
    BY DEF Searches
  <2>2. <<start>> \in Seq(V) /\ Held(<<start>>) = {start} BY DEF Held
  <2>3. /\ AppendUnique(found.list, <<start>>) \in Seq(V)
        /\ NoneTwice(AppendUnique(found.list, <<start>>))
        /\ Held(AppendUnique(found.list, <<start>>)) = Held(found.list) \cup Held(<<start>>)
    <3> DEFINE one == <<start>>
    <3>1. one \in Seq(V) BY <2>2
    <3> HIDE DEF one
    <3>2. /\ AppendUnique(found.list, one) \in Seq(V) /\ NoneTwice(AppendUnique(found.list, one))
          /\ Held(AppendUnique(found.list, one)) = Held(found.list) \cup Held(one)
      BY <2>1, <3>1, AppendUniqueHolds
    <3> QED BY <3>2 DEF one
  <2> QED BY <2>1, <2>2, <2>3 DEF Searches, SearchStart
<1> HIDE DEF a
<1>3. ASSUME NEW s \in now PROVE SearchTurn(g, s) \in now BY <1>3, SearchGoesOn
<1> HIDE DEF now
<1>4. Searching(f, g, start, found)
  <2>1. \A i \in 1 .. n : \A s \in S[i - 1] : step[i][s] = SearchTurn(g, s) /\ step[i][s] \in S[i]
    BY <1>1, <1>3
  <2>2. a \in S[0] BY <1>1, <1>2
  <2> HIDE DEF S, step
  <2>3. PICK k : Loops(k, n, a, step) /\ \A i \in 0 .. n : k[i] \in S[i] BY <1>1, <2>1, <2>2, LoopRuns
  <2>4. \A i \in 1 .. n : step[i][k[i - 1]] = SearchTurn(g, k[i - 1])
    <3>1. \A i \in 1 .. n : i - 1 \in 0 .. n BY <1>1
    <3> QED BY <2>1, <2>3, <3>1
  <2>5. k = [i \in 0 .. n |-> IF i = 0 THEN a ELSE SearchTurn(g, k[i - 1])]
    <3>1. \A i \in 0 .. n : i # 0 => i \in 1 .. n BY <1>1
    <3> QED BY <2>3, <2>4, <3>1 DEF Loops
  <2>6. Searching(k, g, start, found) BY <2>5 DEF Searching, a
  <2> QED BY <2>6, Zenon
<1>5. Search(g, start, found) = f[n] BY DEF Search, Searching, SearchTurn, SearchStart
<1> HIDE DEF f
<1>6. f[0] = a /\ \A i \in 1 .. n : f[i] = SearchTurn(g, f[i - 1])
  <2>1. \A i \in 1 .. n : i \in 0 .. n /\ i # 0 BY <1>1
  <2>2. 0 \in 0 .. n BY <1>1
  <2> QED BY <1>4, <2>1, <2>2 DEF Searching, a
<1>7. \A i \in 0 .. n : f[i] \in S[i]
  <2>1. \A i \in 0 .. n : S[i] = now OBVIOUS
  <2>2. \A i \in 1 .. n : i \in 0 .. n /\ i - 1 \in 0 .. n BY <1>1
  <2>3. 0 \in 0 .. n BY <1>1
  <2>4. f[0] \in S[0] BY <1>2, <1>6, <2>1, <2>3
  <2>5. \A i \in 1 .. n : f[i - 1] \in S[i - 1] => f[i] \in S[i] BY <1>3, <1>6, <2>1, <2>2
  <2> HIDE DEF S
  <2> QED BY <1>1, <2>4, <2>5, LoopKeeps
<1>8. f[n] \in now BY <1>1, <1>7
<1> QED BY <1>5, <1>8 DEF now

OrderTurn(g, start, s) == IF start \in ToSet(s.list) THEN s ELSE Search(g, start, s)
NothingFound == [queue |-> <<>>, known |-> {}, list |-> <<>>]
Ordering(f, g, starts) ==
  f = [n \in 0 .. Len(starts) |-> IF n = 0 THEN NothingFound ELSE OrderTurn(g, starts[n], f[n - 1])]

\* Every vertex of the graph is listed, once.
LEMMA VertexOrderListsAll ==
  ASSUME NEW g, HasEnds(g)
  PROVE  /\ VertexOrder(g) \in Seq(Vertices) /\ NoneTwice(VertexOrder(g))
         /\ Held(VertexOrder(g)) = ToSet(g.vertices)
<1> DEFINE V == ToSet(g.vertices)
           starts == Roots(g) \o Among(AddressOrder, ToSet(g.vertices))
           f == CHOOSE f : Ordering(f, g, starts)
<1>1. starts \in Seq(V) /\ V \subseteq Held(starts) /\ V \subseteq Vertices
  <2>1. Roots(g) \in Seq(Vertices) /\ Held(Roots(g)) \subseteq V
    BY AmongHolds, HeldIsToSet DEF Roots, HasEnds
  <2>2. /\ Among(AddressOrder, V) \in Seq(Vertices)
        /\ Held(Among(AddressOrder, V)) = Vertices \cap V
    BY PlayerAssumption, AmongHolds, HeldIsToSet
  <2>3. V \subseteq Vertices BY DEF HasEnds, ToSet
  <2>4. starts \in Seq(Vertices) /\ Held(starts) = V
    <3> DEFINE roots == Roots(g)
               others == Among(AddressOrder, V)
    <3>1. roots \in Seq(Vertices) /\ others \in Seq(Vertices) BY <2>1, <2>2
    <3>2. Held(roots) \subseteq V /\ Held(others) = V BY <2>1, <2>2, <2>3
    <3> HIDE DEF roots, others, V
    <3>3. roots \o others \in Seq(Vertices) /\ Held(roots \o others) = Held(roots) \cup Held(others)
      BY <3>1, HeldTogether
    <3>4. Held(roots \o others) = V BY <3>2, <3>3
    <3> QED BY <3>3, <3>4 DEF roots, others, V
  <2> QED BY <2>3, <2>4, ListOfHeld
<1>2. VertexOrder(g) = f[Len(starts)].list
  BY DEF VertexOrder, Ordering, OrderTurn, NothingFound
<1> HIDE DEF starts, f
<1> DEFINE n == Len(starts)
           S == [i \in 0 .. n |-> {s \in Searches(g) : \A j \in 1 .. i : starts[j] \in Held(s.list)}]
           step == [i \in 1 .. n |-> [s \in S[i - 1] |-> OrderTurn(g, starts[i], s)]]
<1>3. n \in Nat /\ DOMAIN starts = 1 .. n BY <1>1
<1>4. NothingFound \in S[0]
  <2>1. <<>> \in Seq(V) /\ NoneTwice(<<>>) BY DEF NoneTwice
  <2> QED BY <1>3, <2>1 DEF NothingFound, Searches
<1>5. ASSUME NEW i \in 1 .. n, NEW s \in S[i - 1] PROVE OrderTurn(g, starts[i], s) \in S[i]
  <2>1. /\ i - 1 \in 0 .. n /\ i \in 0 .. n /\ starts[i] \in V
        /\ \A j \in 1 .. i : j \in 1 .. i - 1 \/ j = i
    BY <1>1, <1>3
  <2>2. s \in Searches(g) /\ \A j \in 1 .. i - 1 : starts[j] \in Held(s.list) BY <2>1
  <2>3. CASE starts[i] \in ToSet(s.list) BY <2>1, <2>2, <2>3, HeldIsToSet DEF OrderTurn
  <2>4. CASE starts[i] \notin ToSet(s.list)
    <3> DEFINE x == Search(g, starts[i], s)
    <3>1. x \in Searches(g) /\ Held(s.list) \cup {starts[i]} \subseteq Held(x.list) BY <2>1, <2>2, SearchLists
    <3>2. OrderTurn(g, starts[i], s) = x BY <2>4 DEF OrderTurn
    <3> HIDE DEF x
    <3> QED BY <2>1, <2>2, <3>1, <3>2
  <2> QED BY <2>3, <2>4
<1>6. Ordering(f, g, starts)
  <2>1. \A i \in 1 .. n : \A s \in S[i - 1] : step[i][s] = OrderTurn(g, starts[i], s) OBVIOUS
  <2> HIDE DEF S, step
  <2>2. PICK k : Loops(k, n, NothingFound, step) /\ \A i \in 0 .. n : k[i] \in S[i]
    <3>1. \A i \in 1 .. n : \A s \in S[i - 1] : step[i][s] \in S[i] BY <1>5, <2>1, Zenon
    <3> QED BY <1>3, <1>4, <3>1, LoopRuns
  <2>3. \A i \in 1 .. n : step[i][k[i - 1]] = OrderTurn(g, starts[i], k[i - 1])
    <3>1. \A i \in 1 .. n : i - 1 \in 0 .. n BY <1>3
    <3> QED BY <2>1, <2>2, <3>1
  <2>4. k = [i \in 0 .. n |-> IF i = 0 THEN NothingFound ELSE OrderTurn(g, starts[i], k[i - 1])]
    <3>1. \A i \in 0 .. n : i # 0 => i \in 1 .. n BY <1>3
    <3> QED BY <2>2, <2>3, <3>1 DEF Loops
  <2>5. Ordering(k, g, starts) BY <2>4 DEF Ordering
  <2> QED BY <2>5, Zenon DEF f
<1>7. f[0] = NothingFound /\ \A i \in 1 .. n : f[i] = OrderTurn(g, starts[i], f[i - 1])
  <2>1. \A i \in 1 .. n : i \in 0 .. n /\ i # 0 BY <1>3
  <2>2. 0 \in 0 .. n BY <1>3
  <2> QED BY <1>6, <2>1, <2>2 DEF Ordering
<1>8. n \in 0 .. n BY <1>3
<1> HIDE DEF S
<1>9. \A i \in 0 .. n : f[i] \in S[i]
  <2>1. \A i \in 1 .. n : f[i - 1] \in S[i - 1] => f[i] \in S[i] BY <1>5, <1>7
  <2>2. f[0] \in S[0] BY <1>4, <1>7
  <2> QED BY <1>3, <2>1, <2>2, LoopKeeps
<1>10. f[n] \in Searches(g) /\ \A j \in 1 .. n : starts[j] \in Held(f[n].list) BY <1>8, <1>9 DEF S
<1>11. Held(starts) \subseteq Held(f[n].list) BY <1>3, <1>10 DEF Held
<1>12. f[n].list \in Seq(V) /\ NoneTwice(f[n].list) BY <1>10 DEF Searches
<1>13. Held(f[n].list) = V
  <2> HIDE DEF V
  <2>1. \A i \in DOMAIN f[n].list : f[n].list[i] \in V BY <1>12
  <2>2. Held(f[n].list) \subseteq V BY <2>1 DEF Held
  <2> QED BY <1>1, <1>11, <2>2
<1>14. f[n].list \in Seq(Vertices) BY <1>1, <1>12, <1>13, ListOfHeld
<1> QED BY <1>2, <1>12, <1>13, <1>14

-----------------------------------------------------------------------------
(* The play list.                                                              *)

Listed == Vertices \cup Edges
PlayLists == [list : Seq(Listed), capacity : Int, reading : {"all", "freed", "lost"}]

\* Every vertex is in it once, and every edge after its source.
InOrder(list) ==
  /\ \A i, j \in DOMAIN list : list[i] = list[j] /\ list[i] \in Vertices => i = j
  /\ \A i \in DOMAIN list : list[i] \in Edges => \E j \in 1 .. i - 1 : list[j] = EdgeEnds[list[i]][1]

\* Edges may follow whose sources are listed, ...
LEMMA EdgesFollow ==
  ASSUME NEW list \in Seq(Listed), InOrder(list), NEW more \in Seq(Edges),
         \A e \in Held(more) : EdgeEnds[e][1] \in Held(list)
  PROVE  InOrder(list \o more)
<1> DEFINE both == list \o more
<1>1. /\ Len(list) \in Nat /\ DOMAIN list = 1 .. Len(list)
      /\ Len(more) \in Nat /\ DOMAIN more = 1 .. Len(more)
  OBVIOUS
<1>2. /\ DOMAIN both = 1 .. Len(list) + Len(more)
      /\ \A i \in 1 .. Len(list) : both[i] = list[i]
      /\ \A i \in Len(list) + 1 .. Len(list) + Len(more) : both[i] = more[i - Len(list)] /\ both[i] \in Edges
  <2>1. both \in Seq(Listed)
    <3>1. more \in Seq(Listed) BY DEF Listed
    <3> QED BY <3>1
  <2>2. Len(both) = Len(list) + Len(more) OBVIOUS
  <2>3. \A i \in Len(list) + 1 .. Len(list) + Len(more) :
          i - Len(list) \in 1 .. Len(more) /\ both[i] = more[i - Len(list)]
    BY <1>1
  <2>4. \A i \in 1 .. Len(more) : more[i] \in Edges OBVIOUS
  <2>5. \A i \in 1 .. Len(list) : both[i] = list[i] BY <1>1
  <2> HIDE DEF both
  <2> QED BY <2>1, <2>2, <2>3, <2>4, <2>5
<1> HIDE DEF both
<1>3. ASSUME NEW i \in DOMAIN both, NEW j \in DOMAIN both, both[i] = both[j], both[i] \in Vertices
      PROVE  i = j
  <2>1. i \in 1 .. Len(list) /\ j \in 1 .. Len(list) BY <1>1, <1>2, <1>3, PlayerAssumption
  <2> QED BY <1>1, <1>2, <1>3, <2>1 DEF InOrder
<1>4. ASSUME NEW i \in DOMAIN both, both[i] \in Edges
      PROVE  \E j \in 1 .. i - 1 : both[j] = EdgeEnds[both[i]][1]
  <2>1. CASE i \in 1 .. Len(list)
    <3>1. PICK j \in 1 .. i - 1 : list[j] = EdgeEnds[list[i]][1] BY <1>1, <1>2, <1>4, <2>1 DEF InOrder
    <3>2. j \in 1 .. Len(list) BY <1>1, <2>1, <3>1
    <3> QED BY <1>2, <2>1, <3>1, <3>2
  <2>2. CASE i \notin 1 .. Len(list)
    <3>1. i \in Len(list) + 1 .. Len(list) + Len(more) BY <1>1, <1>2, <2>2
    <3>2. i - Len(list) \in DOMAIN more BY <1>1, <3>1
    <3>3. both[i] \in Held(more) BY <1>2, <3>1, <3>2 DEF Held
    <3>4. PICK j \in DOMAIN list : list[j] = EdgeEnds[both[i]][1] BY <3>3 DEF Held
    <3>5. j \in 1 .. i - 1 BY <1>1, <3>1, <3>4
    <3> QED BY <1>1, <1>2, <3>4, <3>5
  <2> QED BY <2>1, <2>2
<1> QED BY <1>3, <1>4 DEF InOrder, both

\* ... and a vertex that is not.
LEMMA VertexFollows ==
  ASSUME NEW list \in Seq(Listed), InOrder(list), NEW v \in Vertices, v \notin Held(list)
  PROVE  InOrder(list \o <<v>>)
<1> DEFINE both == list \o <<v>>
           n == Len(list)
<1>1. n \in Nat /\ DOMAIN list = 1 .. n OBVIOUS
<1>2. DOMAIN both = 1 .. n + 1 /\ both[n + 1] = v /\ \A i \in 1 .. n : both[i] = list[i] OBVIOUS
<1> HIDE DEF both, n
<1>3. \A i \in 1 .. n + 1 : i \in 1 .. n \/ i = n + 1 BY <1>1
<1>4. \A i \in 1 .. n : both[i] # v BY <1>1, <1>2 DEF Held
<1>5. ASSUME NEW i \in DOMAIN both, NEW j \in DOMAIN both, both[i] = both[j], both[i] \in Vertices
      PROVE  i = j
  <2>1. CASE i \in 1 .. n /\ j \in 1 .. n BY <1>1, <1>2, <1>5, <2>1 DEF InOrder
  <2>2. CASE ~(i \in 1 .. n /\ j \in 1 .. n) BY <1>2, <1>3, <1>4, <1>5, <2>2
  <2> QED BY <2>1, <2>2
<1>6. ASSUME NEW i \in DOMAIN both, both[i] \in Edges
      PROVE  \E j \in 1 .. i - 1 : both[j] = EdgeEnds[both[i]][1]
  <2>1. i \in 1 .. n BY <1>2, <1>3, <1>6, PlayerAssumption
  <2>2. PICK j \in 1 .. i - 1 : list[j] = EdgeEnds[list[i]][1] BY <1>1, <1>2, <1>6, <2>1 DEF InOrder
  <2>3. j \in 1 .. n BY <1>1, <2>1, <2>2
  <2> QED BY <1>2, <2>1, <2>2, <2>3
<1> QED BY <1>5, <1>6 DEF InOrder, both

\* Inserting at the end.
LEMMA InsertsAtEnd ==
  ASSUME NEW p \in PlayLists, NEW es \in Seq(Listed)
  PROVE  /\ Inserted(p, es) \in PlayLists /\ Inserted(p, es).list = p.list \o es
         /\ Inserted(p, es).reading = p.reading
<1> DEFINE n == Len(p.list) + Len(es)
           c == IF n <= p.capacity THEN p.capacity
                ELSE Len(p.list) + IF Len(es) > Len(p.list) THEN Len(es) ELSE Len(p.list)
<1>1. p.list \in Seq(Listed) /\ p.capacity \in Int /\ p.reading \in {"all", "freed", "lost"} BY DEF PlayLists
<1>2. c \in Int BY <1>1
<1>3. Inserted(p, es) = [p EXCEPT !.list = p.list \o es, !.capacity = c] BY DEF Inserted
<1>4. p.list \o es \in Seq(Listed) BY <1>1
<1> HIDE DEF c
<1> QED BY <1>1, <1>2, <1>3, <1>4 DEF PlayLists

InsertTurn(p, edgesOf, q, n) ==
  LET grown == Inserted(q, edgesOf[p.list[n]])
  IN IF grown.capacity = q.capacity \/ n = Len(p.list) THEN grown ELSE [grown EXCEPT !.reading = "freed"]
ReadTurn(p, edgesOf, q, n) ==
  IF q.reading = "freed" \/ p.list[n] \notin Vertices THEN q ELSE InsertTurn(p, edgesOf, q, n)
Reading(f, p, edgesOf) ==
  f = [n \in 0 .. Len(p.list) |-> IF n = 0 THEN p ELSE ReadTurn(p, edgesOf, f[n - 1], n)]

\* The edges of the vertices among the first elements of the list.
EdgesUpto(p, edgesOf, n) == UNION {Held(edgesOf[p.list[j]]) : j \in {j \in 1 .. n : p.list[j] \in Vertices}}

\* The list with more edges: all of those above, unless memory was freed.
HasMore(p, edgesOf, q, n) ==
  /\ q \in PlayLists
  /\ \E more \in Seq(Edges) :
       /\ q.list = p.list \o more /\ Held(more) \subseteq EdgesUpto(p, edgesOf, n)
       /\ q.reading = "all" => p.reading = "all" /\ Held(more) = EdgesUpto(p, edgesOf, n)

\* Three lists, one after the other.
LEMMA ListedTogether ==
  ASSUME NEW a \in Seq(Listed), NEW b \in Seq(Listed), NEW c \in Seq(Listed)
  PROVE  (a \o b) \o c = a \o (b \o c)
BY ConcatAssociative

\* A turn of the loop.
LEMMA ReadTurnInserts ==
  ASSUME NEW p \in PlayLists, NEW edgesOf \in [Vertices -> Seq(Edges)], NEW n \in 1 .. Len(p.list),
         NEW q, HasMore(p, edgesOf, q, n - 1)
  PROVE  HasMore(p, edgesOf, ReadTurn(p, edgesOf, q, n), n)
<1> DEFINE r == ReadTurn(p, edgesOf, q, n)
           before == EdgesUpto(p, edgesOf, n - 1)
           upto == EdgesUpto(p, edgesOf, n)
<1>1. p.list \in Seq(Listed) /\ Len(p.list) \in Nat /\ DOMAIN p.list = 1 .. Len(p.list) BY DEF PlayLists
<1>2. q \in PlayLists BY DEF HasMore
<1>3. PICK more \in Seq(Edges) :
        /\ q.list = p.list \o more /\ Held(more) \subseteq before
        /\ q.reading = "all" => p.reading = "all" /\ Held(more) = before
  BY DEF HasMore
<1>4. \A j : j \in 1 .. n <=> j \in 1 .. n - 1 \/ j = n BY <1>1
<1>5. before \subseteq upto BY <1>4 DEF EdgesUpto
<1>6. CASE p.list[n] \notin Vertices
  <2>1. before = upto BY <1>4, <1>6 DEF EdgesUpto
  <2>2. r = q BY <1>6 DEF ReadTurn
  <2> QED BY <2>1, <2>2 DEF HasMore
<1>7. CASE p.list[n] \in Vertices /\ q.reading = "freed"
  <2>1. r = q /\ q.reading # "all" BY <1>7 DEF ReadTurn
  <2> HIDE DEF r, before, upto
  <2> QED BY <1>2, <1>3, <1>5, <2>1 DEF HasMore, r, before, upto
<1>8. CASE p.list[n] \in Vertices /\ q.reading # "freed"
  <2> DEFINE es == edgesOf[p.list[n]]
             grown == Inserted(q, es)
             all == more \o es
  <2>1. es \in Seq(Edges) BY <1>8
  <2>2. upto = before \cup Held(es) BY <1>4, <1>8 DEF EdgesUpto
  <2> HIDE DEF es, before, upto
  <2>3. es \in Seq(Listed) /\ more \in Seq(Listed) BY <1>3, <2>1 DEF Listed
  <2>4. grown \in PlayLists /\ grown.list = q.list \o es /\ grown.reading = q.reading
    BY <1>2, <2>3, InsertsAtEnd
  <2>5. all \in Seq(Edges) /\ Held(all) = Held(more) \cup Held(es) BY <1>3, <2>1, HeldTogether
  <2>6. grown.list = p.list \o all
    <3>1. (p.list \o more) \o es = p.list \o (more \o es) BY <1>1, <2>3, ListedTogether
    <3> HIDE DEF grown
    <3> QED BY <1>3, <2>4, <3>1
  <2>7. r = IF grown.capacity = q.capacity \/ n = Len(p.list) THEN grown ELSE [grown EXCEPT !.reading = "freed"]
    BY <1>8 DEF ReadTurn, InsertTurn, es
  <2> HIDE DEF grown, all, r
  <2>8. r \in PlayLists /\ r.list = grown.list /\ (r.reading = "all" => q.reading = "all")
    BY <2>4, <2>7 DEF PlayLists
  <2>9. /\ Held(all) \subseteq upto
        /\ r.reading = "all" => p.reading = "all" /\ Held(all) = upto
    BY <1>3, <2>2, <2>5, <2>8
  <2> QED BY <2>5, <2>6, <2>8, <2>9 DEF HasMore, upto, r
<1> QED BY <1>6, <1>7, <1>8

\* The whole loop.
LEMMA WithEdgesInserts ==
  ASSUME NEW p \in PlayLists, NEW edgesOf \in [Vertices -> Seq(Edges)]
  PROVE  HasMore(p, edgesOf, WithEdges(p, edgesOf), Len(p.list))
<1> DEFINE n == Len(p.list)
           S == [i \in 0 .. n |-> {q \in PlayLists : HasMore(p, edgesOf, q, i)}]
           step == [i \in 1 .. n |-> [q \in S[i - 1] |-> ReadTurn(p, edgesOf, q, i)]]
           f == CHOOSE f : Reading(f, p, edgesOf)
<1>1. n \in Nat /\ DOMAIN p.list = 1 .. n /\ p.list \in Seq(Listed) BY DEF PlayLists
<1>2. WithEdges(p, edgesOf) = [f[n] EXCEPT !.reading = IF @ = "freed" THEN "lost" ELSE @]
  BY DEF WithEdges, Reading, ReadTurn, InsertTurn
<1> HIDE DEF f
<1>3. p \in S[0]
  <2>1. <<>> \in Seq(Edges) /\ Held(<<>>) = {} /\ p.list \o <<>> = p.list BY <1>1 DEF Held
  <2>2. EdgesUpto(p, edgesOf, 0) = {} BY DEF EdgesUpto
  <2>3. HasMore(p, edgesOf, p, 0) BY <2>1, <2>2 DEF HasMore
  <2>4. 0 \in 0 .. n BY <1>1
  <2> QED BY <2>3, <2>4
<1>4. ASSUME NEW i \in 1 .. n, NEW q \in S[i - 1] PROVE ReadTurn(p, edgesOf, q, i) \in S[i]
  <2>1. i - 1 \in 0 .. n /\ i \in 0 .. n BY <1>1
  <2>2. HasMore(p, edgesOf, q, i - 1) BY <2>1
  <2>3. HasMore(p, edgesOf, ReadTurn(p, edgesOf, q, i), i) BY <2>2, ReadTurnInserts
  <2>4. ReadTurn(p, edgesOf, q, i) \in PlayLists BY <2>3 DEF HasMore
  <2> QED BY <2>1, <2>3, <2>4
<1>5. Reading(f, p, edgesOf)
  <2>1. \A i \in 1 .. n : \A q \in S[i - 1] : step[i][q] = ReadTurn(p, edgesOf, q, i) OBVIOUS
  <2> HIDE DEF S, step
  <2>2. PICK k : Loops(k, n, p, step) /\ \A i \in 0 .. n : k[i] \in S[i]
    <3>1. \A i \in 1 .. n : \A q \in S[i - 1] : step[i][q] \in S[i] BY <1>4, <2>1, Zenon
    <3> QED BY <1>1, <1>3, <3>1, LoopRuns
  <2>3. \A i \in 1 .. n : step[i][k[i - 1]] = ReadTurn(p, edgesOf, k[i - 1], i)
    <3>1. \A i \in 1 .. n : i - 1 \in 0 .. n BY <1>1
    <3> QED BY <2>1, <2>2, <3>1
  <2>4. k = [i \in 0 .. n |-> IF i = 0 THEN p ELSE ReadTurn(p, edgesOf, k[i - 1], i)]
    <3>1. \A i \in 0 .. n : i # 0 => i \in 1 .. n BY <1>1
    <3> QED BY <2>2, <2>3, <3>1 DEF Loops
  <2>5. Reading(k, p, edgesOf) BY <2>4 DEF Reading
  <2> QED BY <2>5, Zenon DEF f
<1>6. f[0] = p /\ \A i \in 1 .. n : f[i] = ReadTurn(p, edgesOf, f[i - 1], i)
  <2>1. \A i \in 1 .. n : i \in 0 .. n /\ i # 0 BY <1>1
  <2>2. 0 \in 0 .. n BY <1>1
  <2> QED BY <1>5, <2>1, <2>2 DEF Reading
<1>7. n \in 0 .. n BY <1>1
<1> HIDE DEF S
<1>8. \A i \in 0 .. n : f[i] \in S[i]
  <2>1. \A i \in 1 .. n : f[i - 1] \in S[i - 1] => f[i] \in S[i] BY <1>4, <1>6
  <2>2. f[0] \in S[0] BY <1>3, <1>6
  <2> QED BY <1>1, <2>1, <2>2, LoopKeeps
<1>9. f[n] \in PlayLists /\ HasMore(p, edgesOf, f[n], n) BY <1>7, <1>8 DEF S
<1> DEFINE q == WithEdges(p, edgesOf)
<1>10. q \in PlayLists /\ q.list = f[n].list /\ (q.reading = "all" <=> f[n].reading = "all")
  BY <1>2, <1>9 DEF PlayLists
<1> HIDE DEF q
<1>11. HasMore(p, edgesOf, q, n) BY <1>9, <1>10 DEF HasMore
<1> QED BY <1>11 DEF q

\* The edges from one vertex to another.
LEMMA EdgesBetween ==
  ASSUME NEW g, HasEnds(g), NEW v, NEW w
  PROVE  /\ EdgesFromTo(g, v, w) \in Seq(Edges)
         /\ \A e : e \in Held(EdgesFromTo(g, v, w)) <=> e \in ToSet(g.edges) /\ EdgeEnds[e] = <<v, w>>
<1>1. EdgesFromTo(g, v, w) = Among(g.edges, {e \in Edges : EdgeEnds[e] = <<v, w>>}) BY DEF EdgesFromTo
<1>2. \A e \in ToSet(g.edges) : e \in Edges BY DEF HasEnds, ToSet
<1> QED BY <1>1, <1>2, AmongHolds, HeldIsToSet DEF HasEnds

\* Every edge between vertices that are listed is.
Complete(p, g) ==
  p.reading = "all" =>
    \A e \in ToSet(g.edges) :
       EdgeEnds[e][1] \in Held(p.list) /\ EdgeEnds[e][2] \in Held(p.list) => e \in Held(p.list)

\* A vertex and the edges between it and those before.
LEMMA StepLists ==
  ASSUME NEW g, HasEnds(g), NEW p \in PlayLists, InOrder(p.list), Complete(p, g),
         NEW v \in Vertices, v \notin Held(p.list)
  PROVE  /\ PlaylistStep(g, p, v) \in PlayLists
         /\ Held(PlaylistStep(g, p, v).list) \subseteq Held(p.list) \cup {v} \cup ToSet(g.edges)
         /\ InOrder(PlaylistStep(g, p, v).list)
         /\ Complete(PlaylistStep(g, p, v), g)
         /\ Held(PlaylistStep(g, p, v).list) \cap Vertices = (Held(p.list) \cap Vertices) \cup {v}
<1> DEFINE into == [u \in Vertices |-> EdgesFromTo(g, u, v)]
           from == [u \in Vertices |-> EdgesFromTo(g, v, u)]
           in == WithEdges(p, into)
           with == Inserted(in, <<v>>)
           out == WithEdges(with, from)
<1>1. PlaylistStep(g, p, v) = out BY DEF PlaylistStep
<1>2. into \in [Vertices -> Seq(Edges)] /\ from \in [Vertices -> Seq(Edges)] BY EdgesBetween
<1>3. \A u \in Vertices : into[u] = EdgesFromTo(g, u, v) /\ from[u] = EdgesFromTo(g, v, u) OBVIOUS
<1> HIDE DEF into, from
<1>4. ASSUME NEW q \in PlayLists, NEW edgesOf \in [Vertices -> Seq(Edges)], NEW e
      PROVE  e \in EdgesUpto(q, edgesOf, Len(q.list)) <=> \E u \in Held(q.list) \cap Vertices : e \in Held(edgesOf[u])
  <2> DEFINE l == q.list
             n == Len(l)
  <2>1. DOMAIN l = 1 .. n BY DEF PlayLists
  <2>2. EdgesUpto(q, edgesOf, n) = UNION {Held(edgesOf[l[j]]) : j \in {j \in 1 .. n : l[j] \in Vertices}}
    BY DEF EdgesUpto
  <2> HIDE DEF l, n
  <2>3. e \in EdgesUpto(q, edgesOf, n) <=> \E j \in 1 .. n : l[j] \in Vertices /\ e \in Held(edgesOf[l[j]])
    BY <2>2
  <2>4. Held(l) = {l[j] : j \in 1 .. n} BY <2>1 DEF Held
  <2>5. e \in EdgesUpto(q, edgesOf, n) <=> \E u \in Held(l) \cap Vertices : e \in Held(edgesOf[u])
    BY <2>3, <2>4
  <2> QED BY <2>5 DEF l, n
<1>5. HasMore(p, into, in, Len(p.list)) BY <1>2, WithEdgesInserts
<1>6. in \in PlayLists BY <1>5 DEF HasMore
<1>7. PICK arriving \in Seq(Edges) :
        /\ in.list = p.list \o arriving /\ Held(arriving) \subseteq EdgesUpto(p, into, Len(p.list))
        /\ in.reading = "all" => p.reading = "all" /\ Held(arriving) = EdgesUpto(p, into, Len(p.list))
  BY <1>5 DEF HasMore
<1> HIDE DEF in
<1>8. <<v>> \in Seq(Listed) /\ Held(<<v>>) = {v} BY DEF Listed, Held
<1>9. with \in PlayLists /\ with.list = in.list \o <<v>> /\ with.reading = in.reading
  <2> DEFINE one == <<v>>
  <2>1. one \in Seq(Listed) BY <1>8
  <2> HIDE DEF one
  <2>2. /\ Inserted(in, one) \in PlayLists /\ Inserted(in, one).list = in.list \o one
        /\ Inserted(in, one).reading = in.reading
    BY <1>6, <2>1, InsertsAtEnd
  <2> QED BY <2>2 DEF one
<1> HIDE DEF with
<1>10. HasMore(with, from, out, Len(with.list)) BY <1>2, <1>9, WithEdgesInserts
<1>11. out \in PlayLists BY <1>10 DEF HasMore
<1>12. PICK leaving \in Seq(Edges) :
         /\ out.list = with.list \o leaving /\ Held(leaving) \subseteq EdgesUpto(with, from, Len(with.list))
         /\ out.reading = "all" => with.reading = "all" /\ Held(leaving) = EdgesUpto(with, from, Len(with.list))
  BY <1>10 DEF HasMore
<1> HIDE DEF out
<1>13. /\ p.list \in Seq(Listed) /\ in.list \in Seq(Listed) /\ with.list \in Seq(Listed)
       /\ arriving \in Seq(Listed) /\ leaving \in Seq(Listed)
  BY <1>6, <1>9 DEF PlayLists, Listed
<1>14. /\ Held(in.list) = Held(p.list) \cup Held(arriving)
       /\ Held(with.list) = Held(in.list) \cup {v}
       /\ Held(out.list) = Held(with.list) \cup Held(leaving)
  <2>1. \A s, t \in Seq(Listed) : Held(s \o t) = Held(s) \cup Held(t) BY HeldTogether
  <2>2. Held(p.list \o arriving) = Held(p.list) \cup Held(arriving) BY <1>13, <2>1
  <2>3. Held(with.list \o leaving) = Held(with.list) \cup Held(leaving) BY <1>13, <2>1
  <2>4. Held(in.list \o <<v>>) = Held(in.list) \cup Held(<<v>>) BY <1>8, <1>13, <2>1
  <2> QED BY <1>7, <1>8, <1>9, <1>12, <2>2, <2>3, <2>4
<1>15. Held(arriving) \subseteq Edges /\ Held(leaving) \subseteq Edges BY DEF Held
<1>16. /\ Held(in.list) \cap Vertices = Held(p.list) \cap Vertices
       /\ Held(with.list) \cap Vertices = (Held(p.list) \cap Vertices) \cup {v}
       /\ Held(out.list) \cap Vertices = (Held(p.list) \cap Vertices) \cup {v}
  BY <1>14, <1>15, PlayerAssumption
<1>17. ASSUME NEW e
       PROVE  /\ e \in EdgesUpto(p, into, Len(p.list)) <=>
                    \E u \in Held(p.list) \cap Vertices : e \in ToSet(g.edges) /\ EdgeEnds[e] = <<u, v>>
              /\ e \in EdgesUpto(with, from, Len(with.list)) <=>
                    \E u \in (Held(p.list) \cap Vertices) \cup {v} : e \in ToSet(g.edges) /\ EdgeEnds[e] = <<v, u>>
  <2>1. \A u \in Vertices : e \in Held(into[u]) <=> e \in ToSet(g.edges) /\ EdgeEnds[e] = <<u, v>>
    BY <1>3, EdgesBetween
  <2>2. \A u \in Vertices : e \in Held(from[u]) <=> e \in ToSet(g.edges) /\ EdgeEnds[e] = <<v, u>>
    BY <1>3, EdgesBetween
  <2>3. e \in EdgesUpto(p, into, Len(p.list)) <=> \E u \in Held(p.list) \cap Vertices : e \in Held(into[u])
    BY <1>2, <1>4
  <2>4. e \in EdgesUpto(with, from, Len(with.list)) <=> \E u \in Held(with.list) \cap Vertices : e \in Held(from[u])
    BY <1>2, <1>4, <1>9
  <2> QED BY <1>16, <2>1, <2>2, <2>3, <2>4
<1>18. InOrder(in.list)
  <2>1. \A e \in Held(arriving) : EdgeEnds[e][1] \in Held(p.list) BY <1>7, <1>17
  <2> QED BY <1>7, <1>13, <2>1, EdgesFollow
<1>19. InOrder(with.list)
  <2>1. v \notin Held(in.list) BY <1>16
  <2> QED BY <1>9, <1>13, <1>18, <2>1, VertexFollows
<1>20. InOrder(out.list)
  <2>1. \A e \in Held(leaving) : EdgeEnds[e][1] \in Held(with.list) BY <1>12, <1>14, <1>17
  <2> QED BY <1>12, <1>13, <1>19, <2>1, EdgesFollow
<1>21. Complete(out, g)
  <2> SUFFICES ASSUME out.reading = "all", NEW e \in ToSet(g.edges),
                      EdgeEnds[e][1] \in Held(out.list), EdgeEnds[e][2] \in Held(out.list)
               PROVE  e \in Held(out.list)
    BY DEF Complete
  <2>1. e \in Edges BY DEF HasEnds, ToSet
  <2> DEFINE s == EdgeEnds[e][1]
             t == EdgeEnds[e][2]
  <2>2. EdgeEnds[e] = <<s, t>> /\ s \in Vertices /\ t \in Vertices BY <2>1, EndsAssumption
  <2>3. with.reading = "all" /\ in.reading = "all" /\ p.reading = "all" BY <1>7, <1>9, <1>12
  <2> HIDE DEF s, t
  <2>4. s \in (Held(p.list) \cap Vertices) \cup {v} /\ t \in (Held(p.list) \cap Vertices) \cup {v}
    BY <1>16, <2>2 DEF s, t
  <2>5. CASE s = v
    <3>1. e \in EdgesUpto(with, from, Len(with.list)) BY <1>17, <2>2, <2>4, <2>5
    <3> QED BY <1>12, <1>14, <3>1
  <2>6. CASE s # v /\ t = v
    <3>1. e \in EdgesUpto(p, into, Len(p.list)) BY <1>17, <2>2, <2>4, <2>6
    <3> QED BY <1>7, <1>14, <2>3, <3>1
  <2>7. CASE s # v /\ t # v BY <1>14, <2>3, <2>4, <2>7 DEF Complete, s, t
  <2> QED BY <2>5, <2>6, <2>7
<1>22. Held(out.list) \subseteq Held(p.list) \cup {v} \cup ToSet(g.edges)
  <2>1. Held(arriving) \subseteq ToSet(g.edges) /\ Held(leaving) \subseteq ToSet(g.edges) BY <1>7, <1>12, <1>17
  <2> QED BY <1>14, <2>1
<1> QED BY <1>1, <1>11, <1>16, <1>20, <1>21, <1>22

Listing(f, g, order) ==
  f = [n \in 0 .. Len(order) |-> IF n = 0 THEN NewList ELSE PlaylistStep(g, f[n - 1], order[n])]

\* The play list of a graph holds its edges after their sources, each vertex
\* once, and if no loop went on in memory that was freed all of its edges.
LEMMA PlaylistInOrder ==
  ASSUME NEW g, HasEnds(g)
  PROVE  /\ Playlist(g) \in PlayLists /\ InOrder(Playlist(g).list)
         /\ Held(Playlist(g).list) \subseteq ToSet(g.vertices) \cup ToSet(g.edges)
         /\ Playlist(g).reading = "all" => ToSet(g.edges) \subseteq Held(Playlist(g).list)
<1> DEFINE order == VertexOrder(g)
           n == Len(order)
           Made(i, p) == /\ p \in PlayLists /\ InOrder(p.list) /\ Complete(p, g)
                         /\ Held(p.list) \subseteq ToSet(g.vertices) \cup ToSet(g.edges)
                         /\ Held(p.list) \cap Vertices = {order[j] : j \in 1 .. i}
           S == [i \in 0 .. n |-> {p \in PlayLists : Made(i, p)}]
           step == [i \in 1 .. n |-> [p \in S[i - 1] |-> PlaylistStep(g, p, order[i])]]
           f == CHOOSE f : Listing(f, g, order)
<1>1. /\ order \in Seq(Vertices) /\ NoneTwice(order) /\ Held(order) = ToSet(g.vertices)
  BY VertexOrderListsAll
<1>2. Playlist(g) = f[n] BY DEF Playlist, Listing
<1> HIDE DEF order, f
<1>3. n \in Nat /\ DOMAIN order = 1 .. n BY <1>1
<1>4. NewList \in S[0]
  <2>1. NewList \in PlayLists /\ NewList.list = <<>> BY DEF NewList, PlayLists
  <2>2. InOrder(<<>>) /\ Held(<<>>) = {} BY DEF InOrder, Held
  <2>3. Complete(NewList, g) BY <2>1, <2>2 DEF Complete
  <2>4. {order[j] : j \in 1 .. 0} = {} OBVIOUS
  <2>5. Made(0, NewList) BY <2>1, <2>2, <2>3, <2>4
  <2>6. 0 \in 0 .. n BY <1>3
  <2> QED BY <2>1, <2>5, <2>6
<1>5. ASSUME NEW i \in 1 .. n, NEW p \in S[i - 1] PROVE PlaylistStep(g, p, order[i]) \in S[i]
  <2>1. /\ i - 1 \in 0 .. n /\ i \in 0 .. n /\ order[i] \in Vertices
        /\ \A j : j \in 1 .. i <=> j \in 1 .. i - 1 \/ j = i
        /\ i \notin 1 .. i - 1 /\ i \in DOMAIN order /\ 1 .. i - 1 \subseteq DOMAIN order
    BY <1>1, <1>3
  <2>2. Made(i - 1, p) BY <2>1
  <2> DEFINE v == order[i]
             q == PlaylistStep(g, p, v)
  <2>3. v \notin Held(p.list)
    <3>1. \A j \in 1 .. i - 1 : order[j] # v BY <1>1, <2>1 DEF NoneTwice
    <3> QED BY <2>1, <2>2, <3>1
  <2>4. /\ q \in PlayLists /\ Held(q.list) \subseteq Held(p.list) \cup {v} \cup ToSet(g.edges)
        /\ InOrder(q.list) /\ Complete(q, g)
        /\ Held(q.list) \cap Vertices = (Held(p.list) \cap Vertices) \cup {v}
    <3> HIDE DEF v
    <3> QED BY <2>1, <2>2, <2>3, StepLists DEF v
  <2>5. {order[j] : j \in 1 .. i} = {order[j] : j \in 1 .. i - 1} \cup {v} BY <2>1
  <2>8. v \in ToSet(g.vertices) BY <1>1, <2>1 DEF Held
  <2> HIDE DEF q, v
  <2>6. Made(i, q) BY <2>2, <2>4, <2>5, <2>8
  <2> HIDE DEF Made
  <2>7. q \in S[i] BY <2>1, <2>4, <2>6
  <2> QED BY <2>7 DEF q, v
<1>6. Listing(f, g, order)
  <2>1. \A i \in 1 .. n : \A p \in S[i - 1] : step[i][p] = PlaylistStep(g, p, order[i]) OBVIOUS
  <2> HIDE DEF S, step
  <2>2. PICK k : Loops(k, n, NewList, step) /\ \A i \in 0 .. n : k[i] \in S[i]
    <3>1. \A i \in 1 .. n : \A p \in S[i - 1] : step[i][p] \in S[i] BY <1>5, <2>1, Zenon
    <3> QED BY <1>3, <1>4, <3>1, LoopRuns
  <2>3. \A i \in 1 .. n : step[i][k[i - 1]] = PlaylistStep(g, k[i - 1], order[i])
    <3>1. \A i \in 1 .. n : i - 1 \in 0 .. n BY <1>3
    <3> QED BY <2>1, <2>2, <3>1
  <2>4. k = [i \in 0 .. n |-> IF i = 0 THEN NewList ELSE PlaylistStep(g, k[i - 1], order[i])]
    <3>1. \A i \in 0 .. n : i # 0 => i \in 1 .. n BY <1>3
    <3> QED BY <2>2, <2>3, <3>1 DEF Loops
  <2>5. Listing(k, g, order) BY <2>4 DEF Listing
  <2> QED BY <2>5, Zenon DEF f
<1>7. f[0] = NewList /\ \A i \in 1 .. n : f[i] = PlaylistStep(g, f[i - 1], order[i])
  <2>1. \A i \in 1 .. n : i \in 0 .. n /\ i # 0 BY <1>3
  <2>2. 0 \in 0 .. n BY <1>3
  <2> QED BY <1>6, <2>1, <2>2 DEF Listing
<1>8. n \in 0 .. n BY <1>3
<1> HIDE DEF S
<1>9. \A i \in 0 .. n : f[i] \in S[i]
  <2>1. \A i \in 1 .. n : f[i - 1] \in S[i - 1] => f[i] \in S[i] BY <1>5, <1>7
  <2>2. f[0] \in S[0] BY <1>4, <1>7
  <2> QED BY <1>3, <2>1, <2>2, LoopKeeps
<1>10. Made(n, f[n]) BY <1>8, <1>9 DEF S
<1>11. ASSUME f[n].reading = "all", NEW e \in ToSet(g.edges) PROVE e \in Held(f[n].list)
  <2>1. EdgeEnds[e][1] \in Held(order) /\ EdgeEnds[e][2] \in Held(order) BY <1>1 DEF HasEnds
  <2>2. Held(order) = {order[j] : j \in 1 .. n} BY <1>3 DEF Held
  <2> QED BY <1>10, <1>11, <2>1, <2>2 DEF Complete
<1> QED BY <1>2, <1>10, <1>11

-----------------------------------------------------------------------------
(* The window with its graph.                                                  *)

\* A graph with its ids.
GraphInv(g) == HasEnds(g) /\ IdsOnce(g) /\ NodeIdsOnce(g)

\* The window starts with one.
LEMMA GraphStarts == GraphInv(FirstGraph)
<1> DEFINE vs == FirstGraph.vertices
           es == FirstGraph.edges
<1>1. /\ FirstGraph = GraphOf(vs, es) /\ vs \in Seq(Vertices) /\ es \in Seq(Edges)
      /\ IsInjective(vs) /\ IsInjective(es)
  BY StartAssumption
<1>2. NoneTwice(vs) /\ NoneTwice(es) BY <1>1 DEF IsInjective, NoneTwice
<1>3. /\ FirstGraph.freeNodes = <<>> /\ FirstGraph.freeArcs = <<>>
      /\ FirstGraph.vid = [v \in ToSet(vs) |-> Len(vs) - Place(vs, v)]
      /\ FirstGraph.eid = [e \in ToSet(es) |-> Len(es) - Place(es, e)]
  BY <1>1 DEF GraphOf
<1> HIDE DEF vs, es
<1>4. Numbered(vs, FirstGraph.vid, <<>>) /\ Numbered(es, FirstGraph.eid, <<>>) BY <1>1, <1>2, <1>3, NumberFirst
<1>5. DOMAIN FirstGraph.vid \subseteq Vertices BY <1>1, <1>3 DEF ToSet
<1> QED BY <1>3, <1>4, <1>5, EndsOfStart DEF GraphInv, IdsOnce, NodeIdsOnce, vs, es

\* Changes leave one.
LEMMA GraphChanges == GraphInv(graph) /\ ViewChange => GraphInv(graph')
<1> SUFFICES ASSUME GraphInv(graph), ViewChange PROVE GraphInv(graph') OBVIOUS
<1>1. HasEnds(graph) /\ IdsOnce(graph) /\ NodeIdsOnce(graph) BY DEF GraphInv
<1>2. /\ ToSet(graph.vertices) \subseteq DOMAIN graph.vid
      /\ ToSet(graph.edges) \subseteq DOMAIN graph.eid
  BY <1>1 DEF IdsOnce, NodeIdsOnce, Numbered
<1>3. ASSUME NEW v \in Vertices, AddVertex(v) PROVE GraphInv(graph')
  <2>1. v \notin ToSet(graph.vertices) /\ graph' = WithVertex(graph, v)
    BY <1>2, <1>3 DEF AddVertex, Notify
  <2> QED BY <1>1, <2>1, EndsWithVertex, IdsWithVertex DEF GraphInv
<1>4. ASSUME NEW v \in Vertices, RemoveVertex(v) PROVE GraphInv(graph')
  <2>1. v \in ToSet(graph.vertices) /\ graph' = WithoutVertex(graph, v) BY <1>4 DEF RemoveVertex, Notify
  <2> QED BY <1>1, <2>1, EndsWithoutVertex, IdsWithoutVertex, NodeIdsWithoutVertex DEF GraphInv
<1>5. ASSUME NEW e \in Edges, AddEdge(e) PROVE GraphInv(graph')
  <2>1. /\ e \notin ToSet(graph.edges) /\ graph' = WithEdge(graph, e)
        /\ ToSet(EdgeEnds[e]) \subseteq ToSet(graph.vertices)
    BY <1>2, <1>5 DEF AddEdge, Notify
  <2> QED BY <1>1, <2>1, EndsWithEdge, IdsWithEdge DEF GraphInv
<1>6. ASSUME NEW e \in Edges, RemoveEdge(e) PROVE GraphInv(graph')
  <2>1. e \in ToSet(graph.edges) /\ graph' = WithoutEdge(graph, e) BY <1>6 DEF RemoveEdge, Notify, Live
  <2> QED BY <1>1, <2>1, EndsWithoutEdge, IdsWithoutEdge DEF GraphInv
<1>7. CASE graph' = graph BY <1>7
<1> QED BY <1>3, <1>4, <1>5, <1>6, <1>7 DEF ViewChange, Move, MovesTo, SelectDot, SelectGrid, Shuffle, Redraw

\* The same is visible.
SeenAlike(w, x) ==
  /\ DOMAIN x.items = DOMAIN w.items /\ DOMAIN x.edgeItems = DOMAIN w.edgeItems
  /\ \A v \in DOMAIN w.items : x.items[v].visible = w.items[v].visible
  /\ \A e \in DOMAIN w.edgeItems : x.edgeItems[e].visible = w.edgeItems[e].visible

\* After a change everything is visible, or what was before.
LEMMA ChangeShows ==
  ASSUME ViewInv, ViewChange, connected, status' = "ok"
  PROVE  AllSeen(view') \/ (graph' = graph /\ SeenAlike(view, view'))
<1>1. status = "ok" BY DEF ViewChange, AddVertex, RemoveVertex, AddEdge, RemoveEdge, Move, MovesTo,
        SelectDot, SelectGrid, Shuffle, Redraw, Change
<1>2. HasEnds(graph) /\ Redrawn(view, graph) /\ IsScene(view) BY <1>1 DEF ViewInv, Redrawn
<1>3. connected' = connected BY DEF ViewChange, AddVertex, RemoveVertex, AddEdge, RemoveEdge, Notify,
        Move, MovesTo, SelectDot, SelectGrid, Shuffle, Redraw
<1>4. HasEnds(graph')
  <2>1. ViewInv' BY ViewChangeKeeps
  <2> QED BY <1>3, <2>1 DEF ViewInv
<1>5. ASSUME NEW g, Notify(g) PROVE AllSeen(view')
  <2>1. graph' = g /\ Shows(UpdateVisualization(view, g)) BY <1>5 DEF Notify
  <2> QED BY <1>2, <1>4, <2>1, ShowsRedrawn
<1>6. ASSUME NEW c, DOMAIN c \subseteq DOMAIN view.items, MovesTo(c)
      PROVE  graph' = graph /\ SeenAlike(view, view')
  <2>1. graph' = graph /\ view' = SetPos(view, graph, c) BY <1>1, <1>6 DEF MovesTo
  <2> DEFINE x == SetPos(view, graph, c)
  <2>2. /\ DOMAIN x.items = DOMAIN view.items /\ DOMAIN x.edgeItems = DOMAIN view.edgeItems
        /\ \A v \in DOMAIN view.items : x.items[v].visible = view.items[v].visible
        /\ \A e \in DOMAIN view.edgeItems : x.edgeItems[e].visible = view.edgeItems[e].visible
    BY <1>2, <1>6, PlaceItems
  <2> HIDE DEF x
  <2>3. SeenAlike(view, x) BY <2>2 DEF SeenAlike
  <2> QED BY <2>1, <2>3 DEF x, SeenAlike
<1>7. ASSUME NEW v \in Vertices, NEW p \in Positions \cup {Origin}, Move(v, p)
      PROVE  graph' = graph /\ SeenAlike(view, view')
  <2>1. DOMAIN Entry(v, p) \subseteq DOMAIN view.items /\ MovesTo(Entry(v, p)) BY <1>7 DEF Move, Entry
  <2> QED BY <1>6, <2>1
<1>8. ASSUME Shuffle PROVE graph' = graph /\ SeenAlike(view, view')
  <2>1. PICK c \in [DOMAIN view.items -> Positions \cup {Origin}] : MovesTo(c) BY <1>8 DEF Shuffle
  <2> QED BY <1>6, <2>1
<1>9. CASE SelectDot
  <2>1. PICK c : Shows(LaidOut(view, graph, c)) BY <1>9 DEF SelectDot, Then, LaidOut
  <2> QED BY <1>2, <2>1, ShowsLaidOut
<1>10. CASE SelectGrid
  <2>1. PICK cells \in GVLayout(graph) :
          LET coordinates == GridCoordinates(view, graph, cells)
              onGrid == SetPos(view, graph,
                               Restrict(coordinates, ToSet(graph.vertices) \cap DOMAIN view.items))
          IN Shows(LaidOut(onGrid, graph, coordinates))
    BY <1>10 DEF SelectGrid, Then, LaidOut
  <2> DEFINE coordinates == GridCoordinates(view, graph, cells)
             there == Restrict(coordinates, ToSet(graph.vertices) \cap DOMAIN view.items)
             onGrid == SetPos(view, graph, there)
  <2>2. DOMAIN there \subseteq DOMAIN view.items BY DEF Restrict
  <2>3. IsScene(onGrid) BY <1>2, <2>2, PlaceItems
  <2>4. Shows(LaidOut(onGrid, graph, coordinates)) BY <2>1
  <2> HIDE DEF onGrid, coordinates
  <2> QED BY <1>2, <2>3, <2>4, ShowsLaidOut
<1>11. CASE Redraw BY <1>2, <1>11, ShowsRedrawn DEF Redraw
<1> QED BY <1>5, <1>7, <1>8, <1>9, <1>10, <1>11 DEF ViewChange, AddVertex, RemoveVertex, AddEdge, RemoveEdge

-----------------------------------------------------------------------------
(* A player that shows a graph.                                                *)

\* The element of its i-th signal, and the signal while ids are the old ones.
Nth(list, i) == IF i <= Len(list) THEN list[i] ELSE list[i - Len(list)]
SignalOf(p, i) == [kind |-> Nth(p.list, i) \in Vertices, id |-> IdsIn(p.of)[Nth(p.list, i)],
                   visible |-> i > Len(p.list)]

\* Of the signals after the k-th and up to the r-th one hid an element, and none
\* showed it.
HiddenSince(list, k, r, x) ==
  /\ \E i \in k + 1 .. r : i <= Len(list) /\ list[i] = x
  /\ \A i \in k + 1 .. r : i > Len(list) => list[i - Len(list)] # x

\* These signals alone tell what is visible.
Shown(w, list, k, r) ==
  /\ \A v \in DOMAIN w.items : w.items[v].visible = IF HiddenSince(list, k, r, v) THEN FALSE ELSE TRUE
  /\ \A e \in DOMAIN w.edgeItems : w.edgeItems[e].visible = IF HiddenSince(list, k, r, e) THEN FALSE ELSE TRUE

IsList(s) == \E S : s \in Seq(S)

\* Whatever was redrawn, of what the window has received it tells what it was
\* since the last time.
OnePlay(p) ==
  /\ p = [list |-> p.list, whole |-> p.whole, show |-> p.show, next |-> p.next,
          of |-> p.of, steady |-> p.steady, left |-> p.left]
  /\ p.list \in Seq(Listed) /\ InOrder(p.list)
  /\ Held(p.list) \subseteq ToSet(p.of.vertices) \cup ToSet(p.of.edges)
  /\ p.whole => ToSet(p.of.edges) \subseteq Held(p.list)
  /\ p.next \in 1 .. 2 * Len(p.list) + 1 /\ p.show \in BOOLEAN
  /\ p.next - 1 - Len(signals) \in Nat
  /\ p.show /\ p.steady =>
       LET r == p.next - 1 - Len(signals) IN
       /\ \A j \in 1 .. Len(signals) : signals[j] = SignalOf(p, r + j)
       /\ graph = p.of => \E k \in 0 .. r : Shown(view, p.list, k, r)

PlayInv ==
  status = "ok" /\ connected =>
    /\ GraphInv(graph) /\ IsList(signals) /\ IsList(plays)
    /\ plays = <<>> => signals = <<>> /\ AllSeen(view)
    /\ Len(plays) = 1 => OnePlay(plays[1])

\* What a further signal hides or shows.
LEMMA SignalShows ==
  ASSUME NEW A, NEW list \in Seq(A), NEW r \in Nat, NEW k \in 0 .. r, r + 1 <= 2 * Len(list), NEW x
  PROVE  HiddenSince(list, k, r + 1, x) <=>
           IF x = Nth(list, r + 1) THEN r + 1 <= Len(list) ELSE HiddenSince(list, k, r, x)
<1>1. Len(list) \in Nat OBVIOUS
<1>2. \A i : i \in k + 1 .. r + 1 <=> i \in k + 1 .. r \/ i = r + 1 OBVIOUS
<1>3. CASE r + 1 <= Len(list)
  <2>1. Nth(list, r + 1) = list[r + 1] BY <1>3 DEF Nth
  <2>2. \A i \in k + 1 .. r + 1 : ~(i > Len(list)) BY <1>1, <1>3
  <2>3. \A i \in k + 1 .. r : ~(i > Len(list)) BY <1>1, <1>3
  <2> QED BY <1>2, <1>3, <2>1, <2>2, <2>3 DEF HiddenSince
<1>4. CASE r + 1 > Len(list)
  <2>1. Nth(list, r + 1) = list[(r + 1) - Len(list)] /\ ~(r + 1 <= Len(list)) BY <1>1, <1>4 DEF Nth
  <2> QED BY <1>2, <1>4, <2>1 DEF HiddenSince
<1> QED BY <1>1, <1>3, <1>4

\* What a signal does to the view.
Received(w, x, g, s) ==
  /\ DOMAIN x.items = DOMAIN w.items /\ DOMAIN x.edgeItems = DOMAIN w.edgeItems
  /\ \A v \in DOMAIN w.items :
       x.items[v] = IF s.kind /\ v \in ToSet(g.vertices) /\ g.vid[v] = s.id
                    THEN [w.items[v] EXCEPT !.visible = s.visible] ELSE w.items[v]
  /\ \A e \in DOMAIN w.edgeItems :
       x.edgeItems[e] = IF ~s.kind /\ Live(g, e) /\ g.eid[e] = s.id
                        THEN [w.edgeItems[e] EXCEPT !.visible = s.visible] ELSE w.edgeItems[e]

\* The window that receives the next signal shows it on the element it was sent
\* for.
LEMMA SignalReceived ==
  ASSUME NEW w, NEW g, GraphInv(g), Redrawn(w, g),
         NEW list \in Seq(Listed), Held(list) \subseteq ToSet(g.vertices) \cup ToSet(g.edges),
         NEW r \in Nat, NEW k \in 0 .. r, r + 1 <= 2 * Len(list), Shown(w, list, k, r),
         NEW s, NEW x, s.kind = (Nth(list, r + 1) \in Vertices),
         s.id = IdsIn(g)[Nth(list, r + 1)], s.visible = (r + 1 > Len(list)), Received(w, x, g, s)
  PROVE  Shown(x, list, k, r + 1)
<1> DEFINE z == Nth(list, r + 1)
<1>1. z \in ToSet(g.vertices) \cup ToSet(g.edges)
  <2>1. Len(list) \in Nat /\ DOMAIN list = 1 .. Len(list) OBVIOUS
  <2>2. CASE r + 1 <= Len(list)
    <3>1. r + 1 \in DOMAIN list /\ z = list[r + 1] BY <2>1, <2>2 DEF Nth
    <3> QED BY <3>1 DEF Held
  <2>3. CASE ~(r + 1 <= Len(list))
    <3>1. (r + 1) - Len(list) \in DOMAIN list BY <2>1, <2>3
    <3>2. z = list[(r + 1) - Len(list)] BY <2>3 DEF Nth
    <3> QED BY <3>1, <3>2 DEF Held
  <2> QED BY <2>2, <2>3
<1>2. /\ HasEnds(g) /\ Numbered(g.vertices, g.vid, g.freeNodes) /\ DOMAIN g.vid \subseteq Vertices
      /\ Numbered(g.edges, g.eid, g.freeArcs)
  BY DEF GraphInv, IdsOnce, NodeIdsOnce
<1>3. /\ ToSet(g.vertices) \subseteq Vertices /\ ToSet(g.edges) \subseteq Edges BY <1>2 DEF HasEnds, ToSet
<1>4. /\ \A v \in ToSet(g.vertices) : IdsIn(g)[v] = g.vid[v]
      /\ \A e \in ToSet(g.edges) : IdsIn(g)[e] = g.eid[e]
  <2>1. ToSet(g.vertices) \subseteq DOMAIN g.vid /\ ToSet(g.edges) \subseteq DOMAIN g.eid BY <1>2 DEF Numbered
  <2>2. \A e \in ToSet(g.edges) : e \notin DOMAIN g.vid BY <1>2, <1>3, PlayerAssumption
  <2> QED BY <2>1, <2>2 DEF IdsIn, Over
<1> HIDE DEF z
<1>5. DOMAIN w.items = ToSet(g.vertices) /\ DOMAIN w.edgeItems = ToSet(g.edges)
      /\ (\A v \in DOMAIN w.items : IsItem(w.items[v])) /\ (\A e \in DOMAIN w.edgeItems : IsLine(w.edgeItems[e]))
  BY DEF Redrawn, Populated, IsScene
<1>6. s.kind = (z \in Vertices) /\ s.id = IdsIn(g)[z] /\ s.visible = (r + 1 > Len(list)) BY DEF z
<1>7. \A y : HiddenSince(list, k, r + 1, y) <=>
               IF y = z THEN r + 1 <= Len(list) ELSE HiddenSince(list, k, r, y)
  BY SignalShows DEF z
<1>8. s.visible = IF r + 1 <= Len(list) THEN FALSE ELSE TRUE
  <2> DEFINE early == r + 1 <= Len(list)
             late == r + 1 > Len(list)
  <2>1. late \in BOOLEAN /\ (early <=> ~late)
    <3>1. Len(list) \in Nat OBVIOUS
    <3> QED BY <3>1
  <2>2. s.visible = late BY <1>6
  <2> HIDE DEF early, late
  <2>3. s.visible = IF early THEN FALSE ELSE TRUE BY <2>1, <2>2
  <2> QED BY <2>3 DEF early
<1>9. ASSUME NEW v \in DOMAIN w.items
      PROVE  x.items[v].visible = IF HiddenSince(list, k, r + 1, v) THEN FALSE ELSE TRUE
  <2>1. s.kind /\ v \in ToSet(g.vertices) /\ g.vid[v] = s.id <=> v = z
    <3>1. CASE z \in ToSet(g.vertices)
      <4>1. s.kind /\ s.id = g.vid[z] BY <1>3, <1>4, <1>6, <3>1
      <4> QED BY <1>2, <1>5, <3>1, <4>1 DEF Numbered
    <3>2. CASE z \notin ToSet(g.vertices)
      <4>1. ~s.kind /\ v # z BY <1>1, <1>3, <1>5, <1>6, <3>2, PlayerAssumption
      <4> QED BY <4>1
    <3> QED BY <3>1, <3>2
  <2>2. CASE v = z
    <3>1. x.items[v].visible = s.visible
      <4>1. x.items[v] = [w.items[v] EXCEPT !.visible = s.visible] BY <2>1, <2>2 DEF Received
      <4> QED BY <1>5, <4>1 DEF IsItem
    <3> QED BY <1>7, <1>8, <2>2, <3>1
  <2>3. CASE v # z
    <3>1. x.items[v] = w.items[v] BY <2>1, <2>3 DEF Received
    <3> QED BY <1>7, <2>3, <3>1 DEF Shown
  <2> QED BY <2>2, <2>3
<1>10. ASSUME NEW e \in DOMAIN w.edgeItems
       PROVE  x.edgeItems[e].visible = IF HiddenSince(list, k, r + 1, e) THEN FALSE ELSE TRUE
  <2>1. ~s.kind /\ Live(g, e) /\ g.eid[e] = s.id <=> e = z
    <3>1. CASE z \in ToSet(g.edges)
      <4>1. ~s.kind /\ s.id = g.eid[z] BY <1>3, <1>4, <1>6, <3>1, PlayerAssumption
      <4> QED BY <1>2, <1>5, <3>1, <4>1 DEF Numbered, Live
    <3>2. CASE z \notin ToSet(g.edges)
      <4>1. s.kind /\ e # z BY <1>1, <1>3, <1>5, <1>6, <3>2
      <4> QED BY <4>1
    <3> QED BY <3>1, <3>2
  <2>2. CASE e = z
    <3>1. x.edgeItems[e].visible = s.visible
      <4>1. x.edgeItems[e] = [w.edgeItems[e] EXCEPT !.visible = s.visible] BY <2>1, <2>2 DEF Received
      <4> QED BY <1>5, <4>1 DEF IsLine
    <3> QED BY <1>7, <1>8, <2>2, <3>1
  <2>3. CASE e # z
    <3>1. x.edgeItems[e] = w.edgeItems[e] BY <2>1, <2>3 DEF Received
    <3> QED BY <1>7, <2>3, <3>1 DEF Shown
  <2> QED BY <2>2, <2>3
<1> QED BY <1>9, <1>10 DEF Shown, Received

\* Everything is visible if nothing was hidden.
LEMMA ShownAll ==
  ASSUME NEW w, AllSeen(w), NEW list, NEW r \in Nat
  PROVE  Shown(w, list, r, r)
<1>1. r + 1 .. r = {} OBVIOUS
<1> QED BY <1>1 DEF Shown, HiddenSince, AllSeen

\* A change of the window leaves the player its order.
LEMMA PlayChanges == ViewInv /\ PlayInv /\ ViewChange /\ UNCHANGED playerVars => PlayInv'
<1> SUFFICES ASSUME ViewInv, PlayInv, ViewChange, UNCHANGED playerVars, (status = "ok")', connected'
             PROVE  (/\ GraphInv(graph) /\ IsList(signals) /\ IsList(plays)
                     /\ plays = <<>> => signals = <<>> /\ AllSeen(view)
                     /\ Len(plays) = 1 => OnePlay(plays[1]))'
  BY DEF PlayInv
<1>1. status = "ok" /\ connected
  BY DEF ViewChange, AddVertex, RemoveVertex, AddEdge, RemoveEdge, Notify,
         Move, MovesTo, SelectDot, SelectGrid, Shuffle, Redraw, Change
<1>2. /\ GraphInv(graph) /\ IsList(signals) /\ IsList(plays)
      /\ plays = <<>> => signals = <<>> /\ AllSeen(view)
      /\ Len(plays) = 1 => OnePlay(plays[1])
  BY <1>1 DEF PlayInv
<1>3. AllSeen(view') \/ (graph' = graph /\ SeenAlike(view, view')) BY <1>1, ChangeShows
<1>4. GraphInv(graph') BY <1>2, GraphChanges
<1>5. plays' = plays /\ signals' = signals BY DEF playerVars
<1>6. GraphInv(graph)'
  BY <1>4 DEF GraphInv, HasEnds, IdsOnce, NodeIdsOnce, Numbered, IdsOf
<1>7. IsList(signals)' /\ IsList(plays)' BY <1>2, <1>5 DEF IsList
<1>8. (plays = <<>> => signals = <<>> /\ AllSeen(view))'
  BY <1>2, <1>3, <1>5 DEF AllSeen, SeenAlike
<1>9. ASSUME (Len(plays) = 1)' PROVE OnePlay(plays[1])'
  <2> DEFINE p == plays[1]
             r == p.next - 1 - Len(signals)
  <2>1. OnePlay(p) /\ p = plays'[1] BY <1>2, <1>5, <1>9
  <2> HIDE DEF p
  <2>2. r \in Nat BY <2>1 DEF OnePlay
  <2>3. ASSUME p.show, p.steady, graph' = p.of PROVE \E k \in 0 .. r : Shown(view', p.list, k, r)
    <3>1. CASE AllSeen(view')
      <4>1. Shown(view', p.list, r, r) BY <2>2, <3>1, ShownAll
      <4>2. r \in 0 .. r BY <2>2
      <4> QED BY <4>1, <4>2
    <3>2. CASE graph' = graph /\ SeenAlike(view, view')
      <4>1. PICK k \in 0 .. r : Shown(view, p.list, k, r) BY <2>1, <2>3, <3>2 DEF OnePlay
      <4>2. Shown(view', p.list, k, r) BY <3>2, <4>1 DEF Shown, SeenAlike
      <4> QED BY <4>2
    <3> QED BY <1>3, <3>1, <3>2
  <2>4. /\ \A j \in 1 .. Len(signals') : p.show /\ p.steady => signals'[j] = SignalOf(p, r + j)
        /\ p.next - 1 - Len(signals') \in Nat /\ r = p.next - 1 - Len(signals')
    BY <1>5, <2>1 DEF OnePlay
  <2> QED BY <2>1, <2>3, <2>4 DEF OnePlay, p
<1> QED BY <1>6, <1>7, <1>8, <1>9

\* A thread that sends its next signal.
LEMMA ThreadKeepsOrder ==
  ASSUME PlayInv, NEW i \in DOMAIN plays, ThreadStep(i)
  PROVE  PlayInv'
<1> SUFFICES ASSUME (status = "ok")', connected'
             PROVE  (/\ GraphInv(graph) /\ IsList(signals) /\ IsList(plays)
                     /\ plays = <<>> => signals = <<>> /\ AllSeen(view)
                     /\ Len(plays) = 1 => OnePlay(plays[1]))'
  BY DEF PlayInv
<1>1. status = "ok" /\ connected /\ graph' = graph /\ view' = view BY DEF ThreadStep
<1>2. /\ GraphInv(graph) /\ IsList(signals) /\ IsList(plays)
      /\ plays = <<>> => signals = <<>> /\ AllSeen(view)
      /\ Len(plays) = 1 => OnePlay(plays[1])
  BY <1>1 DEF PlayInv
<1> DEFINE p == plays[i]
           x == Sent(p).element
           ids == IdsIn(GraphOfPlay(p))
           s == [kind |-> x \in Vertices, id |-> ids[x], visible |-> Sent(p).visible]
           q == [p EXCEPT !.next = @ + 1, !.steady = @ /\ ids[x] = IdsIn(p.of)[x]]
<1>3. signals' = Append(signals, s) /\ plays' = [plays EXCEPT ![i] = q] /\ ~Done(p)
  BY <1>1 DEF ThreadStep
<1>4. PICK S : signals \in Seq(S) BY <1>2 DEF IsList
<1>5. PICK P : plays \in Seq(P) BY <1>2 DEF IsList
<1> HIDE DEF s, q
<1>6. signals' \in Seq(S \cup {s}) /\ Len(signals') = Len(signals) + 1
      /\ (\A j \in 1 .. Len(signals) : signals'[j] = signals[j]) /\ signals'[Len(signals) + 1] = s
  <2>1. signals \in Seq(S \cup {s}) BY <1>4
  <2> QED BY <1>3, <2>1
<1>7. plays' \in Seq(P \cup {q}) /\ Len(plays') = Len(plays)
  <2>1. plays \in Seq(P \cup {q}) /\ DOMAIN plays = 1 .. Len(plays) BY <1>5
  <2>2. plays' \in Seq(P \cup {q}) BY <1>3, <2>1
  <2>3. DOMAIN plays' = DOMAIN plays BY <1>3
  <2> QED BY <2>1, <2>2, <2>3
<1>8. GraphInv(graph)'
  <2>1. GraphInv(graph') BY <1>1, <1>2
  <2> QED BY <2>1 DEF GraphInv, HasEnds, IdsOnce, NodeIdsOnce, Numbered, IdsOf
<1>9. plays' # <<>>
  <2>1. Len(plays) # 0 BY <1>5
  <2> QED BY <1>7, <2>1
<1>10. ASSUME (Len(plays) = 1)' PROVE OnePlay(plays[1])'
  <2>1. i = 1 /\ Len(plays) = 1
    <3>1. DOMAIN plays = 1 .. Len(plays) BY <1>5
    <3>2. Len(plays) = 1 BY <1>7, <1>10
    <3> QED BY <3>1, <3>2
  <2>2. OnePlay(p) /\ plays'[1] = q
    <3>1. OnePlay(plays[1]) BY <1>2, <2>1
    <3>2. 1 \in DOMAIN plays BY <2>1
    <3> QED BY <1>3, <2>1, <3>1, <3>2
  <2> DEFINE n == Len(p.list)
             m == Len(signals)
             r == p.next - 1 - m
  <2> HIDE DEF p, ids, x
  <2>3. /\ p.list \in Seq(Listed) /\ p.next \in 1 .. 2 * n + 1 /\ r \in Nat /\ n \in Nat /\ m \in Nat
        /\ p.show \in BOOLEAN
    BY <1>4, <2>2 DEF OnePlay
  <2>4. /\ q = [list |-> p.list, whole |-> p.whole, show |-> p.show, next |-> p.next + 1, of |-> p.of,
                steady |-> (p.steady /\ ids[x] = IdsIn(p.of)[x]), left |-> p.left]
    BY <2>2 DEF OnePlay, q
  <2>5. /\ q.list = p.list /\ q.whole = p.whole /\ q.show = p.show /\ q.next = p.next + 1 /\ q.of = p.of
        /\ q.left = p.left /\ q.steady = (p.steady /\ ids[x] = IdsIn(p.of)[x])
    BY <2>4
  <2>6. q.next \in 1 .. 2 * n + 1
    <3>1. ~(p.next > 2 * n) BY <1>3 DEF Done
    <3> QED BY <2>3, <2>5, <3>1
  <2>7. q.next - 1 - Len(signals') = r BY <1>6, <2>3, <2>5
  <2>8. ASSUME q.show, q.steady, NEW j \in 1 .. Len(signals') PROVE signals'[j] = SignalOf(q, r + j)
    <3>1. p.show = TRUE /\ p.steady /\ ids[x] = IdsIn(p.of)[x] BY <2>3, <2>5, <2>8
    <3>2. \A h : SignalOf(q, h) = SignalOf(p, h) BY <2>5 DEF SignalOf
    <3>3. CASE j \in 1 .. m
      <4>1. signals[j] = SignalOf(p, r + j) BY <2>2, <3>1, <3>3 DEF OnePlay
      <4> QED BY <1>6, <3>2, <3>3, <4>1
    <3>4. CASE j \notin 1 .. m
      <4>1. j = m + 1 /\ r + j = p.next BY <1>6, <2>3, <3>4
      <4>2. x = Nth(p.list, p.next) BY <2>3, <3>1 DEF x, Sent, Nth
      <4>3. Sent(p).visible = (p.next > n)
        <5> DEFINE late == p.next > n
        <5>1. late \in BOOLEAN OBVIOUS
        <5>2. Sent(p).visible = (late = p.show) BY DEF Sent
        <5> HIDE DEF late
        <5>3. (late = TRUE) = late BY <5>1
        <5>4. Sent(p).visible = late BY <3>1, <5>2, <5>3
        <5> QED BY <5>4 DEF late
      <4>4. s = SignalOf(p, p.next) BY <3>1, <4>2, <4>3 DEF s, SignalOf
      <4> QED BY <1>6, <3>2, <4>1, <4>4
    <3> QED BY <3>3, <3>4
  <2>9. ASSUME q.show, q.steady, graph' = q.of PROVE \E k \in 0 .. r : Shown(view', q.list, k, r)
    <3>1. p.show /\ p.steady BY <2>5, <2>9
    <3>2. PICK k \in 0 .. r : Shown(view, p.list, k, r) BY <1>1, <2>2, <2>5, <2>9, <3>1 DEF OnePlay
    <3> QED BY <1>1, <2>5, <3>2
  <2>10. /\ q = [list |-> q.list, whole |-> q.whole, show |-> q.show, next |-> q.next,
                 of |-> q.of, steady |-> q.steady, left |-> q.left]
    BY <2>4, <2>5
  <2>11. /\ q.list \in Seq(Listed) /\ InOrder(q.list)
         /\ Held(q.list) \subseteq ToSet(q.of.vertices) \cup ToSet(q.of.edges)
         /\ q.whole => ToSet(q.of.edges) \subseteq Held(q.list)
         /\ q.show \in BOOLEAN
    BY <2>2, <2>5 DEF OnePlay
  <2> HIDE DEF r
  <2>12. q.next \in 1 .. 2 * Len(q.list) + 1 BY <2>5, <2>6
  <2> QED BY <2>2, <2>3, <2>7, <2>8, <2>9, <2>10, <2>11, <2>12 DEF OnePlay
<1> QED BY <1>6, <1>7, <1>8, <1>9, <1>10 DEF IsList

\* The window that receives one.
LEMMA ReceiveKeepsOrder == ViewInv /\ PlayInv /\ Receive => PlayInv'
<1> SUFFICES ASSUME ViewInv, PlayInv, Receive, (status = "ok")', connected'
             PROVE  (/\ GraphInv(graph) /\ IsList(signals) /\ IsList(plays)
                     /\ plays = <<>> => signals = <<>> /\ AllSeen(view)
                     /\ Len(plays) = 1 => OnePlay(plays[1]))'
  BY DEF PlayInv
<1>1. status = "ok" /\ connected /\ graph' = graph /\ plays' = plays /\ signals # <<>>
      /\ signals' = Tail(signals)
  BY DEF Receive
<1>2. /\ GraphInv(graph) /\ IsList(signals) /\ IsList(plays)
      /\ plays = <<>> => signals = <<>> /\ AllSeen(view)
      /\ Len(plays) = 1 => OnePlay(plays[1])
  BY <1>1 DEF PlayInv
<1>3. GraphInv(graph)'
  <2>1. GraphInv(graph') BY <1>1, <1>2
  <2> QED BY <2>1 DEF GraphInv, HasEnds, IdsOnce, NodeIdsOnce, Numbered, IdsOf
<1>4. PICK S : signals \in Seq(S) BY <1>2 DEF IsList
<1>5. /\ signals' \in Seq(S) /\ Len(signals') = Len(signals) - 1 /\ Len(signals) \in Nat \ {0}
      /\ \A j \in 1 .. Len(signals') : signals'[j] = signals[j + 1]
      /\ Head(signals) = signals[1]
  BY <1>1, <1>4
<1>6. Redrawn(view, graph) /\ HasEnds(graph) BY <1>1 DEF ViewInv
<1> DEFINE s == Head(signals)
<1>7. ASSUME s.kind \in BOOLEAN PROVE Received(view, view', graph, s)
  <2>1. view' = IF s.kind THEN SetVertexVisible(view, s) ELSE SetEdgeVisible(view, s)
    BY <1>1 DEF Receive, Unknown
  <2>2. PICK i, l, k : view = [items |-> i, edgeItems |-> l, mItemCoordinateCache |-> k, crashed |-> FALSE]
    BY <1>6 DEF Redrawn, IsScene
  <2>3. view.items = i /\ view.edgeItems = l /\ view.mItemCoordinateCache = k BY <2>2
  <2> HIDE DEF s
  <2>4. CASE s.kind
    <3> DEFINE j == [v \in DOMAIN i |->
                       IF v \in ToSet(graph.vertices) /\ graph.vid[v] = s.id
                       THEN [i[v] EXCEPT !.visible = s.visible] ELSE i[v]]
    <3>1. view' = [view EXCEPT !.items = j] BY <2>1, <2>3, <2>4 DEF SetVertexVisible
    <3>2. DOMAIN j = DOMAIN i /\ \A v \in DOMAIN i :
            j[v] = IF v \in ToSet(graph.vertices) /\ graph.vid[v] = s.id
                   THEN [i[v] EXCEPT !.visible = s.visible] ELSE i[v]
      OBVIOUS
    <3> HIDE DEF j
    <3>3. view'.items = j /\ view'.edgeItems = l BY <2>2, <3>1
    <3> QED BY <2>3, <2>4, <3>2, <3>3 DEF Received
  <2>5. CASE ~s.kind
    <3> DEFINE j == [e \in DOMAIN l |->
                       IF Live(graph, e) /\ graph.eid[e] = s.id
                       THEN [l[e] EXCEPT !.visible = s.visible] ELSE l[e]]
    <3>1. view' = [view EXCEPT !.edgeItems = j] BY <2>1, <2>3, <2>5 DEF SetEdgeVisible
    <3>2. DOMAIN j = DOMAIN l /\ \A e \in DOMAIN l :
            j[e] = IF Live(graph, e) /\ graph.eid[e] = s.id
                   THEN [l[e] EXCEPT !.visible = s.visible] ELSE l[e]
      OBVIOUS
    <3> HIDE DEF j
    <3>3. view'.items = i /\ view'.edgeItems = j BY <2>2, <3>1
    <3> QED BY <2>3, <2>5, <3>2, <3>3 DEF Received
  <2> QED BY <1>7, <2>4, <2>5
<1>8. ASSUME (Len(plays) = 1)' PROVE OnePlay(plays[1])'
  <2> DEFINE p == plays[1]
             n == Len(p.list)
             r == p.next - 1 - Len(signals)
  <2>1. OnePlay(p) /\ p = plays'[1] BY <1>1, <1>2, <1>8
  <2> HIDE DEF p
  <2>2. r \in Nat /\ p.list \in Seq(Listed) /\ p.next \in 1 .. 2 * n + 1 /\ n \in Nat BY <2>1 DEF OnePlay
  <2>3. p.next - 1 - Len(signals') = r + 1 /\ r + 1 <= 2 * n /\ r + 1 \in Nat
    <3>1. p.next \in Int /\ p.next <= 2 * n + 1 BY <2>2
    <3>2. Len(signals') = Len(signals) - 1 /\ Len(signals) \in Int /\ Len(signals) >= 1 BY <1>5
    <3> DEFINE a == p.next
               b == Len(signals)
    <3>3. /\ r = a - 1 - b /\ a \in Int /\ b \in Int /\ b >= 1 /\ a <= 2 * n + 1
          /\ p.next - 1 - Len(signals') = a - 1 - (b - 1)
      BY <3>1, <3>2
    <3> HIDE DEF a, b, r
    <3>4. a - 1 - (b - 1) = r + 1 /\ r + 1 <= 2 * n BY <2>2, <3>3
    <3> QED BY <2>2, <3>3, <3>4
  <2>4. ASSUME p.show, p.steady, NEW j \in 1 .. Len(signals') PROVE signals'[j] = SignalOf(p, r + 1 + j)
    <3>1. j + 1 \in 1 .. Len(signals) BY <1>5
    <3>2. signals[j + 1] = SignalOf(p, r + (j + 1)) BY <2>1, <2>4, <3>1 DEF OnePlay
    <3>3. r + (j + 1) = r + 1 + j
      <4>1. j \in Int /\ r \in Int BY <1>5, <2>2
      <4> HIDE DEF r
      <4> QED BY <4>1
    <3> QED BY <1>5, <3>2, <3>3
  <2>5. ASSUME p.show, p.steady, graph' = p.of
        PROVE  \E k \in 0 .. r + 1 : Shown(view', p.list, k, r + 1)
    <3>1. s = SignalOf(p, r + 1)
      <4>1. 1 \in 1 .. Len(signals) BY <1>5
      <4> QED BY <1>5, <2>1, <2>5, <4>1 DEF OnePlay
    <3>2. PICK k \in 0 .. r : Shown(view, p.list, k, r) BY <1>1, <2>1, <2>5 DEF OnePlay
    <3>3. /\ s.kind = (Nth(p.list, r + 1) \in Vertices) /\ s.id = IdsIn(graph)[Nth(p.list, r + 1)]
          /\ s.visible = (r + 1 > Len(p.list))
      BY <1>1, <2>5, <3>1 DEF SignalOf
    <3>4. Held(p.list) \subseteq ToSet(graph.vertices) \cup ToSet(graph.edges)
      BY <1>1, <2>1, <2>5 DEF OnePlay
    <3> HIDE DEF s, r
    <3>5. s.kind \in BOOLEAN BY <3>3
    <3>6. Received(view, view', graph, s) BY <1>7, <3>5 DEF s
    <3>7. Shown(view', p.list, k, r + 1)
      BY <1>2, <1>6, <2>2, <2>3, <3>2, <3>3, <3>4, <3>6, SignalReceived
    <3>8. k \in 0 .. r + 1 BY <2>2
    <3> QED BY <3>7, <3>8
  <2> HIDE DEF r
  <2> QED BY <2>1, <2>3, <2>4, <2>5 DEF OnePlay
<1>9. plays' # <<>> BY <1>1, <1>2
<1>10. IsList(signals)' /\ IsList(plays)' BY <1>1, <1>2, <1>5 DEF IsList
<1> QED BY <1>3, <1>8, <1>9, <1>10

\* A player that is started lists what is shown.
LEMMA PlayStarts ==
  ASSUME ViewInv, PlayInv, NEW show \in BOOLEAN, PlayGraph(show)
  PROVE  PlayInv'
<1> SUFFICES ASSUME (status = "ok")', connected'
             PROVE  (/\ GraphInv(graph) /\ IsList(signals) /\ IsList(plays)
                     /\ plays = <<>> => signals = <<>> /\ AllSeen(view)
                     /\ Len(plays) = 1 => OnePlay(plays[1]))'
  BY DEF PlayInv
<1> DEFINE q == NewPlay(show, Playlist(graph))
<1>1. /\ status = "ok" /\ connected /\ graph' = graph /\ view' = view /\ signals' = signals
      /\ plays' = Append(plays, q)
  BY DEF PlayGraph
<1>2. /\ GraphInv(graph) /\ IsList(signals) /\ IsList(plays)
      /\ plays = <<>> => signals = <<>> /\ AllSeen(view)
  BY <1>1 DEF PlayInv
<1>3. GraphInv(graph)'
  <2>1. GraphInv(graph') BY <1>1, <1>2
  <2> QED BY <2>1 DEF GraphInv, HasEnds, IdsOnce, NodeIdsOnce, Numbered, IdsOf
<1> HIDE DEF q
<1>4. PICK P : plays \in Seq(P) BY <1>2 DEF IsList
<1>5. /\ plays' \in Seq(P \cup {q}) /\ Len(plays') = Len(plays) + 1 /\ Len(plays) \in Nat
      /\ plays'[Len(plays) + 1] = q
  <2>1. plays \in Seq(P \cup {q}) BY <1>4
  <2> QED BY <1>1, <2>1
<1>6. plays' # <<>> BY <1>5
<1>7. ASSUME (Len(plays) = 1)' PROVE OnePlay(plays[1])'
  <2>1. plays = <<>> /\ plays'[1] = q BY <1>4, <1>5, <1>7
  <2>2. signals = <<>> /\ AllSeen(view) BY <1>2, <2>1
  <2> DEFINE l == Playlist(graph)
  <2>3. HasEnds(graph) BY <1>2 DEF GraphInv
  <2>4. /\ l \in PlayLists /\ InOrder(l.list)
        /\ Held(l.list) \subseteq ToSet(graph.vertices) \cup ToSet(graph.edges)
        /\ l.reading = "all" => ToSet(graph.edges) \subseteq Held(l.list)
    BY <2>3, PlaylistInOrder
  <2>5. q = [list |-> l.list, whole |-> (l.reading = "all"), show |-> show, next |-> 1,
             of |-> graph, steady |-> TRUE, left |-> <<>>]
    BY DEF q, NewPlay
  <2> HIDE DEF l
  <2>6. /\ q.list = l.list /\ q.whole = (l.reading = "all") /\ q.show = show /\ q.next = 1
        /\ q.of = graph /\ q.steady = TRUE /\ q.left = <<>>
    BY <2>5
  <2>7. q.list \in Seq(Listed) /\ Len(q.list) \in Nat BY <2>4, <2>6 DEF PlayLists
  <2>8. q.next \in 1 .. 2 * Len(q.list) + 1 BY <2>6, <2>7
  <2>9. Len(signals') = 0 /\ q.next - 1 - Len(signals') = 0 /\ 1 .. Len(signals') = {}
    <3>1. signals' = <<>> BY <1>1, <2>2
    <3>2. Len(signals') = 0 BY <3>1
    <3> QED BY <2>6, <3>2
  <2>10. \E k \in 0 .. 0 : Shown(view', q.list, k, 0)
    <3>1. Shown(view, q.list, 0, 0) BY <2>2, ShownAll
    <3> QED BY <1>1, <3>1
  <2>11. q = [list |-> q.list, whole |-> q.whole, show |-> q.show, next |-> q.next,
              of |-> q.of, steady |-> q.steady, left |-> q.left]
    BY <2>5, <2>6
  <2>12. /\ InOrder(q.list) /\ Held(q.list) \subseteq ToSet(q.of.vertices) \cup ToSet(q.of.edges)
         /\ q.whole => ToSet(q.of.edges) \subseteq Held(q.list)
         /\ q.show \in BOOLEAN
    BY <2>4, <2>6
  <2> QED BY <2>1, <2>7, <2>8, <2>9, <2>10, <2>11, <2>12 DEF OnePlay
<1> QED BY <1>1, <1>2, <1>3, <1>5, <1>6, <1>7 DEF IsList

\* Every step of the window and its player.
LEMMA OrderKept == ViewInv /\ PlayInv /\ [PlayerNext]_<<viewVars, playerVars>> => PlayInv'
<1> SUFFICES ASSUME ViewInv, PlayInv, [PlayerNext]_<<viewVars, playerVars>> PROVE PlayInv' OBVIOUS
<1>1. ASSUME NEW g, ImportGraph(g) PROVE PlayInv' BY <1>1 DEF ImportGraph, ActivateGraph, PlayInv
<1>2. CASE UNCHANGED <<viewVars, playerVars>>
  <2>1. /\ graph' = graph /\ view' = view /\ status' = status /\ connected' = connected
        /\ plays' = plays /\ signals' = signals
    BY <1>2 DEF viewVars, playerVars
  <2> SUFFICES ASSUME status = "ok", connected
               PROVE  (/\ GraphInv(graph) /\ IsList(signals) /\ IsList(plays)
                       /\ plays = <<>> => signals = <<>> /\ AllSeen(view)
                       /\ Len(plays) = 1 => OnePlay(plays[1]))'
    BY <2>1 DEF PlayInv
  <2>2. /\ GraphInv(graph) /\ IsList(signals) /\ IsList(plays)
        /\ plays = <<>> => signals = <<>> /\ AllSeen(view)
        /\ Len(plays) = 1 => OnePlay(plays[1])
    BY DEF PlayInv
  <2>3. GraphInv(graph') BY <2>1, <2>2
  <2>4. GraphInv(graph)' BY <2>3 DEF GraphInv, HasEnds, IdsOnce, NodeIdsOnce, Numbered, IdsOf
  <2>5. IsList(signals)' /\ IsList(plays)' BY <2>1, <2>2 DEF IsList
  <2>6. (plays = <<>> => signals = <<>> /\ AllSeen(view))' BY <2>1, <2>2 DEF AllSeen
  <2>7. (Len(plays) = 1 => OnePlay(plays[1]))' BY <2>1, <2>2 DEF OnePlay, Shown
  <2> QED BY <2>4, <2>5, <2>6, <2>7
<1> QED BY <1>1, <1>2, PlayChanges, ThreadKeepsOrder, ReceiveKeepsOrder, PlayStarts DEF PlayerNext

\* There is no player in the beginning.
LEMMA OrderStarts == PlayerInit => PlayInv
<1> SUFFICES ASSUME PlayerInit, status = "ok" PROVE PlayInv BY DEF PlayInv
<1>1. graph = FirstGraph /\ view \in UpdateVisualization(NewView, FirstGraph) /\ plays = <<>> /\ signals = <<>>
  BY DEF PlayerInit, ViewInit
<1>2. IsScene(NewView) BY DEF NewView, IsScene
<1>3. ~view.crashed
  <2>1. ViewInv BY PlayerStarts
  <2>2. connected BY DEF PlayerInit, ViewInit
  <2> QED BY <2>1, <2>2 DEF ViewInv, Redrawn, IsScene
<1>4. AllSeen(view) BY <1>1, <1>2, <1>3, EndsOfStart, RedrawsView
<1>5. GraphInv(graph) BY <1>1, GraphStarts
<1>6. IsList(plays) /\ IsList(signals)
  <2>1. <<>> \in Seq({}) OBVIOUS
  <2> QED BY <1>1, <2>1 DEF IsList
<1>7. Len(plays) # 1 BY <1>1
<1> QED BY <1>1, <1>4, <1>5, <1>6, <1>7 DEF PlayInv

\* No edge is seen before its source while a graph is built up, whatever is
\* redrawn or moved in between (Player::identifyPlaylist, PlayerThread::run).
THEOREM EdgesWaitForSource == PlayerSpec => []EdgesComeAfterSource
<1>1. ViewInv /\ PlayInv => EdgesComeAfterSource
  <2> SUFFICES ASSUME ViewInv, PlayInv, status = "ok", Len(plays) = 1, connected,
                      plays[1].show, plays[1].whole, graph = plays[1].of, plays[1].steady,
                      plays[1].next - Len(signals) > Len(plays[1].list),
                      NEW e \in DOMAIN view.edgeItems, view.edgeItems[e].visible
               PROVE  view.items[EdgeEnds[e][1]].visible
    BY DEF EdgesComeAfterSource
  <2> DEFINE p == plays[1]
             list == p.list
             n == Len(list)
             r == p.next - 1 - Len(signals)
             source == EdgeEnds[e][1]
  <2>1. OnePlay(p) /\ IsList(signals) BY DEF PlayInv
  <2>2. Populated(view, graph) /\ HasEnds(graph) BY DEF ViewInv, Redrawn
  <2>3. e \in ToSet(graph.edges) /\ e \in Edges /\ source \in DOMAIN view.items /\ source \in Vertices
    BY <2>2 DEF Populated, HasEnds, ToSet
  <2>4. e \in Held(list) BY <2>1, <2>3 DEF OnePlay
  <2>5. list \in Seq(Listed) /\ InOrder(list) /\ r \in Nat /\ n \in Nat /\ DOMAIN list = 1 .. n
    BY <2>1 DEF OnePlay
  <2>6. r >= n
    <3>1. PICK S : signals \in Seq(S) BY <2>1 DEF IsList
    <3>2. Len(signals) \in Nat /\ p.next \in Int BY <2>1, <3>1 DEF OnePlay
    <3> QED BY <2>5, <3>2
  <2>7. PICK k \in 0 .. r : Shown(view, list, k, r) BY <2>1 DEF OnePlay
  <2> HIDE DEF p, list, n, r, source
  <2>8. ~HiddenSince(list, k, r, e) BY <2>7 DEF Shown
  <2>9. ASSUME HiddenSince(list, k, r, source) PROVE FALSE
    <3>1. PICK a \in k + 1 .. r : a <= Len(list) /\ list[a] = source BY <2>9 DEF HiddenSince
    <3>2. a \in DOMAIN list BY <2>5, <2>7, <3>1 DEF n
    <3>3. ASSUME NEW i \in DOMAIN list, list[i] = e PROVE a < i
      <4>1. PICK j \in 1 .. i - 1 : list[j] = source BY <2>3, <2>5, <3>3 DEF InOrder, source
      <4>2. j \in DOMAIN list BY <2>5, <3>3, <4>1
      <4>3. j = a BY <2>3, <2>5, <3>1, <3>2, <4>1, <4>2 DEF InOrder
      <4> QED BY <2>5, <3>3, <4>1, <4>3
    <3>4. PICK i \in DOMAIN list : list[i] = e BY <2>4 DEF Held
    <3>5. i \in k + 1 .. r /\ i <= Len(list) BY <2>5, <2>6, <2>7, <3>1, <3>3, <3>4 DEF n
    <3>6. PICK b \in k + 1 .. r : b > Len(list) /\ list[b - Len(list)] = e
      BY <2>8, <3>4, <3>5 DEF HiddenSince
    <3>7. b - n \in DOMAIN list
      <4>1. r <= 2 * n BY <2>1, <2>5 DEF OnePlay, r, n, list
      <4> QED BY <2>5, <2>7, <3>6, <4>1 DEF n
    <3>8. a < b - n BY <3>3, <3>6, <3>7 DEF n
    <3>9. n + a \in k + 1 .. r /\ n + a > Len(list) /\ (n + a) - Len(list) = a
      BY <2>5, <2>7, <3>1, <3>2, <3>6, <3>8 DEF n
    <3> QED BY <2>9, <3>1, <3>9 DEF HiddenSince
  <2> QED BY <2>3, <2>7, <2>9 DEF Shown, source
<1>2. PlayerSpec => []PlayInv BY OrderStarts, OrderKept, ViewIsRedrawn, PTL DEF PlayerSpec
<1> QED BY <1>1, <1>2, ViewIsRedrawn, PTL
=============================================================================
