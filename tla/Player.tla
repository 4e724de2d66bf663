------------------------------- MODULE Player -------------------------------
(* Player: lists the vertices of the shown graph as a breadth-first search     *)
(* finds them, every edge after its source, and starts a thread                *)
(* that first hides all of them (or shows them) and then shows them one by one *)
(* (or hides them in the opposite order).  The thread does not touch the view: *)
(* it sends the ids of elements to the window, whose thread may have changed   *)
(* the graph when it gets them.                                                *)
EXTENDS GraphView

CONSTANTS AddressOrder,  \* the vertices in the order of their addresses
          MaxPlays       \* bound: players started

ASSUME PlayerAssumption ==
    /\ Vertices \cap Edges = {}
    /\ AddressOrder \in Seq(Vertices) /\ ToSet(AddressOrder) = Vertices

VARIABLES plays,         \* the threads, see NewPlay
          signals        \* queued for the window: <<kind, id, visible>>

playerVars == <<plays, signals>>

---------------------------------------------------------------------------
(* The order of vertices.  Roots and everything reachable from them first,     *)
(* then what is left in cycles; the visitor remembers what any of its searches *)
(* has found.                                                                  *)
OutNeighbours(g, v) ==
    LET out == Among(g.edges, {e \in Edges : EdgeEnds[e][1] = v})
    IN [i \in DOMAIN out |-> EdgeEnds[out[i]][2]]

\* appendUnique, for one after the other.
AppendUnique(list, more) ==
    LET appended[n \in 0 .. Len(more)] ==
          IF n = 0 THEN list
          ELSE IF more[n] \in ToSet(appended[n - 1]) THEN appended[n - 1]
          ELSE Append(appended[n - 1], more[n])
    IN appended[Len(more)]

\* A search that goes on with the front of a queue, as often as there are
\* vertices: known are the vertices the visitor has met.
Search(g, start, found) ==
    LET step(s) ==
          IF s.queue = <<>> THEN s
          ELSE LET new == Among(AppendUnique(<<>>, OutNeighbours(g, Head(s.queue))), Vertices \ s.known)
               IN [queue |-> Tail(s.queue) \o new, known |-> s.known \cup ToSet(new),
                   list |-> AppendUnique(s.list, new)]
        searched[n \in 0 .. Len(g.vertices)] ==
          IF n = 0 THEN [queue |-> <<start>>, known |-> found.known \cup {start},
                         list |-> AppendUnique(found.list, <<start>>)]
          ELSE step(searched[n - 1])
    IN searched[Len(g.vertices)]

Roots(g) == Among(g.vertices, {v \in Vertices : \A e \in ToSet(g.edges) : EdgeEnds[e][2] # v})

\* Searches from the roots, and from the vertex with the lowest address among
\* those no search has found.  None has found a root.
VertexOrder(g) ==
    LET starts == Roots(g) \o Among(AddressOrder, ToSet(g.vertices))
        found[n \in 0 .. Len(starts)] ==
          IF n = 0 THEN [queue |-> <<>>, known |-> {}, list |-> <<>>]
          ELSE IF starts[n] \in ToSet(found[n - 1].list) THEN found[n - 1]
          ELSE Search(g, starts[n], found[n - 1])
    IN found[Len(starts)].list

---------------------------------------------------------------------------
(* The play list is a vector, and edges are inserted at its end while a loop   *)
(* goes over it.  When it has to grow the loop goes on in memory that was      *)
(* freed: it finds nothing more, or the program crashes.                       *)
NewList == [list |-> <<>>, capacity |-> 0, reading |-> "all"]

Inserted(p, es) ==
    LET n == Len(p.list) + Len(es) IN
    [p EXCEPT !.list = @ \o es,
              !.capacity = IF n <= @ THEN @
                           ELSE Len(p.list) + IF Len(es) > Len(p.list) THEN Len(es) ELSE Len(p.list)]

\* One loop over the list as it is: the edges from or to each vertex in it.
WithEdges(p, edgesOf) ==
    LET last == Len(p.list)
        insert(q, n) ==
          LET grown == Inserted(q, edgesOf[p.list[n]])
          IN IF grown.capacity = q.capacity \/ n = last THEN grown
             ELSE [grown EXCEPT !.reading = "freed"]
        read[n \in 0 .. last] ==
          IF n = 0 THEN p
          ELSE IF read[n - 1].reading = "freed" \/ p.list[n] \notin Vertices THEN read[n - 1]
          ELSE insert(read[n - 1], n)
    IN [read[last] EXCEPT !.reading = IF @ = "freed" THEN "lost" ELSE @]

EdgesFromTo(g, v, w) == Among(g.edges, {e \in Edges : EdgeEnds[e] = <<v, w>>})

\* Mutant of PlaylistStep: all edges between a vertex and those before it
\* precede the vertex.
PlaylistStepEarly(g, p, v) ==
    Inserted(WithEdges(p, [u \in Vertices |-> EdgesFromTo(g, u, v) \o EdgesFromTo(g, v, u)]), <<v>>)
PlaylistStep(g, p, v) ==
    LET in == WithEdges(p, [u \in Vertices |-> EdgesFromTo(g, u, v)]) IN
    WithEdges(Inserted(in, <<v>>), [u \in Vertices |-> EdgesFromTo(g, v, u)])

Playlist(g) ==
    LET order == VertexOrder(g)
        listed[n \in 0 .. Len(order)] ==
          IF n = 0 THEN NewList ELSE PlaylistStep(g, listed[n - 1], order[n])
    IN listed[Len(order)]

---------------------------------------------------------------------------
(* The thread asks the elements for the ids they have in the graph it was      *)
(* started for: an element without one ends the program.  Its play remembers   *)
(* whether these were the ids they had when it was started.                    *)
NewPlay(show, p) == [list |-> p.list, whole |-> p.reading = "all", show |-> show,
                     next |-> 1, of |-> graph, steady |-> TRUE, left |-> <<>>]

Done(p) == p.next > 2 * Len(p.list)

\* Mutant of Sent: what is shown one by one is the vertices only.
SentVerticesTwice(p) ==
    LET n == Len(p.list)
        again == IF p.show THEN p.list ELSE Reverse(p.list)
        x == IF p.next <= n THEN p.list[p.next] ELSE again[p.next - n]
    IN IF p.next > n /\ x \in Edges THEN [element |-> p.list[1], visible |-> p.show]
       ELSE [element |-> x, visible |-> (p.next > n) = p.show]

\* setVisibility, twice over: all at once, then one after the other.
Sent(p) ==
    LET n == Len(p.list)
        again == IF p.show THEN p.list ELSE Reverse(p.list)
    IN [element |-> IF p.next <= n THEN p.list[p.next] ELSE again[p.next - n],
        visible |-> (p.next > n) = p.show]

\* Nobody changes a graph the window has left for an imported one.
GraphOfPlay(p) == IF p.left = <<>> THEN graph ELSE p.left[1]

IdsIn(g) == Over(g.vid, g.eid)

ThreadStep(i) ==
    LET p == plays[i]
        s == Sent(p)
        ids == IdsIn(GraphOfPlay(p))
    IN
    /\ status = "ok" /\ ~Done(p)
    /\ IF s.element \in DOMAIN ids
       THEN /\ signals' = Append(signals, [kind |-> s.element \in Vertices,
                                           id |-> ids[s.element], visible |-> s.visible])
            /\ plays' = [plays EXCEPT ![i] = [p EXCEPT
                            !.next = @ + 1, !.steady = @ /\ ids[s.element] = IdsIn(p.of)[s.element]]]
            /\ UNCHANGED status
       ELSE status' = "ended" /\ UNCHANGED playerVars
    /\ UNCHANGED <<graph, view, mCoordinates, connected, changes>>

\* setVertexVisible, setEdgeVisible: the element that has the id now.  An id
\* the graph never gave is outside of the map it is looked up in.
SetVertexVisible(w, s) ==
    [w EXCEPT !.items = [v \in DOMAIN @ |->
        IF v \in ToSet(graph.vertices) /\ graph.vid[v] = s.id
        THEN [@[v] EXCEPT !.visible = s.visible] ELSE @[v]]]
SetEdgeVisible(w, s) ==
    [w EXCEPT !.edgeItems = [e \in DOMAIN @ |->
        IF Live(graph, e) /\ graph.eid[e] = s.id
        THEN [@[e] EXCEPT !.visible = s.visible] ELSE @[e]]]

Unknown(s) ==
    /\ ~connected
    /\ s.id \notin IF s.kind THEN Range(graph.vid) ELSE LiveIds(graph)

Receive ==
    /\ status = "ok" /\ signals # <<>>
    /\ signals' = Tail(signals)
    /\ \/ /\ view' = IF Head(signals).kind THEN SetVertexVisible(view, Head(signals))
                     ELSE SetEdgeVisible(view, Head(signals))
          /\ UNCHANGED status
       \/ Unknown(Head(signals)) /\ status' = "ended" /\ UNCHANGED view
    /\ UNCHANGED <<graph, mCoordinates, connected, changes, plays>>

PlayGraph(show) ==
    LET p == Playlist(graph) IN
    /\ status = "ok" /\ Len(plays) < MaxPlays /\ graph.vertices # <<>>
    /\ \/ plays' = Append(plays, NewPlay(show, p)) /\ UNCHANGED status
       \/ p.reading = "lost" /\ status' = "ended" /\ UNCHANGED plays
    /\ UNCHANGED <<graph, view, mCoordinates, connected, changes, signals>>

\* Threads started for a graph keep its ids when another is imported.
LeftBehind(p) == IF p.left = <<>> THEN [p EXCEPT !.left = <<graph>>] ELSE p
Leaves == plays' = [i \in DOMAIN plays |-> LeftBehind(plays[i])]

PlayerInit == ViewInit /\ plays = <<>> /\ signals = <<>>
PlayerNext ==
    \/ ViewChange /\ UNCHANGED playerVars
    \/ \E g \in Importable : ImportGraph(g) /\ Leaves /\ UNCHANGED signals
    \/ \E show \in BOOLEAN : PlayGraph(show)
    \/ \E i \in DOMAIN plays : ThreadStep(i)
    \/ Receive

---------------------------------------------------------------------------
\* While a graph is built up by one player, no edge is seen before its source
\* is: also when the view is redrawn in between, if the list is whole, the graph
\* the one the player was started for, and every id it asked for meanwhile the
\* one it would get now (Player::identifyPlaylist).
EdgesComeAfterSource ==
    status = "ok" /\ Len(plays) = 1 /\ connected =>
      LET p == plays[1] IN
      p.show /\ p.whole /\ graph = p.of /\ p.steady /\ p.next - Len(signals) > Len(p.list) =>
        \A e \in DOMAIN view.edgeItems :
           view.edgeItems[e].visible => view.items[EdgeEnds[e][1]].visible

\* Every player comes to an end, and what players that show a graph have hidden
\* is visible in the end, whatever is added or moved meanwhile, if what is in the
\* list keeps its id and no other graph is imported
\* (PlayerThread::run, GraphWidget::setVertexVisible, setEdgeVisible).
Quiet == signals = <<>> /\ \A i \in DOMAIN plays : Done(plays[i])
KeepsIds(p) == /\ IsRestriction(p.of.vid, GraphOfPlay(p).vid)
               /\ IsRestriction(p.of.eid, GraphOfPlay(p).eid)
Undisturbed == /\ \A i \in DOMAIN plays : plays[i].show /\ KeepsIds(plays[i])
               /\ connected
AllVisible ==
    /\ \A v \in DOMAIN view.items : v \in DOMAIN graph.vid => view.items[v].visible
    /\ \A e \in DOMAIN view.edgeItems : Live(graph, e) => view.edgeItems[e].visible
PlayShowsAll ==
    plays # <<>> ~> \/ status = "ended"
                    \/ Quiet /\ (Undisturbed => AllVisible)

PlayerSpec == PlayerInit /\ [][PlayerNext]_<<viewVars, playerVars>>
PlayerFairness ==
    /\ \A i \in 1 .. MaxPlays : WF_<<viewVars, playerVars>>(i \in DOMAIN plays /\ ThreadStep(i))
    /\ WF_<<viewVars, playerVars>>(Receive)
=============================================================================
