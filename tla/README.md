# Verification of graph_analysis

TLA+ modules for `graph_analysis` (rock-core/tools-graph_analysis), a C++ library of graphs over
exchangeable back-ends, with views, observers, algorithms, readers and writers, and a Qt GUI.
Paths below are relative to the repository's `src/` directory unless they begin with `test/`.

Each component has a module with its state, one action per call or loop step, and its properties;
the `MC...` modules give finite instances, alone or several components in one; there is one `.cfg`
per question; and, where the results hold for every instance, a `...Proofs` module with theorems
checked by TLAPS. `PROJECT.json` names for every definition the source lines it stands for.

    tlc -workers 2 -config SubGraphLemon.cfg MCSubGraph
    tlapm SubGraphProofs.tla

## 1. The system

| Component | State | Operations | Talks to |
|---|---|---|---|
| `BaseGraph` (`BaseGraph.cpp`) | `mObservers`, unique graph id | `addVertex`, `removeVertex`, `addEdge`, `removeEdge`, `getEdges`, `removeEdges`, `clear`, `copy`, `clone`, `cloneEdges` | a back-end through `...Internal` hooks; the elements' id map; observers, synchronously |
| `GraphElement`, `Vertex`, `Edge`, `HyperEdge` | per element: `mGraphElementMap` (graph to id), uuid; global table of uuids | associate, disassociate, getId, setUuid, clone | every graph it is in |
| back-ends `lemon/`, `snap/`, `boost_graph/` | containers by id: lemon recycles ids, snap counts up, boost renumbers | `addVertexInternal` ..., iterators, `identifyConnectedComponents` | third-party graph libraries |
| `SubGraph` (`SubGraph.cpp`, `lemon/DirectedSubGraph.cpp`) | which ids of the graph below are disabled | enable, disable, `applyFilters`, `toBaseGraph` | the graph, whose changes it does not see; filters |
| `TransactionObserver` | `mEvents`, `mTransactionLevel` | notify (vertex, edge, START, STOP) | sits between a graph and one observer |
| `Filter`, `filters/` | filter lists | matches, add, replace, removeAt | SubGraph, GUI |
| `BFS`, `DFS`, `Visitor`, `Skipper` | `mStack`; the visitor's status of each vertex | `run` with callbacks | graph iterators; `gui/Player` |
| `Delta` | four vectors of differences, source and target graph | `run`, `hasNext`, `getNext` | BaseGraph calls on the source graph |
| `FloydWarshall` | the distance matrix | `allShortestPaths` | graph iterators |
| `BipartiteGraph` | a graph and two views | `linkVertices`, `getPartners`, `getUniquePartner` | BaseGraph, SubGraph |
| `Percolation`, its strategies, `RandomDraw` | a view; densities and their sum | apply, reset, drawItem | SubGraph |
| type and attribute managers | maps from class to prototype, parents, members | registerType, `getTypeHierarchy`, `getAttributes`, create | GraphElement, readers and writers |
| `GraphIO`, `io/` | map from format to reader or writer; files | read, write | BaseGraph, type managers |
| `io/GVGraph` | maps from ids to graphviz nodes and edges, layout | add, remove, clear, apply layout, render | BaseGraph; GUI layouts, `GraphvizWriter` |
| `LPSolver`, `lp/` | solution, cache of known solutions, files | load, save, run | external solver programs |
| `MultiCommodityMinCostFlow` | network, columns and rows of its problem | solve, validateInflow | LPSolver, the edges' flows |
| `CorrelationClustering` | distances of edges, balls, clusters | prepare, solve, round | an embedded solver |
| `gui/GraphWidget`, `BaseGraphView`, `GraphAnalysisGui` | items of elements, cached positions | Qt slots: changed graph, layouts, import | BaseGraph as observer |
| `gui/Player` | play list, a thread | start, and what the thread sends | Search, the widget through queued signals |
| `gui/FilterManager` | parallel lists of items and boxes | add, remove, swap, drag, toggle | SubGraph's filters |

The library is called from one thread; only the GUI's player has a second one. What makes the code
hard is therefore less concurrency than **re-use, partial failure and order**:

* Observers and visitors are *called back in the middle* of a call, and an exception of theirs
  ends the call wherever it is. `notifyAll` does not catch it (`BaseGraph.cpp:62`), the emitting
  loop of a STOP does not (`TransactionObserver.cpp:60`), nor do the search loops.
* One fact is *kept in several places*: an element's id, the back-end's containers, the view's
  disabled ids, graphviz's copy, the widget's items, a filter's place. Each is updated by another
  line; ids come back (lemon), or are moved (boost).
* Calls *do other calls implicitly*: `addEdge` adds missing end points and swallows the
  exceptions of `addVertex`; `removeVertex` drops arcs but not their edges' associations.
* Objects are *run again* with what is left from the last time: `mStack`, statuses, Delta's vectors,
  the flow problem's columns, the solvers' cache of solutions.
* What leaves the program *comes back to another one*: files are read by programs that registered
  other classes, and problems are solved by programs that may be missing or fail.

What makes each component correct:

* BaseGraph: `contains()`, ids, iterators and events agree; loops over a changing graph end.
* SubGraph: membership follows the element, not the id; the exported copy is the view; the events of
  percolation tell what the view lost.
* TransactionObserver: nothing lost, doubled or reordered; held exactly while it should be.
* Search: visits what is reachable, nothing else, in the documented order; ends.
* Delta: every intermediate graph is a graph, and the last is the target.
* FloydWarshall: distances of shortest paths; negative cycles are reported, and only those.
* Elements: a uuid leads to its element and never to one that is gone.
* GraphIO: what is written comes back, each value in its own place; edges keep their ends.
* LPSolver and flow: an answer belongs to the problem it is given for; what is stored on the edges
  is an optimal flow of the network.
* GUI: what is drawn is the graph, where it was; what a player hid is shown in the end.

`PROJECT.json` lists under "hazards" the places where one of these can go wrong, with the
properties that would show it, or the reason why there is none.

## 2. Modules and code

### BaseGraph
`g.vid`, `g.eid` are the ids of `GraphElement::mGraphElementMap` for one graph (`NoId`: not
associated). `g.node`, `g.arc` are the back-end's containers with `mVertexMap` and `mEdgeMap`;
`g.nodes`, `g.arcs` count the ids ever given out. `WithVertex`, `WithEdge`, `WithoutVertex` and
`WithoutEdge` are the `...Internal` hooks of a back-end; the lemon and the snap back-ends differ in
`NewIds` (constant `RecyclesIds`). `seenVertices` and `seenEdges` belong to an observer that
adds what is announced as added and removes what is announced as removed.

`AddVertex`, `AddEdge`, `RemoveVertex`, `RemoveEdge` are whole calls with their notification. An
observer may throw before or after the one that follows (`Outcomes`). `AddEdge` contains the two
inner `addVertex` calls whose exceptions are swallowed, and the handler that disassociates
the edge and leaves the arc. `removeEdges` and `clear` are sequences of steps (`BeginRemoveEdges`,
`RemoveNext`, ...; `BeginClear`, `ClearEdge`, ...) because a throw can end them between any two.
`Rejected` stands for all calls that throw before they change anything. `op = "undefined"` marks
erasing an id that the back-end has freed (undefined in lemon, an assertion in snap).

A caller may remove vertices that still have edges; `RemovesEdgesFirst` restricts it to callers
that do not. With `ObserversThrow` observers throw.

### SubGraph and Percolation
SubGraph extends BaseGraph: `GraphStep` is any step of the graph, so the view lives over a graph that
goes on changing. `mDisabledVertices` and `mDisabledEdges` are the ids that are not members.
`MemberMaps` chooses lemon's maps of bools, whose entries follow the graph (`Followed`), or
`SubGraph.cpp`'s sets of ids, which nobody tells. `ApplyFilters` does the edges, then the vertices,
as the code does, and may enable an edge whose vertex is disabled; so may `EnableEdge`. `ExportedVertices` is what
`toBaseGraph` ends with, the end points that `addEdge` adds included. Filters are given by the sets they match.

Percolation extends SubGraph: the strategies switch off any set of vertices or edges of the view
(each is decided by a random number), `Reset` switches everything on. `gone` is the history of the
events returned since the last reset. `percolating` says whether the view is left to percolation or
switched by hand.

### TransactionContract and TransactionObserver
The contract is the header's promise: events of a transaction are held until the *outermost* STOP.
TransactionObserver is the code: `mEvents`, `mTransactionLevel`, and a STOP that emits everything
whatever the level. `depth` is what the client has open. `StopThrows` is the observer behind
throwing on the n-th event: nothing is cleared and the level stays. `Balanced = FALSE` gives clients
whose STOPs may lack a START. Event n is the n-th issued.

### Search
`BFS::run` and `DFS::run` are one module, as the loops differ only in the end of `mStack` they take
from (`fifo`). `mVertexStatus` is in the visitor, `mStack` in the search object, and a program may run
again with both. `Take`, `SkipEdge`, `Examine`, `FinishVertex`, `Return` are the parts of the loop;
a callback may throw in each (`Raise`, `ExamineThrows` for `discoverVertex` between push and
`setStatus`). The order in which an iterator yields edges is free.

### Delta
The source graph is changed by BaseGraph calls, modelled by their effect on three sets: associated
vertices and edges, and edges with an arc (`removeVertex` erases arcs and leaves associations).
`Found` is what `run()` collects. A difference is tagged with the run that collected it, so that a
second `run()` gives duplicates, as the vectors do. `RemoveNextEdge` ... `NothingNext` are the
branches of `getNext`, `Edit` is the caller changing the source graph in between.

### ShortestPaths
The three loops of `FloydWarshall::allShortestPaths` with their order, the lazily filled matrix, the
early read of `distanceJI`, the test for zero on the diagonal and the exception. Weights are
integers. `Direct` includes that an edge overwrites the entry of its pair, in any order of the edges. The reference shares
nothing with it: `LeastWalks` over `Lightest(weight)`, least weights of walks of one to N edges of the graph, each step by the
lightest of its parallel edges, kept in the history variable `least`.

### CorrelationClustering
The linear program is a set of rows and its outcome any solution they admit (`Solutions`): nobody asks
the simplex algorithm how it ended. `AreFormingTriangle` is the code's test, answers for parallel
edges and loops included. `round` is `PickVertex`, `GrowBall`, `MarkCluster`; distances and radii are
counted in halves, and `mInitialVolume`, which the constructor reads before it is set, is any of
`InitialVolumes`. `Thousandths` stands for the logarithm.

### BoostGraph, SnapGraph, ConnectedComponents
What tells these back-ends from the one in BaseGraph. BoostGraph has a vector of vertices, edges that
refer to places in it, and the two maps of descriptors that are not told when a removal moves the
vertices behind; `disturbed` remembers that one did, `undefined` that a descriptor led to nothing.
SnapGraph has the net whose edge iterators ask for *an* edge between two nodes and get the first
(`GetEI`), and `removeEdges`, which throws half-way for this reason. ConnectedComponents is boost's
forest of parents (`Linking`) and lemon's copy of the graph, whose numbering is not the graph's. `ComponentOf` is the
definition both are measured by: the least set that holds the vertex and no edge leaves (`Separate`); `Path`, likewise, is the least
set that holds a vertex and the parents of all it holds.

### ElementRegistry
Elements are numbered as they are created; the number is also the uuid the constructor makes.
`Clone` copies the uuid without registering the copy, except for weighted elements, whose
copy constructor builds the base anew; `SetUuid` is a reader's; `Destroy` erases whatever the table
has for the element's uuid now. An element cannot go while an edge holds it.

### BipartiteGraph, Filters, FilterManager, RandomDraw
Small sequential components: `linkVertices` with the graph and both views; lists of filters with
positions counted as unsigned numbers; the manager's list of items, boxes and the map between them,
under mouse drags whose every movement may swap two items; the map of densities and the sum kept
beside it.

### ElementTypes and GraphIO
`VertexTypeManager` and `EdgeTypeManager` are the same code twice, so a manager is a record and its
methods are operators. Classes and members are numbers in the alphabetical order of their names. The
recursion of `getTypeHierarchy` is `Ancestry`; attribute ids (`OwnId`, `LegacyId`) count over the
whole hierarchy. GraphIO composes two managers with a graph and a disk. `Restart` is another program
(other registrations, an empty graph) taking over; `Write`, `WriteUnopened` and `Read` go by format and suffix;
`Edit` takes the first node out of a file, so that edges refer to one that is not there. A value remembers the member it was first put into, so a value in the wrong place shows.
What each format keeps differs (GEXF, GraphML, YAML, graphviz), and so does what a failed read leaves. A GraphML file with
markup in a label is no XML (`IsXml`), and reading it throws.

### LemonGraph and GVGraph
LemonGraph is a graph as code that iterates sees it: elements newest first, ids as lemon gives them
again. GVGraph is the graphviz copy: `mNodes` and `mEdges` from ids to graphviz nodes and edges, the
way back by name, over a base graph that changes without telling. Calls are operators on a record that
may have `thrown` or `crashed`; freeing a layout that was not made, or twice, is a crash.
`GraphvizWrite` is the writer's whole sequence.

### LPProblem, LPSolver and MultiCommodityFlow
LPProblem is a problem as its CPLEX text states it (what the conversion loses is modelled: limits beyond
int, costs cut to whole numbers, rows with two limits). LPSolver has files, temporary names and the solver
objects of four types that are run by a command line; a program may be missing or fail, and the cache
`msKnownSolutions` is one for all objects, by checksum (here: the contents). MultiCommodityFlow
builds the problem of a network (`CreateProblem`), solves it with its own solver object, and stores
the result on the edges; a second object the program uses directly shares the cache. Edges may be added
and bounds set between two solves; `mColumnToEdge` is never cleared. The reference is said of flows:
`Admissible` and `Cost` over `AllFlows`. `Expressible` names what the linear problem cannot say of a network, and
`Writable` (part of `NetworksAssumption`) which numbers its text cannot hold at all.

### GraphView and Player
GraphView is the window: every change of the graph redraws it (`ClearVisualization`, `PopulateCanvas`,
layout, cached positions), items are moved, graphs imported. Left out is the empty entry that
looking up a remembered vertex without an item leaves in `mVertexItemMap` (`gui/GraphWidget.cpp:233`): every redraw drops it, and
`setVertexVisible` (:128) meets it only if the vertex is back in a graph the window does not hear of. Player builds its play list with a vector
whose reallocation leaves a reference behind (`reading`), and starts a thread that hides all elements and
shows them one by one by sending their ids; the window's thread receives (`Receive`) when it gets
to it, and may have changed the graph since. A play remembers in `steady` whether every id its thread asked for was
the one the element had when the play was started: the thread asks the graph as it is then, and an id asked for while the
graph was another may belong to some other element now, so that `EdgesComeAfterSource` is said of steady plays only.

Player's behaviour is `PlayerSpec`; the run Callbacks adds `PlayerFairness`. `connected` says whether the window still hears of the
graph it shows: it does not hear of an imported one.

### Maps and DataInduction
Maps has the few operators on maps and lists whose library versions the provers cannot expand: `Entry` and `Over` for `:>` and `@@`,
`Among` (a recursive function) for `SelectSeq`. DataInduction proves induction over the naturals and over finite
sets, and recursion, in a form that takes a *set* where the library's theorems take an operator; what `Among` and
lists without repetitions hold follows from them there.

### Composition
`MCSubGraph` is Percolation over SubGraph over BaseGraph; `MCMultiCommodityFlow` is the flow problem over LPSolver over LPProblem; `MCGraphIO` has
GraphIO over ElementTypes and GVGraph. `MCCallbacks` has the three components that are called back, or call back,
in the middle of a call: TransactionObserver, Search, and Player over GraphView over LemonGraph. `MCComponents`
joins eleven components. The parts of the last two share no state: a behaviour (`part`) is one of one of them, while
the others stay where they may start.

## 3. Runs

| Run | Distinct states | Question |
|---|---|---|
| BaseGraphThrowing | 93,864 | Which promises survive observers that throw anywhere, also in the middle of `clear` and `removeEdges`? |
| SubGraphLemon | 35,260 | Does a view in lemon's maps take a vertex's edges along, however they were enabled? Do percolation's events tell what it lost, and the graph's events what the graph is, with reused ids, parallel edges and loops; what do `clear` and `removeEdges` leave? |
| SubGraphExport | (violation) | Does `toBaseGraph` copy only what is enabled? |
| SubGraphSnap | 224,240 | Does a view in sets of ids, which never hears of the graph, keep up with it? |
| TransactionOutermost | (violation) | Does the observer implement its contract with nesting? |
| Components | 443,999 | Eleven components with no common state, each from every start of its instance |
| RegistryClone | (violation) | Is an existing element found by its uuid? |
| ConnectedComponents | (violation) | Does lemon relate a vertex to the component it is in? |
| GraphIO | 110,040 | What comes back when programs that registered other classes read what one wrote; does the graphviz copy match its maps? |
| MultiCommodityFlow | 213,467 | Does an answer belong to its problem, and is what is stored an optimal flow? |
| LPSolverTempfile | (violation) | Is the solution where `saveSolutionToTempfile` says? |
| Callbacks | 581,633 | What holds of an observer behind nested transactions that throws; what up to two searches with one visitor find, in which order, and do they end; do items follow the graph, and does a player show all it hid, whatever happens meanwhile? |

**Bounds, and why they are enough.**

* BaseGraphThrowing, SubGraph: two vertices with edges in both directions (SubGraphSnap), with a loop as well
  (BaseGraphThrowing), or with a loop and a parallel edge (SubGraphLemon); `MaxIds = 3` ids of each kind. The smallest instance in which
  an id is freed and taken by another element, a vertex goes with several arcs, `removeEdges` has both
  directions to do and, without reuse, ids run out after elements have come and gone. Percolation
  switches any set of members.
* Callbacks. TransactionObserver: `MaxDepth = 2` is an inner and an outer transaction; four events are some before,
  inside and after each. A failing STOP may be repeated while `delivered` is no longer than
  `2 * MaxEvents`; it has then repeated events several times.
  Search: a cycle with a shortcut and a rejoining branch on four vertices; every subgraph and
  skipper of it, so that tree, back, forward and cross edges occur; `MaxRuns = 2`, the second
  search beginning anywhere and with all that the first, finished or thrown out of, has left.
  Player and GraphView: a graph of two vertices that grows by a vertex and three edges, a second graph to import, three
  changes, one player. Every interleaving of the thread's signals with these changes occurs.
* Components. Delta: all pairs of graphs on three vertices with two edges in a row and a loop,
  `MaxRuns = 2` so that there are duplicates, `MaxEdits = 1`. ShortestPaths: every subset of seven
  edges on four vertices with weights -1 and 2: a path against the vertices' order (on three vertices
  wrongly nested loops are often right), a shortcut, a way back that gives cycles of negative, zero and
  positive weight, a parallel edge and a loop. CorrelationClustering: a triangle and an edge opposite
  to one of its sides, weights 2 and -1, both orders of the columns, every outcome of the linear program
  in halves; enough for balls that grow twice and a rest that is cut again. FilterManager: three
  items, the least in which a removal moves two (`SYMMETRY` permutes the items, which
  differ in nothing; no other run uses symmetry). Filters: three, lists of at most three. BoostGraph: three vertices, two opposite
  edges and a loop, `MaxIds = 3`: a vertex in the middle goes. SnapGraph: parallel, opposite and loop edges on
  two vertices, three node and four edge ids. ConnectedComponents: all graphs of up to four vertices and
  three edges; four vertices are the least with two trees to be joined at vertices that are not
  roots. BipartiteGraph: three vertices and three linkings, so that one is linked twice and one has both colours.
  ElementRegistry: four elements, which is a graph of two vertices or an edge, and its clone; one element
  may get another uuid. (RegistryClone needs three elements only.) RandomDraw: three ids with densities 0, 1 and 3, random numbers in thirds.
* GraphIO: five programs (all classes; no hierarchy; a missing parent; a "label" attribute and another
  default class; a class registered twice), graphs of up to two vertices and two edges, every label that a format
  treats in its own way, one file at a time (`MaxFiles = 1`), at most three vertices in memory. One file
  is enough, as formats are told apart by its name and a read looks at no other. GVGraph: two
  vertices, two edges and a loop, three changes of the base graph, which give an id away and take it again.
* MultiCommodityFlow: `IntMax = 3` makes every limit that occurs a number below or beyond the largest int. The networks
  (`MCNetworks`) have one or two commodities, at most three vertices, and one of each kind of row; two solver objects, types that
  share a file format and types that do not, programs missing or installed; a cache of size 1 or
  0; two runs with a call between them: a hit, a miss and a cache that is emptied.

Where the code breaks what its documentation says, no passing run states the broken behaviour as a property. The promise is
checked by a run that finds it violated, or the disagreement is told in section 5; and a passing run checks the part of the
promise that holds, with its condition in the property: `VertexTakesItsEdges` (lemon's views; against SubGraphExport),
`ElementsAreFound` (no renaming, no other element of the uuid destroyed; against RegistryClone), `RemoveEdgesLeavesNone` (if
`removeEdges` throws, then between a vertex and itself, and all loops are gone), `ShortestDistances` (exact if
`ParallelsWeighAlike`), `SingleEdgesAreServed` (no parallel edges), `RoundTrip` (`IsXml`). The parts that hold are
proved.

`CHECK_DEADLOCK FALSE` is said where the system may stop: a program whose bound of events, runs, calls or
ids is used up, a matrix that is finished, an undefined erase (SubGraphSnap).

**Fairness.** Only what is under way is weakly fair. The steps of a call in progress (`Running` in
BaseGraph, `Searching` in Search): a call that was begun runs on in its caller's thread until it returns
or throws. The player's thread and the window's event loop (`PlayerFairness`): a thread that was
started is scheduled, and queued signals are handled. No caller, person, observer or visitor is
assumed to do anything. `CallsEnd`, `SearchEnds` and `PlayShowsAll` are therefore statements about the loops and the thread alone.
`ClearLeavesNothing` and `RemoveEdgesLeavesNone` say how a call ends if it does, and are proved.

## 4. What the proofs show

Each theorem holds for all values of the constants that satisfy the named assumptions of its module
(distinct `No...` values, end points that are vertices, bounds that are numbers, names of temporary files that are
none a caller uses).

### SubGraphProofs
BaseGraph. `IInv` is `TypeOK`, `Sound(g)`, and, for callers that remove edges first,
`EdgesLive(g)`. The safety properties are not inductive alone: that a new id is free needs
`Allocated` (every id in use has been counted), that an erased node takes the right arcs along needs
`Indexed` with `Attached`, and `clear` needs that no arc is left when its second loop runs. The parts
are predicates of a *graph*, not of the state, since `addEdge` goes through two intermediate graphs;
one lemma per primitive (`WithVertexSound`, ...) carries them through every action. Results:
`TypeCorrect`, `VerticesIndexed`, `ArcsStayAttached` for all modes; `ContainedEdgesAreLive`,
`NoDanglingEdge`, `NoUndefinedErase` for callers that remove edges first, although observers
throw; `ObserversSeeTheGraph` if no observer throws either, by the added invariant `Mirrored` (the
observer holds the associated elements, and each live arc is the one its edge is associated with).

`ClearForgetsEverything` (callers remove edges first): when the second loop is done every node it saw is gone, and
`EdgesLive` says that no edge was left. `RemoveEdgesClearsWhatItFound` (no observer throws; the callers may do as they like): `Collected` says
that what is still to be removed is either `Distinct`, arcs that are there and each edge once, or `Loops`, which were collected
in both directions. A throw is possible for the latter only, and as the lists are gone through one after the other, only when
the first one is done, so that all loops are removed by then.

SubGraph. For lemon's maps `SInv` adds `Fresh`: every id not in use is disabled. This
is why a reused id does not hand a former owner's membership on. With `NextStays` (an element that
stays keeps its id, one that arrives gets an id not in use) it gives `ViewKeepsUp`. With
the view's own operations, which take the edges along by the arcs of the back-end (`ViewStepTakes`; `Iterated`: the arcs at a vertex
are those of the edges that are associated), it gives `VertexLeavesWithItsEdges`: a vertex that stays in the graph stops being a member only
with its edges, also when the same call to `applyFilters` has just enabled them. `ViewTypeCorrect` states its types. A view kept in sets (`SubGraph.cpp`, snap) has no
such entries to follow the graph: `SetsKeepUp` is proved from `CountedInv`, which says that every id in use or disabled has been counted, so that a
back-end that never reuses one (`~RecyclesIds`) never hands out an id the view still remembers. It needs no
discipline of the callers.

Percolation: the invariant is `Consistent` (`SInv` with the theorem's assumptions: the graph below is sound and the
view names only ids in use or never used) together with `EventsTellTheView` itself. A step of the graph changes
the view only by elements that come and go (`NextStays` again); a strategy's step changes it by what its events
report and the edges that go with a vertex. `EventsTellAll` is for views in lemon's maps and callers that remove edges first.

### CallbackProofs
TransactionObserver. `OInv`: what was delivered and what is held make up the history, and
nothing is held outside transactions. `DInv`: the level is the client's depth; `CInv`, which survives
throwing observers (`stopFailed`): it is not below. Results: `EventsInOrder`, `LevelFollowsDepth`, `LevelCovers`,
`HeldWhileOpen`, and `FlatImplementsContract`: for `MaxDepth = 1`, balanced clients and an observer
that does not throw, every behaviour is one of the contract (step by step under the mapping
`waiting <- mEvents`).

Search. `SearchInv`: types; `Reached` (all that is seen, waiting or in hand lies in every
closed set around the starts: reachability without recursion); `Explored` (the followed edges of
visited vertices, and those the current vertex has been through, lead to known vertices);
`RegisteredIsPending`; `TreeIsForest`. Every graph, skipper and number of searches. `NearestComeFirst` is about
the first search by a BFS: `Frontier` says that the queue holds two levels at most, what is left of one
before all there is of the next, and that levels before are visited. That levels are one step apart comes from `Levels`, the
unfolded definition of `Within`.

### ComponentProofs
Delta. `DeltaInv`: `Harmless` (the vectors remove nothing the target has and add nothing
it has not, whatever the caller does) and `Complete` (while the caller leaves the source graph
alone, every difference left is listed, as often as it may be). `Exact` adds that after a single
run no difference is listed twice or already applied, which `DeltaNoStepFails` needs.

ElementRegistry. `TableInv`: for the uuids made by constructors that registered their element, the table is the identity,
less those that some destroyed element had. Clones and renamings do not touch these entries, and
`Destroy` takes exactly one of them away. `RegistryFindsElements` is read off it, for any number of elements: an element whose uuid
was not set is found as long as no other one with this uuid was destroyed, and never when it is gone itself. Without these conditions
it is false (RegistryClone, and `setUuid` in section 5).

CorrelationClustering. `ClusterInv` has the property, the partition of the vertices into clusters and `rest`, and
`BallInv`: a ball that is growing lies in `rest`, and its radius is at most the distance of every leading edge. A ball
takes the *nearest* leading edge, so that the next radius is not below the one before; the order of the columns and the
solution do not matter. Edges that are loops raise an exception in the constructor.

FilterManager. `FInv` is `SameLists` (an item and its box have the same place in both lists, and nothing is
listed twice), `Placed` and `Drawn` (items know their places and are drawn there, except for the one the mouse
holds), `Boxed` (the map has its place for every box that no removal has moved) and `Switched`. The property alone is not inductive: a swap in the
middle of a drag needs that the held item's line lies within the list and that the box moves along, a removal that the
items behind it are the ones whose places shift. `FiltersKnowTheirPlace` is for any number of filters.

BoostGraph. `BoostInv`: as long as nothing was disturbed the graph is `Orderly`, which is `VerticesInPlace` (vertices, ids
and places are one to one) and `EdgesInPlace` (the list holds each edge once, with the places of its ends, and so
does the map of edges). `LastVertexLeaves` is where the condition is needed: a vertex with edges or with others
behind it would change the places that entries of the maps tell. That an iterator yields each edge once
(`EdgesCounted`) follows from what DataInduction says of lists without repetitions.

RandomDraw. `DrawInv`: densities are numbers, and before the first update there are none, so that the cached sum is
never used. `DrawsItemsWithDensity` then is about one draw: the sum up to an id grows with the id (`SumsGrow`), and where it
first reaches a positive number there is an item with a density (`SumReachedAtItem`).

BipartiteGraph. `LinksInv`: the edges that leave a vertex lead to the vertices it was linked with, and there is one for each
link and each end it had in it. Their number is kept by `AmongBehind`: what `getPartners` collects grows by one with each
new edge at the head of the list that leaves the vertex.

Filters. `ListsInv`: a filter holds filters with a higher number only (a parameter of the model: no filter holds itself), so
that the recursion of `matches` ends; `MatchingExists` unfolds it and `MatchesWhatIsBelow` compares it with the closure
`Below`, from below by steps and from above by the numbers. That the others stay where they are is two facts about lists
(`ApartAt`, `PutAt`). `FiltersAreAsked` is for any number of filters and lists of any length.

SnapGraph. `IsSnap`: the list of edges holds none twice. Everything else is what iterators make of it: they yield for each edge
the first one that is parallel to it (`First`), so that `getEdges` yields as many as there are, all the same (`GetsEach`);
`removeEdges` stops where its list repeats for the first time (`CutOff`), and `TakesAway` counts what is left for either direction.
`SnapServesSingleEdges` is read off `TakesAway` and `IteratesBoth`: where no edges are parallel, `removeEdges` and the iterators keep
their promises.

ConnectedComponents. `ForestInv` is, for boost, `Forest`: ranks rise along parents, every root is connected to what is
below it, the ends of the edges done so far have one root, and a root of rank one has two vertices below it, of rank two four.
Rising ranks are why a way up ends in a root (`RootOf`), and since one of two vertices on it is above the other (`PathIsChain`),
in only one. Roots need no following of ways: what is constant along parents, and a root of itself, gives them (`RootsAre`),
so that compressing changes none (`Compressing`) and linking changes those of one tree (`LinkingRoots`). In the end the vertices
below a root are its component (`ForestIsComponents`), and another parent would have rank one, its root two and four vertices
below it. For lemon, `ComponentsAreListed` says that each component has one number, and `RelatedCounts` that the places of
a component's vertices are as many as the vertices.

### ShortestPathsProofs
`FindsShortestDistances` needs nothing but integer weights: parallel edges, loops and negative cycles are all allowed. It has three parts. The first is about walks: `Leads(m, S, u, v, n, w)` says
that a walk of n steps and weight w leads from u to v whose inner nodes are in S. Walks are cut (`CutAt`), joined
(`JoinLeads`), and shortened at a node they pass twice (`CycleIn`, `Shortened`), so that without
negative cycles no weight is lost at N steps (`LeastWalksAreBest`), and with one a short one exists. The second is the
loop's invariant `PathInv`: every entry is the weight of a walk (`Real`), and the rounds so far have `Achieved` that
no walk through the nodes they were about has less weight, unless a negative cycle shows on the diagonal
by now. In the middle of a round this holds of the pairs the loops have `Passed`. The early read of
`distanceJI` is covered: its value may be outdated in the one row where it is used, and `PairRelaxed` shows that
this loses nothing. The third compares the matrix the loops begin with to the graph. `LightestWeighs`: an entry is the weight of an edge,
so no less than that of the lightest of its parallel ones, or a 0 of the diagonal; and if parallel edges weigh alike, every edge's
weight is there. So a walk along the matrix is `Follow`ed by one in the graph that weighs no more (`WalkFollowed`), hence no
distance is below that of a shortest path and a cycle that is noticed is real; and with parallel edges alike a walk in the graph is one
along the matrix (`WalkKept`), hence distances are exact and no negative cycle goes unnoticed. A vertex without a loop
is at distance 0 from itself.

### LPSolverProofs
`CacheInv` holds whichever calls, runs, failures and removals of files come: `Cached` (a cached
name is a temporary one that was given out, and if its file is there it answers the problem of its key),
`Unused` (temporary names that were not given have no file), `IsObject` (what a solver object may hold), and the size: at
most one more than some object's limit. A hit, a miss and a failed run are taken through the files one write
at a time. `CacheIsLimited` and `AnswersFitTheProblem` rest on `SolverAssumption` and
`FlowAssumption`: a program that writes files named like temporary ones is outside them.

The flow problem. The inductive invariant is `CacheInv /\ NetworkInv /\ SolveInv`. `NetworkInv`: the network is one
(`NetworkOK`: every edge once, every number of its kind), and the list of columns names edges of its pool. `SolveInv` says
what the last `solve` left behind, which no property of the current state shows: the problem in its file is `CreateProblem` of the
network and the list of columns, the solution in hand `Fits` that problem and the status (what the cache lemmas say of a hit, a miss and a
failure), and the flow on the edges is `StoredResult` of it. Any other call makes `last` its own.

* Rows and flows: an assignment of the columns and a flow on the edges are the same thing (`FlowOf`, `ColumnFound`,
  `FlowsAreAssigned`), as an edge is found at its first place in the list of columns. `CapacityMet`, `SubCapacityMet`, `BalanceMet`,
  `TransFlowMet` and `InFlowMet` say of each kind of row that an assignment meets it exactly if its flow keeps the limit
  the row is for. `RowsMet` puts them together, through the chains and selections that list the rows: all rows are met
  exactly if the flow is `Admissible` and within the capacities of single commodities. Here `Expressible` is needed, conjunct by conjunct.
* `AddRowsAdds`: rows are numbered through, so that none is refused; `ProblemIs` gives the problem explicitly.
* `CostIsObjective`: the cost of a flow is twice the objective of its assignment. So the optimum of one is that of the
  other (`AnswerStored`), which is `FlowsAreOptimal`.
* `FindingsAreOfDemands`: an admissible flow balances every vertex, and what has to pass it comes in; what goes out is less
  only by a demand.
* `ConstraintsAreOwned`: without bounds of sets the i-th row is the i-th edge's, and the others are in the order of
  `mRowToVertexCommodity` (`RowsFindTheirOwner`); a network without edges has no such rows, however often it was
  solved (`NoEdgesNoRows`).

`NetworksAssumption` says that programs build networks like these, with limits and supplies that fit into an int
and no costs below zero.

### GraphViewProofs
`ViewInv`: while nothing crashed and the window hears of its graph, the graph's edges have their ends and the
scene is `Redrawn`: one item per element (`Populated`), every line between its ends or never drawn (`Lines`), and, if the cache
names only vertices of the graph, every item where the cache has it (`Remembered`). Redrawing is taken apart into the steps of
`updateVisualization`; that a layout and a drag take the ends of lines along is `ShowsLaidOut` and `MovesToKeeps`.
`LinesFollowItems` is read off it; `RedrawsKeepPlaces` compares two redrawn scenes with one cache. Both hold of
every behaviour of `PlayerSpec`: the thread's signals, received at any time, are steps as well.

`EdgesWaitForSource` has two parts. The list: `Search`, `VertexOrder`, `WithEdges` and `Playlist` are loops, and `LoopRuns` and
`LoopKeeps` of DataInduction give each of them an invariant over its turns. `PlaylistInOrder` says what comes of it: every
vertex once, every edge behind its source, nothing that is not in the graph, and all edges unless a loop went on in freed memory.
The play: `PlayInv` says of the one player there is that the signals in the queue are the next ones of its list, twice over, and, if it shows the
graph it was started for, that there was a last moment at which all was visible since which the signals received
alone decide what is (`Shown`). A redraw or a layout makes now that moment (`ChangeShows`), a drag leaves it where it was, and a signal received acts on the element it was
sent for and on no other, because ids of live elements differ (`GraphInv`: `IdsOnce` and `NodeIdsOnce`). If a source is still hidden, so was the edge after
it, and the edge is shown only after the source.

GVGraph is in this module too, as both are copies of the same kind of graph. `CopyInv`: the base graph gives no id to two live edges
(`IdsOnce`, over the list of free ids lemon keeps), and the copy is `Sound`: what a map holds under an id has this id in its name, so that
removing by id removes just that element from both sides. Every call, also one that throws half way, leaves a copy that
`Follows` the one before, and following is transitive; so `addNodes`, `clearNodes` and the whole initialisation are
inductions over their loops. `MapsStayWithGraphviz` is read off it. `WriterNeverCrashes` takes the writer's calls in
their order from an empty copy: nothing throws before the layout, since the ids of the graph differ and nothing is in the copy yet.

### GraphIOProofs
`IOInv`: both managers have parents and members for the classes they know, out of what there is (`Managers`), the edges of the graph
connect vertices it has, and a file in memory of its writer is `FileOK`: if nobody edited it, its vertices are
numbered as they are listed, its edges connect them, and every element is `WellStored`: its data is what its writer's list makes of its members.
`ProgramsReadEachOther` is `RoundTrip`, about one step of the reading program; this is what it has to know of the writing one, which is gone.
It says that the read does not throw and that members come back in both formats. Labels come back too, except from GEXF for the elements of a
kind with an attribute called "label" (a GEXF file has one column of this name); GraphML files with markup in a label, which cannot be
read, are outside it (section 5).

* Ids: `Attributes` is a chain of one list per ancestor and, with legacy ids, a second one in which the class itself stands for
  the ancestor. `AttributesAre` describes a position of the chain; `IdsDiffer` says that two positions with one id are of one member,
  because `n` counts through all lists. `IdsNameOneMember` is read off it.
* Members: `Deserialized` is a loop over the list of the *reading* program. `FillsMembers` gives each member what the last
  position with its slot was told; with `IdsDiffer` there is only one, so `ReadBack` returns what was written.
* GraphML lists only what the program knows: `GraphMLAppends` relates the new places of vertices and edges to those
  in the file, `EndsInPlace` says that an end found among the known vertices is the one with the id in the file. `EndsAreKept` holds of edited files as well,
  which may have lost vertices.

`TypesAssumption`, `ProgramsAssumption` and `GraphsAssumption` of GraphIO say that programs register types with members and
parents there are and that graphs given to a program are graphs.

### DataInduction
Induction over data is done by instances: the library's induction theorems take an operator as a parameter, which the
provers here cannot instantiate, so `Induction`, `FiniteInduction` and `Recursion` take a set, and a proof defines the set of
numbers (or of subsets) for which its statement holds. Recursive functions (`Among`, `Chained`, `SumOf`, `LeastWalks`,
the least of a set) are unfolded by `Recursion` or taken as loops (`LoopRuns`, `LoopKeeps`): what a sum of a joined or chained list is
(`SumJoins`, `SumOverChained`, `ChainedEven`) is what the flow proofs rest on.

Runs check what is hardest to believe of each component; the theorems also state facts that no run checks any more
because the proof says more (`LevelFollowsDepth`, `HeldWhileOpen`, `SearchStaysInReach`, `DeltaStepsAreGraphs`, ...).

**Only model-checked.** Liveness (`CallsEnd`, `SearchEnds`, `PlayShowsAll`) is out of the prover's reach. Every safety property that a passing run
checks is a theorem.

## 5. Disagreements between code and documentation

* `TransactionOutermost`: `TransactionObserver.hpp:37` promises that events are held "until the
  outermost transaction has been finished"; `TransactionObserver.cpp:58` emits at every STOP.
* `ConnectedComponents`: lemon's `identifyConnectedComponents` fills its node map over the nodes of a copy of the graph
  (`lemon/DirectedGraph.cpp:252`), whose ids follow the order of iteration, and reads it with the original's ids. lemon iterates newest first,
  so that vertices are related to components they are not in even if nothing was ever removed from the graph.
* `LPSolverTempfile`: `LPSolver.hpp:116` says that `saveSolutionToTempfile` returns "the temporary file where
  the solution has been saved to". `LPSolver.cpp:179` renames the solution first and then copies it onto itself: there
  is no such file.
* `SubGraphExport`: `SubGraph.hpp:132` says that `toBaseGraph` copies "only the enabled nodes" and edges. `SubGraph.cpp:86` adds the enabled edges,
  and with them their vertices, also disabled ones: `applyFilters` (:30) and `enable` enable edges whatever their ends are.
* `RegistryClone`: `GraphElement.hpp:110` says that `fromUuid` gets the "existing GraphElement from Uuid". It does not find an element
  any more after a clone of it is gone (`GraphElement.cpp:20`).

Met while modelling, each part of a model or told under "hazards", without a run of its own:

* `removeVertex` leaves its edges associated under ids whose arcs are gone; lemon gives the id to the next arc,
  and `getEdge(getEdgeId(e))` is another edge (`BaseGraph.hpp:210`: "\return Edge with given id").
* `removeEdges(v, v)` collects every loop twice (`BaseGraph.cpp:295`) and throws on the second removal, with all loops
  removed, where `BaseGraph.hpp:173` says that it removes "edges which link two vertices" and returns their number.
* `SubGraph.hpp:26` says that disabling a vertex disables its edges; `SubGraph.cpp:109` does not. lemon's override does.
* snap's iterators give the first of parallel edges for each of them (`snap/EdgeIterator.hpp:54`), not "all edges of this
  vertex" (`BaseGraph.hpp:302`), so that `removeEdges` throws half-way and leaves the others.
* FloydWarshall: the last of several parallel edges overwrites a lighter one (`FloydWarshall.cpp:39`), and a loop the 0 of
  its vertex, so that what is returned need not be the distances of the graph, and a negative cycle may go unnoticed.
* `setUuid` leaves the entry of the old uuid (`GraphElement.cpp:77`): once the element is destroyed, `fromUuid` leads to it.
* `GraphMLWriter.hpp:13` says "GRAPHML standard format", which is XML; a label with `<` or `&` goes into the file as it is
  (`GraphMLWriter.cpp:117`), and the reader throws.
* An unmatched STOP lowers the level
  below zero before it throws, so that the next transaction is not noticed (the runs take balanced clients).
* lemon's in-arc iterator does not advance at an arc it should skip (`lemon/ArcIterator.hpp:82`).
* boost: a removal moves the vertices behind the removed one and their descriptors in the maps go stale; `copy` hands the new
  graph the original's id and descriptors; `identifyConnectedComponents` takes any parent for a root, and
  four vertices may give one component too many.
* snap: `copy` adds only edges, and isolated vertices are lost (`snap/DirectedGraph.cpp:15`).
* The copy constructor of weighted elements constructs the base anew (`NWeighted.hpp:54`): its clone
  has a new uuid and neither label nor ends.
* `Filter::removeAt` on an empty list compares with the largest unsigned number and never throws (`Filter.hpp:132`);
  `AddFilterDialog.cpp:26` asks whether a box is enabled, not whether it is checked.
* `RandomDraw` draws an item of density zero for the random number 0, which `RandomDraw.cpp:96` excludes ("(0,1)").
* GEXF: a class with an attribute called "label" takes the column of the labels, and the labels of its kind do not come back.
* `GexfWriter.cpp:93` appends the suffix at the end: `write("g.xml")` returns a name that no file has.
* CorrelationClustering reads `mInitialVolume` before it is set; edges between two members of a ball that do not touch its
  centre keep their distance (the comment at `CorrelationClustering.cpp:303` is about all of them).
* The flow problem's list of columns grows with every solve (`MultiCommodityMinCostFlow.cpp:136`): after an edge was
  added the second solve stores flows on the wrong edges (`Aligned` is the condition under which it does not).
  Sets of commodities are bounded by the columns of the first edge, whichever edge they belong to.
* GUI: the `QBaseGraph` of an imported graph is not connected to the window (`GraphAnalysisGui.cpp:228`), so that the line of an
  edge that was removed there and comes back stays where it was (`EdgesFollowItems` is said of connected graphs); the
  grid layout never forgets a coordinate; a new filter item's activation is not initialised; the player's list may
  reallocate under the reference it reads.

## 6. Not modelled

* One thread is assumed throughout, as in the library, except in Player. Observers do not change the graph they are
  notified by; visitors do not change the graph searched.
* Hyper edges, and `copy` for lemon (its ids are part of ConnectedComponents) and boost.
* Iterators as objects: what they yield is part of the loops that use them.
* The embedded GLPK, Soplex and SCIP solvers, and `MinCostFlow`, which calls lemon's algorithms: the
  work is done in libraries.
* Floating point: integers stand for weights, distances and flows, so nothing is said of rounding and `epsilon`.
* `PropertyDialog`, `IODialog` and other dialogs, which copy fields to and from elements; `GraphWidgetManager` and its
  docks, which the program never instantiates; `Benchmark`, which measures; `MD5`; the Python wrappers.
* Text of formats, drawing, colours, logging. What a conversion loses or changes is modelled; how it is spelt is not.
* What YAML brings back is modelled, but no property is about it; nothing reads graphviz.

## 7. Plan

*Done*: BaseGraph, SubGraph, TransactionObserver, Search, Delta; ShortestPaths; the type managers, readers and writers; the three
back-ends, elements, and clients of views; LP solvers and flows; clustering; the GUI. Proofs of all safety
properties of BaseGraph, SubGraph, TransactionObserver, Search, Delta, ElementRegistry, FilterManager, CorrelationClustering,
ShortestPaths, LPSolver, MultiCommodityFlow, BoostGraph, SnapGraph, GraphView, Player, GVGraph, RandomDraw, BipartiteGraph, Filters and
ConnectedComponents and GraphIO.

*Left*, in this order:

1. Observers and visitors that call the graph they are notified by (`TransactionObserver.cpp:58`), which
   makes `notifyAll` and the emitting loop re-entrant.
2. Hyper edges, and `BaseGraph::copy` of boost with the original's descriptors.
3. A property of what YAML brings back; the attributes of GVGraph.
4. `MinCostFlow` and the embedded solvers, against an abstract solver.
5. The dialogs, if they come to keep a state of their own.
