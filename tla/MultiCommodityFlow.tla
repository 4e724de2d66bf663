------------------------- MODULE MultiCommodityFlow -------------------------
(* MultiCommodityMinCostFlow: the flows of several commodities through a       *)
(* network, stated as a linear problem for an LPSolver of its own and written  *)
(* back to the edges.  The network is a record: its vertices and edges in the  *)
(* order the graph iterates over them, and the members of                      *)
(* MultiCommodityVertex and MultiCommodityEdge by vertex and edge.  A solver   *)
(* object the program uses directly shares the cache with it.                  *)
EXTENDS LPSolver

CONSTANTS Flow,             \* the solver object of the flow problem
          Networks,         \* the networks a program may have built
          Bounded,          \* <<vertex, commodities, bound>>: inflow bounds it may set
          SavePrefixes        \* prefixes callers give solve(); <<>> for none

VARIABLES network, flow,    \* the network and the flow stored on each edge
          mColumnToEdge, mRowToVertexCommodity

flowVars == <<network, flow, mColumnToEdge, mRowToVertexCommodity>>
vars == <<lpVars, flowVars>>

UIntMax == 2 * IntMax + 1   \* std::numeric_limits<uint32_t>::max(): no bound

Commodities(n) == 1 .. n.commodities
InEdges(n, v) == Among(n.edges, {e \in ToSet(n.edges) : n.ends[e][2] = v})
OutEdges(n, v) == Among(n.edges, {e \in ToSet(n.edges) : n.ends[e][1] = v})

\* Numbers per commodity.
Numbers(n, set) == [Commodities(n) -> set]

\* The graph has each edge once, the members are set for every commodity.
NetworkOK(n) ==
    /\ DOMAIN n = {"commodities", "vertices", "edges", "pool", "ends", "capacity", "upper", "cost",
                   "sub", "supply", "minTrans", "maxTrans", "inflow"}
    /\ n.commodities \in Nat /\ n.vertices \in Seq(ToSet(n.vertices))
    /\ n.edges \in Seq(n.pool) /\ \A i, j \in DOMAIN n.edges : n.edges[i] = n.edges[j] => i = j
    /\ \A e \in n.pool :
          /\ DOMAIN n.ends[e] = {1, 2} /\ n.capacity[e] \in Nat
          /\ n.upper[e] \in Numbers(n, Nat) /\ n.cost[e] \in Numbers(n, Int)
          /\ n.sub[e] \in Seq((SUBSET Nat) \X Nat)
    /\ DOMAIN n.inflow = ToSet(n.vertices)
    /\ \A v \in ToSet(n.vertices) :
          /\ n.supply[v] \in Numbers(n, Int)
          /\ n.minTrans[v] \in Numbers(n, Nat) /\ n.maxTrans[v] \in Numbers(n, Nat)
          /\ n.inflow[v] \in Seq([commodities : SUBSET Nat, min : Nat, max : Nat])

\* Supplies at the ends of int are refused when the text is written, costs below
\* zero end up as huge numbers and lower limits beyond int as any: no network has
\* them.
Writable(n) ==
    /\ \A v \in ToSet(n.vertices) :
          /\ \A k \in Commodities(n) :
                n.supply[v][k] \in -IntMax .. IntMax - 1 /\ n.minTrans[v][k] <= IntMax
          /\ \A b \in ToSet(n.inflow[v]) : b.min <= IntMax
    /\ \A e \in n.pool, k \in Commodities(n) : n.cost[e][k] >= 0

ASSUME NetworksAssumption ==
    /\ \A n \in Networks : NetworkOK(n) /\ Writable(n)
    /\ \A b \in Bounded : b[2] \in SUBSET Nat /\ b[3] \in Nat /\ b[3] <= IntMax

---------------------------------------------------------------------------
(* The linear problem.  columnToEdge is searched for the first occurrence of   *)
(* an edge.                                                                    *)
Place(columnToEdge, e) ==
    CHOOSE i \in DOMAIN columnToEdge :
        columnToEdge[i] = e /\ \A j \in 1 .. i - 1 : columnToEdge[j] # e
GetColumnIndex(n, columnToEdge, e, k) == (Place(columnToEdge, e) - 1) * n.commodities + k

\* One column for each edge and commodity.
EdgeColumns(n, e) == [k \in Commodities(n) |-> Column(n.upper[e][k], n.cost[e][k])]
WithColumns(n, p) ==
    AddColumns(p, Chained([i \in DOMAIN n.edges |-> EdgeColumns(n, n.edges[i])]))

\* The capacity of an edge, then those of sets of commodities, whose columns are
\* taken to be the first ones of the problem.
CapacityRow(n, i) ==
    [bounds |-> Bounds(0, n.capacity[n.edges[i]], "LowerUpper"),
     entries |-> [k \in Commodities(n) |-> <<(i - 1) * n.commodities + k, 1>>]]
SubCapacityRow(n, sub) ==
    LET ks == Ascending(sub[1]) IN
    [bounds |-> Bounds(0, sub[2], "LowerUpper"), entries |-> [j \in DOMAIN ks |-> <<ks[j], 1>>]]
EdgeRows(n, i) ==
    <<CapacityRow(n, i)>> \o
    [s \in DOMAIN n.sub[n.edges[i]] |-> SubCapacityRow(n, n.sub[n.edges[i]][s])]

Entries(n, columnToEdge, es, k, c) ==
    [i \in DOMAIN es |-> <<GetColumnIndex(n, columnToEdge, es[i], k), c>>]

\* supply = outflow - inflow
BalanceRow(n, cs, v, k) ==
    [bounds |-> Bounds(n.supply[v][k], n.supply[v][k], "Exact"),
     entries |-> Entries(n, cs, InEdges(n, v), k, -1) \o Entries(n, cs, OutEdges(n, v), k, 1)]

\* Mutant of LowerLimit: only the upper limit is written.
NoLowerLimit(min, max) == Bounds(min, max, "Upper")
LowerLimit(min, max) ==
    IF max # UIntMax THEN Bounds(min, max, "LowerUpper") ELSE Bounds(min, 0, "Lower")

TransFlowRow(n, cs, v, k) ==
    [bounds |-> LowerLimit(n.minTrans[v][k], n.maxTrans[v][k]),
     entries |-> Entries(n, cs, InEdges(n, v), k, 1)]
\* Mutant of TransFlowBounded: both limits are needed, as for the inflow.
TransFlowBoundedTwice(n, v, k) == n.maxTrans[v][k] # UIntMax /\ n.minTrans[v][k] # 0
TransFlowBounded(n, v, k) == n.maxTrans[v][k] # UIntMax \/ n.minTrans[v][k] # 0

EntriesOf(n, columnToEdge, e, commodities) ==
    LET ks == Ascending(commodities) IN
    [j \in DOMAIN ks |-> <<GetColumnIndex(n, columnToEdge, e, ks[j]), 1>>]

\* Bounds of the inflow of a set of commodities, when both limits are given.
InFlowRow(n, cs, v, b) ==
    [bounds |-> LowerLimit(b.min, b.max),
     entries |-> Chained([i \in DOMAIN InEdges(n, v) |->
                            EntriesOf(n, cs, InEdges(n, v)[i], b.commodities)])]
InFlowBounded(b) == b.max # UIntMax /\ b.min # 0

Owned(row, owner) == [row |-> row, owner |-> owner]
CommodityRows(n, cs, v, k) ==
    <<Owned(BalanceRow(n, cs, v, k), <<v, k>>)>> \o
    IF TransFlowBounded(n, v, k) THEN <<Owned(TransFlowRow(n, cs, v, k), <<v, k>>)>> ELSE <<>>
InFlowRows(n, cs, v) ==
    LET bounds == Among(n.inflow[v], {b \in ToSet(n.inflow[v]) : InFlowBounded(b)})
    IN [i \in DOMAIN bounds |-> Owned(InFlowRow(n, cs, v, bounds[i]), <<>>)]

\* A row without entries is not added.
Filled(rows) == Among(rows, {r \in ToSet(rows) : r.row.entries # <<>>})
VertexRows(n, cs, v) ==
    Filled(Chained([k \in Commodities(n) |-> CommodityRows(n, cs, v, k)]) \o InFlowRows(n, cs, v))

AllVertexRows(n, cs) == Chained([i \in DOMAIN n.vertices |-> VertexRows(n, cs, n.vertices[i])])
AllEdgeRows(n) == Chained([i \in DOMAIN n.edges |-> EdgeRows(n, i)])

\* Rows are named y1, y2, ...
Named(rows) == [i \in DOMAIN rows |-> NewRow(i, rows[i].bounds, rows[i].entries)]

\* The text names the time it was made at, so no two problems are alike.
CreateProblem(n, cs, time) ==
    LET vertexRows == AllVertexRows(n, cs)
        rows == AllEdgeRows(n) \o [i \in DOMAIN vertexRows |-> vertexRows[i].row]
    IN AddRows(WithColumns(n, NewProblem(<<"multicommodity", time>>)), Named(rows))

\* The rows of vertices and commodities in the order they were added.
\* Mutant of RowOwners: the rows of bounds are not noted.
RowOwnersOfBalance(n, cs) ==
    LET rows == AllVertexRows(n, cs)
        owned == Among(rows, {r \in ToSet(rows) : r.row.bounds.type = "Exact"})
    IN [i \in DOMAIN owned |-> owned[i].owner]
RowOwners(n, cs) ==
    LET rows == AllVertexRows(n, cs)
        owned == Among(rows, {r \in ToSet(rows) : r.owner # <<>>})
    IN [i \in DOMAIN owned |-> owned[i].owner]

\* The vertex and commodity, or the edge, behind a row that cannot be met.
VertexConstraint(idx) == mRowToVertexCommodity[idx - Len(mColumnToEdge) + 1]
EdgeConstraint(idx) == mColumnToEdge[idx + 1]

---------------------------------------------------------------------------
(* solve.  The problem goes to a temporary file; the solution is saved, as far *)
(* as saving it works, and stored on the edges whatever the status.            *)
StoredResult(n, cs, solution) ==
    [e \in ToSet(n.edges) |-> [k \in Commodities(n) |->
        ColumnValue(solution, GetColumnIndex(n, cs, e, k))]]

ProblemName(prefix) == Append(prefix, "problem")
SolutionName(prefix) == Append(prefix, "solution")

ASSUME FlowAssumption ==
  /\ Flow \in Solvers
  /\ \A prefix \in SavePrefixes \ {<<>>} :
        ProblemName(prefix) \notin Temps /\ SolutionName(prefix) \notin Temps

\* With a prefix both files are copied to it; without, the solution gets a new
\* name only.
SavedAs(r, prefix, problemFile) ==
    IF prefix = <<>>
    THEN [r EXCEPT !.solver = SavedToTempfile(@, r.temps), !.temps = @ + 1]
    ELSE LET copied == Over(Entry(ProblemName(prefix), r.files[problemFile]), r.files) IN
         IF r.solver.solutionFile \in DOMAIN r.files
         THEN [r EXCEPT !.files = Over(Entry(SolutionName(prefix), r.files[r.solver.solutionFile]), copied)]
         ELSE [r EXCEPT !.files = copied, !.status = "throws"]

Solve(prefix, useCaching) ==
    LET n == network
        cs == mColumnToEdge \o n.edges
        problemFile == Temp(temps + 1)
        start == [Now(solvers[Flow]) EXCEPT
                    !.temps = @ + 1,
                    !.files = Over(Entry(problemFile, [kind |-> "problem",
                                  problem |-> CreateProblem(n, cs, temps)]), @)]
    IN
    /\ runs < MaxRuns /\ temps + 3 <= MaxTemps
    /\ mColumnToEdge' = cs
    /\ mRowToVertexCommodity' = mRowToVertexCommodity \o RowOwners(n, cs)
    /\ \E r \in RunResults(start, problemFile, "CPLEX", useCaching) :
          LET saved == IF r.status = "throws" THEN r ELSE SavedAs(r, prefix, problemFile) IN
          /\ Takes("solve", Flow, saved, problemFile)
          /\ flow' = IF saved.status = "throws" THEN flow
                     ELSE StoredResult(n, cs, saved.solver.solution)
    /\ UNCHANGED network

---------------------------------------------------------------------------
(* The program changes the network between two calls.  The graph iterates over *)
(* its newest edge first.                                                      *)
AddEdge(e) ==
    /\ e \in network.pool \ ToSet(network.edges)
    /\ network' = [network EXCEPT !.edges = <<e>> \o @]
    /\ flow' = Over(Entry(e, [k \in Commodities(network) |-> 0]), flow)
    /\ Call("addEdge", Missing, "ok", Missing)
    /\ UNCHANGED <<files, temps, solvers, mColumnToEdge, mRowToVertexCommodity>>
    /\ CacheUnchanged

BoundOf(v, commodities) ==
    IF \E i \in DOMAIN network.inflow[v] : network.inflow[v][i].commodities = commodities
    THEN CHOOSE i \in DOMAIN network.inflow[v] : network.inflow[v][i].commodities = commodities
    ELSE Len(network.inflow[v]) + 1

WithBound(v, commodities, b) ==
    [network EXCEPT !.inflow[v] =
        IF BoundOf(v, commodities) > Len(@) THEN Append(@, b)
        ELSE [@ EXCEPT ![BoundOf(v, commodities)] = b]]

SetCommoditiesMaxInFlow(v, commodities, maxFlow) ==
    LET i == BoundOf(v, commodities)
        min == IF i > Len(network.inflow[v]) THEN 0 ELSE network.inflow[v][i].min
    IN
    /\ network' = WithBound(v, commodities,
                     [commodities |-> commodities, min |-> min, max |-> maxFlow])
    /\ Call("setBound", Missing, "ok", Missing)
    /\ UNCHANGED <<files, temps, solvers, flow, mColumnToEdge, mRowToVertexCommodity>>
    /\ CacheUnchanged

SetCommoditiesMinInFlow(v, commodities, minFlow) ==
    LET i == BoundOf(v, commodities)
        max == IF i > Len(network.inflow[v]) THEN UIntMax ELSE network.inflow[v][i].max
    IN
    /\ network' = WithBound(v, commodities,
                     [commodities |-> commodities, min |-> minFlow, max |-> max])
    /\ Call("setBound", Missing, "ok", Missing)
    /\ UNCHANGED <<files, temps, solvers, flow, mColumnToEdge, mRowToVertexCommodity>>
    /\ CacheUnchanged

FlowInit ==
    /\ LPInit
    /\ network \in Networks
    /\ flow = [e \in ToSet(network.edges) |-> [k \in Commodities(network) |-> 0]]
    /\ mColumnToEdge = <<>> /\ mRowToVertexCommodity = <<>>

FlowNext ==
    \/ LPNext /\ UNCHANGED flowVars
    \/ \E prefix \in SavePrefixes, useCaching \in BOOLEAN : Solve(prefix, useCaching)
    \/ \E e \in network.pool : AddEdge(e)
    \/ \E b \in Bounded : b[1] \in ToSet(network.vertices) /\
          (SetCommoditiesMaxInFlow(b[1], b[2], b[3]) \/ SetCommoditiesMinInFlow(b[1], b[2], b[3]))

FlowSpec == FlowInit /\ [][FlowNext]_vars

---------------------------------------------------------------------------
(* validateInflow: what it finds, as <<vertex, commodities, kind>>.            *)
Sum(es, k) == SumOf([i \in DOMAIN es |-> flow[es[i]][k]])
InFlow(v, k) == Sum(InEdges(network, v), k)
OutFlow(v, k) == Sum(OutEdges(network, v), k)

TooLittle(v) == {k \in Commodities(network) :
    network.supply[v][k] < 0 /\ network.supply[v][k] + InFlow(v, k) < 0}
Unbalanced(v) == {k \in Commodities(network) :
    OutFlow(v, k) - InFlow(v, k) - network.supply[v][k] # 0}
TransMissing(v) == {k \in Commodities(network) :
    /\ network.minTrans[v][k] # 0
    /\ InFlow(v, k) < network.minTrans[v][k] \/ OutFlow(v, k) < network.minTrans[v][k]}

Violations(v, bad, kind, totalKind) ==
    {<<v, {k}, kind>> : k \in bad} \cup
    IF bad # {} /\ totalKind # "none" THEN {<<v, bad, totalKind>>} ELSE {}

ValidateInflow ==
    UNION {Violations(v, TooLittle(v), "MinFlow", "TotalMinFlow") \cup
           Violations(v, Unbalanced(v), "FlowBalance", "none") \cup
           Violations(v, TransMissing(v), "TransFlow", "TotalTransFlow") :
              v \in ToSet(network.vertices)}

---------------------------------------------------------------------------
(* What the flow problem is (MultiCommodityMinCostFlow.hpp), said of flows.    *)
FlowSum(f, es, k) == SumOf([i \in DOMAIN es |-> f[es[i]][k]])
Together(f, e, ks) == LET list == Ascending(ks) IN SumOf([j \in DOMAIN list |-> f[e][list[j]]])
SetSum(f, es, ks) == SumOf([i \in DOMAIN es |-> Together(f, es[i], ks)])

Carries(n, f, e) ==
    /\ SumOf(f[e]) <= n.capacity[e]
    /\ \A k \in Commodities(n) : f[e][k] <= n.upper[e][k]
    /\ \A s \in ToSet(n.sub[e]) : Together(f, e, s[1]) <= s[2]

Within(x, min, max) == min <= x /\ (max = UIntMax \/ x <= max)

Passes(n, f, v) ==
    /\ \A k \in Commodities(n) :
          /\ FlowSum(f, OutEdges(n, v), k) - FlowSum(f, InEdges(n, v), k) = n.supply[v][k]
          /\ Within(FlowSum(f, InEdges(n, v), k), n.minTrans[v][k], n.maxTrans[v][k])
    /\ \A b \in ToSet(n.inflow[v]) :
          Within(SetSum(f, InEdges(n, v), b.commodities), b.min, b.max)

Admissible(n, f) == /\ \A e \in ToSet(n.edges) : Carries(n, f, e)
                    /\ \A v \in ToSet(n.vertices) : Passes(n, f, v)

EdgeCost(n, f, e) == SumOf([k \in Commodities(n) |-> n.cost[e][k] * f[e][k]])
Cost(n, f) == SumOf([i \in DOMAIN n.edges |-> EdgeCost(n, f, n.edges[i])])

AllFlows(n) ==
    LET limited(e) == {f \in [Commodities(n) -> 0 .. IntMax] :
                          \A k \in Commodities(n) : f[k] <= n.upper[e][k]}
    IN {f \in [ToSet(n.edges) -> UNION {limited(e) : e \in ToSet(n.edges)}] :
           \A e \in ToSet(n.edges) : f[e] \in limited(e)}

\* What the linear problem says of the network: no bound of a set of commodities
\* on another edge than the first, no inflow bound with one limit or of no
\* commodity, no isolated vertex with a supply, whole costs, no limit beyond int.
Expressible(n) ==
    /\ \A i \in DOMAIN n.edges : i # 1 => n.sub[n.edges[i]] = <<>>
    /\ \A v \in ToSet(n.vertices) :
          /\ \A b \in ToSet(n.inflow[v]) :
                /\ InFlowBounded(b) /\ b.max <= IntMax /\ InEdges(n, v) # <<>>
                /\ b.commodities \in (SUBSET Commodities(n)) \ {{}}
          /\ \A k \in Commodities(n) : n.maxTrans[v][k] \in 0 .. IntMax \cup {UIntMax}
          /\ InEdges(n, v) \o OutEdges(n, v) = <<>> =>
                \A k \in Commodities(n) : n.supply[v][k] = 0
          /\ InEdges(n, v) = <<>> => \A k \in Commodities(n) : n.minTrans[v][k] = 0
    /\ \A e \in ToSet(n.edges) :
          /\ n.capacity[e] <= IntMax
          /\ \A s \in ToSet(n.sub[e]) : s[1] \subseteq Commodities(n) /\ s[2] <= IntMax
          /\ \A k \in Commodities(n) : n.upper[e][k] <= IntMax /\ n.cost[e][k] % 2 = 0

\* The columns are those of the graph as it is: no edge came since the first solve.
Aligned == SubSeq(mColumnToEdge, 1, Len(network.edges)) = network.edges

\* A call of solve that came back with the solution of its problem.
Solved == /\ last.call = "solve" /\ Expressible(network) /\ Aligned
          /\ solvers[Flow].solution.of # Missing

\* After a solve that found an optimum, the flows stored on the edges are
\* admissible and no admissible flow is cheaper; where it found the problem
\* infeasible there is none (createProblemCPLEX, getColumnIndex, storeResult).
StoredFlowIsOptimal ==
    Solved =>
      LET admissible == {f \in AllFlows(network) : Admissible(network, f)} IN
      /\ last.status = "OPTIMAL" => /\ flow \in admissible
                                    /\ \A f \in admissible : Cost(network, flow) <= Cost(network, f)
      /\ last.status = "INFEASIBLE" => admissible = {}

\* What validateInflow finds wrong after an optimum was found is at most that a
\* vertex with a demand lets less through than it must (the linear problem
\* bounds only what comes in).
ValidatorAgrees ==
    Solved /\ last.status = "OPTIMAL" =>
      \A x \in ValidateInflow :
         /\ x[3] \in {"TransFlow", "TotalTransFlow"}
         /\ \E k \in x[2] : network.supply[x[1]][k] < 0

\* As long as every edge has one row and no inflow is bounded, a constraint of
\* the first problem is mapped back to the edge, or the vertex and commodity,
\* whose row it is (vertexConstraints, edgeConstraints).
ConstraintsFindTheirOwner ==
    mColumnToEdge = network.edges /\ last.call = "solve" /\ last.file \in DOMAIN files
    /\ (\A e \in ToSet(network.edges) : network.sub[e] = <<>>)
    /\ (\A v \in ToSet(network.vertices) : network.inflow[v] = <<>>) =>
      LET rows == files[last.file].problem.rows IN
      \A idx \in 0 .. Len(rows) - 1 : \A x \in ToSet(rows[idx + 1].entries) :
        \E i \in DOMAIN network.edges, k \in Commodities(network) :
          /\ x[1] = (i - 1) * network.commodities + k
          /\ IF idx < Len(mColumnToEdge) THEN network.edges[i] = EdgeConstraint(idx)
             ELSE /\ idx - Len(mColumnToEdge) + 1 \in DOMAIN mRowToVertexCommodity
                  /\ VertexConstraint(idx)[1] \in ToSet(network.ends[network.edges[i]])
                  /\ VertexConstraint(idx)[2] = k
=============================================================================
