------------------------ MODULE MCMultiCommodityFlow ------------------------
(* Problems, networks and callers for model checking MultiCommodityFlow.       *)
EXTENDS MultiCommodityFlow

\* One column of at most 1, and a row that can or cannot be met.
Line(total) == AddRow(AddColumns(NewProblem(<<"direct", 0>>), <<Column(1, 2)>>),
                      NewRow(1, Bounds(total, total, "Exact"), <<<<1, 1>>>>))
MCProblems == {Line(1), Line(2)}
MCInitialFiles == {(<<"p", 1>> :> [kind |-> "problem", problem |-> Line(1)])
                   @@ (<<"p", 2>> :> [kind |-> "problem", problem |-> Line(2)])}
MCProblemFiles == {<<"p", 1>>, <<"p", 2>>}
MCSolutionFiles == {<<"s", 1>>}
MCSolverTypes == {[s \in Solvers |-> IF s = "direct" THEN "CBC_SOLVER" ELSE t] :
                     t \in {"GLPK_SOLVER", "CLP_SOLVER"}}
MCInstallations == {Types, {"CBC_SOLVER"}}
MCPrefixes == {<<>>, <<"r">>}
MCBounded == {<<2, {1, 2}, 2>>}

\* Vertices 1 .. n, every edge without limits beyond u, every cost c, no supply.
Plain(K, n, edges, ends, u, c) ==
    [commodities |-> K, vertices |-> [i \in 1 .. n |-> i], edges |-> edges,
     pool |-> DOMAIN ends, ends |-> ends,
     capacity |-> [e \in DOMAIN ends |-> u], upper |-> [e \in DOMAIN ends |-> [k \in 1 .. K |-> u]],
     cost |-> [e \in DOMAIN ends |-> [k \in 1 .. K |-> c]],
     sub |-> [e \in DOMAIN ends |-> <<>>],
     supply |-> [v \in 1 .. n |-> [k \in 1 .. K |-> 0]],
     minTrans |-> [v \in 1 .. n |-> [k \in 1 .. K |-> 0]],
     maxTrans |-> [v \in 1 .. n |-> [k \in 1 .. K |-> UIntMax]],
     inflow |-> [v \in 1 .. n |-> <<>>]]

\* Two commodities along a line, the second edge for both of them together 1.
LineOfTwo == [Plain(2, 3, <<"b", "a">>, [a |-> <<1, 2>>, b |-> <<2, 3>>], 2, 2) EXCEPT
                !.supply[1] = <<1, 0>>, !.supply[3] = <<-1, 0>>,
                !.minTrans[2] = <<1, 0>>, !.maxTrans[2] = <<1, 1>>,
                !.sub["b"] = <<<<{1, 2}, 1>>>>]

\* Two ways, of which one is cheaper, and the demand of two commodities.
TwoWays == [Plain(2, 2, <<"b", "a">>, [a |-> <<1, 2>>, b |-> <<1, 2>>, c |-> <<1, 2>>], 1, 2) EXCEPT
              !.supply[1] = <<1, 1>>, !.supply[2] = <<-1, -1>>,
              !.cost["a"] = <<4, 2>>, !.cost["b"] = <<2, 4>>, !.cost["c"] = <<2, 2>>,
              !.minTrans[2] = <<1, 0>>]

\* As many of the second commodity wanted as the edges let through, or more.
Narrow(d) == [Plain(2, 2, <<"a">>, [a |-> <<1, 2>>], 2, 2) EXCEPT
                !.supply[1] = <<1, d>>, !.supply[2] = <<-1, -d>>, !.upper["a"] = <<2, 1>>,
                !.inflow[2] = <<[commodities |-> {1, 2}, min |-> 1, max |-> 2]>>]

\* A set of commodities bounded on the second edge, an isolated vertex.
Inexpressible == [Plain(1, 3, <<"b", "a">>, [a |-> <<1, 2>>, b |-> <<1, 2>>], 2, 2) EXCEPT
                    !.supply[1] = <<1>>, !.supply[2] = <<-1>>, !.supply[3] = <<1>>,
                    !.sub["a"] = <<<<{1}, 0>>>>]

\* A cheap way through 2 and a costly one past it, for between min and max.
Detour(min, max, c) ==
    [Plain(1, 3, <<"c", "b", "a">>, [a |-> <<1, 2>>, b |-> <<2, 3>>, c |-> <<1, 3>>], 2, 2) EXCEPT
        !.supply[1] = <<1>>, !.supply[3] = <<-1>>, !.cost["c"] = <<c>>,
        !.minTrans[2] = <<min>>, !.maxTrans[2] = <<max>>]

MCNetworks == {Detour(0, 0, 8), Detour(1, UIntMax, 2), LineOfTwo, TwoWays, Narrow(1), Narrow(2), Inexpressible}
=============================================================================
