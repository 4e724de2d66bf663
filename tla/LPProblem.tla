----------------------------- MODULE LPProblem -----------------------------
(* A linear problem (lp::Problem) as its CPLEX text states it to a solver, and *)
(* what a solver answers.  Columns are numbered from 1 in the order they are   *)
(* added; a row lists <<column, coefficient>>.  Costs are kept in halves, so   *)
(* that a cost need not be whole.                                              *)
EXTENDS Integers, FiniteSetsExt, SequencesExt, Maps

CONSTANT IntMax        \* std::numeric_limits<int>::max()

ASSUME IntMaxAssumption == IntMax \in Nat

Bounds(min, max, type) == [min |-> min, max |-> max, type |-> type]

NewProblem(name) == [name |-> name, columns |-> <<>>, rows |-> <<>>, refused |-> FALSE]

Column(upper, cost) == [upper |-> upper, cost |-> cost]
AddColumns(p, columns) == [p EXCEPT !.columns = @ \o columns]

NewRow(name, bounds, entries) == [name |-> name, bounds |-> bounds, entries |-> entries]

\* A row whose name is taken throws.
AddRow(p, row) ==
    IF \E i \in DOMAIN p.rows : p.rows[i].name = row.name
    THEN [p EXCEPT !.refused = TRUE]
    ELSE [p EXCEPT !.rows = Append(@, row)]
AddRows(p, rows) ==
    LET added[n \in 0 .. Len(rows)] == IF n = 0 THEN p ELSE AddRow(added[n - 1], rows[n])
    IN added[Len(rows)]

---------------------------------------------------------------------------
(* The text.  Limits beyond int are written as infinity, and a row with two    *)
(* limits as a row of a slack variable with these limits.                      *)
AboveMin(b, x) == b.min <= x
BelowMax(b, x) == b.max > IntMax \/ x <= b.max

Admits(b, x) ==
    CASE b.type \in {"Free", "LowerUpper"} -> AboveMin(b, x) /\ BelowMax(b, x)
      [] b.type = "Lower" -> AboveMin(b, x)
      [] b.type = "Upper" -> BelowMax(b, x)
      [] b.type = "Exact" -> x = b.min

\* Coefficients of the objective are written as whole numbers.
WrittenCost(c) == c \div 2

Total(entries, a) == SumOf([i \in DOMAIN entries |-> entries[i][2] * a[entries[i][1]]])
Meets(row, a) == Admits(row.bounds, Total(row.entries, a))
Objective(p, a) ==
    SumOf([i \in DOMAIN p.columns |-> WrittenCost(p.columns[i].cost) * a[i]])

\* Generals: whole values between the bounds of each column.
Assignments(p) ==
    {a \in [DOMAIN p.columns -> UNION {0 .. p.columns[i].upper : i \in DOMAIN p.columns}] :
        \A i \in DOMAIN a : a[i] <= p.columns[i].upper}

Feasible(p) == {a \in Assignments(p) : \A i \in DOMAIN p.rows : Meets(p.rows[i], a)}

Optimal(p) ==
    LET candidates == Feasible(p)
        objectives == {Objective(p, a) : a \in candidates}
    IN {a \in candidates : \A o \in objectives : Objective(p, a) <= o}
=============================================================================
