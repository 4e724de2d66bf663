---------------------------- MODULE ElementTypes ----------------------------
(* VertexTypeManager, EdgeTypeManager and the AttributeManager both derive     *)
(* from: which classes of vertices (edges) the program has registered, from    *)
(* which classes they were said to derive, and which members of a class are    *)
(* written to a file.  The two managers are the same code twice, so a manager  *)
(* is a record and every method an operator on it.                             *)
(*                                                                             *)
(* Classes and members are numbers in the alphabetical order of their names,   *)
(* the order in which std::set and std::map hand them out.                     *)
EXTENDS Maps, Integers, SequencesExt

CONSTANT Missing        \* the null prototype of a class nobody registered

Registered(m) == DOMAIN m.parents

\* The constructor registers the class of the library and makes it the default.
NewManager(default) ==
    [parents |-> Entry(default, {}), members |-> Entry(default, {}), default |-> default]

\* A class registered a second time keeps the parents of the first time.
RegisterType(m, t, ps) ==
    IF t \in Registered(m) THEN m
    ELSE [m EXCEPT !.parents = Over(Entry(t, ps), @), !.members = Over(Entry(t, {}), @)]

\* An unknown class throws and leaves the manager as it is.
RegisterAttributes(m, t, as) ==
    IF t \in DOMAIN m.members THEN [m EXCEPT !.members[t] = @ \cup as] ELSE m

\* registerType<T, P>: the class, then whatever its registerAttributes adds,
\* also for a class that had been registered before.
RegisterClass(m, t, ps, as) == RegisterAttributes(RegisterType(m, t, ps), t, as)

SetDefaultType(m, t) ==
    IF t \in Registered(m) THEN [m EXCEPT !.default = t] ELSE m

\* The class a new element gets: an unregistered one is replaced by the default
\* class, or missing when the caller asks for an exception.
ByType(m, t, throwOnDefault) ==
    CASE t \in Registered(m) -> t
      [] t \notin Registered(m) /\ throwOnDefault -> Missing
      [] OTHER -> m.default

---------------------------------------------------------------------------
\* The class and all it derives from, as far as registered: the recursion of
\* getTypeHierarchy, level by level.
Ancestry(m, t) ==
    LET up[n \in Nat] ==
          IF n = 0 THEN {t}
          ELSE up[n - 1] \cup UNION {m.parents[c] : c \in up[n - 1] \cap Registered(m)}
    IN up[Cardinality(Registered(m))]

\* getTypeHierarchy throws when the class or one it derives from is unknown.
HierarchyKnown(m, t) == Ancestry(m, t) \subseteq Registered(m)

TypeHierarchy(m, t) == Ascending(Ancestry(m, t))

\* The members of a class in alphabetical order, each with its class.
AttributeNames(m, c) ==
    LET names == Ascending(m.members[c]) IN [i \in 1 .. Len(names) |-> <<c, names[i]>>]

\* The members that are written for an element of class t, all ancestors'
\* included: a class whose hierarchy is incomplete has none.
AttributeSlots(m, t) ==
    IF HierarchyKnown(m, t)
    THEN Chained([i \in 1 .. Len(TypeHierarchy(m, t)) |->
                     AttributeNames(m, TypeHierarchy(m, t)[i])])
    ELSE <<>>

\* The n-th member is written as "<its class>-attribute-<n - 1>"; early files
\* named an inherited one by the class of the element, "<t>-attribute-<n - 1>".
OwnId(slot, n) == <<slot[1], n - 1>>
LegacyIdNext(t, n) == <<t, n>>
LegacyId(t, n) == <<t, n - 1>>

Attributes(m, t, includeLegacySupport) ==
    LET slots == AttributeSlots(m, t) IN
    Chained([n \in 1 .. Len(slots) |->
        <<[id |-> OwnId(slots[n], n), slot |-> slots[n]]>> \o
        IF includeLegacySupport /\ slots[n][1] # t
        THEN <<[id |-> LegacyId(t, n), slot |-> slots[n]]>> ELSE <<>>])

\* The attributes a file declares: those of every registered class, or of the
\* classes that occur in the graph.
KnownAttributes(m, classnames) ==
    UNION {ToSet(Attributes(m, t, FALSE)) :
              t \in IF classnames = {} THEN Registered(m)
                    ELSE Registered(m) \cap classnames}

\* What is written of an element: the value of each attribute under its id.
AttributeValues(m, element) ==
    LET as == Attributes(m, element.type, FALSE) IN
    [id \in {as[i].id : i \in DOMAIN as} |->
        element.values[(CHOOSE a \in ToSet(as) : a.id = id).slot]]

\* What reading makes of it: the members whose id has data get that data, the
\* later attribute of a list over the earlier one.
Filled(values, a, data) ==
    IF a.id \in DOMAIN data THEN [values EXCEPT ![a.slot] = data[a.id]] ELSE values
Deserialized(m, t, values, data, includeLegacySupport) ==
    LET as == Attributes(m, t, includeLegacySupport)
        filled[n \in 0 .. Len(as)] ==
          IF n = 0 THEN values ELSE Filled(filled[n - 1], as[n], data)
    IN filled[Len(as)]
=============================================================================
