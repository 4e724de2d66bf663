--------------------------------- MODULE Filters ---------------------------------
(* A filter matches elements, and holds a list of filters that are asked too.  *)
EXTENDS Integers, SequencesExt, FiniteSetsExt, Functions

CONSTANTS Applies,    \* filter -> the elements it matches by itself; filters are
                      \* numbers, and hold only filters with a higher number
          MaxFilters  \* bound: filters in a list

FilterNumbers == DOMAIN Applies
ASSUME FilterAssumption ==
    Len(Applies) \in Nat /\ FilterNumbers = 1 .. Len(Applies) /\ MaxFilters \in Nat

VARIABLES held,     \* filter -> the list of filters it holds
          changed     \* the last change, see Change

listVars == <<held, changed>>

FilterListInit == held = [f \in FilterNumbers |-> <<>>] /\ changed = <<>>

\* What the caller was told: the place that was taken away, and the one that
\* was given to a filter; -1 is no place.
Change(f, list, taken, given, filter) ==
    /\ held' = [held EXCEPT ![f] = list]
    /\ changed' = [of |-> f, before |-> held[f], taken |-> taken, given |-> given, filter |-> filter]
Unchanged(f) == Change(f, held[f], -1, -1, f)

\* Positions count from 0, -1 is the end. add returns the position.
AddAt(f, list, g, position, taken) ==
    IF position = -1 THEN Change(f, Append(list, g), taken, Len(list), g)
    ELSE Change(f, InsertAt(list, position + 1, g), taken, position, g)

AddToFilter(f, g, position) ==
    /\ Len(held[f]) < MaxFilters /\ position <= Len(held[f])
    /\ AddAt(f, held[f], g, position, -1)

\* The size is unsigned: -1 is behind the end and throws, and the last position
\* of an empty list is the largest number, so that nothing happens to it.
HasPosition(list, position) == position \in 0 .. Len(list) - 1
RemoveFilterAt(f, position) ==
    IF HasPosition(held[f], position) THEN Change(f, RemoveAt(held[f], position + 1), position, -1, f)
    ELSE Unchanged(f)

\* Mutant of ReplaceFilter: the new filter goes to the end.
ReplaceFilterAtEnd(f, g, position) ==
    /\ HasPosition(held[f], position)
    /\ Change(f, Append(RemoveAt(held[f], position + 1), g), position, position, g)

\* A position behind the end throws before anything is changed.
ReplaceFilter(f, g, position) ==
    IF position = -1 THEN AddToFilter(f, g, -1)
    ELSE IF ~HasPosition(held[f], position) THEN Unchanged(f)
    ELSE AddAt(f, RemoveAt(held[f], position + 1), g, position, position)

ClearFilters(f) == held' = [held EXCEPT ![f] = <<>>] /\ changed' = <<>>

FilterListNext ==
    \E f \in FilterNumbers :
        \/ ClearFilters(f)
        \/ \E position \in -1 .. MaxFilters :
             \/ RemoveFilterAt(f, position)
             \/ \E g \in FilterNumbers : /\ g > f
                                         /\ AddToFilter(f, g, position) \/ ReplaceFilter(f, g, position)
FilterListSpec == FilterListInit /\ [][FilterListNext]_listVars

\* The elements a filter matches, asked with OR, as it asks the filters it
\* holds; and with AND, where the filters they hold are asked with OR still.
MatchedByAny[f \in FilterNumbers] ==
    Applies[f] \cup UNION {MatchedByAny[g] : g \in ToSet(held[f])}
MatchedByAll(f) == {o \in Applies[f] : \A g \in ToSet(held[f]) : o \in MatchedByAny[g]}

\* A filter, the filters it holds, those they hold, and so on.
Below(f) ==
    LET within[n \in 0 .. Len(Applies)] ==
          IF n = 0 THEN {f} ELSE within[n - 1] \cup UNION {ToSet(held[g]) : g \in within[n - 1]}
    IN within[Len(Applies)]

\* A filter matches what any filter below it matches by itself, to any depth,
\* and with AND nothing that it, or a filter in its list that holds none, does
\* not match. A filter that is added or replaces another is at the position
\* returned, and all others stay, in their order.
FiltersKeepTheirPlace ==
    LET apart(list, position) == IF position = -1 THEN list ELSE RemoveAt(list, position + 1)
    IN /\ \A f \in FilterNumbers :
            /\ MatchedByAny[f] = UNION {Applies[g] : g \in Below(f)}
            /\ \A g \in {f} \cup {g \in ToSet(held[f]) : held[g] = <<>>} :
                 MatchedByAll(f) \subseteq Applies[g]
       /\ changed # <<>> =>
            LET list == held[changed.of]
            IN /\ apart(list, changed.given) = apart(changed.before, changed.taken)
               /\ changed.given # -1 => list[changed.given + 1] = changed.filter
=============================================================================
