--------------------------------- MODULE Maps ---------------------------------
(* Maps and lists in a form the provers expand: :> and @@ of TLC are the same, *)
(* as are SelectSeq, FlattenSeq, SetToSortSeq and FoldLeft.                    *)
EXTENDS Integers, Sequences

\* One entry.
Entry(key, value) == [k \in {key} |-> value]

\* A map with the entries of another added or replaced.
Over(new, old) ==
    [x \in DOMAIN new \cup DOMAIN old |-> IF x \in DOMAIN new THEN new[x] ELSE old[x]]

\* The elements of a list that are in a set, in their order.
Among(list, set) ==
    LET among[n \in 0 .. Len(list)] ==
          IF n = 0 THEN <<>>
          ELSE IF list[n] \in set THEN Append(among[n - 1], list[n]) ELSE among[n - 1]
    IN among[Len(list)]

\* The lists in a list, one behind the other.
Chained(lists) ==
    LET chained[n \in 0 .. Len(lists)] ==
          IF n = 0 THEN <<>> ELSE chained[n - 1] \o lists[n]
    IN chained[Len(lists)]

\* The sum of a list of numbers.
SumOf(list) ==
    LET sum[n \in 0 .. Len(list)] == IF n = 0 THEN 0 ELSE sum[n - 1] + list[n]
    IN sum[Len(list)]

\* A finite set of numbers in increasing order.
Ascending(set) ==
    LET largest == CHOOSE x \in set : \A y \in set : y <= x IN
    IF set = {} THEN <<>> ELSE Among([i \in 1 .. largest + 1 |-> i - 1], set)
=============================================================================
