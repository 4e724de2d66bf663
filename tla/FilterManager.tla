---------------------------- MODULE FilterManager ----------------------------
(* FilterManager: a list of filters a person drags up and down, with a column  *)
(* of check boxes beside it.  The two lists are changed in step, and so are    *)
(* the copies of the places: in the items, on the screen, and in a map from    *)
(* boxes to places that tells which filter a toggled box is for.               *)
EXTENDS Integers, Sequences

CONSTANT FilterItems          \* the addresses of filter items, and of their boxes

VARIABLES
    mFilters, mCheckBoxes,    \* the two lists; an item and a box made together have one name
    mIndex, y,                \* item -> its place; how far down it is drawn
    mIsActivated,             \* item -> is the filter on; the constructor does not set it
    mCheckBoxIndexMap,        \* box -> place
    checked,                  \* box -> is it checked
    mpSelectedItem,           \* the item the mouse is over, if mItemSelected
    dragged,                  \* the items (one at most) the mouse holds
    shifted, misled,          \* history: boxes a removal moved up; was one of them toggled
    ended                     \* undefined behaviour, or an exception nobody catches

lists == <<mFilters, mCheckBoxes, mIndex, y, mCheckBoxIndexMap, shifted>>
switches == <<mIsActivated, checked, misled>>
filterVars == <<lists, switches, mpSelectedItem, dragged, ended>>

Places == DOMAIN mFilters
Names(list) == {list[i] : i \in DOMAIN list}
With(f, x, value) == [z \in DOMAIN f \cup {x} |-> IF z = x THEN value ELSE f[z]]
Without(f, xs) == [z \in DOMAIN f \ xs |-> f[z]]
Erase(list, i) == [j \in 1 .. Len(list) - 1 |-> IF j < i THEN list[j] ELSE list[j + 1]]
Exchange(list, i, j) == [list EXCEPT ![i] = list[j], ![j] = list[i]]

\* An item is drawn at the top of a place, near it, or nearly at the next.
SHeight == 3
Top(i) == SHeight * (i - 1)
Lines == 0 .. Top(Len(mFilters))

Idle == ~ended /\ dragged = {}

---------------------------------------------------------------------------
(* A box says the new state with the place the map has for it.                 *)
UpdateToolTip(box, index, state, filters) ==
    /\ checked' = With(checked, box, state)
    /\ IF index \in DOMAIN filters
       THEN /\ mIsActivated' = With(mIsActivated, filters[index], state)
            /\ misled' = (misled \/ box \in shifted)
            /\ UNCHANGED ended
       ELSE ended' = TRUE /\ UNCHANGED <<mIsActivated, misled>>

Toggle(i) ==
    /\ Idle
    /\ LET box == mCheckBoxes[i] IN
       UpdateToolTip(box, mCheckBoxIndexMap[box], ~checked[box], mFilters)
    /\ UNCHANGED <<lists, mpSelectedItem, dragged>>

\* createFilter; checking the new box says so when its state changes.
AddFilter(f, enable) ==
    LET n == Len(mFilters) + 1 IN
    /\ Idle
    /\ mFilters' = Append(mFilters, f) /\ mCheckBoxes' = Append(mCheckBoxes, f)
    /\ mIndex' = With(mIndex, f, n) /\ y' = With(y, f, Top(n))
    /\ mCheckBoxIndexMap' = With(mCheckBoxIndexMap, f, n)
    /\ IF enable
       THEN UpdateToolTip(f, n, TRUE, mFilters')
       ELSE /\ checked' = With(checked, f, FALSE)
            /\ UNCHANGED <<mIsActivated, misled, ended>>
    /\ UNCHANGED <<shifted, mpSelectedItem, dragged>>

IndexMap(left, right) ==
    [mCheckBoxIndexMap EXCEPT ![mCheckBoxes'[left]] = left, ![mCheckBoxes'[right]] = right]

\* swapFilters draws one item at its new place, the other hangs on the mouse.
SwapFilters(left, right) ==
    /\ mFilters' = Exchange(mFilters, left, right)
    /\ mIndex' = [mIndex EXCEPT ![mFilters'[left]] = left, ![mFilters'[right]] = right]
    /\ mCheckBoxes' = Exchange(mCheckBoxes, left, right)
    /\ mCheckBoxIndexMap' = IndexMap(left, right)
    /\ shifted' = shifted \ {mCheckBoxes[left], mCheckBoxes[right]}

\* The swap dialog: two places that are not one.
SwapChosen(left, right) ==
    /\ Idle /\ left # right
    /\ SwapFilters(left, right)
    /\ y' = [y EXCEPT ![mFilters'[left]] = Top(left), ![mFilters'[right]] = Top(right)]
    /\ UNCHANGED <<switches, mpSelectedItem, dragged, ended>>

\* Mutant of IndicesBehind: the items behind a removed one keep their places.
IndicesKept(i) == Without(mIndex, {mFilters[i]})
IndicesBehind(i) ==
    [f \in DOMAIN mIndex \ {mFilters[i]} |-> IF mIndex[f] > i THEN mIndex[f] - 1 ELSE mIndex[f]]

\* removeFilter: the items behind it move up; the places of their boxes in the
\* map, and the pointer to the item the mouse was over, stay as they are.
RemoveAtPlace(i) ==
    LET f == mFilters[i] IN
    /\ mFilters' = Erase(mFilters, i) /\ mCheckBoxes' = Erase(mCheckBoxes, i)
    /\ mIndex' = IndicesBehind(i)
    /\ y' = [g \in DOMAIN mIndex' |-> IF i <= mIndex'[g] THEN Top(mIndex'[g]) ELSE y[g]]
    /\ mIsActivated' = Without(mIsActivated, {f})
    /\ mCheckBoxIndexMap' = Without(mCheckBoxIndexMap, {mCheckBoxes[i]})
    /\ checked' = Without(checked, {mCheckBoxes[i]})
    /\ shifted' = (shifted \ {mCheckBoxes[i]}) \cup {mCheckBoxes[j] : j \in i + 1 .. Len(mCheckBoxes)}
    /\ UNCHANGED <<misled, mpSelectedItem, dragged, ended>>

RemoveFilter(i) == Idle /\ RemoveAtPlace(i)

\* The menu offers this while the mouse is over an item, or was when the item
\* was removed: the pointer may be to an item that is gone.
RemoveSelectedFilter ==
    /\ Idle /\ mpSelectedItem # {}
    /\ \/ \E f \in Names(mFilters) \cap mpSelectedItem : RemoveAtPlace(mIndex[f])
       \/ /\ mpSelectedItem \cap Names(mFilters) = {}
          /\ ended' = TRUE
          /\ UNCHANGED <<lists, switches, mpSelectedItem, dragged>>

RemoveFilters ==
    /\ Idle /\ mFilters # <<>>
    /\ mFilters' = <<>> /\ mCheckBoxes' = <<>> /\ mIndex' = <<>> /\ y' = <<>>
    /\ mCheckBoxIndexMap' = <<>> /\ checked' = <<>> /\ mIsActivated' = <<>>
    /\ shifted' = {}
    /\ UNCHANGED <<misled, mpSelectedItem, dragged, ended>>

---------------------------------------------------------------------------
(* The mouse.                                                                  *)
HoverEnter(f) == /\ Idle /\ mpSelectedItem \cap Names(mFilters) = {}
                 /\ mpSelectedItem' = {f}
                 /\ UNCHANGED <<lists, switches, dragged, ended>>
HoverLeave(f) == /\ Idle /\ f \in mpSelectedItem
                 /\ mpSelectedItem' = {}
                 /\ UNCHANGED <<lists, switches, dragged, ended>>

MousePress(f) == /\ Idle /\ dragged' = {f}
                 /\ UNCHANGED <<lists, switches, mpSelectedItem, ended>>

\* The place is given up where the item was before this move; only then does
\* the item go where the mouse is, within the list.
Displaced(f) ==
    LET offset == y[f] \div SHeight + 1 IN
    IF offset # mIndex[f] /\ y[f] % SHeight = 0 THEN {offset}
    ELSE IF offset + 1 # mIndex[f] /\ y[f] % SHeight = SHeight - 1 THEN {offset + 1}
    ELSE {}

MouseMove(f, line) ==
    /\ ~ended /\ f \in dragged
    /\ \/ \E i \in Displaced(f) :
            /\ SwapFilters(mIndex[f], i)
            /\ y' = [y EXCEPT ![mFilters[i]] = Top(mIndex[f]), ![f] = line]
       \/ /\ Displaced(f) = {}
          /\ y' = [y EXCEPT ![f] = line]
          /\ UNCHANGED <<mFilters, mCheckBoxes, mIndex, mCheckBoxIndexMap, shifted>>
    /\ UNCHANGED <<switches, mpSelectedItem, dragged, ended>>

MouseRelease(f) ==
    /\ ~ended /\ f \in dragged
    /\ dragged' = {} /\ y' = [y EXCEPT ![f] = Top(mIndex[f])]
    /\ UNCHANGED <<mFilters, mCheckBoxes, mIndex, mCheckBoxIndexMap, shifted, switches, mpSelectedItem, ended>>

FilterInit ==
    /\ mFilters = <<>> /\ mCheckBoxes = <<>> /\ mIndex = <<>> /\ y = <<>>
    /\ mIsActivated = <<>> /\ mCheckBoxIndexMap = <<>> /\ checked = <<>>
    /\ mpSelectedItem = {} /\ dragged = {} /\ shifted = {} /\ misled = FALSE /\ ended = FALSE

FilterNext ==
    \/ \E f \in FilterItems \ Names(mFilters), enable \in BOOLEAN : AddFilter(f, enable)
    \/ \E i \in Places : Toggle(i) \/ RemoveFilter(i)
    \/ \E i, j \in Places : SwapChosen(i, j)
    \/ RemoveSelectedFilter \/ RemoveFilters
    \/ \E f \in Names(mFilters) :
          HoverEnter(f) \/ HoverLeave(f) \/ MousePress(f) \/ MouseRelease(f)
    \/ \E f \in Names(mFilters), line \in Lines : MouseMove(f, line)

FilterSpec == FilterInit /\ [][FilterNext]_filterVars

---------------------------------------------------------------------------
\* After any sequence of additions, removals, swaps and drags every item knows
\* its place in the list, is drawn there unless the mouse holds it, and no two
\* are at one place; and a filter that was ever switched is on exactly when the
\* box beside it is checked, as long as nobody has toggled a box a removal moved
\* up, which is for another filter until it is swapped (FilterManager::
\* swapFilters, removeFilter, updateToolTip(int), FilterItem::mouseMoveEvent).
ItemsKnowTheirPlace ==
    /\ DOMAIN mIndex = Names(mFilters) /\ Len(mCheckBoxes) = Len(mFilters)
    /\ \A i \in Places :
         LET item == mFilters[i]
         IN /\ mIndex[item] = i
            /\ item \notin dragged => y[item] = Top(i)
            /\ ~misled /\ ~ended /\ item \in DOMAIN mIsActivated =>
                 mIsActivated[item] = checked[mCheckBoxes[i]]
=============================================================================
