-------------------------- MODULE TransactionContract --------------------------
(***************************************************************************)
(* What TransactionObserver.hpp promises the observer behind it: outside a *)
(* transaction an event is passed on at once; inside one, events wait      *)
(* until the outermost transaction is finished and then arrive together,   *)
(* in the order in which they happened.                                    *)
(***************************************************************************)
EXTENDS Naturals, Sequences

CONSTANTS MaxEvents, MaxDepth

VARIABLES
  sent,       \* number of events the graph has issued; event n is the n-th
  waiting,    \* events of the transaction in progress
  delivered,  \* events passed on
  depth       \* transactions open

contractVars == <<sent, waiting, delivered, depth>>

Init ==
  /\ sent = 0 /\ depth = 0
  /\ waiting = <<>> /\ delivered = <<>>

Issue ==
  /\ sent < MaxEvents
  /\ sent' = sent + 1
  /\ IF depth > 0
     THEN waiting' = Append(waiting, sent + 1) /\ UNCHANGED delivered
     ELSE delivered' = Append(delivered, sent + 1) /\ UNCHANGED waiting
  /\ UNCHANGED depth

Start ==
  /\ depth < MaxDepth
  /\ depth' = depth + 1
  /\ UNCHANGED <<sent, waiting, delivered>>

StopInner ==
  /\ depth > 1
  /\ depth' = depth - 1
  /\ UNCHANGED <<sent, waiting, delivered>>

StopOutermost ==
  /\ depth = 1
  /\ depth' = 0
  /\ delivered' = delivered \o waiting
  /\ waiting' = <<>>
  /\ UNCHANGED sent

Spec == Init /\ [][Issue \/ Start \/ StopInner \/ StopOutermost]_contractVars
=============================================================================
