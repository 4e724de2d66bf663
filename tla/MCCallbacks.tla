------------------------------ MODULE MCCallbacks ------------------------------
(* Instances of what is called back while something goes on: an observer       *)
(* behind a TransactionObserver, the visitor of a search, and the window that  *)
(* hears of its graph and of its player.  They share no state: a behaviour is  *)
(* one of one of them, while the others stay where they may start.             *)
(*                                                                             *)
(* Search: every graph over four vertices with the edges of a cycle, a         *)
(* shortcut on it and a branch that joins it again.  Player: a window on a     *)
(* small graph, and another graph to import.                                   *)
EXTENDS Player, Search, TransactionObserver

VARIABLE part   \* whose behaviour this is

MCSearched == {"a", "b", "c", "d"}
MCSearchEdges == {"ab", "ac", "bd", "dc", "ca"}
MCSource == "ab" :> "a" @@ "ac" :> "a" @@ "bd" :> "b" @@ "dc" :> "d" @@ "ca" :> "c"
MCTarget == "ab" :> "b" @@ "ac" :> "c" @@ "bd" :> "d" @@ "dc" :> "c" @@ "ca" :> "a"
MCSubgraphs == SUBSET MCSearchEdges

MCVertices == {"a", "b", "c", "x"}
MCEdgeEnds == ("ac" :> <<"a", "c">>) @@ ("bc" :> <<"b", "c">>) @@ ("ca" :> <<"c", "a">>)
MCFirstGraph == GraphOf(<<"b", "a">>, <<>>)
MCImportable == {GraphOf(<<"x">>, <<>>)}
MCAddressOrder == <<"a", "b", "c", "x">>

---------------------------------------------------------------------------
NoSearch == edges = {} /\ fifo = TRUE /\ SearchInit

MCInit == /\ PlayerInit /\ Init
          /\ \/ part = "Search" /\ SearchInit
             \/ part \in {"TransactionObserver", "Player"} /\ NoSearch

MCNext == /\ UNCHANGED part
          /\ \/ /\ part = "Search" /\ SearchNext
                /\ UNCHANGED <<vars, viewVars, playerVars>>
             \/ /\ part = "TransactionObserver" /\ Next
                /\ UNCHANGED <<searchVars, viewVars, playerVars>>
             \/ /\ part = "Player" /\ PlayerNext
                /\ UNCHANGED <<searchVars, vars>>

MCSpec == /\ MCInit /\ [][MCNext]_<<searchVars, vars, viewVars, playerVars, part>>
          /\ WF_searchVars(Searching) /\ PlayerFairness
=============================================================================
