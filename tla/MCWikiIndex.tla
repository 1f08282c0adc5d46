----------------------------- MODULE MCWikiIndex ----------------------------
(***************************************************************************)
(* The index of a wiki and the graph caches above it, for TLC: a behaviour *)
(* is one of WikiIndex, with two engines, two pages that exist or not and  *)
(* one type that has a schema, or one of WikiGraphCache, with three.       *)
(***************************************************************************)
EXTENDS WikiIndex, WikiGraphCache, TLC

CONSTANTS e1, e2, p1, p2, note, page, x

VARIABLE layer    \* whose behaviour it is

OneText == {[type |-> note, text |-> x]}

----------------------------------------------------------------------------
RestIndex == InitIndex /\ \A p \in Pages : worktree[p] = None
RestGraph == InitGraph /\ ~snapshot /\ ~autoRebuild

Init ==
  \/ layer = "index" /\ InitIndex /\ RestGraph
  \/ layer = "graph" /\ InitGraph /\ RestIndex

Next ==
  /\ UNCHANGED layer
  /\ \/ layer = "index" /\ NextIndex /\ UNCHANGED graphVars
     \/ layer = "graph" /\ NextGraph /\ UNCHANGED indexVars

Spec == Init /\ [][Next]_<<layer, indexVars, graphVars>>

\* Four updates, requests and restarts of the servers in all.
FewRounds == rounds.updates + rounds.requests + rounds.restarts <= 4

\* Once three changes were made, of commits and edits, one engine works at a time.
FewAtOnce ==
  CurrentHead + edits >= 4 => \E e \in Engines : at[e] \in {"down", "idle"}

Symmetry == Permutations(Engines) \cup Permutations(Pages) \cup Permutations(Servers)
=============================================================================
