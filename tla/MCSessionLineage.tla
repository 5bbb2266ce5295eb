-------------------------- MODULE MCSessionLineage --------------------------
(***************************************************************************)
(* Two workflows that review one pull request, the first of them a second  *)
(* one too: every way two runs can meet, on the actor or on the volume.    *)
(***************************************************************************)
EXTENDS SessionLineage, TLC

CONSTANTS w1, w2, p1, p2

Lineages == {<<w1, p1>>, <<w1, p2>>, <<w2, p1>>}
\* The first workflow walks two agent nodes, the second's name keeps it off the
\* store.
Nodes == (w1 :> 2) @@ (w2 :> 1)
OldDirectories == {<<w1, p2>>}

\* Bound: two runs under way have spawned no more than two agents together.
TwoAgents ==
  \A q, r \in Run : q # r /\ Active(q) /\ Active(r) => run[q].spawns + run[r].spawns <= 2

Runs == Permutations(Run)
=============================================================================
