------------------------------ MODULE MCGateSweep ------------------------------
(***************************************************************************)
(* GateSweep on small instances: which head belongs to which pull request, *)
(* and how many steps of which kinds the forge, the runners and the clock  *)
(* take between and during the sweeps of one behaviour: MaxMoves of the    *)
(* kinds in Counted, any number of those in Free.                          *)
(***************************************************************************)
EXTENDS GateSweep, TLC

CONSTANTS p1, p2, h1, h2, Counted, Free, MaxMoves

ASSUME Counted \cup Free \subseteq Kinds

OneHead == h1 :> p1
OnePR  == (h1 :> p1) @@ (h2 :> p1)

Heads == Permutations({h1, h2})

VARIABLE moves

MCInit == Init /\ moves = 0

MCNext ==
  \/ moves < MaxMoves /\ Environment(Counted) /\ moves' = moves + 1
  \/ (Worker \/ Environment(Free)) /\ UNCHANGED moves

MCSpec == MCInit /\ [][MCNext]_<<vars, moves>>

MCFairSpec == MCSpec /\ Fairness
================================================================================
