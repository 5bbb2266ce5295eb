-------------------------- MODULE MCGraphSideWork --------------------------
(* The graphs of MCGraphExecutor, their side work seen and unseen.         *)
EXTENDS MCGraphExecutor, GraphSideWork
=============================================================================
