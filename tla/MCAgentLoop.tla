----------------------------- MODULE MCAgentLoop -----------------------------
(***************************************************************************)
(* A loop of two prompts and three gates.                                  *)
(***************************************************************************)
EXTENDS AgentLoop
=============================================================================
