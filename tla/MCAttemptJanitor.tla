---------------------------- MODULE MCAttemptJanitor ---------------------------
(* AttemptJanitor with one or two revisions of one workflow.               *)
EXTENDS AttemptJanitor
================================================================================
