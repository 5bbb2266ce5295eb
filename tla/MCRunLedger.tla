------------------------------ MODULE MCRunLedger ------------------------------
(* RunLedger with two or three runs of one Attempt.                        *)
EXTENDS RunLedger, TLC

RunSymmetry == Permutations(Run)
================================================================================
