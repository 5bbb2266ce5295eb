----------------------------- MODULE MCTriggerSlot -----------------------------
(***************************************************************************)
(* Two claims, so that one can wait undispatched while the runs of the     *)
(* other stamp LastRunAt.                                                  *)
(***************************************************************************)
EXTENDS TriggerSlot, TLC

CONSTANTS a1, a2

Claims == {a1, a2}

Untouched(k) == claims[k] = [live |-> FALSE, dispatched |-> FALSE, run |-> "none"]

\* Bound: the second claim takes part in the behaviours without an event, of
\* the gated kind.  No step the fairness is about crosses it.
SecondClaim == Untouched(a2) \/ (events = 0 /\ kind = "webhook")
================================================================================
