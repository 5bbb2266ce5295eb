----------------------------- MODULE MCLivePage -----------------------------
(* LivePage for TLC: two runs of one Attempt, the second by a worker that    *)
(* does not name the Attempt, and a channel of one event.                    *)
EXTENDS LivePage

CONSTANTS r1, r2

MCRuns == {r1, r2}
MCLegacyRuns == {r2}
=============================================================================
