------------------------------ MODULE ClaimLedger ------------------------------
(***************************************************************************)
(* The review claim as it is written on one Attempt object, and the        *)
(* mutations internal/attempt/claim.go and lifecycle.go apply to it.       *)
(*                                                                         *)
(* An Attempt is identified by (workflow, repository, head SHA): it        *)
(* carries no PR number, so two pull requests at one head share it.  Every *)
(* operator below is the closure one optimistic-locked patch applies to    *)
(* the freshly read object (patchAttemptStatus retries on conflict), hence *)
(* one atomic step of the modules that use it.  Times are abstracted to    *)
(* their age against the workflow's horizon.                               *)
(***************************************************************************)
EXTENDS Naturals

CONSTANTS
  PR,                        \* pull-request pointers ("owner/name#N")
  NoPR,                      \* status.review is nil, or has no pointer yet
  Job,                       \* names of review Jobs
  NoJob,                     \* status.review.dispatchedJob is ""
  MaxDeadDispatchesPerHead,  \* the dead-dispatch breaker's limit
  MaxDispatchLostReleases    \* the churn budget's limit

ASSUME LedgerAssumption ==
  /\ NoPR \notin PR
  /\ NoJob \notin Job
  /\ MaxDeadDispatchesPerHead \in Nat \ {0}
  /\ MaxDispatchLostReleases \in Nat \ {0}

Phase == {"", "reconciling", "validated", "superseded", "failed"}

\* The era clock armedSince: unset, younger than the horizon, older.
Clock == {"nil", "fresh", "old"}

\* "standdown" also stands for pointer-invalid, sweep-aborted and reaped,
\* which no code path tells apart from it.
Reason == {"", "consumed", "horizon", "dispatch-lost", "dispatch-timeout",
           "superseded", "pr-closed", "standdown"}

IsCancellationRelease(reason) == reason \in {"superseded", "pr-closed"}

Terminal == {"failed", "validated", "superseded"}

(***************************************************************************)
(* exists .. dismissed: the object, its marker label and status.review;    *)
(* phase and running (the run records that still read "running"): the rest *)
(* of the status that claim mutations touch.                               *)
(***************************************************************************)
Attempt ==
  [exists     : BOOLEAN,
   marker     : BOOLEAN,          \* label review-claim=released is present
   pr         : PR \cup {NoPR},
   released   : BOOLEAN,
   reason     : Reason,
   clock      : Clock,            \* armedSince
   dispatched : BOOLEAN,          \* dispatchedAt is set
   job        : Job \cup {NoJob}, \* dispatchedJob, the ownership edge
   dead       : Nat,              \* deadDispatches
   lost       : Nat,              \* dispatchLostReleases
   lostRecent : BOOLEAN,          \* lastDispatchLostAt is within the horizon
   dismissed  : BOOLEAN,          \* dismissedAt is within the horizon
   phase      : Phase,
   running    : SUBSET Job]

Absent ==
  [exists |-> FALSE, marker |-> FALSE, pr |-> NoPR, released |-> FALSE,
   reason |-> "", clock |-> "nil", dispatched |-> FALSE, job |-> NoJob,
   dead |-> 0, lost |-> 0, lostRecent |-> FALSE, dismissed |-> FALSE,
   phase |-> "", running |-> {}]

\* ResolveOrCreate's object: the API server drops the create-time status.
Created == [Absent EXCEPT !.exists = TRUE]

\* Mutant: the list shows the claims in flight and not the queued ones.
ListedInFlight(a) ==
  a.exists /\ ~a.marker /\ a.pr # NoPR /\ ~a.released /\ a.dispatched

(***************************************************************************)
(* LiveReviewClaims' filter: no marker, a claim on it, not released.       *)
(***************************************************************************)
Listed(a) == a.exists /\ ~a.marker /\ a.pr # NoPR /\ ~a.released

\* The claim holds its pull request, whether or not the gate's list shows it.
Live(a) == a.exists /\ a.pr # NoPR /\ ~a.released

\* The churn budget is charged by a dispatch-lost release of ReleaseClaim.
\* Every counted release also stamps lastDispatchLostAt, so the fallback to
\* the claim's age (unstamped claims of old workers) never applies.
DispatchLostWindowOpen(a) == a.lostRecent

(***************************************************************************)
(* ArmClaim's guards, read off the resolved object before any write.       *)
(***************************************************************************)
SameClaim(a, p) == a.pr = p

\* Mutant: a dismissal has no end.
DismissedForGood(a, p, human) ==
  ~human /\ SameClaim(a, p) /\ a.reason = "horizon"

RecentlyDismissed(a, p, human) ==
  ~human /\ SameClaim(a, p) /\ a.dismissed

ChurnBudgetExhausted(a, p, human) ==
  /\ ~human
  /\ SameClaim(a, p)
  /\ a.lost >= MaxDispatchLostReleases
  /\ DispatchLostWindowOpen(a)

BudgetExpiry(a, p, human) ==
  ~human /\ SameClaim(a, p) /\ a.lost > 0 /\ ~DispatchLostWindowOpen(a)

\* Mutant: the breaker is compared with > instead of >=.
BreakerOffByOne(a, p, human) ==
  ~human /\ SameClaim(a, p) /\ a.dead > MaxDeadDispatchesPerHead

\* Mutant: the breaker is never consulted.
BreakerOff(a, p, human) == FALSE

DeadDispatchBreaker(a, p, human) ==
  ~human /\ SameClaim(a, p) /\ a.dead >= MaxDeadDispatchesPerHead

\* Mutant: the revival keeps the dispatch stamp of the released era.
ArmKeepsDispatch(a, p, human, budgetExpiry) ==
  [a EXCEPT !.pr = p, !.released = FALSE, !.reason = "",
            !.clock = IF @ = "nil" THEN "fresh" ELSE @,
            !.dead = IF human THEN 0 ELSE @]

\* The arm anchors a new era: another pointer, no clock yet, an era the horizon
\* ended, or a human asking again after a lost dispatch.
FreshClock(a, p, human) ==
  \/ ~SameClaim(a, p) \/ a.clock = "nil" \/ a.reason = "horizon"
  \/ human /\ a.reason = "dispatch-lost"

(***************************************************************************)
(* ArmClaim's status patch: which stamps a revival keeps and which it      *)
(* resets depends on the pointer, on who asks and on the last release.     *)
(***************************************************************************)
Arm(a, p, human, budgetExpiry) ==
  LET reset == ~SameClaim(a, p) \/ human \/ budgetExpiry
  IN  [a EXCEPT !.pr         = p,
                !.clock      = IF FreshClock(a, p, human) THEN "fresh" ELSE @,
                !.dispatched = @ /\ ~a.released,
                !.dead       = IF reset THEN 0 ELSE @,
                !.lost       = IF reset THEN 0 ELSE @,
                !.released   = FALSE,
                !.reason     = "",
                !.phase      = IF @ = "" \/ @ \in Terminal
                               THEN "reconciling" ELSE @]

MarkDispatchIntent(a) == [a EXCEPT !.dispatched = TRUE, !.lost = 0]

MarkClaimDispatched(a, j) ==
  [a EXCEPT !.dispatched = TRUE, !.job = j, !.lost = 0]

(***************************************************************************)
(* ReleaseClaim's status patch (unconditional) and, separately, the marker *)
(* write that follows it: conditional on the status still reading released.*)
(***************************************************************************)
Release(a, reason) ==
  [a EXCEPT !.released   = TRUE,
            !.reason     = reason,
            !.lost       = IF reason = "dispatch-lost" THEN @ + 1 ELSE @,
            !.lostRecent = @ \/ reason = "dispatch-lost",
            !.dismissed  = @ \/ reason = "horizon",
            !.phase      = CASE reason = "consumed"   -> "validated"
                             [] reason = "superseded" -> "superseded"
                             [] OTHER                 -> @]

markClaimReleased(a) == [a EXCEPT !.marker = @ \/ a.released]

\* Mutant: the arm leaves the released marker where it is.
KeepMarker(a) == a

markClaimLive(a) == [a EXCEPT !.marker = FALSE]

(***************************************************************************)
(* ReleaseClaimDead: a no-op on a released claim; a dispatched one is      *)
(* charged to the breaker; records still running are failed.               *)
(***************************************************************************)
ChargesDeath(a) == ~a.released /\ a.dispatched

\* Mutant: the run records are left to the runner that died.
ReleaseDeadKeepsRuns(a, reason) ==
  IF a.released THEN a
  ELSE [a EXCEPT !.released = TRUE, !.reason = reason,
                 !.dead = IF a.dispatched THEN @ + 1 ELSE @]

ReleaseDead(a, reason) ==
  IF a.released THEN a
  ELSE [a EXCEPT !.released = TRUE,
                 !.reason   = reason,
                 !.dead     = IF a.dispatched THEN @ + 1 ELSE @,
                 !.running  = {},
                 !.phase    = IF @ \in {"", "reconciling"}
                              THEN "failed" ELSE @]

(***************************************************************************)
(* FinalizeCancelledClaim, with the release reason the cancel pass read    *)
(* before it deleted the Job.                                              *)
(***************************************************************************)
FinalizeCancelled(a, reason) ==
  IF ~a.released \/ ~IsCancellationRelease(a.reason) THEN a
  ELSE [a EXCEPT !.running = {},
                 !.phase   = IF @ \notin {"", "reconciling"} THEN @
                             ELSE IF reason = "superseded" THEN "superseded"
                             ELSE "failed"]

(***************************************************************************)
(* The runner's two writes: its run record, and at the end the outcome.    *)
(***************************************************************************)
RunStarted(a, j) == [a EXCEPT !.running = @ \cup {j}]

Outcome == {"failed", "validated", "unvalidated"}

RunOutcome(a, j, outcome) ==
  [a EXCEPT !.running = @ \ {j},
            !.phase   = CASE outcome = "failed"    -> "failed"
                          [] outcome = "validated" -> "validated"
                          [] OTHER                 -> "reconciling"]
================================================================================
