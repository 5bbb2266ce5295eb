------------------------------ MODULE ReviewClaim ------------------------------
(***************************************************************************)
(* Gate sweeps working on the claims of one workflow.                      *)
(*                                                                         *)
(* A sweeper is one execution of Dispatcher.Dispatch (a webhook wake, a    *)
(* poll, the armed fast-poll): it runs the gate sweep outside any lock and *)
(* then creates Jobs under its process's createMu.  Sweeps of one process, *)
(* and of several worker pods, overlap freely: the only mutual exclusion   *)
(* is createMu and the optimistic lock of each single patch.  A sweeper    *)
(* here performs one operation on what it read and returns to "idle"; a    *)
(* sweep of several operations is a run of such operations, and two passes *)
(* over one stale snapshot are two sweepers holding it.                    *)
(*                                                                         *)
(* Every API call is one step.  Any call may fail (Fail) and the process   *)
(* may be killed between any two (Crash).  What the gate decides from the  *)
(* forge (review.Evaluate) is left open; GateSweep closes it.              *)
(***************************************************************************)
EXTENDS ClaimLedger, FiniteSets

CONSTANTS
  Head,      \* head SHAs; an Attempt's identity
  NoHead,
  Sweeper,   \* executions of Dispatch that may overlap
  Pod,       \* worker processes; createMu is one per process
  PodOf,     \* the process a sweeper runs in
  GateReason \* the reasons the gate may release a claim for

ASSUME SweeperAssumption ==
  /\ NoHead \notin Head
  /\ PodOf \in [Sweeper -> Pod]
  /\ GateReason \subseteq Reason \ {"", "dispatch-timeout", "dispatch-lost"}

VARIABLES
  att,       \* att[h]: the Attempt object of head h
  jobs,      \* jobs[j]: the review Job j
  op,        \* op[s]: what sweeper s is doing
  stamped    \* history: what was stamped on h since the last death was charged
             \* to it: nothing, the edge of an earlier dispatch, or an intent

vars == <<att, jobs, op, stamped>>

Stamp == {"none", "edge", "intent"}

\* "pending": created, its runner has not recorded a run yet; "dying": deleted
\* in the foreground, its pod still terminating; "ended": completed.
JobState == {"none", "pending", "running", "dying", "ended", "failed", "gone"}

PC == {"idle", "relStatus", "relMark", "deadStatus", "deadMark",
       "armEval", "armList", "armSupersede", "armLive", "armStatus",
       "dispLock", "dispIntent", "dispCreate", "dispEdgeGet", "dispEdge",
       "cancelDelete", "cancelFinalize"}

\* then: where a release returns to; todo: the claims an arm still has to
\* supersede; created, open and expiry: what the arm's resolve read.
Op ==
  [pc : PC, then : {"idle", "armEval", "armSupersede"},
   target : Head \cup {NoHead}, reason : Reason,
   head : Head \cup {NoHead}, pr : PR \cup {NoPR}, human : BOOLEAN,
   created : BOOLEAN, open : BOOLEAN, expiry : BOOLEAN,
   todo : SUBSET Head, job : Job \cup {NoJob}]

Idle ==
  [pc |-> "idle", then |-> "idle", target |-> NoHead, reason |-> "",
   head |-> NoHead, pr |-> NoPR, human |-> FALSE, created |-> FALSE,
   open |-> FALSE, expiry |-> FALSE, todo |-> {}, job |-> NoJob]

Init ==
  /\ att = [h \in Head |-> Absent]
  /\ jobs = [j \in Job |-> [st |-> "none", head |-> NoHead]]
  /\ op = [s \in Sweeper |-> Idle]
  /\ stamped = [h \in Head |-> "none"]

--------------------------------------------------------------------------------

\* ListActiveJobs' notion of a live Job: not finished and not being deleted.
LiveJob(j, h) == jobs[j].st \in {"pending", "running"} /\ jobs[j].head = h

jobAlive(h) == \E j \in Job : LiveJob(j, h)

At(s, pc) == op[s].pc = pc

Goto(s, pc) == op' = [op EXCEPT ![s].pc = pc]

Finish(s) == op' = [op EXCEPT ![s] = Idle]

\* One optimistic-locked patch of an existing object.
Patch(h, a) == att[h].exists /\ att' = [att EXCEPT ![h] = a]

--------------------------------------------------------------------------------
(***************************************************************************)
(* Releases.  The decision is taken on a listed claim, the patch lands     *)
(* later.                                                                  *)
(***************************************************************************)

\* Section A: a release that is not a death.  The never-dispatched pass that
\* follows it in the code releases nothing: section A has released or shielded
\* every queued claim of the sweep's list before the pass reads it.
ReleaseAllowed(h, reason) == reason = "horizon" => att[h].clock = "old"

StartRelease(s, h, reason) ==
  /\ At(s, "idle")
  /\ Listed(att[h])
  /\ ReleaseAllowed(h, reason)
  /\ op' = [op EXCEPT ![s] = [Idle EXCEPT !.pc = "relStatus", !.target = h,
                                          !.reason = reason]]
  /\ UNCHANGED <<att, jobs, stamped>>

ReleaseStatus(s) ==
  LET h == op[s].target IN
  /\ At(s, "relStatus")
  /\ Patch(h, Release(att[h], op[s].reason))
  /\ Goto(s, "relMark")
  /\ UNCHANGED <<jobs, stamped>>

ReleaseMark(s) ==
  LET h == op[s].target IN
  /\ At(s, "relMark")
  /\ Patch(h, markClaimReleased(att[h]))
  /\ op' = [op EXCEPT ![s] = IF op[s].then = "idle" THEN Idle
                             ELSE [op[s] EXCEPT !.pc = op[s].then]]
  /\ UNCHANGED <<jobs, stamped>>

\* The timer pass ("dispatch-timeout") and the job-death pass
\* ("dispatch-lost"): both only on a dispatched claim whose Job is not alive;
\* a completed Job is no loss to the second.
StartDead(s, h, reason) ==
  /\ At(s, "idle")
  /\ Listed(att[h])
  /\ att[h].dispatched
  /\ ~jobAlive(h)
  /\ \/ reason = "dispatch-timeout"
     \/ /\ reason = "dispatch-lost"
        /\ \A j \in Job : jobs[j].head = h => jobs[j].st # "ended"
  /\ op' = [op EXCEPT ![s] = [Idle EXCEPT !.pc = "deadStatus", !.target = h,
                                          !.reason = reason]]
  /\ UNCHANGED <<att, jobs, stamped>>

DeadStatus(s) ==
  LET h == op[s].target IN
  /\ At(s, "deadStatus")
  /\ Patch(h, ReleaseDead(att[h], op[s].reason))
  /\ stamped' = [stamped EXCEPT ![h] = IF ChargesDeath(att[h]) THEN "none" ELSE @]
  /\ IF ChargesDeath(att[h]) THEN Goto(s, "deadMark") ELSE Finish(s)
  /\ UNCHANGED jobs

DeadMark(s) ==
  LET h == op[s].target IN
  /\ At(s, "deadMark")
  /\ Patch(h, markClaimReleased(att[h]))
  /\ Finish(s)
  /\ UNCHANGED <<jobs, stamped>>
--------------------------------------------------------------------------------
(***************************************************************************)
(* ArmClaim, called for a candidate pull request p.  The candidate comes   *)
(* from the labeled scan, from a request-shaped wake, or from a human's    *)
(* label; only the last two may replace a live claim, and a claim at the   *)
(* head the wake names only when a human asks and a dispatch of it died.   *)
(***************************************************************************)

Claim(p, h) == Listed(att[h]) /\ att[h].pr = p

StartArm(s, p, asks, wake) ==
  /\ At(s, "idle")
  /\ \/ /\ \A h \in Head : ~Claim(p, h)
        /\ op' = [op EXCEPT ![s] = [Idle EXCEPT !.pc = "armEval", !.pr = p,
                                                !.human = (asks = "human")]]
     \/ \E h \in Head :
        /\ Claim(p, h)
        /\ asks # "scan"
        /\ h = wake => asks = "human" /\ att[h].dead > 0
        /\ op' = [op EXCEPT ![s] =
                    [Idle EXCEPT !.pc = "relStatus", !.then = "armEval",
                                 !.target = h, !.reason = "superseded",
                                 !.pr = p, !.human = (asks = "human")]]
  /\ UNCHANGED <<att, jobs, stamped>>

Refused(s, h) ==
  \/ RecentlyDismissed(att[h], op[s].pr, op[s].human)
  \/ ChurnBudgetExhausted(att[h], op[s].pr, op[s].human)

\* The forge named head h; ResolveOrCreate, then the guards on the snapshot.
ArmResolve(s, h) ==
  /\ At(s, "armEval")
  /\ ~Refused(s, h)
  /\ att' = [att EXCEPT ![h] = IF @.exists THEN @ ELSE Created]
  /\ op' = [op EXCEPT ![s].pc = "armList",
                      ![s].head = h,
                      ![s].created = ~att[h].exists,
                      ![s].open = DeadDispatchBreaker(att[h], op[s].pr,
                                                      op[s].human),
                      ![s].expiry = BudgetExpiry(att[h], op[s].pr,
                                                 op[s].human)]
  /\ UNCHANGED <<jobs, stamped>>

ArmRefuse(s, h) ==
  /\ At(s, "armEval")
  /\ Refused(s, h)
  /\ Finish(s)
  /\ UNCHANGED <<att, jobs, stamped>>

\* Mutant: the arm supersedes nothing but the claim its wake replaces.
ArmListsNone(s) ==
  /\ At(s, "armList")
  /\ Goto(s, "armSupersede")
  /\ UNCHANGED <<att, jobs, stamped>>

ArmList(s) ==
  /\ At(s, "armList")
  /\ op' = [op EXCEPT ![s].pc = "armSupersede",
                      ![s].todo = {g \in Head \ {op[s].head} :
                                     Claim(op[s].pr, g)}]
  /\ UNCHANGED <<att, jobs, stamped>>

ArmSupersede(s) ==
  /\ At(s, "armSupersede")
  /\ \E g \in op[s].todo :
       op' = [op EXCEPT ![s].pc = "relStatus",
                        ![s].then = "armSupersede",
                        ![s].target = g,
                        ![s].reason = "superseded",
                        ![s].todo = @ \ {g}]
  /\ UNCHANGED <<att, jobs, stamped>>

\* The breaker reads the snapshot the resolve took.
ArmBreaker(s) ==
  /\ At(s, "armSupersede")
  /\ op[s].todo = {}
  /\ IF op[s].open THEN Finish(s) ELSE Goto(s, "armLive")
  /\ UNCHANGED <<att, jobs, stamped>>

ArmLive(s) ==
  /\ At(s, "armLive")
  /\ Patch(op[s].head, markClaimLive(att[op[s].head]))
  /\ Goto(s, "armStatus")
  /\ UNCHANGED <<jobs, stamped>>

\* A proceed goes on to dispatch, a wait leaves the claim armed.
ArmStatus(s) ==
  LET h == op[s].head IN
  /\ At(s, "armStatus")
  /\ Patch(h, Arm(att[h], op[s].pr, op[s].human, op[s].expiry))
  /\ \/ Finish(s)
     \/ op' = [op EXCEPT ![s] = [Idle EXCEPT !.pc = "dispLock", !.head = h]]
  /\ UNCHANGED <<jobs, stamped>>

--------------------------------------------------------------------------------
(***************************************************************************)
(* The dispatch loop, under createMu.                                      *)
(***************************************************************************)

\* Section A finds a queued claim green: it dispatches unless the churn
\* budget is spent.
StartDispatch(s, h) ==
  /\ At(s, "idle")
  /\ Listed(att[h])
  /\ ~att[h].dispatched
  /\ ~(/\ att[h].lost >= MaxDispatchLostReleases
       /\ DispatchLostWindowOpen(att[h]))
  /\ op' = [op EXCEPT ![s] = [Idle EXCEPT !.pc = "dispLock", !.head = h]]
  /\ UNCHANGED <<att, jobs, stamped>>

InCreateMu(s) == op[s].pc \in {"dispIntent", "dispCreate", "dispEdgeGet",
                               "dispEdge"}

\* createMu is taken and the live Jobs are listed: a live Job of this
\* attempt is a duplicate whose edge may still have to be completed.
DispatchLock(s) ==
  /\ At(s, "dispLock")
  /\ \A t \in Sweeper : PodOf[t] = PodOf[s] => ~InCreateMu(t)
  /\ \/ \E j \in Job :
          /\ LiveJob(j, op[s].head)
          /\ op' = [op EXCEPT ![s].pc = "dispEdgeGet", ![s].job = j]
     \/ ~jobAlive(op[s].head) /\ Goto(s, "dispIntent")
  /\ UNCHANGED <<att, jobs, stamped>>

CompleteDispatchEdge(s) ==
  LET h == op[s].head IN
  /\ At(s, "dispEdgeGet")
  /\ att[h].exists
  /\ IF att[h].job # NoJob THEN Finish(s) ELSE Goto(s, "dispEdge")
  /\ UNCHANGED <<att, jobs, stamped>>

DispatchIntent(s) ==
  LET h == op[s].head IN
  /\ At(s, "dispIntent")
  /\ Patch(h, MarkDispatchIntent(att[h]))
  /\ stamped' = [stamped EXCEPT ![h] = "intent"]
  /\ Goto(s, "dispCreate")
  /\ UNCHANGED jobs

DispatchCreate(s) ==
  /\ At(s, "dispCreate")
  /\ \E j \in Job :
       /\ jobs[j].st = "none"
       /\ jobs' = [jobs EXCEPT ![j] = [st |-> "pending", head |-> op[s].head]]
       /\ op' = [op EXCEPT ![s].pc = "dispEdge", ![s].job = j]
  /\ UNCHANGED <<att, stamped>>

DispatchEdge(s) ==
  LET h == op[s].head IN
  /\ At(s, "dispEdge")
  /\ Patch(h, MarkClaimDispatched(att[h], op[s].job))
  /\ stamped' = [stamped EXCEPT ![h] = IF @ = "none" THEN "edge" ELSE @]
  /\ Finish(s)
  /\ UNCHANGED jobs

--------------------------------------------------------------------------------
(***************************************************************************)
(* Cancel-on-supersede: the live Job of a claim released as superseded or  *)
(* closed is deleted, then the ledger is finalized.                        *)
(***************************************************************************)

StartCancel(s, j) ==
  LET h == jobs[j].head IN
  /\ At(s, "idle")
  /\ h # NoHead
  /\ LiveJob(j, h)
  /\ att[h].exists
  /\ att[h].released
  /\ IsCancellationRelease(att[h].reason)
  /\ op' = [op EXCEPT ![s] = [Idle EXCEPT !.pc = "cancelDelete", !.target = h,
                                          !.reason = att[h].reason, !.job = j]]
  /\ UNCHANGED <<att, jobs, stamped>>

Deleted(st) == CASE st = "running" -> "dying"
                 [] st = "dying"   -> "dying"
                 [] OTHER          -> "gone"

CancelDelete(s) ==
  /\ At(s, "cancelDelete")
  /\ jobs' = [jobs EXCEPT ![op[s].job].st = Deleted(@)]
  /\ Goto(s, "cancelFinalize")
  /\ UNCHANGED <<att, stamped>>

CancelFinalize(s) ==
  LET h == op[s].target IN
  /\ At(s, "cancelFinalize")
  /\ Patch(h, FinalizeCancelled(att[h], op[s].reason))
  /\ Finish(s)
  /\ UNCHANGED <<jobs, stamped>>

--------------------------------------------------------------------------------
(***************************************************************************)
(* Failures.  An API call of s fails and the handler returns its error:    *)
(* an arm that created its object deletes it again (armAbandon), and the   *)
(* cluster collects the Jobs the object owned.  Or the process dies.       *)
(***************************************************************************)

armAbandon(h) ==
  /\ att' = [att EXCEPT ![h] = Absent]
  /\ jobs' = [j \in Job |-> IF LiveJob(j, h)
                            THEN [jobs[j] EXCEPT !.st = Deleted(@)]
                            ELSE jobs[j]]

Fail(s) ==
  /\ ~At(s, "idle")
  /\ IF op[s].created THEN armAbandon(op[s].head) ELSE UNCHANGED <<att, jobs>>
  /\ Finish(s)
  /\ UNCHANGED stamped

Crash(s) ==
  /\ ~At(s, "idle")
  /\ Finish(s)
  /\ UNCHANGED <<att, jobs, stamped>>

--------------------------------------------------------------------------------
(***************************************************************************)
(* The environment: review Jobs and the passing of the horizon.            *)
(***************************************************************************)

RunnerStarts(j) ==
  LET h == jobs[j].head IN
  /\ jobs[j].st = "pending"
  /\ jobs' = [jobs EXCEPT ![j].st = "running"]
  /\ Patch(h, RunStarted(att[h], j))
  /\ UNCHANGED <<op, stamped>>

\* The run ends and records its outcome; a terminating pod may still do so.
RunnerEnds(j, outcome) ==
  LET h == jobs[j].head IN
  /\ jobs[j].st \in {"running", "dying"}
  /\ jobs' = [jobs EXCEPT ![j].st = IF @ = "dying" THEN "gone" ELSE "ended"]
  /\ Patch(h, RunOutcome(att[h], j, outcome))
  /\ UNCHANGED <<op, stamped>>

\* The Job fails, is evicted, or its TTL runs out: no outcome is recorded.
JobStops(j, st) ==
  /\ \/ jobs[j].st \in {"pending", "running"} /\ st \in {"failed", "gone"}
     \/ jobs[j].st \in {"dying", "ended", "failed"} /\ st = "gone"
  /\ jobs' = [jobs EXCEPT ![j].st = st]
  /\ UNCHANGED <<att, op, stamped>>

\* A stamp grows older than the horizon.
HorizonPasses(h) ==
  /\ \/ /\ att[h].clock = "fresh"
        /\ att' = [att EXCEPT ![h].clock = "old"]
     \/ /\ att[h].dismissed
        /\ att' = [att EXCEPT ![h].dismissed = FALSE]
  /\ UNCHANGED <<jobs, op, stamped>>

--------------------------------------------------------------------------------

SweeperStep(s) ==
  \/ \E h \in Head, reason \in GateReason : StartRelease(s, h, reason)
  \/ ReleaseStatus(s) \/ ReleaseMark(s)
  \/ \E h \in Head, reason \in {"dispatch-lost", "dispatch-timeout"} :
       StartDead(s, h, reason)
  \/ DeadStatus(s) \/ DeadMark(s)
  \/ \E p \in PR, asks \in {"scan", "request", "human"}, wake \in Head :
       StartArm(s, p, asks, wake)
  \/ \E h \in Head : ArmResolve(s, h) \/ ArmRefuse(s, h)
  \/ ArmList(s) \/ ArmSupersede(s) \/ ArmBreaker(s)
  \/ ArmLive(s) \/ ArmStatus(s)
  \/ \E h \in Head : StartDispatch(s, h)
  \/ DispatchLock(s) \/ CompleteDispatchEdge(s)
  \/ DispatchIntent(s) \/ DispatchCreate(s) \/ DispatchEdge(s)
  \/ \E j \in Job : StartCancel(s, j)
  \/ CancelDelete(s) \/ CancelFinalize(s)
  \/ Fail(s) \/ Crash(s)

Environment ==
  \/ \E j \in Job :
       \/ RunnerStarts(j)
       \/ \E outcome \in Outcome : RunnerEnds(j, outcome)
       \/ \E st \in {"failed", "gone"} : JobStops(j, st)
  \/ \E h \in Head : HorizonPasses(h)

Next == (\E s \in Sweeper : SweeperStep(s)) \/ Environment

Spec == Init /\ [][Next]_vars
--------------------------------------------------------------------------------
(***************************************************************************)
(* Properties.                                                             *)
(***************************************************************************)

TypeOK ==
  /\ att \in [Head -> Attempt]
  /\ jobs \in [Job -> [st : JobState, head : Head \cup {NoHead}]]
  /\ op \in [Sweeper -> Op]
  /\ stamped \in [Head -> Stamp]

\* One dispatch is charged to the dead-dispatch breaker at most once: between
\* two increments of deadDispatches a new dispatch was begun, across releases,
\* revivals, crashes between the intent, the Job and the edge, and the edges
\* completed later.  (ReleaseClaimDead's idempotence and ArmClaim's reset of
\* DispatchedAt.)
OneChargePerDispatch ==
  [][\A h \in Head : att'[h].dead > att[h].dead => stamped[h] = "intent"]_vars

\* With overlapping sweeps, one stamp of DispatchedAt is charged at most once,
\* however many of them observe the death and release the claim.  A dispatch
\* stamps twice, with its intent and with its edge, so it can be charged once
\* more when its edge lands on a claim that was charged and armed again.
OneChargePerStamp ==
  [][\A h \in Head : att'[h].dead > att[h].dead => stamped[h] # "none"]_vars

\* A pull request has at most one live claim ("one live claim per PR is the
\* invariant that makes parallel reviews safe", ArmClaim): true while one sweep
\* runs at a time, and what LiveClaimsBounded weakens when sweeps overlap.
OneLivePerPR ==
  \A g, h \in Head :
    Live(att[g]) /\ Live(att[h]) /\ att[g].pr = att[h].pr => g = h

\* Parallel sweeps arm heads of one pull request from lists that do not show
\* each other's claims, so it can have several; but the gate never sees more
\* of them than sweeps overlap, however often heads move and claims revive: an
\* arm supersedes everything its list shows before it writes (ArmClaim).  Of
\* pull requests that share no head: an arm for one that does may unmark a
\* claim of the other.
LiveClaimsBounded ==
  \A p \in PR : Cardinality({h \in Head : Claim(p, h)}) <= Cardinality(Sweeper)

\* No live claim carries the released marker: such a claim is outside the
\* gate's list and so outside its capacity count and its release passes.
NoInvisibleClaim == \A h \in Head : ~(Live(att[h]) /\ att[h].marker)

\* The breaker: the deaths charged to a head never exceed its limit.
BreakerHolds == \A h \in Head : att[h].dead <= MaxDeadDispatchesPerHead

\* With overlapping sweeps the breaker reads a snapshot taken before the arm,
\* so it can be outrun, but only by the sweeps that hold one: at most one
\* death beyond the limit for each sweep other than the one that charges it.
BreakerOvershoot ==
  \A h \in Head :
    att[h].dead < MaxDeadDispatchesPerHead + Cardinality(Sweeper)

\* A claim released as dead leaves no run record reading "running", also when
\* the runner was killed before it could write (ReleaseClaimDead).
DeadEraSettled ==
  \A h \in Head :
    att[h].released /\ att[h].reason = "dispatch-timeout"
      => att[h].running = {}

\* The cancel pass deletes no Job of a live claim ("The pass never cancels a
\* live claim", GateDeps.DisableCancelOnSupersede).
CancelSparesLive ==
  [][\A s \in Sweeper : CancelDelete(s) => ~Live(att[op[s].target])]_vars

\* When a head's attempt passes to another pull request, the evidence the
\* automatic guards read does not pass with it ("a pointer change must not
\* inherit the first pointer's churn evidence", ArmClaim).
EvidenceNotInherited ==
  [][\A h \in Head :
       /\ att[h].pr # NoPR
       /\ att'[h].pr \notin {NoPR, att[h].pr}
       => ~att'[h].dismissed /\ att'[h].lost = 0 /\ att'[h].dead = 0]_vars

\* An attempt whose claim was consumed reads validated ("a consumed verdict
\* leaves the attempt reading reconciling forever" is what ReleaseClaim's
\* phase write is there to prevent).
ConsumedReadsValidated ==
  \A h \in Head :
    att[h].released /\ att[h].reason = "consumed"
      => att[h].phase = "validated"

\* When a dispatch of a claim finds its Job alive and finishes, the claim
\* counts as dispatched (the dedupe path of Dispatch: "re-stamp the edge").
DedupeRecordsDispatch ==
  [][\A s \in Sweeper :
       CompleteDispatchEdge(s) /\ op'[s].pc = "idle" /\ Live(att[op[s].head])
         => att[op[s].head].dispatched]_vars

\* Deleting the object of a failed arm destroys no claim ("The object carries
\* nothing - no claim, no run, no ledger", armAbandon).
AbandonDestroysNoClaim ==
  [][\A h \in Head : Live(att[h]) => att'[h].exists]_vars
================================================================================
