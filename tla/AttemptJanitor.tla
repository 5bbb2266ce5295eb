----------------------------- MODULE AttemptJanitor ----------------------------
(***************************************************************************)
(* The life of a workflow's Attempts, from the trigger that creates one to *)
(* the janitor pass that deletes it.                                       *)
(*                                                                         *)
(* Five actors write them.  The controller resolves the Attempt of a       *)
(* trigger and marks the Attempts of earlier revisions superseded.  If the *)
(* workflow has a review gate, the gate arms, dispatches and releases      *)
(* review claims; what its steps do to each other is ReviewClaim's         *)
(* subject, here each operation is one step.  If it has none, the          *)
(* dispatcher starts a run straight away.  Runners record their run and    *)
(* its outcome.  The janitor walks over all Attempts, listing them once    *)
(* for each of its legs and then writing one object at a time, while the   *)
(* others go on.                                                           *)
(*                                                                         *)
(* Every patch is one atomic step (RunLedger), and any call may fail.  The *)
(* age of an Attempt counts the bounds it has outlived since it was        *)
(* created: a day, ReapAfter, Retention.  The gate's refusals of an arm    *)
(* (ReviewClaim) and the janitor's last leg, which deletes the ended pods  *)
(* of Jobs that are gone and touches no Attempt, are left out; so is a     *)
(* list that fails, which only puts its leg off to the next pass.          *)
(***************************************************************************)
EXTENDS ClaimLedger, FiniteSets

CONSTANTS
  Objective,    \* targeted states, one Attempt each
  Rolling,      \* "head", the standing target of scheduled runs
  NoObjective,
  Gated,        \* the workflows considered: with a review gate, without
  MaxWakes      \* bound: triggers, arms and scheduled dispatches together

ASSUME JanitorAssumption ==
  /\ NoObjective \notin Objective
  /\ Gated \subseteq BOOLEAN
  /\ MaxWakes \in Nat

VARIABLES
  gated,    \* spec.reviewReady is set
  att,      \* att[o]: the Attempt object of objective o
  age,      \* age[o]: the bounds it has outlived
  jobs,     \* jobs[j]: the runner Job j and the Attempt it runs for
  jan,      \* the janitor's pass
  ctl,      \* the Attempts the controller's trigger has yet to supersede
  spent     \* wakes so far

vars == <<gated, att, age, jobs, jan, ctl, spent>>

Day       == 1
ReapAfter == 2
Retention == 3

NoEdges == [o \in Objective |-> NoJob]

\* bearing and edge: what the leg's list said of the claims and their Jobs.
Janitor ==
  [pc : {"idle", "reap", "phase", "gc", "edges"},
   todo : SUBSET Objective, bearing : SUBSET Objective,
   edge : [Objective -> Job \cup {NoJob}], cur : Objective \cup {NoObjective}]

NoPass == [pc |-> "idle", todo |-> {}, bearing |-> {}, edge |-> NoEdges,
           cur |-> NoObjective]

\* "reported": the outcome is written, the pod has not ended.
JobState == {"none", "running", "reported", "gone"}

Init ==
  /\ gated \in Gated
  /\ att = [o \in Objective |-> Absent]
  /\ age = [o \in Objective |-> 0]
  /\ jobs = [j \in Job |-> [st |-> "none", for |-> NoObjective]]
  /\ jan = NoPass
  /\ ctl = {}
  /\ spent = 0

--------------------------------------------------------------------------------
\* status.review is there and not released.  A dispatch creates it where no
\* claim was armed.
ClaimBearing(a) ==
  ~a.released /\ (a.pr # NoPR \/ a.dispatched \/ a.job # NoJob)

AliveJob(j) == jobs[j].st \in {"running", "reported"}

JobAlive(o) == \E j \in Job : AliveJob(j) /\ jobs[j].for = o

\* A status patch of an object that exists.
Patch(o, a) ==
  /\ att[o].exists
  /\ att' = [att EXCEPT ![o] = a]

Wake == spent < MaxWakes /\ spent' = spent + 1

\* ResolveOrCreate: the object of this name, or a new one without a status.
Resolved(o) == IF att[o].exists THEN att[o] ELSE Created

ResolvedAge(o) == IF att[o].exists THEN age[o] ELSE 0

--------------------------------------------------------------------------------
(***************************************************************************)
(* Time: every Attempt there is outlives its next bound.                   *)
(***************************************************************************)
Ages ==
  /\ \E o \in Objective : att[o].exists /\ age[o] < Retention
  /\ age' = [o \in Objective |->
               IF att[o].exists /\ age[o] < Retention THEN age[o] + 1 ELSE age[o]]
  /\ UNCHANGED <<gated, att, jobs, jan, ctl, spent>>

(***************************************************************************)
(* The controller: resolveAttempt, and for a concrete revision the listing *)
(* of SupersedePriorAttempts and then one patch for each Attempt listed.   *)
(***************************************************************************)
Prior(o) ==
  {p \in Objective \ {o, Rolling} :
     att[p].exists /\ att[p].phase = "reconciling" /\ ~ClaimBearing(att[p])}

Trigger(o) ==
  /\ ctl = {}
  /\ Wake
  /\ att' = [att EXCEPT ![o] = Resolved(o)]
  /\ age' = [age EXCEPT ![o] = ResolvedAge(o)]
  /\ ctl' = IF o = Rolling THEN {} ELSE Prior(o)
  /\ UNCHANGED <<gated, jobs, jan>>

SupersedePrior(p) ==
  /\ p \in ctl
  /\ \/ Patch(p, [att[p] EXCEPT !.phase = "superseded"])
     \/ UNCHANGED att
  /\ ctl' = ctl \ {p}
  /\ UNCHANGED <<gated, age, jobs, jan, spent>>

(***************************************************************************)
(* Runs.  A run belongs to an Attempt by name; its writes fail when the    *)
(* object is gone.  The record of its start is RunLedger's: it leaves the  *)
(* phase alone, and no leg of the janitor reads it.                        *)
(***************************************************************************)
CompleteDispatchEdge(a, j) ==
  IF a.job # NoJob THEN a ELSE MarkClaimDispatched(a, j)

StartJob(j, o) ==
  /\ jobs[j].st = "none"
  /\ jobs' = [jobs EXCEPT ![j] = [st |-> "running", for |-> o]]

\* Dispatch without a gate, "under a claimless attempt": a live Job is only
\* given its missing edge; otherwise intent, Job and edge are recorded, or as
\* many of them as the calls allow.
Schedule(o) ==
  LET a == Resolved(o) IN
  /\ ~gated
  /\ Wake
  /\ \/ /\ \E j \in Job :
             /\ AliveJob(j) /\ jobs[j].for = o
             /\ att' = [att EXCEPT ![o] = CompleteDispatchEdge(a, j)]
        /\ UNCHANGED jobs
     \/ /\ ~JobAlive(o)
        /\ \E j \in Job :
             /\ StartJob(j, o)
             /\ \/ att' = [att EXCEPT ![o] = MarkClaimDispatched(a, j)]
                \/ att' = [att EXCEPT ![o] = MarkDispatchIntent(a)]
     \/ /\ ~JobAlive(o)
        /\ att' = [att EXCEPT ![o] = MarkDispatchIntent(a)]
        /\ UNCHANGED jobs
  /\ age' = [age EXCEPT ![o] = ResolvedAge(o)]
  /\ UNCHANGED <<gated, jan, ctl>>

RunnerEnds(j, outcome) ==
  LET o == jobs[j].for IN
  /\ jobs[j].st = "running"
  /\ \/ Patch(o, RunOutcome(att[o], j, outcome))
     \/ UNCHANGED att
  /\ jobs' = [jobs EXCEPT ![j].st = "reported"]
  /\ UNCHANGED <<gated, age, jan, ctl, spent>>

\* The runner exits, or its pod is lost.  A Job that has ended is as good as
\* gone: only live ones are looked for.
JobGoes(j) ==
  /\ AliveJob(j)
  /\ jobs' = [jobs EXCEPT ![j].st = "gone"]
  /\ UNCHANGED <<gated, att, age, jan, ctl, spent>>

(***************************************************************************)
(* The gate.                                                               *)
(***************************************************************************)
GateArm(o, p) ==
  LET a == Resolved(o) IN
  /\ gated
  /\ Wake
  /\ ~Live(a)
  /\ att' = [att EXCEPT ![o] = Arm(markClaimLive(a), p, TRUE, FALSE)]
  /\ age' = [age EXCEPT ![o] = ResolvedAge(o)]
  /\ UNCHANGED <<gated, jobs, jan, ctl>>

GateDispatch(o, j) ==
  /\ Listed(att[o])
  /\ ~att[o].dispatched
  /\ ~JobAlive(o)
  /\ StartJob(j, o)
  /\ att' = [att EXCEPT ![o] = MarkClaimDispatched(@, j)]
  /\ UNCHANGED <<gated, age, jan, ctl, spent>>

\* Of the release reasons, "consumed" stands for those that end the phase.
GateRelease(o) ==
  /\ Listed(att[o])
  /\ \E reason \in {"consumed", "standdown"} :
       Patch(o, markClaimReleased(Release(att[o], reason)))
  /\ UNCHANGED <<gated, age, jobs, jan, ctl, spent>>

GateReleaseDead(o) ==
  /\ Listed(att[o])
  /\ att[o].dispatched
  /\ ~JobAlive(o)
  /\ Patch(o, markClaimReleased(ReleaseDead(att[o], "dispatch-timeout")))
  /\ UNCHANGED <<gated, age, jobs, jan, ctl, spent>>

--------------------------------------------------------------------------------
(***************************************************************************)
(* The janitor.  Each leg lists, then handles what it listed in any order. *)
(***************************************************************************)
Handled(o) ==
  jan' = [jan EXCEPT !.todo = @ \ {o}, !.bearing = @ \ {o}, !.edge[o] = NoJob]

Unwritten == UNCHANGED <<gated, att, age, jobs, ctl, spent>>

Stuck(o) ==
  att[o].exists /\ att[o].phase = "reconciling" /\ age[o] >= ReapAfter

ReapList ==
  /\ jan.pc = "idle"
  /\ jan' = [NoPass EXCEPT !.pc = "reap",
                           !.todo = {o \in Objective : Stuck(o)},
                           !.bearing = {o \in Objective :
                                          Stuck(o) /\ ClaimBearing(att[o])}]
  /\ Unwritten

\* ReapStuckAttempts releases the claim first.  ReleaseClaim is a status patch
\* and a marker patch; either may fail.
ReapRelease(o) ==
  /\ jan.pc = "reap"
  /\ o \in jan.todo
  /\ o \in jan.bearing
  /\ \/ Patch(o, markClaimReleased(Release(att[o], "standdown")))
     \/ Patch(o, Release(att[o], "standdown"))
  /\ jan' = [jan EXCEPT !.pc = "phase", !.cur = o]
  /\ UNCHANGED <<gated, age, jobs, ctl, spent>>

\* "The phase leg lands unconditionally."
AfterFailedRelease(o) == jan' = [jan EXCEPT !.pc = "phase", !.cur = o]

ReapReleaseFails(o) ==
  /\ jan.pc = "reap"
  /\ o \in jan.todo
  /\ o \in jan.bearing
  /\ AfterFailedRelease(o)
  /\ Unwritten

\* The phase leg: at once without a claim, after its release with one.
PhaseTurn(o) ==
  \/ jan.pc = "reap" /\ o \in jan.todo \ jan.bearing
  \/ jan.pc = "phase" /\ o = jan.cur

ReapDone(o) ==
  jan' = [jan EXCEPT !.pc = "reap", !.cur = NoObjective,
                     !.todo = @ \ {o}, !.bearing = @ \ {o}]

ReapPhase(o) ==
  /\ PhaseTurn(o)
  /\ Patch(o, [att[o] EXCEPT !.phase = "failed"])
  /\ ReapDone(o)
  /\ UNCHANGED <<gated, age, jobs, ctl, spent>>

ReapPhaseFails(o) ==
  /\ PhaseTurn(o)
  /\ ReapDone(o)
  /\ Unwritten

\* Mutant: an Attempt that never ran is not collected.
CollectableEnded(o) ==
  /\ att[o].exists
  /\ att[o].phase \in Terminal
  /\ age[o] >= Retention
  /\ ~ClaimBearing(att[o])

\* GCAttempts' filter: a phase that ended, or none at all, past its bound, and
\* no unreleased claim.
Collectable(o) ==
  /\ att[o].exists
  /\ \/ att[o].phase \in Terminal /\ age[o] >= Retention
     \/ att[o].phase = "" /\ age[o] >= Day
  /\ ~ClaimBearing(att[o])

GCList ==
  /\ jan.pc = "reap"
  /\ jan.todo = {}
  /\ jan' = [NoPass EXCEPT !.pc = "gc",
                           !.todo = {o \in Objective : Collectable(o)}]
  /\ Unwritten

GCDelete(o) ==
  /\ jan.pc = "gc"
  /\ o \in jan.todo
  /\ att' = [att EXCEPT ![o] = Absent]
  /\ age' = [age EXCEPT ![o] = 0]
  /\ Handled(o)
  /\ UNCHANGED <<gated, jobs, ctl, spent>>

GCFails(o) == jan.pc = "gc" /\ o \in jan.todo /\ Handled(o) /\ Unwritten

\* Mutant: only a failed Attempt strands its Job.
StrandedFailed(o) ==
  att[o].exists /\ att[o].phase = "failed" /\ att[o].job # NoJob

\* deleteStrandedDispatchedJobs' filter.
Stranded(o) ==
  att[o].exists /\ att[o].phase \in Terminal /\ att[o].job # NoJob

EdgeList ==
  /\ jan.pc = "gc"
  /\ jan.todo = {}
  /\ jan' = [NoPass EXCEPT !.pc = "edges",
                           !.todo = {o \in Objective : Stranded(o)},
                           !.edge = [o \in Objective |->
                                       IF Stranded(o) THEN att[o].job ELSE NoJob]]
  /\ Unwritten

EdgeDelete(o) ==
  LET j == jan.edge[o] IN
  /\ jan.pc = "edges"
  /\ o \in jan.todo
  /\ AliveJob(j)
  /\ jobs' = [jobs EXCEPT ![j].st = "gone"]
  /\ Handled(o)
  /\ UNCHANGED <<gated, att, age, ctl, spent>>

\* The Job is gone already, or a call fails.
EdgeSkip(o) == jan.pc = "edges" /\ o \in jan.todo /\ Handled(o) /\ Unwritten

PassDone ==
  /\ jan.pc = "edges"
  /\ jan.todo = {}
  /\ jan' = NoPass
  /\ Unwritten

JanitorStep ==
  \/ ReapList \/ GCList \/ EdgeList \/ PassDone
  \/ \E o \in Objective :
       \/ ReapRelease(o) \/ ReapReleaseFails(o)
       \/ ReapPhase(o) \/ ReapPhaseFails(o)
       \/ GCDelete(o) \/ GCFails(o)
       \/ EdgeDelete(o) \/ EdgeSkip(o)

--------------------------------------------------------------------------------
Next ==
  \/ JanitorStep
  \/ Ages
  \/ \E o \in Objective :
       \/ Trigger(o) \/ SupersedePrior(o)
       \/ \E p \in PR : GateArm(o, p)
       \/ GateRelease(o) \/ GateReleaseDead(o)
       \/ Schedule(o)
       \/ \E j \in Job : GateDispatch(o, j)
  \/ \E j \in Job :
       \/ JobGoes(j)
       \/ \E outcome \in Outcome : RunnerEnds(j, outcome)

Spec == Init /\ [][Next]_vars

(***************************************************************************)
(* The ticker starts pass after pass, a call that is made again and again  *)
(* succeeds in the end, and time goes on.  Nothing is assumed of the gate, *)
(* of the runners, or of the release a reap attempts: it may fail for ever *)
(* ("the workflow-side marker can fail permanently").                      *)
(***************************************************************************)
Fairness ==
  /\ WF_vars(JanitorStep)
  /\ WF_vars(Ages)
  /\ \A o \in Objective :
       /\ SF_vars(ReapPhase(o))
       /\ SF_vars(GCDelete(o))
  /\ \A j \in Job : SF_vars(\E o \in Objective : jan.edge[o] = j /\ EdgeDelete(o))

FairSpec == Spec /\ Fairness

--------------------------------------------------------------------------------
TypeOK ==
  /\ gated \in BOOLEAN
  /\ att \in [Objective -> Attempt]
  /\ age \in [Objective -> 0..Retention]
  /\ jobs \in [Job -> [st : JobState, for : Objective \cup {NoObjective}]]
  /\ jan \in Janitor
  /\ ctl \subseteq Objective
  /\ spent \in 0..MaxWakes

(***************************************************************************)
(* No Attempt reconciles for ever: whatever the runners and the gate do or *)
(* fail to do, and even if its claim cannot be released, the janitor ends  *)
(* it ("27 fork-maintenance claims sat reconciling for 13-15 days").  And  *)
(* every Attempt is deleted in the end, the one that never ran included,   *)
(* unless an unreleased claim holds it.                                    *)
(***************************************************************************)
EventuallyCollected ==
  \A o \in Objective :
    /\ att[o].phase = "reconciling" ~> att[o].phase # "reconciling"
    /\ att[o].exists ~> ~att[o].exists \/ ClaimBearing(att[o])

(***************************************************************************)
(* A Job does not outlive the Attempt that dispatched it: once the Attempt *)
(* has ended, its recorded Job is deleted, although the runner never       *)
(* stops, unless the Attempt is taken up again or its record is gone.      *)
(***************************************************************************)
NoStrandedJob ==
  \A o \in Objective, j \in Job :
    LET ended == att[o].phase \in Terminal /\ att[o].job = j
    IN  ended /\ AliveJob(j) ~> ~ended \/ ~AliveJob(j)

(***************************************************************************)
(* The janitor deletes no Job of a workflow without a gate that has yet    *)
(* to report: "live work is never touched".  A later run of an Attempt     *)
(* that has ended leaves its phase as it is until the run reports, so the  *)
(* edge leg takes the Job for one that was left behind.                    *)
(***************************************************************************)
LiveWorkSpared ==
  [][\A o \in Objective :
       ~gated /\ EdgeDelete(o) => jobs[jan.edge[o]].st # "running"]_vars

(***************************************************************************)
(* "30d of history, not forever": what has ended is deleted in the end.    *)
(* The dispatch of a run without a claim creates the claim's record on the *)
(* Attempt, nobody releases it, and the collector keeps what is claimed.   *)
(***************************************************************************)
RetentionBounds ==
  \A o \in Objective :
    ~gated /\ att[o].exists /\ att[o].phase \in Terminal ~> ~att[o].exists

(***************************************************************************)
(* The reaper takes for lost only what is lost: "the run has no Job, no    *)
(* verdict, no terminal state".  The code looks at the age of the object,  *)
(* and an object that has been in use for a week may be running.           *)
(***************************************************************************)
ReapedIsLost ==
  [][\A o \in Objective : ReapPhase(o) => ~JobAlive(o)]_vars
================================================================================
