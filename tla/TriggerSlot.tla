------------------------------ MODULE TriggerSlot ------------------------------
(***************************************************************************)
(* One Workflow and everyone who moves its clock: the controller's         *)
(* reconcile, which decides that a run is due, wins the trigger slot by a  *)
(* compare-and-set of status.lastRunAt, publishes a TriggerEvent, clears   *)
(* the wake and observes the generation; the webhook, which sets the wake; *)
(* the worker pool, which consumes the events and sweeps; and the runs,    *)
(* which stamp lastRunAt once more when they end.                          *)
(*                                                                         *)
(* The controller reads through its informer cache; its writes carry the   *)
(* resourceVersion of the copy they were computed from, so they take       *)
(* effect only if the cache is current.  Time passes in ticks of the       *)
(* resolution of the stamps; a stamp is kept as its age, up to             *)
(* PollInterval.                                                           *)
(***************************************************************************)
EXTENDS Integers

CONSTANTS
  PollInterval,    \* ticks between scheduled runs
  WebhookInterval, \* webhookMinTriggerInterval
  Rev,             \* values of the trigger-revision annotation
  NoRev,
  SourceRevision,  \* spec.source.revision, or NoRev
  SourceKind,      \* the source kinds of this instance
  Claim,           \* attempts of the workflow
  MaxEvents        \* bound: deliveries, spec changes and restarts

ASSUME SlotAssumption ==
  /\ WebhookInterval \in Nat \ {0}
  /\ PollInterval \in Nat
  /\ WebhookInterval < PollInterval
  /\ NoRev \notin Rev
  /\ SourceRevision \in Rev \cup {NoRev}
  /\ SourceKind \subseteq {"webhook", "cron", "poll"}
  /\ MaxEvents \in Nat

VARIABLES
  kind,     \* spec.source.kind: webhook with a review gate, cron, or poll
  wf,       \* the Workflow in the API server
  cache,    \* the controller's informer copy
  synced,   \* the informer copy is the current version
  claims,   \* the Attempts and their runs
  rec,      \* the reconcile in progress
  topic,    \* a TriggerEvent is published and not acknowledged
  events,   \* deliveries, spec changes and restarts so far
  gap,      \* history: age of the last slot won
  ended,    \* history: a run ended since the last slot won
  served    \* history: generations a slot was won for

vars == <<kind, wf, cache, synced, claims, rec, topic, events,
          gap, ended, served>>

Never == -1      \* a zero LastRunAt

Age == {Never} \cup 0..PollInterval

\* `late`: a run ended after this copy's LastRunAt;
\* `activated`: the cron had an activation after it.
Workflow ==
  [wake : Rev \cup {NoRev}, processed : Rev \cup {NoRev}, lastRun : Age,
   late : BOOLEAN, activated : BOOLEAN, gen : 0..MaxEvents,
   observed : -1..MaxEvents, disabled : BOOLEAN,
   gated : BOOLEAN,      \* status.reviewReady is set
   armed : BOOLEAN]      \* it counts live claims, or its decision is waiting

Unrun ==
  [wake |-> NoRev, processed |-> NoRev, lastRun |-> Never, late |-> FALSE,
   activated |-> FALSE, gen |-> 0, observed |-> -1, disabled |-> FALSE,
   gated |-> FALSE, armed |-> FALSE]

Attempt ==
  [live : BOOLEAN, dispatched : BOOLEAN,
   run : {"none", "running", "patched"}]

\* What a reconcile keeps of its first read.
Idle == [pc |-> "idle", wake |-> NoRev, gen |-> 0]

Init ==
  /\ kind \in SourceKind
  /\ wf = Unrun /\ cache = Unrun /\ synced = TRUE
  /\ claims = [k \in Claim |-> [live |-> FALSE, dispatched |-> FALSE,
                             run |-> "none"]]
  /\ rec = Idle
  /\ topic = FALSE /\ events = 0
  /\ gap = Never /\ ended = FALSE /\ served = {}

----------------------------------------------------------------------------
(* Writes to the Workflow, and time.                                        *)

\* metav1.Now() into status.lastRunAt: nothing has happened since.
Stamp(w) == [w EXCEPT !.lastRun = 0, !.late = FALSE, !.activated = FALSE]

Write(w) == wf' = w /\ synced' = (synced /\ w = wf)

Older(age) == IF age \in {Never, PollInterval} THEN age ELSE age + 1

Aged(w) == [w EXCEPT !.lastRun = Older(@)]

Tick ==
  /\ wf' = Aged(wf) /\ cache' = Aged(cache)
  /\ gap' = Older(gap)
  /\ UNCHANGED <<kind, synced, claims, rec, topic, events, ended, served>>

\* The informer delivers the Workflow, and its update wakes the reconcile.
CacheSync ==
  /\ ~synced
  /\ cache' = wf /\ synced' = TRUE
  /\ UNCHANGED <<kind, wf, claims, rec, topic, events, gap, ended, served>>

----------------------------------------------------------------------------
(* What makes a run due.                                                    *)

\* `listed`: the informer's list of the live claims, which may lag behind or
\* fail, shows the one whose run ended late.
terminalRunPending(w, listed) ==
  w.gated /\ w.lastRun # Never /\ listed /\ w.late

WakePending(w) == w.wake \notin {NoRev, w.processed}

Elapsed(w, interval) == w.lastRun = Never \/ w.lastRun >= interval

ScheduleDue(w) ==
  CASE kind = "webhook" -> FALSE
    [] kind = "cron"    -> w.lastRun = Never \/ w.activated
    [] kind = "poll"    -> Elapsed(w, PollInterval)

\* Mutant: the webhook-only guard comes before the armed carve-out.
isDueGuardFirst(w) ==
  \/ WakePending(w) \/ w.observed # w.gen
  \/ kind # "webhook" /\ (w.armed \/ ScheduleDue(w))

isDue(w) ==
  WakePending(w) \/ w.observed # w.gen \/ w.armed \/ ScheduleDue(w)

\* Mutant: the armed poll is held to the webhook floor only.
SlotFreeAtFloor(w, listed) == Elapsed(w, WebhookInterval)

\* claimTriggerSlot's cooldown, keyed on the source found in its own read.
SlotFree(w, listed) ==
  Elapsed(w, IF WakePending(w) \/ terminalRunPending(w, listed)
               THEN WebhookInterval ELSE PollInterval)

----------------------------------------------------------------------------
(* The reconcile.                                                           *)

Step(pc) == rec' = [rec EXCEPT !.pc = pc]

\* The Workflow is read from the cache and found due.  A reconcile may begin
\* at any time: on an update of the object, on the end of a run, and at the
\* latest a poll after the previous one, for every return of Reconcile
\* carries a RequeueAfter.  One that finds it disabled or not due changes
\* nothing.
StartReconcile ==
  /\ rec.pc = "idle"
  /\ ~cache.disabled
  /\ isDue(cache) \/ \E listed \in BOOLEAN : terminalRunPending(cache, listed)
  /\ rec' = [pc |-> "slot", wake |-> cache.wake, gen |-> cache.gen]
  /\ UNCHANGED <<kind, wf, cache, synced, claims, topic, events, gap, ended, served>>

\* Mutant: a plain merge patch, without the resourceVersion precondition.
AcceptedUnlocked == TRUE

\* A patch under MergeFromWithOptimisticLock: the copy read is the current one.
Accepted == synced

\* The reconcile ends without a slot: profileCompat refuses the dispatch, the
\* fresh read is on cooldown, or the patch keeps conflicting.
LoseSlot ==
  /\ rec.pc = "slot"
  /\ rec' = Idle
  /\ UNCHANGED <<kind, wf, cache, synced, claims, topic, events, gap,
                 ended, served>>

\* claimTriggerSlot wins: LastRunAt is stamped.  A conflict is retried from a
\* new read, so the slot may be won after the cache has caught up.
WinSlot ==
  /\ rec.pc = "slot"
  /\ \E listed \in BOOLEAN : SlotFree(cache, listed)
  /\ Accepted
  /\ Write(Stamp(wf))
  /\ Step("publish")
  /\ gap' = 0 /\ ended' = FALSE
  /\ served' = served \cup {rec.gen}
  /\ UNCHANGED <<kind, cache, claims, topic, events>>

\* publishTrigger; a failure is logged and the reconcile goes on.
Publish ==
  /\ rec.pc = "publish"
  /\ topic' = TRUE
  /\ Step("clear")
  /\ UNCHANGED <<kind, wf, cache, synced, claims, events, gap, ended, served>>

PublishFails ==
  /\ rec.pc = "publish"
  /\ Step("clear")
  /\ UNCHANGED <<kind, wf, cache, synced, claims, topic, events, gap,
                 ended, served>>

\* The wake is cleared on a second read; there it may be gone already, and a
\* clear that keeps conflicting is given up: the wake survives.
ClearWake ==
  /\ rec.pc = "clear"
  /\ rec' = [rec EXCEPT !.pc = "observe", !.wake = NoRev]
  /\ IF rec.wake # NoRev /\ cache.wake # NoRev /\ Accepted
       THEN Write([wf EXCEPT !.wake = NoRev])
       ELSE UNCHANGED <<wf, synced>>
  /\ UNCHANGED <<kind, cache, claims, topic, events, gap, ended, served>>

\* Mutant: the generation of the second read is marked as observed.
ObservedGenerationLatest == wf.gen

ObservedGeneration == rec.gen

observeGeneration ==
  /\ rec.pc = "observe"
  /\ IF Accepted THEN Write([Stamp(wf) EXCEPT !.observed = ObservedGeneration])
                 ELSE UNCHANGED <<wf, synced>>
  /\ rec' = Idle
  /\ UNCHANGED <<kind, cache, claims, topic, events, gap, ended, served>>

\* The controller restarts with a cache listed anew; what the reconcile had
\* left to do is not done.
Restart ==
  /\ events < MaxEvents
  /\ events' = events + 1
  /\ cache' = wf /\ synced' = TRUE
  /\ rec' = Idle
  /\ UNCHANGED <<kind, wf, claims, topic, gap, ended, served>>

----------------------------------------------------------------------------
(* The webhook, the spec and the cron.                                      *)

\* A delivery for a watched repository sets the wake, whatever stands there.
Deliver(r) ==
  /\ events < MaxEvents
  /\ events' = events + 1
  /\ Write([wf EXCEPT !.wake = r])
  /\ UNCHANGED <<kind, cache, claims, rec, topic, gap, ended, served>>

\* The spec is delivered anew, or the workflow is paused or armed in the UI.
SpecChange ==
  /\ events < MaxEvents
  /\ events' = events + 1
  /\ \E d \in BOOLEAN : Write([wf EXCEPT !.gen = @ + 1, !.disabled = d])
  /\ UNCHANGED <<kind, cache, claims, rec, topic, gap, ended, served>>

\* An activation instant of the cron passes.
CronFires ==
  /\ kind = "cron" /\ wf.lastRun # Never
  /\ wf' = [wf EXCEPT !.activated = TRUE]
  /\ cache' = [cache EXCEPT !.activated = cache.lastRun # Never]
  /\ UNCHANGED <<kind, synced, claims, rec, topic, events, gap,
                 ended, served>>

----------------------------------------------------------------------------
(* The worker pool and the runs.                                            *)

\* A run is started unless one is alive.
StartRun(a) ==
  IF a.run \in {"running", "patched"} THEN a
  ELSE [a EXCEPT !.run = "running", !.dispatched = a.live]

\* What a sweep may make of an attempt: without a gate a run starts; with one
\* the claim is armed, dispatched, both, or released (the dispatch stamp of a
\* released claim is not read again and is dropped with it).
Swept(a) ==
  LET armed == [a EXCEPT !.live = TRUE]
  IN  IF kind # "webhook" THEN {StartRun(a)}
      ELSE {a, armed, [a EXCEPT !.live = FALSE, !.dispatched = FALSE]}
             \cup (IF armed.dispatched THEN {} ELSE {StartRun(armed)})

\* LiveClaims counts the dispatched claims the sweep found and did not
\* release; it is written before the sweep's own dispatches.
Counted(c) == claims[c].live /\ claims[c].dispatched /\ claims'[c].live

\* One sweep; with a gate it refreshes the aggregates in the status.
Sweep ==
  \E k \in Claim, waiting \in BOOLEAN :
    /\ \E a \in Swept(claims[k]) : claims' = [claims EXCEPT ![k] = a]
    /\ Write(IF kind # "webhook" THEN wf
             ELSE [wf EXCEPT !.gated = TRUE,
                             !.armed = waiting \/ \E c \in Claim : Counted(c)])

\* handleTrigger: the event is run, and acknowledged unless the run fails.
HandleTrigger ==
  /\ topic
  /\ Sweep
  /\ topic' \in BOOLEAN
  /\ UNCHANGED <<kind, cache, rec, events, gap, ended, served>>

\* What ArmedWaitingWorkflows looks for.
Waiting == \E k \in Claim : claims[k].live /\ ~claims[k].dispatched

\* armedBackoffLoop: a sweep of its own while a claim waits undispatched.
ArmedBackoff ==
  /\ Waiting
  /\ Sweep
  /\ UNCHANGED <<kind, cache, rec, topic, events, gap, ended, served>>

\* The end of a run: patchWorkflowStatus stamps the Workflow, and only then
\* recordAttemptOutcome ends the run's record.
PatchWorkflowStatus(k) ==
  /\ claims[k].run = "running"
  /\ claims' = [claims EXCEPT ![k].run = "patched"]
  /\ Write([Stamp(wf) EXCEPT !.processed = IF SourceRevision = NoRev
                                             THEN @ ELSE SourceRevision])
  /\ UNCHANGED <<kind, cache, rec, topic, events, gap, ended, served>>

\* The run's EndedAt against a copy's LastRunAt, both in whole ticks.
EndedNow(w) == [w EXCEPT !.late = @ \/ w.lastRun \notin {Never, 0}]

\* The update that runTerminalPredicate lets through to the reconcile.
RecordAttemptOutcome(k) ==
  /\ claims[k].run = "patched"
  /\ claims' = [claims EXCEPT ![k].run = "none"]
  /\ wf' = EndedNow(wf) /\ cache' = EndedNow(cache)
  /\ ended' = TRUE
  /\ UNCHANGED <<kind, synced, rec, topic, events, gap, served>>

----------------------------------------------------------------------------
Reconcile ==
  \/ StartReconcile \/ LoseSlot \/ WinSlot
  \/ Publish \/ PublishFails \/ ClearWake \/ observeGeneration

Next ==
  \/ Reconcile
  \/ Tick \/ CacheSync \/ Restart \/ SpecChange \/ CronFires
  \/ HandleTrigger \/ ArmedBackoff
  \/ \E r \in Rev : Deliver(r)
  \/ \E k \in Claim : PatchWorkflowStatus(k) \/ RecordAttemptOutcome(k)

Spec == Init /\ [][Next]_vars

\* Time passes, the informer delivers, a due reconcile runs.  A slot that is
\* free again and again, whatever the list of Attempts shows, is won some
\* time: the profile does not refuse for ever, nor do the retries always end
\* before the cache is current.  Of the publishes not all fail.
Fairness ==
  /\ WF_vars(Tick) /\ WF_vars(CacheSync)
  /\ WF_vars(StartReconcile /\ isDue(cache))
  /\ SF_vars(WinSlot /\ SlotFree(cache, FALSE)) /\ SF_vars(Publish)
  /\ WF_vars(ClearWake) /\ WF_vars(observeGeneration)

FairSpec == Spec /\ Fairness

----------------------------------------------------------------------------
TypeOK ==
  /\ kind \in SourceKind
  /\ wf \in Workflow /\ cache \in Workflow /\ synced \in BOOLEAN
  /\ claims \in [Claim -> Attempt]
  /\ rec \in [pc : {"idle", "slot", "publish", "clear", "observe"},
              wake : Rev \cup {NoRev}, gen : 0..MaxEvents]
  /\ topic \in BOOLEAN /\ events \in 0..MaxEvents
  /\ gap \in Age /\ ended \in BOOLEAN /\ served \subseteq 0..MaxEvents
  /\ synced => cache = wf

\* Two slots are won less than a poll apart only if a wake the last run has
\* not processed stands on the Workflow, or a run ended after the first of
\* them, and never less than the webhook floor apart: the armed poll does not
\* become a sweep engine, and one completion wins one slot.
Cadence ==
  [][rec.pc = "slot" /\ rec'.pc = "publish" /\ gap \notin {Never, PollInterval} =>
       gap >= WebhookInterval /\ (WakePending(wf) \/ ended)]_vars

\* A generation is observed only if a slot was won by a reconcile that had
\* read it: a spec delivered while an older one is being published stays due.
ObservedWasServed == wf.observed \in served \cup {-1}

\* A workflow that holds armed claims gets another trigger, unless one of
\* them waits undispatched and armedBackoffLoop sweeps the workflow for it, or
\* it is disarmed or disabled: when every claim has its run, no order of runs
\* ending, wakes and stale reads starves the poll that settles them.  While a
\* claim waits, runs of the others may stamp LastRunAt more often than once a
\* poll, and the slot need never be free: then the loop is the only floor.
ArmedSwept == wf.armed ~> (topic \/ Waiting \/ ~wf.armed \/ wf.disabled)

\* Clearing removes no wake but the one its reconcile has read and published
\* ("a genuine human re-request is never swallowed",
\* workflow_controller.go:143).
WakeNeverErased ==
  [][wf.wake # NoRev /\ wf'.wake = NoRev => wf.wake = rec.wake]_vars
================================================================================
