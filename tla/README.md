# Harmostes in TLA+

Harmostes is a Kubernetes control plane that runs reviewing and fixing agents
against repositories.  A `Workflow` resource says what to run; webhooks, polls
and schedules wake it; a worker decides whether there is something to do and, if
so, creates one Job for an `Attempt`; the Job's runner walks the workflow's node
graph and records the outcome on the `Attempt`.  This directory holds TLA+
models of the parts whose correctness depends on ordering, failure and
concurrency, the TLC configurations that check them on small instances, and
TLAPS proofs of the properties that matter most.  Line numbers refer to the
files under `src/`.

## 1. Inventory

| Part | State it keeps | Operations | What is hard | What makes it correct |
|---|---|---|---|---|
| Attempt ledger (`internal/attempt/lifecycle.go`) | the `Attempt` object: phase, run records, node results, evidence, compaction counters | ResolveOrCreate, RecordRunStarted, UpsertNodeResult, RecordProgress, RecordRunOutcome, compactStatus, GCAttempts, ReapStuckAttempts, SupersedePriorAttempts | several writers patch whole lists; objects are deleted under a writer; every write may compact | no lost update; bounded lists; exact totals; every Attempt ends and is deleted |
| Review claims (`internal/attempt/claim.go`) | `status.review` and the released marker label | ArmClaim, MarkDispatchIntent, MarkClaimDispatched, CompleteDispatchEdge, ReleaseClaim, ReleaseClaimDead, FinalizeCancelledClaim | status and label are two writes; guards read a snapshot; two pull requests may share a head and so an object | a live claim is visible; one per pull request, or as many as sweeps overlap; a death is charged once; the breaker stops |
| Review-ready gate (`internal/gate/sweep.go`) | sweep-local snapshots, the refusal memo | the passes A, job-death, never-dispatched, B, C, cancel, D | the forge moves between the reads of one sweep; sweeps overlap; a sweep may fail between two calls | a head is reviewed once, and in the end; only dead runs are charged; superseded runs are stopped |
| Gate evaluation (`internal/review/review.go`) | none | Evaluate and the forge clients | a decision table over label, verdict, head, clocks and CI contexts with failing reads | its refusals release what they should and nothing else |
| Dispatcher (`internal/worker/dispatch.go`) | `createMu` | Dispatch | intent, Job and edge are three writes; the mutex is per process | no Job without a record, no record that outlives its Job unnoticed |
| Graph executor (`internal/graph/executor.go`, `internal/claim`, `internal/capability`) | queue, edge counts, results, claims | Execute | feedback loops, retry limits, side work, routing of failures | it ends; failures are handled or fail the run; only gates vouch |
| Janitor (`internal/controller/janitor.go`) | none | Start, pass and its four legs | each leg lists and then writes while everybody else goes on | nothing is stuck, kept or stranded for ever; live work is spared |
| Workflow controller (`internal/controller/workflow_controller.go`, `trigger.go`) | trigger slot, trigger annotations | Reconcile, claimTriggerSlot, resolveAttempt, publishTrigger | cached reads; wakes arriving while one is published | one publish per slot; no wake is swallowed |
| Trigger consumer (`internal/worker/consumer.go`) | armed set, backoff | handleTrigger, armedBackoffLoop | redelivery, backoff reset | an armed workflow is swept again and again |
| Webhook (`internal/webhook`) | none | verify, parse, annotate | an annotation is a one-place buffer | the newest wake is the one that is kept |
| Agent session (`internal/agent`) | the pi process, its pipe, the reader goroutine and its channel, the usage so far | NewRPC, Prompt, Abort, the fix loop of `Task` | each of four parties may find the next one stopped; conversations are sent again with every turn; deadlines cut gates short | every run ends; usage is counted once; a killed gate is no feedback; files are read after pi exited |
| Session store (`internal/sessionstore`, `internal/agentlineage`, `internal/worker/sessions_janitor.go`) | lineage directories with transcripts and research, the shared store, the PRLineage actor's carry | ResolveSession, LinkSharedStore, ResetLineage, Fetch, Publish, SavePiSession, JanitorSessions | runs of two workflows share an actor, runs of two pull requests a volume; mounts come and go; a copy, a rename or a walk over files may fail for some of them | rounds start fresh; research and rounds survive |
| Worker process (`cmd/harmostes-worker`) | process environment, pins on disk, what it has reported | init-runtime, run, the gate when started by hand | edits between dispatch and run, SIGTERM, a crash before the outcome, read-modify-write of the journal | sessions hold what was declared and no other credential; the record says what happened |
| Job builder (`internal/k8s/job.go`), materializer | the Job | composition of environment, volumes, mounts, extensions | the API server refuses what validation let through | a refused Job is the fleet's fault, not an author's |
| Timeline (`internal/timeline`) | numbered events per Attempt | append, read in batches | lost writes, expiry, a second writer | a boundary of a run is shown once |
| Live pages (`internal/ui`) | subscriptions, debounce, ticker | Publish, wallSSE, graph stream | full channels, events overtaking writes | what was announced is shown; pages converge |
| dapr client, CRD walker, chart, plugins, TypeScript extensions, tools | files | transport, packaging | not part of the control plane's state | - |

Interactions: webhook -> annotation on the `Workflow` -> controller -> trigger
message -> consumer -> dispatcher -> gate sweep -> claim on the `Attempt` -> Job
-> runner -> graph executor -> outcome on the `Attempt` -> next sweep, or the
janitor.  Runners also publish events, which reach the pages of the user interface
through a hub.  Nothing is called back: every part reads what the others left on the
`Workflow` and `Attempt` objects, on the forge, or in the list of Jobs, and may
read it late.

## 2. Modules

`EXTENDS` goes upwards in this list; each `MC` module gives its module the
definitions a `.cfg` refers to.

| Module | Models | Kind |
|---|---|---|
| `ClaimLedger` | the review claim as written on one `Attempt`: the closure of every claim patch (`claim.go`), times as their age against the workflow's horizon | operators |
| `ReviewClaim` | any number of overlapping sweeps doing claim operations, one step for each API call, any call failing (`Fail`), any process dying (`Crash`) | state machine |
| `ReviewClaim_proofs` | `TypeCorrect`, `StampChargedOnce`, `OvershootBounded`, `LiveClaimsBoundedBySweeps` for any number of sweeps; `ChargedOnceSequential`, `OneLiveSequential`, `NoInvisibleSequential`, `DeadEraSequential`, `BreakerSequential` for one at a time | proofs |
| `ReviewEvaluate` | `review.Evaluate`'s decision table and `classifyRelease` | operators |
| `GateSweep` | whole sweeps (`runGate`, then the dispatch loop) against a forge, runners and clocks that move between their steps | state machine |
| `GateSweep_proofs` | `StoppedInTime`, `OnlyDeathsCharged`, `HeadsReviewedOnce`, `OnlyCurrentHeads` | proofs |
| `GraphExecutor` | one walk of the executor over any graph: denial, retries, trust boundary, promotion, routing, iteration valve, run events and dead letter | state machine |
| `GraphSideWork` | the same walk with side work hidden: refinement to the walk of the graph without it | refinement |
| `GraphExecutor_proofs` | `DeadLetterContract`, `TrustBoundary`, `GreenIsEarned` | proofs |
| `StatusLedger` | the bounded lists of an `Attempt`'s status: upserts, compaction, the mutations of `lifecycle.go` | operators |
| `AtomicLedger` | what `patchAttemptStatus` promises: a write happens at one instant or not at all | abstract specification |
| `RunLedger` | how it does so: fresh read, mutation, patch with resourceVersion, retry on conflict | state machine, implements `AtomicLedger` |
| `TriggerSlot` | the clock of one Workflow: the controller's reconcile over its cache, webhook, spec, cron, worker pool and ending runs | state machine |
| `TriggerSlot_proofs` | `TypeCorrect`, `CadenceKept`, `GenerationServed` | proofs |
| `SessionLineage` | what review rounds of a pull request leave to each other: carry, transcripts, research, and the janitor that prunes them | state machine |
| `SessionLineage_proofs` | `RoundsStartFresh`, `ComponentIsThere`, `ResearchSurvives`, `TraceGrows` | proofs |
| `AgentLoop` | one agent node: the fix loop, the reader goroutine, pi and the run's deadline | state machine |
| `AgentLoop_proofs` | `GateKillsStayOut`, `FilesAfterExit`, `LoopIsBounded`, `UsageIsExact` | proofs |
| `RunEnv` | the environments of pool, Job, plugin and session, each a function of the one before | operators |
| `AttemptJob` | validation, composition of extensions, the Job's volumes and mounts, what the API server refuses | operators |
| `RunEvidence` | timeline writes and reads, the rows of a run's boundaries, the research journal | operators |
| `AttemptPod` | one Attempt from its dispatch to its evidence: dispatcher, init container, run command, edits, signals and deaths | state machine over the three above |
| `AttemptPod_proofs` | `SessionHasNoBot`, `PostingIsForReviews` (of `RunEnv`'s operators); `DeclaredIsLoaded`, `SessionsAreSafe`, `IdentityIsKept`, `EachBoundaryOnce`, `OnlyTheFleetIsRefused` | proofs |
| `LivePage` | a page of the user interface, its hub and subscription, and the workers it shows | state machine |
| `Records_proofs` | `AtomicWrites`, `TotalsAreExact`, `LedgerTypes` (of `RunLedger`); `ShownOrWoken` (of `LivePage`) | proofs |
| `AttemptJanitor` | the life of the Attempts of one workflow, with a review gate or without: controller, gate, dispatcher, runners and janitor | state machine |

How they fit together.  `RunLedger` justifies that every other module treats a
status patch as one step.  `ReviewClaim` splits each claim operation into its
API calls and leaves open what the gate decides; `GateSweep` models what it
decides and makes a claim operation one step; both, and `AttemptJanitor`, apply
the same `ClaimLedger` operators.  `GraphExecutor` is what happens inside one
runner; `AttemptJanitor` and `GateSweep` see of it only the outcome.
`AttemptPod` is what happens between the dispatch and the walk and after it,
`AgentLoop` one node of the walk, `SessionLineage` what one round leaves for the
next, `LivePage` how anyone comes to see it.
`TriggerSlot` is what decides when a sweep happens at all, and sees of the sweep
only what it may do to a claim and what it writes to the Workflow.

State and actions against the code:

- `ReviewClaim`.  `att[h]` is the `Attempt` of head `h`, `op[s]` the program
  counter and local variables of sweeper `s` (one execution of `Dispatch`),
  `createMu` the holder of each process's mutex.  `ArmResolve .. ArmStatus` are
  the calls of `ArmClaim` in order, `DispatchLock .. DispatchEdge` those of the
  create loop, `ReleaseStatus`/`ReleaseMark`, `DeadStatus`/`DeadMark`,
  `CancelDelete`/`CancelFinalize` the other operations.  The history variable
  `stamped[h]` says what stamped the claim since its last charge: nothing, an
  edge, or the intent that begins a dispatch.
- `GateSweep`.  `sw` holds the snapshots of the sweep that is running.  The
  actions `SweepQueued`, `SweepDispatched`, `SweepDeaths`, `SweepCandidates`,
  `TakeCandidate`, `ArmCandidate`, `SweepCancel`, `SweepRecord`, `Dispatch*` are
  the passes of `runGate` in order, each with the reads it makes.  `Push`,
  `SetLabel`, ... are the forge, `Emit` its webhooks, which may arrive late.
- `GraphExecutor`.  `queue`, `counts`, `results`, `claims` are `Execute`'s local
  variables; one action for each way a queue head is handled.
- `RunLedger`.  `copy[r]` is the read a write of run `r` is based on.
- `TriggerSlot`.  `wf` is the Workflow in the API server, `cache` the
  controller's copy and `synced` whether they agree, which is when a patch with
  a resourceVersion taken from the copy is accepted.  `rec` is the reconcile:
  `StartReconcile`, `WinSlot` or `LoseSlot`, `Publish` or `PublishFails`,
  `ClearWake`, `observeGeneration` in this order.  Stamps are kept as ages in
  ticks of their resolution (a second), `late` holds the claims whose run ended
  after the stamp.  `gap`, `ended` and `served` are history variables.
- `SessionLineage`.  `lin[l]` is the directory of lineage `l` on the workflow's
  volume, `actor[p]` the PRLineage actor of a pull request, `store` the shared
  research store, `run[r]` a worker process: `Start`, `JanitorLook`/`Remove`,
  `ResolveSession`, `LinkSharedStore`, `MigrateManufactured`, `CreateLink`,
  `Fetch`, `Reset` and, for each agent node, `Spawn .. SavePiSession`.  A
  migration copies any of the files, fails at others and passes over others
  without counting them; a link may not be made or not be renamed, and the
  fallback may fail at the directory or at its marker.  A transcript, an object of research
  and a round of a carry carry the name of the spawn that made them.  `stale`,
  `exposed` and a run's `skipped` are history variables.
- `AgentLoop`.  `pc` is `Task`; `reader`, `holds`, `ch` the goroutine of
  `NewRPC` and the event channel; `pi`, `pipe`, `conv` the process; messages are
  numbers, so that `counted` says how often each one was charged.  `drifted` records that
  a snapshot was compacted or did not parse.  `holder` is a descendant of pi that
  keeps its output open.
- `AttemptPod`.  `disp` is `Dispatch`, `pod[r]` one pod with its Job, its disk
  and its session; `store`, `ledger` and `journal` what runs leave.  The disk is
  a set of <<root, directory, content>>, the roots being those of extensions,
  harness and plugins.  A scenario is a trigger with the pool's
  environment, the fleet's configuration, Workflow, template and profile.
- `LivePage`.  `wire` is the topic, `page` one stream of `sse.go` or
  `run_graph.go`: its channel (`ch`), debounce timer, kick, ticker.  Writes are
  numbered (`rev`); `shown` is the newest the page has rendered, `announced` the
  newest that an event the hub queued for it was published after.  `Claimed` says
  whether the Attempt is a review claim's, so that the gate may settle its records
  (`RunsSettled`, the `finalizeRunningRuns` of a dead or cancelled claim).
- `AttemptJanitor`.  `jan` is the pass: the leg, what it listed and has still to
  handle.  `ctl` is what the controller's trigger has still to supersede.

## 3. Runs

All passing runs finish in less than four minutes with two workers.

| Run | Instance | What it shows |
|---|---|---|
| `claim_seq` | 1 sweeper, 2 heads, 2 pull requests, 1 Job (at most two of the three in play together, `TwoOfThree`), limits 1 | sweeps that do not overlap: no live claim carries the released marker between operations, the breaker is not outrun, a claim released as timed out leaves no run reading running, one dispatch (an intent, its Job and the edges completed for it) is charged at most once. Two pull requests at two heads include the shared head. |
| `claim_conc` | 2 sweepers in 2 pods, 1 pull request, 3 heads (the second and third only while arms supersede one another, `OneHeadOrArmsOnly`), 1 Job | what overlapping sweeps can do: one stamp is charged once; the breaker is outrun by at most one death for each other sweep; the pull request has at most as many claims on the gate's list as sweeps overlap |
| `sweep` | 1 pull request, 2 heads, Forgejo, failing reads of the pull request and its comments, failing writes, crashes, 3 moves of the forge and the runners | no head is reviewed twice, no Job for a head that was never current in the sweep, only dead runs are charged |
| `sweep_live` | 1 head, clocks and runners unbounded, 1 move of label, state or CI | a labelled green pull request is reviewed in the end or its breaker opens; superseded and closed reviews are stopped in the sweep that finds them |
| `graph_walk` | all edge subsets of two pools of six and one of four over three nodes and a dangling id; two typings for each pool, among them an external and an unregistered node; capabilities denied in the pools of six, granted in the third | the walk ends; green runs left no unhandled foreground failure; only a later gate vouches; a dead letter names the failure that ended the run; seen without its side work, a run is a run of the graph without it |
| `ledger_writes` | 2 runs, 2 nodes, windows 1 and 3, byte floor 2, 2 tries | writes are atomic; lists bounded; totals exact |
| `janitor` | 2 revisions, 1 Job, 2 wakes, gate or none | nothing reconciles for ever, nothing is kept for ever without a claim, no Job outlives its Attempt |
| `trigger` | 2 claims (the second in the behaviours of a gated webhook source without an event, `SecondClaim`), 1 revision (the one the source names), poll 2 ticks, webhook floor 1, one delivery, spec change or restart; webhook with a gate, cron and poll sources without | slots keep their distance; a generation is observed only if it was served; an armed workflow is triggered again unless a claim waits undispatched |
| `lineage` | 2 runs; two workflows on one pull request, one of them on a second; one with two agent nodes and a reserved name; an old directory and an old session; the mount absent, mounted, not mounted but writable, or refused (a read-only one is a mounted one whose copies all fail); half a carry holds one round | an agent finds no transcript but its own, and no absent store component unless a janitor removed its lineage or the file system refused the rename or the fallback; research is lost only to a janitor, to a migration onto a path nothing is mounted at, or to one whose walk passed over it uncounted: a copy that failed never loses anything; a carry nobody replaced keeps every round that fits |
| `agent_loop` | 2 fixes, 3 messages, pipe and channel of 1 | every message is charged once while snapshots parse and none is compacted; a killed gate prompts nothing; files are read after pi exited; the run ends unless a descendant of pi holds its output for ever |
| `attempt_pod` | 2 pods, fourteen scenarios (review with profile, tool budget and plugins, template, fleet mounts, a plugin or a ConfigMap the fleet names twice, parallel runs, a gated fork, an ungated review, misnamed, tagged and colliding declarations, a tagged harness, by hand), 2 faults, 1 edit | sessions load the declared set, hold no forbidden credential and are about the pull request the gate accepted or the trigger named; only the fleet's mounts make the API server refuse a Job after its intent; a page that could read the store shows each boundary once, and one that could not shows none |
| `live_page` | 2 runs, one by a worker that names no attempt; channel and wire of 1, 1 fault; graph page and wall | what was announced is shown or woken for; a page whose ticker runs does not show a run in flight for ever once every run that is over has its outcome recorded |

Why the bounds are enough to be interesting: two heads and two pull requests
give every relation between a claim and its pointer; limits of one make breaker
and budget reachable; two sweepers are the smallest overlap, and
`BreakerOvershoot` is stated in the number of sweepers, so that it says more
than "two"; three moves of the forge and the runners let a head be labelled,
pushed over and reviewed while calls fail; three nodes hold a feedback loop with
a side exit; windows of one and a byte floor below the number of envelopes make every
kind of compaction happen; two wakes make two Attempts meet, or one Attempt be
taken up again; a poll of two ticks and a floor of one separate the three
cadences, and any number of runs may end between two polls, while the proofs
cover all intervals and any number of events.  A pipe and
a channel of one make every party of the agent session block on the next; three
messages are two turns with a conversation sent again; two runs are the smallest
overlap on an actor, a volume or a page; three heads are the smallest number that
could exceed the two claims of two sweeps.  No step that fairness is about leads
out of `SecondClaim`, so that bound hides no behaviour from `ArmedSwept`.  In
`live_page` nothing forces the gate to settle a record, so that its behaviours
include those of an Attempt without a claim.  In `ledger_writes` the set
of references is empty (the evidence list is exercised by `EvidenceTotalExact`,
see section 6); in `janitor` the rolling target is not among the objectives (it
is never superseded).

`CHECK_DEADLOCK FALSE` is set where the system may stop: no sweep is running and
every bound is used up, the walk is over, all workers are done, the page is
closed.

### Fairness

- `GateSweep`: a sweep that is running goes on (WF `SweepStep`: it runs to its
  deadline), a workflow is polled again and again (SF `Poll`: the controller
  requeues at the poll interval), clocks advance (WF on the three clocks), a
  runner ends (WF `RunnerEnds`: activeDeadlineSeconds), and a runner that is
  started again and again posts its verdict once (SF `RunnerPosts`).  Nothing
  is assumed of webhooks.
- `TriggerSlot`: time passes, the informer delivers, and a reconcile that has
  begun goes on (WF); a reconcile begins while the cached copy is due, for every
  return of `Reconcile` carries a `RequeueAfter` (WF).  SF for winning a slot
  that is free again and again whatever the list of Attempts shows (the agent
  profile does not refuse for ever, and the retries on conflict do not always
  end before the cache is current) and for publishing (not every publish
  fails).  Nothing is assumed of webhooks, worker pool, backoff loop or runs.
- `AgentLoop`: the loop and the reader are goroutines (WF), a process whose
  input is closed exits once it can write its last output (WF `PiExits`), the
  deadline of the run comes (WF: `runTimeout`, main.go:971-989, 1800 s unless
  set) and kills pi (WF: exec.CommandContext).  Nothing is assumed of pi's
  turns, its descendants or the gate.
- `LivePage`: a worker that has begun goes on or dies (WF), the first paint of an
  open page is sent (WF), and a ticker that fires again and again is served (SF: `select` chooses
  among the ready cases at random).  Nothing is assumed of events, which may all
  be lost, nor of the settling of records that dead workers left running.
- `GraphExecutor`: WF `Next`, one goroutine under a context deadline.
- `AttemptJanitor`: the ticker starts pass after pass (WF `JanitorStep`), time
  passes (WF `Ages`), and a delete or phase patch that is tried again and again
  succeeds once (SF).  The reaper's release may fail for ever, runners may hang
  for ever, the gate may never sweep again.

## 4. Proofs

- `ReviewClaim_proofs!TypeCorrect`: `Spec => []TypeOK` for any sets of heads,
  pull requests, Jobs, pods and sweepers.  One lemma for each ledger mutation
  (it keeps an `Attempt` an `Attempt`), one step for each action.
- `ReviewClaim_proofs!StampChargedOnce`: `OneChargePerStamp` for any number of
  overlapping sweeps: between two deaths charged to a head its claim was stamped
  as dispatched.  The idempotence of `ReleaseClaimDead` and the reset of the
  dispatch stamp in `ArmClaim` are the facts it rests on.
- `ReviewClaim_proofs!ChargedOnceSequential`: `OneChargePerDispatch` for sweeps
  that do not overlap: between two deaths charged to a head a new dispatch was
  begun.  The edge of the old one does not count, although it stamps the claim as
  well.  `IntentInv` says that a claim that could be charged, a head whose Job is
  alive and a sweep past its intent stand on an intent no death was charged for,
  and that a charge is written only when no Job of the head is alive.  Section 6
  says what overlap does to it.
- `ReviewClaim_proofs!LiveClaimsBoundedBySweeps`: `LiveClaimsBounded` for any
  finite number of sweeps and any number of heads of a pull request (one that
  shares no head with another).  `OwnerInv` gives each claim on the gate's list a
  sweep of its own: a sweep that arms has seen every claim it owns and releases
  it before it writes the next.
- `ReviewClaim_proofs!OvershootBounded`: `BreakerOvershoot` for any finite
  number of overlapping sweeps.  A sweep that has read the breaker as closed may
  still arm, and a claim that is dispatched may still die; `BreakerInv` says that
  the deaths charged, the claim that may die next and the sweeps past the test
  (`Holders`) fit into the limit and the number of sweeps (`Room`).  Its five
  kinds of change are lemmas about cardinalities (`RoomSteps`), and each action
  is one of them.  `BreakerSequential` is the case of one sweep.
- `OneLiveSequential` and `NoInvisibleSequential` assume that there is one sweep
  at a time (`\A s, t \in Sweeper : s = t`), which section 6 shows they need; the
  sweep may fail at any call and crash anywhere.  Neither is inductive: a sweep
  in the middle of an arm has released every other claim of its pull request in
  the order of its list, and has taken the marker off before the claim is
  written (`ArmInv`).  `DeadEraSequential` needs that no Job of the head is left
  that could still open a run record when the release is written, and that no
  sweep dispatches for a claim that is released (`SweepEra`).
- `GraphExecutor_proofs!DeadLetterContract` and `TrustBoundary`, for every graph.
  Neither is inductive alone: `Progress` says that a run still walking has
  published nothing but its start, `Records` gives the types of the recorded
  results and claims that the trust boundary is checked on.
- `GraphExecutor_proofs!GreenIsEarned`: `GreenRunHandled` for every graph.  The
  invariant is `FollowInv`: in a run that is still green every foreground
  failure was followed by a successor that ran or is display-only, or is owed
  one by the queue.  That an edge which may be traversed is in the list that is
  enqueued is a fact about ranks in a finite set of indices (`RankApart` and the
  lemmas after it).
- `Records_proofs!AtomicWrites`: `Spec => AtomicSpec`, the refinement of
  `RunLedger` to `AtomicLedger`, for any number of workers, windows and retries.
  The invariant is `CopiesHonest`: a copy held by a write in progress is not
  newer than the object, and if its version is the object's then so is its
  status.  Without it a patch whose precondition holds could still be based on
  another status.
- `Records_proofs!TotalsAreExact`: `TotalsExact`, for any number of runs and
  nodes, any windows and any floor.  `LedgerInv` adds to `CopiesHonest` that a
  list names a run or an attempt of a node once (`Distinct`), that a write in
  progress is about the run that makes it (`AboutRun`), and that what was
  recorded and is no longer kept belongs to runs that are over and was counted
  (`Counted`).  The sums and compactions are recursive functions over lists of
  any length; what they compute is proved by induction over the set of lengths
  for which their equation has a solution (`UpTo`, `Solvable`, `Iterated`).
  `LedgerTypes` is the module's type invariant.
- `GateSweep_proofs`, for any heads, pull requests and bounds and either forge:
  `StoppedInTime` (`CancelledSameSweep`), `OnlyDeathsCharged` (`DeathIsFact`),
  `HeadsReviewedOnce` (`ReviewedOnce`) and `OnlyCurrentHeads` (`HeadPinned`),
  all from `SweepInv`: the claims a sweep listed still exist, and those its first
  section is done with are shielded from the never-dispatched pass or released
  (`Looked`); its list of Jobs misses no Job that is alive (`Surveyed`), so a
  claim found without a Job has none; a head it accepted was current in this
  sweep and unreviewed when it was read (`Aimed`).
- `TriggerSlot_proofs!CadenceKept`, for any intervals, claims and number of
  events.  The invariant is `Anchored`: LastRunAt is at least as recent as the
  last slot won, and a run that ended after LastRunAt ended after that slot;
  with the part of `TypeOK` that a copy marked as current is the current one, it
  turns the cooldown tested on a cached copy into a distance between slots.
  `GenerationServed` needs that a reconcile past its slot was counted for the
  generation it read; `TypeCorrect` that the generation counts spec changes.
- `Records_proofs!ShownOrWoken`: `AnnouncedIsShown` for any number of runs and
  any buffer sizes.  It is inductive with the types and `Sound` (an event, on
  the wire or announced, is no newer than the last write, so that a render shows
  all that was announced).  The steps that matter are the dropped event (the
  channel is full, so a wake is under way) and the re-armed timer.
- `SessionLineage_proofs!RoundsStartFresh`: `FreshSession` for any runs,
  workflows, pull requests and agent nodes.  The strengthening is that runs under
  way have a lineage each (`Apart`), that a lineage is empty whenever its run is
  about to spawn, and that from a spawn to its upload it holds that spawn's
  transcript or none (`CleanOf`): the upload removes the newest file, which is
  then the only one.
- `SessionLineage_proofs!ComponentIsThere`: `LinkDiscipline`, from `LinkInv`.
  After its link a run finds its component there, or is on record as one whose
  lineage was removed or whose rename or fallback was refused (`LinkOf`).
  `ResearchSurvives`: `ResearchKept`, an action property; every step but the
  removal and the migration leaves stores and directories at least what they were
  (`KeepsAll`), and a migration, whatever it copied, failed at or passed over,
  removes only what it copied or passed over (`MigrationKeeps`).
  `TraceGrows`: `RoundsKept`; `CarryInv` says that the carry a run fetched is
  still the actor's unless the run is in `stale`.
- `AgentLoop_proofs!GateKillsStayOut` and `FilesAfterExit`, from `Uncut` and
  `Waited`: where the loop stands after a gate that was cut short, and after
  `Wait`.  `LoopIsBounded` relates the counts of prompts and gates to where the
  loop stands (`Counted`).
- `AgentLoop_proofs!UsageIsExact`: `UsageExact` for any number of turns and
  messages and any buffer sizes, while snapshots parse and are not compacted.
  The invariant `UsageInv` treats the channel, the reader's hand and the pipe as one stream (`Flow`): the events in it are
  those of the current turn in pi's order (`Streamed`), messages are numbered by
  their place in the conversation (`Numbered`), the loop's mark is where the last
  turn ended (`Rested`), and a message with tokens is charged or its event is still
  in the stream (`Ledgered`).
- `AttemptPod_proofs!SessionHasNoBot` and `PostingIsForReviews` are about the
  operators of `RunEnv`, for any environment.  The rest is about `AttemptPod`,
  for any number of runs, any Workflow, template, profile, pool and trigger, and
  starts from a lemma for each action that says what it leaves alone.
  - `EachBoundaryOnce`: `BoundaryOnce`, from `EvidenceInv`: the store holds at most
    one event of a kind for a run (`OneEach`), written in the stage of the run
    that writes it (`InStage`), and a record that has an instant is listed
    (`ListedFirst`).  A row then comes from the timeline or from the ledger that
    fills in for it, never from both (`OneRow`).  A page whose read of the store
    failed, or that has no reader, shows no boundary.
  - `DeclaredIsLoaded`: `DeclaredSetLoaded`, from `RuntimeInv`: what the init
    container has unpacked is a prefix of the manifest, all of it once the run
    has started, and torn only in a pod that fails (`RuntimeOf`); the lists the
    manifest is composed of are lists (`Declarations`).
  - `SessionsAreSafe` and `IdentityIsKept`: `SessionEnvSafe` and `IdentityKept`,
    from `RuntimeInv` and `EnvInv`: a process holds the environment its Job was
    built with or its shell gave it, and what that says of credentials, tool
    budget and pull request was settled when the Job was built (`EnvOf`, with
    `Credited` and `Traced`).
  - `OnlyTheFleetIsRefused`: `RejectedByFleetOnly`, from `RefusedInv`: the spec of
    a dispatch under way passed validation.  Validation compares cleaned paths,
    and a path the builder or a plugin mounts cleans to one with a reserved
    prefix, which no attachment of a valid spec has; what is left to collide is
    of the fleet (`AttachedApart`, `CollisionIsFleets`).

Assumptions: the named `ASSUME`s of the modules, evaluated by TLC on every run.
Most are distinct null values and limits that are naturals.  `ManifestAssumption`
says that lists are lists.  `TriggerAssumption` says of a
trigger that it names its pull request as a whole pointer or not at all
(main.go:1037), and of a run by hand that no gate accepted anything for it, that
it is about the pull request its shell names, and that its shell does not carry
the mark of a dispatched Job, which only the dispatcher writes (main.go:1031,
dispatch.go:960).

Only model-checked: liveness (`EventuallyReviewed`, `EventuallyCollected`,
`NoStrandedJob`, `Terminates`, `ArmedSwept`, `RunEnds`, `Converges`), which is out
of the prover's reach; `ForegroundAlone`, a refinement whose mapping filters
sequences, and which needs that the iteration valve is not reached (it holds for
the graphs and the limit of the run, not for every `MaxIterations`); the type
invariants of `GateSweep` and of the other modules whose proofs do not need all
of it.

## 5. Notes on the models

- The never-dispatched pass of the gate charges a lost dispatch to a queued claim
  that the first section left neither released nor shielded.  The model has the
  pass, but the section leaves none: it shields also the claims whose evaluation
  failed (section 6).
- `ForegroundAlone` holds for graphs with a foreground entry, no edge from a
  foreground failure into side work, and no background gate with a validation
  scope.  Side work also shares the iteration budget with the foreground; the
  refinement counts foreground iterations only.
- Forgejo's label events carry no direction; `Granular` selects that variant.
- `TriggerSlot`: a reconcile may begin at any time, which covers every event
  that queues one; the topic is a flag (a second event of the same workflow
  starts the same sweep); a cron's activations are arbitrary instants and an
  expression that does not parse is never due; `listed` may be any set of
  claims, which covers the lag of the list of Attempts; there is one controller
  replica.  The aggregates of a sweep and the status of a run are assumed to be
  written (a failed write keeps the older values, which a sweep or run that
  never happened would leave as well).  While a claim waits undispatched, runs of
  the others may stamp LastRunAt more often than once a poll, and the slot need
  never be free; `armedBackoffLoop`, of which nothing is assumed, is then what
  sweeps the workflow, and `ArmedSwept` leaves this case out.  A gate is modelled for the webhook
  source only, the only kind that has no schedule to fall back on.
- `SessionLineage`: runs of one workflow on one pull request follow one another
  (`OneLivePerPR`, which overlapping sweeps can break).  A janitor looks at a lineage and removes it in two steps; a
  lineage goes quiet whenever nobody writes to it.  The file operations of
  linking and migrating may fail one by one; `ResetLineage` is assumed to remove
  what it matches (a failure there is only logged).
- `AgentLoop`: pi either ends each assistant message with an event of its own or
  reports them with the turn's snapshot (`shape`).  `UsageExact` is stated for
  conversations that were not compacted and whose snapshots parse; section 6 says
  what compaction does, and after a snapshot that does not parse (rpc.go:515-519)
  the next one charges its messages again.
- `AttemptPod`: the network is a fetch that succeeds, fails before or fails after
  writing something.  Edits, failures, deleted Jobs and deaths share one budget
  (`MaxFaults`).  The state store's TTL may expire any prefix of the timeline.
- `GraphExecutor`: the state, publish and deploy nodes (node.go:227-232) have no
  type of their own; what they return, plugins and external nodes return as well.
- `LivePage`: an event names its attempt, another one or none.  `Converges` is
  about pages whose ticker runs (section 6 says when it does not) and about
  records that are not left running: nobody settles those of an Attempt without a
  claim, of a consumed claim (claim.go:385-428) or of a reaped one
  (lifecycle.go:573), and the page goes on showing them.  A record is settled
  after its worker is gone; the grace period of a cancelled Job is left out.
- A List that fails puts a leg of the janitor off to the next pass; it is left
  out of `AttemptJanitor`.

## 6. Where comments and code disagree

For each of these the module states the comment's claim under the name given, and
TLC refutes it on a small instance of the cfgs above with that property
(overlapping sweeps for the `ReviewClaim` ones; the rolling Attempt with two Jobs
and no gate for `LiveWorkSpared`).  They are records of what was met while modelling and have no
run: the runs check what does hold.

| Property | Comment | Code |
|---|---|---|
| `LiveWorkSpared` | janitor.go:163 "Non-terminal attempts keep their Jobs regardless: live work is never touched here" | without a review gate, a later run of an ended Attempt does not change the phase until it reports; the edge leg deletes its Job |
| `WakeNeverErased` | workflow_controller.go:143 "a genuine human re-request is never swallowed" | the clear deletes the annotations of a later read than the one that was published |
| `OneLivePerPR` under overlap | claim.go:57 "one live claim per PR is the invariant that makes parallel reviews safe" | each arm supersedes what it listed before it committed; what holds is `LiveClaimsBounded` |
| `OneChargePerDispatch` under overlap | claim.go:447 "a death discovered by both must count once" | a sweep charges the death of a Job whose edge is not yet recorded and arms the claim again; the other sweep's edge (claim.go:353-362, unconditional) then stamps the new era, and the same dead Job is charged once more; what holds is `OneChargePerStamp` |
| `RetentionBounds` | lifecycle.go:468 "GC is the documented moment that ledger ends - 30d of history, not forever" | dispatching a "claimless attempt" (dispatch.go:623) creates an unreleased `status.review` on it, nobody releases it, and GC keeps what is claimed; for the same reason the supersession rule skips it |
| `ReapedIsLost` | lifecycle.go:531 "the run has no Job, no verdict, no terminal state" | the reaper tests the age of the object, not of the run |
| `EvidenceTotalExact` | attempt_types.go:178 "Total ever = len(Evidence) + CompactedEvidence" | `appendUniqueEvidence` looks for duplicates in the kept tail only |
| `NoInvisibleClaim` under overlap | claim.go:207 "committed-but-invisible arm" is excluded | a release whose status came before the arm stamps its marker after it |
| `AbandonDestroysNoClaim` | claim.go:308 "The object carries nothing - no claim, no run, no ledger" | another sweep may have armed it |
| `CancelSparesLive` | sweep.go:110 "The pass never cancels a live claim" | the cancel pass acts on an older list |
| `EvidenceNotInherited` | claim.go:269 "a pointer change must not inherit the first pointer's churn evidence" | `DismissedAt` is kept |
| `ConsumedReadsValidated` | claim.go:406, a consumed verdict must not leave the attempt reconciling | the run's outcome overwrites the phase |
| `DedupeRecordsDispatch` | dispatch.go:660 "re-stamp the edge with the live Job's name. Idempotent." | an edge of an older Job is left, and a claim armed again stays undispatched |
| `WithinCapacity` | reviewready.go:179 "MaxConcurrent bounds this workflow's live claims" | queued claims hold no slot and are dispatched without asking for one |
| `OwnVerdictConsumes` | review.go:244 "an OLD verdict cannot fall inside a fresh request's window" | one posted at the previous head within the slack does |
| `SupersedeNeedsMove` | sweep.go:979 "head moved since the claim armed" | a late wake for an older head supersedes too |
| `QueuedDispatchesOnGreen` | review.go:1231 "an armed claim dispatches on CI green regardless of the label" | the label is tested first |
| `FailedRunsLettered` | executor.go:80 "DeadLetterEvent is published when a pipeline fails" | the iteration valve and an unknown node publish nothing |
| `FailureNeedsHandler` | executor.go:290 "a node failure no when:failed edge handles" | an `unchanged` edge handles it as well |
| `ExceededRetriesFail` | executor.go:717 "Returns false (and sets the pipeline to failed) if maxRetries is exceeded" | nothing is set and the green path goes on |
| `SideFailureLettered` | graph_types.go:77 "its failure is recorded (envelope, lifecycle, dead-letter)" | no dead letter for side work |
| `EmptyWhenAlways` | graph_types.go:136 "Empty means always traverse (sequential)." | empty means green |

Met without a property that states the comment.  attempt_trigger.go:33 says that
a completion that is missed "is re-covered by the armed poll carve-out"; the sweep
that dispatches writes `LiveClaims` before its own dispatch, so the carve-out does
not see that review, and the worker stamps LastRunAt just before it records the
end, so an end in the same second is not after it.  sweep.go:756-760 and 810-826,
reviewready.go:119-124 and sweep_multiarm_test.go:565-568 say that a claim armed
and never dispatched is released as dispatch-lost past its grace; the first
section of the same sweep has then released it for another reason, queued it for
dispatch again or shielded it after a failed evaluation, so that pass finds none.

Smaller ones: lifecycle.go:123 says the tail always contains
every in-flight run, which the window does not ensure; the byte budget gives way
to its floor; a phase-less Attempt older than a day is collected although runs
may be recorded on it; webhook.go:343 deletes the pull-request pointer for a CI
wake so that no event carries both, but the delete is not in the merge patch
when the handler's copy had no pointer and another handler sets one meanwhile;
the collector runs before the edge leg and may delete the
only record of a Job; `NodeSpec.When` is never read; a registry miss consults no
edges.

Met in the agent session and the session store, and built into the models:

- Every worker's janitor may prune a lineage that is in use
  (sessions_janitor.go:12-15): the age is that of its newest file.
- A directory at the link's path without a marker is honored for ever
  (sessionstore.go:347); `stampFallback` also marks one that is older than the
  store (360-367); a migration onto a path nothing is mounted at succeeds and its
  result goes with the pod.  "Migration must be ALL-OR-NOTHING on the delete"
  (488), but what the walk cannot read is passed over without being counted
  (576-582), so the counts agree and `RemoveAll` (507) deletes it uncopied.
- A rename that fails (539-545) is not followed by the fallback, and the fallback
  ignores its own errors (566-567): the component is then absent while the agent
  runs, and the directory the extension makes there has no marker.
- main.go:680-683 says that publishing through the actor makes concurrent reviews
  "serialize instead of racing"; the carry is fetched at the start and published
  at the end, so overlapping reviews lose a round.  A second agent node overwrites
  the first one's, a failed fetch drops the history, and a failed state read in
  the actor restarts the generation at 1 (actor.go:123; sessionstore.go:129
  calls it monotonic).
- `ExtractCarry`'s cap is overrun by its own marker (carry.go:26-29).
- After a compaction the mark into the conversation (rpc.go:520-528) is past or
  before the new messages: usage is counted short or twice.
- The guard against empty completions does not fire for a turn reported by its
  snapshot only (agent.go:202 against rpc.go:481-486); a pi that crashes in the
  middle of a turn ends the turn without an error (rpc.go:262-267); the usage of
  a loop that failed is dropped; an agent node without a gate dereferences nil
  (agent_executor.go:109); a descendant that holds stderr blocks `Abort`.

Met between the dispatch and the records:

- SIGTERM cancels the context that the last writes use, so the record of a
  deleted Job stays at running (main.go:266, 826-865).
- The journal's byte cap keeps the newest entry only, where research.go:60 says
  "drop oldest until it fits" (38: "dropping OLDEST first"); a failed read
  followed by a good save wipes it.
- event_timeline.go:94 announces "showing ledger facts only" when the store cannot
  be read, but that page shows no start or end of a run, which the ledger has.
- A gate's timeline writer starts again at 1 (timeline.go:113-119), the
  dispatcher's has no attempt (dispatch.go:609-610), and a reader stops at a
  batch that is missing as a whole.
- `HARMOSTES_RUN_NAME` is read and never set (main.go:946-952);
  `ValidateNPMSpec` takes any version that begins with "v" (extensions.go:82);
  `ValidateRepoWikiConfig` does not see the template; a run that skips leaves by
  `os.Exit` past `finish` (main.go:353); `ExtraConfigMapMounts` are not validated
  (dispatch.go:555-570); an extension is unpacked under its package's name and
  looked for under its pin's; a profile's entry that names one extension twice is
  shadowed by the last.
- `RunInitRuntime` leaves the entries it had fetched before a failure; what keeps
  a session from them is that the pod fails (`DeclaredSetLoaded`).

Met in the live pages: a record that a dead worker left running is settled only
with a dead or cancelled claim (claim.go:469, 538), so other pages show it in
flight for as long as they are open; the second run of an Attempt paints no running node; the
ticker that run_graph.go:588-592 calls "the convergence net" stops for good once
a tick finds the last render settled, also when that render came before a run.

## 7. Not modelled, and why

- The shapes of webhook events and their merge patches, and the template landing:
  parsing; a delivery enters as the wake it leaves (`TriggerSlot`, `GateSweep`).
- The folding of comments, label events and CI contexts by the forge clients
  (`review.go` 600-1060): parsing and paging; `ReviewEvaluate` takes its result,
  with failing reads, as given.
- What the executors of single nodes do outside the process (plugins, deploys,
  dapr calls): they enter by the results they can return.
- The template history and the conditions and metrics of the controller: written
  for people, read by no other part.
- The derivation of rows and cards of the user interface from the ledgers, and
  rendering: functions of one snapshot without state of their own.
- The CRD schema walker, the chart, the plugins and the tools: build time.
- Transport (dapr client, forge HTTP, registries): a call succeeds or fails in the
  modules that make it.
- Message texts and timestamps, other than as ages.

Theorems that remain: `GateSweep`'s type invariant and `ForegroundAlone`.
