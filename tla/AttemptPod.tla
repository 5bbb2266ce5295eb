----------------------------- MODULE AttemptPod -----------------------------
(***************************************************************************)
(* One Attempt from its dispatch to the evidence of its runs: the          *)
(* dispatcher composes a Job, the pod's init container materializes the    *)
(* runtime, the worker's run command checks it, spawns the session and     *)
(* writes what happened into the state store, the ledger and the research  *)
(* journal. Specs and the profile may change at any time, calls fail, a    *)
(* Job is deleted under its pod (SIGTERM cancels the context every later   *)
(* call uses) and a pod may die between any two steps. The run command can *)
(* also be started by hand, with the whole environment of its host; it     *)
(* then asks the gate itself.                                              *)
(***************************************************************************)
EXTENDS AttemptJob, RunEvidence

CONSTANTS
    Runs,       \* the pods of the Workflow, each its own run
    Scenarios,  \* [pool, fleet, cr, profile, req, envelope, head, rig, byHand, parallel]
    Specs,      \* what a Workflow may be edited to
    Profiles,   \* what the AgentProfile may be edited to
    OldJournal, \* the journal as earlier runs of the workflow left it
    MaxEvents,  \* timeline events of a run besides its two boundaries
    MaxFaults,  \* failed calls, deleted Jobs, killed pods and edits, together
    MaxEdits    \* edits of Workflow or profile

IsList(x) == x \in Seq(Range(x))

\* What a Workflow, its template and a profile pin is a list.
Pinning(spec) == "extensions" \in DOMAIN spec /\ IsList(spec.extensions)

ASSUME ManifestAssumption ==
    /\ \A c \in Specs \cup {s.cr : s \in Scenarios} :
           Pinning(c.own) /\ (c.tmpl # Empty => Pinning(c.tmpl[1]))
    /\ \A p \in Profiles \cup {s.profile : s \in Scenarios} :
           p # Empty => IsList(p[1].extensions)

\* A trigger names its pull request as a whole pointer or not at all. A run by
\* hand is about the one its shell names, in either shape; what marks a Job,
\* the dispatcher alone writes.
ASSUME TriggerAssumption ==
    \A s \in Scenarios :
        /\ s.req.pr = Empty \/ s.req.pr = <<s.req.pr[1], s.req.pr[2]>>
        /\ s.byHand =>
               /\ s.envelope = Empty
               /\ s.req.pr = wakeFromEnv(s.pool).pr
               /\ Getenv(s.pool, "HARMOSTES_DISPATCHED_ATTEMPT") = Empty

VARIABLES
    sc,         \* the trigger: its scenario
    cr,         \* the Workflow and its template, as they are now
    profile,    \* the AgentProfile, as it is now
    disp,       \* the dispatcher: [pc, spec, pins, harness]
    rejected,   \* the mounts of a Job the apiserver refused after its intent
    pod,        \* [Runs -> the pod's record]
    store,      \* the timeline
    ledger,     \* the Attempt's run records
    journal,    \* the research journal
    faults,
    edits

vars == <<sc, cr, profile, disp, rejected, pod, store, ledger, journal, faults, edits>>
world == <<sc, cr, profile, edits>>
evidence == <<store, ledger, journal>>

Attempt == "attempt"
Workflow == "workflow"

NoJob == [env |-> NoEnv, mounts |-> Empty, pins |-> Empty, harness |-> Empty,
          refs |-> Empty, aggregate |-> FALSE]

NoPod == [pc |-> "none", job |-> NoJob, live |-> FALSE, cancelled |-> FALSE,
          done |-> 0, disk |-> {}, seq |-> 0, read |-> Empty, session |-> Empty]

Idle == [pc |-> "idle", spec |-> Empty, pins |-> Empty, harness |-> Empty]

Init ==
    /\ sc \in Scenarios
    /\ cr = sc.cr
    /\ profile = sc.profile
    /\ disp = Idle
    /\ rejected = Empty
    /\ pod = [r \in Runs |-> NoPod]
    /\ store = {}
    /\ ledger = [r \in Runs |-> [listed |-> FALSE, started |-> FALSE, ended |-> FALSE]]
    /\ journal = OldJournal
    /\ faults = 0
    /\ edits = 0

-----------------------------------------------------------------------------
\* A call fails: the caller's error path is the step.
Fault == faults < MaxFaults /\ faults' = faults + 1

\* Operators edit the Workflow, its template or the AgentProfile a run names.
Edit ==
    /\ edits < MaxEdits
    /\ edits' = edits + 1
    /\ Fault
    /\ \/ cr' \in Specs /\ UNCHANGED profile
       \/ /\ Getenv(sc.pool, "HARMOSTES_AGENT_PROFILE") # Empty
          /\ profile' \in Profiles
          /\ UNCHANGED cr
    /\ UNCHANGED <<sc, disp, rejected, pod>> /\ UNCHANGED evidence

ProfileOf(env) == IF Getenv(env, "HARMOSTES_AGENT_PROFILE") = Empty THEN Empty ELSE profile

\* A profile the environment names and nobody wrote.
ProfileMissing(env) == Getenv(env, "HARMOSTES_AGENT_PROFILE") # Empty /\ profile = Empty

-----------------------------------------------------------------------------
\* Dispatch: the merged spec is read once and checked before the gate is
\* asked or anything recorded; an Attempt with a live Job is left alone. In a
\* parallel scenario the runs are of two Attempts of the Workflow.
Dispatch ==
    /\ ~sc.byHand
    /\ disp.pc = "idle"
    /\ rejected = Empty
    /\ \E r \in Runs : pod[r].pc = "none"
    /\ sc.parallel \/ \A r \in Runs : ~pod[r].live
    /\ DispatchConfigFromEnv(sc.fleet).ok
    /\ ValidSpec(FetchWorkflow(cr), Workflow)
    /\ FetchWorkflow(cr).reviewReady # Empty => sc.envelope # Empty
    /\ disp' = [Idle EXCEPT !.pc = "compose", !.spec = FetchWorkflow(cr)]
    /\ UNCHANGED <<rejected, pod, faults>> /\ UNCHANGED world /\ UNCHANGED evidence

\* The profile is read after the Workflow; a malformed pin refuses here.
Compose ==
    /\ disp.pc = "compose"
    /\ LET rt == composeRuntime(ProfileOf(sc.pool), disp.spec)
       IN disp' = IF ~ProfileMissing(sc.pool) /\ rt.ok
                  THEN [disp EXCEPT !.pc = "create", !.pins = rt.pins, !.harness = rt.harness]
                  ELSE Idle
    /\ UNCHANGED <<rejected, pod, faults>> /\ UNCHANGED world /\ UNCHANGED evidence

\* The gate's envelope; a Workflow without a gate has none.
Envelope == IF disp.spec.reviewReady # Empty THEN sc.envelope ELSE Empty

JobParams ==
    [workflow |-> Workflow, attempt |-> Attempt, spec |-> disp.spec,
     repo |-> IF Envelope = Empty THEN Empty ELSE <<Envelope[1].repo>>,
     fleet |-> DispatchConfigFromEnv(sc.fleet),
     pins |-> disp.pins, harness |-> disp.harness,
     extraEnv |-> Appended(
         jobCredentialEnv(sc.pool, disp.spec.toolBudget, DeriveKind(disp.spec) = "pr-review"),
         dispatchEnv(sc.req, Attempt, Envelope))]

\* Intent, then the Job: the apiserver may refuse it, or the call fail.
Create(r) ==
    /\ disp.pc = "create"
    /\ pod[r].pc = "none"
    /\ disp' = Idle
    /\ LET job == BuildJob(JobParams)
           accepted == Accepted(job.mounts, JobParams.fleet) IN
       \/ /\ accepted
          /\ pod' = [pod EXCEPT ![r] = [NoPod EXCEPT !.pc = "init", !.job = job,
                                                     !.live = TRUE]]
          /\ UNCHANGED <<rejected, faults>>
       \/ /\ ~accepted
          /\ rejected' = <<job.mounts>>
          /\ UNCHANGED <<pod, faults>>
       \/ /\ Fault
          /\ UNCHANGED <<rejected, pod>>
    /\ UNCHANGED world /\ UNCHANGED evidence

\* The run command from a shell: the host's environment as it is.
RunByHand(r) ==
    /\ sc.byHand
    /\ pod[r].pc = "none"
    /\ sc.parallel \/ \A q \in Runs : ~pod[q].live
    /\ pod' = [pod EXCEPT ![r] = [NoPod EXCEPT !.pc = "start", !.live = TRUE,
                                               !.job.env = sc.pool]]
    /\ UNCHANGED <<disp, rejected, faults>> /\ UNCHANGED world /\ UNCHANGED evidence

-----------------------------------------------------------------------------
Dead(r) == [pod EXCEPT ![r].pc = "dead", ![r].live = FALSE]

Unpacked(r, pin, content) ==
    [pod EXCEPT ![r].disk = @ \cup {<<"extensions", pin.pkg, content>>}, ![r].done = @ + 1]

\* A failed entry is skipped and the rest materialized.
InitFailedSkips(r, pin) == [pod EXCEPT ![r].done = @ + 1]

\* A failed entry refuses the whole init, and with it the pod.
InitFailed(r, pin) == Dead(r)

\* The pins in the manifest's order: packument, integrity, tarball, hash,
\* extraction under the package's name. A failed extraction leaves a torn
\* directory; a version no packument has never resolves.
InitPin(r) ==
    /\ pod[r].pc = "init"
    /\ pod[r].done < Len(pod[r].job.pins)
    /\ LET pin == pod[r].job.pins[pod[r].done + 1] IN
       \/ /\ pin.kind = "exact"
          /\ pod' = Unpacked(r, pin, pin.ver)
          /\ UNCHANGED faults
       \/ /\ pin.kind = "vtag"
          /\ pod' = InitFailed(r, pin)
          /\ UNCHANGED faults
       \/ /\ Fault
          /\ \/ pod' = InitFailed(r, pin)
             \/ pod' = [InitFailed(r, pin) EXCEPT
                            ![r].disk = @ \cup {<<"extensions", pin.pkg, "torn">>}]
    /\ UNCHANGED <<disp, rejected>> /\ UNCHANGED world /\ UNCHANGED evidence

\* Harness, labelled plugins, named plugins, skills: each may fail the pod. A
\* harness is fetched as a pin is.
InitRest(r) ==
    /\ pod[r].pc = "init"
    /\ pod[r].done = Len(pod[r].job.pins)
    /\ \/ /\ \A h \in Range(pod[r].job.harness) : h.kind = "exact"
          /\ pod' = [pod EXCEPT ![r].pc = "start",
                     ![r].disk = @ \cup {<<"harness", "pi", h.ver>> : h \in Range(pod[r].job.harness)}
                                   \cup {<<"plugins", cm, "scripts">> : cm \in Range(pod[r].job.refs)}]
          /\ UNCHANGED faults
       \/ /\ \E h \in Range(pod[r].job.harness) : h.kind = "vtag"
          /\ pod' = Dead(r)
          /\ UNCHANGED faults
       \/ Fault /\ pod' = Dead(r)
    /\ UNCHANGED <<disp, rejected>> /\ UNCHANGED world /\ UNCHANGED evidence

-----------------------------------------------------------------------------
Dispatched(r) == Getenv(pod[r].job.env, "HARMOSTES_DISPATCHED_ATTEMPT") # Empty

\* A call on a cancelled context does not arrive.
Arrives(r) == ~pod[r].cancelled

HasAttempt(r) == Getenv(pod[r].job.env, "HARMOSTES_ATTEMPT") # Empty

\* The sidecar guard, then the Workflow as it is now, then the gate, which
\* only a run that was not dispatched asks: it hands out an envelope for the
\* wake's pull request, or the run ends as skipped.
Start(r) ==
    /\ pod[r].pc = "start"
    /\ LET gated == FetchWorkflow(cr).reviewReady # Empty /\ ~Dispatched(r) IN
       \/ /\ ~gated
          /\ pod' = [pod EXCEPT ![r].pc = "pin"]
          /\ UNCHANGED <<faults, ledger>>
       \/ /\ gated
          /\ IsPointer(wakeFromEnv(pod[r].job.env).pr)
          /\ LET wake == wakeFromEnv(pod[r].job.env)
             IN pod' = [pod EXCEPT ![r].pc = "pin",
                    ![r].job.env = Appended(Appended(@,
                        EnvelopeEnv([repo |-> wake.pr[1], pr |-> wake.pr[2],
                                     sha |-> sc.head])),
                        Set("HARMOSTES_ATTEMPT", <<Attempt>>))]
          /\ UNCHANGED <<faults, ledger>>
       \/ /\ gated
          /\ pod' = [pod EXCEPT ![r].pc = "skipped", ![r].live = FALSE]
          /\ ledger' = IF HasAttempt(r) /\ Arrives(r)
                       THEN [ledger EXCEPT ![r].listed = TRUE, ![r].ended = TRUE]
                       ELSE ledger
          /\ UNCHANGED faults
       \/ Fault /\ pod' = Dead(r) /\ UNCHANGED ledger
    /\ UNCHANGED <<disp, rejected, store, journal>> /\ UNCHANGED world

\* consumeMaterializedRuntime: every declared directory is there.
Materialized(r) ==
    LET p == pod[r]
        Has(root, dir) == \E c \in p.disk : c[1] = root /\ c[2] = dir
    IN /\ \A pin \in Range(p.job.pins) : Has("extensions", pin.name)
       /\ p.job.harness # Empty => Has("harness", "pi")
       /\ \A cm \in Range(p.job.refs) : Has("plugins", cm)

\* The profile is read again: absent or incompatible it refuses the run. Then
\* the declared runtime is looked for.
Pin(r) ==
    /\ pod[r].pc = "pin"
    /\ LET p == ProfileOf(pod[r].job.env)
           refused == \/ ProfileMissing(pod[r].job.env)
                      \/ p # Empty /\ ~p[1].compatible
                      \/ ~Materialized(r)
       IN pod' = IF refused THEN Dead(r) ELSE [pod EXCEPT ![r].pc = "begin"]
    /\ UNCHANGED <<disp, rejected, faults>> /\ UNCHANGED world /\ UNCHANGED evidence

\* Emit counts its event whether or not the save succeeds. Without an
\* Attempt there is no writer.
Emitted(r, kind, p) ==
    \/ /\ HasAttempt(r) /\ Arrives(r)
       /\ pod' = [p EXCEPT ![r].seq = @ + 1]
       /\ store' = store \cup {[run |-> r, seq |-> pod[r].seq + 1, kind |-> kind]}
       /\ UNCHANGED faults
    \/ /\ HasAttempt(r)
       /\ Arrives(r) => Fault
       /\ ~Arrives(r) => UNCHANGED faults
       /\ pod' = [p EXCEPT ![r].seq = @ + 1]
       /\ UNCHANGED store
    \/ /\ ~HasAttempt(r)
       /\ pod' = p
       /\ UNCHANGED <<store, faults>>

Begin(r) ==
    /\ pod[r].pc = "begin"
    /\ Emitted(r, RunStarted, [pod EXCEPT ![r].pc = "record"])
    /\ UNCHANGED <<disp, rejected, ledger, journal>> /\ UNCHANGED world

\* recordAttemptStarted, best effort.
RecordStarted(r) ==
    /\ pod[r].pc = "record"
    /\ pod' = [pod EXCEPT ![r].pc = "graph"]
    /\ \/ /\ HasAttempt(r) /\ Arrives(r)
          /\ ledger' = [ledger EXCEPT ![r].listed = TRUE, ![r].started = TRUE]
          /\ UNCHANGED faults
       \/ /\ HasAttempt(r) /\ Arrives(r) => Fault
          /\ ~(HasAttempt(r) /\ Arrives(r)) => UNCHANGED faults
          /\ UNCHANGED ledger
    /\ UNCHANGED <<disp, rejected, store, journal>> /\ UNCHANGED world

\* The agent node: the session is spawned on what prepare left.
Spawn(r) ==
    /\ pod[r].pc = "graph"
    /\ pod[r].session = Empty
    /\ pod' = [pod EXCEPT ![r].session = <<[env |-> SessionEnv(pod[r].job.env, sc.rig),
                                            dirs |-> Names(pod[r].job.pins)]>>]
    /\ UNCHANGED <<disp, rejected, faults>> /\ UNCHANGED world /\ UNCHANGED evidence

\* A node, turn or tool event of the graph.
NodeEvent(r) ==
    /\ pod[r].pc = "graph"
    /\ HasAttempt(r)
    /\ pod[r].seq <= MaxEvents
    /\ Emitted(r, "node", pod)
    /\ UNCHANGED <<disp, rejected, ledger, journal>> /\ UNCHANGED world

Complete(r) ==
    /\ pod[r].pc = "graph"
    /\ Emitted(r, RunCompleted, [pod EXCEPT ![r].pc = "journal"])
    /\ UNCHANGED <<disp, rejected, ledger, journal>> /\ UNCHANGED world

\* The journal is read and written with nothing in between to hold it; a
\* read that fails counts as an empty journal.
JournalRead(r) ==
    /\ pod[r].pc = "journal"
    /\ \/ /\ Arrives(r)
          /\ pod' = [pod EXCEPT ![r].pc = "append", ![r].read = journal]
          /\ UNCHANGED faults
       \/ /\ Arrives(r) => Fault
          /\ ~Arrives(r) => UNCHANGED faults
          /\ pod' = [pod EXCEPT ![r].pc = "append", ![r].read = Empty]
    /\ UNCHANGED <<disp, rejected>> /\ UNCHANGED world /\ UNCHANGED evidence

JournalWrite(r) ==
    /\ pod[r].pc = "append"
    /\ pod' = [pod EXCEPT ![r].pc = "outcome"]
    /\ \/ /\ Arrives(r)
          /\ journal' = AppendResearchJournal(pod[r].read, r)
          /\ UNCHANGED faults
       \/ /\ Arrives(r) => Fault
          /\ ~Arrives(r) => UNCHANGED faults
          /\ UNCHANGED journal
    /\ UNCHANGED <<disp, rejected, store, ledger>> /\ UNCHANGED world

\* recordAttemptOutcome, best effort, and the exit.
Outcome(r) ==
    /\ pod[r].pc = "outcome"
    /\ pod' = [pod EXCEPT ![r].pc = "done", ![r].live = FALSE]
    /\ \/ /\ HasAttempt(r) /\ Arrives(r)
          /\ ledger' = [ledger EXCEPT ![r].listed = TRUE, ![r].ended = TRUE]
          /\ UNCHANGED faults
       \/ /\ HasAttempt(r) /\ Arrives(r) => Fault
          /\ ~(HasAttempt(r) /\ Arrives(r)) => UNCHANGED faults
          /\ UNCHANGED ledger
    /\ UNCHANGED <<disp, rejected, store, journal>> /\ UNCHANGED world

-----------------------------------------------------------------------------
Ended == {"none", "dead", "done", "skipped"}

\* The Job is deleted under its pod (a superseded head, a collected Attempt).
Cancel(r) ==
    /\ pod[r].pc \notin Ended /\ ~pod[r].cancelled
    /\ Fault
    /\ pod' = [pod EXCEPT ![r].cancelled = TRUE, ![r].live = FALSE]
    /\ UNCHANGED <<disp, rejected>> /\ UNCHANGED world /\ UNCHANGED evidence

\* Out of memory, the Job's deadline, the end of the grace period.
Die(r) ==
    /\ pod[r].pc \notin Ended
    /\ IF pod[r].cancelled THEN UNCHANGED faults ELSE Fault
    /\ pod' = Dead(r)
    /\ UNCHANGED <<disp, rejected>> /\ UNCHANGED world /\ UNCHANGED evidence

\* The state store forgets a run's events in the order they were written.
Expire(r) ==
    /\ pod[r].pc \in {"done", "dead"}
    /\ \E e \in EventsOf(store, r) :
           /\ \A f \in EventsOf(store, r) : e.seq <= f.seq
           /\ store' = store \ {e}
    /\ UNCHANGED <<disp, rejected, pod, ledger, journal, faults>> /\ UNCHANGED world

Step(r) ==
    \/ Create(r) \/ RunByHand(r) \/ InitPin(r) \/ InitRest(r) \/ Start(r) \/ Pin(r)
    \/ Begin(r) \/ RecordStarted(r) \/ Spawn(r) \/ NodeEvent(r) \/ Complete(r)
    \/ JournalRead(r) \/ JournalWrite(r) \/ Outcome(r)
    \/ Cancel(r) \/ Die(r) \/ Expire(r)

Next == Edit \/ Dispatch \/ Compose \/ \E r \in Runs : Step(r)

Spec == Init /\ [][Next]_vars

-----------------------------------------------------------------------------
\* A session loads what its Job declared: the directories pi is given hold the
\* pinned versions and nothing that was unpacked half way, whatever the
\* registry did and whatever was edited since. (A manifest that names one
\* extension twice is outside: composeRuntime lets a profile do that.)
DeclaredSetLoaded ==
    \A r \in Runs :
        (pod[r].session # Empty /\ Cardinality(Names(pod[r].job.pins)) = Len(pod[r].job.pins)) =>
            {c[3] : c \in {d \in pod[r].disk : d[1] = "extensions" /\ d[2] \in pod[r].session[1].dirs}}
                = {pin.ver : pin \in Range(pod[r].job.pins)}

\* No plugin or session holds the approving bot's credential, no session an
\* allowlisted name that is not justified for sessions, or, in a Job whose objective is no review, the posting
\* token; and a Job's session has the tool budget its Workflow or template
\* declared, or the fleet's.
SessionEnvSafe ==
    \A r \in Runs : pod[r].session # Empty =>
        LET env == pod[r].session[1].env IN
        /\ DOMAIN env \cap ({BotTokenEnvKey, BotHostEnvKey} \cup (jobEnvAllowlist \ spawnSafeEnv)) = {}
        /\ DOMAIN PluginEnv(pod[r].job.env) \cap {BotTokenEnvKey, BotHostEnvKey} = {}
        /\ Dispatched(r) =>
               /\ PostToken \in DOMAIN env => Getenv(env, "PI_LOOP_BREAKER") # Empty
               /\ edits = 0 =>
                      LET budget == FetchWorkflow(cr).toolBudget
                      IN Getenv(env, "PI_TOOL_BUDGET") =
                             IF budget = Empty THEN Getenv(sc.pool, "PI_TOOL_BUDGET")
                             ELSE IF budget = <<0>> THEN Empty ELSE budget

\* The pull request a run's lineage and timeline are about is the one the gate
\* accepted for its Job, or without a gate the one its trigger named, through
\* every hop: gate, Job, process. (A sweep accepts other pull requests than
\* the one that woke it; a head's SHA comes with an envelope only.)
IdentityKept ==
    \A r \in Runs : (pod[r].session # Empty /\ HasAttempt(r)) =>
        LET env == pod[r].job.env
            accepted == IF Getenv(env, "HARMOSTES_TRIGGER_SHA") = Empty THEN Empty ELSE sc.envelope
            pr == IF accepted # Empty THEN <<accepted[1].repo, accepted[1].pr>> ELSE sc.req.pr
        IN /\ LineageOf(env) = pr /\ subjectFromEnv(env).ref = pr
           /\ Dispatched(r) /\ accepted = Empty => subjectFromEnv(env) = triggerSubject(sc.req)

\* What the dispatcher validated the apiserver does not refuse after the
\* intent was recorded: a refused Job has a colliding ConfigMap mount of the
\* fleet, never attachments that collide with each other or with the builder.
RejectedByFleetOnly ==
    rejected # Empty => FleetCollides(rejected[1], DispatchConfigFromEnv(sc.fleet))

\* A page that could read the store shows the start and the end of a run once:
\* an end the ledger has is not missing and not doubled, whichever of the
\* writes were lost and however much of the timeline has expired. A page that
\* could not shows no boundary of any run.
BoundaryOnce ==
    \A r \in Runs, read \in Reads, k \in {RunStarted, RunCompleted} :
        LET has == IF k = RunStarted THEN ledger[r].started ELSE ledger[r].ended
            shown == Cardinality(Rows(ledger, store, read, r, k))
        IN shown <= 1 /\ (has => (shown = 1 <=> read = "ok"))
=============================================================================
