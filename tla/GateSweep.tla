------------------------------- MODULE GateSweep -------------------------------
(***************************************************************************)
(* One Review-Ready gate sweep after another (runGate, then the dispatch   *)
(* loop of Dispatcher.Dispatch), against a forge and review Jobs that      *)
(* change between any two of its steps.                                    *)
(*                                                                         *)
(* Sweeps here do not overlap: ReviewClaim is about sweeps that do, and    *)
(* splits every claim operation into its API calls.  Here a claim          *)
(* operation is one step, and what a sweep decides, from which reading of  *)
(* the forge, is modelled in full: the passes in their order, the local    *)
(* snapshots they share, the wake that started the sweep and how old it    *)
(* is.  A head belongs to one pull request.  A sweep that hits its         *)
(* deadline is one whose remaining calls all fail.                         *)
(***************************************************************************)
EXTENDS ClaimLedger, Integers, FiniteSets

CONSTANTS
  Head, NoHead,
  PrOf,          \* the pull request a head is pushed to
  Capacity,      \* EffectiveMaxConcurrent
  Granular,      \* the forge is a Forgejo: label events have no direction
  Failure,       \* the forge reads that may fail: a subset of Reads
  Ok             \* the outcomes of a cluster call: {TRUE} or BOOLEAN

Reads == {"pr", "comments", "ci"}

ASSUME SweepAssumption ==
  /\ NoHead \notin Head
  /\ PrOf \in [Head -> PR]
  /\ \A p \in PR : \E h \in Head : PrOf[h] = p
  /\ Job # {}
  /\ Capacity \in Nat \ {0}
  /\ Granular \in BOOLEAN
  /\ Failure \subseteq Reads
  /\ Ok \in {{TRUE}, BOOLEAN}

INSTANCE ReviewEvaluate WITH None <- NoHead

VARIABLES
  att,       \* att[h]: the Attempt of head h
  window,    \* window[h]: a verdict is in the verdict window of h's claim
  age,       \* age[h]: how old dispatchedAt is
  host,      \* host[p]: the pull request on the forge
  green,     \* green[h]: every required context is green at h
  verdict,   \* verdict[h]: none, posted within the slack, posted before it
  jobs,      \* jobs[h]: the states of the listed Jobs of h's attempt
  refusals,  \* refusals[p]: the newest standing-verdict refusal of p, or NoHead
  event,     \* the forge event that is still to be delivered, or NoWake
  sw         \* the sweep

vars == <<att, window, age, host, green, verdict, jobs, refusals, event, sw>>

claimVars == <<att, window, age>>
forgeVars == <<host, green, verdict, event>>

PRState  == {"open", "closed", "merged"}
JobState == {"live", "completed", "failed"}

\* Up to the job-death grace, up to the dispatch timeout, beyond it.
Age == {"new", "grace", "overdue"}

\* A wake: its pull request, the head of the event, and the action's class.
\* review_requested counts as labeled, review_request_removed as granular.
WakeKind == {"labeled", "label_updated", "unlabeled", "push"}
NoWake   == [pr |-> NoPR, sha |-> NoHead, kind |-> "none"]
Wake     == [pr : PR, sha : Head, kind : WakeKind] \cup {NoWake}

\* A candidate's carried answer of humanOverride ("open": never resolved).
Human == {"yes", "no", "open"}

PC == {"idle", "claims", "list", "take", "arm", "record", "dispatch", "create"}

\* claims: the claims as listed; keepArmed, releasedInA: what section A marks;
\* (reset once the passes that read them are done, as are claims and wake);
\* known, alive, completed: the one Job list; stood: history, the heads that
\* had a verdict when the sweep began; now: history, the heads that have been
\* current since.
Sweep ==
  [pc : PC, wake : Wake, todo : SUBSET Head, claims : SUBSET Head,
   keepArmed : SUBSET PR, releasedInA : SUBSET Head,
   known : {"no", "yes", "failed"}, alive : SUBSET Head,
   completed : SUBSET Head, free : Int, cands : SUBSET PR,
   cand : PR \cup {NoPR}, human : Human, memo : [PR -> Head \cup {NoHead}],
   out : SUBSET Head, stood : SUBSET Head, now : SUBSET Head]

Idle ==
  [pc |-> "idle", wake |-> NoWake, todo |-> {}, claims |-> {},
   keepArmed |-> {}, releasedInA |-> {}, known |-> "no", alive |-> {},
   completed |-> {}, free |-> 0, cands |-> {}, cand |-> NoPR,
   human |-> "open", memo |-> [p \in PR |-> NoHead], out |-> {}, stood |-> {},
   now |-> {}]

Init ==
  /\ att = [h \in Head |-> Absent]
  /\ window = [h \in Head |-> FALSE]
  /\ age = [h \in Head |-> "new"]
  /\ host \in [PR -> [head : Head, label : BOOLEAN, state : {"open"}]]
  /\ \A p \in PR : PrOf[host[p].head] = p
  /\ green \in [Head -> BOOLEAN]
  /\ verdict = [h \in Head |-> "none"]
  /\ jobs = [h \in Head |-> {}]
  /\ refusals = [p \in PR |-> NoHead]
  /\ event = NoWake
  /\ sw = Idle

--------------------------------------------------------------------------------
\* Mutant: the head is the claim's, not the one the forge reports.
ViewOfClaim(p, h, failed) ==
  LET cur == IF h # NoHead THEN h ELSE host[p].head IN
  [failed |-> failed, state |-> host[p].state, head |-> cur,
   label |-> host[p].label, window |-> h # NoHead /\ window[h],
   standing |-> verdict[cur] # "none", green |-> green[cur]]

(***************************************************************************)
(* What the forge tells a sweep about h's pull request, for a claim armed  *)
(* at h or, when h is NoHead, for a candidate p.                           *)
(***************************************************************************)
View(p, h, failed) ==
  LET cur == host[p].head IN
  [failed   |-> failed,
   state    |-> host[p].state,
   head     |-> cur,
   label    |-> host[p].label,
   window   |-> IF h # NoHead THEN window[h]
                ELSE \E g \in Head : PrOf[g] = p /\ verdict[g] = "recent",
   standing |-> verdict[cur] # "none",
   green    |-> green[cur]]

ClaimParams(h) ==
  [sha |-> h, dispatched |-> att[h].dispatched,
   overdue |-> age[h] = "overdue", expired |-> att[h].clock = "old"]

\* The Job list of the sweep: read once, by the first pass that needs it, and
\* a failed read stays failed.
Listing(w, ok) ==
  IF w.known # "no" THEN w
  ELSE [w EXCEPT !.known = IF ok THEN "yes" ELSE "failed",
                 !.alive = IF ok THEN {h \in Head : "live" \in jobs[h]} ELSE {},
                 !.completed = IF ok THEN {h \in Head : "completed" \in jobs[h]}
                               ELSE {}]

\* Of several independent writes, the ones that succeed.
Succeeded(S) == IF FALSE \in Ok THEN SUBSET S ELSE {S}

RequestShaped(w) == w.kind \in {"labeled", "label_updated", "unlabeled"}

releaseClaim(h, reason) == markClaimReleased(Release(att[h], reason))

releaseDeadClaim(h, reason) == markClaimReleased(ReleaseDead(att[h], reason))

--------------------------------------------------------------------------------

\* A poll, or the delivery of the pending event (which may be delivered again).
StartSweep(w) ==
  LET listed == {h \in Head : Listed(att[h])} IN
  /\ sw.pc = "idle"
  /\ w \in {NoWake, event}
  /\ event' \in IF w = NoWake THEN {event} ELSE {event, NoWake}
  /\ sw' = [Idle EXCEPT !.pc = "claims", !.wake = w, !.claims = listed,
                        !.todo = listed, !.memo = refusals,
                        !.stood = {h \in Head : verdict[h] # "none"},
                        !.now = {host[p].head : p \in PR}]
  /\ UNCHANGED <<claimVars, host, green, verdict, jobs, refusals>>

\* A request on the claim's pull request decides in section C.
WakeOwns(p) == sw.wake.pr = p /\ RequestShaped(sw.wake)

(***************************************************************************)
(* Section A, a claim still queued: dispatch it, release it or shield it.  *)
(* A failed release leaves the claim and is not retried by this sweep.     *)
(***************************************************************************)
SweepQueued(h, failed, ok) ==
  LET p == att[h].pr
      r == Evaluate(ClaimParams(h), View(p, h, failed), NoHead)
      proceeds == r.decision = "proceed" /\ r.sha = h
      spent == /\ att[h].lost >= MaxDispatchLostReleases
               /\ DispatchLostWindowOpen(att[h])
      releases == ~WakeOwns(p) /\ ~proceeds /\ r.decision # "waiting"
      reason == IF r.decision = "proceed" THEN "superseded"
                ELSE classifyRelease(r.code)
  IN
  /\ sw.pc = "claims" /\ h \in sw.todo /\ ~att[h].dispatched
  /\ att' = IF releases /\ ok THEN [att EXCEPT ![h] = releaseClaim(h, reason)]
            ELSE att
  /\ sw' = [sw EXCEPT
              !.todo = @ \ {h},
              !.keepArmed = IF releases THEN @ ELSE @ \cup {p},
              !.releasedInA = IF releases \/ (proceeds /\ spent /\ ~WakeOwns(p))
                              THEN @ \cup {h} ELSE @,
              !.out = IF proceeds /\ ~spent /\ ~WakeOwns(p)
                      THEN @ \cup {h} ELSE @]
  /\ UNCHANGED <<window, age, forgeVars, jobs, refusals>>

\* Section A, a dispatched claim.  A timed-out one is held while its Job is
\* seen alive; a Job list that failed sees none.
SweepDispatched(h, failed, listed, ok) ==
  LET r == Evaluate(ClaimParams(h), View(att[h].pr, h, failed), NoHead)
      dead == r.code = "dispatch-dead"
      w == IF dead THEN Listing(sw, listed) ELSE sw
      releases == /\ ok /\ r.decision = "standdown"
                  /\ ~(dead /\ h \in w.alive)
  IN
  /\ sw.pc = "claims" /\ h \in sw.todo /\ att[h].dispatched
  /\ sw' = [w EXCEPT !.todo = @ \ {h}]
  /\ att' = IF ~releases THEN att
            ELSE [att EXCEPT ![h] =
                    IF dead THEN releaseDeadClaim(h, "dispatch-timeout")
                    ELSE releaseClaim(h, classifyRelease(r.code))]
  /\ UNCHANGED <<window, age, forgeVars, jobs, refusals>>

\* Mutant: only a live Job clears a claim of being lost.
DiedUnlessLive(w) ==
  {h \in w.claims : att[h].dispatched /\ age[h] # "new" /\ h \notin w.alive}

(***************************************************************************)
(* The job-death pass: a dispatched claim past the grace with neither a    *)
(* live nor a completed Job.  Then the never-dispatched pass, over the     *)
(* claims section A has neither released nor shielded (their age is left   *)
(* out: every one counts as past its grace).                               *)
(***************************************************************************)
Died(w) ==
  {h \in w.claims : /\ att[h].dispatched /\ age[h] # "new"
                    /\ h \notin w.alive \cup w.completed}

NeverDispatched(w) ==
  {h \in w.claims : /\ ~att[h].dispatched
                    /\ h \notin w.alive \cup w.releasedInA
                    /\ att[h].pr \notin w.keepArmed}

SweepDeaths(ok) ==
  LET w == Listing(sw, ok) IN
  /\ sw.pc = "claims" /\ sw.todo = {}
  /\ \E died \in Succeeded(IF w.known = "yes" THEN Died(w) ELSE {}),
        lost \in Succeeded(IF w.known = "yes" THEN NeverDispatched(w) ELSE {}) :
       att' = [h \in Head |->
                 IF h \in died THEN releaseDeadClaim(h, "dispatch-lost")
                 ELSE IF h \in lost THEN releaseClaim(h, "dispatch-lost")
                 ELSE att[h]]
  /\ sw' = [w EXCEPT !.pc = "list", !.claims = {}, !.completed = {},
                     !.keepArmed = {}, !.releasedInA = {}]
  /\ UNCHANGED <<window, age, forgeVars, jobs, refusals>>

--------------------------------------------------------------------------------
(***************************************************************************)
(* Re-list, then section B: the wake and, if a slot is free, the labeled   *)
(* pull requests.  The scan may fail.                                      *)
(***************************************************************************)
SweepCandidates(ok) ==
  LET listed == {h \in Head : Listed(att[h])}
      free == Capacity - Cardinality({h \in listed : att[h].dispatched})
      scan == {p \in PR : host[p].label /\ host[p].state = "open"}
  IN
  /\ sw.pc = "list"
  /\ sw' = [sw EXCEPT !.pc = "take", !.claims = listed,
                      !.free = free,
                      !.cands = (IF ok /\ free > 0 THEN scan ELSE {})
                                  \cup ({sw.wake.pr} \ {NoPR})]
  /\ UNCHANGED <<claimVars, forgeVars, jobs, refusals>>

\* The wake is the first candidate.
NextCandidate(p) ==
  /\ sw.pc = "take" /\ p \in sw.cands
  /\ sw.wake.pr \in sw.cands => p = sw.wake.pr

WakeOf(p) == IF p = sw.wake.pr THEN sw.wake ELSE NoWake

\* An event without a direction is resolved against the label as it is now,
\* and an unknown answer overrides nothing.
humanOverride(p, failed) ==
  \/ WakeOf(p).kind = "labeled"
  \/ WakeOf(p).kind = "label_updated" /\ "pr" \notin failed /\ host[p].label

\* The memo skips a candidate at the refused head that no human asks for; an
\* unknown direction counts as a human here.
MemoSkips(p, failed) ==
  LET w == WakeOf(p)
      head == IF w.sha # NoHead THEN w.sha
              ELSE IF "pr" \in failed THEN NoHead ELSE host[p].head
  IN
  /\ sw.memo[p] # NoHead
  /\ sw.memo[p] = head
  /\ ~humanOverride(p, failed)
  /\ ~(w.kind = "label_updated" /\ "pr" \in failed)

findClaim(p) == {h \in sw.claims : att[h].pr = p /\ ~att[h].released}

\* An in-flight claim gives way only to a request, and one at the head the
\* event names only to a human's after a dead dispatch.
Supersedes(p, h, failed) ==
  /\ RequestShaped(WakeOf(p))
  /\ h = WakeOf(p).sha => humanOverride(p, failed) /\ att[h].dead > 0

\* The direction is read once, when the memo or a claim at the event's head
\* asks for it, and carried to the arm.
Resolved(p, failed) ==
  IF /\ WakeOf(p).kind = "label_updated"
     /\ sw.memo[p] # NoHead \/ WakeOf(p).sha \in findClaim(p)
  THEN IF humanOverride(p, failed) THEN "yes" ELSE "no"
  ELSE "open"

DropCandidate(p, failed) ==
  /\ NextCandidate(p)
  /\ \/ MemoSkips(p, failed)
     \/ \E h \in findClaim(p) : ~Supersedes(p, h, failed)
     \/ findClaim(p) # {} /\ FALSE \in Ok     \* the supersede failed
  /\ sw' = [sw EXCEPT !.cands = @ \ {p}]
  /\ UNCHANGED <<claimVars, forgeVars, jobs, refusals>>

\* The claim found is superseded; a full fleet ends section C.
TakeCandidate(p, failed) ==
  /\ NextCandidate(p)
  /\ ~MemoSkips(p, failed)
  /\ \E mine \in IF findClaim(p) = {} THEN {{}} ELSE {{h} : h \in findClaim(p)} :
       LET free == sw.free + Cardinality({h \in mine : att[h].dispatched}) IN
       /\ \A h \in mine : Supersedes(p, h, failed)
       /\ att' = [h \in Head |-> IF h \in mine THEN releaseClaim(h, "superseded")
                                 ELSE att[h]]
       /\ sw' = IF free <= 0 THEN [sw EXCEPT !.cands = {}, !.free = free]
                ELSE [sw EXCEPT !.pc = "arm", !.cand = p, !.cands = @ \ {p},
                                !.free = free,
                                !.human = Resolved(p, failed)]
  /\ UNCHANGED <<window, age, forgeVars, jobs, refusals>>
--------------------------------------------------------------------------------
\* ArmClaim for p at head h: its guards, the supersession of p's other claims
\* (before the breaker is read), the arm itself.
ArmRefused(p, h, human) ==
  \/ RecentlyDismissed(att[h], p, human)
  \/ ChurnBudgetExhausted(att[h], p, human)

Superseded(p, h) ==
  [g \in Head |-> IF g # h /\ Listed(att[g]) /\ att[g].pr = p
                  THEN releaseClaim(g, "superseded") ELSE att[g]]

ArmedClaim(p, h, human) ==
  LET a == IF att[h].exists THEN att[h] ELSE Created
  IN  Arm(markClaimLive(a), p, human, BudgetExpiry(a, p, human))

ArmClaim(p, h, human) ==
  IF DeadDispatchBreaker(att[h], p, human)
  THEN /\ att' = Superseded(p, h)
       /\ UNCHANGED window
  ELSE /\ att' = [Superseded(p, h) EXCEPT ![h] = ArmedClaim(p, h, human)]
       /\ window' = [window EXCEPT ![h] =
                       IF FreshClock(att[h], p, human)
                       THEN \E g \in Head : PrOf[g] = p /\ verdict[g] = "recent"
                       ELSE @]

(***************************************************************************)
(* Section C, the candidate in hand: evaluate it and arm, refuse or pass.  *)
(* A verdict that stands is recorded and consumed: the label comes off.    *)
(***************************************************************************)
ArmCandidate(failed, ok) ==
  LET p == sw.cand
      r == Evaluate(Unclaimed, View(p, NoHead, failed), WakeOf(p).sha)
      h == r.sha
      human == \/ WakeOf(p).kind = "labeled"
               \/ /\ WakeOf(p).kind = "label_updated"
                  /\ sw.human = "yes" \/ (sw.human = "open" /\ r.label)
      back == [sw EXCEPT !.pc = "take", !.cand = NoPR, !.human = "open"]
      asked == /\ h # NoHead
               /\ \/ r.decision = "proceed"
                  \/ r.decision = "waiting" /\ (r.label \/ human)
      arms == asked /\ ok /\ ~ArmRefused(p, h, human)
  IN
  /\ sw.pc = "arm"
  /\ \/ /\ arms
        /\ ArmClaim(p, h, human)
        /\ sw' = IF /\ r.decision = "proceed"
                    /\ ~DeadDispatchBreaker(att[h], p, human)
                 THEN [back EXCEPT !.out = @ \cup {h}, !.free = @ - 1]
                 ELSE back
        /\ UNCHANGED host
     \/ /\ r.code = "verdict-standing"
        /\ sw' = [back EXCEPT !.memo[p] = h]
        /\ host' = IF ok THEN [host EXCEPT ![p].label = FALSE] ELSE host
        /\ UNCHANGED <<att, window>>
     \/ /\ ~arms /\ r.code # "verdict-standing"
        /\ sw' = back
        /\ UNCHANGED <<att, window, host>>
  /\ UNCHANGED <<age, green, verdict, event, jobs, refusals>>

--------------------------------------------------------------------------------
\* Mutant: only a supersession cancels.
CancelTargetsSuperseded(w) ==
  {h \in w.alive : att[h].exists /\ att[h].released
                   /\ att[h].reason = "superseded"}

(***************************************************************************)
(* The cancel pass: of the Jobs the sweep listed alive, those whose claim  *)
(* is now released for a cancelling reason are deleted.  A Job that has    *)
(* finished since is deleted too, which is its expiry.                     *)
(***************************************************************************)
CancelTargets(w) ==
  {h \in w.alive : /\ att[h].exists /\ att[h].released
                   /\ IsCancellationRelease(att[h].reason)}

SweepCancel ==
  /\ sw.pc = "take" /\ sw.cands = {}
  /\ \E done \in Succeeded(IF sw.known = "yes" THEN CancelTargets(sw) ELSE {}) :
       /\ jobs' = [h \in Head |-> IF h \in done THEN jobs[h] \ {"live"}
                                  ELSE jobs[h]]
       /\ att' = [h \in Head |->
                    IF h \in done THEN FinalizeCancelled(att[h], att[h].reason)
                    ELSE att[h]]
  /\ sw' = [sw EXCEPT !.pc = "record"]
  /\ UNCHANGED <<window, age, forgeVars, refusals>>

\* Section D: the refusals are written to the workflow's status.
SweepRecord(ok) ==
  /\ sw.pc = "record"
  /\ refusals' = IF ok THEN sw.memo ELSE refusals
  /\ sw' = IF sw.out = {} THEN Idle
           ELSE [Idle EXCEPT !.pc = "dispatch", !.out = sw.out,
                             !.stood = sw.stood, !.now = sw.now]
  /\ UNCHANGED <<claimVars, forgeVars, jobs>>

(***************************************************************************)
(* The dispatch loop: list the live Jobs, then for each accepted review a  *)
(* duplicate's edge is completed, or intent, Job and edge are written.  An *)
(* error drops the rest of the loop; the claim keeps what was written.     *)
(***************************************************************************)
DispatchList(ok) ==
  /\ sw.pc = "dispatch"
  /\ sw' = IF ok THEN [sw EXCEPT !.pc = "create",
                                 !.alive = {h \in Head : "live" \in jobs[h]}]
           ELSE Idle
  /\ UNCHANGED <<claimVars, forgeVars, jobs, refusals>>

DispatchNext(h) == IF sw.out = {h} THEN Idle ELSE [sw EXCEPT !.out = @ \ {h}]

CompleteDispatchEdge(h, ok) ==
  /\ sw.pc = "create" /\ h \in sw.out \cap sw.alive
  /\ \E j \in Job :
       IF ok /\ att[h].job = NoJob
       THEN /\ att' = [att EXCEPT ![h] = MarkClaimDispatched(@, j)]
            /\ age' = [age EXCEPT ![h] = "new"]
       ELSE UNCHANGED <<att, age>>
  /\ sw' = DispatchNext(h)
  /\ UNCHANGED <<window, forgeVars, jobs, refusals>>

DispatchCreate(h) ==
  /\ sw.pc = "create" /\ h \in sw.out \ sw.alive
  /\ jobs' = [jobs EXCEPT ![h] = @ \cup {"live"}]
  /\ \/ \E j \in Job :
          /\ att' = [att EXCEPT ![h] =
                       MarkClaimDispatched(MarkDispatchIntent(@), j)]
          /\ sw' = DispatchNext(h)
     \/ /\ FALSE \in Ok                       \* the edge patch failed
        /\ att' = [att EXCEPT ![h] = MarkDispatchIntent(@)]
        /\ sw' = Idle
  /\ age' = [age EXCEPT ![h] = "new"]
  /\ UNCHANGED <<window, forgeVars, refusals>>

\* The create call failed: the intent stands without a Job.
DispatchCreateFails(h) ==
  /\ sw.pc = "create" /\ h \in sw.out \ sw.alive
  /\ FALSE \in Ok
  /\ att' = [att EXCEPT ![h] = MarkDispatchIntent(@)]
  /\ age' = [age EXCEPT ![h] = "new"]
  /\ sw' = Idle
  /\ UNCHANGED <<window, forgeVars, jobs, refusals>>

\* The process is killed, or returns an error before its next write.
Crash ==
  /\ sw.pc # "idle"
  /\ FALSE \in Ok
  /\ sw' = Idle
  /\ UNCHANGED <<claimVars, forgeVars, jobs, refusals>>

--------------------------------------------------------------------------------
(***************************************************************************)
(* The forge.  Each event replaces the pending one or is lost.             *)
(***************************************************************************)
Emit(p, sha, kind) ==
  event' \in {event, [pr |-> p, sha |-> sha, kind |-> kind]}

LabelKind(direction) == IF Granular THEN "label_updated" ELSE direction

Push(p, h) ==
  /\ PrOf[h] = p /\ h # host[p].head /\ host[p].state = "open"
  /\ host' = [host EXCEPT ![p].head = h]
  /\ sw' = IF sw.pc = "idle" THEN sw ELSE [sw EXCEPT !.now = @ \cup {h}]
  /\ Emit(p, h, "push")
  /\ UNCHANGED <<claimVars, green, verdict, jobs, refusals>>

SetLabel(p) ==
  /\ ~host[p].label
  /\ host' = [host EXCEPT ![p].label = TRUE]
  /\ Emit(p, host[p].head, LabelKind("labeled"))
  /\ UNCHANGED <<claimVars, green, verdict, jobs, refusals, sw>>

RemoveLabel(p) ==
  /\ host[p].label
  /\ host' = [host EXCEPT ![p].label = FALSE]
  /\ Emit(p, host[p].head, LabelKind("unlabeled"))
  /\ UNCHANGED <<claimVars, green, verdict, jobs, refusals, sw>>

\* A reviewer is requested, or the request is withdrawn.
RequestReview(p, kind) ==
  /\ host[p].state = "open"
  /\ Emit(p, host[p].head, kind)
  /\ UNCHANGED <<claimVars, host, green, verdict, jobs, refusals, sw>>

ChangeState(p, st) ==
  /\ host[p].state # st /\ host[p].state # "merged"
  /\ host' = [host EXCEPT ![p].state = st]
  /\ Emit(p, host[p].head, "push")
  /\ UNCHANGED <<claimVars, green, verdict, jobs, refusals, sw>>

ContextsChange(h) ==
  /\ green' = [green EXCEPT ![h] = ~@]
  /\ UNCHANGED <<claimVars, host, verdict, event, jobs, refusals, sw>>

--------------------------------------------------------------------------------
(***************************************************************************)
(* The review Jobs.  A verdict is posted once for each head, and only      *)
(* while the head is the pull request's.                                   *)
(***************************************************************************)
RunnerPosts(h) ==
  /\ "live" \in jobs[h]
  /\ host[PrOf[h]].head = h
  /\ verdict[h] = "none"
  /\ verdict' = [verdict EXCEPT ![h] = "recent"]
  /\ window' = [g \in Head |-> \/ window[g]
                               \/ PrOf[g] = PrOf[h] /\ att[g].clock # "nil"]
  /\ UNCHANGED <<att, age, host, green, event, jobs, refusals, sw>>

\* The Job completes, fails, or vanishes with its node.
RunnerEnds(h, st) ==
  /\ "live" \in jobs[h]
  /\ jobs' = [jobs EXCEPT ![h] = (@ \ {"live"}) \cup st]
  /\ UNCHANGED <<claimVars, forgeVars, refusals, sw>>

JobExpires(h, st) ==
  /\ st \in jobs[h] \ {"live"}
  /\ jobs' = [jobs EXCEPT ![h] = @ \ {st}]
  /\ UNCHANGED <<claimVars, forgeVars, refusals, sw>>

(***************************************************************************)
(* Time.                                                                   *)
(***************************************************************************)
DispatchAges(h) ==
  /\ att[h].dispatched /\ age[h] # "overdue"
  /\ age' = [age EXCEPT ![h] = IF @ = "new" THEN "grace" ELSE "overdue"]
  /\ UNCHANGED <<att, window, forgeVars, jobs, refusals, sw>>

ClockAges(h) ==
  /\ att[h].clock = "fresh"
  /\ att' = [att EXCEPT ![h].clock = "old"]
  /\ UNCHANGED <<window, age, forgeVars, jobs, refusals, sw>>

DismissalExpires(h) ==
  /\ att[h].dismissed
  /\ att' = [att EXCEPT ![h].dismissed = FALSE]
  /\ UNCHANGED <<window, age, forgeVars, jobs, refusals, sw>>

VerdictAges(h) ==
  /\ verdict[h] = "recent"
  /\ verdict' = [verdict EXCEPT ![h] = "past"]
  /\ UNCHANGED <<claimVars, host, green, event, jobs, refusals, sw>>

--------------------------------------------------------------------------------

Poll == StartSweep(NoWake)

SweepStep ==
  \/ \E h \in Head, failed \in SUBSET Failure, ok \in Ok :
       \/ SweepQueued(h, failed, ok)
       \/ \E listed \in Ok : SweepDispatched(h, failed, listed, ok)
  \/ \E ok \in Ok : SweepDeaths(ok) \/ SweepCandidates(ok)
  \/ \E p \in PR, failed \in SUBSET Failure :
       DropCandidate(p, failed) \/ TakeCandidate(p, failed)
  \/ \E failed \in SUBSET Failure, ok \in Ok : ArmCandidate(failed, ok)
  \/ SweepCancel
  \/ \E ok \in Ok : SweepRecord(ok) \/ DispatchList(ok)
  \/ \E h \in Head : \/ \E ok \in Ok : CompleteDispatchEdge(h, ok)
                     \/ DispatchCreate(h)
                     \/ DispatchCreateFails(h)

\* What the forge, the runners and the clock may do; kinds names the classes.
Environment(kinds) ==
  \/ \E p \in PR :
       \/ "push" \in kinds /\ \E h \in Head : Push(p, h)
       \/ "label" \in kinds /\ (SetLabel(p) \/ RemoveLabel(p))
       \/ /\ "request" \in kinds
          /\ \E kind \in {"labeled", "label_updated"} : RequestReview(p, kind)
       \/ "state" \in kinds /\ \E st \in PRState : ChangeState(p, st)
  \/ \E h \in Head :
       \/ "ci" \in kinds /\ ContextsChange(h)
       \/ "post" \in kinds /\ RunnerPosts(h)
       \/ /\ "end" \in kinds
          /\ \E st \in {{"completed"}, {"failed"}, {}} : RunnerEnds(h, st)
       \/ "expire" \in kinds /\ \E st \in JobState : JobExpires(h, st)
       \/ "dispatch" \in kinds /\ DispatchAges(h)
       \/ /\ "horizon" \in kinds
          /\ ClockAges(h) \/ DismissalExpires(h) \/ VerdictAges(h)

Kinds == {"push", "label", "request", "state", "ci", "post", "end", "expire",
          "dispatch", "horizon"}

Worker == StartSweep(event) \/ Poll \/ SweepStep \/ Crash

Next == Worker \/ Environment(Kinds)

Spec == Init /\ [][Next]_vars
--------------------------------------------------------------------------------
(***************************************************************************)
(* Properties.                                                             *)
(***************************************************************************)

TypeOK ==
  /\ att \in [Head -> Attempt]
  /\ window \in [Head -> BOOLEAN]
  /\ age \in [Head -> Age]
  /\ host \in [PR -> [head : Head, label : BOOLEAN, state : PRState]]
  /\ green \in [Head -> BOOLEAN]
  /\ verdict \in [Head -> {"none", "recent", "past"}]
  /\ jobs \in [Head -> SUBSET JobState]
  /\ refusals \in [PR -> Head \cup {NoHead}]
  /\ event \in Wake
  /\ sw \in Sweep

Creates(h) == DispatchCreate(h) /\ "live" \notin jobs[h]

\* A head is reviewed once: no Job is created for a head whose verdict already
\* stood when the sweep began (Evaluate's verdict-standing refusal).
ReviewedOnce == [][\A h \in Head : Creates(h) => h \notin sw.stood]_vars

\* A Job is created only for a head that was its pull request's current head at
\* some point of the sweep, however late the wake (the head-moved releases).
HeadPinned == [][\A h \in Head : Creates(h) => h \in sw.now]_vars

\* The job-death pass charges only a claim with no live Job and no completed
\* one: a run that is alive, or that succeeded, is no loss (jobDeath).
DeathIsFact ==
  [][\A h \in Head :
       /\ att'[h].dead > att[h].dead
       /\ att'[h].reason = "dispatch-lost"
       => jobs[h] \subseteq {"failed"}]_vars

\* Before a healthy sweep ends it has stopped every running review of a claim
\* that was superseded, or whose pull request was closed, before it or by it:
\* none is left to the next sweep (the cancel pass).
CancelledSameSweep ==
  sw.pc = "record" /\ Ok = {TRUE} =>
    \A h \in Head : ~/\ "live" \in jobs[h]
                     /\ att[h].released
                     /\ IsCancellationRelease(att[h].reason)

\* MaxConcurrent bounds the reviews in flight.
WithinCapacity ==
  Cardinality({h \in Head : Live(att[h]) /\ att[h].dispatched}) <= Capacity

\* A claim that is consumed was reviewed: a verdict was posted at its head ("so
\* an OLD verdict cannot fall inside a fresh request's window",
\* verdictSinceSlack).
OwnVerdictConsumes ==
  \A h \in Head :
    att[h].released /\ att[h].reason = "consumed" => verdict[h] # "none"

\* A request supersedes a live claim only when its head has moved on, or to
\* retry a dead dispatch ("head moved since the claim armed", section C).
SupersedeNeedsMove ==
  [][\A p \in PR, failed \in SUBSET Failure :
       TakeCandidate(p, failed) =>
         \A h \in Head : Live(att[h]) /\ att'[h].released =>
                           host[p].head # h \/ att[h].dead > 0]_vars

\* A queued claim is dispatched once its contexts are green, with or without
\* the label ("an armed claim dispatches on CI green regardless of the label",
\* Evaluate).
QueuedDispatchesOnGreen ==
  [][\A h \in Head :
       /\ SweepQueued(h, {}, TRUE)
       /\ host[att[h].pr].head = h /\ host[att[h].pr].state = "open"
       /\ green[h] /\ verdict[h] = "none" /\ ~window[h]
       /\ att[h].clock = "fresh" /\ ~WakeOwns(att[h].pr)
       => h \in sw'.out]_vars

--------------------------------------------------------------------------------
(***************************************************************************)
(* Liveness.  Polls keep coming (the workflow's schedule), a started sweep *)
(* goes on, time passes, a Job ends within its deadline, and a runner that *)
(* is given a head again and again posts in the end.                       *)
(***************************************************************************)
Fairness ==
  /\ WF_vars(SweepStep)
  /\ SF_vars(Poll)
  /\ \A h \in Head :
       /\ WF_vars(DispatchAges(h))
       /\ WF_vars(ClockAges(h))
       /\ WF_vars(DismissalExpires(h))
       /\ WF_vars(\E st \in {{"completed"}, {"failed"}, {}} : RunnerEnds(h, st))
       /\ SF_vars(RunnerPosts(h))

FairSpec == Spec /\ Fairness

Wanted(h) ==
  LET p == host[PrOf[h]] IN
  p.head = h /\ p.label /\ p.state = "open" /\ green[h]

\* A pull request that stays labeled, open, green and at one head is reviewed,
\* unless the dead-dispatch breaker has opened for the head: no sequence of
\* deaths, horizons, dismissals and wakes strands it.
EventuallyReviewed ==
  \A h \in Head :
    <>[]Wanted(h) => <>(\/ verdict[h] # "none"
                        \/ att[h].dead >= MaxDeadDispatchesPerHead)
================================================================================
