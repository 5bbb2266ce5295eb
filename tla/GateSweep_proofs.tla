--------------------------- MODULE GateSweep_proofs ----------------------------
(***************************************************************************)
(* What the gate's sweeps promise, for any heads, pull requests, Jobs,     *)
(* capacity and failing calls, whatever the forge, the runners and the     *)
(* clock do between any two steps.                                         *)
(*                                                                         *)
(* The invariant is about what a sweep holds that was true when it was     *)
(* read: every claim it listed is still there, and those it is done with   *)
(* are shielded or released (Looked); its Job list misses no Job that is   *)
(* live now (Surveyed); what it accepted was current and unreviewed during *)
(* the sweep (Aimed).                                                      *)
(***************************************************************************)
EXTENDS GateSweep, TLAPS

Fields(w) ==
  w \in [pc : {w.pc}, wake : {w.wake}, todo : {w.todo}, claims : {w.claims},
         keepArmed : {w.keepArmed}, releasedInA : {w.releasedInA},
         known : {w.known}, alive : {w.alive}, completed : {w.completed},
         free : {w.free}, cands : {w.cands}, cand : {w.cand}, human : {w.human},
         memo : {w.memo}, out : {w.out}, stood : {w.stood}, now : {w.now}]

Typed ==
  /\ att \in [Head -> Attempt]
  /\ jobs \in [Head -> SUBSET JobState]
  /\ verdict = [h \in Head |-> verdict[h]]
  /\ host \in [PR -> [head : Head, label : BOOLEAN, state : PRState]]
  /\ Fields(sw)
  /\ sw.pc \in PC /\ sw.known \in {"no", "yes", "failed"}

\* A claim that was released is one of an object.
Rooted == \A h \in Head : att[h].released => att[h].exists

\* Section A's word on the claims of the sweep.
Answered(w) ==
  \A h \in w.claims \ w.todo :
    ~att[h].dispatched => h \in w.releasedInA \/ att[h].pr \in w.keepArmed

Looked ==
  /\ sw.claims \subseteq Head
  /\ \A h \in sw.claims : att[h].exists
  /\ sw.pc = "claims" =>
       /\ sw.todo \subseteq sw.claims
       /\ \A h \in sw.claims : att[h].pr \in PR
       /\ Answered(sw)

\* What a Job list says of the Jobs as they are now.
Covers(w) ==
  w.known = "yes" =>
    \A h \in Head :
      /\ "live" \in jobs[h] => h \in w.alive
      /\ w.pc = "claims" /\ "completed" \in jobs[h] => h \in w.alive \cup w.completed

Surveyed ==
  /\ Covers(sw)
  /\ sw.pc \in {"idle", "dispatch", "create"} => sw.known = "no"
  /\ Ok = {TRUE} => /\ sw.known # "failed"
                    /\ sw.pc \in {"list", "take", "arm"} => sw.known = "yes"

Aimed ==
  /\ sw.pc # "idle" => \A p \in PR : host[p].head \in sw.now
  /\ sw.out \subseteq sw.now \ sw.stood
  /\ \A h \in sw.stood : h \in Head /\ verdict[h] # "none"
  /\ sw.pc = "arm" => sw.cand \in PR

\* The never-dispatched pass finds no claim to charge: section A has released or
\* shielded every queued claim of the list the pass goes through.
NoneLost == \A h \in Head : att[h].lost = 0

SweepInv ==
  /\ Typed /\ Rooted /\ Looked /\ Surveyed /\ Aimed
  /\ NoneLost /\ CancelledSameSweep

\* What DeathIsFact says of one step.
Factual ==
  \A h \in Head :
    att'[h].dead > att[h].dead /\ att'[h].reason = "dispatch-lost"
      => jobs[h] \subseteq {"failed"}

--------------------------------------------------------------------------------
(***************************************************************************)
(* The ledger's mutations, as far as the sweep is concerned.               *)
(***************************************************************************)
\* The parts of an Attempt a sweep's decisions rest on.
Tame(a, b) ==
  /\ b.exists = a.exists /\ b.pr = a.pr /\ b.dispatched = a.dispatched
  /\ b.lost = a.lost

Same(a, b) ==
  /\ Tame(a, b)
  /\ b.released = a.released /\ b.reason = a.reason /\ b.dead = a.dead

LEMMA FreshType == Absent \in Attempt /\ Created \in Attempt
  BY DEF Absent, Created, Attempt, Reason, Clock, Phase

\* ReleaseClaim, its status and its marker, for any reason but a lost dispatch.
LEMMA ReleaseFacts ==
  ASSUME NEW a \in Attempt, NEW reason \in Reason
  PROVE  LET b == markClaimReleased(Release(a, reason))
         IN  /\ b \in Attempt
             /\ reason # "dispatch-lost" => Tame(a, b)
             /\ b.exists = a.exists /\ b.released /\ b.reason = reason /\ b.dead = a.dead
<1> DEFINE c == Release(a, reason)
           lost == IF reason = "dispatch-lost" THEN a.lost + 1 ELSE a.lost
           recent == a.lostRecent \/ reason = "dispatch-lost"
           dismissed == a.dismissed \/ reason = "horizon"
           phase == CASE reason = "consumed"   -> "validated"
                      [] reason = "superseded" -> "superseded"
                      [] OTHER                 -> a.phase
<1>1. a.phase \in Phase /\ a.lost \in Nat
  BY DEF Attempt
<1>2. lost \in Nat
  BY <1>1
<1>3. phase \in Phase
  BY <1>1 DEF Phase
<1>4. recent \in BOOLEAN /\ dismissed \in BOOLEAN
  OBVIOUS
<1>5. c = [a EXCEPT !.released = TRUE, !.reason = reason, !.lost = lost,
                    !.lostRecent = recent, !.dismissed = dismissed, !.phase = phase]
  BY DEF Release
<1>6. reason # "dispatch-lost" => lost = a.lost
  OBVIOUS
<1> HIDE DEF lost, recent, dismissed, phase
<1>7. c \in Attempt
  BY <1>2, <1>3, <1>4, <1>5 DEF Attempt
<1>8. /\ c.exists = a.exists /\ c.pr = a.pr /\ c.dispatched = a.dispatched /\ c.dead = a.dead
      /\ c.released /\ c.reason = reason /\ c.lost = lost
  BY <1>5 DEF Attempt
<1> HIDE DEF c
<1>9. markClaimReleased(c) \in Attempt
  BY <1>7 DEF markClaimReleased, Attempt
<1>10. /\ markClaimReleased(c).exists = c.exists /\ markClaimReleased(c).pr = c.pr
       /\ markClaimReleased(c).dispatched = c.dispatched /\ markClaimReleased(c).dead = c.dead
       /\ markClaimReleased(c).released = c.released /\ markClaimReleased(c).reason = c.reason
       /\ markClaimReleased(c).lost = c.lost
  BY <1>7 DEF markClaimReleased, Attempt
<1> QED  BY <1>6, <1>8, <1>9, <1>10 DEF Tame, c

\* ReleaseClaimDead and its marker.
LEMMA DeadFacts ==
  ASSUME NEW a \in Attempt, NEW reason \in Reason
  PROVE  LET b == markClaimReleased(ReleaseDead(a, reason))
         IN  /\ b \in Attempt /\ Tame(a, b) /\ b.released
             /\ b.dead # a.dead => b.reason = reason
<1> DEFINE c == ReleaseDead(a, reason)
           dead == IF a.dispatched THEN a.dead + 1 ELSE a.dead
           phase == IF a.phase \in {"", "reconciling"} THEN "failed" ELSE a.phase
<1>1. a.phase \in Phase /\ a.dead \in Nat
  BY DEF Attempt
<1>2. dead \in Nat
  BY <1>1
<1>3. phase \in Phase
  BY <1>1 DEF Phase
<1>4. c = IF a.released THEN a
          ELSE [a EXCEPT !.released = TRUE, !.reason = reason, !.dead = dead,
                         !.running = {}, !.phase = phase]
  BY DEF ReleaseDead
<1> HIDE DEF dead, phase
<1>5. c \in Attempt
  BY <1>2, <1>3, <1>4 DEF Attempt
<1>6. Tame(a, c) /\ c.released /\ (c.dead # a.dead => c.reason = reason)
  BY <1>4 DEF Tame, Attempt
<1> HIDE DEF c
<1>7. markClaimReleased(c) \in Attempt
  BY <1>5 DEF markClaimReleased, Attempt
<1>8. Tame(c, markClaimReleased(c))
  BY <1>5 DEF markClaimReleased, Attempt, Tame
<1>9. /\ markClaimReleased(c).released = c.released /\ markClaimReleased(c).reason = c.reason
      /\ markClaimReleased(c).dead = c.dead
  BY <1>5 DEF markClaimReleased, Attempt
<1> QED  BY <1>6, <1>7, <1>8, <1>9 DEF Tame, c

LEMMA FinalFacts ==
  ASSUME NEW a \in Attempt
  PROVE  FinalizeCancelled(a, a.reason) \in Attempt /\ Same(a, FinalizeCancelled(a, a.reason))
<1>1. FinalizeCancelled(a, a.reason) \in Attempt
  BY DEF FinalizeCancelled, Attempt, Phase
<1> QED  BY <1>1 DEF FinalizeCancelled, Attempt, Same, Tame

\* The two dispatch stamps clear the churn count and leave the rest.
LEMMA StampFacts ==
  ASSUME NEW a \in Attempt, NEW j \in Job
  PROVE  \A b \in {MarkDispatchIntent(a), MarkClaimDispatched(a, j),
                   MarkClaimDispatched(MarkDispatchIntent(a), j)} :
           /\ b \in Attempt /\ b.exists = a.exists /\ b.released = a.released
           /\ b.reason = a.reason /\ b.dead = a.dead /\ b.lost = 0
<1> DEFINE Stamped(x) == /\ x \in Attempt /\ x.exists = a.exists /\ x.released = a.released
                         /\ x.reason = a.reason /\ x.dead = a.dead /\ x.lost = 0
<1>1. Stamped(MarkDispatchIntent(a)) /\ Stamped(MarkClaimDispatched(a, j))
  BY DEF MarkDispatchIntent, MarkClaimDispatched, Attempt
<1>2. Stamped(MarkClaimDispatched(MarkDispatchIntent(a), j))
  <2> DEFINE d == MarkDispatchIntent(a)
  <2>1. /\ d \in Attempt /\ d.exists = a.exists /\ d.released = a.released
        /\ d.reason = a.reason /\ d.dead = a.dead /\ d.lost = 0
    BY <1>1
  <2> HIDE DEF d
  <2>2. MarkClaimDispatched(d, j) \in Attempt
    BY <2>1 DEF MarkClaimDispatched, Attempt
  <2>3. /\ MarkClaimDispatched(d, j).exists = d.exists
        /\ MarkClaimDispatched(d, j).released = d.released
        /\ MarkClaimDispatched(d, j).reason = d.reason
        /\ MarkClaimDispatched(d, j).dead = d.dead /\ MarkClaimDispatched(d, j).lost = 0
    BY <2>1 DEF MarkClaimDispatched, Attempt
  <2>4. Stamped(MarkClaimDispatched(d, j))
    BY <2>1, <2>2, <2>3
  <2> QED  BY <2>4 DEF d
<1> QED  BY <1>1, <1>2

\* The arm: a live claim on an object, its counters kept or cleared.
LEMMA ArmFacts ==
  ASSUME NEW c \in Attempt, c.exists, NEW p \in PR, NEW human \in BOOLEAN
  PROVE  LET b == Arm(markClaimLive(c), p, human, BudgetExpiry(c, p, human))
         IN  /\ b \in Attempt /\ b.exists /\ ~b.released /\ b.reason = ""
             /\ b.lost \in {0, c.lost}
<1> DEFINE d == markClaimLive(c)
           expiry == BudgetExpiry(c, p, human)
<1>2. d \in Attempt /\ d.exists /\ d.lost = c.lost
  BY DEF markClaimLive, Attempt
<1> HIDE DEF d, expiry
<1> DEFINE reset == ~SameClaim(d, p) \/ human \/ expiry
           clock == IF FreshClock(d, p, human) THEN "fresh" ELSE d.clock
           dispatched == d.dispatched /\ ~d.released
           dead == IF reset THEN 0 ELSE d.dead
           lost == IF reset THEN 0 ELSE d.lost
           phase == IF d.phase = "" \/ d.phase \in Terminal THEN "reconciling" ELSE d.phase
           b == Arm(d, p, human, expiry)
<1>3. clock \in Clock /\ phase \in Phase
  BY <1>2 DEF Attempt, Clock, Phase
<1>4. dead \in Nat /\ lost \in Nat
  BY <1>2 DEF Attempt
<1>5. dispatched \in BOOLEAN /\ lost \in {0, d.lost}
  OBVIOUS
<1>6. b = [d EXCEPT !.pr = p, !.clock = clock, !.dispatched = dispatched,
                    !.dead = dead, !.lost = lost, !.released = FALSE,
                    !.reason = "", !.phase = phase]
  BY DEF Arm
<1> HIDE DEF clock, dispatched, dead, lost, phase
<1> HIDE DEF b
<1>7. b \in Attempt
  <2>1. p \in PR \cup {NoPR} /\ "" \in Reason
    BY DEF Reason
  <2> QED  BY <1>2, <1>3, <1>4, <1>5, <1>6, <2>1 DEF Attempt
<1>8. b.exists = d.exists /\ ~b.released /\ b.reason = "" /\ b.lost = lost
  BY <1>2, <1>6 DEF Attempt
<1> QED  BY <1>2, <1>5, <1>7, <1>8 DEF d, expiry, b

\* No stand-down is a lost dispatch.
LEMMA ReleaseReason ==
  ASSUME NEW code
  PROVE  classifyRelease(code) \in Reason \ {"", "dispatch-lost"}
  BY DEF classifyRelease, Reason

\* Evaluate proceeds at the head the forge reports, with no verdict on it.
LEMMA ProceedMeans ==
  ASSUME NEW c, NEW f, NEW wakeSha, Evaluate(c, f, wakeSha).decision = "proceed"
  PROVE  Evaluate(c, f, wakeSha).sha = f.head /\ ~f.standing
<1>1. \A sha, label, code :
        /\ waiting(sha, label).decision = "waiting"
        /\ standdown(code, sha, label).decision = "standdown"
        /\ proceed(sha, label).sha = sha
  BY DEF waiting, standdown, proceed
<1>2. LabelAbsent(c, f).decision # "proceed"
  BY <1>1 DEF LabelAbsent
<1>3. InFlight(c, f).decision # "proceed"
  BY <1>1 DEF InFlight
<1>4. Evaluate(c, f, wakeSha) = Fresh(f)
  BY <1>1, <1>2, <1>3 DEF Evaluate
<1>5. Fresh(f).decision = "proceed"
  BY <1>4
<1>6. ~f.standing /\ Fresh(f) = proceed(f.head, TRUE)
  BY <1>1, <1>5 DEF Fresh
<1>7. proceed(f.head, TRUE).sha = f.head
  BY DEF proceed
<1>8. Evaluate(c, f, wakeSha) = proceed(f.head, TRUE)
  BY <1>4, <1>6
<1> QED  BY <1>6, <1>7, <1>8

--------------------------------------------------------------------------------
(***************************************************************************)
(* The forge, the runners and the clock: whatever they do, what the sweep  *)
(* holds stays as true as it was.                                          *)
(***************************************************************************)
LEMMA Bystander ==
  ASSUME SweepInv,
         att' \in [Head -> Attempt], jobs' \in [Head -> SUBSET JobState],
         verdict' = [h \in Head |-> verdict'[h]],
         host' \in [PR -> [head : Head, label : BOOLEAN, state : PRState]],
         NEW now, sw.now \subseteq now, sw' = [sw EXCEPT !.now = now],
         \A h \in Head : Same(att[h], att'[h]),
         \A h \in Head :
           /\ "live" \in jobs'[h] => "live" \in jobs[h]
           /\ "completed" \in jobs'[h] => "live" \in jobs[h] \/ "completed" \in jobs[h],
         \A h \in Head : verdict[h] # "none" => verdict'[h] # "none",
         sw.pc # "idle" => \A p \in PR : host'[p].head \in now
  PROVE  SweepInv' /\ Factual
<1> USE DEF SweepInv
<1>1. /\ sw'.pc = sw.pc /\ sw'.todo = sw.todo /\ sw'.claims = sw.claims
      /\ sw'.keepArmed = sw.keepArmed /\ sw'.releasedInA = sw.releasedInA
      /\ sw'.known = sw.known /\ sw'.alive = sw.alive /\ sw'.completed = sw.completed
      /\ sw'.cand = sw.cand /\ sw'.out = sw.out /\ sw'.stood = sw.stood /\ sw'.now = now
  BY DEF Typed, Fields
<1>2. Fields(sw')
  BY DEF Typed, Fields
<1>3. Typed'
  BY <1>1, <1>2 DEF Typed
<1>4. \A h \in Head :
        /\ att'[h].exists = att[h].exists /\ att'[h].pr = att[h].pr
        /\ att'[h].dispatched = att[h].dispatched /\ att'[h].lost = att[h].lost
        /\ att'[h].released = att[h].released /\ att'[h].reason = att[h].reason
        /\ att'[h].dead = att[h].dead
  BY DEF Same, Tame
<1>5. Rooted'
  BY <1>4 DEF Rooted
<1>6. Looked'
  BY <1>1, <1>4 DEF Looked, Answered
<1>7. Surveyed'
  BY <1>1 DEF Surveyed, Covers
<1>8. Aimed'
  BY <1>1 DEF Aimed
<1>9. NoneLost'
  BY <1>4 DEF NoneLost
<1>10. CancelledSameSweep'
  BY <1>1, <1>4 DEF CancelledSameSweep
<1>11. Factual
  <2>1. ASSUME NEW h \in Head  PROVE  ~(att'[h].dead > att[h].dead)
    <3>1. att[h].dead \in Nat /\ att'[h].dead = att[h].dead
      BY <1>4 DEF Typed, Attempt
    <3> QED  BY <3>1
  <2> QED  BY <2>1 DEF Factual
<1> QED  BY <1>3, <1>5, <1>6, <1>7, <1>8, <1>9, <1>10, <1>11

LEMMA SameRefl == \A a : Same(a, a)
  BY DEF Same, Tame

\* The events that leave the claims and the Jobs alone.
LEMMA ForgeFacts ==
  ASSUME SweepInv, UNCHANGED <<att, jobs>>,
         \/ \E p \in PR : \/ \E h \in Head : Push(p, h)
                          \/ SetLabel(p) \/ RemoveLabel(p)
                          \/ \E kind \in {"labeled", "label_updated"} : RequestReview(p, kind)
                          \/ \E st \in PRState : ChangeState(p, st)
         \/ \E h \in Head : \/ ContextsChange(h) \/ RunnerPosts(h)
                            \/ DispatchAges(h) \/ VerdictAges(h)
  PROVE  SweepInv' /\ Factual
<1>1. att \in [Head -> Attempt] /\ jobs \in [Head -> SUBSET JobState]
  BY DEF SweepInv, Typed
<1>2. verdict = [h \in Head |-> verdict[h]] /\ Fields(sw)
  BY DEF SweepInv, Typed
<1>3. host \in [PR -> [head : Head, label : BOOLEAN, state : PRState]]
  BY DEF SweepInv, Typed
<1>4. sw.pc # "idle" => \A p \in PR : host[p].head \in sw.now
  BY DEF SweepInv, Aimed
<1>5. sw = [sw EXCEPT !.now = sw.now]
  BY <1>2 DEF Fields
<1>6. \A h \in Head : Same(att[h], att'[h])
  BY SameRefl
<1>7. verdict' = [h \in Head |-> verdict'[h]]
      /\ \A h \in Head : verdict[h] # "none" => verdict'[h] # "none"
  BY <1>2 DEF Push, SetLabel, RemoveLabel, RequestReview, ChangeState, ContextsChange,
       RunnerPosts, DispatchAges, VerdictAges, forgeVars
<1>8. host' \in [PR -> [head : Head, label : BOOLEAN, state : PRState]]
  <2>1. ASSUME NEW p \in PR, NEW h \in Head, Push(p, h)
        PROVE  host' \in [PR -> [head : Head, label : BOOLEAN, state : PRState]]
    BY <1>3, <2>1 DEF Push
  <2>2. ASSUME NEW p \in PR, NEW st \in PRState,
               SetLabel(p) \/ RemoveLabel(p) \/ ChangeState(p, st)
        PROVE  host' \in [PR -> [head : Head, label : BOOLEAN, state : PRState]]
    BY <1>3, <2>2 DEF SetLabel, RemoveLabel, ChangeState
  <2>3. ASSUME NEW p \in PR, NEW kind, RequestReview(p, kind)
        PROVE  host' = host
    BY <2>3 DEF RequestReview
  <2>4. ASSUME NEW h \in Head,
               ContextsChange(h) \/ RunnerPosts(h) \/ DispatchAges(h) \/ VerdictAges(h)
        PROVE  host' = host
    BY <2>4 DEF ContextsChange, RunnerPosts, DispatchAges, VerdictAges, forgeVars
  <2> QED
    <3> HIDE DEF Push, SetLabel, RemoveLabel, RequestReview, ChangeState, ContextsChange,
          RunnerPosts, DispatchAges, VerdictAges
    <3> QED  BY <1>3, <2>1, <2>2, <2>3, <2>4
<1>9. CASE \E p \in PR : \E h \in Head : Push(p, h)
  <2>1. PICK p \in PR, h \in Head : Push(p, h)
    BY <1>9
  <2> DEFINE now == IF sw.pc = "idle" THEN sw.now ELSE sw.now \cup {h}
  <2>2. sw' = [sw EXCEPT !.now = now] /\ sw.now \subseteq now
    BY <2>1, <1>5 DEF Push
  <2>3. sw.pc # "idle" => \A q \in PR : host'[q].head \in now
    BY <2>1, <1>3, <1>4 DEF Push
  <2> HIDE DEF now
  <2> QED  BY <1>1, <1>6, <1>7, <1>8, <2>2, <2>3, Bystander
<1>10. CASE ~\E p \in PR : \E h \in Head : Push(p, h)
  <2>1. sw' = sw /\ \A q \in PR : host'[q].head = host[q].head
    BY <1>3, <1>10 DEF SetLabel, RemoveLabel, RequestReview, ChangeState, ContextsChange,
       RunnerPosts, DispatchAges, VerdictAges, forgeVars
  <2>2. sw' = [sw EXCEPT !.now = sw.now]
    BY <2>1, <1>5
  <2>3. sw.pc # "idle" => \A q \in PR : host'[q].head \in sw.now
    BY <2>1, <1>4
  <2> QED  BY <1>1, <1>6, <1>7, <1>8, <2>2, <2>3, Bystander
<1> QED  BY <1>9, <1>10

\* A Job ends, a finished one expires, a claim's clocks run.
LEMMA RunnerFacts ==
  ASSUME SweepInv, UNCHANGED <<verdict, host, sw>>,
         \E h \in Head :
           \/ /\ UNCHANGED att
              /\ \/ \E st \in {{"completed"}, {"failed"}, {}} : RunnerEnds(h, st)
                 \/ \E st \in JobState : JobExpires(h, st)
           \/ /\ UNCHANGED jobs
              /\ ClockAges(h) \/ DismissalExpires(h)
  PROVE  SweepInv' /\ Factual
<1>1. att \in [Head -> Attempt] /\ jobs \in [Head -> SUBSET JobState]
  BY DEF SweepInv, Typed
<1>2. verdict = [h \in Head |-> verdict[h]] /\ Fields(sw)
  BY DEF SweepInv, Typed
<1>3. host \in [PR -> [head : Head, label : BOOLEAN, state : PRState]]
  BY DEF SweepInv, Typed
<1>4. sw.pc # "idle" => \A p \in PR : host[p].head \in sw.now
  BY DEF SweepInv, Aimed
<1>5. sw = [sw EXCEPT !.now = sw.now]
  BY <1>2 DEF Fields
<1>6. PICK g \in Head :
        \/ /\ UNCHANGED att
           /\ \/ \E st \in {{"completed"}, {"failed"}, {}} : RunnerEnds(g, st)
              \/ \E st \in JobState : JobExpires(g, st)
        \/ /\ UNCHANGED jobs
           /\ ClockAges(g) \/ DismissalExpires(g)
  OBVIOUS
<1>7. att' \in [Head -> Attempt] /\ \A h \in Head : Same(att[h], att'[h])
  <2>1. CASE UNCHANGED att
    BY <1>1, <2>1, SameRefl
  <2>2. CASE ClockAges(g)
    <3>1. [att[g] EXCEPT !.clock = "old"] \in Attempt
      BY <1>1 DEF Attempt, Clock
    <3>2. Same(att[g], [att[g] EXCEPT !.clock = "old"])
      BY <1>1 DEF Attempt, Same, Tame
    <3>3. att' = [att EXCEPT ![g] = [att[g] EXCEPT !.clock = "old"]]
      BY <2>2 DEF ClockAges
    <3> QED  BY <1>1, <3>1, <3>2, <3>3, SameRefl
  <2>3. CASE DismissalExpires(g)
    <3>1. [att[g] EXCEPT !.dismissed = FALSE] \in Attempt
      BY <1>1 DEF Attempt
    <3>2. Same(att[g], [att[g] EXCEPT !.dismissed = FALSE])
      BY <1>1 DEF Attempt, Same, Tame
    <3>3. att' = [att EXCEPT ![g] = [att[g] EXCEPT !.dismissed = FALSE]]
      BY <2>3 DEF DismissalExpires
    <3> QED  BY <1>1, <3>1, <3>2, <3>3, SameRefl
  <2> QED  BY <1>6, <2>1, <2>2, <2>3
<1>8. jobs' \in [Head -> SUBSET JobState]
      /\ \A h \in Head :
           /\ "live" \in jobs'[h] => "live" \in jobs[h]
           /\ "completed" \in jobs'[h] => "live" \in jobs[h] \/ "completed" \in jobs[h]
  <2>1. CASE UNCHANGED jobs
    BY <1>1, <2>1
  <2>2. CASE \E st \in {{"completed"}, {"failed"}, {}} : RunnerEnds(g, st)
    <3>1. PICK st \in {{"completed"}, {"failed"}, {}} : RunnerEnds(g, st)
      BY <2>2
    <3> QED  BY <1>1, <3>1 DEF RunnerEnds, JobState
  <2>3. CASE \E st \in JobState : JobExpires(g, st)
    <3>1. PICK st \in JobState : JobExpires(g, st)
      BY <2>3
    <3> QED  BY <1>1, <3>1 DEF JobExpires, JobState
  <2> QED  BY <1>6, <2>1, <2>2, <2>3
<1>9. sw' = [sw EXCEPT !.now = sw.now]
  BY <1>5
<1> QED  BY <1>2, <1>3, <1>4, <1>7, <1>8, <1>9, Bystander

LEMMA EnvironmentStep ==
  ASSUME SweepInv, NEW kinds, Environment(kinds)
  PROVE  SweepInv' /\ Factual
<1>1. CASE \/ \E p \in PR : \/ \E h \in Head : Push(p, h)
                            \/ SetLabel(p) \/ RemoveLabel(p)
                            \/ \E kind \in {"labeled", "label_updated"} : RequestReview(p, kind)
                            \/ \E st \in PRState : ChangeState(p, st)
           \/ \E h \in Head : \/ ContextsChange(h) \/ RunnerPosts(h)
                              \/ DispatchAges(h) \/ VerdictAges(h)
  <2>1. UNCHANGED <<att, jobs>>
    BY <1>1 DEF Push, SetLabel, RemoveLabel, RequestReview, ChangeState, ContextsChange,
       RunnerPosts, DispatchAges, VerdictAges, claimVars
  <2> QED  BY <1>1, <2>1, ForgeFacts
<1>2. CASE \E h \in Head : \/ \E st \in {{"completed"}, {"failed"}, {}} : RunnerEnds(h, st)
                           \/ \E st \in JobState : JobExpires(h, st)
                           \/ ClockAges(h) \/ DismissalExpires(h)
  <2>1. PICK h \in Head : \/ \E st \in {{"completed"}, {"failed"}, {}} : RunnerEnds(h, st)
                          \/ \E st \in JobState : JobExpires(h, st)
                          \/ ClockAges(h) \/ DismissalExpires(h)
    BY <1>2
  <2>2. UNCHANGED <<verdict, host, sw>>
    BY <2>1 DEF RunnerEnds, JobExpires, ClockAges, DismissalExpires, forgeVars
  <2>3. CASE \/ \E st \in {{"completed"}, {"failed"}, {}} : RunnerEnds(h, st)
             \/ \E st \in JobState : JobExpires(h, st)
    <3>1. UNCHANGED att
      BY <2>3 DEF RunnerEnds, JobExpires, claimVars
    <3> QED  BY <2>2, <2>3, <3>1, RunnerFacts
  <2>4. CASE ClockAges(h) \/ DismissalExpires(h)
    <3>1. UNCHANGED jobs
      BY <2>4 DEF ClockAges, DismissalExpires
    <3> QED  BY <2>2, <2>4, <3>1, RunnerFacts
  <2> QED  BY <2>1, <2>3, <2>4
<1> QED  BY <1>1, <1>2 DEF Environment

--------------------------------------------------------------------------------
(***************************************************************************)
(* The sweep's steps that write no claim.                                  *)
(***************************************************************************)
LEMMA QuietStep ==
  ASSUME SweepInv, UNCHANGED <<att, jobs, verdict, host>>,
         Fields(sw'), sw'.pc \in PC, sw'.known \in {"no", "yes", "failed"},
         Looked', Surveyed', Aimed', CancelledSameSweep'
  PROVE  SweepInv' /\ Factual
<1>1. Typed'
  BY DEF SweepInv, Typed
<1>2. Rooted' /\ NoneLost'
  BY DEF SweepInv, Rooted, NoneLost
<1>3. Factual
  <2>1. ASSUME NEW h \in Head  PROVE  ~(att'[h].dead > att[h].dead)
    <3>1. att[h].dead \in Nat /\ att'[h].dead = att[h].dead
      BY DEF SweepInv, Typed, Attempt
    <3> QED  BY <3>1
  <2> QED  BY <2>1 DEF Factual
<1> QED  BY <1>1, <1>2, <1>3 DEF SweepInv

\* A sweep at rest holds nothing.
LEMMA AtRest ==
  ASSUME sw' = Idle
  PROVE  /\ Fields(sw') /\ sw'.pc = "idle" /\ sw'.known = "no" /\ sw'.pc \in PC
         /\ Looked' /\ Surveyed' /\ Aimed' /\ CancelledSameSweep'
<1>1. /\ Fields(sw') /\ sw'.pc = "idle" /\ sw'.known = "no" /\ sw'.claims = {}
      /\ sw'.out = {} /\ sw'.stood = {} /\ sw'.pc \in PC
  BY DEF Idle, Fields, PC
<1>2. Looked' /\ Surveyed' /\ Aimed' /\ CancelledSameSweep'
  BY <1>1 DEF Looked, Surveyed, Covers, Aimed, CancelledSameSweep
<1> QED  BY <1>1, <1>2

LEMMA StartSweepStep ==
  ASSUME SweepInv, NEW w, StartSweep(w)
  PROVE  SweepInv' /\ Factual
<1> DEFINE listed == {h \in Head : Listed(att[h])}
           stood == {h \in Head : verdict[h] # "none"}
           now == {host[p].head : p \in PR}
<1>1. UNCHANGED <<att, jobs, verdict, host>>
  BY DEF StartSweep, claimVars
<1>2. sw' = [Idle EXCEPT !.pc = "claims", !.wake = w, !.claims = listed,
                         !.todo = listed, !.memo = refusals, !.stood = stood, !.now = now]
  BY DEF StartSweep
<1> HIDE DEF listed, stood, now
<1>3. /\ Fields(sw') /\ sw'.pc = "claims" /\ sw'.known = "no" /\ sw'.claims = listed
      /\ sw'.todo = listed /\ sw'.out = {} /\ sw'.stood = stood /\ sw'.now = now
  BY <1>2 DEF Fields, Idle
<1>4. \A h \in listed : h \in Head /\ att[h].exists /\ att[h].pr \in PR
  BY DEF listed, Listed, SweepInv, Typed, Attempt
<1>5. Looked'
  BY <1>1, <1>3, <1>4 DEF Looked, Answered
<1>6. Surveyed'
  BY <1>3 DEF Surveyed, Covers
<1>7. Aimed'
  BY <1>1, <1>3 DEF Aimed, stood, now
<1>8. CancelledSameSweep'
  BY <1>3 DEF CancelledSameSweep
<1>9. sw'.pc \in PC /\ sw'.known \in {"no", "yes", "failed"}
  BY <1>3 DEF PC
<1> QED  BY <1>1, <1>3, <1>5, <1>6, <1>7, <1>8, <1>9, QuietStep

LEMMA SweepCandidatesStep ==
  ASSUME SweepInv, NEW ok \in Ok, SweepCandidates(ok)
  PROVE  SweepInv' /\ Factual
<1> DEFINE listed == {h \in Head : Listed(att[h])}
<1>1. UNCHANGED <<att, jobs, verdict, host>> /\ sw.pc = "list"
  BY DEF SweepCandidates, claimVars, forgeVars
<1>2. PICK free, cands :
        sw' = [sw EXCEPT !.pc = "take", !.claims = listed, !.free = free, !.cands = cands]
  BY DEF SweepCandidates
<1> HIDE DEF listed
<1>3. /\ Fields(sw') /\ sw'.pc = "take" /\ sw'.known = sw.known /\ sw'.claims = listed
      /\ sw'.alive = sw.alive /\ sw'.out = sw.out /\ sw'.stood = sw.stood
      /\ sw'.now = sw.now
  BY <1>2 DEF Fields, SweepInv, Typed
<1>4. \A h \in listed : h \in Head /\ att[h].exists
  BY DEF listed, Listed
<1>5. Looked'
  BY <1>1, <1>3, <1>4 DEF Looked
<1>6. Surveyed'
  BY <1>1, <1>3 DEF Surveyed, Covers, SweepInv
<1>7. Aimed'
  BY <1>1, <1>3 DEF Aimed, SweepInv
<1>8. CancelledSameSweep'
  BY <1>3 DEF CancelledSameSweep
<1>9. sw'.pc \in PC /\ sw'.known \in {"no", "yes", "failed"}
  BY <1>3 DEF PC, SweepInv, Typed
<1> QED  BY <1>1, <1>3, <1>5, <1>6, <1>7, <1>8, <1>9, QuietStep

LEMMA DropCandidateStep ==
  ASSUME SweepInv, NEW p \in PR, NEW failed \in SUBSET Failure, DropCandidate(p, failed)
  PROVE  SweepInv' /\ Factual
<1>1. /\ UNCHANGED <<att, jobs, verdict, host>>
      /\ sw.pc = "take" /\ sw' = [sw EXCEPT !.cands = sw.cands \ {p}]
  BY DEF DropCandidate, NextCandidate, claimVars, forgeVars
<1>3. /\ Fields(sw') /\ sw'.pc = "take" /\ sw'.known = sw.known /\ sw'.claims = sw.claims
      /\ sw'.alive = sw.alive /\ sw'.out = sw.out /\ sw'.stood = sw.stood
      /\ sw'.now = sw.now
  BY <1>1 DEF Fields, SweepInv, Typed
<1>5. Looked'
  BY <1>1, <1>3 DEF Looked, SweepInv
<1>6. Surveyed'
  BY <1>1, <1>3 DEF Surveyed, Covers, SweepInv
<1>7. Aimed'
  BY <1>1, <1>3 DEF Aimed, SweepInv
<1>8. CancelledSameSweep'
  BY <1>3 DEF CancelledSameSweep
<1>9. sw'.pc \in PC /\ sw'.known \in {"no", "yes", "failed"}
  BY <1>3 DEF PC, SweepInv, Typed
<1> QED  BY <1>1, <1>3, <1>5, <1>6, <1>7, <1>8, <1>9, QuietStep

LEMMA SweepRecordStep ==
  ASSUME SweepInv, NEW ok \in Ok, SweepRecord(ok)
  PROVE  SweepInv' /\ Factual
<1>1. UNCHANGED <<att, jobs, verdict, host>> /\ sw.pc = "record"
  BY DEF SweepRecord, claimVars, forgeVars
<1>2. CASE sw.out = {}
  BY <1>1, <1>2, AtRest, QuietStep DEF SweepRecord
<1>3. CASE sw.out # {}
  <2>1. sw' = [Idle EXCEPT !.pc = "dispatch", !.out = sw.out, !.stood = sw.stood,
                           !.now = sw.now]
    BY <1>3 DEF SweepRecord
  <2>2. /\ Fields(sw') /\ sw'.pc = "dispatch" /\ sw'.known = "no" /\ sw'.claims = {}
        /\ sw'.out = sw.out /\ sw'.stood = sw.stood /\ sw'.now = sw.now
    BY <2>1 DEF Fields, Idle
  <2>3. Looked' /\ Surveyed' /\ CancelledSameSweep'
    BY <2>2 DEF Looked, Surveyed, Covers, CancelledSameSweep
  <2>4. Aimed'
    BY <1>1, <2>2 DEF Aimed, SweepInv
  <2>5. sw'.pc \in PC
    BY <2>2 DEF PC
  <2> QED  BY <1>1, <2>2, <2>3, <2>4, <2>5, QuietStep
<1> QED  BY <1>2, <1>3

LEMMA DispatchListStep ==
  ASSUME SweepInv, NEW ok \in Ok, DispatchList(ok)
  PROVE  SweepInv' /\ Factual
<1>1. UNCHANGED <<att, jobs, verdict, host>> /\ sw.pc = "dispatch"
  BY DEF DispatchList, claimVars, forgeVars
<1>2. CASE sw' = Idle
  BY <1>1, <1>2, AtRest, QuietStep
<1>3. CASE sw' # Idle
  <2>1. PICK alive : sw' = [sw EXCEPT !.pc = "create", !.alive = alive]
    BY <1>3 DEF DispatchList
  <2>2. /\ Fields(sw') /\ sw'.pc = "create" /\ sw'.known = sw.known
        /\ sw'.claims = sw.claims
        /\ sw'.out = sw.out /\ sw'.stood = sw.stood /\ sw'.now = sw.now
    BY <2>1 DEF Fields, SweepInv, Typed
  <2>3. sw'.known = "no"
    BY <1>1, <2>2 DEF SweepInv, Surveyed
  <2>4. Looked'
    BY <1>1, <2>2 DEF Looked, SweepInv
  <2>5. Surveyed' /\ CancelledSameSweep'
    BY <2>2, <2>3 DEF Surveyed, Covers, CancelledSameSweep
  <2>6. Aimed'
    BY <1>1, <2>2 DEF Aimed, SweepInv
  <2>7. sw'.pc \in PC
    BY <2>2 DEF PC
  <2> QED  BY <1>1, <2>2, <2>3, <2>4, <2>5, <2>6, <2>7, QuietStep
<1> QED  BY <1>2, <1>3

LEMMA CrashStep ==
  ASSUME SweepInv, Crash
  PROVE  SweepInv' /\ Factual
<1>1. UNCHANGED <<att, jobs, verdict, host>> /\ sw' = Idle
  BY DEF Crash, claimVars, forgeVars
<1> QED  BY <1>1, AtRest, QuietStep

--------------------------------------------------------------------------------
(***************************************************************************)
(* Section A and the passes over its claims.                               *)
(***************************************************************************)
\* The one Job list, read now if it was not read before.
LEMMA ListingFacts ==
  ASSUME SweepInv, NEW ok \in Ok
  PROVE  LET w == Listing(sw, ok)
         IN  /\ Fields(w) /\ w.pc = sw.pc /\ w.wake = sw.wake /\ w.todo = sw.todo
             /\ w.claims = sw.claims /\ w.keepArmed = sw.keepArmed
             /\ w.releasedInA = sw.releasedInA /\ w.out = sw.out /\ w.stood = sw.stood
             /\ w.now = sw.now /\ w.known \in {"yes", "failed"} /\ Covers(w)
             /\ Ok = {TRUE} => w.known = "yes"
<1> DEFINE alive == IF ok THEN {h \in Head : "live" \in jobs[h]} ELSE {}
           completed == IF ok THEN {h \in Head : "completed" \in jobs[h]} ELSE {}
           known == IF ok THEN "yes" ELSE "failed"
           w == Listing(sw, ok)
<1>1. Fields(sw) /\ sw.known \in {"no", "yes", "failed"} /\ Covers(sw)
      /\ (Ok = {TRUE} => sw.known # "failed")
  BY DEF SweepInv, Typed, Surveyed
<1>2. ok \in BOOLEAN
  BY SweepAssumption
<1>3. CASE sw.known # "no"
  <2>1. w = sw
    BY <1>3 DEF Listing
  <2> QED  BY <1>1, <1>3, <2>1
<1>4. CASE sw.known = "no"
  <2>1. w = [sw EXCEPT !.known = known, !.alive = alive, !.completed = completed]
    BY <1>4 DEF Listing
  <2>2. known \in {"yes", "failed"} /\ (Ok = {TRUE} => known = "yes")
    BY <1>2
  <2>3. known = "yes" => \A h \in Head : /\ "live" \in jobs[h] => h \in alive
                                         /\ "completed" \in jobs[h] => h \in completed
    BY <1>2
  <2> HIDE DEF known, alive, completed, w
  <2>4. /\ Fields(w) /\ w.pc = sw.pc /\ w.wake = sw.wake /\ w.todo = sw.todo
        /\ w.claims = sw.claims /\ w.keepArmed = sw.keepArmed
        /\ w.releasedInA = sw.releasedInA /\ w.out = sw.out /\ w.stood = sw.stood
        /\ w.now = sw.now /\ w.known = known /\ w.alive = alive
        /\ w.completed = completed
    BY <1>1, <2>1 DEF Fields
  <2>5. Covers(w)
    BY <2>3, <2>4 DEF Covers
  <2>6. w.known \in {"yes", "failed"} /\ (Ok = {TRUE} => w.known = "yes")
    BY <2>2, <2>4
  <2> QED  BY <2>4, <2>5, <2>6 DEF w
<1> QED  BY <1>3, <1>4

\* Section A is done with claim h, which it may have released as b.
LEMMA SectionA ==
  ASSUME SweepInv, sw.pc = "claims", UNCHANGED <<jobs, verdict, host>>,
         NEW h \in Head, h \in sw.todo,
         NEW b \in Attempt, Tame(att[h], b),
         b.dead # att[h].dead => b.reason # "dispatch-lost",
         att' = [att EXCEPT ![h] = b],
         Fields(sw'), sw'.pc = "claims", sw'.known \in {"no", "yes", "failed"},
         sw'.todo = sw.todo \ {h}, sw'.claims = sw.claims,
         sw.keepArmed \subseteq sw'.keepArmed, sw.releasedInA \subseteq sw'.releasedInA,
         ~att[h].dispatched => h \in sw'.releasedInA \/ att[h].pr \in sw'.keepArmed,
         Covers(sw'), Ok = {TRUE} => sw'.known # "failed",
         sw'.stood = sw.stood, sw'.now = sw.now, sw'.out \subseteq sw.now \ sw.stood
  PROVE  SweepInv' /\ Factual
<1>1. att \in [Head -> Attempt] /\ att' \in [Head -> Attempt]
  BY DEF SweepInv, Typed
<1>2. \A g \in Head : /\ att'[g].exists = att[g].exists /\ att'[g].pr = att[g].pr
                      /\ att'[g].dispatched = att[g].dispatched /\ att'[g].lost = att[g].lost
  BY <1>1 DEF Tame
<1>3. \A g \in Head : g # h => att'[g] = att[g]
  BY <1>1
<1>4. att'[h] = b
  BY <1>1
<1>5. Typed'
  BY <1>1 DEF SweepInv, Typed, PC
<1>6. Rooted'
  <2>1. att[h].exists
    BY DEF SweepInv, Looked
  <2> QED  BY <1>2, <1>3, <2>1 DEF SweepInv, Rooted
<1>7. Looked'
  <2>1. sw.claims \subseteq Head /\ (\A g \in sw.claims : att'[g].exists)
    BY <1>2 DEF SweepInv, Looked
  <2>2. sw'.todo \subseteq sw.claims /\ (\A g \in sw.claims : att'[g].pr \in PR)
    BY <1>2 DEF SweepInv, Looked
  <2>3. ASSUME NEW g \in sw.claims, g \notin sw'.todo, ~att'[g].dispatched
        PROVE  g \in sw'.releasedInA \/ att'[g].pr \in sw'.keepArmed
    <3>1. CASE g = h
      BY <1>2, <2>3, <3>1
    <3>2. CASE g # h
      <4>1. g \in sw.claims \ sw.todo /\ ~att[g].dispatched /\ att'[g].pr = att[g].pr
        BY <1>3, <2>1, <2>3, <3>2
      <4> QED  BY <4>1 DEF SweepInv, Looked, Answered
    <3> QED  BY <3>1, <3>2
  <2> QED  BY <2>1, <2>2, <2>3 DEF Looked, Answered
<1>8. Surveyed'
  BY DEF Surveyed, Covers
<1>9. Aimed'
  BY DEF SweepInv, Aimed
<1>10. NoneLost'
  BY <1>2 DEF SweepInv, NoneLost
<1>11. CancelledSameSweep'
  BY DEF CancelledSameSweep
<1>12. Factual
  <2>1. ASSUME NEW g \in Head, att'[g].reason = "dispatch-lost"
        PROVE  ~(att'[g].dead > att[g].dead)
    <3>1. att[g].dead \in Nat /\ att'[g].dead = att[g].dead
      BY <1>1, <1>3, <1>4, <2>1 DEF Attempt
    <3> QED  BY <3>1
  <2> QED  BY <2>1 DEF Factual
<1> QED  BY <1>5, <1>6, <1>7, <1>8, <1>9, <1>10, <1>11, <1>12 DEF SweepInv

LEMMA SweepQueuedStep ==
  ASSUME SweepInv, NEW h \in Head, NEW failed \in SUBSET Failure, NEW ok \in Ok,
         SweepQueued(h, failed, ok)
  PROVE  SweepInv' /\ Factual
<1> DEFINE p == att[h].pr
           f == View(p, h, failed)
           r == Evaluate(ClaimParams(h), f, NoHead)
           proceeds == r.decision = "proceed" /\ r.sha = h
           spent == /\ att[h].lost >= MaxDispatchLostReleases
                    /\ DispatchLostWindowOpen(att[h])
           releases == ~WakeOwns(p) /\ ~proceeds /\ r.decision # "waiting"
           reason == IF r.decision = "proceed" THEN "superseded"
                     ELSE classifyRelease(r.code)
           keepArmed == IF releases THEN sw.keepArmed ELSE sw.keepArmed \cup {p}
           releasedInA == IF releases \/ (proceeds /\ spent /\ ~WakeOwns(p))
                          THEN sw.releasedInA \cup {h} ELSE sw.releasedInA
           out == IF proceeds /\ ~spent /\ ~WakeOwns(p) THEN sw.out \cup {h} ELSE sw.out
           b == IF releases /\ ok THEN releaseClaim(h, reason) ELSE att[h]
<1>1. /\ sw.pc = "claims" /\ h \in sw.todo /\ UNCHANGED <<jobs, verdict, host>>
      /\ att' = IF releases /\ ok THEN [att EXCEPT ![h] = releaseClaim(h, reason)] ELSE att
      /\ sw' = [sw EXCEPT !.todo = sw.todo \ {h}, !.keepArmed = keepArmed,
                          !.releasedInA = releasedInA, !.out = out]
  BY DEF SweepQueued, forgeVars
<1>2. reason \in Reason \ {"", "dispatch-lost"}
  BY ReleaseReason DEF Reason
<1>3. att[h] \in Attempt /\ att = [att EXCEPT ![h] = att[h]]
  BY DEF SweepInv, Typed
<1>4. keepArmed \in {sw.keepArmed, sw.keepArmed \cup {p}}
      /\ releasedInA \in {sw.releasedInA, sw.releasedInA \cup {h}}
      /\ (h \in releasedInA \/ p \in keepArmed)
  OBVIOUS
<1>5. out \subseteq sw.now \ sw.stood
  <2>1. sw.out \subseteq sw.now \ sw.stood
    BY DEF SweepInv, Aimed
  <2>2. ASSUME proceeds PROVE h \in sw.now /\ h \notin sw.stood
    <3>1. p \in PR
      BY <1>1 DEF SweepInv, Looked
    <3>2. r.sha = f.head /\ ~f.standing
      BY <2>2, ProceedMeans
    <3>3. f.head = host[p].head /\ f.standing = (verdict[host[p].head] # "none")
      BY DEF View
    <3>4. h = host[p].head /\ verdict[h] = "none"
      BY <2>2, <3>2, <3>3
    <3> QED  BY <1>1, <3>1, <3>4 DEF SweepInv, Aimed
  <2> QED  BY <2>1, <2>2
<1>6. att' = [att EXCEPT ![h] = b]
  BY <1>1, <1>3
<1>7. b \in Attempt /\ Tame(att[h], b) /\ (b.dead # att[h].dead => b.reason # "dispatch-lost")
  <2>1. /\ releaseClaim(h, reason) \in Attempt /\ Tame(att[h], releaseClaim(h, reason))
        /\ releaseClaim(h, reason).dead = att[h].dead
    <3> HIDE DEF reason
    <3> QED  BY <1>2, <1>3, ReleaseFacts DEF releaseClaim
  <2> HIDE DEF reason, releases
  <2>2. Tame(att[h], att[h])
    BY DEF Tame
  <2> QED  BY <1>3, <2>1, <2>2
<1> HIDE DEF keepArmed, releasedInA, out, b
<1>8. /\ Fields(sw') /\ sw'.pc = sw.pc /\ sw'.todo = sw.todo \ {h} /\ sw'.claims = sw.claims
      /\ sw'.keepArmed = keepArmed /\ sw'.releasedInA = releasedInA /\ sw'.out = out
      /\ sw'.known = sw.known /\ sw'.alive = sw.alive /\ sw'.completed = sw.completed
      /\ sw'.stood = sw.stood /\ sw'.now = sw.now
  BY <1>1 DEF SweepInv, Typed, Fields
<1>9. Covers(sw') /\ sw'.known \in {"no", "yes", "failed"} /\ (Ok = {TRUE} => sw'.known # "failed")
  BY <1>8 DEF SweepInv, Typed, Surveyed, Covers
<1>10. /\ sw.keepArmed \subseteq sw'.keepArmed /\ sw.releasedInA \subseteq sw'.releasedInA
       /\ h \in sw'.releasedInA \/ att[h].pr \in sw'.keepArmed
  BY <1>4, <1>8
<1>11. sw'.out \subseteq sw.now \ sw.stood /\ sw'.pc = "claims"
  BY <1>1, <1>5, <1>8
<1> QED  BY <1>1, <1>6, <1>7, <1>8, <1>9, <1>10, <1>11, SectionA

LEMMA SweepDispatchedStep ==
  ASSUME SweepInv, NEW h \in Head, NEW failed \in SUBSET Failure, NEW listed \in Ok,
         NEW ok \in Ok, SweepDispatched(h, failed, listed, ok)
  PROVE  SweepInv' /\ Factual
<1> DEFINE r == Evaluate(ClaimParams(h), View(att[h].pr, h, failed), NoHead)
           dead == r.code = "dispatch-dead"
           w == IF dead THEN Listing(sw, listed) ELSE sw
           releases == /\ ok /\ r.decision = "standdown" /\ ~(dead /\ h \in w.alive)
           c == IF dead THEN releaseDeadClaim(h, "dispatch-timeout")
                ELSE releaseClaim(h, classifyRelease(r.code))
           b == IF ~releases THEN att[h] ELSE c
<1>1. /\ sw.pc = "claims" /\ h \in sw.todo /\ att[h].dispatched
      /\ UNCHANGED <<jobs, verdict, host>>
      /\ att' = IF ~releases THEN att ELSE [att EXCEPT ![h] = c]
      /\ sw' = [w EXCEPT !.todo = w.todo \ {h}]
  BY DEF SweepDispatched, forgeVars
<1>2. att[h] \in Attempt /\ att = [att EXCEPT ![h] = att[h]]
  BY DEF SweepInv, Typed
<1>3. att' = [att EXCEPT ![h] = b]
  BY <1>1, <1>2
<1>4. c \in Attempt /\ Tame(att[h], c) /\ (c.dead # att[h].dead => c.reason # "dispatch-lost")
  <2>1. "dispatch-timeout" \in Reason /\ classifyRelease(r.code) \in Reason \ {"", "dispatch-lost"}
    BY ReleaseReason DEF Reason
  <2>2. /\ releaseDeadClaim(h, "dispatch-timeout") \in Attempt
        /\ Tame(att[h], releaseDeadClaim(h, "dispatch-timeout"))
        /\ releaseDeadClaim(h, "dispatch-timeout").dead # att[h].dead
             => releaseDeadClaim(h, "dispatch-timeout").reason = "dispatch-timeout"
    BY <1>2, <2>1, DeadFacts DEF releaseDeadClaim
  <2>3. /\ releaseClaim(h, classifyRelease(r.code)) \in Attempt
        /\ Tame(att[h], releaseClaim(h, classifyRelease(r.code)))
        /\ releaseClaim(h, classifyRelease(r.code)).dead = att[h].dead
    <3> DEFINE reason == classifyRelease(r.code)
    <3>1. reason \in Reason \ {"", "dispatch-lost"}
      BY <2>1
    <3> HIDE DEF reason
    <3>2. /\ releaseClaim(h, reason) \in Attempt /\ Tame(att[h], releaseClaim(h, reason))
          /\ releaseClaim(h, reason).dead = att[h].dead
      BY <1>2, <3>1, ReleaseFacts DEF releaseClaim
    <3> QED  BY <3>2 DEF reason
  <2> HIDE DEF r
  <2> QED  BY <2>2, <2>3
<1>5. b \in Attempt /\ Tame(att[h], b) /\ (b.dead # att[h].dead => b.reason # "dispatch-lost")
  <2> HIDE DEF c, releases
  <2>1. Tame(att[h], att[h])
    BY DEF Tame
  <2> QED  BY <1>2, <1>4, <2>1
<1>6. /\ Fields(w) /\ w.pc = "claims" /\ w.todo = sw.todo /\ w.claims = sw.claims
      /\ w.keepArmed = sw.keepArmed /\ w.releasedInA = sw.releasedInA /\ w.out = sw.out
      /\ w.stood = sw.stood /\ w.now = sw.now /\ w.known \in {"no", "yes", "failed"}
      /\ Covers(w) /\ (Ok = {TRUE} => w.known # "failed")
  <2>1. CASE dead
    <3> DEFINE l == Listing(sw, listed)
    <3>1. /\ Fields(l) /\ l.pc = sw.pc /\ l.todo = sw.todo /\ l.claims = sw.claims
          /\ l.keepArmed = sw.keepArmed /\ l.releasedInA = sw.releasedInA /\ l.out = sw.out
          /\ l.stood = sw.stood /\ l.now = sw.now /\ l.known \in {"yes", "failed"}
          /\ Covers(l) /\ (Ok = {TRUE} => l.known = "yes")
      BY ListingFacts
    <3>2. w = l
      BY <2>1
    <3> HIDE DEF l, w
    <3> QED  BY <1>1, <3>1, <3>2
  <2>2. CASE ~dead
    <3>1. w = sw
      BY <2>2
    <3> QED  BY <1>1, <3>1 DEF SweepInv, Typed, Surveyed
  <2> QED  BY <2>1, <2>2
<1> HIDE DEF w, b
<1>7. /\ Fields(sw') /\ sw'.pc = w.pc /\ sw'.todo = w.todo \ {h} /\ sw'.claims = w.claims
      /\ sw'.keepArmed = w.keepArmed /\ sw'.releasedInA = w.releasedInA /\ sw'.out = w.out
      /\ sw'.known = w.known /\ sw'.alive = w.alive /\ sw'.completed = w.completed
      /\ sw'.stood = w.stood /\ sw'.now = w.now
  BY <1>1, <1>6 DEF Fields
<1>8. Covers(sw')
  BY <1>6, <1>7 DEF Covers
<1>9. sw'.out \subseteq sw.now \ sw.stood
  BY <1>6, <1>7 DEF SweepInv, Aimed
<1> QED  BY <1>1, <1>3, <1>5, <1>6, <1>7, <1>8, <1>9, SectionA

\* The job-death pass charges only claims whose Jobs are gone or failed, and the
\* never-dispatched pass finds no claim that section A has not answered for.
LEMMA SweepDeathsStep ==
  ASSUME SweepInv, NEW ok \in Ok, SweepDeaths(ok)
  PROVE  SweepInv' /\ Factual
<1> DEFINE w == Listing(sw, ok)
           Doomed == IF w.known = "yes" THEN Died(w) ELSE {}
           Forgotten == IF w.known = "yes" THEN NeverDispatched(w) ELSE {}
<1>1. /\ sw.pc = "claims" /\ sw.todo = {} /\ UNCHANGED <<jobs, verdict, host>>
      /\ sw' = [w EXCEPT !.pc = "list", !.claims = {}, !.completed = {},
                         !.keepArmed = {}, !.releasedInA = {}]
  BY DEF SweepDeaths, forgeVars
<1>2. PICK died \in Succeeded(Doomed), lost \in Succeeded(Forgotten) :
        att' = [h \in Head |->
                  IF h \in died THEN releaseDeadClaim(h, "dispatch-lost")
                  ELSE IF h \in lost THEN releaseClaim(h, "dispatch-lost")
                  ELSE att[h]]
  BY DEF SweepDeaths
<1>3. /\ Fields(w) /\ w.pc = "claims" /\ w.claims = sw.claims
      /\ w.keepArmed = sw.keepArmed /\ w.releasedInA = sw.releasedInA /\ w.out = sw.out
      /\ w.stood = sw.stood /\ w.now = sw.now /\ w.known \in {"yes", "failed"}
      /\ Covers(w) /\ (Ok = {TRUE} => w.known = "yes")
  BY <1>1, ListingFacts
<1> HIDE DEF w
<1>4. Forgotten = {}
  <2>1. \A h \in sw.claims : ~att[h].dispatched =>
          h \in sw.releasedInA \/ att[h].pr \in sw.keepArmed
    BY <1>1 DEF SweepInv, Looked, Answered
  <2> QED  BY <1>3, <2>1 DEF NeverDispatched
<1>5. lost = {}
  BY <1>2, <1>4 DEF Succeeded
<1>6. ASSUME NEW h \in died
      PROVE  h \in Head /\ att[h].exists /\ jobs[h] \subseteq {"failed"}
  <2>1. w.known = "yes" /\ h \in Died(w)
    BY <1>2, <1>6 DEF Succeeded
  <2>2. h \in sw.claims /\ h \notin w.alive /\ h \notin w.completed
    BY <1>3, <2>1 DEF Died
  <2>3. h \in Head /\ att[h].exists
    BY <2>2 DEF SweepInv, Looked
  <2>4. "live" \notin jobs[h] /\ "completed" \notin jobs[h]
    BY <1>3, <2>1, <2>2, <2>3 DEF Covers
  <2>5. jobs[h] \subseteq JobState
    BY <2>3 DEF SweepInv, Typed
  <2> QED  BY <2>3, <2>4, <2>5 DEF JobState
<1>7. ASSUME NEW h \in Head, h \notin died  PROVE  att'[h] = att[h]
  BY <1>2, <1>5, <1>7
<1>8. ASSUME NEW h \in died  PROVE  att'[h] \in Attempt /\ Tame(att[h], att'[h])
  <2>1. "dispatch-lost" \in Reason
    BY DEF Reason
  <2>2. att'[h] = releaseDeadClaim(h, "dispatch-lost")
    BY <1>2, <1>6, <1>8
  <2>3. att[h] \in Attempt
    BY <1>6, <1>8 DEF SweepInv, Typed
  <2> QED  BY <2>1, <2>2, <2>3, DeadFacts DEF releaseDeadClaim
<1>9. att \in [Head -> Attempt] /\ att' = [h \in Head |-> att'[h]]
  BY <1>2 DEF SweepInv, Typed
<1>10. att' \in [Head -> Attempt]
  <2>1. \A h \in Head : att'[h] \in Attempt
    BY <1>7, <1>8, <1>9
  <2> QED  BY <1>9, <2>1
<1>11. /\ Fields(sw') /\ sw'.pc = "list" /\ sw'.claims = {} /\ sw'.known = w.known
       /\ sw'.alive = w.alive /\ sw'.out = w.out /\ sw'.stood = w.stood
       /\ sw'.now = w.now
  BY <1>1, <1>3 DEF Fields
<1>12. Typed'
  BY <1>1, <1>3, <1>10, <1>11 DEF SweepInv, Typed, PC
<1>13. Rooted'
  BY <1>6, <1>7, <1>8 DEF SweepInv, Rooted, Tame
<1>14. Looked'
  BY <1>11 DEF Looked
<1>15. Surveyed'
  BY <1>1, <1>3, <1>11 DEF Surveyed, Covers
<1>16. Aimed'
  BY <1>1, <1>3, <1>11 DEF SweepInv, Aimed
<1>17. NoneLost'
  BY <1>7, <1>8 DEF SweepInv, NoneLost, Tame
<1>18. CancelledSameSweep'
  BY <1>11 DEF CancelledSameSweep
<1>19. Factual
  <2>1. ASSUME NEW h \in Head, h \notin died  PROVE  ~(att'[h].dead > att[h].dead)
    <3>1. att[h].dead \in Nat /\ att'[h].dead = att[h].dead
      BY <1>7, <1>9, <2>1 DEF Attempt
    <3> QED  BY <3>1
  <2> QED  BY <1>6, <2>1 DEF Factual
<1> QED  BY <1>12, <1>13, <1>14, <1>15, <1>16, <1>17, <1>18, <1>19 DEF SweepInv

--------------------------------------------------------------------------------
(***************************************************************************)
(* Sections B and C: a candidate is taken, its claim superseded, the head  *)
(* evaluated and armed.                                                    *)
(***************************************************************************)
\* Any rewriting of the claims in section C: claims on objects stay claims on
\* objects, none is charged with a lost dispatch and none with a death.
LEMMA SectionC ==
  ASSUME SweepInv, sw.pc \in {"take", "arm"}, UNCHANGED <<jobs, verdict>>,
         host' \in [PR -> [head : Head, label : BOOLEAN, state : PRState]],
         \A p \in PR : host'[p].head = host[p].head,
         att' \in [Head -> Attempt],
         \A h \in Head : /\ att[h].exists => att'[h].exists
                         /\ att'[h].released => att'[h].exists
                         /\ att'[h].lost = 0
                         /\ att'[h].reason # "dispatch-lost" \/ att'[h] = att[h],
         Fields(sw'), sw'.pc \in {"take", "arm"},
         sw'.pc = "arm" => sw'.cand \in PR,
         sw'.claims = sw.claims, sw'.known = sw.known, sw'.alive = sw.alive,
         sw'.stood = sw.stood, sw'.now = sw.now, sw'.out \subseteq sw.now \ sw.stood
  PROVE  SweepInv' /\ Factual
<1>1. Typed'
  BY DEF SweepInv, Typed, PC
<1>2. Rooted' /\ NoneLost'
  BY DEF Rooted, NoneLost
<1>3. Looked'
  BY DEF SweepInv, Looked
<1>4. Surveyed'
  BY DEF SweepInv, Surveyed, Covers
<1>5. Aimed'
  BY DEF SweepInv, Aimed
<1>6. CancelledSameSweep'
  BY DEF CancelledSameSweep
<1>7. Factual
  <2>1. ASSUME NEW h \in Head, att'[h] = att[h]  PROVE  ~(att'[h].dead > att[h].dead)
    <3>1. att[h].dead \in Nat
      BY DEF SweepInv, Typed, Attempt
    <3> QED  BY <2>1, <3>1
  <2> QED  BY <2>1 DEF Factual
<1> QED  BY <1>1, <1>2, <1>3, <1>4, <1>5, <1>6, <1>7 DEF SweepInv

\* A supersession, as section C sees it.
LEMMA SupersedeFacts ==
  ASSUME SweepInv, NEW h \in Head
  PROVE  /\ releaseClaim(h, "superseded") \in Attempt
         /\ releaseClaim(h, "superseded").exists = att[h].exists
         /\ releaseClaim(h, "superseded").lost = att[h].lost
         /\ releaseClaim(h, "superseded").reason = "superseded"
<1>1. att[h] \in Attempt /\ "superseded" \in Reason
  BY DEF SweepInv, Typed, Reason
<1> QED  BY <1>1, ReleaseFacts DEF releaseClaim, Tame

LEMMA TakeCandidateStep ==
  ASSUME SweepInv, NEW p \in PR, NEW failed \in SUBSET Failure, TakeCandidate(p, failed)
  PROVE  SweepInv' /\ Factual
<1>1. sw.pc = "take" /\ UNCHANGED <<jobs, verdict, host>>
  BY DEF TakeCandidate, NextCandidate, forgeVars
<1>2. PICK mine \in IF findClaim(p) = {} THEN {{}} ELSE {{h} : h \in findClaim(p)} :
        LET free == sw.free + Cardinality({h \in mine : att[h].dispatched}) IN
        /\ att' = [h \in Head |-> IF h \in mine THEN releaseClaim(h, "superseded")
                                  ELSE att[h]]
        /\ sw' = IF free <= 0 THEN [sw EXCEPT !.cands = {}, !.free = free]
                 ELSE [sw EXCEPT !.pc = "arm", !.cand = p, !.cands = @ \ {p},
                                 !.free = free, !.human = Resolved(p, failed)]
  BY DEF TakeCandidate
<1>3. \A h \in mine : h \in sw.claims
  BY <1>2 DEF findClaim
<1>4. \A h \in mine : h \in Head /\ att[h].exists
  BY <1>3 DEF SweepInv, Looked
<1>5. att \in [Head -> Attempt]
  BY DEF SweepInv, Typed
<1>6. \A h \in Head : att'[h] = IF h \in mine THEN releaseClaim(h, "superseded") ELSE att[h]
  BY <1>2
<1>7. ASSUME NEW h \in Head
      PROVE  /\ att'[h] \in Attempt
             /\ att[h].exists => att'[h].exists
             /\ att'[h].released => att'[h].exists
             /\ att'[h].lost = 0
             /\ att'[h].reason # "dispatch-lost" \/ att'[h] = att[h]
  <2>1. att[h].lost = 0 /\ (att[h].released => att[h].exists)
    BY DEF SweepInv, NoneLost, Rooted
  <2> QED  BY <1>4, <1>5, <1>6, <2>1, SupersedeFacts
<1>8. att' \in [Head -> Attempt]
  BY <1>2, <1>7
<1>9. \/ \E free : sw' = [sw EXCEPT !.cands = {}, !.free = free]
      \/ \E free, cands, human : sw' = [sw EXCEPT !.pc = "arm", !.cand = p, !.cands = cands,
                                                  !.free = free, !.human = human]
  BY <1>2
<1>10. /\ Fields(sw') /\ sw'.pc \in {"take", "arm"} /\ (sw'.pc = "arm" => sw'.cand \in PR)
       /\ sw'.claims = sw.claims /\ sw'.known = sw.known /\ sw'.alive = sw.alive
       /\ sw'.stood = sw.stood /\ sw'.now = sw.now /\ sw'.out = sw.out
  <2>0. Fields(sw)
    BY DEF SweepInv, Typed
  <2>1. CASE \E free : sw' = [sw EXCEPT !.cands = {}, !.free = free]
    <3>1. PICK free : sw' = [sw EXCEPT !.cands = {}, !.free = free]
      BY <2>1
    <3> QED  BY <1>1, <2>0, <3>1 DEF Fields
  <2>2. CASE \E free, cands, human :
               sw' = [sw EXCEPT !.pc = "arm", !.cand = p, !.cands = cands,
                                !.free = free, !.human = human]
    <3>1. PICK free, cands, human :
            sw' = [sw EXCEPT !.pc = "arm", !.cand = p, !.cands = cands,
                             !.free = free, !.human = human]
      BY <2>2
    <3> QED  BY <2>0, <3>1 DEF Fields
  <2> QED  BY <1>9, <2>1, <2>2
<1>11. sw'.out \subseteq sw.now \ sw.stood
  BY <1>10 DEF SweepInv, Aimed
<1>12. host' \in [PR -> [head : Head, label : BOOLEAN, state : PRState]]
  BY <1>1 DEF SweepInv, Typed
<1> QED  BY <1>1, <1>7, <1>8, <1>10, <1>11, <1>12, SectionC

\* What ArmClaim leaves of every claim.
LEMMA ArmClaimFacts ==
  ASSUME SweepInv, NEW p \in PR, NEW h, NEW human \in BOOLEAN, ArmClaim(p, h, human)
  PROVE  /\ att' \in [Head -> Attempt]
         /\ \A g \in Head : /\ att[g].exists => att'[g].exists
                            /\ att'[g].released => att'[g].exists
                            /\ att'[g].lost = 0
                            /\ att'[g].reason # "dispatch-lost" \/ att'[g] = att[g]
<1> DEFINE S == Superseded(p, h)
<1>1. att \in [Head -> Attempt]
  BY DEF SweepInv, Typed
<1>2. \A g \in Head : att[g].lost = 0 /\ (att[g].released => att[g].exists)
  BY DEF SweepInv, NoneLost, Rooted
<1>3. ASSUME NEW g \in Head
      PROVE  /\ S[g] \in Attempt
             /\ att[g].exists => S[g].exists
             /\ S[g].released => S[g].exists
             /\ S[g].lost = 0
             /\ S[g].reason # "dispatch-lost" \/ S[g] = att[g]
  <2>1. CASE g # h /\ Listed(att[g]) /\ att[g].pr = p
    <3>1. S[g] = releaseClaim(g, "superseded")
      BY <2>1 DEF Superseded
    <3>2. att[g].exists
      BY <2>1 DEF Listed
    <3> HIDE DEF S
    <3> QED  BY <1>2, <3>1, <3>2, SupersedeFacts
  <2>2. CASE ~(g # h /\ Listed(att[g]) /\ att[g].pr = p)
    <3>1. S[g] = att[g]
      BY <2>2 DEF Superseded
    <3> HIDE DEF S
    <3> QED  BY <1>1, <1>2, <3>1
  <2> QED  BY <2>1, <2>2
<1>4. S = [g \in Head |-> S[g]]
  BY DEF Superseded
<1>5. S \in [Head -> Attempt]
  <2> HIDE DEF S
  <2> QED  BY <1>3, <1>4
<1>6. att' = S \/ att' = [S EXCEPT ![h] = ArmedClaim(p, h, human)]
  BY DEF ArmClaim
<1>7. ASSUME h \in Head
      PROVE  /\ ArmedClaim(p, h, human) \in Attempt /\ ArmedClaim(p, h, human).exists
             /\ ArmedClaim(p, h, human).lost = 0 /\ ArmedClaim(p, h, human).reason = ""
  <2>1. att[h] \in Attempt /\ att[h].lost = 0 /\ Created.lost = 0
    BY <1>1, <1>2, <1>7 DEF Created, Absent
  <2> DEFINE c == IF att[h].exists THEN att[h] ELSE Created
             b == Arm(markClaimLive(c), p, human, BudgetExpiry(c, p, human))
  <2>2. ArmedClaim(p, h, human) = b
    BY DEF ArmedClaim
  <2>3. Created \in Attempt /\ Created.exists
    BY FreshType DEF Created, Absent
  <2>4. c \in Attempt /\ c.exists /\ c.lost = 0
    BY <2>1, <2>3
  <2>5. /\ b \in Attempt /\ b.exists /\ b.reason = "" /\ b.lost = 0
    <3> HIDE DEF c
    <3> QED  BY <2>4, ArmFacts
  <2> HIDE DEF b
  <2> QED  BY <2>2, <2>5
<1> HIDE DEF S
<1>8. CASE att' = S
  BY <1>3, <1>5, <1>8
<1>9. CASE att' = [S EXCEPT ![h] = ArmedClaim(p, h, human)]
  <2>1. \A g \in Head : att'[g] = IF g = h THEN ArmedClaim(p, h, human) ELSE S[g]
    BY <1>5, <1>9
  <2>2. att' \in [Head -> Attempt]
    BY <1>5, <1>7, <1>9
  <2> QED  BY <1>3, <1>7, <2>1, <2>2
<1> QED  BY <1>6, <1>8, <1>9

LEMMA ArmCandidateStep ==
  ASSUME SweepInv, NEW failed \in SUBSET Failure, NEW ok \in Ok, ArmCandidate(failed, ok)
  PROVE  SweepInv' /\ Factual
<1> DEFINE p == sw.cand
           f == View(p, NoHead, failed)
           r == Evaluate(Unclaimed, f, WakeOf(p).sha)
           h == r.sha
           human == \/ WakeOf(p).kind = "labeled"
                    \/ /\ WakeOf(p).kind = "label_updated"
                       /\ sw.human = "yes" \/ (sw.human = "open" /\ r.label)
           back == [sw EXCEPT !.pc = "take", !.cand = NoPR, !.human = "open"]
           arms == /\ h # NoHead
                   /\ \/ r.decision = "proceed"
                      \/ r.decision = "waiting" /\ (r.label \/ human)
                   /\ ok /\ ~ArmRefused(p, h, human)
<1>1. sw.pc = "arm" /\ UNCHANGED <<jobs, verdict>>
  BY DEF ArmCandidate
<1>2. p \in PR /\ human \in BOOLEAN
  BY <1>1 DEF SweepInv, Aimed
<1>3. /\ att \in [Head -> Attempt] /\ Fields(sw)
      /\ host \in [PR -> [head : Head, label : BOOLEAN, state : PRState]]
  BY DEF SweepInv, Typed
<1>4. \A g \in Head : /\ att[g].exists => att[g].exists
                      /\ att[g].released => att[g].exists
                      /\ att[g].lost = 0
  BY DEF SweepInv, NoneLost, Rooted
<1>5. sw.out \subseteq sw.now \ sw.stood
  BY DEF SweepInv, Aimed
<1>6. ASSUME r.decision = "proceed"  PROVE  h \in sw.now \ sw.stood
  <2>1. h = f.head /\ ~f.standing
    BY <1>6, ProceedMeans
  <2>2. f.head = host[p].head /\ f.standing = (verdict[host[p].head] # "none")
    BY DEF View
  <2>3. h = host[p].head /\ verdict[h] = "none"
    BY <2>1, <2>2
  <2> QED  BY <1>1, <1>2, <2>3 DEF SweepInv, Aimed
<1>7. \/ /\ ArmClaim(p, h, human) /\ UNCHANGED host
         /\ sw' = IF r.decision = "proceed" /\ ~DeadDispatchBreaker(att[h], p, human)
                  THEN [back EXCEPT !.out = back.out \cup {h}, !.free = back.free - 1]
                  ELSE back
      \/ /\ UNCHANGED att
         /\ host' = IF ok THEN [host EXCEPT ![p].label = FALSE] ELSE host
         /\ sw' = [back EXCEPT !.memo[p] = h]
      \/ UNCHANGED <<att, host>> /\ sw' = back
  BY DEF ArmCandidate
<1>8. \/ \E out, free : /\ out = sw.out \/ (r.decision = "proceed" /\ out = sw.out \cup {h})
                        /\ sw' = [sw EXCEPT !.pc = "take", !.cand = NoPR, !.human = "open",
                                            !.out = out, !.free = free]
      \/ \E memo : sw' = [sw EXCEPT !.pc = "take", !.cand = NoPR, !.human = "open",
                                    !.memo = memo]
  <2> HIDE DEF h, r, human
  <2>1. CASE sw' = back
    <3>1. sw' = [sw EXCEPT !.pc = "take", !.cand = NoPR, !.human = "open", !.memo = sw.memo]
      BY <1>3, <2>1 DEF Fields
    <3> QED  BY <3>1
  <2>2. CASE /\ r.decision = "proceed"
             /\ sw' = [back EXCEPT !.out = back.out \cup {h}, !.free = back.free - 1]
    <3>1. back.out = sw.out
      BY <1>3 DEF Fields
    <3>2. sw' = [sw EXCEPT !.pc = "take", !.cand = NoPR, !.human = "open",
                           !.out = sw.out \cup {h}, !.free = back.free - 1]
      BY <2>2, <3>1
    <3> QED  BY <2>2, <3>2
  <2>3. CASE sw' = [back EXCEPT !.memo[p] = h]
    <3>1. sw' = [sw EXCEPT !.pc = "take", !.cand = NoPR, !.human = "open",
                           !.memo = [back.memo EXCEPT ![p] = h]]
      BY <2>3
    <3> QED  BY <3>1
  <2> QED  BY <1>7, <2>1, <2>2, <2>3
<1>9. /\ Fields(sw') /\ sw'.pc = "take" /\ sw'.claims = sw.claims /\ sw'.known = sw.known
      /\ sw'.alive = sw.alive /\ sw'.stood = sw.stood /\ sw'.now = sw.now
      /\ sw'.out = sw.out \/ (r.decision = "proceed" /\ sw'.out = sw.out \cup {h})
  <2> HIDE DEF h, r
  <2>1. CASE \E memo : sw' = [sw EXCEPT !.pc = "take", !.cand = NoPR, !.human = "open",
                                        !.memo = memo]
    <3>1. PICK memo : sw' = [sw EXCEPT !.pc = "take", !.cand = NoPR, !.human = "open",
                                       !.memo = memo]
      BY <2>1
    <3> QED  BY <1>3, <3>1 DEF Fields
  <2>2. CASE \E out, free :
               /\ out = sw.out \/ (r.decision = "proceed" /\ out = sw.out \cup {h})
               /\ sw' = [sw EXCEPT !.pc = "take", !.cand = NoPR, !.human = "open",
                                   !.out = out, !.free = free]
    <3>1. PICK out, free :
               /\ out = sw.out \/ (r.decision = "proceed" /\ out = sw.out \cup {h})
               /\ sw' = [sw EXCEPT !.pc = "take", !.cand = NoPR, !.human = "open",
                                   !.out = out, !.free = free]
      BY <2>2
    <3>2. /\ Fields(sw') /\ sw'.pc = "take" /\ sw'.claims = sw.claims /\ sw'.known = sw.known
          /\ sw'.alive = sw.alive /\ sw'.stood = sw.stood /\ sw'.now = sw.now
          /\ sw'.out = out
      BY <1>3, <3>1 DEF Fields
    <3> QED  BY <3>1, <3>2
  <2> QED  BY <1>8, <2>1, <2>2
<1>10. sw'.out \subseteq sw.now \ sw.stood
  BY <1>5, <1>6, <1>9
<1>11. /\ host' \in [PR -> [head : Head, label : BOOLEAN, state : PRState]]
       /\ \A q \in PR : host'[q].head = host[q].head
  <2>1. host' = host \/ host' = [host EXCEPT ![p].label = FALSE]
    BY <1>7
  <2>2. CASE host' = host
    BY <1>3, <2>2
  <2>3. CASE host' = [host EXCEPT ![p].label = FALSE]
    <3>1. [host[p] EXCEPT !.label = FALSE] \in [head : Head, label : BOOLEAN, state : PRState]
          /\ [host[p] EXCEPT !.label = FALSE].head = host[p].head
      BY <1>2, <1>3
    <3>2. host' = [host EXCEPT ![p] = [host[p] EXCEPT !.label = FALSE]]
      BY <2>3
    <3> HIDE DEF p
    <3> QED  BY <1>2, <1>3, <3>1, <3>2
  <2> QED  BY <2>1, <2>2, <2>3
<1>12. /\ att' \in [Head -> Attempt]
       /\ \A g \in Head : /\ att[g].exists => att'[g].exists
                          /\ att'[g].released => att'[g].exists
                          /\ att'[g].lost = 0
                          /\ att'[g].reason # "dispatch-lost" \/ att'[g] = att[g]
  <2>1. CASE UNCHANGED att
    BY <1>3, <1>4, <2>1
  <2>2. CASE ArmClaim(p, h, human)
    <3> HIDE DEF p, h, human
    <3> QED  BY <1>2, <2>2, ArmClaimFacts
  <2> QED  BY <1>7, <2>1, <2>2
<1> QED  BY <1>1, <1>9, <1>10, <1>11, <1>12, SectionC

--------------------------------------------------------------------------------
(***************************************************************************)
(* The cancel pass and the dispatch loop.                                  *)
(***************************************************************************)
\* Every running review of a cancelled claim is in the sweep's list (Surveyed),
\* and its claim is one of an object (Rooted): the pass deletes it.
LEMMA SweepCancelStep ==
  ASSUME SweepInv, SweepCancel
  PROVE  SweepInv' /\ Factual
<1> DEFINE targets == IF sw.known = "yes" THEN CancelTargets(sw) ELSE {}
<1>1. /\ sw.pc = "take" /\ UNCHANGED <<verdict, host>>
      /\ sw' = [sw EXCEPT !.pc = "record"]
  BY DEF SweepCancel, forgeVars
<1>2. PICK done \in Succeeded(targets) :
        /\ jobs' = [h \in Head |-> IF h \in done THEN jobs[h] \ {"live"} ELSE jobs[h]]
        /\ att' = [h \in Head |-> IF h \in done THEN FinalizeCancelled(att[h], att[h].reason)
                                  ELSE att[h]]
  BY DEF SweepCancel
<1>3. att \in [Head -> Attempt] /\ jobs \in [Head -> SUBSET JobState] /\ Fields(sw)
  BY DEF SweepInv, Typed
<1>4. ASSUME NEW h \in Head  PROVE  att'[h] \in Attempt /\ Same(att[h], att'[h])
  <2>1. att'[h] = FinalizeCancelled(att[h], att[h].reason) \/ att'[h] = att[h]
    BY <1>2
  <2>2. att[h] \in Attempt
    BY <1>3
  <2> QED  BY <2>1, <2>2, FinalFacts, SameRefl
<1>5. \A h \in Head :
        /\ att'[h].exists = att[h].exists /\ att'[h].lost = att[h].lost
        /\ att'[h].released = att[h].released /\ att'[h].reason = att[h].reason
        /\ att'[h].dead = att[h].dead
  BY <1>4 DEF Same, Tame
<1>6. att' \in [Head -> Attempt] /\ jobs' \in [Head -> SUBSET JobState]
  BY <1>2, <1>3, <1>4
<1>7. /\ Fields(sw') /\ sw'.pc = "record" /\ sw'.claims = sw.claims /\ sw'.known = sw.known
      /\ sw'.alive = sw.alive /\ sw'.out = sw.out /\ sw'.stood = sw.stood
      /\ sw'.now = sw.now
  BY <1>1, <1>3 DEF Fields
<1>8. Typed'
  BY <1>1, <1>6, <1>7 DEF SweepInv, Typed, PC
<1>9. Rooted' /\ NoneLost'
  BY <1>5 DEF SweepInv, Rooted, NoneLost
<1>10. Looked'
  BY <1>5, <1>7 DEF SweepInv, Looked
<1>11. \A h \in Head : "live" \in jobs'[h] => "live" \in jobs[h] /\ h \notin done
  BY <1>2
<1>12. Surveyed'
  BY <1>7, <1>11 DEF SweepInv, Surveyed, Covers
<1>13. Aimed'
  BY <1>1, <1>7 DEF SweepInv, Aimed
<1>14. CancelledSameSweep'
  <2>1. ASSUME Ok = {TRUE}, NEW h \in Head, "live" \in jobs'[h],
               att'[h].released, IsCancellationRelease(att'[h].reason)
        PROVE  FALSE
    <3>1. done = CancelTargets(sw)
      BY <1>1, <1>2, <2>1 DEF Succeeded, SweepInv, Surveyed
    <3>2. "live" \in jobs[h] /\ h \notin done
      BY <1>11, <2>1
    <3>3. h \in sw.alive
      BY <1>1, <2>1, <3>2 DEF SweepInv, Surveyed, Covers
    <3>4. att[h].released /\ att[h].exists /\ IsCancellationRelease(att[h].reason)
      BY <1>5, <2>1 DEF SweepInv, Rooted
    <3> QED  BY <3>1, <3>2, <3>3, <3>4 DEF CancelTargets
  <2> QED  BY <2>1 DEF CancelledSameSweep
<1>15. Factual
  <2>1. ASSUME NEW h \in Head  PROVE  ~(att'[h].dead > att[h].dead)
    <3>1. att[h].dead \in Nat /\ att'[h].dead = att[h].dead
      BY <1>3, <1>5 DEF Attempt
    <3> QED  BY <3>1
  <2> QED  BY <2>1 DEF Factual
<1> QED  BY <1>8, <1>9, <1>10, <1>12, <1>13, <1>14, <1>15 DEF SweepInv

\* A step of the dispatch loop for head h, which may have been stamped as b.
LEMMA DispatchLoop ==
  ASSUME SweepInv, sw.pc = "create", NEW h \in Head, UNCHANGED <<verdict, host>>,
         jobs' \in [Head -> SUBSET JobState],
         NEW b \in Attempt, att' = [att EXCEPT ![h] = b],
         b.exists = att[h].exists, b.released = att[h].released,
         b.reason = att[h].reason, b.dead = att[h].dead, b.lost = 0,
         sw' = Idle \/ sw' = [sw EXCEPT !.out = sw.out \ {h}]
  PROVE  SweepInv' /\ Factual
<1>1. att \in [Head -> Attempt] /\ att' \in [Head -> Attempt] /\ Fields(sw)
  BY DEF SweepInv, Typed
<1>2. \A g \in Head : att'[g] = IF g = h THEN b ELSE att[g]
  BY <1>1
<1>3. \A g \in Head : att'[g].exists = att[g].exists /\ att'[g].released = att[g].released
  BY <1>2
<1>4. Rooted' /\ NoneLost'
  BY <1>2, <1>3 DEF SweepInv, Rooted, NoneLost
<1>5. Factual
  <2>1. ASSUME NEW g \in Head  PROVE  ~(att'[g].dead > att[g].dead)
    <3>1. att[g].dead \in Nat /\ att'[g].dead = att[g].dead
      BY <1>1, <1>2 DEF Attempt
    <3> QED  BY <3>1
  <2> QED  BY <2>1 DEF Factual
<1>6. CASE sw' = Idle
  <2>1. Typed'
    BY <1>1, <1>6, AtRest DEF SweepInv, Typed
  <2> QED  BY <1>4, <1>5, <1>6, <2>1, AtRest DEF SweepInv
<1>7. CASE sw' = [sw EXCEPT !.out = sw.out \ {h}]
  <2>1. /\ Fields(sw') /\ sw'.pc = "create" /\ sw'.known = sw.known
        /\ sw'.claims = sw.claims /\ sw'.stood = sw.stood /\ sw'.now = sw.now
        /\ sw'.out = sw.out \ {h}
    BY <1>1, <1>7 DEF Fields
  <2>2. Typed'
    BY <1>1, <2>1 DEF SweepInv, Typed, PC
  <2>3. Looked'
    BY <1>3, <2>1 DEF SweepInv, Looked
  <2>4. Surveyed'
    BY <2>1 DEF SweepInv, Surveyed, Covers
  <2>5. Aimed'
    BY <2>1 DEF SweepInv, Aimed
  <2>6. CancelledSameSweep'
    BY <2>1 DEF CancelledSameSweep
  <2> QED  BY <1>4, <1>5, <2>2, <2>3, <2>4, <2>5, <2>6 DEF SweepInv
<1> QED  BY <1>6, <1>7

LEMMA DispatchStep ==
  ASSUME SweepInv, NEW h \in Head,
         \/ \E ok \in Ok : CompleteDispatchEdge(h, ok)
         \/ DispatchCreate(h) \/ DispatchCreateFails(h)
  PROVE  SweepInv' /\ Factual
<1>1. /\ att \in [Head -> Attempt] /\ jobs \in [Head -> SUBSET JobState]
      /\ att[h].lost = 0 /\ att = [att EXCEPT ![h] = att[h]]
  BY DEF SweepInv, Typed, NoneLost
<1>2. sw.pc = "create" /\ UNCHANGED <<verdict, host>>
  BY DEF CompleteDispatchEdge, DispatchCreate, DispatchCreateFails, forgeVars
<1>3. jobs' \in [Head -> SUBSET JobState]
  BY <1>1 DEF CompleteDispatchEdge, DispatchCreate, DispatchCreateFails, JobState
<1>4. sw' = Idle \/ sw' = [sw EXCEPT !.out = sw.out \ {h}]
  BY DEF CompleteDispatchEdge, DispatchCreate, DispatchCreateFails, DispatchNext
<1>5. \/ att' = att
      \/ \E j \in Job :
           \/ att' = [att EXCEPT ![h] = MarkClaimDispatched(att[h], j)]
           \/ att' = [att EXCEPT ![h] = MarkClaimDispatched(MarkDispatchIntent(att[h]), j)]
      \/ att' = [att EXCEPT ![h] = MarkDispatchIntent(att[h])]
  BY DEF CompleteDispatchEdge, DispatchCreate, DispatchCreateFails
<1>6. \E b \in Attempt :
        /\ att' = [att EXCEPT ![h] = b]
        /\ b.exists = att[h].exists /\ b.released = att[h].released
        /\ b.reason = att[h].reason /\ b.dead = att[h].dead /\ b.lost = 0
  <2>1. att[h] \in Attempt /\ Job # {}
    BY <1>1, SweepAssumption
  <2>2. CASE att' = att
    BY <1>1, <2>1, <2>2
  <2>3. CASE att' # att
    <3>1. PICK j \in Job :
            \/ att' = [att EXCEPT ![h] = MarkClaimDispatched(att[h], j)]
            \/ att' = [att EXCEPT ![h] = MarkClaimDispatched(MarkDispatchIntent(att[h]), j)]
            \/ att' = [att EXCEPT ![h] = MarkDispatchIntent(att[h])]
      BY <1>5, <2>1, <2>3
    <3> DEFINE a == att[h]
    <3>2. PICK b \in {MarkDispatchIntent(a), MarkClaimDispatched(a, j),
                      MarkClaimDispatched(MarkDispatchIntent(a), j)} :
            att' = [att EXCEPT ![h] = b]
      BY <3>1
    <3>3. a \in Attempt
      BY <2>1
    <3>4. /\ b \in Attempt /\ b.exists = a.exists /\ b.released = a.released
          /\ b.reason = a.reason /\ b.dead = a.dead /\ b.lost = 0
      <4> HIDE DEF a
      <4> QED  BY <3>2, <3>3, StampFacts
    <3> QED  BY <3>2, <3>4
  <2> QED  BY <2>2, <2>3
<1>7. PICK b \in Attempt :
        /\ att' = [att EXCEPT ![h] = b]
        /\ b.exists = att[h].exists /\ b.released = att[h].released
        /\ b.reason = att[h].reason /\ b.dead = att[h].dead /\ b.lost = 0
  BY <1>6
<1> QED  BY <1>2, <1>3, <1>4, <1>7, DispatchLoop

--------------------------------------------------------------------------------

LEMMA SweepInit == ASSUME Init PROVE SweepInv
<1>1. Typed
  <2>1. host \in [PR -> [head : Head, label : BOOLEAN, state : PRState]]
    BY DEF Init, PRState
  <2>2. att \in [Head -> Attempt] /\ jobs \in [Head -> SUBSET JobState]
        /\ verdict = [h \in Head |-> verdict[h]]
    BY FreshType DEF Init
  <2>3. Fields(sw) /\ sw.pc \in PC /\ sw.known = "no"
    BY DEF Init, Idle, Fields, PC
  <2> QED  BY <2>1, <2>2, <2>3 DEF Typed
<1>2. Rooted /\ NoneLost
  BY DEF Init, Absent, Rooted, NoneLost
<1>3. sw.pc = "idle" /\ sw.known = "no" /\ sw.claims = {} /\ sw.out = {} /\ sw.stood = {}
  BY DEF Init, Idle
<1>4. Looked /\ Surveyed /\ Aimed /\ CancelledSameSweep
  BY <1>3 DEF Looked, Surveyed, Covers, Aimed, CancelledSameSweep
<1> QED  BY <1>1, <1>2, <1>4 DEF SweepInv

\* One case per operation of the sweep, and one for everything around it.
LEMMA SweepNext ==
  ASSUME SweepInv, [Next]_vars
  PROVE  SweepInv' /\ (vars' # vars => Factual)
<1>1. CASE UNCHANGED vars
  BY <1>1 DEF vars, SweepInv, Typed, Rooted, Looked, Answered, Surveyed, Covers, Aimed,
       NoneLost, CancelledSameSweep
<1>2. CASE Environment(Kinds)
  BY <1>2, EnvironmentStep
<1>3. CASE \E w : StartSweep(w)
  BY <1>3, StartSweepStep
<1>4. CASE Crash
  BY <1>4, CrashStep
<1>5. CASE SweepStep
  <2>1. CASE \E h \in Head, failed \in SUBSET Failure, ok \in Ok :
               \/ SweepQueued(h, failed, ok)
               \/ \E listed \in Ok : SweepDispatched(h, failed, listed, ok)
    BY <2>1, SweepQueuedStep, SweepDispatchedStep
  <2>2. CASE \E ok \in Ok : SweepDeaths(ok) \/ SweepCandidates(ok)
    BY <2>2, SweepDeathsStep, SweepCandidatesStep
  <2>3. CASE \E p \in PR, failed \in SUBSET Failure :
               DropCandidate(p, failed) \/ TakeCandidate(p, failed)
    BY <2>3, DropCandidateStep, TakeCandidateStep
  <2>4. CASE \E failed \in SUBSET Failure, ok \in Ok : ArmCandidate(failed, ok)
    BY <2>4, ArmCandidateStep
  <2>5. CASE SweepCancel
    BY <2>5, SweepCancelStep
  <2>6. CASE \E ok \in Ok : SweepRecord(ok) \/ DispatchList(ok)
    BY <2>6, SweepRecordStep, DispatchListStep
  <2>7. CASE \E h \in Head : \/ \E ok \in Ok : CompleteDispatchEdge(h, ok)
                             \/ DispatchCreate(h) \/ DispatchCreateFails(h)
    BY <2>7, DispatchStep
  <2> QED  BY <1>5, <2>1, <2>2, <2>3, <2>4, <2>5, <2>6, <2>7 DEF SweepStep
<1> QED  BY <1>1, <1>2, <1>3, <1>4, <1>5 DEF Next, Worker, Poll

LEMMA SweepAlways == Spec => []SweepInv
<1>1. Init => SweepInv
  BY SweepInit
<1>2. SweepInv /\ [Next]_vars => SweepInv'
  BY SweepNext
<1> QED  BY <1>1, <1>2, PTL DEF Spec

\* A healthy sweep reaches its end with no running review of a cancelled claim
\* left: the cancel pass works from a Job list that misses no Job alive now.
THEOREM StoppedInTime == Spec => []CancelledSameSweep
<1>1. SweepInv => CancelledSameSweep
  BY DEF SweepInv
<1> QED  BY <1>1, SweepAlways, PTL

\* The job-death pass charges a claim only when its Jobs are failed or gone,
\* although the Job list it reads may be a whole section old.
THEOREM OnlyDeathsCharged == Spec => DeathIsFact
<1>1. SweepInv /\ [Next]_vars =>
        [\A h \in Head : /\ att'[h].dead > att[h].dead
                         /\ att'[h].reason = "dispatch-lost"
                         => jobs[h] \subseteq {"failed"}]_vars
  BY SweepNext DEF Factual
<1> QED  BY <1>1, SweepAlways, PTL DEF Spec, DeathIsFact

\* The dispatch loop creates a Job only for a head its sweep accepted.
LEMMA CreatesAccepted ==
  ASSUME SweepInv, NEW h \in Head, Creates(h)
  PROVE  h \in sw.now /\ h \notin sw.stood
  BY DEF Creates, DispatchCreate, SweepInv, Aimed

\* No Job is created for a head whose verdict stood when the sweep began, from
\* section A's queue or section C's arms.
THEOREM HeadsReviewedOnce == Spec => ReviewedOnce
<1>1. SweepInv => [\A h \in Head : Creates(h) => h \notin sw.stood]_vars
  BY CreatesAccepted
<1> QED  BY <1>1, SweepAlways, PTL DEF ReviewedOnce

\* A Job is created only for a head that was current while its sweep ran, though
\* the forge moves between the evaluation and the dispatch.
THEOREM OnlyCurrentHeads == Spec => HeadPinned
<1>1. SweepInv => [\A h \in Head : Creates(h) => h \in sw.now]_vars
  BY CreatesAccepted
<1> QED  BY <1>1, SweepAlways, PTL DEF HeadPinned

================================================================================
