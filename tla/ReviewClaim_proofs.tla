-------------------------- MODULE ReviewClaim_proofs ---------------------------
(***************************************************************************)
(* Theorems about ReviewClaim, for any set of heads, pull requests, Jobs   *)
(* and overlapping sweeps.                                                 *)
(***************************************************************************)
EXTENDS ReviewClaim, FiniteSetTheorems, TLAPS

(***************************************************************************)
(* The ledger's mutations keep the shape of an Attempt.                    *)
(***************************************************************************)

\* Both objects the arm starts from (ResolveOrCreate) are Attempts.
LEMMA FreshType == Absent \in Attempt /\ Created \in Attempt
  BY DEF Absent, Created, Attempt, Reason, Clock, Phase

\* ArmClaim's status patch keeps an Attempt an Attempt.
LEMMA ArmType ==
  ASSUME NEW a \in Attempt, NEW p \in PR \cup {NoPR}, NEW human \in BOOLEAN,
         NEW expiry \in BOOLEAN
  PROVE  Arm(a, p, human, expiry) \in Attempt
<1> DEFINE same == SameClaim(a, p)
           freshClock == \/ ~same \/ a.clock = "nil" \/ a.reason = "horizon"
                         \/ human /\ a.reason = "dispatch-lost"
           reset == ~same \/ human \/ expiry
           clock == IF freshClock THEN "fresh" ELSE a.clock
           dispatched == a.dispatched /\ ~a.released
           dead == IF reset THEN 0 ELSE a.dead
           lost == IF reset THEN 0 ELSE a.lost
           phase == IF a.phase = "" \/ a.phase \in Terminal
                    THEN "reconciling" ELSE a.phase
<1>1. clock \in Clock /\ dead \in Nat /\ lost \in Nat /\ phase \in Phase
  BY DEF Attempt, Clock, Phase
<1>2. dispatched \in BOOLEAN
  OBVIOUS
<1>3. Arm(a, p, human, expiry) =
        [a EXCEPT !.pr = p, !.clock = clock, !.dispatched = dispatched,
                  !.dead = dead, !.lost = lost, !.released = FALSE,
                  !.reason = "", !.phase = phase]
  BY DEF Arm, FreshClock
<1> HIDE DEF clock, dispatched, dead, lost, phase
<1> QED BY <1>1, <1>2, <1>3 DEF Attempt, Reason

\* So do the two dispatch stamps (MarkDispatchIntent, MarkClaimDispatched).
LEMMA StampType ==
  ASSUME NEW a \in Attempt, NEW j \in Job \cup {NoJob}
  PROVE  MarkDispatchIntent(a) \in Attempt /\ MarkClaimDispatched(a, j) \in Attempt
  BY DEF MarkDispatchIntent, MarkClaimDispatched, Attempt

\* So do the releases and their markers.
LEMMA ReleaseType ==
  ASSUME NEW a \in Attempt, NEW reason \in Reason
  PROVE  /\ Release(a, reason) \in Attempt
         /\ ReleaseDead(a, reason) \in Attempt
         /\ markClaimReleased(a) \in Attempt
         /\ markClaimLive(a) \in Attempt
         /\ FinalizeCancelled(a, reason) \in Attempt
<1>1. Release(a, reason) \in Attempt
  <2> DEFINE lost == IF reason = "dispatch-lost" THEN a.lost + 1 ELSE a.lost
             recent == a.lostRecent \/ reason = "dispatch-lost"
             dismissed == a.dismissed \/ reason = "horizon"
             phase == CASE reason = "consumed"   -> "validated"
                        [] reason = "superseded" -> "superseded"
                        [] OTHER                 -> a.phase
  <2>1. a.phase \in Phase /\ a.lost \in Nat
    BY DEF Attempt
  <2>2. lost \in Nat
    BY <2>1
  <2>3. phase \in Phase
    BY <2>1 DEF Phase
  <2>4. recent \in BOOLEAN /\ dismissed \in BOOLEAN
    OBVIOUS
  <2>5. Release(a, reason) =
          [a EXCEPT !.released = TRUE, !.reason = reason, !.lost = lost,
                    !.lostRecent = recent, !.dismissed = dismissed,
                    !.phase = phase]
    BY DEF Release
  <2> HIDE DEF lost, recent, dismissed, phase
  <2> QED BY <2>2, <2>3, <2>4, <2>5 DEF Attempt
<1>2. ReleaseDead(a, reason) \in Attempt
  <2> DEFINE dead == IF a.dispatched THEN a.dead + 1 ELSE a.dead
             phase == IF a.phase \in {"", "reconciling"}
                      THEN "failed" ELSE a.phase
  <2>1. a.phase \in Phase /\ a.dead \in Nat
    BY DEF Attempt
  <2>2. dead \in Nat
    BY <2>1
  <2>3. phase \in Phase
    BY <2>1 DEF Phase
  <2>4. ReleaseDead(a, reason) =
          IF a.released THEN a
          ELSE [a EXCEPT !.released = TRUE, !.reason = reason, !.dead = dead,
                         !.running = {}, !.phase = phase]
    BY DEF ReleaseDead
  <2> HIDE DEF dead, phase
  <2> QED BY <2>2, <2>3, <2>4 DEF Attempt
<1>3. markClaimReleased(a) \in Attempt /\ markClaimLive(a) \in Attempt
  BY DEF markClaimReleased, markClaimLive, Attempt
<1>4. FinalizeCancelled(a, reason) \in Attempt
  BY DEF FinalizeCancelled, Attempt, Phase
<1> QED BY <1>1, <1>2, <1>3, <1>4

\* So do the runner's two writes.
LEMMA RunType ==
  ASSUME NEW a \in Attempt, NEW j \in Job, NEW outcome \in Outcome
  PROVE  RunStarted(a, j) \in Attempt /\ RunOutcome(a, j, outcome) \in Attempt
  BY DEF RunStarted, RunOutcome, Outcome, Attempt, Phase

(***************************************************************************)
(* Type correctness.                                                       *)
(***************************************************************************)

\* What a sweeper holds keeps its shape: the three ways op changes.
LEMMA OpType ==
  ASSUME op \in [Sweeper -> Op], NEW s \in Sweeper
  PROVE  /\ op[s] \in Op
         /\ Idle \in Op
         /\ Finish(s) => op' \in [Sweeper -> Op]
         /\ \A pc \in PC : Goto(s, pc) => op' \in [Sweeper -> Op]
<1>1. Idle \in Op
  BY DEF Idle, Op, PC, Reason
<1>2. ASSUME NEW pc \in PC, Goto(s, pc) PROVE op' \in [Sweeper -> Op]
  BY <1>2 DEF Goto, Op
<1> QED BY <1>1, <1>2 DEF Finish

\* Updates of several fields of what a sweeper holds.
LEMMA OpUpdate ==
  ASSUME NEW o \in Op, NEW pc \in PC
  PROVE  /\ \A todo \in SUBSET Head :
              [o EXCEPT !.pc = pc, !.todo = todo] \in Op
         /\ \A j \in Job : [o EXCEPT !.pc = pc, !.job = j] \in Op
         /\ \A g \in Head, reason \in Reason, todo \in SUBSET Head :
              [o EXCEPT !.pc = pc, !.then = "armSupersede", !.target = g,
                        !.reason = reason, !.todo = todo] \in Op
  BY DEF Op

\* What the arm's resolve adds to what its sweeper holds.
LEMMA ResolveUpdate ==
  ASSUME NEW o \in Op, NEW h \in Head, NEW pc \in PC, NEW c \in BOOLEAN,
         NEW b \in BOOLEAN, NEW e \in BOOLEAN
  PROVE  [o EXCEPT !.pc = pc, !.head = h, !.created = c, !.open = b,
                   !.expiry = e] \in Op
  BY DEF Op

\* What StartArm hands on: an evaluation, or first the release it supersedes.
LEMMA ArmOp ==
  ASSUME op \in [Sweeper -> Op], NEW s \in Sweeper, NEW p \in PR, NEW asks,
         NEW wake, StartArm(s, p, asks, wake)
  PROVE  /\ op'[s].pr = p /\ op'[s].created = FALSE
         /\ \/ op'[s].pc = "armEval"
            \/ /\ op'[s].pc = "relStatus" /\ op'[s].then = "armEval"
               /\ op'[s].reason = "superseded"
<1> DEFINE human == (asks = "human")
<1>1. \/ op'[s] = [Idle EXCEPT !.pc = "armEval", !.pr = p, !.human = human]
      \/ \E h \in Head :
           op'[s] = [Idle EXCEPT !.pc = "relStatus", !.then = "armEval",
                                 !.target = h, !.reason = "superseded",
                                 !.pr = p, !.human = human]
  BY DEF StartArm
<1> HIDE DEF human
<1> QED BY <1>1 DEF Idle

\* One patch of an object by a well-typed value keeps the store well-typed.
LEMMA PatchType ==
  ASSUME att \in [Head -> Attempt], NEW h, NEW a,
         h \in Head => a \in Attempt, Patch(h, a)
  PROVE  att' \in [Head -> Attempt]
  BY DEF Patch

\* Every reachable state has the declared shape: no step of a sweep, of a
\* runner or of the cluster writes a value outside the API's enumerations.
THEOREM TypeCorrect == Spec => []TypeOK
<1>1. Init => TypeOK
  <2> SUFFICES ASSUME Init PROVE TypeOK
    OBVIOUS
  <2>1. Idle \in Op
    BY DEF Idle, Op, PC, Reason
  <2>2. jobs \in [Job -> [st : JobState, head : Head \cup {NoHead}]]
    BY DEF Init, JobState
  <2> QED BY <2>1, <2>2, FreshType DEF Init, TypeOK, Stamp
<1>2. TypeOK /\ [Next]_vars => TypeOK'
  <2> SUFFICES ASSUME TypeOK, [Next]_vars PROVE TypeOK'
    OBVIOUS
  <2> USE DEF TypeOK
  <2>1. ASSUME NEW s \in Sweeper, SweeperStep(s) PROVE TypeOK'
    <3> USE OpType
    <3>1. ASSUME NEW h \in Head, NEW reason \in GateReason,
                 StartRelease(s, h, reason)
          PROVE  TypeOK'
      <4> DEFINE o == [Idle EXCEPT !.pc = "relStatus", !.target = h,
                                   !.reason = reason]
      <4>1. reason \in Reason
        BY SweeperAssumption
      <4>2. o \in Op
        BY <4>1 DEF Idle, Op, PC
      <4>3. op' = [op EXCEPT ![s] = o]
        BY <3>1 DEF StartRelease
      <4> HIDE DEF o
      <4> QED BY <3>1, <4>2, <4>3 DEF StartRelease
    <3>2. CASE ReleaseStatus(s)
      BY <3>2, ReleaseType, PatchType DEF ReleaseStatus, PC, Op
    <3>3. CASE ReleaseMark(s)
      <4> DEFINE o == IF op[s].then = "idle" THEN Idle
                      ELSE [op[s] EXCEPT !.pc = op[s].then]
      <4>1. o \in Op
        <5>1. CASE op[s].then = "idle"
          BY <5>1
        <5>2. CASE op[s].then # "idle"
          <6>1. op[s].then \in PC
            BY DEF Op, PC
          <6> QED BY <5>2, <6>1 DEF Op
        <5> QED BY <5>1, <5>2
      <4>2. op' = [op EXCEPT ![s] = o]
        BY <3>3 DEF ReleaseMark
      <4> HIDE DEF o
      <4>3. op' \in [Sweeper -> Op]
        BY <4>1, <4>2
      <4>4. att' \in [Head -> Attempt]
        BY <3>3, ReleaseType, PatchType DEF ReleaseMark, Op
      <4> QED BY <3>3, <4>3, <4>4 DEF ReleaseMark
    <3>4. ASSUME NEW h \in Head,
                 NEW reason \in {"dispatch-lost", "dispatch-timeout"},
                 StartDead(s, h, reason)
          PROVE  TypeOK'
      <4> DEFINE o == [Idle EXCEPT !.pc = "deadStatus", !.target = h,
                                   !.reason = reason]
      <4>1. reason \in Reason
        BY DEF Reason
      <4>2. o \in Op
        BY <4>1 DEF Idle, Op, PC
      <4>3. op' = [op EXCEPT ![s] = o]
        BY <3>4 DEF StartDead
      <4> HIDE DEF o
      <4> QED BY <3>4, <4>2, <4>3 DEF StartDead
    <3>5. CASE DeadStatus(s)
      <4>1. att' \in [Head -> Attempt]
        BY <3>5, ReleaseType, PatchType DEF DeadStatus, Op
      <4>2. op' \in [Sweeper -> Op]
        BY <3>5 DEF DeadStatus, PC
      <4> QED BY <3>5, <4>1, <4>2 DEF DeadStatus, Stamp
    <3>6. CASE DeadMark(s)
      BY <3>6, ReleaseType, PatchType DEF DeadMark, Op
    <3>7. ASSUME NEW p \in PR, NEW asks \in {"scan", "request", "human"},
                 NEW wake \in Head, StartArm(s, p, asks, wake)
          PROVE  TypeOK'
      <4> DEFINE human == (asks = "human")
      <4>1. human \in BOOLEAN /\ "superseded" \in Reason /\ "" \in Reason
        BY DEF Reason
      <4>2. StartArm(s, p, asks, wake) =>
              \/ op' = [op EXCEPT ![s] = [Idle EXCEPT !.pc = "armEval", !.pr = p,
                                                      !.human = human]]
              \/ \E h \in Head :
                   op' = [op EXCEPT ![s] =
                            [Idle EXCEPT !.pc = "relStatus", !.then = "armEval",
                                         !.target = h, !.reason = "superseded",
                                         !.pr = p, !.human = human]]
        BY DEF StartArm
      <4> HIDE DEF human
      <4>3. [Idle EXCEPT !.pc = "armEval", !.pr = p, !.human = human] \in Op
        BY <4>1 DEF Idle, Op, PC
      <4>4. \A h \in Head :
              [Idle EXCEPT !.pc = "relStatus", !.then = "armEval",
                           !.target = h, !.reason = "superseded",
                           !.pr = p, !.human = human] \in Op
        BY <4>1 DEF Idle, Op, PC
      <4> QED BY <3>7, <4>2, <4>3, <4>4 DEF StartArm
    <3>8. ASSUME NEW h \in Head, ArmResolve(s, h) \/ ArmRefuse(s, h)
          PROVE  TypeOK'
      <4>1. CASE ArmRefuse(s, h)
        BY <4>1 DEF ArmRefuse
      <4>2. CASE ArmResolve(s, h)
        <5> DEFINE created == ~att[h].exists
                   open == DeadDispatchBreaker(att[h], op[s].pr, op[s].human)
                   expiry == BudgetExpiry(att[h], op[s].pr, op[s].human)
        <5>1. created \in BOOLEAN /\ open \in BOOLEAN /\ expiry \in BOOLEAN
          BY DEF DeadDispatchBreaker, BudgetExpiry
        <5>2. op' = [op EXCEPT ![s].pc = "armList", ![s].head = h,
                               ![s].created = created, ![s].open = open,
                               ![s].expiry = expiry]
          BY <4>2 DEF ArmResolve
        <5>3. att' \in [Head -> Attempt] /\ UNCHANGED <<jobs, stamped>>
          <6>1. /\ att' = [att EXCEPT ![h] = IF @.exists THEN @ ELSE Created]
                /\ UNCHANGED <<jobs, stamped>>
            BY <4>2 DEF ArmResolve
          <6> QED BY <6>1, FreshType
        <5> HIDE DEF created, open, expiry
        <5>4. [op[s] EXCEPT !.pc = "armList", !.head = h, !.created = created,
                            !.open = open, !.expiry = expiry] \in Op
          <6> HIDE DEF TypeOK
          <6>1. op[s] \in Op /\ "armList" \in PC
            BY DEF TypeOK, PC
          <6> QED BY <5>1, <6>1, ResolveUpdate
        <5> QED BY <5>2, <5>3, <5>4
      <4> QED BY <3>8, <4>1, <4>2
    <3>9. CASE ArmList(s)
      <4> DEFINE todo == {g \in Head \ {op[s].head} : Claim(op[s].pr, g)}
      <4>1. todo \in SUBSET Head
        OBVIOUS
      <4>2. op' = [op EXCEPT ![s].pc = "armSupersede", ![s].todo = todo]
        BY <3>9 DEF ArmList
      <4> HIDE DEF todo
      <4>3. [op[s] EXCEPT !.pc = "armSupersede", !.todo = todo] \in Op
        BY <4>1, OpUpdate DEF PC
      <4> QED BY <3>9, <4>2, <4>3 DEF ArmList
    <3>10. CASE ArmSupersede(s)
      <4>1. PICK g \in op[s].todo :
              op' = [op EXCEPT ![s].pc = "relStatus",
                               ![s].then = "armSupersede",
                               ![s].target = g,
                               ![s].reason = "superseded",
                               ![s].todo = @ \ {g}]
        BY <3>10 DEF ArmSupersede
      <4>2. g \in Head /\ op[s].todo \ {g} \in SUBSET Head
        BY DEF Op
      <4>3. "superseded" \in Reason
        BY DEF Reason
      <4>4. [op[s] EXCEPT !.pc = "relStatus", !.then = "armSupersede",
                          !.target = g, !.reason = "superseded",
                          !.todo = @ \ {g}] \in Op
        BY <4>2, <4>3, OpUpdate DEF PC
      <4> QED BY <3>10, <4>1, <4>4 DEF ArmSupersede
    <3>11. CASE ArmBreaker(s)
      BY <3>11 DEF ArmBreaker, PC
    <3>12. CASE ArmLive(s)
      BY <3>12, ReleaseType, PatchType DEF ArmLive, PC, Op
    <3>13. CASE ArmStatus(s)
      <4>1. att' \in [Head -> Attempt]
        BY <3>13, ArmType, PatchType DEF ArmStatus, Op
      <4>2. [Idle EXCEPT !.pc = "dispLock", !.head = op[s].head] \in Op
        BY DEF Idle, Op, PC, Reason
      <4> QED BY <3>13, <4>1, <4>2 DEF ArmStatus
    <3>14. ASSUME NEW h \in Head, StartDispatch(s, h) PROVE TypeOK'
      BY <3>14 DEF StartDispatch, Idle, Op, PC
    <3>15. CASE DispatchLock(s)
      BY <3>15 DEF DispatchLock, Op, PC
    <3>16. CASE CompleteDispatchEdge(s)
      BY <3>16 DEF CompleteDispatchEdge, PC
    <3>17. CASE DispatchIntent(s)
      <4>1. att' \in [Head -> Attempt]
        BY <3>17, StampType, PatchType DEF DispatchIntent, Op
      <4> QED BY <3>17, <4>1 DEF DispatchIntent, PC, Stamp
    <3>18. CASE DispatchCreate(s)
      <4>1. PICK j \in Job :
              /\ jobs' = [jobs EXCEPT ![j] = [st |-> "pending",
                                             head |-> op[s].head]]
              /\ op' = [op EXCEPT ![s].pc = "dispEdge", ![s].job = j]
        BY <3>18 DEF DispatchCreate
      <4>2. [op[s] EXCEPT !.pc = "dispEdge", !.job = j] \in Op
        BY OpUpdate DEF PC
      <4>3. op[s].head \in Head \cup {NoHead}
        BY DEF Op
      <4>4. jobs' \in [Job -> [st : JobState, head : Head \cup {NoHead}]]
        BY <4>1, <4>3 DEF JobState
      <4> QED BY <3>18, <4>1, <4>2, <4>4 DEF DispatchCreate
    <3>19. CASE DispatchEdge(s)
      <4>1. op[s].job \in Job \cup {NoJob}
        BY DEF Op
      <4>2. att' \in [Head -> Attempt]
        BY <3>19, <4>1, StampType, PatchType DEF DispatchEdge, Op
      <4> QED BY <3>19, <4>2 DEF DispatchEdge, Stamp
    <3>20. ASSUME NEW j \in Job, StartCancel(s, j) PROVE TypeOK'
      <4>1. jobs[j].head \in Head
        BY <3>20 DEF StartCancel
      <4>2. att[jobs[j].head].reason \in Reason
        BY <4>1 DEF Attempt
      <4>3. [Idle EXCEPT !.pc = "cancelDelete", !.target = jobs[j].head,
                         !.reason = att[jobs[j].head].reason, !.job = j] \in Op
        BY <4>1, <4>2 DEF Idle, Op, PC
      <4> QED BY <3>20, <4>3 DEF StartCancel
    <3>21. CASE CancelDelete(s)
      <4>1. \A st \in JobState : Deleted(st) \in JobState
        BY DEF Deleted, JobState
      <4>2. jobs' \in [Job -> [st : JobState, head : Head \cup {NoHead}]]
        BY <3>21, <4>1 DEF CancelDelete
      <4> QED BY <3>21, <4>2 DEF CancelDelete, PC
    <3>22. CASE CancelFinalize(s)
      BY <3>22, ReleaseType, PatchType DEF CancelFinalize, Op
    <3>23. CASE Fail(s)
      BY <3>23, FreshType DEF Fail, armAbandon, Deleted, JobState
    <3>24. CASE Crash(s)
      BY <3>24 DEF Crash
    <3> QED
      BY <2>1, <3>1, <3>2, <3>3, <3>4, <3>5, <3>6, <3>7, <3>8, <3>9, <3>10,
         <3>11, <3>12, <3>13, <3>14, <3>15, <3>16, <3>17, <3>18, <3>19, <3>20,
         <3>21, <3>22, <3>23, <3>24 DEF SweeperStep
  <2>2. ASSUME Environment PROVE TypeOK'
    <3>1. ASSUME NEW j \in Job, RunnerStarts(j) PROVE TypeOK'
      BY <3>1, RunType, PatchType DEF RunnerStarts, JobState, Outcome
    <3>2. ASSUME NEW j \in Job, NEW outcome \in Outcome, RunnerEnds(j, outcome)
          PROVE  TypeOK'
      BY <3>2, RunType, PatchType DEF RunnerEnds, JobState
    <3>3. ASSUME NEW j \in Job, NEW st \in {"failed", "gone"}, JobStops(j, st)
          PROVE  TypeOK'
      BY <3>3 DEF JobStops, JobState
    <3>4. ASSUME NEW h \in Head, HorizonPasses(h) PROVE TypeOK'
      <4>1. /\ [att[h] EXCEPT !.clock = "old"] \in Attempt
            /\ [att[h] EXCEPT !.lostRecent = FALSE] \in Attempt
            /\ [att[h] EXCEPT !.dismissed = FALSE] \in Attempt
        BY DEF Attempt, Clock
      <4> QED BY <3>4, <4>1 DEF HorizonPasses
    <3> QED BY <2>2, <3>1, <3>2, <3>3, <3>4 DEF Environment
  <2>3. CASE UNCHANGED vars
    BY <2>3 DEF vars
  <2> QED BY <2>1, <2>2, <2>3 DEF Next
<1> QED BY <1>1, <1>2, PTL DEF Spec

(***************************************************************************)
(* One charge per stamp.  The inductive invariant: a claim that could be   *)
(* charged now (dispatched and not released) has had a dispatch stamped    *)
(* since the last charge.  Releases and revivals are where it could break. *)
(***************************************************************************)

\* A dispatched, unreleased claim stands on a stamp of its own.
Stamped == \A h \in Head : ChargesDeath(att[h]) => stamped[h] # "none"

\* Which of the ledger's mutations can make a claim chargeable, and which
\* can raise its count: only a stamp does the first, only a charge the second.
LEMMA ChargeFacts ==
  ASSUME NEW a \in Attempt, NEW p \in PR \cup {NoPR}, NEW human \in BOOLEAN,
         NEW expiry \in BOOLEAN, NEW reason \in Reason
  PROVE  /\ ~ChargesDeath(Absent) /\ ~ChargesDeath(Created)
         /\ ChargesDeath(Arm(a, p, human, expiry)) => ChargesDeath(a)
         /\ ~ChargesDeath(Release(a, reason))
         /\ ~ChargesDeath(ReleaseDead(a, reason))
         /\ ChargesDeath(markClaimReleased(a)) => ChargesDeath(a)
         /\ ChargesDeath(markClaimLive(a)) => ChargesDeath(a)
         /\ ChargesDeath(FinalizeCancelled(a, reason)) => ChargesDeath(a)
         /\ Arm(a, p, human, expiry).dead <= a.dead
         /\ ReleaseDead(a, reason).dead > a.dead => ChargesDeath(a)
<1>1. ~ChargesDeath(Absent) /\ ~ChargesDeath(Created)
  BY DEF ChargesDeath, Absent, Created
<1>2. ChargesDeath(Arm(a, p, human, expiry)) => ChargesDeath(a)
  BY DEF ChargesDeath, Arm, FreshClock, Attempt
<1>3. ~ChargesDeath(Release(a, reason))
  BY DEF ChargesDeath, Release, Attempt
<1>4. ~ChargesDeath(ReleaseDead(a, reason))
  BY DEF ChargesDeath, ReleaseDead, Attempt
<1>5. /\ ChargesDeath(markClaimReleased(a)) => ChargesDeath(a)
      /\ ChargesDeath(markClaimLive(a)) => ChargesDeath(a)
  BY DEF ChargesDeath, markClaimReleased, markClaimLive, Attempt
<1>6. ChargesDeath(FinalizeCancelled(a, reason)) => ChargesDeath(a)
  BY DEF ChargesDeath, FinalizeCancelled, Attempt
<1>7. Arm(a, p, human, expiry).dead <= a.dead
  <2>1. Arm(a, p, human, expiry).dead \in {0, a.dead}
    BY DEF Arm, FreshClock, Attempt
  <2>2. a.dead \in Nat
    BY DEF Attempt
  <2> QED BY <2>1, <2>2
<1>8. ReleaseDead(a, reason).dead > a.dead => ChargesDeath(a)
  <2>1. a.dead \in Nat
    BY DEF Attempt
  <2>2. ~ChargesDeath(a) => ReleaseDead(a, reason).dead = a.dead
    BY DEF ReleaseDead, ChargesDeath, Attempt
  <2> QED BY <2>1, <2>2
<1> QED BY <1>1, <1>2, <1>3, <1>4, <1>5, <1>6, <1>7, <1>8

\* The mutations that are neither an arm nor a death leave the count alone.
LEMMA DeadKept ==
  ASSUME NEW a \in Attempt, NEW reason \in Reason
  PROVE  /\ Release(a, reason).dead = a.dead
         /\ markClaimReleased(a).dead = a.dead
         /\ markClaimLive(a).dead = a.dead
         /\ FinalizeCancelled(a, reason).dead = a.dead
  BY DEF Release, markClaimReleased, markClaimLive, FinalizeCancelled, Attempt

\* A step charges a death only to a claim that could be charged, and makes no
\* claim chargeable.
ChargesDue == \A h \in Head : att'[h].dead > att[h].dead => ChargesDeath(att[h])
NoneChargeable == \A h \in Head : ChargesDeath(att'[h]) => ChargesDeath(att[h])

\* A patch of that kind.
LEMMA HarmlessPatch ==
  ASSUME TypeOK, NEW h, NEW a, Patch(h, a),
         h \in Head => /\ ChargesDeath(a) => ChargesDeath(att[h])
                       /\ a.dead > att[h].dead => ChargesDeath(att[h])
  PROVE  ChargesDue /\ NoneChargeable
<1>1. \A g \in Head : att'[g] = IF g = h THEN a ELSE att[g]
  BY DEF Patch, TypeOK
<1>2. \A g \in Head : ~(att[g].dead > att[g].dead)
  BY DEF TypeOK, Attempt
<1> QED BY <1>1, <1>2 DEF ChargesDue, NoneChargeable

\* A sweeper charges only what can be charged; only its two stamps of a
\* dispatch make a claim chargeable.
LEMMA SweeperCharges ==
  ASSUME TypeOK, NEW s \in Sweeper, SweeperStep(s)
  PROVE  /\ ChargesDue
         /\ NoneChargeable \/ DispatchIntent(s) \/ DispatchEdge(s)
<1> DEFINE Goal == ChargesDue /\ NoneChargeable
<1>0. /\ op[s] \in Op /\ op[s].reason \in Reason
      /\ op[s].pr \in PR \cup {NoPR}
      /\ op[s].human \in BOOLEAN /\ op[s].expiry \in BOOLEAN
      /\ \A h \in Head : att[h] \in Attempt /\ att[h].dead \in Nat
  BY DEF TypeOK, Op, Attempt
<1>1. ASSUME UNCHANGED att PROVE Goal
  BY <1>0, <1>1 DEF ChargesDue, NoneChargeable
<1>2. CASE ReleaseStatus(s)
  <2> DEFINE h == op[s].target
             a == Release(att[h], op[s].reason)
  <2>1. h \in Head => ~ChargesDeath(a) /\ a.dead = att[h].dead
    BY <1>0, ChargeFacts, DeadKept
  <2>2. Patch(h, a)
    BY <1>2 DEF ReleaseStatus
  <2> HIDE DEF a, h
  <2> QED BY <1>0, <2>1, <2>2, HarmlessPatch
<1>3. CASE ReleaseMark(s) \/ DeadMark(s)
  <2> DEFINE h == op[s].target
             a == markClaimReleased(att[h])
  <2>1. h \in Head => /\ ChargesDeath(a) => ChargesDeath(att[h])
                      /\ a.dead = att[h].dead
    BY <1>0, ChargeFacts, DeadKept
  <2>2. Patch(h, a)
    BY <1>3 DEF ReleaseMark, DeadMark
  <2> HIDE DEF a, h
  <2> QED BY <1>0, <2>1, <2>2, HarmlessPatch
<1>4. CASE DeadStatus(s)
  <2> DEFINE h == op[s].target
             a == ReleaseDead(att[h], op[s].reason)
  <2>1. h \in Head => /\ ~ChargesDeath(a)
                      /\ a.dead > att[h].dead => ChargesDeath(att[h])
    BY <1>0, ChargeFacts
  <2>2. Patch(h, a)
    BY <1>4 DEF DeadStatus
  <2> HIDE DEF a, h
  <2> QED BY <2>1, <2>2, HarmlessPatch
<1>5. ASSUME NEW h \in Head, ArmResolve(s, h) PROVE Goal
  <2>1. \A g \in Head : att'[g] \in {att[g], Created}
    BY <1>5 DEF ArmResolve, TypeOK
  <2>2. ~ChargesDeath(Created) /\ Created.dead = 0
    BY DEF ChargesDeath, Created, Absent
  <2> QED BY <1>0, <2>1, <2>2 DEF ChargesDue, NoneChargeable
<1>6. CASE ArmLive(s)
  <2> DEFINE h == op[s].head
             a == markClaimLive(att[h])
  <2>1. h \in Head => /\ ChargesDeath(a) => ChargesDeath(att[h])
                      /\ a.dead = att[h].dead
    BY <1>0, ChargeFacts, DeadKept
  <2>2. Patch(h, a)
    BY <1>6 DEF ArmLive
  <2> HIDE DEF a, h
  <2> QED BY <1>0, <2>1, <2>2, HarmlessPatch
<1>7. CASE ArmStatus(s)
  <2> DEFINE h == op[s].head
             a == Arm(att[h], op[s].pr, op[s].human, op[s].expiry)
  <2>1. h \in Head => /\ ChargesDeath(a) => ChargesDeath(att[h])
                      /\ a.dead <= att[h].dead
                      /\ a \in Attempt
    BY <1>0, ChargeFacts, ArmType
  <2>2. h \in Head => a.dead \in Nat
    BY <2>1 DEF Attempt
  <2>3. Patch(h, a)
    BY <1>7 DEF ArmStatus
  <2> HIDE DEF a, h
  <2>4. h \in Head => ~(a.dead > att[h].dead)
    BY <1>0, <2>1, <2>2
  <2> QED BY <2>1, <2>3, <2>4, HarmlessPatch
<1>8. CASE DispatchIntent(s) \/ DispatchEdge(s)
  <2> DEFINE h == op[s].head
  <2>1. PICK a : /\ \A g \in Head : att'[g] = IF g = h THEN a ELSE att[g]
                 /\ h \in Head => a.dead = att[h].dead
    <3>1. CASE DispatchIntent(s)
      <4> WITNESS MarkDispatchIntent(att[h])
      <4> QED BY <1>0, <3>1 DEF DispatchIntent, Patch, TypeOK,
                                MarkDispatchIntent, Attempt
    <3>2. CASE DispatchEdge(s)
      <4> WITNESS MarkClaimDispatched(att[h], op[s].job)
      <4> QED BY <1>0, <3>2 DEF DispatchEdge, Patch, TypeOK,
                                MarkClaimDispatched, Attempt
    <3> QED BY <1>8, <3>1, <3>2
  <2> HIDE DEF h
  <2>2. ChargesDue
    BY <1>0, <2>1 DEF ChargesDue
  <2> QED BY <1>8, <2>2
<1>9. CASE CancelFinalize(s)
  <2> DEFINE h == op[s].target
             a == FinalizeCancelled(att[h], op[s].reason)
  <2>1. h \in Head => /\ ChargesDeath(a) => ChargesDeath(att[h])
                      /\ a.dead = att[h].dead
    BY <1>0, ChargeFacts, DeadKept
  <2>2. Patch(h, a)
    BY <1>9 DEF CancelFinalize
  <2> HIDE DEF a, h
  <2> QED BY <1>0, <2>1, <2>2, HarmlessPatch
<1>10. ASSUME Fail(s) PROVE Goal
  <2>1. \A g \in Head : att'[g] \in {att[g], Absent}
    BY <1>10 DEF Fail, armAbandon, TypeOK
  <2>2. ~ChargesDeath(Absent) /\ Absent.dead = 0
    BY DEF ChargesDeath, Absent
  <2> QED BY <1>0, <2>1, <2>2 DEF ChargesDue, NoneChargeable
<1> QED
  BY <1>1, <1>2, <1>3, <1>4, <1>5, <1>6, <1>7, <1>8, <1>9, <1>10
  DEF SweeperStep, StartRelease, StartDead, StartArm, ArmRefuse, ArmList,
      ArmSupersede, ArmBreaker, StartDispatch, DispatchLock,
      CompleteDispatchEdge, DispatchCreate, StartCancel, CancelDelete, Crash

\* A step of a runner, of the cluster or of time charges nothing.
LEMMA EnvironmentCharges ==
  ASSUME TypeOK, Environment
  PROVE  ChargesDue /\ NoneChargeable /\ UNCHANGED <<op, stamped>>
<1>0. \A h \in Head : att[h] \in Attempt /\ att[h].dead \in Nat
  BY DEF TypeOK, Attempt
<1>1. UNCHANGED <<op, stamped>>
  BY DEF Environment, RunnerStarts, RunnerEnds, JobStops, HorizonPasses
<1>2. \A g \in Head : /\ ChargesDeath(att'[g]) <=> ChargesDeath(att[g])
                      /\ att'[g].dead = att[g].dead
  <2> DEFINE Kept == <1>2!:
  <2>1. ASSUME NEW j \in Job, RunnerStarts(j) PROVE Kept
    BY <1>0, <2>1 DEF RunnerStarts, Patch, RunStarted, ChargesDeath, Attempt,
                      TypeOK
  <2>2. ASSUME NEW j \in Job, NEW outcome \in Outcome, RunnerEnds(j, outcome)
        PROVE  Kept
    BY <1>0, <2>2 DEF RunnerEnds, Patch, RunOutcome, ChargesDeath, Attempt,
                      TypeOK
  <2>3. ASSUME NEW j \in Job, NEW st, JobStops(j, st) PROVE Kept
    BY <2>3 DEF JobStops
  <2>4. ASSUME NEW h \in Head, HorizonPasses(h) PROVE Kept
    <3>1. CASE att' = [att EXCEPT ![h].clock = "old"]
      BY <1>0, <3>1 DEF ChargesDeath, Attempt, TypeOK
    <3>2. CASE att' = [att EXCEPT ![h].dismissed = FALSE]
      BY <1>0, <3>2 DEF ChargesDeath, Attempt, TypeOK
    <3> QED BY <2>4, <3>1, <3>2 DEF HorizonPasses
  <2> QED BY <2>1, <2>2, <2>3, <2>4 DEF Environment
<1> QED BY <1>0, <1>1, <1>2 DEF ChargesDue, NoneChargeable

\* What a sweeper's step does to the history: only a charge clears it, and only
\* for its target; the stamps are the two of a dispatch.
LEMMA StampMoves ==
  ASSUME TypeOK, NEW s \in Sweeper, SweeperStep(s)
  PROVE  \/ UNCHANGED stamped /\ ~DispatchIntent(s) /\ ~DispatchEdge(s)
         \/ /\ DeadStatus(s)
            /\ \A g \in Head : g # op[s].target => stamped'[g] = stamped[g]
         \/ /\ DispatchIntent(s)
            /\ \A g \in Head :
                 stamped'[g] = IF g = op[s].head THEN "intent" ELSE stamped[g]
         \/ /\ DispatchEdge(s)
            /\ \A g \in Head :
                 stamped'[g] = IF g = op[s].head /\ stamped[g] = "none"
                               THEN "edge" ELSE stamped[g]
<1>1. CASE DeadStatus(s)
  BY <1>1 DEF DeadStatus, TypeOK
<1>2. CASE DispatchIntent(s)
  BY <1>2 DEF DispatchIntent, TypeOK
<1>3. CASE DispatchEdge(s)
  BY <1>3 DEF DispatchEdge, TypeOK
<1>4. CASE ~DeadStatus(s) /\ ~DispatchIntent(s) /\ ~DispatchEdge(s)
  BY <1>4 DEF SweeperStep, StartRelease, ReleaseStatus, ReleaseMark, StartDead,
     DeadMark, StartArm, ArmResolve, ArmRefuse, ArmList, ArmSupersede,
     ArmBreaker, ArmLive, ArmStatus, StartDispatch, DispatchLock,
     CompleteDispatchEdge, DispatchCreate, StartCancel, CancelDelete,
     CancelFinalize, Fail, Crash
<1> QED BY <1>1, <1>2, <1>3, <1>4

\* The death that DeadStatus records leaves its claim released.
LEMMA DeadStatusReleases ==
  ASSUME TypeOK, NEW s \in Sweeper, DeadStatus(s), op[s].target \in Head
  PROVE  ~ChargesDeath(att'[op[s].target])
<1>1. att'[op[s].target] = ReleaseDead(att[op[s].target], op[s].reason)
  BY DEF DeadStatus, Patch, TypeOK
<1>2. att[op[s].target] \in Attempt
  BY DEF TypeOK
<1> QED BY <1>1, <1>2 DEF ReleaseDead, ChargesDeath, Attempt

\* However many sweeps overlap and whatever they observe, fail at or crash in,
\* the dead-dispatch breaker is charged at most once for each stamp of a dispatch
\* on the ledger (ReleaseClaimDead's guard, ArmClaim's reset).
THEOREM StampChargedOnce == Spec => OneChargePerStamp
<1>1. Init => Stamped
  <2>1. ~ChargesDeath(Absent)
    BY DEF ChargesDeath, Absent
  <2> QED BY <2>1 DEF Init, Stamped
<1>2. ASSUME TypeOK, Stamped, [Next]_vars PROVE Stamped'
  <2>1. ASSUME NEW s \in Sweeper, SweeperStep(s) PROVE Stamped'
    <3>1. CASE UNCHANGED stamped /\ NoneChargeable
      BY <1>2, <3>1 DEF Stamped, NoneChargeable
    <3>2. CASE DeadStatus(s) /\ NoneChargeable
      <4>1. \A g \in Head : g # op[s].target => stamped'[g] = stamped[g]
        BY <1>2, <3>2 DEF DeadStatus, TypeOK
      <4>2. op[s].target \in Head => ~ChargesDeath(att'[op[s].target])
        BY <1>2, <2>1, <3>2, DeadStatusReleases
      <4> QED BY <1>2, <3>2, <4>1, <4>2 DEF Stamped, NoneChargeable
    <3>3. CASE DispatchIntent(s) \/ DispatchEdge(s)
      <4>1. \A g \in Head : IF g = op[s].head THEN stamped'[g] # "none"
                            ELSE stamped'[g] = stamped[g]
        BY <1>2, <3>3 DEF DispatchIntent, DispatchEdge, TypeOK
      <4>2. \A g \in Head : g # op[s].head => att'[g] = att[g]
        BY <1>2, <3>3 DEF DispatchIntent, DispatchEdge, Patch, TypeOK
      <4> QED BY <1>2, <4>1, <4>2 DEF Stamped
    <3> QED BY <1>2, <2>1, <3>1, <3>2, <3>3, StampMoves, SweeperCharges
  <2>2. CASE Environment
    BY <1>2, <2>2, EnvironmentCharges DEF Stamped, NoneChargeable
  <2>3. CASE UNCHANGED vars
    BY <1>2, <2>3 DEF vars, Stamped
  <2> QED BY <1>2, <2>1, <2>2, <2>3 DEF Next
<1>3. ASSUME TypeOK, Stamped, [Next]_vars
      PROVE  [\A h \in Head : att'[h].dead > att[h].dead
                                => stamped[h] # "none"]_vars
  BY <1>3, SweeperCharges, EnvironmentCharges DEF Next, ChargesDue, Stamped
<1> QED BY <1>1, <1>2, <1>3, TypeCorrect, PTL DEF Spec, OneChargePerStamp

(***************************************************************************)
(* One charge per dispatch, with one sweep at a time.  A claim that could  *)
(* be charged, and a head whose Job is alive, stand on an intent no death  *)
(* was charged for: a charge is decided when no Job of the head is alive,  *)
(* and no other sweep creates one or completes an edge before it lands.    *)
(***************************************************************************)

IntentFirst ==
  \A h \in Head : ChargesDeath(att[h]) \/ jobAlive(h) => stamped[h] = "intent"

SweepIntent(s) ==
  /\ op[s].pc \in {"dispCreate", "dispEdgeGet", "dispEdge"}
       /\ op[s].head \in Head => stamped[op[s].head] = "intent"
  /\ op[s].pc = "deadStatus" => ~jobAlive(op[s].target)

IntentInv == IntentFirst /\ \A s \in Sweeper : SweepIntent(s)

\* Only the dispatch's create makes a Job alive.
NoneAlive == \A x \in Head \cup {NoHead} : jobAlive(x)' => jobAlive(x)

\* No step of a sweep but the create of its dispatch makes a Job alive.
LEMMA SweeperJobs ==
  ASSUME TypeOK, NEW s \in Sweeper, SweeperStep(s)
  PROVE  \/ NoneAlive
         \/ /\ DispatchCreate(s)
            /\ \A x \in Head : jobAlive(x)' => jobAlive(x) \/ x = op[s].head
<1>1. CASE UNCHANGED jobs
  BY <1>1 DEF NoneAlive, jobAlive, LiveJob
<1>2. CASE DispatchCreate(s)
  <2>1. PICK j \in Job :
          jobs' = [jobs EXCEPT ![j] = [st |-> "pending", head |-> op[s].head]]
    BY <1>2 DEF DispatchCreate
  <2>2. \A x \in Head : jobAlive(x)' => jobAlive(x) \/ x = op[s].head
    BY <2>1 DEF jobAlive, LiveJob, TypeOK
  <2> QED BY <1>2, <2>2
<1>3. CASE CancelDelete(s)
  <2>1. \A st : Deleted(st) \notin {"pending", "running"}
    BY DEF Deleted
  <2>2. jobs' = [jobs EXCEPT ![op[s].job].st = Deleted(@)]
    BY <1>3 DEF CancelDelete
  <2> QED BY <2>1, <2>2 DEF NoneAlive, jobAlive, LiveJob, TypeOK
<1>4. CASE Fail(s)
  <2>1. \A st : Deleted(st) \notin {"pending", "running"}
    BY DEF Deleted
  <2>2. \/ UNCHANGED jobs
        \/ jobs' = [j \in Job |-> IF LiveJob(j, op[s].head)
                                  THEN [jobs[j] EXCEPT !.st = Deleted(@)]
                                  ELSE jobs[j]]
    BY <1>4 DEF Fail, armAbandon
  <2>3. \A j \in Job : /\ jobs'[j].head = jobs[j].head
                       /\ jobs'[j].st \in {"pending", "running"}
                            => jobs'[j].st = jobs[j].st
    BY <2>1, <2>2 DEF TypeOK
  <2> QED BY <2>3 DEF NoneAlive, jobAlive, LiveJob
<1> QED
  BY <1>1, <1>2, <1>3, <1>4
  DEF SweeperStep, StartRelease, ReleaseStatus, ReleaseMark, StartDead,
      DeadStatus, DeadMark, StartArm, ArmResolve, ArmRefuse, ArmList,
      ArmSupersede, ArmBreaker, ArmLive, ArmStatus, StartDispatch,
      DispatchLock, CompleteDispatchEdge, DispatchIntent, DispatchEdge,
      StartCancel, CancelFinalize, Crash

\* Neither does a runner, a Job that stops or the clock.
LEMMA EnvironmentJobs ==
  ASSUME TypeOK, Environment
  PROVE  NoneAlive
<1>1. ASSUME NEW j \in Job, RunnerStarts(j) PROVE NoneAlive
  BY <1>1 DEF RunnerStarts, NoneAlive, jobAlive, LiveJob, TypeOK
<1>2. ASSUME NEW j \in Job, NEW outcome, RunnerEnds(j, outcome) PROVE NoneAlive
  BY <1>2 DEF RunnerEnds, NoneAlive, jobAlive, LiveJob, TypeOK
<1>3. ASSUME NEW j \in Job, NEW st \in {"failed", "gone"}, JobStops(j, st)
      PROVE  NoneAlive
  BY <1>3 DEF JobStops, NoneAlive, jobAlive, LiveJob, TypeOK
<1>4. ASSUME NEW h \in Head, HorizonPasses(h) PROVE NoneAlive
  BY <1>4 DEF HorizonPasses, NoneAlive, jobAlive, LiveJob
<1> QED BY <1>1, <1>2, <1>3, <1>4 DEF Environment

\* The steps of a sweep keep the intents its charges stand on.
LEMMA SweeperIntents ==
  ASSUME TypeOK, IntentInv, NEW s \in Sweeper, SweeperStep(s)
  PROVE  IntentFirst'
<1>0. IntentFirst /\ SweepIntent(s)
  BY DEF IntentInv
<1>1. ASSUME UNCHANGED stamped, ~DispatchIntent(s), ~DispatchEdge(s)
      PROVE  IntentFirst'
  <2>1. \A x \in Head : jobAlive(x)' => stamped[x] = "intent"
    BY <1>0, SweeperJobs
    DEF NoneAlive, IntentFirst, SweepIntent, DispatchCreate, At
  <2> QED BY <1>0, <1>1, <2>1, SweeperCharges DEF IntentFirst, NoneChargeable
<1>2. CASE DeadStatus(s)
  <2>1. /\ ~DispatchIntent(s) /\ ~DispatchEdge(s) /\ ~jobAlive(op[s].target)
        /\ UNCHANGED jobs
    BY <1>0, <1>2 DEF DeadStatus, DispatchIntent, DispatchEdge, At, SweepIntent
  <2>2. /\ \A g \in Head : g # op[s].target => stamped'[g] = stamped[g]
        /\ op[s].target \in Head => ~ChargesDeath(att'[op[s].target])
    BY <1>2, DeadStatusReleases DEF DeadStatus, TypeOK
  <2>3. \A x : jobAlive(x)' <=> jobAlive(x)
    BY <2>1 DEF jobAlive, LiveJob
  <2>4. NoneChargeable
    BY <2>1, SweeperCharges
  <2> QED BY <1>0, <2>1, <2>2, <2>3, <2>4 DEF IntentFirst, NoneChargeable
<1>3. CASE DispatchIntent(s) \/ DispatchEdge(s)
  <2>1. \A g \in Head : IF g = op[s].head THEN stamped'[g] = "intent"
                        ELSE stamped'[g] = stamped[g]
    BY <1>0, <1>3
    DEF DispatchIntent, DispatchEdge, TypeOK, SweepIntent, At
  <2>2. \A g \in Head : g # op[s].head => att'[g] = att[g]
    BY <1>3 DEF DispatchIntent, DispatchEdge, Patch, TypeOK
  <2>3. UNCHANGED jobs
    BY <1>3 DEF DispatchIntent, DispatchEdge
  <2>4. \A x : jobAlive(x)' <=> jobAlive(x)
    BY <2>3 DEF jobAlive, LiveJob
  <2> QED BY <1>0, <2>1, <2>2, <2>4 DEF IntentFirst
<1> QED BY <1>1, <1>2, <1>3, StampMoves

\* What a sweep relies on between its decision and its write, it establishes.
LEMMA SweepIntentStep ==
  ASSUME TypeOK, IntentInv, NEW s \in Sweeper, SweeperStep(s)
  PROVE  SweepIntent(s)'
<1> DEFINE Elsewhere == op'[s].pc \notin {"dispCreate", "dispEdgeGet",
                                          "dispEdge", "deadStatus"}
<1>0. op \in [Sweeper -> Op] /\ op[s] \in Op /\ SweepIntent(s) /\ IntentFirst
  BY DEF IntentInv, TypeOK
<1>1. Elsewhere => SweepIntent(s)'
  BY DEF SweepIntent
<1>2. ASSUME NEW h \in Head, NEW reason, StartDead(s, h, reason)
      PROVE  SweepIntent(s)'
  <2>1. op'[s].pc = "deadStatus" /\ op'[s].target = h
    BY <1>0, <1>2 DEF StartDead, Idle
  <2>2. ~jobAlive(h) /\ UNCHANGED jobs
    BY <1>2 DEF StartDead
  <2> QED BY <2>1, <2>2 DEF SweepIntent, jobAlive, LiveJob
<1>3. CASE DispatchLock(s)
  <2>1. UNCHANGED stamped
    BY <1>3 DEF DispatchLock
  <2>2. CASE Goto(s, "dispIntent")
    <3>1. op'[s].pc = "dispIntent"
      BY <1>0, <2>2 DEF Goto, Op
    <3> QED BY <1>1, <3>1
  <2>3. ASSUME NEW j \in Job, LiveJob(j, op[s].head),
               op' = [op EXCEPT ![s].pc = "dispEdgeGet", ![s].job = j]
        PROVE  SweepIntent(s)'
    <3>1. op'[s] = [op[s] EXCEPT !.pc = "dispEdgeGet", !.job = j]
      BY <1>0, <2>3
    <3>2. op'[s].pc = "dispEdgeGet" /\ op'[s].head = op[s].head
      BY <1>0, <3>1 DEF Op
    <3>3. jobAlive(op[s].head)
      BY <2>3 DEF jobAlive
    <3> QED BY <1>0, <2>1, <3>2, <3>3 DEF SweepIntent, IntentFirst
  <2> QED BY <1>3, <2>2, <2>3 DEF DispatchLock
<1>4. CASE CompleteDispatchEdge(s)
  <2>1. op[s].pc = "dispEdgeGet" /\ UNCHANGED stamped
    BY <1>4 DEF CompleteDispatchEdge, At
  <2>2. CASE Goto(s, "dispEdge")
    <3>1. op'[s].pc = "dispEdge" /\ op'[s].head = op[s].head
      BY <1>0, <2>2 DEF Goto, Op
    <3> QED BY <1>0, <2>1, <3>1 DEF SweepIntent
  <2>3. CASE Finish(s)
    <3>1. op'[s].pc = "idle"
      BY <1>0, <2>3 DEF Finish, Idle
    <3> QED BY <1>1, <3>1
  <2> QED BY <1>4, <2>2, <2>3 DEF CompleteDispatchEdge
<1>5. CASE DispatchIntent(s)
  <2>1. op'[s].pc = "dispCreate" /\ op'[s].head = op[s].head
    BY <1>0, <1>5 DEF DispatchIntent, Goto, Op
  <2>2. op[s].head \in Head => stamped'[op[s].head] = "intent"
    BY <1>5 DEF DispatchIntent, TypeOK
  <2> QED BY <2>1, <2>2 DEF SweepIntent
<1>6. CASE DispatchCreate(s)
  <2>1. PICK j \in Job : op'[s] = [op[s] EXCEPT !.pc = "dispEdge", !.job = j]
    BY <1>0, <1>6 DEF DispatchCreate
  <2>2. op'[s].pc = "dispEdge" /\ op'[s].head = op[s].head
    BY <1>0, <2>1 DEF Op
  <2>3. op[s].pc = "dispCreate" /\ UNCHANGED stamped
    BY <1>6 DEF DispatchCreate, At
  <2> QED BY <1>0, <2>2, <2>3 DEF SweepIntent
<1>7. ASSUME Finish(s) PROVE SweepIntent(s)'
  <2>1. op'[s].pc = "idle"
    BY <1>0, <1>7 DEF Finish, Idle
  <2> QED BY <1>1, <2>1
<1>8. ASSUME NEW pc \in {"relMark", "deadMark", "armLive", "armStatus",
                         "cancelFinalize"}, Goto(s, pc)
      PROVE  SweepIntent(s)'
  <2>1. op'[s].pc = pc
    BY <1>0, <1>8 DEF Goto, Op
  <2> QED BY <1>1, <2>1
<1>9. ASSUME NEW h \in Head, NEW reason \in GateReason, StartRelease(s, h, reason)
      PROVE  SweepIntent(s)'
  <2>1. op'[s].pc = "relStatus"
    BY <1>0, <1>9 DEF StartRelease, Idle
  <2> QED BY <1>1, <2>1
<1>10. CASE ReleaseMark(s)
  <2>1. CASE op[s].then = "idle"
    BY <1>7, <1>10, <2>1 DEF ReleaseMark, Finish
  <2>2. CASE op[s].then # "idle"
    <3>1. op'[s] = [op[s] EXCEPT !.pc = op[s].then]
      BY <1>0, <1>10, <2>2 DEF ReleaseMark
    <3>2. op'[s].pc = op[s].then /\ op[s].then \in {"armEval", "armSupersede"}
      BY <1>0, <2>2, <3>1 DEF Op
    <3> QED BY <1>1, <3>2
  <2> QED BY <2>1, <2>2
<1>11. ASSUME NEW p \in PR, NEW asks \in {"scan", "request", "human"},
              NEW wake \in Head, StartArm(s, p, asks, wake)
       PROVE  SweepIntent(s)'
  <2>1. op'[s].pc \in {"armEval", "relStatus"}
    BY <1>0, <1>11, ArmOp
  <2> QED BY <1>1, <2>1
<1>12. ASSUME NEW h \in Head, ArmResolve(s, h) PROVE SweepIntent(s)'
  <2>1. op'[s].pc = "armList"
    BY <1>0, <1>12 DEF ArmResolve, Op
  <2> QED BY <1>1, <2>1
<1>13. CASE ArmList(s)
  <2>1. op'[s].pc = "armSupersede"
    BY <1>0, <1>13 DEF ArmList, Op
  <2> QED BY <1>1, <2>1
<1>14. CASE ArmSupersede(s)
  <2>1. PICK g \in op[s].todo :
          op'[s] = [op[s] EXCEPT !.pc = "relStatus", !.then = "armSupersede",
                                 !.target = g, !.reason = "superseded",
                                 !.todo = op[s].todo \ {g}]
    BY <1>0, <1>14 DEF ArmSupersede
  <2>2. op'[s].pc = "relStatus"
    BY <1>0, <2>1 DEF Op
  <2> QED BY <1>1, <2>2
<1>15. CASE ArmStatus(s)
  <2>1. op'[s].pc = "dispLock" \/ Finish(s)
    BY <1>0, <1>15 DEF ArmStatus, Idle
  <2> QED BY <1>1, <1>7, <2>1
<1>16. ASSUME NEW h \in Head, StartDispatch(s, h) PROVE SweepIntent(s)'
  <2>1. op'[s].pc = "dispLock"
    BY <1>0, <1>16 DEF StartDispatch, Idle
  <2> QED BY <1>1, <2>1
<1>17. ASSUME NEW j \in Job, StartCancel(s, j) PROVE SweepIntent(s)'
  <2>1. op'[s].pc = "cancelDelete"
    BY <1>0, <1>17 DEF StartCancel, Idle
  <2> QED BY <1>1, <2>1
<1> HIDE DEF Elsewhere
<1> QED
  BY <1>2, <1>3, <1>4, <1>5, <1>6, <1>7, <1>8, <1>9, <1>10, <1>11,
     <1>12, <1>13, <1>14, <1>15, <1>16, <1>17
  DEF SweeperStep, ReleaseStatus, DeadStatus, DeadMark, ArmRefuse, ArmBreaker,
      ArmLive, DispatchEdge, CancelDelete, CancelFinalize, Fail, Crash

\* With one sweep at a time, one dispatch is charged to the dead-dispatch
\* breaker at most once: no second charge before the next intent, also when the
\* process dies between the intent, the Job and the edge and a later sweep
\* completes what it finds (ReleaseClaimDead, ArmClaim, Dispatch's dedupe).
THEOREM ChargedOnceSequential ==
  ASSUME \A s, t \in Sweeper : s = t
  PROVE  Spec => OneChargePerDispatch
<1>1. Init => IntentInv
  <2> SUFFICES ASSUME Init PROVE IntentInv
    OBVIOUS
  <2>1. \A h \in Head : ~ChargesDeath(att[h])
    BY DEF Init, ChargesDeath, Absent
  <2>2. \A h : ~jobAlive(h)
    BY DEF Init, jobAlive, LiveJob
  <2>3. \A s \in Sweeper : op[s].pc = "idle"
    BY DEF Init, Idle
  <2> QED BY <2>1, <2>2, <2>3 DEF IntentInv, IntentFirst, SweepIntent
<1>2. ASSUME TypeOK, IntentInv, [Next]_vars PROVE IntentInv'
  <2>1. ASSUME NEW s \in Sweeper, SweeperStep(s) PROVE IntentInv'
    <3>1. IntentFirst' /\ SweepIntent(s)'
      BY <1>2, <2>1, SweeperIntents, SweepIntentStep
    <3> QED BY <3>1 DEF IntentInv
  <2>2. CASE Environment
    <3>1. NoneAlive /\ NoneChargeable /\ UNCHANGED <<op, stamped>>
      BY <1>2, <2>2, EnvironmentJobs, EnvironmentCharges
    <3>2. IntentFirst'
      BY <1>2, <3>1 DEF IntentInv, IntentFirst, NoneAlive, NoneChargeable
    <3>3. ASSUME NEW s \in Sweeper PROVE SweepIntent(s)'
      <4>1. op[s].target \in Head \cup {NoHead} /\ SweepIntent(s)
        BY <1>2 DEF TypeOK, Op, IntentInv
      <4> QED BY <3>1, <4>1 DEF SweepIntent, NoneAlive
    <3> QED BY <3>2, <3>3 DEF IntentInv
  <2>3. CASE UNCHANGED vars
    BY <1>2, <2>3 DEF vars, IntentInv, IntentFirst, SweepIntent, jobAlive, LiveJob
  <2> QED BY <1>2, <2>1, <2>2, <2>3 DEF Next
<1>3. ASSUME TypeOK, IntentInv, [Next]_vars
      PROVE  [\A h \in Head : att'[h].dead > att[h].dead
                                => stamped[h] = "intent"]_vars
  BY <1>3, SweeperCharges, EnvironmentCharges
  DEF Next, ChargesDue, IntentInv, IntentFirst
<1> QED BY <1>1, <1>2, <1>3, TypeCorrect, PTL DEF Spec, OneChargePerDispatch

(***************************************************************************)
(* One sweep at a time.  The invariants that claim_seq checks hold as long *)
(* as no second sweep interleaves with the one in progress, whatever fails *)
(* or crashes in it and whatever the runners and the cluster do.           *)
(***************************************************************************)

\* A mutation that neither gives nor takes a claim's life, moves it to no
\* other pull request, and marks it as released only when it is.
KeepsClaim(a, b) ==
  /\ b.exists = a.exists /\ b.pr = a.pr /\ b.released = a.released
  /\ b.marker => a.marker \/ b.released

\* What each mutation does to the fields that make a claim live and visible.
LEMMA ClaimFields ==
  ASSUME NEW a \in Attempt, NEW reason \in Reason, NEW j \in Job \cup {NoJob},
         NEW p \in PR \cup {NoPR}, NEW human \in BOOLEAN,
         NEW expiry \in BOOLEAN
  PROVE  /\ ~Live(Absent) /\ ~Live(Created)
         /\ ~Live(Release(a, reason)) /\ ~Live(ReleaseDead(a, reason))
         /\ KeepsClaim(a, markClaimReleased(a))
         /\ KeepsClaim(a, markClaimLive(a)) /\ ~markClaimLive(a).marker
         /\ KeepsClaim(a, FinalizeCancelled(a, reason))
         /\ KeepsClaim(a, MarkDispatchIntent(a))
         /\ KeepsClaim(a, MarkClaimDispatched(a, j))
         /\ LET b == Arm(a, p, human, expiry)
            IN  b.pr = p /\ b.marker = a.marker /\ b.exists = a.exists
<1>1. ~Live(Absent) /\ ~Live(Created)
  BY DEF Live, Absent, Created
<1>2. ~Live(Release(a, reason)) /\ ~Live(ReleaseDead(a, reason))
  BY DEF Live, Release, ReleaseDead, Attempt
<1>3. /\ KeepsClaim(a, markClaimReleased(a))
      /\ KeepsClaim(a, markClaimLive(a)) /\ ~markClaimLive(a).marker
  BY DEF KeepsClaim, markClaimReleased, markClaimLive, Attempt
<1>4. KeepsClaim(a, FinalizeCancelled(a, reason))
  BY DEF KeepsClaim, FinalizeCancelled, Attempt
<1>5. /\ KeepsClaim(a, MarkDispatchIntent(a))
      /\ KeepsClaim(a, MarkClaimDispatched(a, j))
  BY DEF KeepsClaim, MarkDispatchIntent, MarkClaimDispatched, Attempt
<1>6. LET b == Arm(a, p, human, expiry)
      IN  b.pr = p /\ b.marker = a.marker /\ b.exists = a.exists
  BY DEF Arm, Attempt
<1> QED BY <1>1, <1>2, <1>3, <1>4, <1>5, <1>6

\* Sweeper s is in an arm that has resolved its object: also while the arm
\* releases a claim it supersedes.
Arming(s) ==
  \/ op[s].pc \in {"armList", "armSupersede", "armLive", "armStatus"}
  \/ op[s].pc \in {"relStatus", "relMark"} /\ op[s].then = "armSupersede"

\* The claims the arm of s has listed and not yet released.
Unsuperseded(s) ==
  op[s].todo \cup IF op[s].pc = "relStatus" THEN {op[s].target} ELSE {}

\* An arm knows every other live claim of its pull request, releases them all
\* before it writes its own, and has taken the marker off the object by then.
ArmInv(s) ==
  /\ op[s].pc = "armStatus" /\ op[s].head \in Head
       => ~att[op[s].head].marker
  /\ op[s].pc \in {"armLive", "armStatus"} => op[s].todo = {}
  /\ Arming(s) /\ op[s].pc # "armList" =>
       \A g \in Head \ {op[s].head} :
         Live(att[g]) /\ att[g].pr = op[s].pr => g \in Unsuperseded(s)

OneSweepClaims ==
  /\ NoInvisibleClaim
  /\ OneLivePerPR
  /\ \A s \in Sweeper : ArmInv(s)

\* No claim comes to life, changes its pull request or vanishes from the
\* gate's list while it lives.
LiveKept ==
  \A g \in Head :
    Live(att'[g]) => /\ Live(att[g])
                     /\ att'[g].pr = att[g].pr
                     /\ att'[g].marker => att[g].marker

\* One patch that ends a claim or keeps it keeps all the others.
LEMMA PatchKeepsLive ==
  ASSUME TypeOK, NEW h, NEW a, Patch(h, a),
         h \in Head => ~Live(a) \/ KeepsClaim(att[h], a)
  PROVE  LiveKept
<1>1. \A g \in Head : att'[g] = IF g = h THEN a ELSE att[g]
  BY DEF Patch, TypeOK
<1> QED BY <1>1 DEF LiveKept, Live, KeepsClaim

\* Every step of a sweep but the arm's own status patch keeps the live claims.
LEMMA SweeperKeepsLive ==
  ASSUME TypeOK, NEW s \in Sweeper, SweeperStep(s), ~ArmStatus(s)
  PROVE  LiveKept
<1>0. /\ op[s].reason \in Reason /\ op[s].job \in Job \cup {NoJob}
      /\ op[s].pr \in PR \cup {NoPR}
      /\ op[s].human \in BOOLEAN /\ op[s].expiry \in BOOLEAN
      /\ \A h \in Head : att[h] \in Attempt
  BY DEF TypeOK, Op
<1> USE <1>0, ClaimFields, PatchKeepsLive
<1>1. CASE UNCHANGED att
  BY <1>1 DEF LiveKept
<1>2. CASE ReleaseStatus(s)
  BY <1>2 DEF ReleaseStatus
<1>3. CASE ReleaseMark(s)
  BY <1>3 DEF ReleaseMark
<1>4. CASE DeadStatus(s)
  BY <1>4 DEF DeadStatus
<1>5. CASE DeadMark(s)
  BY <1>5 DEF DeadMark
<1>6. ASSUME NEW h \in Head, ArmResolve(s, h) PROVE LiveKept
  <2>1. \A g \in Head : att'[g] \in {att[g], Created}
    BY <1>6 DEF ArmResolve, TypeOK
  <2>2. ~Live(Created)
    BY DEF Live, Created, Absent
  <2> QED BY <2>1, <2>2 DEF LiveKept
<1>7. CASE ArmLive(s)
  BY <1>7 DEF ArmLive
<1>8. CASE DispatchIntent(s)
  BY <1>8 DEF DispatchIntent
<1>9. CASE DispatchEdge(s)
  BY <1>9 DEF DispatchEdge
<1>10. CASE CancelFinalize(s)
  BY <1>10 DEF CancelFinalize
<1>11. CASE Fail(s)
  <2>1. \A g \in Head : att'[g] \in {att[g], Absent}
    BY <1>11 DEF Fail, armAbandon, TypeOK
  <2>2. ~Live(Absent)
    BY DEF Live, Absent
  <2> QED BY <2>1, <2>2 DEF LiveKept
<1> QED
  BY <1>1, <1>2, <1>3, <1>4, <1>5, <1>6, <1>7, <1>8, <1>9, <1>10, <1>11
  DEF SweeperStep, StartRelease, StartDead, StartArm, ArmRefuse, ArmList,
      ArmSupersede, ArmBreaker, StartDispatch, DispatchLock,
      CompleteDispatchEdge, DispatchCreate, StartCancel, CancelDelete, Crash

\* So does every step of a runner, of the cluster or of time; none of them
\* touches a marker.
LEMMA EnvironmentKeepsLive ==
  ASSUME TypeOK, Environment
  PROVE  LiveKept /\ \A g \in Head : att'[g].marker => att[g].marker
<1> DEFINE Kept == \A g \in Head : /\ att'[g].exists = att[g].exists
                                   /\ att'[g].pr = att[g].pr
                                   /\ att'[g].released = att[g].released
                                   /\ att'[g].marker => att[g].marker
<1>0. \A h \in Head : att[h] \in Attempt
  BY DEF TypeOK
<1>1. ASSUME NEW j \in Job, RunnerStarts(j) PROVE Kept
  BY <1>0, <1>1 DEF RunnerStarts, Patch, RunStarted, Attempt, TypeOK
<1>2. ASSUME NEW j \in Job, NEW outcome \in Outcome, RunnerEnds(j, outcome)
      PROVE  Kept
  BY <1>0, <1>2 DEF RunnerEnds, Patch, RunOutcome, Attempt, TypeOK
<1>3. ASSUME NEW j \in Job, NEW st, JobStops(j, st) PROVE Kept
  BY <1>3 DEF JobStops
<1>4. ASSUME NEW h \in Head, HorizonPasses(h) PROVE Kept
  <2>1. CASE att' = [att EXCEPT ![h].clock = "old"]
    BY <1>0, <2>1 DEF Attempt, TypeOK
  <2>2. CASE att' = [att EXCEPT ![h].dismissed = FALSE]
    BY <1>0, <2>2 DEF Attempt, TypeOK
  <2> QED BY <1>4, <2>1, <2>2 DEF HorizonPasses
<1>5. Kept
  BY <1>1, <1>2, <1>3, <1>4 DEF Environment
<1> QED BY <1>5 DEF LiveKept, Live

\* A step that keeps the live claims keeps the two invariants about them.
LEMMA KeptClaims ==
  ASSUME NoInvisibleClaim, OneLivePerPR, LiveKept
  PROVE  NoInvisibleClaim' /\ OneLivePerPR'
  BY DEF NoInvisibleClaim, OneLivePerPR, LiveKept

\* The operation a sweeper goes on with: an arm that has resolved its object,
\* or something the arm's invariant does not speak of.
LEMMA ArmInvTrivial ==
  ASSUME NEW s \in Sweeper,
         op'[s].pc \notin {"armSupersede", "armLive", "armStatus"},
         op'[s].pc \in {"relStatus", "relMark"} => op'[s].then # "armSupersede"
  PROVE  ArmInv(s)'
  BY DEF ArmInv, Arming

\* The steps of an arm keep what it knows of the other claims.
LEMMA ArmStep ==
  ASSUME TypeOK, OneSweepClaims, NEW s \in Sweeper, SweeperStep(s)
  PROVE  ArmInv(s)'
<1> USE DEF TypeOK
<1>0. op \in [Sweeper -> Op] /\ op[s] \in Op
  OBVIOUS
<1>1. ArmInv(s)
  BY DEF OneSweepClaims
<1>2. CASE Finish(s)
  <2>1. op'[s].pc = "idle"
    BY <1>2 DEF Finish, Idle
  <2> QED BY <2>1, ArmInvTrivial
<1>3. ASSUME NEW h \in Head, NEW reason \in GateReason, StartRelease(s, h, reason)
      PROVE  ArmInv(s)'
  <2>1. op'[s].then = "idle" /\ op'[s].pc = "relStatus"
    BY <1>3 DEF StartRelease, Idle
  <2> QED BY <2>1, ArmInvTrivial
<1>4. CASE ReleaseStatus(s)
  <2>1. LiveKept
    BY <1>4, SweeperKeepsLive DEF ReleaseStatus, ArmStatus, At
  <2>2. op'[s] = [op[s] EXCEPT !.pc = "relMark"] /\ op[s].pc = "relStatus"
    BY <1>4 DEF ReleaseStatus, Goto, At
  <2>3. /\ op'[s].pc = "relMark" /\ op'[s].then = op[s].then
        /\ op'[s].head = op[s].head /\ op'[s].pr = op[s].pr
        /\ op'[s].todo = op[s].todo
    BY <1>0, <2>2 DEF Op
  <2>4. op[s].target \in Head => ~Live(att'[op[s].target])
    <3>1. op[s].target \in Head
            => att'[op[s].target] = Release(att[op[s].target], op[s].reason)
      BY <1>4 DEF ReleaseStatus, Patch
    <3>2. op[s].target \in Head
            => Release(att[op[s].target], op[s].reason).released
      BY DEF Release, Attempt
    <3> QED BY <3>1, <3>2 DEF Live
  <2> QED BY <1>1, <2>1, <2>2, <2>3, <2>4
          DEF ArmInv, Arming, Unsuperseded, LiveKept
<1>5. CASE ReleaseMark(s)
  <2>1. LiveKept
    BY <1>5, SweeperKeepsLive DEF ReleaseMark, ArmStatus, At
  <2>2. op[s].pc = "relMark"
    BY <1>5 DEF ReleaseMark, At
  <2>3. CASE op[s].then = "armSupersede"
    <3>1. op'[s] = [op[s] EXCEPT !.pc = "armSupersede"]
      BY <1>5, <2>3 DEF ReleaseMark
    <3>2. /\ op'[s].pc = "armSupersede"
          /\ op'[s].head = op[s].head /\ op'[s].pr = op[s].pr
          /\ op'[s].todo = op[s].todo
      BY <1>0, <3>1 DEF Op
    <3> QED BY <1>1, <2>1, <2>2, <2>3, <3>2
            DEF ArmInv, Arming, Unsuperseded, LiveKept
  <2>4. CASE op[s].then = "armEval"
    <3>1. op'[s] = [op[s] EXCEPT !.pc = "armEval"]
      BY <1>5, <2>4 DEF ReleaseMark
    <3>2. op'[s].pc = "armEval"
      BY <1>0, <3>1 DEF Op
    <3> QED BY <3>2, ArmInvTrivial
  <2>5. CASE op[s].then = "idle"
    BY <1>2, <1>5, <2>5 DEF ReleaseMark, Finish
  <2> QED BY <2>3, <2>4, <2>5 DEF Op
<1>6. ASSUME NEW h \in Head, NEW reason, StartDead(s, h, reason)
      PROVE  ArmInv(s)'
  <2>1. op'[s].pc = "deadStatus"
    BY <1>6 DEF StartDead, Idle
  <2> QED BY <2>1, ArmInvTrivial
<1>7. CASE DeadStatus(s)
  <2>1. op'[s].pc = "deadMark" \/ Finish(s)
    BY <1>7 DEF DeadStatus, Goto, Op
  <2> QED BY <1>2, <2>1, ArmInvTrivial
<1>8. ASSUME NEW p \in PR, NEW asks \in {"scan", "request", "human"},
             NEW wake \in Head, StartArm(s, p, asks, wake)
      PROVE  ArmInv(s)'
  <2>1. \/ op'[s].pc = "armEval"
        \/ op'[s].pc = "relStatus" /\ op'[s].then = "armEval"
    BY <1>0, <1>8, ArmOp
  <2> QED BY <2>1, ArmInvTrivial
<1>9. ASSUME NEW h \in Head, ArmResolve(s, h) PROVE ArmInv(s)'
  <2>1. op'[s].pc = "armList"
    BY <1>9 DEF ArmResolve, Op
  <2> QED BY <2>1, ArmInvTrivial
<1>10. CASE ArmList(s)
  <2> DEFINE todo == {g \in Head \ {op[s].head} : Claim(op[s].pr, g)}
  <2>1. op'[s] = [op[s] EXCEPT !.pc = "armSupersede", !.todo = todo]
    BY <1>10 DEF ArmList
  <2>2. \A g \in Head \ {op[s].head} :
          Live(att[g]) /\ att[g].pr = op[s].pr => g \in todo
    BY DEF OneSweepClaims, NoInvisibleClaim, Live, Claim, Listed
  <2> HIDE DEF todo
  <2>3. /\ op'[s].pc = "armSupersede" /\ op'[s].todo = todo
        /\ op'[s].head = op[s].head /\ op'[s].pr = op[s].pr
    BY <1>0, <2>1 DEF Op
  <2>4. UNCHANGED att
    BY <1>10 DEF ArmList
  <2> QED BY <2>2, <2>3, <2>4 DEF ArmInv, Arming, Unsuperseded
<1>11. CASE ArmSupersede(s)
  <2>1. PICK g \in op[s].todo :
          op' = [op EXCEPT ![s].pc = "relStatus", ![s].then = "armSupersede",
                           ![s].target = g, ![s].reason = "superseded",
                           ![s].todo = @ \ {g}]
    BY <1>11 DEF ArmSupersede
  <2>2. op'[s] = [op[s] EXCEPT !.pc = "relStatus", !.then = "armSupersede",
                               !.target = g, !.reason = "superseded",
                               !.todo = op[s].todo \ {g}]
    BY <2>1
  <2>3. /\ op'[s].pc = "relStatus" /\ op'[s].target = g
        /\ op'[s].todo = op[s].todo \ {g}
        /\ op'[s].head = op[s].head /\ op'[s].pr = op[s].pr
    BY <1>0, <2>2 DEF Op
  <2>4. UNCHANGED att /\ op[s].pc = "armSupersede"
    BY <1>11 DEF ArmSupersede, At
  <2> QED BY <1>1, <2>3, <2>4 DEF ArmInv, Arming, Unsuperseded
<1>12. CASE ArmBreaker(s)
  <2>1. CASE Goto(s, "armLive")
    <3>1. op'[s] = [op[s] EXCEPT !.pc = "armLive"]
      BY <2>1 DEF Goto
    <3>2. /\ op'[s].pc = "armLive" /\ op'[s].todo = op[s].todo
          /\ op'[s].head = op[s].head /\ op'[s].pr = op[s].pr
      BY <1>0, <3>1 DEF Op
    <3>3. UNCHANGED att /\ op[s].pc = "armSupersede" /\ op[s].todo = {}
      BY <1>12 DEF ArmBreaker, At
    <3> QED BY <1>1, <3>2, <3>3 DEF ArmInv, Arming, Unsuperseded
  <2> QED BY <1>2, <1>12, <2>1 DEF ArmBreaker
<1>13. CASE ArmLive(s)
  <2>1. LiveKept
    BY <1>13, SweeperKeepsLive DEF ArmLive, ArmStatus, At
  <2>2. op'[s] = [op[s] EXCEPT !.pc = "armStatus"] /\ op[s].pc = "armLive"
    BY <1>13 DEF ArmLive, Goto, At
  <2>3. /\ op'[s].pc = "armStatus" /\ op'[s].todo = op[s].todo
        /\ op'[s].head = op[s].head /\ op'[s].pr = op[s].pr
    BY <1>0, <2>2 DEF Op
  <2>4. op[s].head \in Head => ~att'[op[s].head].marker
    <3>1. op[s].head \in Head
            => att'[op[s].head] = markClaimLive(att[op[s].head])
      BY <1>13 DEF ArmLive, Patch
    <3> QED BY <3>1 DEF markClaimLive, Attempt
  <2> QED BY <1>1, <2>1, <2>2, <2>3, <2>4
          DEF ArmInv, Arming, Unsuperseded, LiveKept
<1>14. CASE ArmStatus(s)
  <2>1. op'[s].pc = "dispLock" \/ Finish(s)
    BY <1>14 DEF ArmStatus, Idle
  <2> QED BY <1>2, <2>1, ArmInvTrivial
<1>15. ASSUME NEW h \in Head, StartDispatch(s, h) PROVE ArmInv(s)'
  <2>1. op'[s].pc = "dispLock"
    BY <1>15 DEF StartDispatch, Idle
  <2> QED BY <2>1, ArmInvTrivial
<1>16. CASE DispatchLock(s)
  <2>1. op'[s].pc \in {"dispEdgeGet", "dispIntent"}
    BY <1>16 DEF DispatchLock, Goto, Op
  <2> QED BY <2>1, ArmInvTrivial
<1>17. CASE CompleteDispatchEdge(s)
  <2>1. op'[s].pc = "dispEdge" \/ Finish(s)
    BY <1>17 DEF CompleteDispatchEdge, Goto, Op
  <2> QED BY <1>2, <2>1, ArmInvTrivial
<1>18. CASE DispatchIntent(s) \/ DispatchCreate(s)
  <2>1. op'[s].pc \in {"dispCreate", "dispEdge"}
    BY <1>18 DEF DispatchIntent, DispatchCreate, Goto, Op
  <2> QED BY <2>1, ArmInvTrivial
<1>19. ASSUME NEW j \in Job, StartCancel(s, j) PROVE ArmInv(s)'
  <2>1. op'[s].pc = "cancelDelete"
    BY <1>19 DEF StartCancel, Idle
  <2> QED BY <2>1, ArmInvTrivial
<1>20. CASE CancelDelete(s)
  <2>1. op'[s].pc = "cancelFinalize"
    BY <1>20 DEF CancelDelete, Goto, Op
  <2> QED BY <2>1, ArmInvTrivial
<1> QED
  BY <1>2, <1>3, <1>4, <1>5, <1>6, <1>7, <1>8, <1>9, <1>10, <1>11, <1>12,
     <1>13, <1>14, <1>15, <1>16, <1>17, <1>18, <1>19, <1>20
  DEF SweeperStep, DeadMark, ArmRefuse, DispatchEdge, CancelFinalize, Fail, Crash

\* The arm's own write: no other claim of its pull request is left, and the
\* object it writes carries no marker.
LEMMA ArmWrites ==
  ASSUME TypeOK, OneSweepClaims, NEW s \in Sweeper, ArmStatus(s)
  PROVE  NoInvisibleClaim' /\ OneLivePerPR'
<1> DEFINE h == op[s].head
           b == Arm(att[h], op[s].pr, op[s].human, op[s].expiry)
<1>1. /\ op[s].pr \in PR \cup {NoPR}
      /\ op[s].human \in BOOLEAN /\ op[s].expiry \in BOOLEAN
      /\ \A g \in Head : att[g] \in Attempt
      /\ op[s].reason \in Reason /\ op[s].job \in Job \cup {NoJob}
  BY DEF TypeOK, Op
<1>2. h \in Head => b.pr = op[s].pr /\ b.marker = att[h].marker
  BY <1>1, ClaimFields
<1>3. \A g \in Head : att'[g] = IF g = h THEN b ELSE att[g]
  BY DEF ArmStatus, Patch, TypeOK
<1>4. /\ h \in Head => ~att[h].marker
      /\ \A g \in Head \ {h} : ~(Live(att[g]) /\ att[g].pr = op[s].pr)
  <2>1. op[s].pc = "armStatus" /\ ArmInv(s)
    BY DEF ArmStatus, At, OneSweepClaims
  <2> QED BY <2>1 DEF ArmInv, Arming, Unsuperseded
<1> HIDE DEF b, h
<1> QED BY <1>2, <1>3, <1>4 DEF OneSweepClaims, NoInvisibleClaim, OneLivePerPR

\* The environment changes nothing an arm relies on.
LEMMA EnvironmentOneSweep ==
  ASSUME TypeOK, OneSweepClaims, Environment
  PROVE  OneSweepClaims'
<1>1. LiveKept /\ \A g \in Head : att'[g].marker => att[g].marker
  BY EnvironmentKeepsLive
<1>2. UNCHANGED op
  BY DEF Environment, RunnerStarts, RunnerEnds, JobStops, HorizonPasses
<1>3. NoInvisibleClaim' /\ OneLivePerPR'
  BY <1>1, KeptClaims DEF OneSweepClaims
<1>4. ASSUME NEW s \in Sweeper PROVE ArmInv(s)'
  BY <1>1, <1>2 DEF OneSweepClaims, ArmInv, Arming, Unsuperseded, LiveKept
<1> QED BY <1>3, <1>4 DEF OneSweepClaims

\* With one sweep at a time, a pull request never has two live claims, and no
\* live claim is outside the gate's list (ArmClaim's order of writes: list,
\* release the others, drop the marker, write the claim).
LEMMA OneSweepInvariant ==
  ASSUME \A s, t \in Sweeper : s = t
  PROVE  Spec => []OneSweepClaims
<1>1. Init => OneSweepClaims
  <2> SUFFICES ASSUME Init PROVE OneSweepClaims
    OBVIOUS
  <2>1. \A h \in Head : ~Live(att[h])
    BY DEF Init, Live, Absent
  <2>2. \A s \in Sweeper : op[s].pc = "idle"
    BY DEF Init, Idle
  <2> QED BY <2>1, <2>2 DEF OneSweepClaims, NoInvisibleClaim, OneLivePerPR,
                            ArmInv, Arming
<1>2. TypeOK /\ OneSweepClaims /\ [Next]_vars => OneSweepClaims'
  <2> SUFFICES ASSUME TypeOK, OneSweepClaims, [Next]_vars PROVE OneSweepClaims'
    OBVIOUS
  <2>1. ASSUME NEW s \in Sweeper, SweeperStep(s) PROVE OneSweepClaims'
    <3>1. NoInvisibleClaim' /\ OneLivePerPR'
      BY <2>1, ArmWrites, SweeperKeepsLive, KeptClaims DEF OneSweepClaims
    <3>2. ArmInv(s)'
      BY <2>1, ArmStep
    <3> QED BY <3>1, <3>2 DEF OneSweepClaims
  <2>2. CASE UNCHANGED vars
    BY <2>2 DEF vars, OneSweepClaims, NoInvisibleClaim, OneLivePerPR, ArmInv,
                Arming, Unsuperseded
  <2> QED BY <2>1, <2>2, EnvironmentOneSweep DEF Next
<1> QED BY <1>1, <1>2, TypeCorrect, PTL DEF Spec

\* With one sweep at a time, no two live claims are of one pull request:
\* ArmClaim's list is complete and every release in it lands before its write.
THEOREM OneLiveSequential ==
  ASSUME \A s, t \in Sweeper : s = t
  PROVE  Spec => []OneLivePerPR
  BY OneSweepInvariant, PTL DEF OneSweepClaims

\* With one sweep at a time, the gate's list shows every live claim: the marker
\* is taken off before a claim is written, and put on only after its release.
THEOREM NoInvisibleSequential ==
  ASSUME \A s, t \in Sweeper : s = t
  PROVE  Spec => []NoInvisibleClaim
  BY OneSweepInvariant, PTL DEF OneSweepClaims

(***************************************************************************)
(* The end of a dead era.  A timeout is decided when no Job of the head is *)
(* alive, so no runner is left that could still open a run record: with    *)
(* one sweep at a time, no Job is created between the decision and the     *)
(* release, and none for a released claim.                                 *)
(***************************************************************************)

\* A claim released by the dispatch timer.
TimedOut(a) == a.released /\ a.reason = "dispatch-timeout"

\* A Job of head h that has not opened its run record yet.
Unstarted(h) == \E j \in Job : jobs[j].head = h /\ jobs[j].st = "pending"

SweepEra(s) ==
  /\ op[s].pc = "deadStatus" => ~Unstarted(op[s].target)
  /\ op[s].pc = "relStatus" => op[s].reason # "dispatch-timeout"
  /\ op[s].pc \in {"dispLock", "dispIntent", "dispCreate"}
       /\ op[s].head \in Head => ~att[op[s].head].released

EraSettled ==
  \A h \in Head :
    TimedOut(att[h]) => att[h].running = {} /\ ~Unstarted(h)

EraInv == EraSettled /\ \A s \in Sweeper : SweepEra(s)

\* A mutation that times no claim out and opens no run record.
KeepsEra(a, b) == TimedOut(b) => TimedOut(a) /\ b.running \subseteq a.running

\* Every mutation but the release of the dead and a run's start is of that kind.
LEMMA EraFields ==
  ASSUME NEW a \in Attempt, NEW reason \in Reason, NEW j \in Job \cup {NoJob},
         NEW p \in PR \cup {NoPR}, NEW human \in BOOLEAN,
         NEW expiry \in BOOLEAN
  PROVE  /\ ~TimedOut(Absent) /\ ~TimedOut(Created)
         /\ reason # "dispatch-timeout" => ~TimedOut(Release(a, reason))
         /\ TimedOut(ReleaseDead(a, reason)) =>
              (TimedOut(a) /\ ReleaseDead(a, reason) = a)
                \/ ReleaseDead(a, reason).running = {}
         /\ KeepsEra(a, markClaimReleased(a))
         /\ KeepsEra(a, markClaimLive(a))
         /\ KeepsEra(a, FinalizeCancelled(a, reason))
         /\ KeepsEra(a, MarkDispatchIntent(a))
         /\ KeepsEra(a, MarkClaimDispatched(a, j))
         /\ ~Arm(a, p, human, expiry).released
<1>1. ~TimedOut(Absent) /\ ~TimedOut(Created)
  BY DEF TimedOut, Absent, Created
<1>2. reason # "dispatch-timeout" => ~TimedOut(Release(a, reason))
  BY DEF TimedOut, Release, Attempt
<1>3. TimedOut(ReleaseDead(a, reason)) =>
        (TimedOut(a) /\ ReleaseDead(a, reason) = a)
          \/ ReleaseDead(a, reason).running = {}
  BY DEF TimedOut, ReleaseDead, Attempt
<1>4. KeepsEra(a, markClaimReleased(a)) /\ KeepsEra(a, markClaimLive(a))
  BY DEF KeepsEra, TimedOut, markClaimReleased, markClaimLive, Attempt
<1>5. KeepsEra(a, FinalizeCancelled(a, reason))
  BY DEF KeepsEra, TimedOut, FinalizeCancelled, Attempt
<1>6. /\ KeepsEra(a, MarkDispatchIntent(a))
      /\ KeepsEra(a, MarkClaimDispatched(a, j))
  BY DEF KeepsEra, TimedOut, MarkDispatchIntent, MarkClaimDispatched, Attempt
<1>7. ~Arm(a, p, human, expiry).released
  BY DEF Arm, Attempt
<1> QED BY <1>1, <1>2, <1>3, <1>4, <1>5, <1>6, <1>7

\* A patch of that kind, with no new Job, leaves the settled eras settled.
LEMMA PatchKeepsEra ==
  ASSUME TypeOK, EraSettled, NEW h, NEW a, Patch(h, a), UNCHANGED jobs,
         h \in Head => KeepsEra(att[h], a)
  PROVE  EraSettled'
<1>1. \A g \in Head : att'[g] = IF g = h THEN a ELSE att[g]
  BY DEF Patch, TypeOK
<1> QED BY <1>1 DEF EraSettled, KeepsEra, Unstarted

\* A sweep settles the eras it ends and reopens none.
LEMMA SweeperSettles ==
  ASSUME TypeOK, EraInv, NEW s \in Sweeper, SweeperStep(s)
  PROVE  EraSettled'
<1>0. /\ op[s].reason \in Reason /\ op[s].job \in Job \cup {NoJob}
      /\ op[s].pr \in PR \cup {NoPR}
      /\ op[s].human \in BOOLEAN /\ op[s].expiry \in BOOLEAN
      /\ \A h \in Head : att[h] \in Attempt
      /\ EraSettled /\ SweepEra(s)
  BY DEF TypeOK, Op, EraInv
<1>1. CASE UNCHANGED <<att, jobs>>
  BY <1>0, <1>1 DEF EraSettled, Unstarted
<1>2. CASE ReleaseStatus(s)
  <2>1. op[s].reason # "dispatch-timeout"
    BY <1>0, <1>2 DEF SweepEra, ReleaseStatus, At
  <2>2. op[s].target \in Head
          => ~TimedOut(Release(att[op[s].target], op[s].reason))
    BY <1>0, <2>1, EraFields
  <2> QED BY <1>0, <1>2, <2>2, PatchKeepsEra DEF ReleaseStatus, KeepsEra
<1>3. CASE ReleaseMark(s)
  BY <1>0, <1>3, EraFields, PatchKeepsEra DEF ReleaseMark
<1>4. CASE DeadStatus(s)
  <2> DEFINE h == op[s].target
             a == ReleaseDead(att[h], op[s].reason)
  <2>1. \A g \in Head : att'[g] = IF g = h THEN a ELSE att[g]
    BY <1>4 DEF DeadStatus, Patch, TypeOK
  <2>2. h \in Head => (TimedOut(a) => (TimedOut(att[h]) /\ a = att[h])
                                        \/ a.running = {})
    BY <1>0, EraFields
  <2>3. ~Unstarted(h) /\ UNCHANGED jobs
    BY <1>0, <1>4 DEF SweepEra, DeadStatus, At
  <2> HIDE DEF a, h
  <2> QED BY <1>0, <2>1, <2>2, <2>3 DEF EraSettled, Unstarted
<1>5. CASE DeadMark(s)
  BY <1>0, <1>5, EraFields, PatchKeepsEra DEF DeadMark
<1>6. ASSUME NEW h \in Head, ArmResolve(s, h) PROVE EraSettled'
  <2>1. \A g \in Head : att'[g] \in {att[g], Created}
    BY <1>6 DEF ArmResolve, TypeOK
  <2>2. ~TimedOut(Created)
    BY DEF TimedOut, Created, Absent
  <2>3. UNCHANGED jobs
    BY <1>6 DEF ArmResolve
  <2> QED BY <1>0, <2>1, <2>2, <2>3 DEF EraSettled, Unstarted
<1>7. CASE ArmLive(s)
  BY <1>0, <1>7, EraFields, PatchKeepsEra DEF ArmLive
<1>8. CASE ArmStatus(s)
  <2> DEFINE h == op[s].head
             a == Arm(att[h], op[s].pr, op[s].human, op[s].expiry)
  <2>1. h \in Head => ~a.released
    BY <1>0, EraFields
  <2>2. Patch(h, a) /\ UNCHANGED jobs
    BY <1>8 DEF ArmStatus
  <2> HIDE DEF a, h
  <2> QED BY <1>0, <2>1, <2>2, PatchKeepsEra DEF KeepsEra, TimedOut
<1>9. CASE DispatchIntent(s)
  BY <1>0, <1>9, EraFields, PatchKeepsEra DEF DispatchIntent
<1>10. CASE DispatchCreate(s)
  <2>1. PICK j \in Job :
          jobs' = [jobs EXCEPT ![j] = [st |-> "pending", head |-> op[s].head]]
    BY <1>10 DEF DispatchCreate
  <2>2. \A h \in Head : Unstarted(h)' => Unstarted(h) \/ h = op[s].head
    BY <2>1 DEF Unstarted, TypeOK
  <2>3. op[s].head \in Head => ~TimedOut(att[op[s].head])
    BY <1>0, <1>10 DEF SweepEra, DispatchCreate, At, TimedOut
  <2>4. UNCHANGED att
    BY <1>10 DEF DispatchCreate
  <2> QED BY <1>0, <2>2, <2>3, <2>4 DEF EraSettled
<1>11. CASE DispatchEdge(s)
  BY <1>0, <1>11, EraFields, PatchKeepsEra DEF DispatchEdge
<1>12. CASE CancelDelete(s)
  <2>1. \A h \in Head : Unstarted(h)' => Unstarted(h)
    <3>1. \A st : Deleted(st) # "pending"
      BY DEF Deleted
    <3>2. jobs' = [jobs EXCEPT ![op[s].job].st = Deleted(@)]
      BY <1>12 DEF CancelDelete
    <3> QED BY <3>1, <3>2 DEF Unstarted, TypeOK
  <2>2. UNCHANGED att
    BY <1>12 DEF CancelDelete
  <2> QED BY <1>0, <2>1, <2>2 DEF EraSettled
<1>13. CASE CancelFinalize(s)
  BY <1>0, <1>13, EraFields, PatchKeepsEra DEF CancelFinalize
<1>14. CASE Fail(s)
  <2>1. \A g \in Head : att'[g] \in {att[g], Absent}
    BY <1>14 DEF Fail, armAbandon, TypeOK
  <2>2. ~TimedOut(Absent)
    BY DEF TimedOut, Absent
  <2>3. \A h \in Head : Unstarted(h)' => Unstarted(h)
    <3>1. \A st : Deleted(st) # "pending"
      BY DEF Deleted
    <3>2. \/ UNCHANGED jobs
          \/ jobs' = [j \in Job |-> IF LiveJob(j, op[s].head)
                                    THEN [jobs[j] EXCEPT !.st = Deleted(@)]
                                    ELSE jobs[j]]
      BY <1>14 DEF Fail, armAbandon
    <3> QED BY <3>1, <3>2 DEF Unstarted, TypeOK
  <2> QED BY <1>0, <2>1, <2>2, <2>3 DEF EraSettled
<1> QED
  BY <1>1, <1>2, <1>3, <1>4, <1>5, <1>6, <1>7, <1>8, <1>9, <1>10, <1>11,
     <1>12, <1>13, <1>14
  DEF SweeperStep, StartRelease, StartDead, StartArm, ArmRefuse, ArmList,
      ArmSupersede, ArmBreaker, StartDispatch, DispatchLock,
      CompleteDispatchEdge, StartCancel, Crash

\* What a sweep relies on between its decision and its write, it establishes.
LEMMA SweepEraStep ==
  ASSUME TypeOK, EraInv, NEW s \in Sweeper, SweeperStep(s)
  PROVE  SweepEra(s)'
<1> DEFINE Elsewhere == op'[s].pc \notin {"deadStatus", "relStatus", "dispLock",
                                          "dispIntent", "dispCreate"}
<1>1. Elsewhere => SweepEra(s)'
  BY DEF SweepEra
<1> USE DEF TypeOK
<1>0. op \in [Sweeper -> Op] /\ op[s] \in Op /\ SweepEra(s)
  BY DEF EraInv
<1>2. Finish(s) => Elsewhere
  <2>1. ASSUME Finish(s) PROVE op'[s].pc = "idle"
    BY <2>1 DEF Finish, Idle
  <2> QED BY <2>1
<1>3. ASSUME NEW h \in Head, NEW reason \in GateReason, StartRelease(s, h, reason)
      PROVE  SweepEra(s)'
  <2>1. op'[s].pc = "relStatus" /\ op'[s].reason = reason
    BY <1>3 DEF StartRelease, Idle
  <2> QED BY <2>1, SweeperAssumption DEF SweepEra
<1>4. ASSUME NEW h \in Head, NEW reason, StartDead(s, h, reason)
      PROVE  SweepEra(s)'
  <2>1. op'[s].pc = "deadStatus" /\ op'[s].target = h
    BY <1>4 DEF StartDead, Idle
  <2>2. ~Unstarted(h) /\ UNCHANGED jobs
    BY <1>4 DEF StartDead, jobAlive, LiveJob, Unstarted
  <2> QED BY <2>1, <2>2 DEF SweepEra, Unstarted
<1>5. ASSUME NEW p \in PR, NEW asks \in {"scan", "request", "human"},
             NEW wake \in Head, StartArm(s, p, asks, wake)
      PROVE  SweepEra(s)'
  <2>1. \/ op'[s].pc = "armEval"
        \/ op'[s].pc = "relStatus" /\ op'[s].reason = "superseded"
    BY <1>0, <1>5, ArmOp
  <2> QED BY <2>1 DEF SweepEra
<1>6. CASE ArmSupersede(s)
  <2>1. PICK g \in op[s].todo :
          op'[s] = [op[s] EXCEPT !.pc = "relStatus", !.then = "armSupersede",
                                 !.target = g, !.reason = "superseded",
                                 !.todo = op[s].todo \ {g}]
    BY <1>6 DEF ArmSupersede
  <2>2. op'[s].pc = "relStatus" /\ op'[s].reason = "superseded"
    BY <1>0, <2>1 DEF Op
  <2> QED BY <2>2 DEF SweepEra
<1>7. CASE ArmStatus(s)
  <2>1. CASE Finish(s)
    BY <1>1, <1>2, <2>1
  <2>2. CASE op' = [op EXCEPT ![s] = [Idle EXCEPT !.pc = "dispLock",
                                                  !.head = op[s].head]]
    <3>1. op'[s].pc = "dispLock" /\ op'[s].head = op[s].head
      BY <2>2 DEF Idle
    <3>2. op[s].head \in Head => ~att'[op[s].head].released
      <4>1. op[s].head \in Head =>
              att'[op[s].head] = Arm(att[op[s].head], op[s].pr, op[s].human,
                                     op[s].expiry)
        BY <1>7 DEF ArmStatus, Patch
      <4>2. /\ op[s].pr \in PR \cup {NoPR}
            /\ op[s].human \in BOOLEAN /\ op[s].expiry \in BOOLEAN
            /\ op[s].reason \in Reason /\ op[s].job \in Job \cup {NoJob}
            /\ \A g \in Head : att[g] \in Attempt
        BY DEF Op
      <4> HIDE DEF TypeOK
      <4>3. op[s].head \in Head =>
              ~Arm(att[op[s].head], op[s].pr, op[s].human,
                   op[s].expiry).released
        BY <4>2, EraFields
      <4> QED BY <4>1, <4>3
    <3> QED BY <3>1, <3>2 DEF SweepEra
  <2> QED BY <1>7, <2>1, <2>2 DEF ArmStatus
<1>8. ASSUME NEW h \in Head, StartDispatch(s, h) PROVE SweepEra(s)'
  <2>1. op'[s].pc = "dispLock" /\ op'[s].head = h
    BY <1>8 DEF StartDispatch, Idle
  <2>2. ~att[h].released /\ UNCHANGED att
    BY <1>8 DEF StartDispatch, Listed
  <2> QED BY <2>1, <2>2 DEF SweepEra
<1>9. CASE DispatchLock(s)
  <2>1. /\ op'[s].pc \in {"dispEdgeGet", "dispIntent"}
        /\ op'[s].head = op[s].head
    BY <1>9 DEF DispatchLock, Goto, Op
  <2>2. op[s].pc = "dispLock" /\ UNCHANGED att
    BY <1>9 DEF DispatchLock, At
  <2> QED BY <1>0, <2>1, <2>2 DEF SweepEra
<1>10. CASE DispatchIntent(s)
  <2>1. op'[s].pc = "dispCreate" /\ op'[s].head = op[s].head
    BY <1>10 DEF DispatchIntent, Goto, Op
  <2>2. op[s].head \in Head
          => att'[op[s].head].released = att[op[s].head].released
    BY <1>10 DEF DispatchIntent, Patch, MarkDispatchIntent, Attempt
  <2>3. op[s].pc = "dispIntent"
    BY <1>10 DEF DispatchIntent, At
  <2> QED BY <1>0, <2>1, <2>2, <2>3 DEF SweepEra
<1>11. CASE ReleaseMark(s)
  <2>1. CASE op[s].then = "idle"
    BY <1>1, <1>2, <1>11, <2>1 DEF ReleaseMark, Finish
  <2>2. CASE op[s].then # "idle"
    <3>1. op'[s] = [op[s] EXCEPT !.pc = op[s].then]
      BY <1>11, <2>2 DEF ReleaseMark
    <3>2. op'[s].pc = op[s].then /\ op[s].then \in {"armEval", "armSupersede"}
      BY <1>0, <2>2, <3>1 DEF Op
    <3> QED BY <1>1, <3>2
  <2> QED BY <2>1, <2>2
<1>12. ASSUME NEW pc \in {"relMark", "deadMark", "armLive", "armStatus",
                          "dispEdge", "cancelFinalize"}, Goto(s, pc)
       PROVE  SweepEra(s)'
  <2>1. op'[s].pc = pc
    BY <1>12 DEF Goto, Op
  <2> QED BY <1>1, <2>1
<1>13. ASSUME NEW h \in Head, ArmResolve(s, h) PROVE SweepEra(s)'
  <2>1. op'[s].pc = "armList"
    BY <1>13 DEF ArmResolve, Op
  <2> QED BY <1>1, <2>1
<1>14. CASE ArmList(s)
  <2>1. op'[s].pc = "armSupersede"
    BY <1>14 DEF ArmList, Op
  <2> QED BY <1>1, <2>1
<1>15. CASE DispatchCreate(s)
  <2>1. op'[s].pc = "dispEdge"
    BY <1>15 DEF DispatchCreate, Op
  <2> QED BY <1>1, <2>1
<1>16. ASSUME NEW j \in Job, StartCancel(s, j) PROVE SweepEra(s)'
  <2>1. op'[s].pc = "cancelDelete"
    BY <1>16 DEF StartCancel, Idle
  <2> QED BY <1>1, <2>1
<1> HIDE DEF Elsewhere
<1> QED
  BY <1>1, <1>2, <1>3, <1>4, <1>5, <1>6, <1>7, <1>8, <1>9, <1>10, <1>11,
     <1>12, <1>13, <1>14, <1>15, <1>16
  DEF SweeperStep, ReleaseStatus, DeadStatus, DeadMark, ArmRefuse, ArmBreaker,
      ArmLive, CompleteDispatchEdge, DispatchEdge, CancelDelete,
      CancelFinalize, Fail, Crash

\* A runner opens a record only for a Job that was still unstarted, and the
\* cluster starts no Job by itself.
LEMMA EnvironmentSettles ==
  ASSUME TypeOK, EraInv, Environment
  PROVE  EraInv'
<1> DEFINE Kept == /\ \A h \in Head : Unstarted(h)' => Unstarted(h)
                   /\ Unstarted(NoHead)' => Unstarted(NoHead)
                   /\ \A g \in Head :
                        /\ att'[g].released = att[g].released
                        /\ att'[g].reason = att[g].reason
                        /\ att'[g].running \subseteq att[g].running
                             \/ Unstarted(g)
<1>0. (\A h \in Head : att[h] \in Attempt) /\ EraSettled
  BY DEF TypeOK, EraInv
<1>1. ASSUME NEW j \in Job, RunnerStarts(j) PROVE Kept
  <2>1. jobs' = [jobs EXCEPT ![j].st = "running"] /\ jobs[j].st = "pending"
    BY <1>1 DEF RunnerStarts
  <2>2. /\ \A h \in Head : Unstarted(h)' => Unstarted(h)
        /\ Unstarted(NoHead)' => Unstarted(NoHead)
    BY <2>1 DEF Unstarted, TypeOK
  <2>3. Unstarted(jobs[j].head)
    BY <2>1 DEF Unstarted
  <2>4. \A g \in Head : g # jobs[j].head => att'[g] = att[g]
    BY <1>1 DEF RunnerStarts, Patch, TypeOK
  <2>5. \A g \in Head : /\ att'[g].released = att[g].released
                        /\ att'[g].reason = att[g].reason
    BY <1>0, <1>1 DEF RunnerStarts, Patch, RunStarted, Attempt, TypeOK
  <2> QED BY <2>2, <2>3, <2>4, <2>5
<1>2. ASSUME NEW j \in Job, NEW outcome \in Outcome, RunnerEnds(j, outcome)
      PROVE  Kept
  <2>1. /\ \A h \in Head : Unstarted(h)' => Unstarted(h)
        /\ Unstarted(NoHead)' => Unstarted(NoHead)
    BY <1>2 DEF RunnerEnds, Unstarted, TypeOK
  <2>2. \A g \in Head : /\ att'[g].released = att[g].released
                        /\ att'[g].reason = att[g].reason
                        /\ att'[g].running \subseteq att[g].running
    BY <1>0, <1>2 DEF RunnerEnds, Patch, RunOutcome, Attempt, TypeOK
  <2> QED BY <2>1, <2>2
<1>3. ASSUME NEW j \in Job, NEW st \in {"failed", "gone"}, JobStops(j, st)
      PROVE  Kept
  <2>1. /\ \A h \in Head : Unstarted(h)' => Unstarted(h)
        /\ Unstarted(NoHead)' => Unstarted(NoHead)
    BY <1>3 DEF JobStops, Unstarted, TypeOK
  <2> QED BY <1>3, <2>1 DEF JobStops
<1>4. ASSUME NEW h \in Head, HorizonPasses(h) PROVE Kept
  <2> DEFINE Same == \A g \in Head : /\ att'[g].released = att[g].released
                                     /\ att'[g].reason = att[g].reason
                                     /\ att'[g].running = att[g].running
  <2>1. CASE att' = [att EXCEPT ![h].clock = "old"]
    <3>1. Same
      BY <1>0, <2>1 DEF Attempt, TypeOK
    <3> QED BY <1>4, <3>1 DEF HorizonPasses, Unstarted
  <2>2. CASE att' = [att EXCEPT ![h].dismissed = FALSE]
    <3>1. Same
      BY <1>0, <2>2 DEF Attempt, TypeOK
    <3> QED BY <1>4, <3>1 DEF HorizonPasses, Unstarted
  <2> QED BY <1>4, <2>1, <2>2 DEF HorizonPasses
<1>5. Kept
  BY <1>1, <1>2, <1>3, <1>4 DEF Environment
<1>6. UNCHANGED op
  BY DEF Environment, RunnerStarts, RunnerEnds, JobStops, HorizonPasses
<1>7. EraSettled'
  BY <1>0, <1>5 DEF EraSettled, TimedOut
<1>8. ASSUME NEW s \in Sweeper PROVE SweepEra(s)'
  <2>1. op[s].target \in Head \cup {NoHead} /\ SweepEra(s)
    BY DEF TypeOK, Op, EraInv
  <2> QED BY <1>5, <1>6, <2>1 DEF SweepEra
<1> QED BY <1>7, <1>8 DEF EraInv

\* With one sweep at a time, a claim the dispatch timer released has no run
\* record reading "running": none was open when it was released that the
\* release did not close, and no Job is left to open one (ReleaseClaimDead).
THEOREM DeadEraSequential ==
  ASSUME \A s, t \in Sweeper : s = t
  PROVE  Spec => []DeadEraSettled
<1>1. Init => EraInv
  <2> SUFFICES ASSUME Init PROVE EraInv
    OBVIOUS
  <2>1. \A h \in Head : ~TimedOut(att[h])
    BY DEF Init, TimedOut, Absent
  <2>2. \A s \in Sweeper : op[s].pc = "idle"
    BY DEF Init, Idle
  <2> QED BY <2>1, <2>2 DEF EraInv, EraSettled, SweepEra
<1>2. TypeOK /\ EraInv /\ [Next]_vars => EraInv'
  <2> SUFFICES ASSUME TypeOK, EraInv, [Next]_vars PROVE EraInv'
    OBVIOUS
  <2>1. ASSUME NEW s \in Sweeper, SweeperStep(s) PROVE EraInv'
    BY <2>1, SweeperSettles, SweepEraStep DEF EraInv
  <2>2. CASE UNCHANGED vars
    BY <2>2 DEF vars, EraInv, EraSettled, SweepEra, Unstarted
  <2> QED BY <2>1, <2>2, EnvironmentSettles DEF Next
<1>3. EraInv => DeadEraSettled
  BY DEF EraInv, EraSettled, DeadEraSettled, TimedOut
<1> QED BY <1>1, <1>2, <1>3, TypeCorrect, PTL DEF Spec

(***************************************************************************)
(* The breaker and overlapping sweeps.  An arm reads the breaker when it   *)
(* resolves its object and writes the claim some steps later; deaths       *)
(* charged in between are outrun.  What bounds the overshoot: a sweep that *)
(* charges a death holds no such snapshot at that moment, every sweep that *)
(* holds one can revive the claim once more, and taking a new one needs a  *)
(* breaker that is closed.                                                 *)
(***************************************************************************)

\* Sweeper s holds a closed breaker of head h: it will revive h's claim
\* without clearing the count.
HoldsBreaker(s, h) ==
  /\ Arming(s) /\ op[s].head = h
  /\ ~op[s].open /\ ~op[s].human /\ op[s].pr = att[h].pr

Holders(h) == {s \in Sweeper : HoldsBreaker(s, h)}

\* One more death may be charged before the claim is revived again.
Chargeable(h) == IF att[h].released THEN 0 ELSE 1

Room(A, dead, u) ==
  IF A = Sweeper
  THEN dead < MaxDeadDispatchesPerHead
  ELSE dead + Cardinality(A) + u
         < MaxDeadDispatchesPerHead + Cardinality(Sweeper)

Headroom(h) == Room(Holders(h), att[h].dead, Chargeable(h))

\* An arm past the breaker found it closed.
PastBreaker(s) == op[s].pc \in {"armLive", "armStatus"} => ~op[s].open

BreakerInv ==
  /\ \A h \in Head : Headroom(h)
  /\ \A s \in Sweeper : PastBreaker(s)

\* The five ways the room changes: less is held, the count is cleared, a closed
\* breaker is read, a holder revives the claim, a death is charged.
LEMMA RoomSteps ==
  ASSUME IsFiniteSet(Sweeper), NEW A \in SUBSET Sweeper, NEW B \in SUBSET Sweeper,
         NEW s \in Sweeper, NEW d \in Nat, NEW e \in Nat,
         NEW u \in {0, 1}, NEW v \in {0, 1}
  PROVE  /\ Room(A, d, u) /\ B \subseteq A /\ e <= d /\ v <= u => Room(B, e, v)
         /\ s \notin B => Room(B, 0, v)
         /\ d < MaxDeadDispatchesPerHead => Room(B, d, v)
         /\ Room(A, d, u) /\ s \in A /\ B \subseteq A \ {s} => Room(B, d, v)
         /\ Room(A, d, 1) /\ s \notin A /\ B \subseteq A => Room(B, d + 1, 0)
<1> DEFINE N == Cardinality(Sweeper)
           Max == MaxDeadDispatchesPerHead
           a == Cardinality(A)
           b == Cardinality(B)
<1>1. /\ IsFiniteSet(A) /\ IsFiniteSet(B)
      /\ a <= N /\ b <= N
      /\ a = N => A = Sweeper
      /\ b = N => B = Sweeper
  BY FS_Subset
<1>2. N \in Nat /\ a \in Nat /\ b \in Nat
  BY <1>1, FS_CardinalityType
<1>3. B \subseteq A => b <= a
  BY <1>1, FS_Subset
<1>4. s \in A /\ B \subseteq A \ {s} => b < a
  <2>1. SUFFICES ASSUME s \in A, B \subseteq A \ {s} PROVE b < a
    OBVIOUS
  <2>2. b <= a /\ (a = b => A = B)
    BY <1>1, <2>1, FS_Subset
  <2> QED BY <1>2, <2>1, <2>2
<1>5. Max \in Nat /\ Max > 0
  BY LedgerAssumption
<1>6. /\ Room(A, d, u) <=> IF A = Sweeper THEN d < Max ELSE d + a + u < Max + N
      /\ Room(A, d, 1) <=> IF A = Sweeper THEN d < Max ELSE d + a + 1 < Max + N
      /\ Room(B, e, v) <=> IF B = Sweeper THEN e < Max ELSE e + b + v < Max + N
      /\ Room(B, d, v) <=> IF B = Sweeper THEN d < Max ELSE d + b + v < Max + N
      /\ Room(B, 0, v) <=> IF B = Sweeper THEN 0 < Max ELSE 0 + b + v < Max + N
      /\ Room(B, d + 1, 0) <=> IF B = Sweeper THEN d + 1 < Max
                               ELSE d + 1 + b + 0 < Max + N
  BY DEF Room
<1>7. B \subseteq A /\ B = Sweeper => A = Sweeper
  OBVIOUS
<1> HIDE DEF N, Max, a, b
<1>8. Room(A, d, u) /\ B \subseteq A /\ e <= d /\ v <= u => Room(B, e, v)
  BY <1>1, <1>2, <1>3, <1>5, <1>6, <1>7
<1>9. s \notin B => Room(B, 0, v)
  BY <1>1, <1>2, <1>5, <1>6
<1>10. d < Max => Room(B, d, v)
  BY <1>1, <1>2, <1>5, <1>6
<1>11. Room(A, d, u) /\ s \in A /\ B \subseteq A \ {s} => Room(B, d, v)
  BY <1>1, <1>2, <1>4, <1>5, <1>6
<1>12. Room(A, d, 1) /\ s \notin A /\ B \subseteq A => Room(B, d + 1, 0)
  BY <1>1, <1>2, <1>3, <1>5, <1>6, <1>7
<1> QED BY <1>8, <1>9, <1>10, <1>11, <1>12 DEF Max

\* A sweeper's step is its own: it changes what no other sweeper holds.
LEMMA OpFrame ==
  ASSUME TypeOK, NEW s \in Sweeper, SweeperStep(s)
  PROVE  \A t \in Sweeper \ {s} : op'[t] = op[t]
<1> USE DEF TypeOK
<1>1. CASE Finish(s)
  BY <1>1 DEF Finish
<1>2. ASSUME NEW pc, Goto(s, pc) PROVE \A t \in Sweeper \ {s} : op'[t] = op[t]
  BY <1>2 DEF Goto
<1>3. ASSUME NEW h \in Head, NEW reason, StartRelease(s, h, reason)
      PROVE  \A t \in Sweeper \ {s} : op'[t] = op[t]
  BY <1>3 DEF StartRelease
<1>4. ASSUME NEW h \in Head, NEW reason, StartDead(s, h, reason)
      PROVE  \A t \in Sweeper \ {s} : op'[t] = op[t]
  BY <1>4 DEF StartDead
<1>5. ASSUME NEW p, NEW asks, NEW wake, StartArm(s, p, asks, wake)
      PROVE  \A t \in Sweeper \ {s} : op'[t] = op[t]
  BY <1>5 DEF StartArm
<1>6. ASSUME NEW h, ArmResolve(s, h)
      PROVE  \A t \in Sweeper \ {s} : op'[t] = op[t]
  BY <1>6 DEF ArmResolve
<1>7. CASE ArmList(s)
  BY <1>7 DEF ArmList
<1>8. CASE ArmSupersede(s)
  BY <1>8 DEF ArmSupersede
<1>9. CASE ArmStatus(s)
  BY <1>1, <1>9 DEF ArmStatus
<1>10. ASSUME NEW h, StartDispatch(s, h)
       PROVE  \A t \in Sweeper \ {s} : op'[t] = op[t]
  BY <1>10 DEF StartDispatch
<1>11. CASE DispatchLock(s)
  BY <1>2, <1>11 DEF DispatchLock
<1>12. CASE DispatchCreate(s)
  BY <1>12 DEF DispatchCreate
<1>13. ASSUME NEW j, StartCancel(s, j)
       PROVE  \A t \in Sweeper \ {s} : op'[t] = op[t]
  BY <1>13 DEF StartCancel
<1>14. CASE ReleaseMark(s)
  BY <1>14 DEF ReleaseMark
<1> QED
  BY <1>1, <1>2, <1>3, <1>4, <1>5, <1>6, <1>7, <1>8, <1>9, <1>10, <1>11,
     <1>12, <1>13, <1>14
  DEF SweeperStep, ReleaseStatus, DeadStatus, DeadMark, ArmRefuse, ArmBreaker,
      ArmLive, CompleteDispatchEdge, DispatchIntent, DispatchEdge,
      CancelDelete, CancelFinalize, Fail, Crash

\* The arm of s goes on with what its resolve read, or is over.
ArmKept(s) ==
  Arming(s)' => /\ Arming(s)
                /\ op'[s].head = op[s].head /\ op'[s].pr = op[s].pr
                /\ op'[s].open = op[s].open /\ op'[s].human = op[s].human

\* Only a resolve begins an arm, and only a closed breaker lets it pass.
LEMMA ArmBegins ==
  ASSUME TypeOK, NEW s \in Sweeper, PastBreaker(s), SweeperStep(s)
  PROVE  /\ (\A h \in Head : ~ArmResolve(s, h)) => ArmKept(s)
         /\ PastBreaker(s)'
<1> USE DEF TypeOK
<1> DEFINE Goal == ArmKept(s) /\ PastBreaker(s)'
<1>0. op \in [Sweeper -> Op] /\ op[s] \in Op
  OBVIOUS
<1>1. ASSUME op'[s].pc \notin {"armList", "armSupersede", "armLive", "armStatus"},
             op'[s].pc \in {"relStatus", "relMark"}
               => op'[s].then # "armSupersede"
      PROVE  Goal
  BY <1>1 DEF ArmKept, Arming, PastBreaker
<1>2. ASSUME Finish(s) PROVE Goal
  <2>1. op'[s].pc = "idle"
    BY <1>2 DEF Finish, Idle
  <2> QED BY <1>1, <2>1
<1>3. ASSUME NEW h \in Head, NEW reason \in GateReason, StartRelease(s, h, reason)
      PROVE  Goal
  <2>1. op'[s].then = "idle" /\ op'[s].pc = "relStatus"
    BY <1>3 DEF StartRelease, Idle
  <2> QED BY <1>1, <2>1
<1>4. CASE ReleaseStatus(s)
  <2>1. op'[s] = [op[s] EXCEPT !.pc = "relMark"] /\ op[s].pc = "relStatus"
    BY <1>4 DEF ReleaseStatus, Goto, At
  <2>2. /\ op'[s].pc = "relMark" /\ op'[s].then = op[s].then
        /\ op'[s].head = op[s].head /\ op'[s].pr = op[s].pr
        /\ op'[s].open = op[s].open /\ op'[s].human = op[s].human
    BY <1>0, <2>1 DEF Op
  <2> QED BY <2>1, <2>2 DEF ArmKept, Arming, PastBreaker
<1>5. CASE ReleaseMark(s)
  <2>1. op[s].pc = "relMark"
    BY <1>5 DEF ReleaseMark, At
  <2>2. CASE op[s].then = "armSupersede"
    <3>1. op'[s] = [op[s] EXCEPT !.pc = "armSupersede"]
      BY <1>5, <2>2 DEF ReleaseMark
    <3>2. /\ op'[s].pc = "armSupersede"
          /\ op'[s].head = op[s].head /\ op'[s].pr = op[s].pr
          /\ op'[s].open = op[s].open /\ op'[s].human = op[s].human
      BY <1>0, <3>1 DEF Op
    <3> QED BY <2>1, <2>2, <3>2 DEF ArmKept, Arming, PastBreaker
  <2>3. CASE op[s].then = "armEval"
    <3>1. op'[s] = [op[s] EXCEPT !.pc = "armEval"]
      BY <1>5, <2>3 DEF ReleaseMark
    <3>2. op'[s].pc = "armEval"
      BY <1>0, <3>1 DEF Op
    <3> QED BY <1>1, <3>2
  <2>4. CASE op[s].then = "idle"
    BY <1>2, <1>5, <2>4 DEF ReleaseMark, Finish
  <2> QED BY <2>2, <2>3, <2>4 DEF Op
<1>6. ASSUME NEW h \in Head, NEW reason, StartDead(s, h, reason) PROVE Goal
  <2>1. op'[s].pc = "deadStatus"
    BY <1>6 DEF StartDead, Idle
  <2> QED BY <1>1, <2>1
<1>7. CASE DeadStatus(s)
  <2>1. op'[s].pc = "deadMark" \/ Finish(s)
    BY <1>7 DEF DeadStatus, Goto, Op
  <2> QED BY <1>1, <1>2, <2>1
<1>8. ASSUME NEW p \in PR, NEW asks \in {"scan", "request", "human"},
             NEW wake \in Head, StartArm(s, p, asks, wake)
      PROVE  Goal
  <2>1. \/ op'[s].pc = "armEval"
        \/ op'[s].pc = "relStatus" /\ op'[s].then = "armEval"
    BY <1>0, <1>8, ArmOp
  <2> QED BY <1>1, <2>1
<1>9. ASSUME NEW h \in Head, ArmResolve(s, h) PROVE PastBreaker(s)'
  <2>1. op'[s].pc = "armList"
    BY <1>9 DEF ArmResolve, Op
  <2> QED BY <2>1 DEF PastBreaker
<1>10. CASE ArmList(s)
  <2> DEFINE todo == {g \in Head \ {op[s].head} : Claim(op[s].pr, g)}
  <2>1. op'[s] = [op[s] EXCEPT !.pc = "armSupersede", !.todo = todo]
    BY <1>10 DEF ArmList
  <2> HIDE DEF todo
  <2>2. /\ op'[s].pc = "armSupersede"
        /\ op'[s].head = op[s].head /\ op'[s].pr = op[s].pr
        /\ op'[s].open = op[s].open /\ op'[s].human = op[s].human
    BY <1>0, <2>1 DEF Op
  <2>3. op[s].pc = "armList"
    BY <1>10 DEF ArmList, At
  <2> QED BY <2>2, <2>3 DEF ArmKept, Arming, PastBreaker
<1>11. CASE ArmSupersede(s)
  <2>1. PICK g \in op[s].todo :
          op'[s] = [op[s] EXCEPT !.pc = "relStatus", !.then = "armSupersede",
                                 !.target = g, !.reason = "superseded",
                                 !.todo = op[s].todo \ {g}]
    BY <1>11 DEF ArmSupersede
  <2>2. /\ op'[s].pc = "relStatus"
        /\ op'[s].head = op[s].head /\ op'[s].pr = op[s].pr
        /\ op'[s].open = op[s].open /\ op'[s].human = op[s].human
    BY <1>0, <2>1 DEF Op
  <2>3. op[s].pc = "armSupersede"
    BY <1>11 DEF ArmSupersede, At
  <2> QED BY <2>2, <2>3 DEF ArmKept, Arming, PastBreaker
<1>12. CASE ArmBreaker(s)
  <2>1. CASE ~op[s].open /\ Goto(s, "armLive")
    <3>1. op'[s] = [op[s] EXCEPT !.pc = "armLive"]
      BY <2>1 DEF Goto
    <3>2. /\ op'[s].pc = "armLive"
          /\ op'[s].head = op[s].head /\ op'[s].pr = op[s].pr
          /\ op'[s].open = op[s].open /\ op'[s].human = op[s].human
      BY <1>0, <3>1 DEF Op
    <3>3. op[s].pc = "armSupersede"
      BY <1>12 DEF ArmBreaker, At
    <3> QED BY <2>1, <3>2, <3>3 DEF ArmKept, Arming, PastBreaker
  <2> QED BY <1>2, <1>12, <2>1 DEF ArmBreaker
<1>13. CASE ArmLive(s)
  <2>1. op'[s] = [op[s] EXCEPT !.pc = "armStatus"] /\ op[s].pc = "armLive"
    BY <1>13 DEF ArmLive, Goto, At
  <2>2. /\ op'[s].pc = "armStatus"
        /\ op'[s].head = op[s].head /\ op'[s].pr = op[s].pr
        /\ op'[s].open = op[s].open /\ op'[s].human = op[s].human
    BY <1>0, <2>1 DEF Op
  <2> QED BY <2>1, <2>2 DEF ArmKept, Arming, PastBreaker
<1>14. CASE ArmStatus(s)
  <2>1. op'[s].pc = "dispLock" \/ Finish(s)
    BY <1>14 DEF ArmStatus, Idle
  <2> QED BY <1>1, <1>2, <2>1
<1>15. ASSUME NEW h \in Head, StartDispatch(s, h) PROVE Goal
  <2>1. op'[s].pc = "dispLock"
    BY <1>15 DEF StartDispatch, Idle
  <2> QED BY <1>1, <2>1
<1>16. CASE DispatchLock(s)
  <2>1. op'[s].pc \in {"dispEdgeGet", "dispIntent"}
    BY <1>16 DEF DispatchLock, Goto, Op
  <2> QED BY <1>1, <2>1
<1>17. CASE CompleteDispatchEdge(s)
  <2>1. op'[s].pc = "dispEdge" \/ Finish(s)
    BY <1>17 DEF CompleteDispatchEdge, Goto, Op
  <2> QED BY <1>1, <1>2, <2>1
<1>18. CASE DispatchIntent(s) \/ DispatchCreate(s)
  <2>1. op'[s].pc \in {"dispCreate", "dispEdge"}
    BY <1>18 DEF DispatchIntent, DispatchCreate, Goto, Op
  <2> QED BY <1>1, <2>1
<1>19. ASSUME NEW j \in Job, StartCancel(s, j) PROVE Goal
  <2>1. op'[s].pc = "cancelDelete"
    BY <1>19 DEF StartCancel, Idle
  <2> QED BY <1>1, <2>1
<1>20. CASE CancelDelete(s)
  <2>1. op'[s].pc = "cancelFinalize"
    BY <1>20 DEF CancelDelete, Goto, Op
  <2> QED BY <1>1, <2>1
<1> HIDE DEF TypeOK
<1>21. Goal \/ \E h \in Head : ArmResolve(s, h)
  <2> HIDE DEF Goal
  <2> QED
    BY <1>2, <1>3, <1>4, <1>5, <1>6, <1>7, <1>8, <1>10, <1>11, <1>12,
       <1>13, <1>14, <1>15, <1>16, <1>17, <1>18, <1>19, <1>20
    DEF SweeperStep, DeadMark, ArmRefuse, DispatchEdge, CancelFinalize, Fail,
        Crash, Goal
<1> QED BY <1>9, <1>21

\* A step of s that begins no arm, on an object whose pointer it keeps: no
\* holder is added.
LEMMA HoldersKept ==
  ASSUME TypeOK, NEW s \in Sweeper, \A t \in Sweeper \ {s} : op'[t] = op[t],
         ArmKept(s), NEW h \in Head, att'[h].pr = att[h].pr
  PROVE  Holders(h)' \subseteq Holders(h)
<1>1. ASSUME NEW t \in Sweeper, HoldsBreaker(t, h)' PROVE HoldsBreaker(t, h)
  <2>1. CASE t = s
    BY <1>1, <2>1 DEF HoldsBreaker, ArmKept
  <2>2. CASE t # s
    BY <1>1, <2>2 DEF HoldsBreaker, Arming
  <2> QED BY <2>1, <2>2
<1> QED BY <1>1 DEF Holders

\* Fewer holders, fewer deaths and no new chargeable claim leave the room.
LEMMA RoomFewer ==
  ASSUME IsFiniteSet(Sweeper), Sweeper # {},
         NEW A \in SUBSET Sweeper, NEW B \in SUBSET Sweeper,
         NEW d \in Nat, NEW e \in Nat, NEW u \in {0, 1}, NEW v \in {0, 1},
         Room(A, d, u), B \subseteq A, e <= d, v <= u
  PROVE  Room(B, e, v)
<1>1. PICK s \in Sweeper : TRUE
  OBVIOUS
<1> QED BY <1>1, RoomSteps

\* If it also raises no count and revives no claim, the room is kept.
LEMMA RoomKept ==
  ASSUME TypeOK, IsFiniteSet(Sweeper), NEW h \in Head, Headroom(h),
         Sweeper # {},
         Holders(h)' \subseteq Holders(h), att'[h].dead \in Nat,
         att'[h].dead <= att[h].dead, att[h].released => att'[h].released
  PROVE  Headroom(h)'
<1>1. /\ Holders(h) \in SUBSET Sweeper /\ Holders(h)' \in SUBSET Sweeper
      /\ att[h].dead \in Nat
      /\ Chargeable(h) \in {0, 1} /\ Chargeable(h)' \in {0, 1}
      /\ Chargeable(h)' <= Chargeable(h)
  BY DEF Holders, Chargeable, TypeOK, Attempt
<1>2. Room(Holders(h), att[h].dead, Chargeable(h))
  BY DEF Headroom
<1>3. Room(Holders(h)', att'[h].dead, Chargeable(h)')
  BY <1>1, <1>2, RoomFewer
<1> QED BY <1>3 DEF Headroom, Room

\* A mutation that leaves pointer and count alone and revives nothing.
KeepsCount(a, b) ==
  b.pr = a.pr /\ b.dead = a.dead /\ (a.released => b.released)

CountKept == \A h \in Head : KeepsCount(att[h], att'[h])

\* Every mutation but the arm and the release of the dead is of that kind.
LEMMA CountFields ==
  ASSUME NEW a \in Attempt, NEW reason \in Reason, NEW j \in Job \cup {NoJob}
  PROVE  /\ KeepsCount(a, Release(a, reason))
         /\ KeepsCount(a, markClaimReleased(a))
         /\ KeepsCount(a, markClaimLive(a))
         /\ KeepsCount(a, FinalizeCancelled(a, reason))
         /\ KeepsCount(a, MarkDispatchIntent(a))
         /\ KeepsCount(a, MarkClaimDispatched(a, j))
<1>1. KeepsCount(a, Release(a, reason))
  BY DEF KeepsCount, Release, Attempt
<1>2. KeepsCount(a, FinalizeCancelled(a, reason))
  BY DEF KeepsCount, FinalizeCancelled, Attempt
<1>3. KeepsCount(a, markClaimReleased(a)) /\ KeepsCount(a, markClaimLive(a))
  BY DEF KeepsCount, markClaimReleased, markClaimLive, Attempt
<1>4. /\ KeepsCount(a, MarkDispatchIntent(a))
      /\ KeepsCount(a, MarkClaimDispatched(a, j))
  BY DEF KeepsCount, MarkDispatchIntent, MarkClaimDispatched, Attempt
<1> QED BY <1>1, <1>2, <1>3, <1>4

\* One patch of that kind keeps the counts of all heads.
LEMMA PatchKeepsCount ==
  ASSUME TypeOK, NEW h, NEW a, Patch(h, a),
         h \in Head => KeepsCount(att[h], a)
  PROVE  CountKept
<1>1. \A g \in Head : att'[g] = IF g = h THEN a ELSE att[g]
  BY DEF Patch, TypeOK
<1> QED BY <1>1 DEF CountKept, KeepsCount

\* The steps of a sweep that neither resolve, write or abandon an arm nor
\* charge a death keep the counts.
LEMMA QuietStep ==
  ASSUME TypeOK, NEW s \in Sweeper, SweeperStep(s), ~ArmStatus(s),
         ~DeadStatus(s), ~Fail(s), \A h \in Head : ~ArmResolve(s, h)
  PROVE  CountKept
<1>0. /\ op[s].reason \in Reason /\ op[s].job \in Job \cup {NoJob}
      /\ \A h \in Head : att[h] \in Attempt
  BY DEF TypeOK, Op
<1>1. CASE UNCHANGED att
  BY <1>1 DEF CountKept, KeepsCount
<1> USE <1>0, CountFields, PatchKeepsCount
<1>2. CASE ReleaseStatus(s)
  BY <1>2 DEF ReleaseStatus
<1>3. CASE ReleaseMark(s)
  BY <1>3 DEF ReleaseMark
<1>4. CASE DeadMark(s)
  BY <1>4 DEF DeadMark
<1>5. CASE ArmLive(s)
  BY <1>5 DEF ArmLive
<1>6. CASE DispatchIntent(s)
  BY <1>6 DEF DispatchIntent
<1>7. CASE DispatchEdge(s)
  BY <1>7 DEF DispatchEdge
<1>8. CASE CancelFinalize(s)
  BY <1>8 DEF CancelFinalize
<1> QED
  BY <1>1, <1>2, <1>3, <1>4, <1>5, <1>6, <1>7, <1>8
  DEF SweeperStep, StartRelease, StartDead, StartArm, ArmRefuse, ArmList,
      ArmSupersede, ArmBreaker, StartDispatch, DispatchLock,
      CompleteDispatchEdge, DispatchCreate, StartCancel, CancelDelete, Crash

\* A sweep keeps the room of every head.
LEMMA SweeperHeadroom ==
  ASSUME IsFiniteSet(Sweeper), TypeOK, TypeOK', BreakerInv, NEW s \in Sweeper,
         SweeperStep(s), NEW h \in Head
  PROVE  Headroom(h)'
<1>0. /\ att[h] \in Attempt /\ att'[h] \in Attempt
      /\ att[h].dead \in Nat /\ att'[h].dead \in Nat
      /\ Holders(h) \in SUBSET Sweeper /\ Holders(h)' \in SUBSET Sweeper
      /\ Chargeable(h) \in {0, 1} /\ Chargeable(h)' \in {0, 1}
      /\ MaxDeadDispatchesPerHead \in Nat /\ 0 < MaxDeadDispatchesPerHead
      /\ Sweeper # {}
  BY LedgerAssumption DEF TypeOK, Attempt, Holders, Chargeable
<1>1. /\ \A t \in Sweeper \ {s} : op'[t] = op[t]
      /\ PastBreaker(s)
      /\ Room(Holders(h), att[h].dead, Chargeable(h))
      /\ Headroom(h)
      /\ (\A g \in Head : ~ArmResolve(s, g)) => ArmKept(s)
  BY OpFrame, ArmBegins DEF BreakerInv, Headroom
<1>2. Headroom(h)' <=> Room(Holders(h)', att'[h].dead, Chargeable(h)')
  BY DEF Headroom, Room
<1>3. ASSUME NEW g \in Head, ArmResolve(s, g) PROVE Headroom(h)'
  <2>1. /\ op[s].pc = "armEval" /\ op'[s].pc = "armList" /\ op'[s].head = g
        /\ op'[s].pr = op[s].pr /\ op'[s].human = op[s].human
        /\ op'[s].open = DeadDispatchBreaker(att[g], op[s].pr, op[s].human)
    BY <1>3 DEF ArmResolve, At, TypeOK, Op
  <2>2. CASE g # h
    <3>1. att'[h] = att[h]
      BY <1>3, <2>2 DEF ArmResolve, TypeOK
    <3>2. Holders(h)' \subseteq Holders(h)
      <4>1. ASSUME NEW t \in Sweeper, HoldsBreaker(t, h)'
            PROVE  HoldsBreaker(t, h)
        <5>1. t # s
          BY <2>1, <2>2, <4>1 DEF HoldsBreaker
        <5> QED BY <1>1, <3>1, <4>1, <5>1 DEF HoldsBreaker, Arming
      <4> QED BY <4>1 DEF Holders
    <3> QED BY <1>0, <1>1, <3>1, <3>2, RoomKept
  <2>3. CASE g = h /\ ~att[h].exists
    <3>1. att'[h] = Created
      BY <1>3, <2>3 DEF ArmResolve, TypeOK
    <3>2. att'[h].dead = 0
      BY <3>1 DEF Created, Absent
    <3> QED BY <1>0, <1>2, <3>2, RoomSteps
  <2>4. CASE g = h /\ att[h].exists
    <3>1. att'[h] = att[h]
      BY <1>3, <2>4 DEF ArmResolve, TypeOK
    <3>2. CASE s \in Holders(h)'
      <4>1. ~op'[s].open /\ ~op[s].human /\ op[s].pr = att[h].pr
        BY <2>1, <3>1, <3>2 DEF Holders, HoldsBreaker
      <4>2. ~(att[h].dead >= MaxDeadDispatchesPerHead)
        BY <2>1, <2>4, <4>1 DEF DeadDispatchBreaker, SameClaim
      <4>3. att[h].dead < MaxDeadDispatchesPerHead
        BY <1>0, <4>2
      <4> QED BY <1>0, <1>2, <3>1, <4>3, RoomSteps
    <3>3. CASE s \notin Holders(h)'
      <4>1. Holders(h)' \subseteq Holders(h)
        <5>1. ASSUME NEW t \in Sweeper, HoldsBreaker(t, h)'
              PROVE  HoldsBreaker(t, h)
          <6>1. t # s
            BY <3>3, <5>1 DEF Holders
          <6> QED BY <1>1, <3>1, <5>1, <6>1 DEF HoldsBreaker, Arming
        <5> QED BY <5>1 DEF Holders
      <4> QED BY <1>0, <1>1, <3>1, <4>1, RoomKept
    <3> QED BY <3>2, <3>3
  <2> QED BY <2>2, <2>3, <2>4
<1>4. CASE Fail(s)
  <2>1. s \notin Holders(h)'
    <3>1. op'[s].pc = "idle"
      BY <1>4 DEF Fail, Finish, Idle, TypeOK
    <3> QED BY <3>1 DEF Holders, HoldsBreaker, Arming
  <2>2. att'[h] \in {att[h], Absent}
    BY <1>4 DEF Fail, armAbandon, TypeOK
  <2>3. CASE att'[h] = Absent
    <3>1. Absent.dead = 0
      BY DEF Absent
    <3>2. att'[h].dead = 0
      BY <2>3, <3>1
    <3> QED BY <1>0, <1>2, <2>1, <3>2, RoomSteps
  <2>4. CASE att'[h] = att[h]
    <3>1. ArmKept(s)
      <4>1. op'[s].pc = "idle"
        BY <1>4 DEF Fail, Finish, Idle, TypeOK
      <4> QED BY <4>1 DEF ArmKept, Arming
    <3>2. Holders(h)' \subseteq Holders(h)
      BY <1>1, <2>4, <3>1, HoldersKept
    <3> QED BY <1>0, <1>1, <2>4, <3>2, RoomKept
  <2> QED BY <2>2, <2>3, <2>4
<1>5. CASE DeadStatus(s)
  <2>1. ArmKept(s) /\ op[s].pc = "deadStatus"
    BY <1>1, <1>5 DEF DeadStatus, ArmResolve, At
  <2>2. /\ op[s].reason \in Reason
        /\ \/ att'[h] = att[h]
           \/ att'[h] = ReleaseDead(att[h], op[s].reason)
    BY <1>5 DEF DeadStatus, Patch, TypeOK, Op
  <2>3. att'[h].pr = att[h].pr
    BY <1>0, <2>2 DEF ReleaseDead, Attempt
  <2>4. Holders(h)' \subseteq Holders(h)
    BY <1>1, <2>1, <2>3, HoldersKept
  <2>5. s \notin Holders(h)
    BY <2>1 DEF Holders, HoldsBreaker, Arming
  <2>6. CASE att'[h] = att[h]
    BY <1>0, <1>1, <2>4, <2>6, RoomKept
  <2>7. CASE att'[h] = ReleaseDead(att[h], op[s].reason) /\ ~att[h].released
    <3>1. att'[h].released /\ att'[h].dead \in {att[h].dead, att[h].dead + 1}
      BY <1>0, <2>7 DEF ReleaseDead, Attempt
    <3>2. Chargeable(h) = 1 /\ Chargeable(h)' = 0
      BY <2>7, <3>1 DEF Chargeable
    <3>3. CASE att'[h].dead = att[h].dead
      BY <1>0, <1>1, <2>4, <3>1, <3>3, RoomKept
    <3>4. CASE att'[h].dead = att[h].dead + 1
      <4>1. Room(Holders(h), att[h].dead, 1)
        BY <1>1, <3>2
      <4>2. Room(Holders(h)', att[h].dead + 1, 0)
        BY <1>0, <2>4, <2>5, <4>1, RoomSteps
      <4> QED BY <1>2, <3>2, <3>4, <4>2
    <3> QED BY <3>1, <3>3, <3>4
  <2> QED BY <2>2, <2>6, <2>7 DEF ReleaseDead
<1>6. CASE ArmStatus(s)
  <2> DEFINE a == Arm(att[h], op[s].pr, op[s].human, op[s].expiry)
             reset == ~SameClaim(att[h], op[s].pr) \/ op[s].human \/ op[s].expiry
  <2>1. att'[h] = IF h = op[s].head THEN a ELSE att[h]
    BY <1>6 DEF ArmStatus, Patch, TypeOK
  <2>2. ArmKept(s) /\ op[s].pc = "armStatus"
    BY <1>1, <1>6 DEF ArmStatus, ArmResolve, At
  <2>3. s \notin Holders(h)'
    <3>1. op'[s].pc = "idle" \/ op'[s].pc = "dispLock"
      <4>1. CASE Finish(s)
        BY <4>1 DEF Finish, Idle, TypeOK
      <4>2. CASE op' = [op EXCEPT ![s] = [Idle EXCEPT !.pc = "dispLock",
                                                      !.head = op[s].head]]
        BY <4>2 DEF Idle, TypeOK
      <4> QED BY <1>6, <4>1, <4>2 DEF ArmStatus
    <3> QED BY <3>1 DEF Holders, HoldsBreaker, Arming
  <2>4. CASE h # op[s].head
    <3>1. att'[h] = att[h]
      BY <2>1, <2>4
    <3>2. Holders(h)' \subseteq Holders(h)
      BY <1>1, <2>2, <3>1, HoldersKept
    <3> QED BY <1>0, <1>1, <3>1, <3>2, RoomKept
  <2>5. CASE h = op[s].head /\ reset
    <3>1. a.dead = 0
      BY <1>0, <2>5 DEF Arm, Attempt
    <3> QED BY <1>0, <1>2, <2>1, <2>3, <2>5, <3>1, RoomSteps
  <2>6. CASE h = op[s].head /\ ~reset
    <3>1. a.dead = att[h].dead /\ a.pr = op[s].pr
      BY <1>0, <2>6 DEF Arm, Attempt
    <3>2. op[s].pr = att[h].pr /\ ~op[s].human
      BY <2>6 DEF SameClaim
    <3>3. Holders(h)' \subseteq Holders(h) \ {s}
      BY <1>1, <2>1, <2>2, <2>3, <2>6, <3>1, <3>2, HoldersKept
    <3>4. s \in Holders(h)
      BY <1>1, <2>2, <2>6, <3>2 DEF Holders, HoldsBreaker, Arming, PastBreaker
    <3>5. att'[h].dead = att[h].dead
      BY <2>1, <2>6, <3>1
    <3>6. Room(Holders(h), att[h].dead, Chargeable(h))
      BY <1>1
    <3> DEFINE A == Holders(h)
               B == Holders(h)'
               d == att[h].dead
               u == Chargeable(h)
               v == Chargeable(h)'
    <3>7. /\ A \in SUBSET Sweeper /\ B \in SUBSET Sweeper /\ d \in Nat
          /\ u \in {0, 1} /\ v \in {0, 1}
      BY <1>0
    <3>8. Room(A, d, u) /\ s \in A /\ B \subseteq A \ {s}
      BY <3>3, <3>4, <3>6
    <3> HIDE DEF A, B, d, u, v
    <3>9. Room(B, d, v)
      BY <3>7, <3>8, RoomSteps
    <3> QED BY <1>2, <3>5, <3>9 DEF B, d, v
  <2> QED BY <2>4, <2>5, <2>6
<1>7. CASE /\ ~ArmStatus(s) /\ ~DeadStatus(s) /\ ~Fail(s)
           /\ \A g \in Head : ~ArmResolve(s, g)
  <2>1. /\ att'[h].pr = att[h].pr /\ att'[h].dead = att[h].dead
        /\ att[h].released => att'[h].released
    BY <1>7, QuietStep DEF CountKept, KeepsCount
  <2>2. Holders(h)' \subseteq Holders(h)
    BY <1>1, <1>7, <2>1, HoldersKept
  <2> QED BY <1>0, <1>1, <2>1, <2>2, RoomKept
<1> QED BY <1>3, <1>4, <1>5, <1>6, <1>7

\* The environment touches neither pointer nor count nor release.
LEMMA EnvironmentHeadroom ==
  ASSUME TypeOK, Environment
  PROVE  /\ UNCHANGED op
         /\ \A g \in Head : /\ att'[g].pr = att[g].pr
                            /\ att'[g].dead = att[g].dead
                            /\ att'[g].released = att[g].released
<1> DEFINE Kept == \A g \in Head : /\ att'[g].pr = att[g].pr
                                   /\ att'[g].dead = att[g].dead
                                   /\ att'[g].released = att[g].released
<1>0. \A h \in Head : att[h] \in Attempt
  BY DEF TypeOK
<1>1. ASSUME NEW j \in Job, RunnerStarts(j) PROVE Kept
  BY <1>0, <1>1 DEF RunnerStarts, Patch, RunStarted, Attempt, TypeOK
<1>2. ASSUME NEW j \in Job, NEW outcome \in Outcome, RunnerEnds(j, outcome)
      PROVE  Kept
  BY <1>0, <1>2 DEF RunnerEnds, Patch, RunOutcome, Attempt, TypeOK
<1>3. ASSUME NEW j \in Job, NEW st, JobStops(j, st) PROVE Kept
  BY <1>3 DEF JobStops
<1>4. ASSUME NEW h \in Head, HorizonPasses(h) PROVE Kept
  <2>1. CASE att' = [att EXCEPT ![h].clock = "old"]
    BY <1>0, <2>1 DEF Attempt, TypeOK
  <2>2. CASE att' = [att EXCEPT ![h].dismissed = FALSE]
    BY <1>0, <2>2 DEF Attempt, TypeOK
  <2> QED BY <1>4, <2>1, <2>2 DEF HorizonPasses
<1>5. UNCHANGED op
  BY DEF Environment, RunnerStarts, RunnerEnds, JobStops, HorizonPasses
<1> QED BY <1>1, <1>2, <1>3, <1>4, <1>5 DEF Environment

\* The room is an invariant for any finite set of overlapping sweeps.
LEMMA BreakerInvariant ==
  ASSUME IsFiniteSet(Sweeper)
  PROVE  Spec => []BreakerInv
<1>1. Init => BreakerInv
  <2> SUFFICES ASSUME Init PROVE BreakerInv
    OBVIOUS
  <2>1. \A s \in Sweeper : op[s].pc = "idle"
    BY DEF Init, Idle
  <2>2. \A h \in Head : Holders(h) = {}
    BY <2>1 DEF Holders, HoldsBreaker, Arming
  <2>3. \A h \in Head : att[h].dead = 0 /\ ~att[h].released
    BY DEF Init, Absent
  <2>4. Cardinality(Sweeper) \in Nat /\ Cardinality({}) = 0
        /\ (Cardinality(Sweeper) = 0 <=> Sweeper = {})
    BY FS_CardinalityType, FS_EmptySet
  <2>5. Room({}, 0, 1)
    BY <2>4, LedgerAssumption DEF Room
  <2>6. \A h \in Head : Headroom(h)
    BY <2>2, <2>3, <2>5 DEF Headroom, Chargeable
  <2> QED BY <2>1, <2>6 DEF BreakerInv, PastBreaker
<1>2. TypeOK /\ TypeOK' /\ BreakerInv /\ [Next]_vars => BreakerInv'
  <2> SUFFICES ASSUME TypeOK, TypeOK', BreakerInv, [Next]_vars
               PROVE  BreakerInv'
    OBVIOUS
  <2>1. ASSUME NEW s \in Sweeper, SweeperStep(s) PROVE BreakerInv'
    <3>1. \A h \in Head : Headroom(h)'
      BY <2>1, SweeperHeadroom
    <3>2. \A t \in Sweeper : PastBreaker(t)'
      <4>1. PastBreaker(s)'
        BY <2>1, ArmBegins DEF BreakerInv
      <4>2. \A t \in Sweeper \ {s} : op'[t] = op[t]
        BY <2>1, OpFrame
      <4> QED BY <4>1, <4>2 DEF BreakerInv, PastBreaker
    <3> QED BY <3>1, <3>2 DEF BreakerInv
  <2>2. CASE Environment \/ UNCHANGED vars
    <3>1. /\ UNCHANGED op
          /\ \A g \in Head : /\ att'[g].pr = att[g].pr
                             /\ att'[g].dead = att[g].dead
                             /\ att'[g].released = att[g].released
      BY <2>2, EnvironmentHeadroom DEF vars
    <3>2. \A g \in Head : Holders(g)' = Holders(g)
      BY <3>1 DEF Holders, HoldsBreaker, Arming
    <3> QED BY <3>1, <3>2 DEF BreakerInv, Headroom, Room, Chargeable, PastBreaker
  <2> QED BY <2>1, <2>2 DEF Next
<1> QED BY <1>1, <1>2, TypeCorrect, PTL DEF Spec

\* However many sweeps overlap, the deaths charged to one head exceed the
\* breaker's limit by less than the number of sweeps: the breaker read on a
\* stale snapshot (ArmClaim) can be outrun once by each of the others.
THEOREM OvershootBounded ==
  ASSUME IsFiniteSet(Sweeper)
  PROVE  Spec => []BreakerOvershoot
<1>1. TypeOK /\ BreakerInv => BreakerOvershoot
  <2> SUFFICES ASSUME TypeOK, BreakerInv, NEW h \in Head
               PROVE  att[h].dead
                        < MaxDeadDispatchesPerHead + Cardinality(Sweeper)
    BY DEF BreakerOvershoot
  <2>1. /\ att[h].dead \in Nat /\ Chargeable(h) \in {0, 1}
        /\ MaxDeadDispatchesPerHead \in Nat
        /\ Holders(h) \in SUBSET Sweeper
    BY LedgerAssumption DEF TypeOK, Attempt, Chargeable, Holders
  <2>2. Cardinality(Sweeper) \in Nat /\ Cardinality(Holders(h)) \in Nat
    BY <2>1, FS_CardinalityType, FS_Subset
  <2> QED BY <2>1, <2>2 DEF BreakerInv, Headroom, Room
<1> QED BY <1>1, BreakerInvariant, TypeCorrect, PTL

\* With one sweep at a time, the deaths charged to a head never exceed the
\* breaker's limit.
THEOREM BreakerSequential ==
  ASSUME \A s, t \in Sweeper : s = t
  PROVE  Spec => []BreakerHolds
<1>1. IsFiniteSet(Sweeper) /\ Cardinality(Sweeper) \in {0, 1}
  <2>1. CASE Sweeper = {}
    BY <2>1, FS_EmptySet
  <2>2. CASE Sweeper # {}
    <3>1. PICK s \in Sweeper : Sweeper = {s}
      BY <2>2
    <3> QED BY <3>1, FS_Singleton
  <2> QED BY <2>1, <2>2
<1>2. TypeOK /\ BreakerOvershoot => BreakerHolds
  <2> SUFFICES ASSUME TypeOK, BreakerOvershoot, NEW h \in Head
               PROVE  att[h].dead <= MaxDeadDispatchesPerHead
    BY DEF BreakerHolds
  <2>1. att[h].dead \in Nat /\ MaxDeadDispatchesPerHead \in Nat
    BY LedgerAssumption DEF TypeOK, Attempt
  <2> QED BY <1>1, <2>1 DEF BreakerOvershoot
<1>3. Spec => []BreakerOvershoot
  BY <1>1, OvershootBounded
<1> QED BY <1>2, <1>3, TypeCorrect, PTL

(***************************************************************************)
(* The live claims of a pull request and overlapping sweeps.  Every claim  *)
(* the gate's list shows is owned by the sweep that brought it there last: *)
(* by the arm that dropped its marker or wrote it.  Before it does either, *)
(* an arm has released every claim its own list showed, and so all the     *)
(* ones it owned; one it gains meanwhile belongs to another sweep.  Claims *)
(* are therefore at most as many as sweeps.                                *)
(***************************************************************************)

\* No claim comes onto the gate's list.
ListKept == \A g \in Head : Listed(att'[g]) => Listed(att[g])

\* Of the ledger's mutations, only the two of an arm put a claim on the list.
LEMMA ListFields ==
  ASSUME NEW a \in Attempt, NEW reason \in Reason, NEW j \in Job \cup {NoJob}
  PROVE  /\ ~Listed(Absent) /\ ~Listed(Created)
         /\ ~Listed(Release(a, reason)) /\ ~Listed(ReleaseDead(a, reason))
         /\ Listed(markClaimReleased(a)) => Listed(a)
         /\ Listed(FinalizeCancelled(a, reason)) => Listed(a)
         /\ Listed(MarkDispatchIntent(a)) => Listed(a)
         /\ Listed(MarkClaimDispatched(a, j)) => Listed(a)
<1>1. ~Listed(Absent) /\ ~Listed(Created)
  BY DEF Listed, Absent, Created
<1>2. ~Listed(Release(a, reason)) /\ ~Listed(ReleaseDead(a, reason))
  BY DEF Listed, Release, ReleaseDead, Attempt
<1>3. Listed(markClaimReleased(a)) => Listed(a)
  BY DEF Listed, markClaimReleased, Attempt
<1>4. Listed(FinalizeCancelled(a, reason)) => Listed(a)
  BY DEF Listed, FinalizeCancelled, Attempt
<1>5. /\ Listed(MarkDispatchIntent(a)) => Listed(a)
      /\ Listed(MarkClaimDispatched(a, j)) => Listed(a)
  BY DEF Listed, MarkDispatchIntent, MarkClaimDispatched, Attempt
<1> QED BY <1>1, <1>2, <1>3, <1>4, <1>5

\* One patch of that kind.
LEMMA PatchKeepsList ==
  ASSUME TypeOK, NEW h, NEW a, Patch(h, a),
         h \in Head => (Listed(a) => Listed(att[h]))
  PROVE  ListKept
<1>1. \A g \in Head : att'[g] = IF g = h THEN a ELSE att[g]
  BY DEF Patch, TypeOK
<1> QED BY <1>1 DEF ListKept

\* Every step of a sweep but the arm's two writes.
LEMMA SweeperKeepsList ==
  ASSUME TypeOK, NEW s \in Sweeper, SweeperStep(s), ~ArmLive(s), ~ArmStatus(s)
  PROVE  ListKept
<1>0. /\ op[s].reason \in Reason /\ op[s].job \in Job \cup {NoJob}
      /\ \A h \in Head : att[h] \in Attempt
  BY DEF TypeOK, Op
<1> USE <1>0, ListFields, PatchKeepsList
<1>1. CASE UNCHANGED att
  BY <1>1 DEF ListKept
<1>2. CASE ReleaseStatus(s)
  BY <1>2 DEF ReleaseStatus
<1>3. CASE ReleaseMark(s)
  BY <1>3 DEF ReleaseMark
<1>4. CASE DeadStatus(s)
  BY <1>4 DEF DeadStatus
<1>5. CASE DeadMark(s)
  BY <1>5 DEF DeadMark
<1>6. ASSUME NEW h \in Head, ArmResolve(s, h) PROVE ListKept
  <2>1. \A g \in Head : att'[g] \in {att[g], Created}
    BY <1>6 DEF ArmResolve, TypeOK
  <2>2. ~Listed(Created)
    BY DEF Listed, Created, Absent
  <2> QED BY <2>1, <2>2 DEF ListKept
<1>7. CASE DispatchIntent(s)
  BY <1>7 DEF DispatchIntent
<1>8. CASE DispatchEdge(s)
  BY <1>8 DEF DispatchEdge
<1>9. CASE CancelFinalize(s)
  BY <1>9 DEF CancelFinalize
<1>10. CASE Fail(s)
  <2>1. \A g \in Head : att'[g] \in {att[g], Absent}
    BY <1>10 DEF Fail, armAbandon, TypeOK
  <2>2. ~Listed(Absent)
    BY DEF Listed, Absent
  <2> QED BY <2>1, <2>2 DEF ListKept
<1> QED
  BY <1>1, <1>2, <1>3, <1>4, <1>5, <1>6, <1>7, <1>8, <1>9, <1>10
  DEF SweeperStep, StartRelease, StartDead, StartArm, ArmRefuse, ArmList,
      ArmSupersede, ArmBreaker, StartDispatch, DispatchLock,
      CompleteDispatchEdge, DispatchCreate, StartCancel, CancelDelete, Crash

\* Every step of a runner, of the cluster or of time.
LEMMA EnvironmentKeepsList ==
  ASSUME TypeOK, Environment
  PROVE  ListKept /\ UNCHANGED op
<1> DEFINE Kept == \A g \in Head : /\ att'[g].exists = att[g].exists
                                   /\ att'[g].pr = att[g].pr
                                   /\ att'[g].released = att[g].released
                                   /\ att'[g].marker = att[g].marker
<1>0. \A h \in Head : att[h] \in Attempt
  BY DEF TypeOK
<1>1. ASSUME NEW j \in Job, RunnerStarts(j) PROVE Kept
  BY <1>0, <1>1 DEF RunnerStarts, Patch, RunStarted, Attempt, TypeOK
<1>2. ASSUME NEW j \in Job, NEW outcome \in Outcome, RunnerEnds(j, outcome)
      PROVE  Kept
  BY <1>0, <1>2 DEF RunnerEnds, Patch, RunOutcome, Attempt, TypeOK
<1>3. ASSUME NEW j \in Job, NEW st, JobStops(j, st) PROVE Kept
  BY <1>3 DEF JobStops
<1>4. ASSUME NEW h \in Head, HorizonPasses(h) PROVE Kept
  <2>1. CASE att' = [att EXCEPT ![h].clock = "old"]
    BY <1>0, <2>1 DEF Attempt, TypeOK
  <2>2. CASE att' = [att EXCEPT ![h].dismissed = FALSE]
    BY <1>0, <2>2 DEF Attempt, TypeOK
  <2> QED BY <1>4, <2>1, <2>2 DEF HorizonPasses
<1>5. Kept
  BY <1>1, <1>2, <1>3, <1>4 DEF Environment
<1>6. UNCHANGED op
  BY DEF Environment, RunnerStarts, RunnerEnds, JobStops, HorizonPasses
<1> QED BY <1>5, <1>6 DEF ListKept, Listed

\* Sweeper s is arming, or is about to evaluate what it will arm.
ArmsFor(s) ==
  \/ Arming(s) \/ op[s].pc = "armEval"
  \/ op[s].pc \in {"relStatus", "relMark"} /\ op[s].then # "idle"

\* Of the claims on the list that s owns, its arm will release all but its own.
Owes(s, o) ==
  /\ ArmsFor(s) => op[s].pr \in PR
  /\ op[s].pc \in {"armLive", "armStatus"} => op[s].todo = {}
  /\ Arming(s) /\ op[s].pc # "armList" =>
       \A g \in Head \ {op[s].head} :
         Listed(att[g]) /\ o[g] = s => g \in Unsuperseded(s)

\* Every listed claim has an owner, and no two have the same.
Owned(o) ==
  /\ \A g \in Head : Listed(att[g]) => o[g] \in Sweeper
  /\ \A g, h \in Head : Listed(att[g]) /\ Listed(att[h]) /\ o[g] = o[h] => g = h

OwnerInv ==
  \E o \in [Head -> Sweeper \cup {NoPR}] :
    Owned(o) /\ \A s \in Sweeper : Owes(s, o)

\* A sweeper that is not arming owes nothing.
LEMMA OwesTrivial ==
  ASSUME NEW s \in Sweeper, NEW o,
         op'[s].pc \notin {"armEval", "armList", "armSupersede", "armLive",
                           "armStatus"},
         op'[s].pc \in {"relStatus", "relMark"} => op'[s].then = "idle"
  PROVE  Owes(s, o)'
  BY DEF Owes, ArmsFor, Arming

\* The steps of an arm keep what it owes.
LEMMA OwesStep ==
  ASSUME TypeOK, \A p, q \in PR : p = q, NEW s \in Sweeper, NEW o, Owes(s, o),
         SweeperStep(s)
  PROVE  Owes(s, o)'
<1>0. op \in [Sweeper -> Op] /\ op[s] \in Op
  BY DEF TypeOK
<1>2. ASSUME Finish(s) PROVE Owes(s, o)'
  <2>1. op'[s].pc = "idle"
    BY <1>0, <1>2 DEF Finish, Idle
  <2> QED BY <2>1, OwesTrivial
<1>3. ASSUME NEW h \in Head, NEW reason \in GateReason, StartRelease(s, h, reason)
      PROVE  Owes(s, o)'
  <2>1. op'[s].then = "idle" /\ op'[s].pc = "relStatus"
    BY <1>0, <1>3 DEF StartRelease, Idle
  <2> QED BY <2>1, OwesTrivial
<1>4. CASE ReleaseStatus(s)
  <2>1. ListKept
    BY <1>4, SweeperKeepsList DEF ReleaseStatus, ArmLive, ArmStatus, At
  <2>2. op'[s] = [op[s] EXCEPT !.pc = "relMark"] /\ op[s].pc = "relStatus"
    BY <1>0, <1>4 DEF ReleaseStatus, Goto, At
  <2>3. /\ op'[s].pc = "relMark" /\ op'[s].then = op[s].then
        /\ op'[s].head = op[s].head /\ op'[s].pr = op[s].pr
        /\ op'[s].todo = op[s].todo
    BY <1>0, <2>2 DEF Op
  <2>4. op[s].target \in Head => ~Listed(att'[op[s].target])
    <3>1. op[s].target \in Head
            => att'[op[s].target] = Release(att[op[s].target], op[s].reason)
      BY <1>4 DEF ReleaseStatus, Patch, TypeOK
    <3>2. op[s].target \in Head
            => Release(att[op[s].target], op[s].reason).released
      BY DEF Release, Attempt, TypeOK
    <3> QED BY <3>1, <3>2 DEF Listed
  <2> QED BY <2>1, <2>2, <2>3, <2>4
          DEF Owes, ArmsFor, Arming, Unsuperseded, ListKept
<1>5. CASE ReleaseMark(s)
  <2>1. ListKept
    BY <1>5, SweeperKeepsList DEF ReleaseMark, ArmLive, ArmStatus, At
  <2>2. op[s].pc = "relMark"
    BY <1>5 DEF ReleaseMark, At
  <2>3. CASE op[s].then # "idle"
    <3>1. op'[s] = [op[s] EXCEPT !.pc = op[s].then]
      BY <1>0, <1>5, <2>3 DEF ReleaseMark
    <3>2. /\ op'[s].pc = op[s].then
          /\ op'[s].head = op[s].head /\ op'[s].pr = op[s].pr
          /\ op'[s].todo = op[s].todo
          /\ op[s].then \in {"armEval", "armSupersede"}
      BY <1>0, <2>3, <3>1 DEF Op
    <3> QED BY <2>1, <2>2, <2>3, <3>2
            DEF Owes, ArmsFor, Arming, Unsuperseded, ListKept
  <2>4. CASE op[s].then = "idle"
    BY <1>2, <1>5, <2>4 DEF ReleaseMark, Finish
  <2> QED BY <2>3, <2>4
<1>6. ASSUME NEW h \in Head, NEW reason, StartDead(s, h, reason)
      PROVE  Owes(s, o)'
  <2>1. op'[s].pc = "deadStatus"
    BY <1>0, <1>6 DEF StartDead, Idle
  <2> QED BY <2>1, OwesTrivial
<1>7. CASE DeadStatus(s)
  <2>1. op'[s].pc = "deadMark" \/ Finish(s)
    BY <1>0, <1>7 DEF DeadStatus, Goto, Op
  <2> QED BY <1>2, <2>1, OwesTrivial
<1>8. ASSUME NEW p \in PR, NEW asks \in {"scan", "request", "human"},
             NEW wake \in Head, StartArm(s, p, asks, wake)
      PROVE  Owes(s, o)'
  <2>1. /\ op'[s].pr = p
        /\ \/ op'[s].pc = "armEval"
           \/ op'[s].pc = "relStatus" /\ op'[s].then = "armEval"
    BY <1>0, <1>8, ArmOp
  <2> QED BY <2>1 DEF Owes, ArmsFor, Arming
<1>9. ASSUME NEW h \in Head, ArmResolve(s, h) PROVE Owes(s, o)'
  <2>1. op'[s].pc = "armList" /\ op'[s].pr = op[s].pr /\ op[s].pc = "armEval"
    BY <1>0, <1>9 DEF ArmResolve, Op, At
  <2> QED BY <2>1 DEF Owes, ArmsFor, Arming
<1>10. CASE ArmList(s)
  <2> DEFINE todo == {g \in Head \ {op[s].head} : Claim(op[s].pr, g)}
  <2>1. /\ op'[s] = [op[s] EXCEPT !.pc = "armSupersede", !.todo = todo]
        /\ op[s].pc = "armList" /\ UNCHANGED att
    BY <1>0, <1>10 DEF ArmList, At
  <2>2. \A g \in Head \ {op[s].head} : Listed(att[g]) => g \in todo
    <3>1. op[s].pr \in PR
      BY <2>1 DEF Owes, ArmsFor, Arming
    <3>2. \A g \in Head : Listed(att[g]) => att[g].pr \in PR
      BY DEF Listed, TypeOK, Attempt
    <3> QED BY <3>1, <3>2 DEF Claim
  <2> HIDE DEF todo
  <2>3. /\ op'[s].pc = "armSupersede" /\ op'[s].todo = todo
        /\ op'[s].head = op[s].head /\ op'[s].pr = op[s].pr
    BY <1>0, <2>1 DEF Op
  <2> QED BY <2>1, <2>2, <2>3 DEF Owes, ArmsFor, Arming, Unsuperseded
<1>11. CASE ArmSupersede(s)
  <2>1. PICK g \in op[s].todo :
          op'[s] = [op[s] EXCEPT !.pc = "relStatus", !.then = "armSupersede",
                                 !.target = g, !.reason = "superseded",
                                 !.todo = op[s].todo \ {g}]
    BY <1>0, <1>11 DEF ArmSupersede
  <2>2. /\ op'[s].pc = "relStatus" /\ op'[s].target = g
        /\ op'[s].todo = op[s].todo \ {g}
        /\ op'[s].head = op[s].head /\ op'[s].pr = op[s].pr
    BY <1>0, <2>1 DEF Op
  <2>3. UNCHANGED att /\ op[s].pc = "armSupersede"
    BY <1>11 DEF ArmSupersede, At
  <2> QED BY <2>2, <2>3 DEF Owes, ArmsFor, Arming, Unsuperseded
<1>12. CASE ArmBreaker(s)
  <2>1. CASE Goto(s, "armLive")
    <3>1. op'[s] = [op[s] EXCEPT !.pc = "armLive"]
      BY <1>0, <2>1 DEF Goto
    <3>2. /\ op'[s].pc = "armLive" /\ op'[s].todo = op[s].todo
          /\ op'[s].head = op[s].head /\ op'[s].pr = op[s].pr
      BY <1>0, <3>1 DEF Op
    <3>3. UNCHANGED att /\ op[s].pc = "armSupersede" /\ op[s].todo = {}
      BY <1>12 DEF ArmBreaker, At
    <3> QED BY <3>2, <3>3 DEF Owes, ArmsFor, Arming, Unsuperseded
  <2> QED BY <1>2, <1>12, <2>1 DEF ArmBreaker
<1>13. CASE ArmLive(s)
  <2>1. op'[s] = [op[s] EXCEPT !.pc = "armStatus"] /\ op[s].pc = "armLive"
    BY <1>0, <1>13 DEF ArmLive, Goto, At
  <2>2. /\ op'[s].pc = "armStatus" /\ op'[s].todo = op[s].todo
        /\ op'[s].head = op[s].head /\ op'[s].pr = op[s].pr
    BY <1>0, <2>1 DEF Op
  <2>3. \A g \in Head : g # op[s].head => att'[g] = att[g]
    BY <1>13 DEF ArmLive, Patch, TypeOK
  <2> QED BY <2>1, <2>2, <2>3 DEF Owes, ArmsFor, Arming, Unsuperseded
<1>14. CASE ArmStatus(s)
  <2>1. op'[s].pc = "dispLock" \/ Finish(s)
    BY <1>0, <1>14 DEF ArmStatus, Idle
  <2> QED BY <1>2, <2>1, OwesTrivial
<1>15. ASSUME NEW h \in Head, StartDispatch(s, h) PROVE Owes(s, o)'
  <2>1. op'[s].pc = "dispLock"
    BY <1>0, <1>15 DEF StartDispatch, Idle
  <2> QED BY <2>1, OwesTrivial
<1>16. CASE DispatchLock(s)
  <2>1. op'[s].pc \in {"dispEdgeGet", "dispIntent"}
    BY <1>0, <1>16 DEF DispatchLock, Goto, Op
  <2> QED BY <2>1, OwesTrivial
<1>17. CASE CompleteDispatchEdge(s)
  <2>1. op'[s].pc = "dispEdge" \/ Finish(s)
    BY <1>0, <1>17 DEF CompleteDispatchEdge, Goto, Op
  <2> QED BY <1>2, <2>1, OwesTrivial
<1>18. CASE DispatchIntent(s) \/ DispatchCreate(s)
  <2>1. op'[s].pc \in {"dispCreate", "dispEdge"}
    BY <1>0, <1>18 DEF DispatchIntent, DispatchCreate, Goto, Op
  <2> QED BY <2>1, OwesTrivial
<1>19. ASSUME NEW j \in Job, StartCancel(s, j) PROVE Owes(s, o)'
  <2>1. op'[s].pc = "cancelDelete"
    BY <1>0, <1>19 DEF StartCancel, Idle
  <2> QED BY <2>1, OwesTrivial
<1>20. CASE CancelDelete(s)
  <2>1. op'[s].pc = "cancelFinalize"
    BY <1>0, <1>20 DEF CancelDelete, Goto, Op
  <2> QED BY <2>1, OwesTrivial
<1> QED
  BY <1>2, <1>3, <1>4, <1>5, <1>6, <1>7, <1>8, <1>9, <1>10, <1>11, <1>12,
     <1>13, <1>14, <1>15, <1>16, <1>17, <1>18, <1>19, <1>20
  DEF SweeperStep, DeadMark, ArmRefuse, DispatchEdge, CancelFinalize, Fail, Crash

\* What the others owe: their arms go on, and no claim of theirs is added.
LEMMA OthersOwe ==
  ASSUME NEW t \in Sweeper, NEW o, Owes(t, o), NEW w, op'[t] = op[t],
         \A g \in Head : Listed(att'[g]) /\ w[g] = t => Listed(att[g]) /\ o[g] = t
  PROVE  Owes(t, w)'
  BY DEF Owes, ArmsFor, Arming, Unsuperseded

\* A sweeper's step leaves every listed claim with an owner of its own.
LEMMA SweeperOwns ==
  ASSUME TypeOK, \A p, q \in PR : p = q, OwnerInv, NEW s \in Sweeper,
         SweeperStep(s)
  PROVE  OwnerInv'
<1>1. PICK o \in [Head -> Sweeper \cup {NoPR}] :
        Owned(o) /\ \A t \in Sweeper : Owes(t, o)
  BY DEF OwnerInv
<1>2. Owes(s, o)' /\ \A t \in Sweeper \ {s} : op'[t] = op[t]
  BY <1>1, OwesStep, OpFrame
<1>3. CASE ListKept
  <2>1. Owned(o)'
    BY <1>1, <1>3 DEF Owned, ListKept
  <2>2. \A t \in Sweeper \ {s} : Owes(t, o)'
    BY <1>1, <1>2, <1>3, OthersOwe DEF ListKept
  <2> QED BY <1>1, <1>2, <2>1, <2>2 DEF OwnerInv
<1>4. CASE ArmLive(s) \/ ArmStatus(s)
  <2>0. PICK h : h = op[s].head
    OBVIOUS
  <2>1. PICK w \in [Head -> Sweeper \cup {NoPR}] :
          \A g \in Head : w[g] = IF g = h THEN s ELSE o[g]
    <3>1. [o EXCEPT ![h] = s] \in [Head -> Sweeper \cup {NoPR}]
      BY <1>1
    <3> QED BY <1>1, <3>1
  <2>2. \A g \in Head : g # h => att'[g] = att[g]
    BY <1>4, <2>0 DEF ArmLive, ArmStatus, Patch, TypeOK
  <2>3. \A g \in Head : Listed(att[g]) /\ o[g] = s => g = h
    <3>1. Owes(s, o) /\ op[s].pc \in {"armLive", "armStatus"}
      BY <1>1, <1>4 DEF ArmLive, ArmStatus, At
    <3> QED BY <2>0, <3>1 DEF Owes, Arming, Unsuperseded
  <2>4. Owned(w)'
    <3>1. \A g \in Head : Listed(att'[g]) => w[g] \in Sweeper
      BY <1>1, <2>1, <2>2 DEF Owned
    <3>2. ASSUME NEW f \in Head, NEW g \in Head, Listed(att'[f]),
                 Listed(att'[g]), w[f] = w[g]
          PROVE  f = g
      <4>1. CASE f = h
        BY <2>1, <2>2, <2>3, <3>2, <4>1
      <4>2. CASE f # h
        BY <1>1, <2>1, <2>2, <2>3, <3>2, <4>2 DEF Owned
      <4> QED BY <4>1, <4>2
    <3> QED BY <3>1, <3>2 DEF Owned
  <2>5. ASSUME NEW t \in Sweeper \ {s} PROVE Owes(t, w)'
    <3>1. \A g \in Head : Listed(att'[g]) /\ w[g] = t => Listed(att[g]) /\ o[g] = t
      BY <2>1, <2>2
    <3>2. Owes(t, o) /\ op'[t] = op[t]
      BY <1>1, <1>2
    <3> QED BY <3>1, <3>2, OthersOwe
  <2>6. Owes(s, w)'
    <3>1. CASE ArmLive(s)
      <4>1. op'[s].head = h
        BY <2>0, <3>1 DEF ArmLive, Goto, TypeOK, Op
      <4>2. \A g \in Head \ {op'[s].head} : w[g] = o[g]
        BY <2>1, <4>1
      <4> QED BY <1>2, <4>2 DEF Owes
    <3>2. CASE ArmStatus(s)
      <4>1. op'[s].pc \in {"dispLock", "idle"}
        <5>1. \/ op'[s] = Idle
              \/ op'[s] = [Idle EXCEPT !.pc = "dispLock", !.head = op[s].head]
          BY <3>2 DEF ArmStatus, Finish, TypeOK
        <5>2. Idle.pc = "idle"
          BY DEF Idle
        <5>3. [Idle EXCEPT !.pc = "dispLock", !.head = op[s].head].pc = "dispLock"
          BY DEF Idle
        <5> QED BY <5>1, <5>2, <5>3
      <4> QED BY <4>1, OwesTrivial
    <3> QED BY <1>4, <3>1, <3>2
  <2> QED BY <2>1, <2>4, <2>5, <2>6 DEF OwnerInv
<1> QED BY <1>3, <1>4, SweeperKeepsList

\* However many sweeps overlap, and whatever fails or crashes in them, a pull
\* request that shares its heads with no other never has more claims on the
\* gate's list than there are sweeps: one sweep, one claim (ArmClaim's order of
\* list, release, marker and write).
THEOREM LiveClaimsBoundedBySweeps ==
  ASSUME IsFiniteSet(Sweeper), \A p, q \in PR : p = q
  PROVE  Spec => []LiveClaimsBounded
<1>1. Init => OwnerInv
  <2> SUFFICES ASSUME Init PROVE OwnerInv
    OBVIOUS
  <2> DEFINE o == [h \in Head |-> NoPR]
  <2>1. \A h \in Head : ~Listed(att[h])
    BY DEF Init, Listed, Absent
  <2>2. \A s \in Sweeper : op[s].pc = "idle"
    BY DEF Init, Idle
  <2>3. Owned(o) /\ \A s \in Sweeper : Owes(s, o)
    BY <2>1, <2>2 DEF Owned, Owes, ArmsFor, Arming
  <2> QED BY <2>3 DEF OwnerInv
<1>2. ASSUME TypeOK, OwnerInv, [Next]_vars PROVE OwnerInv'
  <2>1. ASSUME NEW s \in Sweeper, SweeperStep(s) PROVE OwnerInv'
    BY <1>2, <2>1, SweeperOwns
  <2>2. CASE Environment \/ UNCHANGED vars
    <3>1. ListKept /\ UNCHANGED op
      BY <1>2, <2>2, EnvironmentKeepsList DEF vars, ListKept
    <3>2. PICK o \in [Head -> Sweeper \cup {NoPR}] :
            Owned(o) /\ \A t \in Sweeper : Owes(t, o)
      BY <1>2 DEF OwnerInv
    <3>3. Owned(o)'
      BY <3>1, <3>2 DEF Owned, ListKept
    <3>4. \A t \in Sweeper : Owes(t, o)'
      BY <3>1, <3>2, OthersOwe DEF ListKept
    <3> QED BY <3>2, <3>3, <3>4 DEF OwnerInv
  <2> QED BY <1>2, <2>1, <2>2 DEF Next
<1>3. OwnerInv => LiveClaimsBounded
  <2> SUFFICES ASSUME OwnerInv, NEW p \in PR
               PROVE  Cardinality({h \in Head : Claim(p, h)})
                        <= Cardinality(Sweeper)
    BY DEF LiveClaimsBounded
  <2>1. PICK o \in [Head -> Sweeper \cup {NoPR}] : Owned(o)
    BY DEF OwnerInv
  <2> DEFINE S == {h \in Head : Claim(p, h)}
             f == [h \in S |-> o[h]]
  <2>2. \A h \in S : h \in Head /\ Listed(att[h])
    BY DEF Claim
  <2>3. f \in [S -> Sweeper]
    BY <2>1, <2>2 DEF Owned
  <2>4. \A g, h \in S : f[g] = f[h] => g = h
    BY <2>1, <2>2 DEF Owned
  <2> HIDE DEF S, f
  <2>5. f \in Injection(S, Sweeper)
    BY <2>3, <2>4 DEF Injection, IsInjective
  <2>6. Cardinality(S) <= Cardinality(Sweeper)
    BY <2>5, FS_Injection
  <2> QED BY <2>6 DEF S
<1> QED BY <1>1, <1>2, <1>3, TypeCorrect, PTL DEF Spec
================================================================================
