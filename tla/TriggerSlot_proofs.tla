--------------------------- MODULE TriggerSlot_proofs --------------------------
(***************************************************************************)
(* What TLC checks of TriggerSlot on two claims and one event, for every    *)
(* set of claims and revisions, all intervals and any number of events:    *)
(* its types, the cadence of the trigger slot, and that a generation is    *)
(* observed only once it was served.                                       *)
(***************************************************************************)
EXTENDS TriggerSlot, TLAPS

----------------------------------------------------------------------------
(* The operators on a Workflow.                                             *)

\* A stamp, or its copy in the history, grows within its bounds and by the
\* same steps as any other.
LEMMA OlderAge ==
  ASSUME NEW a \in Age
  PROVE  /\ Older(a) \in Age
         /\ Older(a) = Never <=> a = Never
         /\ \A b \in Age : a # Never /\ a <= b => Older(a) <= Older(b)
BY SlotAssumption DEF Older, Age, Never

\* A write of LastRunAt is a Workflow and forgets what came before it.
LEMMA StampWorkflow ==
  ASSUME NEW w \in Workflow
  PROVE  /\ Stamp(w) \in Workflow
         /\ Stamp(w).lastRun = 0 /\ Stamp(w).late = FALSE
         /\ Stamp(w).observed = w.observed /\ Stamp(w).gen = w.gen
<1>1. 0 \in Age
  BY SlotAssumption DEF Age
<1> QED
  BY <1>1 DEF Stamp, Workflow

\* The passing of time moves nothing but the age.
LEMMA AgedWorkflow ==
  ASSUME NEW w \in Workflow
  PROVE  /\ Aged(w) \in Workflow
         /\ Aged(w).lastRun = Older(w.lastRun) /\ Aged(w).late = w.late
         /\ Aged(w).observed = w.observed /\ Aged(w).gen = w.gen
<1>1. w.lastRun \in Age
  BY DEF Workflow
<1>2. Older(w.lastRun) \in Age
  BY <1>1, OlderAge
<1> HIDE DEF Older
<1> QED
  BY <1>2 DEF Aged, Workflow

\* The end of a run is compared with LastRunAt and changes nothing else.
LEMMA EndedWorkflow ==
  ASSUME NEW w \in Workflow
  PROVE  /\ EndedNow(w) \in Workflow
         /\ EndedNow(w).lastRun = w.lastRun
         /\ EndedNow(w).observed = w.observed /\ EndedNow(w).gen = w.gen
BY DEF EndedNow, Workflow

\* A write keeps the copy that it makes stale marked as stale.
LEMMA WriteType ==
  ASSUME NEW w \in Workflow, Write(w), TypeOK, cache' = cache
  PROVE  /\ wf' \in Workflow /\ cache' \in Workflow /\ synced' \in BOOLEAN
         /\ synced' => cache' = wf'
BY DEF Write, TypeOK

----------------------------------------------------------------------------
(* Types.                                                                   *)

\* The generation is the number of spec changes, which `events` counts.
Typed == TypeOK /\ wf.gen <= events

LEMMA TypedInit == Init => Typed
<1> SUFFICES ASSUME Init PROVE Typed
  OBVIOUS
<1>1. MaxEvents \in Nat /\ PollInterval \in Nat
  BY SlotAssumption
<1>2. -1 \in Age /\ -1 \in -1..MaxEvents /\ 0 \in 0..MaxEvents
  BY <1>1 DEF Age, Never
<1>3. Unrun \in Workflow
  BY <1>2 DEF Unrun, Workflow, Never
<1>4. claims \in [Claim -> Attempt]
  BY DEF Init, Attempt
<1>5. rec \in [pc : {"idle", "slot", "publish", "clear", "observe"},
               wake : Rev \cup {NoRev}, gen : 0..MaxEvents]
  BY <1>2 DEF Init, Idle
<1>6. events \in 0..MaxEvents /\ gap \in Age /\ wf.gen <= events
  BY <1>1, <1>2 DEF Init, Unrun, Never
<1> QED
  BY <1>3, <1>4, <1>5, <1>6 DEF Init, Typed, TypeOK

RecType ==
  [pc : {"idle", "slot", "publish", "clear", "observe"},
   wake : Rev \cup {NoRev}, gen : 0..MaxEvents]

\* A step of the reconcile's program counter, or its end.
LEMMA RecStep ==
  ASSUME TypeOK
  PROVE  /\ Idle \in RecType
         /\ rec.gen \in 0..MaxEvents
         /\ \A pc \in {"publish", "clear", "observe"} :
              [rec EXCEPT !.pc = pc] \in RecType
         /\ [rec EXCEPT !.pc = "observe", !.wake = NoRev] \in RecType
         /\ [pc |-> "slot", wake |-> cache.wake, gen |-> cache.gen] \in RecType
<1>1. 0 \in 0..MaxEvents
  BY SlotAssumption
<1>2. rec \in RecType /\ cache \in Workflow
  BY DEF TypeOK, RecType
<1> QED
  BY <1>1, <1>2 DEF RecType, Idle, Workflow

\* What a dispatch makes of an attempt is an attempt.
LEMMA SweptAttempt ==
  ASSUME NEW x \in Attempt, NEW a \in Swept(x)
  PROVE  a \in Attempt
<1> DEFINE y == [x EXCEPT !.live = TRUE]
<1>1. ASSUME NEW z \in Attempt PROVE StartRun(z) \in Attempt
  BY <1>1 DEF StartRun, Attempt
<1>2. y \in Attempt /\ [x EXCEPT !.live = FALSE, !.dispatched = FALSE] \in Attempt
  BY DEF Attempt
<1>3. StartRun(x) \in Attempt /\ StartRun(y) \in Attempt
  BY <1>1, <1>2
<1>4. a \in {x, y, [x EXCEPT !.live = FALSE, !.dispatched = FALSE],
            StartRun(x), StartRun(y)}
  BY DEF Swept
<1> QED
  BY <1>2, <1>3, <1>4

\* What a sweep writes: an attempt for an attempt, and the aggregates.
LEMMA SweepTyped ==
  ASSUME Typed, Sweep, cache' = cache, events' = events
  PROVE  /\ claims' \in [Claim -> Attempt]
         /\ wf' \in Workflow /\ cache' \in Workflow /\ synced' \in BOOLEAN
         /\ synced' => cache' = wf'
         /\ wf'.gen <= events'
<1>1. PICK k \in Claim, waiting \in BOOLEAN :
        /\ \E a \in Swept(claims[k]) : claims' = [claims EXCEPT ![k] = a]
        /\ Write(IF kind # "webhook" THEN wf
                 ELSE [wf EXCEPT !.gated = TRUE,
                                 !.armed = waiting \/ \E c \in Claim : Counted(c)])
  BY DEF Sweep
<1>2. PICK a \in Swept(claims[k]) : claims' = [claims EXCEPT ![k] = a]
  BY <1>1
<1>3. claims \in [Claim -> Attempt] /\ wf \in Workflow
  BY DEF Typed, TypeOK
<1>4. a \in Attempt
  BY <1>2, <1>3, SweptAttempt
<1>5. claims' \in [Claim -> Attempt]
  BY <1>2, <1>3, <1>4
<1> DEFINE armed == waiting \/ \E c \in Claim : Counted(c)
           w == IF kind # "webhook" THEN wf
                ELSE [wf EXCEPT !.gated = TRUE, !.armed = armed]
<1>6. armed \in BOOLEAN
  OBVIOUS
<1> HIDE DEF armed
<1>7. w \in Workflow /\ w.gen = wf.gen
  BY <1>3, <1>6 DEF Workflow
<1>8. Write(w)
  BY <1>1 DEF armed
<1> HIDE DEF w
<1>9. wf'.gen <= events'
  BY <1>7, <1>8 DEF Write, Typed
<1> QED
  BY <1>5, <1>7, <1>8, <1>9, WriteType DEF Typed

\* A sweep leaves the clock, the ended runs and the generations alone.
LEMMA SweepWrites ==
  ASSUME wf \in Workflow, Sweep
  PROVE  /\ wf'.lastRun = wf.lastRun /\ wf'.late = wf.late
         /\ wf'.observed = wf.observed
BY DEF Sweep, Write, Workflow

LEMMA TypedStep == Typed /\ [Next]_vars => Typed'
<1> SUFFICES ASSUME Typed, [Next]_vars PROVE Typed'
  OBVIOUS
<1>0. /\ TypeOK /\ wf.gen <= events
      /\ wf \in Workflow /\ cache \in Workflow /\ events \in 0..MaxEvents
      /\ rec \in RecType /\ served \subseteq 0..MaxEvents /\ gap \in Age
      /\ claims \in [Claim -> Attempt]
  BY DEF Typed, TypeOK, RecType
<1>a. MaxEvents \in Nat /\ PollInterval \in Nat /\ 0 \in Age
  BY SlotAssumption DEF Age
<1>b. wf.gen \in 0..MaxEvents
  BY <1>0 DEF Workflow
<1>1. CASE StartReconcile
  BY <1>0, <1>1, RecStep DEF StartReconcile, Typed, TypeOK, RecType
<1>2. CASE LoseSlot
  BY <1>0, <1>2, RecStep DEF LoseSlot, Typed, TypeOK, RecType
<1>3. CASE WinSlot
  <2>1. Stamp(wf) \in Workflow /\ Stamp(wf).gen = wf.gen
    BY <1>0, StampWorkflow
  <2>2. Write(Stamp(wf)) /\ cache' = cache /\ events' = events
    BY <1>3 DEF WinSlot
  <2>3. wf'.gen <= events'
    BY <1>0, <2>1, <2>2 DEF Write
  <2>4. served' \subseteq 0..MaxEvents /\ rec' \in RecType
    BY <1>0, <1>3, RecStep DEF WinSlot, Step
  <2> QED
    BY <1>0, <1>a, <1>3, <2>1, <2>2, <2>3, <2>4, WriteType
       DEF WinSlot, Typed, TypeOK, RecType
<1>4. CASE Publish
  BY <1>0, <1>4, RecStep DEF Publish, Step, Typed, TypeOK, RecType
<1>5. CASE PublishFails
  BY <1>0, <1>5, RecStep DEF PublishFails, Step, Typed, TypeOK, RecType
<1>6. CASE ClearWake
  <2> DEFINE w == [wf EXCEPT !.wake = NoRev]
  <2>1. w \in Workflow /\ w.gen = wf.gen
    BY <1>0 DEF Workflow
  <2>2. Write(w) \/ UNCHANGED <<wf, synced>>
    BY <1>6 DEF ClearWake
  <2>3. cache' = cache /\ events' = events /\ rec' \in RecType
    BY <1>0, <1>6, RecStep DEF ClearWake
  <2> HIDE DEF w
  <2>4. /\ wf' \in Workflow /\ cache' \in Workflow /\ synced' \in BOOLEAN
        /\ synced' => cache' = wf'
        /\ wf'.gen <= events'
    <3>1. CASE Write(w)
      BY <1>0, <2>1, <2>3, <3>1, WriteType DEF Write
    <3>2. CASE UNCHANGED <<wf, synced>>
      BY <1>0, <2>3, <3>2 DEF TypeOK
    <3> QED BY <2>2, <3>1, <3>2
  <2> QED
    BY <1>0, <1>6, <2>3, <2>4 DEF ClearWake, Typed, TypeOK, RecType
<1>7. CASE observeGeneration
  <2> DEFINE w == [Stamp(wf) EXCEPT !.observed = ObservedGeneration]
  <2>1. Stamp(wf) \in Workflow /\ Stamp(wf).gen = wf.gen
    BY <1>0, StampWorkflow
  <2>2. ObservedGeneration \in -1..MaxEvents
    BY <1>0, RecStep DEF ObservedGeneration
  <2>3. w \in Workflow /\ w.gen = wf.gen
    BY <2>1, <2>2 DEF Workflow
  <2>4. Write(w) \/ UNCHANGED <<wf, synced>>
    BY <1>7 DEF observeGeneration
  <2>5. cache' = cache /\ events' = events /\ rec' \in RecType
    BY <1>0, <1>7, RecStep DEF observeGeneration
  <2> HIDE DEF w
  <2>6. /\ wf' \in Workflow /\ cache' \in Workflow /\ synced' \in BOOLEAN
        /\ synced' => cache' = wf'
        /\ wf'.gen <= events'
    <3>1. CASE Write(w)
      BY <1>0, <2>3, <2>5, <3>1, WriteType DEF Write
    <3>2. CASE UNCHANGED <<wf, synced>>
      BY <1>0, <2>5, <3>2 DEF TypeOK
    <3> QED BY <2>4, <3>1, <3>2
  <2> QED
    BY <1>0, <1>7, <2>5, <2>6 DEF observeGeneration, Typed, TypeOK, RecType
<1>8. CASE Tick
  <2>1. Aged(wf) \in Workflow /\ Aged(cache) \in Workflow /\ Aged(wf).gen = wf.gen
    BY <1>0, AgedWorkflow
  <2>2. Older(gap) \in Age
    BY <1>0, OlderAge
  <2>3. synced' => cache' = wf'
    BY <1>0, <1>8 DEF Tick, TypeOK
  <2> QED
    BY <1>0, <1>8, <2>1, <2>2, <2>3 DEF Tick, Typed, TypeOK
<1>9. CASE CacheSync
  BY <1>0, <1>9 DEF CacheSync, Typed, TypeOK
<1>10. CASE Restart
  <2>1. events' \in 0..MaxEvents /\ wf'.gen <= events'
    BY <1>0, <1>a, <1>b, <1>10 DEF Restart
  <2> QED
    BY <1>0, <1>10, <2>1, RecStep DEF Restart, Typed, TypeOK, RecType
<1>11. CASE SpecChange
  <2>1. PICK d \in BOOLEAN :
          Write([wf EXCEPT !.gen = @ + 1, !.disabled = d])
    BY <1>11 DEF SpecChange
  <2> DEFINE g == wf.gen + 1
             w == [wf EXCEPT !.gen = g, !.disabled = d]
  <2>2. g \in 0..MaxEvents /\ events' \in 0..MaxEvents /\ g <= events'
    BY <1>0, <1>a, <1>b, <1>11 DEF SpecChange
  <2>3. Write(w)
    BY <2>1
  <2> HIDE DEF g
  <2>4. w \in Workflow /\ w.gen = g
    BY <1>0, <2>2 DEF Workflow
  <2> HIDE DEF w
  <2>5. wf'.gen <= events' /\ cache' = cache
    BY <1>11, <2>2, <2>3, <2>4 DEF Write, SpecChange
  <2> QED
    BY <1>0, <1>11, <2>2, <2>3, <2>4, <2>5, WriteType
       DEF SpecChange, Typed, TypeOK
<1>12. CASE CronFires
  <2>1. /\ [wf EXCEPT !.activated = TRUE] \in Workflow
        /\ [wf EXCEPT !.activated = TRUE].gen = wf.gen
    BY <1>0 DEF Workflow
  <2>2. [cache EXCEPT !.activated = cache.lastRun # Never] \in Workflow
    BY <1>0 DEF Workflow
  <2>3. synced' => cache' = wf'
    BY <1>0, <1>12 DEF CronFires, TypeOK
  <2> QED
    BY <1>0, <1>12, <2>1, <2>2, <2>3 DEF CronFires, Typed, TypeOK
<1>13. CASE HandleTrigger
  BY <1>0, <1>13, SweepTyped DEF HandleTrigger, Typed, TypeOK
<1>14. CASE ArmedBackoff
  BY <1>0, <1>14, SweepTyped DEF ArmedBackoff, Typed, TypeOK
<1>15. ASSUME NEW r \in Rev, Deliver(r) PROVE Typed'
  <2> DEFINE w == [wf EXCEPT !.wake = r]
  <2>1. w \in Workflow /\ w.gen = wf.gen
    BY <1>0 DEF Workflow
  <2>2. events' \in 0..MaxEvents /\ wf.gen <= events'
    BY <1>0, <1>a, <1>b, <1>15 DEF Deliver
  <2>3. Write(w) /\ cache' = cache
    BY <1>15 DEF Deliver
  <2> HIDE DEF w
  <2>4. wf'.gen <= events'
    BY <2>1, <2>2, <2>3 DEF Write
  <2> QED
    BY <1>0, <1>15, <2>1, <2>2, <2>3, <2>4, WriteType
       DEF Deliver, Typed, TypeOK
<1>16. ASSUME NEW k \in Claim, PatchWorkflowStatus(k) PROVE Typed'
  <2> DEFINE w == [Stamp(wf) EXCEPT !.processed = IF SourceRevision = NoRev
                                                    THEN @ ELSE SourceRevision]
  <2>1. Stamp(wf) \in Workflow /\ Stamp(wf).gen = wf.gen
    BY <1>0, StampWorkflow
  <2>2. w \in Workflow /\ w.gen = wf.gen
    BY <2>1, SlotAssumption DEF Workflow
  <2>3. Write(w) /\ cache' = cache /\ events' = events
    BY <1>16 DEF PatchWorkflowStatus
  <2> HIDE DEF w
  <2>4. wf'.gen <= events'
    BY <1>0, <2>2, <2>3 DEF Write
  <2>5. claims' \in [Claim -> Attempt]
    BY <1>0, <1>16 DEF PatchWorkflowStatus, Attempt
  <2> QED
    BY <1>0, <1>16, <2>2, <2>3, <2>4, <2>5, WriteType
       DEF PatchWorkflowStatus, Typed, TypeOK
<1>17. ASSUME NEW k \in Claim, RecordAttemptOutcome(k) PROVE Typed'
  <2>1. /\ EndedNow(wf) \in Workflow /\ EndedNow(cache) \in Workflow
        /\ EndedNow(wf).gen = wf.gen
    BY <1>0, EndedWorkflow
  <2>2. claims' \in [Claim -> Attempt]
    BY <1>0, <1>17 DEF RecordAttemptOutcome, Attempt
  <2>3. synced' => cache' = wf'
    BY <1>0, <1>17 DEF RecordAttemptOutcome, TypeOK
  <2> QED
    BY <1>0, <1>17, <2>1, <2>2, <2>3 DEF RecordAttemptOutcome, Typed, TypeOK
<1>18. CASE UNCHANGED vars
  BY <1>18 DEF vars, Typed, TypeOK
<1> QED
  BY <1>1, <1>2, <1>3, <1>4, <1>5, <1>6, <1>7, <1>8, <1>9, <1>10, <1>11,
     <1>12, <1>13, <1>14, <1>15, <1>16, <1>17, <1>18 DEF Next, Reconcile

\* The Workflow, the controller's copy of it and the reconcile stay in their
\* types, and a copy marked as current is the current one: what the
\* resourceVersion precondition of the controller's patches relies on.
THEOREM TypeCorrect == Spec => []TypeOK
<1>1. Typed => TypeOK
  BY DEF Typed
<1> QED
  BY <1>1, TypedInit, TypedStep, PTL DEF Spec

----------------------------------------------------------------------------
(* The generation.                                                          *)

\* A reconcile past its slot was counted for the generation it had read.
ServedInv ==
  /\ ObservedWasServed
  /\ rec.pc \in {"publish", "clear", "observe"} => rec.gen \in served

LEMMA ServedStep == Typed /\ ServedInv /\ [Next]_vars => ServedInv'
<1> SUFFICES ASSUME Typed, ServedInv, [Next]_vars PROVE ServedInv'
  OBVIOUS
<1>0. wf \in Workflow /\ rec \in RecType /\ wf.observed \in served \cup {-1}
  BY DEF Typed, TypeOK, RecType, ServedInv, ObservedWasServed
<1>1. CASE StartReconcile
  BY <1>0, <1>1 DEF StartReconcile, ServedInv, ObservedWasServed
<1>2. CASE LoseSlot
  BY <1>0, <1>2 DEF LoseSlot, Idle, ServedInv, ObservedWasServed
<1>3. CASE WinSlot
  <2>1. wf'.observed = wf.observed
    BY <1>0, <1>3, StampWorkflow DEF WinSlot, Write
  <2>2. rec'.gen = rec.gen
    BY <1>0, <1>3 DEF WinSlot, Step, RecType
  <2> QED
    BY <1>0, <1>3, <2>1, <2>2 DEF WinSlot, ServedInv, ObservedWasServed
<1>4. CASE Publish \/ PublishFails
  BY <1>0, <1>4 DEF Publish, PublishFails, Step, RecType, ServedInv, ObservedWasServed
<1>5. CASE ClearWake
  <2>1. wf'.observed = wf.observed
    BY <1>0, <1>5 DEF ClearWake, Write, Workflow
  <2>2. rec'.gen = rec.gen /\ rec.gen \in served /\ served' = served
    BY <1>0, <1>5 DEF ClearWake, RecType, ServedInv
  <2> QED
    BY <1>0, <2>1, <2>2 DEF ServedInv, ObservedWasServed
<1>6. CASE observeGeneration
  <2>1. wf'.observed \in {wf.observed, rec.gen}
    <3>1. Stamp(wf) \in Workflow
      BY <1>0, StampWorkflow
    <3>2. [Stamp(wf) EXCEPT !.observed = ObservedGeneration].observed = rec.gen
      BY <3>1 DEF Workflow, ObservedGeneration
    <3> QED
      BY <1>6, <3>2 DEF observeGeneration, Write
  <2>2. rec.gen \in served /\ served' = served /\ rec'.pc = "idle"
    BY <1>6 DEF observeGeneration, ServedInv, Idle
  <2> QED
    BY <1>0, <2>1, <2>2 DEF ServedInv, ObservedWasServed
<1>7. CASE Tick
  <2>1. wf'.observed = wf.observed
    BY <1>0, <1>7, AgedWorkflow DEF Tick
  <2> QED
    BY <1>7, <2>1 DEF Tick, ServedInv, ObservedWasServed
<1>8. CASE CacheSync
  BY <1>8 DEF CacheSync, ServedInv, ObservedWasServed
<1>9. CASE Restart
  BY <1>9 DEF Restart, Idle, ServedInv, ObservedWasServed
<1>10. CASE SpecChange
  <2>1. PICK d \in BOOLEAN :
          wf' = [wf EXCEPT !.gen = @ + 1, !.disabled = d]
    BY <1>10 DEF SpecChange, Write
  <2>2. wf'.observed = wf.observed
    BY <1>0, <2>1 DEF Workflow
  <2> QED
    BY <1>10, <2>2 DEF SpecChange, ServedInv, ObservedWasServed
<1>11. CASE CronFires
  <2>1. wf'.observed = wf.observed
    BY <1>0, <1>11 DEF CronFires, Workflow
  <2> QED
    BY <1>11, <2>1 DEF CronFires, ServedInv, ObservedWasServed
<1>12. CASE HandleTrigger \/ ArmedBackoff
  <2>1. wf'.observed = wf.observed
    BY <1>0, <1>12, SweepWrites DEF HandleTrigger, ArmedBackoff
  <2> QED
    BY <1>12, <2>1 DEF HandleTrigger, ArmedBackoff, ServedInv, ObservedWasServed
<1>13. ASSUME NEW r \in Rev, Deliver(r) PROVE ServedInv'
  <2>1. wf'.observed = wf.observed
    BY <1>0, <1>13 DEF Deliver, Write, Workflow
  <2> QED
    BY <1>13, <2>1 DEF Deliver, ServedInv, ObservedWasServed
<1>14. ASSUME NEW k \in Claim, PatchWorkflowStatus(k) PROVE ServedInv'
  <2>1. Stamp(wf) \in Workflow /\ Stamp(wf).observed = wf.observed
    BY <1>0, StampWorkflow
  <2>2. wf'.observed = wf.observed
    BY <1>14, <2>1 DEF PatchWorkflowStatus, Write, Workflow
  <2> QED
    BY <1>14, <2>2 DEF PatchWorkflowStatus, ServedInv, ObservedWasServed
<1>15. ASSUME NEW k \in Claim, RecordAttemptOutcome(k) PROVE ServedInv'
  <2>1. wf'.observed = wf.observed
    BY <1>0, <1>15, EndedWorkflow DEF RecordAttemptOutcome
  <2> QED
    BY <1>15, <2>1 DEF RecordAttemptOutcome, ServedInv, ObservedWasServed
<1>16. CASE UNCHANGED vars
  BY <1>16 DEF vars, ServedInv, ObservedWasServed
<1> QED
  BY <1>1, <1>2, <1>3, <1>4, <1>5, <1>6, <1>7, <1>8, <1>9, <1>10, <1>11,
     <1>12, <1>13, <1>14, <1>15, <1>16 DEF Next, Reconcile

\* observeGeneration marks no generation of the spec as observed that no
\* trigger slot was won for: a spec delivered between the reconcile's read
\* and its last write stays due.
THEOREM GenerationServed == Spec => []ObservedWasServed
<1>1. Init => ServedInv
  BY DEF Init, Unrun, Idle, ServedInv, ObservedWasServed
<1>2. ServedInv => ObservedWasServed
  BY DEF ServedInv
<1> QED
  BY <1>1, <1>2, TypedInit, TypedStep, ServedStep, PTL DEF Spec

----------------------------------------------------------------------------
(* The cadence.                                                             *)

\* LastRunAt is at least as recent as the last slot won, and a run that ended
\* after LastRunAt ended after that slot.
Anchored ==
  /\ gap # Never => wf.lastRun # Never /\ wf.lastRun <= gap
  /\ wf.late => ended

LEMMA AnchoredStep == Typed /\ Anchored /\ [Next]_vars => Anchored'
<1> SUFFICES ASSUME Typed, Anchored, [Next]_vars PROVE Anchored'
  OBVIOUS
<1>0. wf \in Workflow /\ gap \in Age /\ wf.lastRun \in Age
  BY DEF Typed, TypeOK, Workflow
<1>a. ASSUME wf'.lastRun = 0, wf'.late = FALSE, gap' \in {gap, 0}
      PROVE  Anchored'
  BY <1>0, <1>a, SlotAssumption DEF Anchored, Age, Never
<1>b. ASSUME wf'.lastRun = wf.lastRun, wf'.late = wf.late, gap' = gap,
             ended' = ended
      PROVE  Anchored'
  BY <1>b DEF Anchored
<1>c. Stamp(wf) \in Workflow /\ Stamp(wf).lastRun = 0 /\ Stamp(wf).late = FALSE
  BY <1>0, StampWorkflow
<1>1. CASE StartReconcile \/ LoseSlot \/ Publish \/ PublishFails \/ CacheSync
           \/ Restart
  BY <1>1, <1>b DEF StartReconcile, LoseSlot, Publish, PublishFails, CacheSync,
                    Restart
<1>2. CASE WinSlot
  BY <1>2, <1>a, <1>c DEF WinSlot, Write
<1>3. CASE ClearWake
  <2>1. wf'.lastRun = wf.lastRun /\ wf'.late = wf.late
    BY <1>0, <1>3 DEF ClearWake, Write, Workflow
  <2> QED BY <1>3, <1>b, <2>1 DEF ClearWake
<1>4. CASE observeGeneration
  <2> DEFINE w == [Stamp(wf) EXCEPT !.observed = ObservedGeneration]
  <2>1. w.lastRun = 0 /\ w.late = FALSE
    BY <1>c DEF Workflow
  <2>2. wf' = w \/ wf' = wf
    BY <1>4 DEF observeGeneration, Write
  <2>3. gap' = gap /\ ended' = ended
    BY <1>4 DEF observeGeneration
  <2> HIDE DEF w
  <2> QED BY <1>a, <1>b, <2>1, <2>2, <2>3
<1>5. CASE Tick
  <2>1. wf'.lastRun = Older(wf.lastRun) /\ wf'.late = wf.late /\ gap' = Older(gap)
        /\ ended' = ended
    BY <1>0, <1>5, AgedWorkflow DEF Tick
  <2>2. gap' # Never => wf'.lastRun # Never /\ wf'.lastRun <= gap'
    BY <1>0, <2>1, OlderAge DEF Anchored
  <2> QED BY <2>1, <2>2 DEF Anchored
<1>6. CASE SpecChange
  <2>1. wf'.lastRun = wf.lastRun /\ wf'.late = wf.late
    <3>1. PICK d \in BOOLEAN :
            wf' = [wf EXCEPT !.gen = @ + 1, !.disabled = d]
      BY <1>6 DEF SpecChange, Write
    <3> QED BY <1>0, <3>1 DEF Workflow
  <2> QED BY <1>6, <1>b, <2>1 DEF SpecChange
<1>7. CASE CronFires
  <2>1. wf'.lastRun = wf.lastRun /\ wf'.late = wf.late
    BY <1>0, <1>7 DEF CronFires, Workflow
  <2> QED BY <1>7, <1>b, <2>1 DEF CronFires
<1>8. CASE HandleTrigger \/ ArmedBackoff
  <2>1. wf'.lastRun = wf.lastRun /\ wf'.late = wf.late
    BY <1>0, <1>8, SweepWrites DEF HandleTrigger, ArmedBackoff
  <2> QED BY <1>8, <1>b, <2>1 DEF HandleTrigger, ArmedBackoff
<1>9. ASSUME NEW r \in Rev, Deliver(r) PROVE Anchored'
  <2>1. wf'.lastRun = wf.lastRun /\ wf'.late = wf.late
    BY <1>0, <1>9 DEF Deliver, Write, Workflow
  <2> QED BY <1>9, <1>b, <2>1 DEF Deliver
<1>10. ASSUME NEW k \in Claim, PatchWorkflowStatus(k) PROVE Anchored'
  <2>1. wf'.lastRun = 0 /\ wf'.late = FALSE
    BY <1>10, <1>c DEF PatchWorkflowStatus, Write, Workflow
  <2> QED BY <1>10, <1>a, <2>1 DEF PatchWorkflowStatus
<1>11. ASSUME NEW k \in Claim, RecordAttemptOutcome(k) PROVE Anchored'
  <2>1. wf'.lastRun = wf.lastRun /\ ended' = TRUE /\ gap' = gap
    BY <1>0, <1>11, EndedWorkflow DEF RecordAttemptOutcome
  <2> QED BY <2>1 DEF Anchored
<1>12. CASE UNCHANGED vars
  BY <1>12, <1>b DEF vars
<1> QED
  BY <1>1, <1>2, <1>3, <1>4, <1>5, <1>6, <1>7, <1>8, <1>9, <1>10, <1>11,
     <1>12 DEF Next, Reconcile

\* The step of the Cadence property, from the invariants.
LEMMA CadenceStep ==
  ASSUME Typed, Anchored, [Next]_vars,
         rec.pc = "slot", rec'.pc = "publish", gap \notin {Never, PollInterval}
  PROVE  gap >= WebhookInterval /\ (WakePending(wf) \/ ended)
<1>0. rec \in RecType
  BY DEF Typed, TypeOK, RecType
<1>1. WinSlot
  <2>1. rec'.pc # rec.pc /\ rec'.pc # "idle"
    OBVIOUS
  <2>2. ~Tick /\ ~CacheSync /\ ~SpecChange /\ ~CronFires
    BY <2>1 DEF Tick, CacheSync, SpecChange, CronFires
  <2>3. ~Restart
    BY <2>1 DEF Restart, Idle
  <2>4. ~HandleTrigger /\ ~ArmedBackoff
    BY <2>1 DEF HandleTrigger, ArmedBackoff
  <2>5. /\ \A r \in Rev : ~Deliver(r)
        /\ \A k \in Claim : ~PatchWorkflowStatus(k) /\ ~RecordAttemptOutcome(k)
    BY <2>1 DEF Deliver, PatchWorkflowStatus, RecordAttemptOutcome
  <2>6. ~StartReconcile /\ ~LoseSlot /\ ~Publish /\ ~PublishFails /\ ~ClearWake
        /\ ~observeGeneration
    BY <2>1 DEF StartReconcile, LoseSlot, Publish, PublishFails, ClearWake,
                observeGeneration, Idle
  <2>7. ~UNCHANGED vars
    BY <2>1 DEF vars
  <2> QED
    BY <2>2, <2>3, <2>4, <2>5, <2>6, <2>7 DEF Next, Reconcile
<1>2. cache = wf
  BY <1>1 DEF WinSlot, Accepted, Typed, TypeOK
<1>3. PICK listed \in BOOLEAN : SlotFree(wf, listed)
  BY <1>1, <1>2 DEF WinSlot
<1>4. /\ gap \in Age /\ wf.lastRun \in Age /\ wf.lastRun # Never
      /\ wf.lastRun <= gap
  BY DEF Typed, TypeOK, Workflow, Anchored
<1>5. CASE WakePending(wf) \/ terminalRunPending(wf, listed)
  <2>1. WakePending(wf) \/ ended
    BY <1>5 DEF terminalRunPending, Anchored
  <2>2. wf.lastRun >= WebhookInterval
    BY <1>3, <1>4, <1>5 DEF SlotFree, Elapsed
  <2>3. gap >= WebhookInterval
    BY <1>4, <2>2, SlotAssumption DEF Age, Never
  <2> QED
    BY <2>1, <2>3
<1>6. CASE ~(WakePending(wf) \/ terminalRunPending(wf, listed))
  <2>1. wf.lastRun >= PollInterval
    BY <1>3, <1>4, <1>6 DEF SlotFree, Elapsed
  <2> QED
    BY <1>4, <2>1, SlotAssumption DEF Age, Never
<1> QED
  BY <1>5, <1>6

\* Whatever the informer lags behind and however many wakes, completions and
\* restarts there are, two slots of claimTriggerSlot are never less than the
\* webhook floor apart, and less than a poll apart only for a wake that is
\* not processed or a run that ended in between.
THEOREM CadenceKept == Spec => Cadence
<1>1. Init => Anchored
  BY DEF Init, Unrun, Anchored
<1>2. ASSUME Typed, Anchored, [Next]_vars
      PROVE  [rec.pc = "slot" /\ rec'.pc = "publish"
                /\ gap \notin {Never, PollInterval} =>
              gap >= WebhookInterval /\ (WakePending(wf) \/ ended)]_vars
  BY <1>2, CadenceStep
<1> QED
  BY <1>1, <1>2, TypedInit, TypedStep, AnchoredStep, PTL DEF Spec, Cadence

================================================================================
