------------------------------ MODULE AtomicLedger -----------------------------
(***************************************************************************)
(* What patchAttemptStatus promises its callers: a write either takes      *)
(* effect at one instant, on the status as it is at that instant, or not   *)
(* at all.  The modules that treat an Attempt's status patch as one step   *)
(* rest on this; RunLedger shows that the code keeps the promise.          *)
(***************************************************************************)
EXTENDS StatusLedger

CONSTANT MaxNodeSteps   \* bound: turns and node executions of one run

ASSUME StepsAssumption == MaxNodeSteps \in Nat

VARIABLES
  status,   \* the Attempt's status
  worker    \* worker[r]: the worker process of run r

atomicVars == <<status, worker>>

\* pending: the write the worker waits for; envs: the executor's envelope map.
Worker ==
  [pc : {"new", "running", "ending", "done"},
   pending : [kind : {"none", "start", "progress"}] \cup
             [kind : {"node"}, env : Envelope] \cup
             [kind : {"outcome"}, phase : RunPhase \ {"running"},
              envs : Seq(Envelope)],
   envs : SUBSET Envelope,
   steps : 0..MaxNodeSteps]

NewWorker == [pc |-> "new", pending |-> NoWrite, envs |-> {}, steps |-> 0]

AtomicInit ==
  /\ status = EmptyStatus
  /\ worker = [r \in Run |-> NewWorker]

Waiting(r) == worker[r].pending # NoWrite

\* The orders in which a Go map of envelopes may be ranged over.
Orders(S) ==
  {q \in [1..Cardinality(S) -> S] : \A e \in S : \E i \in DOMAIN q : q[i] = e}

\* recordAttemptStarted, before the graph runs.
Begin(r) ==
  /\ worker[r].pc = "new"
  /\ worker' = [worker EXCEPT ![r] = [@ EXCEPT !.pc = "running", !.pending = Start]]

\* The review gate found nothing to do: an outcome without a start.
Skip(r) ==
  /\ worker[r].pc = "new"
  /\ worker' = [worker EXCEPT ![r] =
       [@ EXCEPT !.pc = "ending", !.pending = Outcome("skipped", << >>)]]

\* An agent turn reports its progress.
Turn(r) ==
  /\ worker[r].pc = "running"
  /\ ~Waiting(r)
  /\ worker[r].steps < MaxNodeSteps
  /\ worker' = [worker EXCEPT ![r] =
       [worker[r] EXCEPT !.pending = Progress, !.steps = @ + 1]]

\* A node finishes, for the first time or again in a loop.
NodeDone(r, e) ==
  /\ worker[r].pc = "running"
  /\ ~Waiting(r)
  /\ e.run = r
  /\ worker[r].steps < MaxNodeSteps
  /\ worker' = [worker EXCEPT ![r] =
       [worker[r] EXCEPT !.pending = NodeResult(e),
                         !.envs    = {f \in @ : f.node # e.node} \cup {e},
                         !.steps   = @ + 1]]

\* recordAttemptOutcome, after the graph.
End(r, phase, order) ==
  /\ worker[r].pc = "running"
  /\ ~Waiting(r)
  /\ worker' = [worker EXCEPT ![r] =
       [@ EXCEPT !.pc = "ending", !.pending = Outcome(phase, order)]]

\* The worker goes on after its write, whether it was applied or given up:
\* every caller only logs the error.
Proceed(w) ==
  [w EXCEPT !.pending = NoWrite, !.pc = IF @ = "ending" THEN "done" ELSE @]

\* The pod is lost.
Crash(r) ==
  /\ worker[r].pc \in {"running", "ending"}
  /\ worker' = [worker EXCEPT ![r] = [@ EXCEPT !.pc = "done", !.pending = NoWrite]]

WorkStep(r) ==
  \/ Begin(r)
  \/ Skip(r)
  \/ Turn(r)
  \/ \E e \in Envelope : NodeDone(r, e)
  \/ \E phase \in {"succeeded", "failed"} :
       \E order \in Orders(worker[r].envs) : End(r, phase, order)
  \/ Crash(r)

Apply(r) ==
  /\ Waiting(r)
  /\ status' = compactStatus(Mutate(status, r, worker[r].pending))
  /\ worker' = [worker EXCEPT ![r] = Proceed(@)]

Drop(r) ==
  /\ Waiting(r)
  /\ worker' = [worker EXCEPT ![r] = Proceed(@)]
  /\ UNCHANGED status

AtomicNext ==
  \E r \in Run : (WorkStep(r) /\ UNCHANGED status) \/ Apply(r) \/ Drop(r)

AtomicSpec == AtomicInit /\ [][AtomicNext]_atomicVars
================================================================================
