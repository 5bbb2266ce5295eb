------------------------------ MODULE StatusLedger -----------------------------
(***************************************************************************)
(* The bounded history kept in an Attempt's status: run records, node      *)
(* result envelopes and evidence references, each a list whose oldest      *)
(* entries are dropped and counted when it outgrows its window.            *)
(*                                                                         *)
(* The operators are the mutations internal/attempt/lifecycle.go hands to  *)
(* its one write primitive, and the compaction that primitive applies to   *)
(* every one of them.  An envelope keeps its key, the bytes compaction     *)
(* charges it with and the reference it carries, at most one here.  The    *)
(* phase an outcome sets is ClaimLedger's concern.                         *)
(***************************************************************************)
EXTENDS Naturals, Sequences, FiniteSets

CONSTANTS
  Run,                    \* run names: the worker Jobs of one Attempt
  Node,                   \* graph node ids
  Reference,              \* evidence references, by their key
  NoReference,
  Weight,                 \* sizes an envelope can have after its record-time clamp
  MaxStatusRuns,
  MaxStatusNodeResults,
  MaxStatusEvidence,
  MaxStatusBytes,
  MinTailEnvelopes

ASSUME StatusAssumption ==
  /\ NoReference \notin Reference
  /\ Weight \subseteq Nat
  /\ MaxStatusRuns \in Nat
  /\ MaxStatusNodeResults \in Nat
  /\ MaxStatusEvidence \in Nat
  /\ MaxStatusBytes \in Nat
  /\ MinTailEnvelopes \in Nat

RunPhase == {"running", "succeeded", "failed", "skipped"}

RunRecord == [name : Run, phase : RunPhase]

Envelope ==
  [node : Node, run : Run, bytes : Weight, ref : Reference \cup {NoReference}]

Status ==
  [runs : Seq(RunRecord), results : Seq(Envelope), evidence : Seq(Reference),
   compactedRuns : Nat, compactedResults : Nat, compactedEvidence : Nat]

EmptyStatus ==
  [runs |-> << >>, results |-> << >>, evidence |-> << >>,
   compactedRuns |-> 0, compactedResults |-> 0, compactedEvidence |-> 0]

--------------------------------------------------------------------------------
(***************************************************************************)
(* Upserts: an entry with the key of the new one is replaced where it is,  *)
(* a new key goes to the end.                                              *)
(***************************************************************************)
First(S) == CHOOSE i \in S : \A j \in S : i <= j

\* Mutant: the outcome appends what the node hook has recorded already.
appendNodeResult(q, env) == Append(q, env)

upsertNodeResult(q, env) ==
  LET same == {i \in DOMAIN q : q[i].node = env.node /\ q[i].run = env.run}
  IN  IF same = {} THEN Append(q, env) ELSE [q EXCEPT ![First(same)] = env]

upsertRun(q, rec) ==
  LET same == {i \in DOMAIN q : q[i].name = rec.name}
  IN  IF same = {} THEN Append(q, rec) ELSE [q EXCEPT ![First(same)] = rec]

appendUniqueEvidence(q, ref) ==
  IF ref = NoReference \/ \E i \in DOMAIN q : q[i] = ref
  THEN q ELSE Append(q, ref)

--------------------------------------------------------------------------------
(***************************************************************************)
(* compactStatus.  Envelopes leave from the head while their bytes exceed  *)
(* the budget, down to a floor, and then, like the other lists, while they *)
(* are too many.                                                           *)
(***************************************************************************)
Bytes(q) ==
  LET sum[i \in 0..Len(q)] == IF i = 0 THEN 0 ELSE sum[i - 1] + q[i].bytes
  IN  sum[Len(q)]

TailAfter(q, drop) == SubSeq(q, drop + 1, Len(q))

OverBudget(q, drop) ==
  Len(q) - drop > MinTailEnvelopes /\ Bytes(TailAfter(q, drop)) > MaxStatusBytes

ByteDrop(q) == First({d \in 0..Len(q) : ~OverBudget(q, d)})

CountDrop(n, max) == IF n > max THEN n - max ELSE 0

compactStatus(s) ==
  LET bytes   == ByteDrop(s.results)
      results == bytes + CountDrop(Len(s.results) - bytes, MaxStatusNodeResults)
      runs    == CountDrop(Len(s.runs), MaxStatusRuns)
      refs    == CountDrop(Len(s.evidence), MaxStatusEvidence)
  IN  [s EXCEPT !.results           = TailAfter(@, results),
                !.runs              = TailAfter(@, runs),
                !.evidence          = TailAfter(@, refs),
                !.compactedResults  = @ + results,
                !.compactedRuns     = @ + runs,
                !.compactedEvidence = @ + refs]

--------------------------------------------------------------------------------
(***************************************************************************)
(* The mutations.  A write is what a worker asks the primitive to do.      *)
(***************************************************************************)
NoWrite  == [kind |-> "none"]
Start    == [kind |-> "start"]
Progress == [kind |-> "progress"]
NodeResult(e) == [kind |-> "node", env |-> e]

\* envs lists the latest envelope of each node that ran.
Outcome(phase, envs) == [kind |-> "outcome", phase |-> phase, envs |-> envs]

RecordRunStarted(s, r) ==
  [s EXCEPT !.runs = upsertRun(@, [name |-> r, phase |-> "running"])]

UpsertNodeResult(s, e) == [s EXCEPT !.results = upsertNodeResult(@, e)]

\* The sample it replaces is no part of the history.
RecordProgress(s) == s

RecordRunOutcome(s, r, w) ==
  LET n == Len(w.envs)
      res[i \in 0..n] == IF i = 0 THEN s.results
                         ELSE upsertNodeResult(res[i - 1], w.envs[i])
      ev[i \in 0..n]  == IF i = 0 THEN s.evidence
                         ELSE appendUniqueEvidence(ev[i - 1], w.envs[i].ref)
  IN  [s EXCEPT !.runs     = upsertRun(@, [name |-> r, phase |-> w.phase]),
                !.results  = res[n],
                !.evidence = ev[n]]

Mutate(s, r, w) ==
  CASE w.kind = "start"    -> RecordRunStarted(s, r)
    [] w.kind = "progress" -> RecordProgress(s)
    [] w.kind = "node"     -> UpsertNodeResult(s, w.env)
    [] w.kind = "outcome"  -> RecordRunOutcome(s, r, w)

--------------------------------------------------------------------------------
\* AttemptStatus.TotalRuns, TotalNodeResults and TotalEvidence.
TotalRuns(s) == Len(s.runs) + s.compactedRuns

TotalNodeResults(s) == Len(s.results) + s.compactedResults

TotalEvidence(s) == Len(s.evidence) + s.compactedEvidence
================================================================================
