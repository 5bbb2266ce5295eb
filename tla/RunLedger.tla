------------------------------- MODULE RunLedger -------------------------------
(***************************************************************************)
(* The workers of one Attempt writing its status through                   *)
(* patchAttemptStatus: a fresh read, the mutation and the compaction in    *)
(* memory, and a patch that carries the resourceVersion of the read,       *)
(* retried on conflict.  A merge patch replaces whole arrays, so without   *)
(* the precondition a writer would put back the lists it read.             *)
(*                                                                         *)
(* A progress sample leaves the lists alone and only moves the             *)
(* resourceVersion; it stands for every other writer of the status.        *)
(***************************************************************************)
EXTENDS AtomicLedger

CONSTANT MaxTries   \* retry.DefaultBackoff.Steps

ASSUME TriesAssumption == MaxTries \in Nat \ {0}

VARIABLES
  version,    \* the object's resourceVersion
  copy,       \* copy[r]: the read a write in progress is based on
  recorded,   \* history: the names, keys and references ever written
  overtaken   \* history: compaction dropped an entry of a run in flight

vars == <<status, worker, version, copy, recorded, overtaken>>

Copy == [held : BOOLEAN, version : Nat, status : Status, tries : 0..MaxTries]

NoCopy == [held |-> FALSE, version |-> 0, status |-> EmptyStatus, tries |-> 0]

Recorded ==
  [runs : SUBSET Run, keys : SUBSET (Node \X Run), refs : SUBSET Reference]

Init ==
  /\ AtomicInit
  /\ version = 0
  /\ copy = [r \in Run |-> NoCopy]
  /\ recorded = [runs |-> {}, keys |-> {}, refs |-> {}]
  /\ overtaken = FALSE

\* The worker's own steps, between its writes.
Work(r) ==
  /\ WorkStep(r)
  /\ copy' = [copy EXCEPT ![r] = NoCopy]
  /\ UNCHANGED <<status, version, recorded, overtaken>>

Get(r) ==
  /\ Waiting(r)
  /\ ~copy[r].held
  /\ copy' = [copy EXCEPT ![r] = [held |-> TRUE, version |-> version,
                                  status |-> status,
                                  tries |-> copy[r].tries]]
  /\ UNCHANGED <<status, worker, version, recorded, overtaken>>

\* The write returns to its caller.
Return(r) ==
  /\ worker' = [worker EXCEPT ![r] = Proceed(@)]
  /\ copy' = [copy EXCEPT ![r] = NoCopy]

\* Mutant: a plain merge patch, without the precondition.
PatchesUnlocked(r) == TRUE

\* MergeFromWithOptimisticLock: the API server compares resourceVersions.
Current(r) == copy[r].version = version

Names(s) == {s.runs[i].name : i \in DOMAIN s.runs}

Keys(s) == {<<s.results[i].node, s.results[i].run>> : i \in DOMAIN s.results}

\* The runs that will write again, once r's present write is through.
InFlight(r) ==
  {q \in Run : /\ worker[q].pc \in {"running", "ending"}
               /\ q = r => worker[q].pc = "running"}

Written(r) ==
  LET w    == worker[r].pending
      envs == CASE w.kind \in {"start", "progress"} -> {}
                [] w.kind = "node" -> {w.env}
                [] w.kind = "outcome" -> {w.envs[i] : i \in DOMAIN w.envs}
  IN  [runs |-> IF w.kind \in {"start", "outcome"} THEN {r} ELSE {},
       keys |-> {<<e.node, e.run>> : e \in envs},
       refs |-> IF w.kind = "outcome"
                THEN {e.ref : e \in envs} \ {NoReference} ELSE {}]

Patch(r) ==
  LET mutated == Mutate(copy[r].status, r, worker[r].pending)
      next    == compactStatus(mutated)
  IN
  /\ Waiting(r)
  /\ copy[r].held
  /\ Current(r)
  /\ status' = next
  /\ version' = version + 1
  /\ recorded' = [runs |-> recorded.runs \cup Written(r).runs,
                  keys |-> recorded.keys \cup Written(r).keys,
                  refs |-> recorded.refs \cup Written(r).refs]
  /\ overtaken' = \/ overtaken
                  \/ (Names(mutated) \ Names(next)) \cap InFlight(r) # {}
                  \/ \E k \in Keys(mutated) \ Keys(next) : k[2] \in InFlight(r)
  /\ Return(r)

\* A conflict reads again, until the backoff has no steps left.
Conflict(r) ==
  /\ Waiting(r)
  /\ copy[r].held
  /\ ~Current(r)
  /\ IF copy[r].tries + 1 < MaxTries
     THEN /\ copy' = [copy EXCEPT ![r] = [held |-> FALSE, version |-> 0,
                                          status |-> EmptyStatus,
                                          tries |-> copy[r].tries + 1]]
          /\ UNCHANGED worker
     ELSE Return(r)
  /\ UNCHANGED <<status, version, recorded, overtaken>>

\* Any other error of the read or the patch ends the write.
Fail(r) ==
  /\ Waiting(r)
  /\ Return(r)
  /\ UNCHANGED <<status, version, recorded, overtaken>>

Next ==
  \E r \in Run : Work(r) \/ Get(r) \/ Patch(r) \/ Conflict(r) \/ Fail(r)

Spec == Init /\ [][Next]_vars

--------------------------------------------------------------------------------
(***************************************************************************)
(* The shape of the state, and the size of what the API server holds: each *)
(* list is inside its window after every write, the envelopes inside their *)
(* byte budget or at its floor, so that no patch grows past what etcd      *)
(* accepts by their number.                                                *)
(***************************************************************************)
TypeOK ==
  /\ status \in Status
  /\ version \in Nat
  /\ worker \in [Run -> Worker]
  /\ copy \in [Run -> Copy]
  /\ recorded \in Recorded
  /\ overtaken \in BOOLEAN

(***************************************************************************)
(* Every write takes effect at one instant on the status as it is then, or *)
(* not at all, however the reads and patches of the workers interleave:    *)
(* no run record, envelope or reference another worker wrote is put back.  *)
(***************************************************************************)
WritesAreAtomic == AtomicSpec

\* The lists are inside their windows, on every write path.
Windowed ==
  /\ Len(status.runs) <= MaxStatusRuns
  /\ Len(status.evidence) <= MaxStatusEvidence
  /\ Len(status.results) <= MaxStatusNodeResults
  /\ \/ Bytes(status.results) <= MaxStatusBytes
     \/ Len(status.results) <= MinTailEnvelopes

(***************************************************************************)
(* Compaction bounds the lists and loses no count: the totals shown        *)
(* for an Attempt (kept entries plus dropped ones) count                   *)
(* every run and every (node, run) once, through retries, re-recorded      *)
(* envelopes and compaction, as long as compaction has not dropped an      *)
(* entry of a run that was still to write it again.                        *)
(***************************************************************************)
TotalsExact ==
  /\ Windowed
  /\ ~overtaken => /\ TotalRuns(status) = Cardinality(recorded.runs)
                   /\ TotalNodeResults(status) = Cardinality(recorded.keys)

(***************************************************************************)
(* "Total ever = len(Evidence) + CompactedEvidence": the total counts each *)
(* reference once.  appendUniqueEvidence looks for duplicates in the kept  *)
(* tail only, so a reference that was dropped and comes back counts twice. *)
(***************************************************************************)
EvidenceTotalExact ==
  TotalEvidence(status) = Cardinality(recorded.refs)
================================================================================
