----------------------------- MODULE Records_proofs ----------------------------
(***************************************************************************)
(* What a run leaves on its Attempt and what a page shows of it.           *)
(*                                                                         *)
(* RunLedger: the optimistic-locked write keeps the promise of             *)
(* AtomicLedger, for any number of workers, any windows and any number of  *)
(* retries.  The invariant says what the precondition of the patch buys: a *)
(* copy held by a write in progress is not from the future, and if its     *)
(* version is still the object's then so is its status.                    *)
(* On it rest the totals: each list has one entry for a key, and what      *)
(* compaction dropped belongs to runs that are over and was counted.       *)
(*                                                                         *)
(* LivePage: what was announced is shown or woken for, for any runs,       *)
(* channel capacity and wire.                                              *)
(***************************************************************************)
EXTENDS RunLedger, LivePage, FiniteSetTheorems, TLAPS

Honest(r) ==
  copy[r].held =>
    /\ copy[r].version \in Nat
    /\ copy[r].version <= version
    /\ copy[r].version = version => copy[r].status = status

CopiesHonest ==
  /\ version \in Nat
  /\ copy = [r \in Run |-> copy[r]]
  /\ \A r \in Run : Honest(r)

\* Nothing is held at the start.
LEMMA HonestInit == Init => CopiesHonest
<1> SUFFICES ASSUME Init PROVE CopiesHonest
  OBVIOUS
<1>1. version \in Nat /\ copy = [r \in Run |-> copy[r]]
  BY DEF Init
<1>2. ASSUME NEW r \in Run PROVE ~copy[r].held
  BY DEF Init, NoCopy
<1> QED BY <1>1, <1>2 DEF CopiesHonest, Honest

\* Replacing one copy by one that is not held leaves the others as they are.
LEMMA HonestReset ==
  ASSUME CopiesHonest, NEW r \in Run, NEW c, ~c.held,
         copy' = [copy EXCEPT ![r] = c],
         UNCHANGED <<status, version>> \/ version' = version + 1
  PROVE  CopiesHonest'
<1>1. version' \in Nat /\ version \in Nat /\ version <= version'
  BY DEF CopiesHonest
<1>2. copy' = [q \in Run |-> copy'[q]]
  BY DEF CopiesHonest
<1>3. ASSUME NEW q \in Run PROVE Honest(q)'
  <2>1. CASE q = r
    <3>1. copy'[q] = c
      BY <2>1 DEF CopiesHonest
    <3> QED BY <3>1 DEF Honest
  <2>2. CASE q # r
    <3>1. copy'[q] = copy[q]
      BY <2>2 DEF CopiesHonest
    <3>2. Honest(q)
      BY DEF CopiesHonest
    <3>3. CASE UNCHANGED <<status, version>>
      BY <3>1, <3>2, <3>3 DEF Honest
    <3>4. CASE version' = version + 1
      <4> SUFFICES ASSUME copy[q].held
                   PROVE  /\ copy[q].version \in Nat
                          /\ copy[q].version <= version'
                          /\ copy[q].version # version'
        BY <3>1 DEF Honest
      <4>1. copy[q].version \in Nat /\ copy[q].version <= version
        BY <3>2 DEF Honest
      <4> QED BY <1>1, <3>4, <4>1
    <3> QED BY <3>3, <3>4
  <2> QED BY <2>1, <2>2
<1> QED BY <1>1, <1>2, <1>3 DEF CopiesHonest

\* Every step keeps the copies honest: a patch moves the version past every
\* copy another write holds.
LEMMA HonestStep == CopiesHonest /\ [Next]_vars => CopiesHonest'
<1> SUFFICES ASSUME CopiesHonest, [Next]_vars PROVE CopiesHonest'
  OBVIOUS
<1>0. ~NoCopy.held
  BY DEF NoCopy
<1>1. ASSUME NEW r \in Run, Work(r) PROVE CopiesHonest'
  BY <1>0, <1>1, HonestReset DEF Work
<1>2. ASSUME NEW r \in Run, Get(r) PROVE CopiesHonest'
  <2> DEFINE c == [held |-> TRUE, version |-> version,
                   status |-> status, tries |-> copy[r].tries]
  <2>1. UNCHANGED <<status, version>> /\ copy' = [copy EXCEPT ![r] = c]
    BY <1>2 DEF Get
  <2>2. c.version = version /\ c.status = status
    OBVIOUS
  <2> HIDE DEF c
  <2>3. ASSUME NEW q \in Run PROVE Honest(q)'
    <3>1. CASE q = r
      <4>1. copy'[q] = c
        BY <2>1, <3>1 DEF CopiesHonest
      <4>2. version \in Nat
        BY DEF CopiesHonest
      <4> QED BY <2>1, <2>2, <4>1, <4>2 DEF Honest
    <3>2. CASE q # r
      BY <2>1, <3>2 DEF CopiesHonest, Honest
    <3> QED BY <3>1, <3>2
  <2> QED BY <2>1, <2>3 DEF CopiesHonest
<1>3. ASSUME NEW r \in Run, Patch(r) PROVE CopiesHonest'
  <2>1. version' = version + 1
    BY <1>3 DEF Patch
  <2>2. copy' = [copy EXCEPT ![r] = NoCopy]
    BY <1>3 DEF Patch, Return
  <2> QED BY <1>0, <2>1, <2>2, HonestReset
<1>4. ASSUME NEW r \in Run, Conflict(r) PROVE CopiesHonest'
  <2> DEFINE c == [held |-> FALSE, version |-> 0, status |-> EmptyStatus,
                   tries |-> copy[r].tries + 1]
  <2>1. UNCHANGED <<status, version>>
    BY <1>4 DEF Conflict
  <2>2. copy' = [copy EXCEPT ![r] = c] \/ copy' = [copy EXCEPT ![r] = NoCopy]
    BY <1>4 DEF Conflict, Return
  <2>3. ~c.held
    OBVIOUS
  <2> HIDE DEF c
  <2> QED BY <1>0, <2>1, <2>2, <2>3, HonestReset
<1>5. ASSUME NEW r \in Run, Fail(r) PROVE CopiesHonest'
  BY <1>0, <1>5, HonestReset DEF Fail, Return
<1>6. CASE UNCHANGED vars
  BY <1>6 DEF vars, CopiesHonest, Honest
<1> QED BY <1>1, <1>2, <1>3, <1>4, <1>5, <1>6 DEF Next

\* A step of a worker between its writes is one of the promise's.
LEMMA WorkMaps ==
  ASSUME NEW r \in Run, Work(r)
  PROVE  AtomicNext
  BY DEF Work, AtomicNext

\* The patch that commits applies the mutation to the status as it is.
LEMMA PatchApplies ==
  ASSUME CopiesHonest, NEW r \in Run, Patch(r)
  PROVE  Apply(r)
<1>1. copy[r].status = status
  BY DEF CopiesHonest, Honest, Patch, Current
<1>2. status' = compactStatus(Mutate(copy[r].status, r, worker[r].pending))
  BY DEF Patch
<1>3. /\ Waiting(r)
      /\ worker' = [worker EXCEPT ![r] = Proceed(@)]
  BY DEF Patch, Return
<1> QED BY <1>1, <1>2, <1>3 DEF Apply

\* A write that ends without committing leaves the status alone.
LEMMA ReturnDrops ==
  ASSUME NEW r \in Run, Waiting(r), Return(r), UNCHANGED status
  PROVE  Drop(r)
  BY DEF Return, Drop

(***************************************************************************)
(* patchAttemptStatus is atomic: for every set of workers, whatever the    *)
(* windows and the retry limit, each write takes effect at one instant on  *)
(* the status as it is then, or not at all.                                *)
(***************************************************************************)
THEOREM AtomicWrites == Spec => WritesAreAtomic
<1>1. Init => AtomicInit
  BY DEF Init, AtomicInit
<1>2. CopiesHonest /\ [Next]_vars => [AtomicNext]_atomicVars
  <2> SUFFICES ASSUME CopiesHonest, [Next]_vars
               PROVE  AtomicNext \/ UNCHANGED atomicVars
    OBVIOUS
  <2>1. ASSUME NEW r \in Run, Work(r) PROVE AtomicNext
    BY <2>1, WorkMaps
  <2>2. ASSUME NEW r \in Run, Get(r) PROVE UNCHANGED atomicVars
    BY <2>2 DEF Get, atomicVars
  <2>3. ASSUME NEW r \in Run, Patch(r) PROVE AtomicNext
    BY <2>3, PatchApplies DEF AtomicNext
  <2>4. ASSUME NEW r \in Run, Conflict(r)
        PROVE  AtomicNext \/ UNCHANGED atomicVars
    <3>1. CASE Return(r)
      BY <2>4, <3>1, ReturnDrops DEF Conflict, AtomicNext
    <3>2. CASE UNCHANGED worker
      BY <2>4, <3>2 DEF Conflict, atomicVars
    <3> QED BY <2>4, <3>1, <3>2 DEF Conflict
  <2>5. ASSUME NEW r \in Run, Fail(r) PROVE AtomicNext
    BY <2>5, ReturnDrops DEF Fail, AtomicNext
  <2>6. CASE UNCHANGED vars
    BY <2>6 DEF vars, atomicVars
  <2> QED BY <2>1, <2>2, <2>3, <2>4, <2>5, <2>6 DEF Next
<1>3. QED
  BY <1>1, <1>2, HonestInit, HonestStep, PTL DEF Spec, WritesAreAtomic, AtomicSpec

--------------------------------------------------------------------------------
(***************************************************************************)
(* The lists of the status and their keys.                                 *)
(***************************************************************************)
\* The keys of the two keyed lists, in their order.
RunNames(q) == [i \in 1..Len(q) |-> q[i].name]
EnvKeys(q) == [i \in 1..Len(q) |-> <<q[i].node, q[i].run>>]

Distinct(ks) == \A i, j \in 1..Len(ks) : ks[i] = ks[j] => i = j

Members(ks) == {ks[i] : i \in 1..Len(ks)}

\* Every nonempty set of naturals has a least element: the induction the lists
\* need, in the form the provers can use.
LEMMA LeastNat ==
  ASSUME NEW T \in SUBSET Nat, T # {}
  PROVE  \E x \in T : \A y \in T : x <= y
<1> DEFINE R == {ss \in Nat \X Nat : ss[1] < ss[2]}
<1>1. IsWellFoundedOn(R, Nat)
  BY NatLessThanWellFounded DEF OpToRel
<1>2. \E x \in T : \A y \in T : ~(<<y, x>> \in R)
  <2> HIDE DEF R
  <2> QED BY <1>1, WFMin
<1>3. PICK x \in T : \A y \in T : ~(<<y, x>> \in R)
  BY <1>2
<1>4. ASSUME NEW y \in T PROVE x <= y
  <2>1. <<y, x>> \in Nat \X Nat /\ ~(<<y, x>>[1] < <<y, x>>[2])
    BY <1>3
  <2> QED BY <2>1
<1> QED BY <1>4

LEMMA FirstFacts ==
  ASSUME NEW S \in SUBSET Nat, S # {}
  PROVE  First(S) \in S /\ \A j \in S : First(S) <= j
  BY LeastNat DEF First

\* A list of distinct keys is as long as the set of them is large.
LEMMA DistinctCount ==
  ASSUME NEW V, NEW ks \in Seq(V), Distinct(ks)
  PROVE  IsFiniteSet(Members(ks)) /\ Cardinality(Members(ks)) = Len(ks)
<1>1. Len(ks) \in Nat
  OBVIOUS
<1>2. ks \in Bijection(1..Len(ks), Members(ks))
  BY DEF Distinct, Members, Bijection, Injection, Surjection, IsInjective
<1>3. ExistsBijection(1..Len(ks), Members(ks))
  BY <1>2 DEF ExistsBijection
<1> QED  BY <1>1, <1>3, FS_NatBijection, FS_CountingElements

LEMMA TailFacts ==
  ASSUME NEW V, NEW q \in Seq(V), NEW d \in 0..Len(q)
  PROVE  /\ TailAfter(q, d) \in Seq(V) /\ Len(TailAfter(q, d)) = Len(q) - d
         /\ \A i \in 1..(Len(q) - d) : TailAfter(q, d)[i] = q[i + d]
  BY DEF TailAfter

\* Dropping a prefix of a list of distinct keys drops as many keys.
LEMMA TailKeys ==
  ASSUME NEW V, NEW ks \in Seq(V), Distinct(ks), NEW d \in 0..Len(ks),
         NEW t \in Seq(V), Len(t) = Len(ks) - d,
         \A i \in 1..(Len(ks) - d) : t[i] = ks[i + d]
  PROVE  /\ Distinct(t) /\ Members(t) \subseteq Members(ks)
         /\ IsFiniteSet(Members(ks) \ Members(t))
         /\ Cardinality(Members(ks) \ Members(t)) = d
<1>1. Len(ks) \in Nat /\ d \in Nat /\ d <= Len(ks)
  OBVIOUS
<1>2. \A i \in 1..(Len(ks) - d) : i + d \in 1..Len(ks)
  BY <1>1
<1>3. Distinct(t)
  <2> SUFFICES ASSUME NEW i \in 1..Len(t), NEW j \in 1..Len(t), t[i] = t[j]
               PROVE  i = j
    BY DEF Distinct
  <2>1. i + d \in 1..Len(ks) /\ j + d \in 1..Len(ks) /\ ks[i + d] = ks[j + d]
    BY <1>2
  <2>2. i + d = j + d
    BY <2>1 DEF Distinct
  <2> QED  BY <1>1, <2>2
<1>4. Members(t) \subseteq Members(ks)
  BY <1>2 DEF Members
<1>5. /\ IsFiniteSet(Members(ks)) /\ Cardinality(Members(ks)) = Len(ks)
      /\ Cardinality(Members(t)) = Len(ks) - d
  <2>1. IsFiniteSet(Members(ks)) /\ Cardinality(Members(ks)) = Len(ks)
    BY DistinctCount
  <2>2. Cardinality(Members(t)) = Len(t)
    BY <1>3, DistinctCount
  <2> QED  BY <2>1, <2>2
<1>6. Members(ks) \cap Members(t) = Members(t)
  BY <1>4
<1>7. IsFiniteSet(Members(ks) \ Members(t))
      /\ Cardinality(Members(ks) \ Members(t)) = Len(ks) - (Len(ks) - d)
  <2> DEFINE A == Members(ks)
             B == Members(t)
  <2>1. IsFiniteSet(A) /\ A \cap B = B /\ Cardinality(A) = Len(ks)
        /\ Cardinality(B) = Len(ks) - d
    BY <1>5, <1>6
  <2> HIDE DEF A, B
  <2>2. IsFiniteSet(A \ B) /\ Cardinality(A \ B) = Cardinality(A) - Cardinality(A \cap B)
    BY <2>1, FS_Difference
  <2>3. IsFiniteSet(A \ B) /\ Cardinality(A \ B) = Len(ks) - (Len(ks) - d)
    BY <2>1, <2>2
  <2> QED  BY <2>3 DEF A, B
<1> QED  BY <1>1, <1>3, <1>4, <1>7

\* A new key goes to the end.
LEMMA AppendKeys ==
  ASSUME NEW V, NEW ks \in Seq(V), Distinct(ks), NEW k \in V, k \notin Members(ks),
         NEW t \in Seq(V), Len(t) = Len(ks) + 1, t[Len(ks) + 1] = k,
         \A i \in 1..Len(ks) : t[i] = ks[i]
  PROVE  Distinct(t) /\ Members(t) = Members(ks) \cup {k}
<1>1. Len(ks) \in Nat
  OBVIOUS
<1>2. \A i \in 1..Len(t) : i \in 1..Len(ks) \/ i = Len(ks) + 1
  BY <1>1
<1>3. \A i \in 1..Len(ks) : i \in 1..Len(t) /\ ks[i] # k
  BY <1>1 DEF Members
<1>4. Len(ks) + 1 \in 1..Len(t)
  BY <1>1
<1>5. Distinct(t)
  BY <1>2, <1>3 DEF Distinct
<1>6. Members(t) = Members(ks) \cup {k}
  BY <1>2, <1>3, <1>4 DEF Members
<1> QED  BY <1>5, <1>6

\* upsertNodeResult keeps one envelope for each (node, run).
LEMMA UpsertEnvelope ==
  ASSUME NEW q \in Seq(Envelope), Distinct(EnvKeys(q)), NEW e \in Envelope
  PROVE  LET t == upsertNodeResult(q, e)
         IN  /\ t \in Seq(Envelope) /\ Distinct(EnvKeys(t))
             /\ Members(EnvKeys(t)) = Members(EnvKeys(q)) \cup {<<e.node, e.run>>}
<1> DEFINE same == {i \in DOMAIN q : q[i].node = e.node /\ q[i].run = e.run}
           t == upsertNodeResult(q, e)
           k == <<e.node, e.run>>
<1>0. Len(q) \in Nat /\ DOMAIN q = 1..Len(q) /\ \A i \in 1..Len(q) : q[i] \in Envelope
  OBVIOUS
<1>e. \A x \in Envelope : <<x.node, x.run>> \in Node \X Run
  BY DEF Envelope
<1>k. k \in Node \X Run /\ \A i \in 1..Len(q) : <<q[i].node, q[i].run>> \in Node \X Run
  BY <1>0, <1>e
<1>ks. EnvKeys(q) \in Seq(Node \X Run) /\ Len(EnvKeys(q)) = Len(q)
       /\ \A i \in 1..Len(q) : EnvKeys(q)[i] = <<q[i].node, q[i].run>>
  BY <1>0, <1>k DEF EnvKeys
<1>1. CASE same = {}
  <2>1. t = Append(q, e)
    BY <1>1 DEF upsertNodeResult
  <2>2. t \in Seq(Envelope) /\ Len(t) = Len(q) + 1 /\ t[Len(q) + 1] = e
        /\ \A i \in 1..Len(q) : t[i] = q[i]
    BY <2>1
  <2> HIDE DEF t
  <2>3. \A i \in 1..Len(t) : <<t[i].node, t[i].run>> \in Node \X Run
    <3>1. \A i \in 1..Len(t) : t[i] \in Envelope
      BY <2>2
    <3> QED  BY <1>e, <3>1
  <2>4. EnvKeys(t) \in Seq(Node \X Run) /\ Len(EnvKeys(t)) = Len(q) + 1
        /\ \A i \in 1..(Len(q) + 1) : EnvKeys(t)[i] = <<t[i].node, t[i].run>>
    BY <1>0, <2>2, <2>3 DEF EnvKeys
  <2>5. EnvKeys(t)[Len(q) + 1] = k /\ \A i \in 1..Len(q) : EnvKeys(t)[i] = EnvKeys(q)[i]
    <3>1. Len(q) + 1 \in 1..(Len(q) + 1) /\ \A i \in 1..Len(q) : i \in 1..(Len(q) + 1)
      BY <1>0
    <3>2. EnvKeys(t)[Len(q) + 1] = k
      BY <2>2, <2>4, <3>1
    <3>3. ASSUME NEW i \in 1..Len(q)  PROVE  EnvKeys(t)[i] = EnvKeys(q)[i]
      BY <1>ks, <2>2, <2>4, <3>1
    <3> QED  BY <3>2, <3>3
  <2>6. k \notin Members(EnvKeys(q))
    BY <1>0, <1>1, <1>ks DEF Members
  <2> HIDE DEF k
  <2>7. Distinct(EnvKeys(t)) /\ Members(EnvKeys(t)) = Members(EnvKeys(q)) \cup {k}
    BY <1>k, <1>ks, <2>4, <2>5, <2>6, AppendKeys
  <2> QED  BY <2>2, <2>7 DEF t, k
<1>2. CASE same # {}
  <2>1. First(same) \in same
    <3>1. same \in SUBSET Nat
      BY <1>0
    <3> HIDE DEF same
    <3> QED  BY <1>2, <3>1, FirstFacts
  <2>2. PICK f \in same : t = [q EXCEPT ![f] = e]
    BY <1>2, <2>1 DEF upsertNodeResult
  <2>3. f \in 1..Len(q) /\ q[f].node = e.node /\ q[f].run = e.run
    BY <1>0
  <2>4. t \in Seq(Envelope) /\ Len(t) = Len(q) /\ t[f] = e
        /\ \A i \in 1..Len(q) : i # f => t[i] = q[i]
    BY <2>2, <2>3
  <2> HIDE DEF t
  <2>5. \A i \in 1..Len(q) : t[i].node = q[i].node /\ t[i].run = q[i].run
    BY <2>3, <2>4
  <2>6. EnvKeys(t) = EnvKeys(q)
    BY <2>4, <2>5 DEF EnvKeys
  <2>7. k \in Members(EnvKeys(q))
    BY <1>ks, <2>3 DEF Members
  <2> QED  BY <2>4, <2>6, <2>7 DEF t, k
<1> QED  BY <1>1, <1>2

\* upsertRun keeps one record for each run.
LEMMA UpsertRecord ==
  ASSUME NEW q \in Seq(RunRecord), Distinct(RunNames(q)), NEW e \in RunRecord
  PROVE  LET t == upsertRun(q, e)
         IN  /\ t \in Seq(RunRecord) /\ Distinct(RunNames(t))
             /\ Members(RunNames(t)) = Members(RunNames(q)) \cup {e.name}
<1> DEFINE same == {i \in DOMAIN q : q[i].name = e.name}
           t == upsertRun(q, e)
<1>0. Len(q) \in Nat /\ DOMAIN q = 1..Len(q) /\ \A i \in 1..Len(q) : q[i] \in RunRecord
  OBVIOUS
<1>e. \A x \in RunRecord : x.name \in Run
  BY DEF RunRecord
<1>k. e.name \in Run /\ \A i \in 1..Len(q) : q[i].name \in Run
  BY <1>0, <1>e
<1>ks. RunNames(q) \in Seq(Run) /\ Len(RunNames(q)) = Len(q)
       /\ \A i \in 1..Len(q) : RunNames(q)[i] = q[i].name
  BY <1>0, <1>k DEF RunNames
<1>1. CASE same = {}
  <2>1. t = Append(q, e)
    BY <1>1 DEF upsertRun
  <2>2. t \in Seq(RunRecord) /\ Len(t) = Len(q) + 1 /\ t[Len(q) + 1] = e
        /\ \A i \in 1..Len(q) : t[i] = q[i]
    BY <2>1
  <2> HIDE DEF t
  <2>3. \A i \in 1..Len(t) : t[i].name \in Run
    <3>1. \A i \in 1..Len(t) : t[i] \in RunRecord
      BY <2>2
    <3> QED  BY <1>e, <3>1
  <2>4. RunNames(t) \in Seq(Run) /\ Len(RunNames(t)) = Len(q) + 1
        /\ \A i \in 1..(Len(q) + 1) : RunNames(t)[i] = t[i].name
    BY <1>0, <2>2, <2>3 DEF RunNames
  <2>5. RunNames(t)[Len(q) + 1] = e.name
        /\ \A i \in 1..Len(q) : RunNames(t)[i] = RunNames(q)[i]
    BY <1>0, <1>ks, <2>2, <2>4
  <2>6. e.name \notin Members(RunNames(q))
    BY <1>0, <1>1, <1>ks DEF Members
  <2>7. Distinct(RunNames(t)) /\ Members(RunNames(t)) = Members(RunNames(q)) \cup {e.name}
    BY <1>k, <1>ks, <2>4, <2>5, <2>6, AppendKeys
  <2> QED  BY <2>2, <2>7 DEF t
<1>2. CASE same # {}
  <2>1. First(same) \in same
    <3>1. same \in SUBSET Nat
      BY <1>0
    <3> HIDE DEF same
    <3> QED  BY <1>2, <3>1, FirstFacts
  <2>2. PICK f \in same : t = [q EXCEPT ![f] = e]
    BY <1>2, <2>1 DEF upsertRun
  <2>3. f \in 1..Len(q) /\ q[f].name = e.name
    BY <1>0
  <2>4. t \in Seq(RunRecord) /\ Len(t) = Len(q) /\ t[f] = e
        /\ \A i \in 1..Len(q) : i # f => t[i] = q[i]
    BY <2>2, <2>3
  <2> HIDE DEF t
  <2>5. \A i \in 1..Len(q) : t[i].name = q[i].name
    BY <2>3, <2>4
  <2>6. RunNames(t) = RunNames(q)
    BY <2>4, <2>5 DEF RunNames
  <2>7. e.name \in Members(RunNames(q))
    BY <1>ks, <2>3 DEF Members
  <2> QED  BY <2>4, <2>6, <2>7 DEF t
<1> QED  BY <1>1, <1>2

--------------------------------------------------------------------------------
(***************************************************************************)
(* Induction and recursion over the first n naturals, with sets and        *)
(* functions in the place of operators.                                    *)
(***************************************************************************)
LEMMA UpTo ==
  ASSUME NEW n \in Nat, NEW S, 0 \in S, \A i \in 1..n : i - 1 \in S => i \in S
  PROVE  \A i \in 0..n : i \in S
<1> DEFINE T == {i \in 0..n : i \notin S}
<1>1. SUFFICES ASSUME T # {} PROVE FALSE
  OBVIOUS
<1>2. T \in SUBSET Nat
  OBVIOUS
<1>3. PICK m \in T : \A y \in T : m <= y
  <2> HIDE DEF T
  <2> QED  BY <1>1, <1>2, LeastNat
<1>4. m \in 0..n /\ m \notin S /\ m # 0
  OBVIOUS
<1>5. m \in 1..n /\ m - 1 \in 0..n /\ ~(m <= m - 1)
  BY <1>4
<1>6. m - 1 \notin T
  <2> HIDE DEF T
  <2> QED  BY <1>3, <1>5
<1>7. m - 1 \in S
  BY <1>5, <1>6
<1> QED  BY <1>4, <1>5, <1>7

\* A recursion over the first n naturals has a solution.
Solvable(n, V, v, F) ==
  \E f \in [0..n -> V] : f[0] = v /\ \A i \in 1..n : f[i] = F[<<i, f[i - 1]>>]

LEMMA Iterated ==
  ASSUME NEW n \in Nat, NEW V, NEW v \in V, NEW F \in [(1..n) \X V -> V]
  PROVE  Solvable(n, V, v, F)
<1> DEFINE Is(f, m) == f[0] = v /\ \A i \in 1..m : f[i] = F[<<i, f[i - 1]>>]
           S == {m \in 0..n : \E f \in [0..m -> V] : Is(f, m)}
<1>1. 0 \in S
  <2> DEFINE g == [i \in 0..0 |-> v]
  <2>1. g \in [0..0 -> V] /\ Is(g, 0)
    OBVIOUS
  <2> HIDE DEF g
  <2>2. 0 \in 0..n
    OBVIOUS
  <2> QED  BY <2>1, <2>2
<1>2. ASSUME NEW m \in 1..n, m - 1 \in S  PROVE  m \in S
  <2>1. PICK g \in [0..(m - 1) -> V] : Is(g, m - 1)
    BY <1>2
  <2>0. m \in Nat /\ m - 1 \in 0..(m - 1) /\ m \in 0..m /\ m \in 0..n
    OBVIOUS
  <2> DEFINE x == F[<<m, g[m - 1]>>]
             f == [i \in 0..m |-> IF i = m THEN x ELSE g[i]]
  <2>2. x \in V
    <3>1. g[m - 1] \in V
      BY <2>0
    <3>2. <<m, g[m - 1]>> \in (1..n) \X V
      BY <3>1
    <3> QED  BY <3>2
  <2>3. \A i \in 0..m : i \in 0..(m - 1) \/ i = m
    BY <2>0
  <2>4. \A i \in 0..(m - 1) : i \in 0..m /\ i # m /\ g[i] \in V
    BY <2>0
  <2>5. \A i \in 1..m : /\ i - 1 \in 0..(m - 1)
                        /\ i \in 1..(m - 1) \/ i = m
                        /\ i \in 0..m
    BY <2>0
  <2>6. 0 \in 0..(m - 1) /\ 0 \in 0..m /\ \A i \in 1..(m - 1) : i \in 0..(m - 1)
    BY <2>0
  <2>10. x = F[<<m, g[m - 1]>>]
    OBVIOUS
  <2> HIDE DEF x
  <2>7. f \in [0..m -> V]
    BY <2>2, <2>3, <2>4
  <2>8. (\A i \in 0..(m - 1) : f[i] = g[i]) /\ f[m] = x
    BY <2>0, <2>4
  <2> HIDE DEF f
  <2>9. Is(f, m)
    <3>1. f[0] = v
      BY <2>1, <2>6, <2>8
    <3>2. ASSUME NEW i \in 1..m  PROVE  f[i] = F[<<i, f[i - 1]>>]
      <4>1. f[i - 1] = g[i - 1]
        BY <2>5, <2>8
      <4>2. CASE i = m
        BY <2>8, <2>10, <4>1, <4>2
      <4>3. CASE i \in 1..(m - 1)
        BY <2>1, <2>6, <2>8, <4>1, <4>3
      <4> QED  BY <2>5, <4>2, <4>3
    <3> QED  BY <3>1, <3>2
  <2> QED  BY <2>0, <2>7, <2>9
<1>3. \A m \in 0..n : m \in S
  <2> HIDE DEF S
  <2> QED  BY <1>1, <1>2, UpTo
<1>4. n \in S
  <2> HIDE DEF S
  <2> QED  BY <1>3
<1> QED  BY <1>4 DEF Solvable

--------------------------------------------------------------------------------
(***************************************************************************)
(* The mutations.  RecordRunOutcome upserts the run's envelopes one after  *)
(* the other.                                                              *)
(***************************************************************************)
\* The recursive functions of RecordRunOutcome, and of Bytes.
ResultsOf(q, envs) ==
  LET res[i \in 0..Len(envs)] == IF i = 0 THEN q ELSE upsertNodeResult(res[i - 1], envs[i])
  IN  res
EvidenceOf(q, envs) ==
  LET ev[i \in 0..Len(envs)] == IF i = 0 THEN q ELSE appendUniqueEvidence(ev[i - 1], envs[i].ref)
  IN  ev
SumOf(q) ==
  LET sum[i \in 0..Len(q)] == IF i = 0 THEN 0 ELSE sum[i - 1] + q[i].bytes
  IN  sum

LEMMA OutcomeUnfolds ==
  ASSUME NEW s, NEW r, NEW w
  PROVE  RecordRunOutcome(s, r, w) =
           [s EXCEPT !.runs = upsertRun(s.runs, [name |-> r, phase |-> w.phase]),
                     !.results = ResultsOf(s.results, w.envs)[Len(w.envs)],
                     !.evidence = EvidenceOf(s.evidence, w.envs)[Len(w.envs)]]
  BY DEF RecordRunOutcome, ResultsOf, EvidenceOf

LEMMA BytesUnfolds ==
  ASSUME NEW q
  PROVE  Bytes(q) = SumOf(q)[Len(q)]
  BY DEF Bytes, SumOf

\* The lists of envelopes with one entry for each key.
KeyedList == {t \in Seq(Envelope) : Distinct(EnvKeys(t))}

LEMMA ResultsDefined ==
  ASSUME NEW q \in KeyedList, NEW envs \in Seq(Envelope)
  PROVE  LET res == ResultsOf(q, envs)
         IN  res = [i \in 0..Len(envs) |-> IF i = 0 THEN q
                                           ELSE upsertNodeResult(res[i - 1], envs[i])]
<1>1. \E f : f = [i \in 0..Len(envs) |-> IF i = 0 THEN q
                                         ELSE upsertNodeResult(f[i - 1], envs[i])]
  <2> DEFINE n == Len(envs)
             F == [p \in (1..n) \X KeyedList |-> upsertNodeResult(p[2], envs[p[1]])]
  <2>1. n \in Nat /\ \A i \in 1..n : envs[i] \in Envelope
    OBVIOUS
  <2>2. \A t \in KeyedList, e \in Envelope : upsertNodeResult(t, e) \in KeyedList
    BY UpsertEnvelope DEF KeyedList
  <2> HIDE DEF n
  <2>3. F \in [(1..n) \X KeyedList -> KeyedList]
    BY <2>1, <2>2
  <2>4. \A i \in 1..n, t \in KeyedList : F[<<i, t>>] = upsertNodeResult(t, envs[i])
    OBVIOUS
  <2> HIDE DEF F
  <2>5. PICK f \in [0..n -> KeyedList] : f[0] = q /\ \A i \in 1..n : f[i] = F[<<i, f[i - 1]>>]
    <3>1. Solvable(n, KeyedList, q, F)
      BY <2>1, <2>3, Iterated
    <3> QED  BY <3>1 DEF Solvable
  <2>6. ASSUME NEW i \in 0..n
        PROVE  f[i] = IF i = 0 THEN q ELSE upsertNodeResult(f[i - 1], envs[i])
    <3>1. CASE i = 0
      BY <2>5, <3>1
    <3>2. CASE i # 0
      <4>1. i \in 1..n /\ i - 1 \in 0..n
        BY <2>1, <3>2
      <4>2. f[i - 1] \in KeyedList /\ f[i] = F[<<i, f[i - 1]>>]
        BY <2>5, <4>1
      <4> QED  BY <2>4, <3>2, <4>1, <4>2
    <3> QED  BY <3>1, <3>2
  <2>7. f = [i \in 0..n |-> IF i = 0 THEN q ELSE upsertNodeResult(f[i - 1], envs[i])]
    BY <2>5, <2>6
  <2> QED  BY <2>7 DEF n
<1> QED  BY <1>1 DEF ResultsOf

\* The envelopes of an outcome are upserted, all of them.
LEMMA ResultsFacts ==
  ASSUME NEW q \in KeyedList, NEW envs \in Seq(Envelope)
  PROVE  LET t == ResultsOf(q, envs)[Len(envs)]
         IN  /\ t \in KeyedList
             /\ Members(EnvKeys(t)) = Members(EnvKeys(q)) \cup Members(EnvKeys(envs))
<1> DEFINE n == Len(envs)
           res == ResultsOf(q, envs)
           Up(i) == {EnvKeys(envs)[j] : j \in 1..i}
           S == {i \in 0..n : /\ res[i] \in KeyedList
                              /\ Members(EnvKeys(res[i])) = Members(EnvKeys(q)) \cup Up(i)}
<1>1. n \in Nat /\ \A i \in 1..n : /\ envs[i] \in Envelope
                                   /\ EnvKeys(envs)[i] = <<envs[i].node, envs[i].run>>
  BY DEF EnvKeys
<1>2. \A i \in 0..n : res[i] = IF i = 0 THEN q ELSE upsertNodeResult(res[i - 1], envs[i])
  BY ResultsDefined
<1> HIDE DEF n, res
<1>3. 0 \in S
  <2>1. 0 \in 0..n /\ res[0] = q /\ Up(0) = {}
    BY <1>1, <1>2
  <2> QED  BY <2>1
<1>4. ASSUME NEW i \in 1..n, i - 1 \in S  PROVE  i \in S
  <2>1. i \in 0..n /\ i # 0 /\ i \in Nat
    BY <1>1
  <2>2. res[i] = upsertNodeResult(res[i - 1], envs[i]) /\ envs[i] \in Envelope
    BY <1>1, <1>2, <2>1
  <2>3. Up(i) = Up(i - 1) \cup {EnvKeys(envs)[i]}
    <3>1. \A j : j \in 1..i <=> j \in 1..(i - 1) \/ j = i
      BY <2>1
    <3> QED  BY <3>1
  <2>4. res[i - 1] \in Seq(Envelope) /\ Distinct(EnvKeys(res[i - 1]))
        /\ Members(EnvKeys(res[i - 1])) = Members(EnvKeys(q)) \cup Up(i - 1)
    BY <1>4 DEF KeyedList
  <2> HIDE DEF Up
  <2>5. res[i] \in Seq(Envelope) /\ Distinct(EnvKeys(res[i]))
        /\ Members(EnvKeys(res[i])) = Members(EnvKeys(res[i - 1])) \cup
                                        {<<envs[i].node, envs[i].run>>}
    BY <2>2, <2>4, UpsertEnvelope
  <2> QED  BY <1>1, <2>1, <2>3, <2>4, <2>5 DEF KeyedList
<1>5. \A i \in 0..n : i \in S
  <2> HIDE DEF S
  <2> QED  BY <1>1, <1>3, <1>4, UpTo
<1>6. n \in S
  <2> HIDE DEF S
  <2> QED  BY <1>1, <1>5
<1>7. Len(EnvKeys(envs)) = Len(envs)
  BY DEF EnvKeys
<1> QED  BY <1>6, <1>7 DEF n, res, Members

LEMMA EvidenceDefined ==
  ASSUME NEW q \in Seq(Reference), NEW envs \in Seq(Envelope)
  PROVE  LET ev == EvidenceOf(q, envs)
         IN  ev = [i \in 0..Len(envs) |-> IF i = 0 THEN q
                                          ELSE appendUniqueEvidence(ev[i - 1], envs[i].ref)]
<1>1. \E f : f = [i \in 0..Len(envs) |-> IF i = 0 THEN q
                                         ELSE appendUniqueEvidence(f[i - 1], envs[i].ref)]
  <2> DEFINE n == Len(envs)
             V == Seq(Reference)
             F == [p \in (1..n) \X V |-> appendUniqueEvidence(p[2], envs[p[1]].ref)]
  <2>1. n \in Nat /\ \A i \in 1..n : envs[i] \in Envelope
    OBVIOUS
  <2>2. \A t \in V, e \in Envelope : appendUniqueEvidence(t, e.ref) \in V
    BY DEF appendUniqueEvidence, Envelope
  <2>a. q \in V
    OBVIOUS
  <2> HIDE DEF n, V
  <2>3. F \in [(1..n) \X V -> V]
    BY <2>1, <2>2
  <2>4. \A i \in 1..n, t \in V : F[<<i, t>>] = appendUniqueEvidence(t, envs[i].ref)
    OBVIOUS
  <2> HIDE DEF F
  <2>5. PICK f \in [0..n -> V] : f[0] = q /\ \A i \in 1..n : f[i] = F[<<i, f[i - 1]>>]
    <3>1. Solvable(n, V, q, F)
      BY <2>1, <2>3, <2>a, Iterated
    <3> QED  BY <3>1 DEF Solvable
  <2>6. ASSUME NEW i \in 0..n
        PROVE  f[i] = IF i = 0 THEN q ELSE appendUniqueEvidence(f[i - 1], envs[i].ref)
    <3>1. CASE i = 0
      BY <2>5, <3>1
    <3>2. CASE i # 0
      <4>1. i \in 1..n /\ i - 1 \in 0..n
        BY <2>1, <3>2
      <4>2. f[i - 1] \in V /\ f[i] = F[<<i, f[i - 1]>>]
        BY <2>5, <4>1
      <4> QED  BY <2>4, <3>2, <4>1, <4>2
    <3> QED  BY <3>1, <3>2
  <2>7. f = [i \in 0..n |-> IF i = 0 THEN q ELSE appendUniqueEvidence(f[i - 1], envs[i].ref)]
    BY <2>5, <2>6
  <2> QED  BY <2>7 DEF n
<1> QED  BY <1>1 DEF EvidenceOf

LEMMA EvidenceType ==
  ASSUME NEW q \in Seq(Reference), NEW envs \in Seq(Envelope)
  PROVE  EvidenceOf(q, envs)[Len(envs)] \in Seq(Reference)
<1> DEFINE n == Len(envs)
           V == Seq(Reference)
           ev == EvidenceOf(q, envs)
           S == {i \in 0..n : ev[i] \in V}
<1>1. n \in Nat /\ \A i \in 1..n : envs[i] \in Envelope
  OBVIOUS
<1>2. \A i \in 0..n : ev[i] = IF i = 0 THEN q ELSE appendUniqueEvidence(ev[i - 1], envs[i].ref)
  BY EvidenceDefined
<1>3. \A t \in V, e \in Envelope : appendUniqueEvidence(t, e.ref) \in V
  BY DEF appendUniqueEvidence, Envelope
<1>4. q \in V
  OBVIOUS
<1> HIDE DEF n, ev, V
<1>5. 0 \in S
  BY <1>1, <1>2, <1>4
<1>6. ASSUME NEW i \in 1..n, i - 1 \in S  PROVE  i \in S
  <2>1. i \in 0..n /\ i # 0
    BY <1>1
  <2>2. ev[i] = appendUniqueEvidence(ev[i - 1], envs[i].ref) /\ envs[i] \in Envelope
    BY <1>1, <1>2, <2>1
  <2> QED  BY <1>3, <1>6, <2>1, <2>2
<1>7. \A i \in 0..n : i \in S
  <2> HIDE DEF S
  <2> QED  BY <1>1, <1>5, <1>6, UpTo
<1>8. n \in S
  <2> HIDE DEF S
  <2> QED  BY <1>1, <1>7
<1> QED  BY <1>8 DEF n, ev, V

--------------------------------------------------------------------------------
(***************************************************************************)
(* Compaction.  The bytes of a tail are no more than those of the list, so *)
(* dropping by count after dropping by bytes keeps the budget.             *)
(***************************************************************************)
LEMMA SumDefined ==
  ASSUME NEW q \in Seq(Envelope)
  PROVE  LET sum == SumOf(q)
         IN  sum = [i \in 0..Len(q) |-> IF i = 0 THEN 0 ELSE sum[i - 1] + q[i].bytes]
<1>1. \E f : f = [i \in 0..Len(q) |-> IF i = 0 THEN 0 ELSE f[i - 1] + q[i].bytes]
  <2> DEFINE n == Len(q)
             F == [p \in (1..n) \X Nat |-> p[2] + q[p[1]].bytes]
  <2>1. n \in Nat /\ \A i \in 1..n : q[i] \in Envelope
    OBVIOUS
  <2>2. \A e \in Envelope : e.bytes \in Nat
    BY StatusAssumption DEF Envelope
  <2>3. \A i \in 1..n : q[i].bytes \in Nat
    BY <2>1, <2>2
  <2> HIDE DEF n
  <2>4. F \in [(1..n) \X Nat -> Nat]
    BY <2>3
  <2>5. \A i \in 1..n, t \in Nat : F[<<i, t>>] = t + q[i].bytes
    OBVIOUS
  <2> HIDE DEF F
  <2>6. PICK f \in [0..n -> Nat] : f[0] = 0 /\ \A i \in 1..n : f[i] = F[<<i, f[i - 1]>>]
    <3>1. Solvable(n, Nat, 0, F)
      <4>1. 0 \in Nat
        OBVIOUS
      <4> QED  BY <2>1, <2>4, <4>1, Iterated
    <3> QED  BY <3>1 DEF Solvable
  <2>7. ASSUME NEW i \in 0..n
        PROVE  f[i] = IF i = 0 THEN 0 ELSE f[i - 1] + q[i].bytes
    <3>1. CASE i = 0
      BY <2>6, <3>1
    <3>2. CASE i # 0
      <4>1. i \in 1..n /\ i - 1 \in 0..n
        BY <2>1, <3>2
      <4>2. f[i - 1] \in Nat /\ f[i] = F[<<i, f[i - 1]>>]
        BY <2>6, <4>1
      <4> QED  BY <2>5, <3>2, <4>1, <4>2
    <3> QED  BY <3>1, <3>2
  <2>8. f = [i \in 0..n |-> IF i = 0 THEN 0 ELSE f[i - 1] + q[i].bytes]
    BY <2>6, <2>7
  <2> QED  BY <2>8 DEF n
<1> QED  BY <1>1 DEF SumOf

LEMMA SumFacts ==
  ASSUME NEW q \in Seq(Envelope)
  PROVE  /\ SumOf(q)[0] = 0
         /\ \A i \in 1..Len(q) : SumOf(q)[i] = SumOf(q)[i - 1] + q[i].bytes
         /\ \A i \in 1..Len(q) : q[i].bytes \in Nat
         /\ \A i \in 0..Len(q) : SumOf(q)[i] \in Nat
<1> DEFINE n == Len(q)
           sum == SumOf(q)
           S == {i \in 0..n : sum[i] \in Nat}
<1>1. n \in Nat /\ \A i \in 1..n : q[i] \in Envelope
  OBVIOUS
<1>2. \A e \in Envelope : e.bytes \in Nat
  BY StatusAssumption DEF Envelope
<1>3. \A i \in 1..n : q[i].bytes \in Nat
  BY <1>1, <1>2
<1>4. \A i \in 0..n : sum[i] = IF i = 0 THEN 0 ELSE sum[i - 1] + q[i].bytes
  BY SumDefined
<1> HIDE DEF n, sum
<1>5. sum[0] = 0 /\ \A i \in 1..n : sum[i] = sum[i - 1] + q[i].bytes
  BY <1>1, <1>4
<1>6. 0 \in S
  BY <1>1, <1>5
<1>7. ASSUME NEW i \in 1..n, i - 1 \in S  PROVE  i \in S
  BY <1>1, <1>3, <1>5, <1>7
<1>8. \A i \in 0..n : i \in S
  <2> HIDE DEF S
  <2> QED  BY <1>1, <1>6, <1>7, UpTo
<1> QED  BY <1>3, <1>5, <1>8 DEF n, sum

LEMMA TailBytes ==
  ASSUME NEW q \in Seq(Envelope), NEW d \in 0..Len(q)
  PROVE  Bytes(TailAfter(q, d)) <= Bytes(q)
<1> DEFINE t == TailAfter(q, d)
           n == Len(q) - d
           A == SumOf(t)
           B == SumOf(q)
           S == {i \in 0..n : A[i] + B[d] = B[i + d]}
<1>1. t \in Seq(Envelope) /\ Len(t) = n /\ \A i \in 1..n : t[i] = q[i + d]
  BY TailFacts
<1>2. Len(q) \in Nat /\ d \in Nat /\ n \in Nat /\ d <= Len(q) /\ n + d = Len(q)
  OBVIOUS
<1> HIDE DEF t, n
<1>3. /\ A[0] = 0 /\ \A i \in 1..n : A[i] = A[i - 1] + t[i].bytes
      /\ \A i \in 0..n : A[i] \in Nat
  BY <1>1, SumFacts
<1>4. /\ \A i \in 1..Len(q) : B[i] = B[i - 1] + q[i].bytes /\ q[i].bytes \in Nat
      /\ \A i \in 0..Len(q) : B[i] \in Nat
  BY SumFacts
<1>5. Bytes(t) = A[n] /\ Bytes(q) = B[Len(q)]
  BY <1>1, BytesUnfolds
<1> HIDE DEF A, B
<1>6. 0 \in S
  <2>1. 0 \in 0..n /\ 0 + d = d /\ B[d] \in Nat
    BY <1>2, <1>4
  <2>2. A[0] + B[d] = B[d]
    BY <1>3, <2>1
  <2> QED  BY <2>1, <2>2
<1>7. ASSUME NEW i \in 1..n, i - 1 \in S  PROVE  i \in S
  <2>1. /\ i \in 0..n /\ i - 1 \in 0..n /\ i + d \in 1..Len(q)
        /\ (i + d) - 1 \in 0..Len(q) /\ (i - 1) + d = (i + d) - 1 /\ d \in 0..Len(q)
    BY <1>2
  <2>2. A[i - 1] + B[d] = B[(i + d) - 1]
    BY <1>7, <2>1
  <2>3. /\ A[i] = A[i - 1] + t[i].bytes /\ t[i] = q[i + d]
        /\ B[i + d] = B[(i + d) - 1] + q[i + d].bytes /\ q[i + d].bytes \in Nat
        /\ A[i - 1] \in Nat /\ B[d] \in Nat /\ B[(i + d) - 1] \in Nat
    BY <1>1, <1>3, <1>4, <2>1
  <2> DEFINE x == A[i - 1]
             y == B[d]
             z == B[(i + d) - 1]
             b == q[i + d].bytes
  <2>4. x \in Nat /\ y \in Nat /\ z \in Nat /\ b \in Nat /\ x + y = z
        /\ A[i] = x + b /\ B[i + d] = z + b
    BY <2>2, <2>3
  <2> HIDE DEF x, y, z, b
  <2>5. A[i] + y = B[i + d]
    BY <2>4
  <2> QED  BY <2>1, <2>5 DEF y
<1>8. \A i \in 0..n : i \in S
  <2> HIDE DEF S
  <2> QED  BY <1>2, <1>6, <1>7, UpTo
<1>9. n \in S
  <2>1. n \in 0..n
    BY <1>2
  <2> HIDE DEF S
  <2> QED  BY <1>8, <2>1
<1>10. A[n] + B[d] = B[Len(q)] /\ A[n] \in Nat /\ B[d] \in Nat
  BY <1>2, <1>3, <1>4, <1>9
<1>11. A[n] <= B[Len(q)]
  BY <1>10
<1>12. Bytes(t) <= Bytes(q)
  BY <1>5, <1>11
<1> QED  BY <1>12 DEF t

LEMMA BytesType ==
  ASSUME NEW q \in Seq(Envelope)
  PROVE  Bytes(q) \in Nat
<1>1. Len(q) \in 0..Len(q)
  OBVIOUS
<1> QED  BY <1>1, SumFacts, BytesUnfolds

\* The byte budget is met, at the latest with an empty list.
LEMMA ByteDropFacts ==
  ASSUME NEW q \in Seq(Envelope)
  PROVE  ByteDrop(q) \in 0..Len(q) /\ ~OverBudget(q, ByteDrop(q))
<1> DEFINE D == {d \in 0..Len(q) : ~OverBudget(q, d)}
<1>1. Len(q) \in D
  <2>1. Len(q) \in Nat /\ MinTailEnvelopes \in Nat
    BY StatusAssumption
  <2>2. Len(q) \in 0..Len(q) /\ ~(Len(q) - Len(q) > MinTailEnvelopes)
    BY <2>1
  <2> QED  BY <2>2 DEF OverBudget
<1>2. D \in SUBSET Nat /\ D # {}
  BY <1>1
<1>3. ByteDrop(q) = First(D)
  BY DEF ByteDrop
<1>4. First(D) \in D
  <2> HIDE DEF D
  <2> QED  BY <1>2, FirstFacts
<1> QED  BY <1>3, <1>4

LEMMA CountDropFacts ==
  ASSUME NEW n \in Nat, NEW max \in Nat
  PROVE  CountDrop(n, max) \in 0..n /\ n - CountDrop(n, max) <= max
  BY DEF CountDrop

\* What compactStatus does to a status: it drops a prefix of each list, as much
\* as it counts, and leaves the lists inside their windows.
LEMMA CompactFacts ==
  ASSUME NEW s \in Status
  PROVE  \E a \in 0..Len(s.runs), b \in 0..Len(s.results), c \in 0..Len(s.evidence) :
           LET t == compactStatus(s) IN
           /\ t \in Status
           /\ t.runs = TailAfter(s.runs, a) /\ t.results = TailAfter(s.results, b)
           /\ t.compactedRuns = s.compactedRuns + a
           /\ t.compactedResults = s.compactedResults + b
           /\ Len(t.runs) <= MaxStatusRuns
           /\ Len(t.results) <= MaxStatusNodeResults
           /\ Len(t.evidence) <= MaxStatusEvidence
           /\ Bytes(t.results) <= MaxStatusBytes \/ Len(t.results) <= MinTailEnvelopes
<1> DEFINE q == s.results
           d == ByteDrop(q)
           e == CountDrop(Len(q) - d, MaxStatusNodeResults)
           a == CountDrop(Len(s.runs), MaxStatusRuns)
           b == d + e
           c == CountDrop(Len(s.evidence), MaxStatusEvidence)
           t == compactStatus(s)
<1>1. /\ s.runs \in Seq(RunRecord) /\ q \in Seq(Envelope) /\ s.evidence \in Seq(Reference)
      /\ s.compactedRuns \in Nat /\ s.compactedResults \in Nat /\ s.compactedEvidence \in Nat
  BY DEF Status
<1>2. Len(s.runs) \in Nat /\ Len(q) \in Nat /\ Len(s.evidence) \in Nat
  BY <1>1
<1>3. t = [s EXCEPT !.results = TailAfter(s.results, b), !.runs = TailAfter(s.runs, a),
                    !.evidence = TailAfter(s.evidence, c),
                    !.compactedResults = s.compactedResults + b,
                    !.compactedRuns = s.compactedRuns + a,
                    !.compactedEvidence = s.compactedEvidence + c]
  BY DEF compactStatus
<1>4. d \in 0..Len(q) /\ ~OverBudget(q, d)
  BY <1>1, ByteDropFacts
<1>5. Len(q) - d \in Nat
  BY <1>2, <1>4
<1> HIDE DEF q, d
<1>6. /\ e \in 0..(Len(q) - d) /\ (Len(q) - d) - e <= MaxStatusNodeResults
      /\ a \in 0..Len(s.runs) /\ Len(s.runs) - a <= MaxStatusRuns
      /\ c \in 0..Len(s.evidence) /\ Len(s.evidence) - c <= MaxStatusEvidence
  BY <1>2, <1>5, CountDropFacts, StatusAssumption
<1> HIDE DEF e, a, c
<1>7. b \in 0..Len(q) /\ Len(q) - b <= MaxStatusNodeResults /\ Len(q) - b = (Len(q) - d) - e
  BY <1>2, <1>4, <1>6, StatusAssumption
<1>8. /\ TailAfter(s.runs, a) \in Seq(RunRecord)
      /\ Len(TailAfter(s.runs, a)) = Len(s.runs) - a
      /\ TailAfter(q, b) \in Seq(Envelope) /\ Len(TailAfter(q, b)) = Len(q) - b
      /\ TailAfter(s.evidence, c) \in Seq(Reference)
      /\ Len(TailAfter(s.evidence, c)) = Len(s.evidence) - c
  <2> HIDE DEF b
  <2> QED  BY <1>1, <1>6, <1>7, TailFacts
<1>9. Bytes(TailAfter(q, b)) <= MaxStatusBytes \/ Len(q) - b <= MinTailEnvelopes
  <2> DEFINE u == TailAfter(q, d)
             v == TailAfter(u, e)
  <2>1. u \in Seq(Envelope) /\ Len(u) = Len(q) - d /\ \A i \in 1..(Len(q) - d) : u[i] = q[i + d]
    BY <1>1, <1>4, TailFacts
  <2> HIDE DEF u
  <2>2. e \in 0..Len(u)
    BY <1>6, <2>1
  <2>3. v \in Seq(Envelope) /\ Len(v) = Len(u) - e /\ (\A i \in 1..(Len(u) - e) : v[i] = u[i + e])
    BY <2>1, <2>2, TailFacts
  <2>4. \A i \in 1..(Len(q) - b) : TailAfter(q, b)[i] = q[i + b]
    <3> HIDE DEF b
    <3> QED  BY <1>1, <1>7, TailFacts
  <2>5. Bytes(v) <= Bytes(u)
    BY <2>1, <2>2, TailBytes
  <2> HIDE DEF v
  <2>6. TailAfter(q, b) = v
    <3>1. Len(v) = Len(q) - b
      BY <1>7, <2>1, <2>3
    <3>2. ASSUME NEW i \in 1..(Len(q) - b)  PROVE  TailAfter(q, b)[i] = v[i]
      <4>1. i + e \in 1..(Len(q) - d) /\ i \in 1..(Len(u) - e) /\ (i + e) + d = i + b
        BY <1>2, <1>4, <1>6, <1>7, <2>1
      <4> HIDE DEF b
      <4> QED  BY <2>1, <2>3, <2>4, <4>1
    <3> HIDE DEF b
    <3>3. TailAfter(q, b) \in [1..(Len(q) - b) -> Envelope] /\ v \in [1..(Len(q) - b) -> Envelope]
      BY <1>8, <2>3, <3>1
    <3> DEFINE x == TailAfter(q, b)
               D == 1..(Len(q) - b)
    <3>4. x \in [D -> Envelope] /\ v \in [D -> Envelope] /\ \A i \in D : x[i] = v[i]
      BY <3>2, <3>3
    <3> HIDE DEF x, D
    <3>5. x = v
      BY <3>4
    <3> QED  BY <3>5 DEF x
  <2>7. CASE ~(Len(q) - d > MinTailEnvelopes)
    <3>1. Len(q) - b <= MinTailEnvelopes
      BY <1>2, <1>4, <1>6, <1>7, <2>7, StatusAssumption
    <3> QED  BY <3>1
  <2>8. CASE ~(Bytes(u) > MaxStatusBytes)
    <3>1. Bytes(u) \in Nat /\ Bytes(v) \in Nat /\ MaxStatusBytes \in Nat
      BY <2>1, <2>3, BytesType, StatusAssumption
    <3>2. Bytes(v) <= MaxStatusBytes
      BY <2>5, <2>8, <3>1
    <3> QED  BY <2>6, <3>2
  <2> QED  BY <1>4, <2>7, <2>8 DEF OverBudget, u
<1>10. /\ s.compactedResults + b \in Nat /\ s.compactedRuns + a \in Nat
       /\ s.compactedEvidence + c \in Nat
  <2>1. a \in Nat /\ b \in Nat /\ c \in Nat
    BY <1>2, <1>6, <1>7
  <2> HIDE DEF b
  <2> QED  BY <1>1, <2>1
<1> HIDE DEF b, t
<1>11. t \in Status
  <2> DEFINE x == s.compactedResults + b
             y == s.compactedRuns + a
             z == s.compactedEvidence + c
             u == TailAfter(s.results, b)
             v == TailAfter(s.runs, a)
             w == TailAfter(s.evidence, c)
  <2>1. x \in Nat /\ y \in Nat /\ z \in Nat /\ u \in Seq(Envelope) /\ v \in Seq(RunRecord)
        /\ w \in Seq(Reference)
    BY <1>8, <1>10 DEF q
  <2>2. t = [s EXCEPT !.results = u, !.runs = v, !.evidence = w, !.compactedResults = x,
                      !.compactedRuns = y, !.compactedEvidence = z]
    BY <1>3
  <2> HIDE DEF x, y, z, u, v, w
  <2> QED  BY <2>1, <2>2 DEF Status
<1>12. /\ t.runs = TailAfter(s.runs, a) /\ t.results = TailAfter(q, b)
       /\ t.evidence = TailAfter(s.evidence, c)
       /\ t.compactedRuns = s.compactedRuns + a
       /\ t.compactedResults = s.compactedResults + b
  BY <1>3 DEF Status, q
<1>13. /\ Len(t.runs) <= MaxStatusRuns /\ Len(t.results) <= MaxStatusNodeResults
       /\ Len(t.evidence) <= MaxStatusEvidence
       /\ Bytes(t.results) <= MaxStatusBytes \/ Len(t.results) <= MinTailEnvelopes
  BY <1>6, <1>7, <1>8, <1>9, <1>12
<1> QED  BY <1>6, <1>7, <1>11, <1>12, <1>13 DEF t, q

--------------------------------------------------------------------------------
(***************************************************************************)
(* The invariant of the totals.                                            *)
(***************************************************************************)
\* What a worker may wait for.
Write ==
  [kind : {"none", "start", "progress"}] \cup
  [kind : {"node"}, env : Envelope] \cup
  [kind : {"outcome"}, phase : RunPhase \ {"running"}, envs : Seq(Envelope)]

\* A worker that waits for a write is in its run, and the write is about it.
AboutRun(w, r) ==
  /\ w.pending # NoWrite => w.pc \in {"running", "ending"}
  /\ w.pending.kind = "node" => w.pending.env.run = r
  /\ w.pending.kind = "outcome" =>
       \A i \in 1..Len(w.pending.envs) : w.pending.envs[i].run = r
  /\ IsFiniteSet(w.envs)
  /\ \A e \in w.envs : e.run = r

\* What was recorded and is no longer kept belongs to runs that are over, and
\* was counted when it was dropped.
Counted ==
  /\ recorded.runs \subseteq Run /\ recorded.keys \subseteq Node \X Run
  /\ IsFiniteSet(recorded.runs) /\ IsFiniteSet(recorded.keys)
  /\ Names(status) \subseteq recorded.runs /\ Keys(status) \subseteq recorded.keys
  /\ \A n \in recorded.runs : worker[n].pc # "new"
  /\ \A k \in recorded.keys : worker[k[2]].pc # "new"
  /\ ~overtaken =>
       /\ \A n \in recorded.runs \ Names(status) : worker[n].pc = "done"
       /\ \A k \in recorded.keys \ Keys(status) : worker[k[2]].pc = "done"
       /\ status.compactedRuns = Cardinality(recorded.runs \ Names(status))
       /\ status.compactedResults = Cardinality(recorded.keys \ Keys(status))

LedgerInv ==
  /\ status \in Status /\ worker \in [Run -> Worker] /\ overtaken \in BOOLEAN
  /\ CopiesHonest /\ Windowed
  /\ Distinct(RunNames(status.runs)) /\ Distinct(EnvKeys(status.results))
  /\ (\A r \in Run : AboutRun(worker[r], r))
  /\ Counted

LEMMA KeySets ==
  ASSUME NEW s \in Status
  PROVE  Names(s) = Members(RunNames(s.runs)) /\ Keys(s) = Members(EnvKeys(s.results))
<1>1. s.runs \in Seq(RunRecord) /\ s.results \in Seq(Envelope)
  BY DEF Status
<1>2. /\ DOMAIN s.runs = 1..Len(s.runs) /\ DOMAIN s.results = 1..Len(s.results)
      /\ Len(s.runs) \in Nat /\ Len(s.results) \in Nat
  BY <1>1
<1>3. Len(RunNames(s.runs)) = Len(s.runs) /\ Len(EnvKeys(s.results)) = Len(s.results)
  BY <1>2 DEF RunNames, EnvKeys
<1>4. Names(s) = Members(RunNames(s.runs))
  BY <1>2, <1>3 DEF Names, Members, RunNames
<1>5. Keys(s) = Members(EnvKeys(s.results))
  BY <1>2, <1>3 DEF Keys, Members, EnvKeys
<1> QED  BY <1>4, <1>5

\* The key lists of a status are lists of keys.
LEMMA KeyLists ==
  ASSUME NEW s \in Status
  PROVE  /\ RunNames(s.runs) \in Seq(Run) /\ Len(RunNames(s.runs)) = Len(s.runs)
         /\ \A i \in 1..Len(s.runs) : RunNames(s.runs)[i] = s.runs[i].name
         /\ EnvKeys(s.results) \in Seq(Node \X Run) /\ Len(EnvKeys(s.results)) = Len(s.results)
         /\ \A i \in 1..Len(s.results) :
              EnvKeys(s.results)[i] = <<s.results[i].node, s.results[i].run>>
<1>1. s.runs \in Seq(RunRecord) /\ s.results \in Seq(Envelope)
  BY DEF Status
<1>2. /\ Len(s.runs) \in Nat /\ Len(s.results) \in Nat
      /\ \A i \in 1..Len(s.runs) : s.runs[i] \in RunRecord
      /\ \A i \in 1..Len(s.results) : s.results[i] \in Envelope
  BY <1>1
<1>3. (\A x \in RunRecord : x.name \in Run) /\ \A x \in Envelope : <<x.node, x.run>> \in Node \X Run
  BY DEF RunRecord, Envelope
<1>4. /\ \A i \in 1..Len(s.runs) : s.runs[i].name \in Run
      /\ \A i \in 1..Len(s.results) : <<s.results[i].node, s.results[i].run>> \in Node \X Run
  BY <1>2, <1>3
<1> QED  BY <1>2, <1>4 DEF RunNames, EnvKeys

\* The four mutations, by what they add to the keys.
LEMMA MutateFacts ==
  ASSUME NEW s \in Status, Distinct(RunNames(s.runs)), Distinct(EnvKeys(s.results)),
         NEW r \in Run, worker[r].pending \in Write, Waiting(r)
  PROVE  LET t == Mutate(s, r, worker[r].pending) IN
         /\ t \in Status /\ Distinct(RunNames(t.runs)) /\ Distinct(EnvKeys(t.results))
         /\ t.compactedRuns = s.compactedRuns /\ t.compactedResults = s.compactedResults
         /\ Names(t) = Names(s) \cup Written(r).runs
         /\ Keys(t) = Keys(s) \cup Written(r).keys
<1> DEFINE w == worker[r].pending
           t == Mutate(s, r, w)
<1>1. w \in Write /\ w # NoWrite
  BY DEF Waiting
<1>2. /\ s.runs \in Seq(RunRecord) /\ s.results \in Seq(Envelope) /\ s.evidence \in Seq(Reference)
      /\ s.results \in KeyedList
  BY DEF Status, KeyedList
<1>3. w.kind \in {"start", "progress", "node", "outcome"}
  BY <1>1 DEF Write, NoWrite
<1>4. CASE w.kind = "start"
  <2> DEFINE u == upsertRun(s.runs, [name |-> r, phase |-> "running"])
  <2>1. t = [s EXCEPT !.runs = u]
    BY <1>4 DEF Mutate, RecordRunStarted
  <2>2. Written(r).runs = {r} /\ Written(r).keys = {}
    BY <1>4 DEF Written
  <2>3. u \in Seq(RunRecord) /\ Distinct(RunNames(u))
        /\ Members(RunNames(u)) = Members(RunNames(s.runs)) \cup {r}
    <3> DEFINE e == [name |-> r, phase |-> "running"]
    <3>1. e \in RunRecord /\ e.name = r
      BY DEF RunRecord, RunPhase
    <3> HIDE DEF e
    <3>2. upsertRun(s.runs, e) \in Seq(RunRecord) /\ Distinct(RunNames(upsertRun(s.runs, e)))
          /\ Members(RunNames(upsertRun(s.runs, e))) = Members(RunNames(s.runs)) \cup {r}
      BY <1>2, <3>1, UpsertRecord
    <3> QED  BY <3>2 DEF e
  <2> HIDE DEF u, t
  <2>4. t \in Status
    BY <2>1, <2>3 DEF Status
  <2>5. /\ t.runs = u /\ t.results = s.results
        /\ t.compactedRuns = s.compactedRuns /\ t.compactedResults = s.compactedResults
    BY <2>1 DEF Status
  <2> QED  BY <2>2, <2>3, <2>4, <2>5, KeySets DEF t
<1>5. CASE w.kind = "progress"
  <2>1. t = s
    BY <1>5 DEF Mutate, RecordProgress
  <2>2. Written(r).runs = {} /\ Written(r).keys = {}
    BY <1>5 DEF Written
  <2> HIDE DEF t
  <2> QED  BY <2>1, <2>2 DEF t
<1>6. CASE w.kind = "node"
  <2> DEFINE e == w.env
             u == upsertNodeResult(s.results, e)
  <2>1. e \in Envelope
    BY <1>1, <1>6 DEF Write
  <2>2. t = [s EXCEPT !.results = u]
    BY <1>6 DEF Mutate, UpsertNodeResult
  <2>3. Written(r).runs = {} /\ Written(r).keys = {<<e.node, e.run>>}
    BY <1>6 DEF Written
  <2> HIDE DEF e
  <2>4. u \in Seq(Envelope) /\ Distinct(EnvKeys(u))
        /\ Members(EnvKeys(u)) = Members(EnvKeys(s.results)) \cup {<<e.node, e.run>>}
    BY <1>2, <2>1, UpsertEnvelope
  <2> HIDE DEF u, t
  <2>5. t \in Status
    BY <2>2, <2>4 DEF Status
  <2>6. /\ t.runs = s.runs /\ t.results = u
        /\ t.compactedRuns = s.compactedRuns /\ t.compactedResults = s.compactedResults
    BY <2>2 DEF Status
  <2> QED  BY <2>3, <2>4, <2>5, <2>6, KeySets DEF t
<1>7. CASE w.kind = "outcome"
  <2> DEFINE envs == w.envs
             u == upsertRun(s.runs, [name |-> r, phase |-> w.phase])
             v == ResultsOf(s.results, envs)[Len(envs)]
             x == EvidenceOf(s.evidence, envs)[Len(envs)]
  <2>1. envs \in Seq(Envelope) /\ w.phase \in RunPhase
    BY <1>1, <1>7 DEF Write
  <2>2. t = [s EXCEPT !.runs = u, !.results = v, !.evidence = x]
    BY <1>7, OutcomeUnfolds DEF Mutate
  <2>3. Written(r).runs = {r} /\ Written(r).keys = Members(EnvKeys(envs))
    <3>1. Written(r).runs = {r}
          /\ Written(r).keys = {<<e.node, e.run>> : e \in {envs[i] : i \in DOMAIN envs}}
      BY <1>7 DEF Written
    <3>2. DOMAIN envs = 1..Len(envs) /\ Len(envs) \in Nat
      BY <2>1
    <3> HIDE DEF envs
    <3>3. Len(EnvKeys(envs)) = Len(envs)
      BY <3>2 DEF EnvKeys
    <3>4. Members(EnvKeys(envs)) = {<<envs[i].node, envs[i].run>> : i \in 1..Len(envs)}
      BY <3>3 DEF Members, EnvKeys
    <3>5. {<<e.node, e.run>> : e \in {envs[i] : i \in DOMAIN envs}}
            = {<<envs[i].node, envs[i].run>> : i \in 1..Len(envs)}
      BY <3>2
    <3> QED  BY <3>1, <3>4, <3>5
  <2>4. u \in Seq(RunRecord) /\ Distinct(RunNames(u))
        /\ Members(RunNames(u)) = Members(RunNames(s.runs)) \cup {r}
    <3> DEFINE e == [name |-> r, phase |-> w.phase]
    <3>1. e \in RunRecord /\ e.name = r
      BY <2>1 DEF RunRecord
    <3> HIDE DEF e
    <3>2. upsertRun(s.runs, e) \in Seq(RunRecord) /\ Distinct(RunNames(upsertRun(s.runs, e)))
          /\ Members(RunNames(upsertRun(s.runs, e))) = Members(RunNames(s.runs)) \cup {r}
      BY <1>2, <3>1, UpsertRecord
    <3> QED  BY <3>2 DEF e
  <2> HIDE DEF envs
  <2>5. v \in KeyedList
        /\ Members(EnvKeys(v)) = Members(EnvKeys(s.results)) \cup Members(EnvKeys(envs))
    BY <1>2, <2>1, ResultsFacts
  <2>6. x \in Seq(Reference)
    BY <1>2, <2>1, EvidenceType
  <2> HIDE DEF u, v, x, t
  <2>7. v \in Seq(Envelope) /\ Distinct(EnvKeys(v))
    BY <2>5 DEF KeyedList
  <2>8. t \in Status
    BY <2>2, <2>4, <2>6, <2>7 DEF Status
  <2>9. /\ t.runs = u /\ t.results = v
        /\ t.compactedRuns = s.compactedRuns /\ t.compactedResults = s.compactedResults
    BY <2>2 DEF Status
  <2> QED  BY <2>3, <2>4, <2>5, <2>7, <2>8, <2>9, KeySets DEF t
<1> QED  BY <1>3, <1>4, <1>5, <1>6, <1>7

\* Compaction drops as many keys as it counts.
LEMMA CompactKeys ==
  ASSUME NEW s \in Status, Distinct(RunNames(s.runs)), Distinct(EnvKeys(s.results))
  PROVE  LET t == compactStatus(s) IN
         /\ t \in Status /\ Distinct(RunNames(t.runs)) /\ Distinct(EnvKeys(t.results))
         /\ Names(t) \subseteq Names(s) /\ Keys(t) \subseteq Keys(s)
         /\ IsFiniteSet(Names(s) \ Names(t)) /\ IsFiniteSet(Keys(s) \ Keys(t))
         /\ t.compactedRuns = s.compactedRuns + Cardinality(Names(s) \ Names(t))
         /\ t.compactedResults = s.compactedResults + Cardinality(Keys(s) \ Keys(t))
<1> DEFINE t == compactStatus(s)
<1>1. PICK a \in 0..Len(s.runs), b \in 0..Len(s.results), c \in 0..Len(s.evidence) :
           /\ t \in Status
           /\ t.runs = TailAfter(s.runs, a) /\ t.results = TailAfter(s.results, b)
           /\ t.compactedRuns = s.compactedRuns + a
           /\ t.compactedResults = s.compactedResults + b
  BY CompactFacts
<1> HIDE DEF t
<1>2. s.runs \in Seq(RunRecord) /\ s.results \in Seq(Envelope)
  BY DEF Status
<1>3. /\ Len(t.runs) = Len(s.runs) - a
      /\ \A i \in 1..(Len(s.runs) - a) : t.runs[i] = s.runs[i + a]
      /\ Len(t.results) = Len(s.results) - b
      /\ \A i \in 1..(Len(s.results) - b) : t.results[i] = s.results[i + b]
  BY <1>1, <1>2, TailFacts
<1>4. Names(s) = Members(RunNames(s.runs)) /\ Keys(s) = Members(EnvKeys(s.results))
      /\ Names(t) = Members(RunNames(t.runs)) /\ Keys(t) = Members(EnvKeys(t.results))
  BY <1>1, KeySets
<1>5. /\ Distinct(RunNames(t.runs)) /\ Names(t) \subseteq Names(s)
      /\ IsFiniteSet(Names(s) \ Names(t)) /\ Cardinality(Names(s) \ Names(t)) = a
  <2> DEFINE ks == RunNames(s.runs)
             ts == RunNames(t.runs)
  <2>1. ks \in Seq(Run) /\ Len(ks) = Len(s.runs) /\ \A i \in 1..Len(s.runs) : ks[i] = s.runs[i].name
    BY KeyLists
  <2>2. ts \in Seq(Run) /\ Len(ts) = Len(t.runs) /\ \A i \in 1..Len(t.runs) : ts[i] = t.runs[i].name
    BY <1>1, KeyLists
  <2>3. Distinct(ks)
    OBVIOUS
  <2> HIDE DEF ks, ts
  <2>4. Len(s.runs) \in Nat /\ \A i \in 1..(Len(s.runs) - a) : i + a \in 1..Len(s.runs)
    BY <1>2
  <2>5. a \in 0..Len(ks) /\ Len(ts) = Len(ks) - a /\ \A i \in 1..(Len(ks) - a) : ts[i] = ks[i + a]
    BY <1>3, <2>1, <2>2, <2>4
  <2>6. /\ Distinct(ts) /\ Members(ts) \subseteq Members(ks)
        /\ IsFiniteSet(Members(ks) \ Members(ts)) /\ Cardinality(Members(ks) \ Members(ts)) = a
    BY <2>1, <2>2, <2>3, <2>5, TailKeys
  <2> QED  BY <1>4, <2>6 DEF ks, ts
<1>6. /\ Distinct(EnvKeys(t.results)) /\ Keys(t) \subseteq Keys(s)
      /\ IsFiniteSet(Keys(s) \ Keys(t)) /\ Cardinality(Keys(s) \ Keys(t)) = b
  <2> DEFINE ks == EnvKeys(s.results)
             ts == EnvKeys(t.results)
             V == Node \X Run
  <2>1. ks \in Seq(V) /\ Len(ks) = Len(s.results)
        /\ \A i \in 1..Len(s.results) : ks[i] = <<s.results[i].node, s.results[i].run>>
    BY KeyLists
  <2>2. ts \in Seq(V) /\ Len(ts) = Len(t.results)
        /\ \A i \in 1..Len(t.results) : ts[i] = <<t.results[i].node, t.results[i].run>>
    BY <1>1, KeyLists
  <2>3. Distinct(ks)
    OBVIOUS
  <2> HIDE DEF ks, ts, V
  <2>4. Len(s.results) \in Nat /\ \A i \in 1..(Len(s.results) - b) : i + b \in 1..Len(s.results)
    BY <1>2
  <2>5. b \in 0..Len(ks) /\ Len(ts) = Len(ks) - b /\ \A i \in 1..(Len(ks) - b) : ts[i] = ks[i + b]
    BY <1>3, <2>1, <2>2, <2>4
  <2>6. /\ Distinct(ts) /\ Members(ts) \subseteq Members(ks)
        /\ IsFiniteSet(Members(ks) \ Members(ts)) /\ Cardinality(Members(ks) \ Members(ts)) = b
    BY <2>1, <2>2, <2>3, <2>5, TailKeys
  <2> QED  BY <1>4, <2>6 DEF ks, ts
<1> QED  BY <1>1, <1>5, <1>6 DEF t

LEMMA CompactWindows ==
  ASSUME NEW s \in Status, status' = compactStatus(s)
  PROVE  Windowed'
<1>1. \E a \in 0..Len(s.runs), b \in 0..Len(s.results), c \in 0..Len(s.evidence) :
        LET t == compactStatus(s) IN
           /\ Len(t.runs) <= MaxStatusRuns
           /\ Len(t.results) <= MaxStatusNodeResults
           /\ Len(t.evidence) <= MaxStatusEvidence
           /\ Bytes(t.results) <= MaxStatusBytes \/ Len(t.results) <= MinTailEnvelopes
  BY CompactFacts
<1> QED  BY <1>1 DEF Windowed

LEMMA LedgerInit == Init => LedgerInv
<1> SUFFICES ASSUME Init PROVE LedgerInv
  OBVIOUS
<1>1. status = EmptyStatus /\ worker = [r \in Run |-> NewWorker] /\ overtaken = FALSE
      /\ recorded = [runs |-> {}, keys |-> {}, refs |-> {}]
  BY DEF Init, AtomicInit
<1>2. status.runs = << >> /\ status.results = << >> /\ status.evidence = << >>
      /\ status.compactedRuns = 0 /\ status.compactedResults = 0
      /\ recorded.runs = {} /\ recorded.keys = {}
  BY <1>1 DEF EmptyStatus
<1>3. status \in Status
  <2>1. << >> \in Seq(RunRecord) /\ << >> \in Seq(Envelope) /\ << >> \in Seq(Reference) /\ 0 \in Nat
    OBVIOUS
  <2> QED  BY <1>1, <2>1 DEF EmptyStatus, Status
<1>4. worker \in [Run -> Worker]
  <2>1. NoWrite \in [kind : {"none", "start", "progress"}]
    BY DEF NoWrite
  <2>2. 0 \in 0..MaxNodeSteps
    BY StepsAssumption
  <2>3. NewWorker \in Worker
    BY <2>1, <2>2 DEF NewWorker, Worker
  <2> QED  BY <1>1, <2>3
<1>5. Windowed
  <2>1. Len(status.runs) = 0 /\ Len(status.results) = 0 /\ Len(status.evidence) = 0
    BY <1>2
  <2> QED  BY <2>1, StatusAssumption DEF Windowed
<1>6. Distinct(RunNames(status.runs)) /\ Distinct(EnvKeys(status.results))
  <2>1. Len(RunNames(status.runs)) = 0 /\ Len(EnvKeys(status.results)) = 0
    BY <1>2 DEF RunNames, EnvKeys
  <2> QED  BY <2>1 DEF Distinct
<1>7. ASSUME NEW r \in Run PROVE AboutRun(worker[r], r)
  <2>1. worker[r] = NewWorker
    BY <1>1
  <2>2. NewWorker.pending = NoWrite /\ NewWorker.envs = {} /\ NoWrite.kind = "none"
    BY DEF NewWorker, NoWrite
  <2> QED  BY <2>1, <2>2, FS_EmptySet DEF AboutRun
<1>8. Counted
  <2>1. Names(status) = {} /\ Keys(status) = {}
    BY <1>2 DEF Names, Keys
  <2> QED  BY <1>2, <2>1, FS_EmptySet DEF Counted
<1> QED  BY <1>1, <1>3, <1>4, <1>5, <1>6, <1>7, <1>8, HonestInit DEF LedgerInv

\* A worker's program counter only moves forward.
Onward(v, w) == (v.pc # "new" => w.pc # "new") /\ (v.pc = "done" => w.pc = "done")

\* A step that leaves the lists alone keeps the invariant.
LEMMA Calm ==
  ASSUME LedgerInv, [Next]_vars, NEW r \in Run, NEW w \in Worker,
         worker' = [worker EXCEPT ![r] = w], AboutRun(w, r), Onward(worker[r], w),
         UNCHANGED <<status, recorded, overtaken>>
  PROVE  LedgerInv'
<1>1. worker \in [Run -> Worker]
  BY DEF LedgerInv
<1>2. worker' \in [Run -> Worker]
  BY <1>1
<1>3. ASSUME NEW q \in Run
      PROVE  AboutRun(worker'[q], q) /\ Onward(worker[q], worker'[q])
  <2>1. CASE q = r
    BY <1>1, <2>1
  <2>2. CASE q # r
    <3>1. worker'[q] = worker[q]
      BY <1>1, <2>2
    <3> QED  BY <3>1 DEF LedgerInv, Onward
  <2> QED  BY <2>1, <2>2
<1>4. CopiesHonest'
  BY HonestStep DEF LedgerInv
<1>5. Names(status)' = Names(status) /\ Keys(status)' = Keys(status)
  BY DEF Names, Keys
<1>6. recorded.runs \subseteq Run /\ recorded.keys \subseteq Node \X Run
  BY DEF LedgerInv, Counted
<1>7. (\A n \in recorded.runs : n \in Run) /\ (\A k \in recorded.keys : k[2] \in Run)
  BY <1>6
<1>8. /\ \A n \in recorded.runs : worker'[n].pc # "new"
      /\ \A k \in recorded.keys : worker'[k[2]].pc # "new"
  BY <1>3, <1>7 DEF LedgerInv, Counted, Onward
<1>9. ASSUME ~overtaken
      PROVE  /\ \A n \in recorded.runs \ Names(status) : worker'[n].pc = "done"
             /\ \A k \in recorded.keys \ Keys(status) : worker'[k[2]].pc = "done"
  BY <1>3, <1>7, <1>9 DEF LedgerInv, Counted, Onward
<1>10. Counted'
  BY <1>5, <1>8, <1>9 DEF LedgerInv, Counted
<1>11. Windowed'
  BY DEF LedgerInv, Windowed
<1> QED  BY <1>2, <1>3, <1>4, <1>10, <1>11 DEF LedgerInv

\* What the worker becomes in its own steps, and when a write returns.
LEMMA WorkStepKeeps ==
  ASSUME NEW r \in Run, worker \in [Run -> Worker], AboutRun(worker[r], r), WorkStep(r)
  PROVE  \E w \in Worker : /\ worker' = [worker EXCEPT ![r] = w]
                           /\ AboutRun(w, r) /\ Onward(worker[r], w)
<1> DEFINE v == worker[r]
<1>1. v \in Worker
  OBVIOUS
<1>2. /\ v.pc \in {"new", "running", "ending", "done"} /\ v.pending \in Write
      /\ v.envs \in SUBSET Envelope /\ v.steps \in 0..MaxNodeSteps
  BY <1>1 DEF Worker, Write
<1>3. Worker = [pc : {"new", "running", "ending", "done"}, pending : Write,
                envs : SUBSET Envelope, steps : 0..MaxNodeSteps]
  BY DEF Worker, Write
<1>4. AboutRun(v, r)
  OBVIOUS
<1>5. NoWrite \in Write /\ Start \in Write /\ Progress \in Write
      /\ NoWrite.kind = "none" /\ Start.kind = "start" /\ Progress.kind = "progress"
  BY DEF NoWrite, Start, Progress, Write
<1> DEFINE Goal == \E w \in Worker : /\ worker' = [worker EXCEPT ![r] = w]
                                     /\ AboutRun(w, r) /\ Onward(v, w)
<1>6. CASE Begin(r)
  <2> DEFINE w == [v EXCEPT !.pc = "running", !.pending = Start]
  <2>1. worker' = [worker EXCEPT ![r] = w] /\ v.pc = "new"
    BY <1>6 DEF Begin
  <2> HIDE DEF v
  <2>2. w \in Worker
    BY <1>1, <1>3, <1>5
  <2>3. w.pc = "running" /\ w.pending = Start /\ w.envs = v.envs
    BY <1>1 DEF Worker
  <2> HIDE DEF w
  <2>4. AboutRun(w, r) /\ Onward(v, w)
    BY <1>4, <1>5, <2>1, <2>3 DEF AboutRun, Onward
  <2> QED  BY <2>1, <2>2, <2>4 DEF v
<1>7. CASE Skip(r)
  <2> DEFINE o == Outcome("skipped", << >>)
             w == [v EXCEPT !.pc = "ending", !.pending = o]
  <2>1. worker' = [worker EXCEPT ![r] = w] /\ v.pc = "new"
    BY <1>7 DEF Skip
  <2>2. o \in Write /\ o.kind = "outcome" /\ o.envs = << >>
    <3>1. << >> \in Seq(Envelope) /\ "skipped" \in RunPhase \ {"running"}
      BY DEF RunPhase
    <3> QED  BY <3>1 DEF Outcome, Write
  <2> HIDE DEF v, o
  <2>3. w \in Worker
    BY <1>1, <1>3, <2>2
  <2>4. w.pc = "ending" /\ w.pending = o /\ w.envs = v.envs
    BY <1>1 DEF Worker
  <2>5. \A i \in 1..Len(o.envs) : o.envs[i].run = r
    <3>1. Len(o.envs) = 0
      BY <2>2
    <3> QED  BY <3>1
  <2> HIDE DEF w
  <2>6. AboutRun(w, r) /\ Onward(v, w)
    BY <1>4, <2>1, <2>2, <2>4, <2>5 DEF AboutRun, Onward
  <2> QED  BY <2>1, <2>3, <2>6 DEF v
<1>8. CASE Turn(r)
  <2> DEFINE n == v.steps + 1
             w == [v EXCEPT !.pending = Progress, !.steps = n]
  <2>1. worker' = [worker EXCEPT ![r] = w] /\ v.pc = "running" /\ v.steps < MaxNodeSteps
    BY <1>8 DEF Turn
  <2> HIDE DEF v
  <2>2. n \in 0..MaxNodeSteps
    BY <1>2, <2>1, StepsAssumption
  <2> HIDE DEF n
  <2>3. w \in Worker
    BY <1>1, <1>3, <1>5, <2>2
  <2>4. w.pc = v.pc /\ w.pending = Progress /\ w.envs = v.envs
    BY <1>1 DEF Worker
  <2> HIDE DEF w
  <2>5. AboutRun(w, r) /\ Onward(v, w)
    BY <1>4, <1>5, <2>1, <2>4 DEF AboutRun, Onward
  <2> QED  BY <2>1, <2>3, <2>5 DEF n, v
<1>9. ASSUME NEW e \in Envelope, NodeDone(r, e) PROVE Goal
  <2> DEFINE n == v.steps + 1
             o == NodeResult(e)
             f == {x \in v.envs : x.node # e.node} \cup {e}
             w == [v EXCEPT !.pending = o, !.envs = f, !.steps = n]
  <2>1. worker' = [worker EXCEPT ![r] = w] /\ v.pc = "running" /\ v.steps < MaxNodeSteps
        /\ e.run = r
    BY <1>9 DEF NodeDone
  <2>2. o \in Write /\ o.kind = "node" /\ o.env = e
    BY DEF NodeResult, Write
  <2> HIDE DEF v
  <2>3. n \in 0..MaxNodeSteps
    BY <1>2, <2>1, StepsAssumption
  <2>4. f \in SUBSET Envelope /\ \A x \in f : x.run = r
    BY <1>2, <1>4, <2>1 DEF AboutRun
  <2>5. IsFiniteSet(f)
    <3> DEFINE g == {x \in v.envs : x.node # e.node}
    <3>1. IsFiniteSet(v.envs) /\ g \in SUBSET v.envs
      BY <1>4 DEF AboutRun
    <3> HIDE DEF g
    <3>2. IsFiniteSet(g)
      BY <3>1, FS_Subset
    <3>3. IsFiniteSet(g \cup {e})
      BY <3>2, FS_AddElement
    <3> QED  BY <3>3 DEF g
  <2> HIDE DEF n, o, f
  <2>6. w \in Worker
    BY <1>1, <1>3, <2>2, <2>3, <2>4
  <2>7. w.pc = v.pc /\ w.pending = o /\ w.envs = f
    BY <1>1 DEF Worker
  <2> HIDE DEF w
  <2>8. AboutRun(w, r) /\ Onward(v, w)
    BY <1>4, <2>1, <2>2, <2>4, <2>5, <2>7 DEF AboutRun, Onward
  <2> QED  BY <2>1, <2>6, <2>8 DEF n, o, f
<1>10. ASSUME NEW phase \in {"succeeded", "failed"}, NEW order \in Orders(worker[r].envs),
              End(r, phase, order)
       PROVE  Goal
  <2> DEFINE o == Outcome(phase, order)
             w == [v EXCEPT !.pc = "ending", !.pending = o]
  <2>1. worker' = [worker EXCEPT ![r] = w] /\ v.pc = "running"
    BY <1>10 DEF End
  <2>2. order \in Seq(Envelope) /\ \A i \in 1..Len(order) : order[i].run = r
    <3> DEFINE c == Cardinality(v.envs)
    <3>1. c \in Nat
      BY <1>4, FS_CardinalityType DEF AboutRun
    <3>2. order \in [1..c -> v.envs]
      BY DEF Orders
    <3> HIDE DEF c, v
    <3>3. order \in Seq(v.envs)
      BY <3>1, <3>2
    <3>4. \A i \in 1..Len(order) : order[i] \in v.envs
      BY <3>3
    <3>5. \A i \in 1..Len(order) : order[i].run = r
      BY <1>4, <3>4 DEF AboutRun
    <3>6. order \in Seq(Envelope)
      BY <1>2, <3>3
    <3> QED  BY <3>5, <3>6
  <2>3. o \in Write /\ o.kind = "outcome" /\ o.envs = order
    <3>1. phase \in RunPhase \ {"running"}
      BY DEF RunPhase
    <3> QED  BY <2>2, <3>1 DEF Outcome, Write
  <2> HIDE DEF v, o
  <2>4. w \in Worker
    BY <1>1, <1>3, <2>3
  <2>5. w.pc = "ending" /\ w.pending = o /\ w.envs = v.envs
    BY <1>1 DEF Worker
  <2> HIDE DEF w
  <2>6. AboutRun(w, r) /\ Onward(v, w)
    BY <1>4, <2>1, <2>2, <2>3, <2>5 DEF AboutRun, Onward
  <2> QED  BY <2>1, <2>4, <2>6 DEF o
<1>11. CASE Crash(r)
  <2> DEFINE w == [v EXCEPT !.pc = "done", !.pending = NoWrite]
  <2>1. worker' = [worker EXCEPT ![r] = w]
    BY <1>11 DEF Crash
  <2> HIDE DEF v
  <2>2. w \in Worker
    BY <1>1, <1>3, <1>5
  <2>3. w.pc = "done" /\ w.pending = NoWrite /\ w.envs = v.envs
    BY <1>1 DEF Worker
  <2> HIDE DEF w
  <2>4. AboutRun(w, r) /\ Onward(v, w)
    BY <1>4, <1>5, <2>3 DEF AboutRun, Onward
  <2> QED  BY <2>1, <2>2, <2>4 DEF v
<1> QED  BY <1>6, <1>7, <1>8, <1>9, <1>10, <1>11 DEF WorkStep

LEMMA ProceedStep ==
  ASSUME NEW r \in Run, NEW v \in Worker, AboutRun(v, r)
  PROVE  /\ Proceed(v) \in Worker /\ AboutRun(Proceed(v), r) /\ Onward(v, Proceed(v))
         /\ v.pc = "ending" => Proceed(v).pc = "done"
<1> DEFINE p == IF v.pc = "ending" THEN "done" ELSE v.pc
           w == [v EXCEPT !.pending = NoWrite, !.pc = p]
<1>1. Proceed(v) = w
  BY DEF Proceed
<1>2. v.pc \in {"new", "running", "ending", "done"}
  BY DEF Worker
<1>3. p \in {"new", "running", "ending", "done"}
  BY <1>2
<1>4. NoWrite \in Write /\ NoWrite.kind = "none"
  BY DEF NoWrite, Write
<1>5. Onward(v, [pc |-> p]) /\ (v.pc = "ending" => p = "done")
  BY DEF Onward
<1> HIDE DEF p
<1>6. Worker = [pc : {"new", "running", "ending", "done"}, pending : Write,
                envs : SUBSET Envelope, steps : 0..MaxNodeSteps]
  BY DEF Worker, Write
<1>7. w \in Worker
  BY <1>3, <1>4, <1>6
<1>8. w.pc = p /\ w.pending = NoWrite /\ w.envs = v.envs
  BY DEF Worker
<1> HIDE DEF w
<1>9. AboutRun(w, r) /\ Onward(v, w)
  BY <1>4, <1>5, <1>8 DEF AboutRun, Onward
<1> QED  BY <1>1, <1>5, <1>7, <1>8, <1>9

\* What a write adds to the record it also adds to the kept entries, and what
\* compaction then drops it counts: the count stays that of the lost entries.
Tallied(rec, kept, added, next) ==
  /\ IsFiniteSet(rec) /\ kept \subseteq rec /\ added \cap (rec \ kept) = {}
  /\ next \subseteq kept \cup added /\ IsFiniteSet((kept \cup added) \ next)

LEMMA DropCount ==
  ASSUME NEW rec, NEW kept, NEW added, NEW next, Tallied(rec, kept, added, next)
  PROVE  Cardinality((rec \cup added) \ next)
           = Cardinality(rec \ kept) + Cardinality((kept \cup added) \ next)
<1> DEFINE A == rec \ kept
           B == (kept \cup added) \ next
<1>1. IsFiniteSet(A) /\ IsFiniteSet(B)
  BY FS_Difference DEF Tallied
<1>2. (rec \cup added) \ next = A \cup B /\ A \cap B = {}
  BY DEF Tallied
<1> HIDE DEF A, B
<1>3. Cardinality(A \cup B) = Cardinality(A) + Cardinality(B) - Cardinality(A \cap B)
  BY <1>1, FS_Union
<1>4. Cardinality(A) \in Nat /\ Cardinality(B) \in Nat /\ Cardinality(A \cap B) = 0
  BY <1>1, <1>2, FS_CardinalityType, FS_EmptySet
<1>5. Cardinality(A \cup B) = Cardinality(A) + Cardinality(B)
  BY <1>3, <1>4
<1> DEFINE C == (rec \cup added) \ next
<1>6. C = A \cup B
  BY <1>2
<1> HIDE DEF C
<1>7. Cardinality(C) = Cardinality(A) + Cardinality(B)
  BY <1>5, <1>6
<1> QED  BY <1>7 DEF A, B, C

\* The runs of what a write records.
LEMMA WrittenRuns ==
  ASSUME NEW r \in Run, worker[r].pending \in Write, AboutRun(worker[r], r), Waiting(r)
  PROVE  /\ Written(r).runs \subseteq {r} /\ Written(r).keys \subseteq Node \X Run
         /\ \A k \in Written(r).keys : k[2] = r
<1> DEFINE w == worker[r].pending
<1>1. w \in Write /\ w # NoWrite
  BY DEF Waiting
<1>2. w.kind \in {"start", "progress", "node", "outcome"}
  BY <1>1 DEF Write, NoWrite
<1>3. Written(r).runs \subseteq {r}
  BY DEF Written
<1>4. \A e \in Envelope : e.node \in Node /\ e.run \in Run
  BY DEF Envelope
<1>5. CASE w.kind \in {"start", "progress"}
  <2>1. Written(r).keys = {}
    BY <1>5 DEF Written
  <2> QED  BY <1>3, <2>1
<1>6. CASE w.kind = "node"
  <2>1. w.env \in Envelope /\ w.env.run = r
    BY <1>1, <1>6 DEF Write, AboutRun
  <2>2. Written(r).keys = {<<w.env.node, w.env.run>>}
    BY <1>6 DEF Written
  <2> QED  BY <1>3, <1>4, <2>1, <2>2
<1>7. CASE w.kind = "outcome"
  <2>1. w.envs \in Seq(Envelope)
    BY <1>1, <1>7 DEF Write
  <2>2. \A i \in 1..Len(w.envs) : w.envs[i].run = r
    BY <1>7 DEF AboutRun
  <2>3. Written(r).keys = {<<e.node, e.run>> : e \in {w.envs[i] : i \in DOMAIN w.envs}}
    BY <1>7 DEF Written
  <2> HIDE DEF w
  <2>4. DOMAIN w.envs = 1..Len(w.envs) /\ \A i \in 1..Len(w.envs) : w.envs[i] \in Envelope
    BY <2>1
  <2>5. \A i \in DOMAIN w.envs : w.envs[i] \in Envelope /\ w.envs[i].run = r
    BY <2>2, <2>4
  <2>6. Written(r).keys \subseteq {<<n, r>> : n \in Node}
    BY <1>4, <2>3, <2>5
  <2> QED  BY <1>3, <2>6
<1> QED  BY <1>2, <1>5, <1>6, <1>7

LEMMA PatchCounts ==
  ASSUME LedgerInv, [Next]_vars, NEW r \in Run, Patch(r)
  PROVE  LedgerInv'
<1> DEFINE v == worker[r]
           m == Mutate(status, r, worker[r].pending)
           t == compactStatus(m)
           wr == Written(r)
<1>1. /\ status \in Status /\ worker \in [Run -> Worker] /\ CopiesHonest /\ AboutRun(v, r)
      /\ Distinct(RunNames(status.runs)) /\ Distinct(EnvKeys(status.results)) /\ Counted
      /\ overtaken \in BOOLEAN
  BY DEF LedgerInv
<1>2. copy[r].status = status
  BY <1>1 DEF CopiesHonest, Honest, Patch, Current
<1>3. /\ Waiting(r) /\ status' = t /\ worker' = [worker EXCEPT ![r] = Proceed(v)]
      /\ recorded' = [runs |-> recorded.runs \cup wr.runs, keys |-> recorded.keys \cup wr.keys,
                      refs |-> recorded.refs \cup wr.refs]
      /\ overtaken' = \/ overtaken
                      \/ (Names(m) \ Names(t)) \cap InFlight(r) # {}
                      \/ \E k \in Keys(m) \ Keys(t) : k[2] \in InFlight(r)
  BY <1>2 DEF Patch, Return
<1>4. v \in Worker /\ v.pending \in Write /\ v.pc \in {"running", "ending"}
  <2>1. v \in Worker
    BY <1>1
  <2>2. v.pending # NoWrite
    BY <1>3 DEF Waiting
  <2> HIDE DEF v
  <2> QED  BY <1>1, <2>1, <2>2 DEF Worker, Write, AboutRun
<1>5. /\ m \in Status /\ Distinct(RunNames(m.runs)) /\ Distinct(EnvKeys(m.results))
      /\ m.compactedRuns = status.compactedRuns /\ m.compactedResults = status.compactedResults
      /\ Names(m) = Names(status) \cup wr.runs /\ Keys(m) = Keys(status) \cup wr.keys
  BY <1>1, <1>3, <1>4, MutateFacts
<1>6. wr.runs \subseteq {r} /\ wr.keys \subseteq Node \X Run /\ \A k \in wr.keys : k[2] = r
  BY <1>1, <1>3, <1>4, WrittenRuns
<1>7. /\ Proceed(v) \in Worker /\ AboutRun(Proceed(v), r) /\ Onward(v, Proceed(v))
      /\ v.pc = "ending" => Proceed(v).pc = "done"
  BY <1>1, <1>4, ProceedStep
<1> HIDE DEF m
<1>8. Windowed'
  BY <1>3, <1>5, CompactWindows
<1>9. /\ t \in Status /\ Distinct(RunNames(t.runs)) /\ Distinct(EnvKeys(t.results))
      /\ Names(t) \subseteq Names(m) /\ Keys(t) \subseteq Keys(m)
      /\ IsFiniteSet(Names(m) \ Names(t)) /\ IsFiniteSet(Keys(m) \ Keys(t))
      /\ t.compactedRuns = m.compactedRuns + Cardinality(Names(m) \ Names(t))
      /\ t.compactedResults = m.compactedResults + Cardinality(Keys(m) \ Keys(t))
  BY <1>5, CompactKeys
<1> HIDE DEF t, wr
<1>10. recorded'.runs = recorded.runs \cup wr.runs /\ recorded'.keys = recorded.keys \cup wr.keys
  BY <1>3
<1>11. /\ recorded.runs \subseteq Run /\ recorded.keys \subseteq Node \X Run
       /\ IsFiniteSet(recorded.runs) /\ IsFiniteSet(recorded.keys)
       /\ Names(status) \subseteq recorded.runs /\ Keys(status) \subseteq recorded.keys
       /\ \A n \in recorded.runs : worker[n].pc # "new"
       /\ \A k \in recorded.keys : worker[k[2]].pc # "new"
  BY <1>1 DEF Counted
<1>12. Names(status)' = Names(t) /\ Keys(status)' = Keys(t)
  BY <1>3 DEF Names, Keys
<1>13. IsFiniteSet(recorded'.runs) /\ IsFiniteSet(recorded'.keys)
  <2>1. IsFiniteSet(Names(m)) /\ IsFiniteSet(Keys(m))
    <3>1. RunNames(m.runs) \in Seq(Run) /\ EnvKeys(m.results) \in Seq(Node \X Run)
      BY <1>5, KeyLists
    <3>2. IsFiniteSet(Members(RunNames(m.runs)))
      BY <1>5, <3>1, DistinctCount
    <3>3. IsFiniteSet(Members(EnvKeys(m.results)))
      BY <1>5, <3>1, DistinctCount
    <3> QED  BY <1>5, <3>2, <3>3, KeySets
  <2>2. recorded'.runs = recorded.runs \cup Names(m) /\ recorded'.keys = recorded.keys \cup Keys(m)
    BY <1>5, <1>10, <1>11
  <2> QED  BY <1>11, <2>1, <2>2, FS_Union
<1>14. /\ \A q \in Run : worker'[q] = IF q = r THEN Proceed(v) ELSE worker[q]
       /\ worker' \in [Run -> Worker]
  BY <1>1, <1>3, <1>7
<1>15. \A q \in Run : worker[q].pc \in {"new", "running", "ending", "done"}
  <2>1. \A q \in Run : worker[q] \in Worker
    BY <1>1
  <2> QED  BY <2>1 DEF Worker
<1>16. Proceed(v).pc # "new"
  BY <1>4, <1>7 DEF Onward
<1>17. ASSUME NEW n \in Run, n # r => worker[n].pc # "new" PROVE worker'[n].pc # "new"
  BY <1>14, <1>16, <1>17
<1>18. /\ \A n \in recorded'.runs : n \in Run /\ worker'[n].pc # "new"
       /\ \A k \in recorded'.keys : k[2] \in Run /\ worker'[k[2]].pc # "new"
  <2>1. \A n \in recorded'.runs : n \in Run /\ (n # r => worker[n].pc # "new")
    BY <1>6, <1>10, <1>11
  <2>2. \A k \in recorded'.keys : k[2] \in Run /\ (k[2] # r => worker[k[2]].pc # "new")
    BY <1>6, <1>10, <1>11
  <2> QED  BY <1>17, <2>1, <2>2
<1>19. ASSUME ~overtaken'
       PROVE  /\ \A n \in recorded'.runs \ Names(t) : worker'[n].pc = "done"
              /\ \A k \in recorded'.keys \ Keys(t) : worker'[k[2]].pc = "done"
              /\ t.compactedRuns = Cardinality(recorded'.runs \ Names(t))
              /\ t.compactedResults = Cardinality(recorded'.keys \ Keys(t))
  <2>1. /\ ~overtaken /\ (\A n \in Names(m) \ Names(t) : n \notin InFlight(r))
        /\ \A k \in Keys(m) \ Keys(t) : k[2] \notin InFlight(r)
    BY <1>3, <1>19
  <2>2. /\ \A n \in recorded.runs \ Names(status) : worker[n].pc = "done"
        /\ \A k \in recorded.keys \ Keys(status) : worker[k[2]].pc = "done"
        /\ status.compactedRuns = Cardinality(recorded.runs \ Names(status))
        /\ status.compactedResults = Cardinality(recorded.keys \ Keys(status))
    BY <1>1, <2>1 DEF Counted
  <2>3. ASSUME NEW n \in Run, worker[n].pc = "done" PROVE worker'[n].pc = "done" /\ n # r
    BY <1>4, <1>14, <2>3
  <2>4. ASSUME NEW n \in Run, n # r => worker[n].pc # "new", n \notin InFlight(r)
        PROVE  worker'[n].pc = "done"
    <3>1. CASE n = r
      BY <1>4, <1>7, <1>14, <2>4, <3>1 DEF InFlight
    <3>2. CASE n # r
      BY <1>14, <1>15, <2>4, <3>2 DEF InFlight
    <3> QED  BY <3>1, <3>2
  <2>5. \A n \in recorded'.runs \ Names(t) : worker'[n].pc = "done"
    <3> SUFFICES ASSUME NEW n \in recorded'.runs \ Names(t) PROVE worker'[n].pc = "done"
      OBVIOUS
    <3>1. n \in Run /\ (n \in recorded.runs \ Names(status) \/ n \in Names(m) \ Names(t))
      BY <1>5, <1>10, <1>18
    <3>2. n # r => worker[n].pc # "new"
      BY <1>6, <1>10, <1>11
    <3> QED  BY <2>1, <2>2, <2>3, <2>4, <3>1, <3>2
  <2>6. \A k \in recorded'.keys \ Keys(t) : worker'[k[2]].pc = "done"
    <3> SUFFICES ASSUME NEW k \in recorded'.keys \ Keys(t) PROVE worker'[k[2]].pc = "done"
      OBVIOUS
    <3>1. k[2] \in Run /\ (k \in recorded.keys \ Keys(status) \/ k \in Keys(m) \ Keys(t))
      BY <1>5, <1>10, <1>18
    <3>2. k[2] # r => worker[k[2]].pc # "new"
      BY <1>6, <1>10, <1>11
    <3> QED  BY <2>1, <2>2, <2>3, <2>4, <3>1, <3>2
  <2>7. t.compactedRuns = Cardinality(recorded'.runs \ Names(t))
    <3>1. wr.runs \cap (recorded.runs \ Names(status)) = {}
      BY <1>6, <1>11, <2>2, <2>3
    <3> DEFINE rec == recorded.runs
               kept == Names(status)
               added == wr.runs
               next == Names(t)
    <3>2. Tallied(rec, kept, added, next)
      BY <1>5, <1>9, <1>11, <3>1 DEF Tallied
    <3> HIDE DEF rec, kept, added, next
    <3>3. Cardinality((rec \cup added) \ next)
            = Cardinality(rec \ kept) + Cardinality((kept \cup added) \ next)
      BY <3>2, DropCount
    <3> QED  BY <1>5, <1>9, <1>10, <2>2, <3>3 DEF rec, kept, added, next
  <2>8. t.compactedResults = Cardinality(recorded'.keys \ Keys(t))
    <3>1. wr.keys \cap (recorded.keys \ Keys(status)) = {}
      BY <1>6, <1>11, <2>2, <2>3
    <3> DEFINE rec == recorded.keys
               kept == Keys(status)
               added == wr.keys
               next == Keys(t)
    <3>2. Tallied(rec, kept, added, next)
      BY <1>5, <1>9, <1>11, <3>1 DEF Tallied
    <3> HIDE DEF rec, kept, added, next
    <3>3. Cardinality((rec \cup added) \ next)
            = Cardinality(rec \ kept) + Cardinality((kept \cup added) \ next)
      BY <3>2, DropCount
    <3> QED  BY <1>5, <1>9, <1>10, <2>2, <3>3 DEF rec, kept, added, next
  <2> QED  BY <2>5, <2>6, <2>7, <2>8
<1>20. Counted'
  <2>1. /\ recorded'.runs \subseteq Run /\ recorded'.keys \subseteq Node \X Run
        /\ Names(t) \subseteq recorded'.runs /\ Keys(t) \subseteq recorded'.keys
    BY <1>5, <1>6, <1>9, <1>10, <1>11
  <2> QED  BY <1>3, <1>12, <1>13, <1>18, <1>19, <2>1 DEF Counted
<1>21. \A q \in Run : AboutRun(worker'[q], q)
  BY <1>7, <1>14 DEF LedgerInv
<1>22. CopiesHonest' /\ overtaken' \in BOOLEAN
  BY <1>1, <1>3, HonestStep
<1> QED  BY <1>3, <1>8, <1>9, <1>14, <1>20, <1>21, <1>22 DEF LedgerInv

LEMMA LedgerStep == LedgerInv /\ [Next]_vars => LedgerInv'
<1> SUFFICES ASSUME LedgerInv, [Next]_vars PROVE LedgerInv'
  OBVIOUS
<1>1. worker \in [Run -> Worker] /\ \A r \in Run : AboutRun(worker[r], r)
  BY DEF LedgerInv
<1>2. ASSUME NEW r \in Run, UNCHANGED <<status, recorded, overtaken>>,
             worker' = [worker EXCEPT ![r] = Proceed(worker[r])]
      PROVE  LedgerInv'
  <2> DEFINE w == Proceed(worker[r])
  <2>1. w \in Worker /\ AboutRun(w, r) /\ Onward(worker[r], w)
    BY <1>1, ProceedStep
  <2> HIDE DEF w
  <2>2. worker' = [worker EXCEPT ![r] = w]
    BY <1>2 DEF w
  <2> QED  BY <1>2, <2>1, <2>2, Calm
<1>3. ASSUME UNCHANGED <<status, worker, recorded, overtaken>> PROVE LedgerInv'
  <2>1. CopiesHonest'
    BY HonestStep DEF LedgerInv
  <2>2. Counted' /\ Windowed'
    BY <1>3 DEF LedgerInv, Counted, Windowed, Names, Keys
  <2> QED  BY <1>3, <2>1, <2>2 DEF LedgerInv
<1>4. ASSUME NEW r \in Run, Work(r) PROVE LedgerInv'
  <2>1. WorkStep(r) /\ UNCHANGED <<status, recorded, overtaken>>
    BY <1>4 DEF Work
  <2>2. PICK w \in Worker : /\ worker' = [worker EXCEPT ![r] = w]
                            /\ AboutRun(w, r) /\ Onward(worker[r], w)
    BY <1>1, <2>1, WorkStepKeeps
  <2> QED  BY <2>1, <2>2, Calm
<1>5. ASSUME NEW r \in Run, Get(r) PROVE LedgerInv'
  BY <1>3, <1>5 DEF Get
<1>6. ASSUME NEW r \in Run, Patch(r) PROVE LedgerInv'
  BY <1>6, PatchCounts
<1>7. ASSUME NEW r \in Run, Conflict(r) PROVE LedgerInv'
  <2>1. CASE UNCHANGED worker
    BY <1>3, <1>7, <2>1 DEF Conflict
  <2>2. CASE Return(r)
    BY <1>2, <1>7, <2>2 DEF Conflict, Return
  <2> QED  BY <1>7, <2>1, <2>2 DEF Conflict
<1>8. ASSUME NEW r \in Run, Fail(r) PROVE LedgerInv'
  BY <1>2, <1>8 DEF Fail, Return
<1>9. CASE UNCHANGED vars
  BY <1>3, <1>9 DEF vars
<1> QED  BY <1>4, <1>5, <1>6, <1>7, <1>8, <1>9 DEF Next

\* A set is as large as its part that is kept and its part that is lost.
LEMMA KeptAndLost ==
  ASSUME NEW rec, NEW kept, NEW n \in Nat, NEW c, IsFiniteSet(rec), kept \subseteq rec,
         Cardinality(kept) = n, c = Cardinality(rec \ kept)
  PROVE  n + c = Cardinality(rec)
<1>1. rec \cap kept = kept
  OBVIOUS
<1>2. Cardinality(rec \ kept) = Cardinality(rec) - Cardinality(kept)
  BY <1>1, FS_Difference
<1>3. Cardinality(rec) \in Nat
  BY FS_CardinalityType
<1> QED  BY <1>2, <1>3

LEMMA LedgerImplies == LedgerInv => TotalsExact
<1> SUFFICES ASSUME LedgerInv PROVE TotalsExact
  OBVIOUS
<1>1. /\ status \in Status /\ Windowed /\ Counted
      /\ Distinct(RunNames(status.runs)) /\ Distinct(EnvKeys(status.results))
  BY DEF LedgerInv
<1>2. Cardinality(Names(status)) = Len(status.runs)
      /\ Cardinality(Keys(status)) = Len(status.results)
  <2>1. /\ RunNames(status.runs) \in Seq(Run) /\ Len(RunNames(status.runs)) = Len(status.runs)
        /\ EnvKeys(status.results) \in Seq(Node \X Run)
        /\ Len(EnvKeys(status.results)) = Len(status.results)
    BY <1>1, KeyLists
  <2>2. Cardinality(Members(RunNames(status.runs))) = Len(status.runs)
    BY <1>1, <2>1, DistinctCount
  <2>3. Cardinality(Members(EnvKeys(status.results))) = Len(status.results)
    BY <1>1, <2>1, DistinctCount
  <2> QED  BY <1>1, <2>2, <2>3, KeySets
<1>3. Len(status.runs) \in Nat /\ Len(status.results) \in Nat
  BY <1>1 DEF Status
<1>4. ASSUME ~overtaken PROVE TotalRuns(status) = Cardinality(recorded.runs)
  BY <1>1, <1>2, <1>3, <1>4, KeptAndLost DEF Counted, TotalRuns
<1>5. ASSUME ~overtaken PROVE TotalNodeResults(status) = Cardinality(recorded.keys)
  BY <1>1, <1>2, <1>3, <1>5, KeptAndLost DEF Counted, TotalNodeResults
<1> QED  BY <1>1, <1>4, <1>5 DEF TotalsExact

(***************************************************************************)
(* Compaction bounds the lists and loses no count: after every write each  *)
(* list is inside its window and the envelopes inside their byte budget or *)
(* at its floor, and the totals shown for the Attempt count every run and  *)
(* every (node, run) ever recorded once, unless compaction dropped an      *)
(* entry of a run that was still to write it again.                        *)
(***************************************************************************)
THEOREM TotalsAreExact == Spec => []TotalsExact
<1> QED  BY LedgerInit, LedgerStep, LedgerImplies, PTL DEF Spec

\* What a run records besides its keys are references.
LEMMA WrittenRefs ==
  ASSUME NEW r \in Run, worker[r].pending \in Write
  PROVE  Written(r).refs \subseteq Reference
<1> DEFINE w == worker[r].pending
<1>1. CASE w.kind = "outcome"
  <2>1. w.envs \in Seq(Envelope)
    BY <1>1 DEF Write
  <2>2. Written(r).refs = {e.ref : e \in {w.envs[i] : i \in DOMAIN w.envs}} \ {NoReference}
    BY <1>1 DEF Written
  <2> HIDE DEF w
  <2>3. \A i \in DOMAIN w.envs : w.envs[i] \in Envelope
    BY <2>1
  <2>4. \A e \in Envelope : e.ref \in Reference \cup {NoReference}
    BY DEF Envelope
  <2> QED  BY <2>2, <2>3, <2>4
<1>2. CASE w.kind # "outcome"
  BY <1>2 DEF Written
<1> QED  BY <1>1, <1>2

\* The copies and the record, which the totals do not need in full.
KeptTypes == copy \in [Run -> Copy] /\ recorded \in Recorded

LEMMA KeptInit == Init => KeptTypes
<1> SUFFICES ASSUME Init PROVE KeptTypes
  OBVIOUS
<1>1. copy = [r \in Run |-> NoCopy] /\ recorded = [runs |-> {}, keys |-> {}, refs |-> {}]
  BY DEF Init
<1>2. EmptyStatus \in Status
  BY LedgerInit DEF LedgerInv, Init, AtomicInit
<1>3. 0 \in Nat /\ 0 \in 0..MaxTries
  BY TriesAssumption
<1>4. NoCopy \in Copy
  BY <1>2, <1>3 DEF NoCopy, Copy
<1> QED  BY <1>1, <1>4 DEF KeptTypes, Recorded

LEMMA KeptStep ==
  ASSUME LedgerInv, KeptTypes, [Next]_vars
  PROVE  KeptTypes'
<1>1. copy \in [Run -> Copy] /\ recorded \in Recorded /\ status \in Status /\ version \in Nat
  BY DEF KeptTypes, LedgerInv, CopiesHonest
<1>2. EmptyStatus \in Status
  <2>1. << >> \in Seq(RunRecord) /\ << >> \in Seq(Envelope) /\ << >> \in Seq(Reference) /\ 0 \in Nat
    OBVIOUS
  <2> QED  BY <2>1 DEF EmptyStatus, Status
<1>3. 0 \in Nat /\ 0 \in 0..MaxTries
  BY TriesAssumption
<1>4. NoCopy \in Copy
  BY <1>2, <1>3 DEF NoCopy, Copy
<1>5. ASSUME NEW r \in Run, NEW c \in Copy, copy' = [copy EXCEPT ![r] = c] PROVE copy' \in [Run -> Copy]
  BY <1>1, <1>5
<1>6. ASSUME NEW r \in Run PROVE copy[r].tries \in 0..MaxTries
  <2>1. copy[r] \in Copy
    BY <1>1
  <2> QED  BY <2>1 DEF Copy
<1>7. ASSUME NEW r \in Run, Work(r) PROVE KeptTypes'
  BY <1>1, <1>4, <1>5, <1>7 DEF Work, KeptTypes
<1>8. ASSUME NEW r \in Run, Get(r) PROVE KeptTypes'
  <2> DEFINE n == copy[r].tries
             c == [held |-> TRUE, version |-> version, status |-> status, tries |-> n]
  <2>1. copy' = [copy EXCEPT ![r] = c] /\ recorded' = recorded
    BY <1>8 DEF Get
  <2>2. n \in 0..MaxTries
    BY <1>6
  <2> HIDE DEF n
  <2>3. c \in Copy
    BY <1>1, <2>2 DEF Copy
  <2> HIDE DEF c
  <2> QED  BY <1>1, <1>5, <2>1, <2>3 DEF KeptTypes
<1>9. ASSUME NEW r \in Run, Patch(r) PROVE KeptTypes'
  <2> DEFINE wr == Written(r)
  <2>1. copy' = [copy EXCEPT ![r] = NoCopy]
        /\ recorded' = [runs |-> recorded.runs \cup wr.runs, keys |-> recorded.keys \cup wr.keys,
                        refs |-> recorded.refs \cup wr.refs]
    BY <1>9 DEF Patch, Return
  <2>2. Waiting(r) /\ worker[r] \in Worker /\ AboutRun(worker[r], r)
    BY <1>9 DEF Patch, LedgerInv
  <2>3. worker[r].pending \in Write
    BY <2>2 DEF Worker, Write
  <2>4. wr.runs \subseteq Run /\ wr.keys \subseteq Node \X Run /\ wr.refs \subseteq Reference
    BY <2>2, <2>3, WrittenRuns, WrittenRefs
  <2> HIDE DEF wr
  <2>5. recorded' \in Recorded
    BY <1>1, <2>1, <2>4 DEF Recorded
  <2> QED  BY <1>4, <1>5, <2>1, <2>5 DEF KeptTypes
<1>10. ASSUME NEW r \in Run, Conflict(r) PROVE KeptTypes'
  <2> DEFINE n == copy[r].tries + 1
             c == [held |-> FALSE, version |-> 0, status |-> EmptyStatus, tries |-> n]
  <2>1. recorded' = recorded
        /\ ((n < MaxTries /\ copy' = [copy EXCEPT ![r] = c]) \/ copy' = [copy EXCEPT ![r] = NoCopy])
    BY <1>10 DEF Conflict, Return
  <2>2. n < MaxTries => n \in 0..MaxTries
    BY <1>6, TriesAssumption
  <2> HIDE DEF n
  <2>3. n < MaxTries => c \in Copy
    BY <1>2, <1>3, <2>2 DEF Copy
  <2> HIDE DEF c
  <2> QED  BY <1>1, <1>4, <1>5, <2>1, <2>3 DEF KeptTypes
<1>11. ASSUME NEW r \in Run, Fail(r) PROVE KeptTypes'
  BY <1>1, <1>4, <1>5, <1>11 DEF Fail, Return, KeptTypes
<1>12. CASE UNCHANGED vars
  BY <1>1, <1>12 DEF vars, KeptTypes
<1> QED  BY <1>7, <1>8, <1>9, <1>10, <1>11, <1>12 DEF Next

(***************************************************************************)
(* The status, the workers and the reads they hold are type correct for    *)
(* any runs, windows and retry limit: compaction never counts below zero   *)
(* or cuts past a list's end, and no write retries past its limit.         *)
(***************************************************************************)
THEOREM LedgerTypes == Spec => []TypeOK
<1>1. LedgerInv /\ KeptTypes => TypeOK
  BY DEF LedgerInv, CopiesHonest, KeptTypes, TypeOK
<1>2. LedgerInv /\ KeptTypes /\ [Next]_vars => LedgerInv' /\ KeptTypes'
  BY LedgerStep, KeptStep
<1> QED  BY <1>1, <1>2, LedgerInit, KeptInit, PTL DEF Spec

--------------------------------------------------------------------------------
(***************************************************************************)
(* The live page.                                                          *)
(***************************************************************************)

LEMMA ClosedType == \A k \in Pages : ClosedPage(k) \in Page
<1>1. 0 \in 0..Buffer /\ 0 \in Nat
  BY LivePageAssumption
<1>2. SUFFICES ASSUME NEW k \in Pages PROVE ClosedPage(k) \in Page
  OBVIOUS
<1>3. DEFINE Z == 0 Y == 0..Buffer
<1>4. Z \in Y /\ Z \in Nat
  BY <1>1
<1>5. HIDE DEF Z, Y
<1> QED  BY <1>4 DEF ClosedPage, Page, Z, Y

LEMMA TypeInit == PageInit => PageTypeOK
<1>1. SUFFICES ASSUME PageInit PROVE PageTypeOK
  OBVIOUS
<1>2. page \in Page
  BY <1>1, ClosedType DEF PageInit
<1>3. rev \in Nat /\ faults \in 0..MaxFaults
  BY <1>1, LivePageAssumption DEF PageInit
<1>4. wire \in Seq(Event)
  BY <1>1 DEF PageInit
<1>5. /\ records \in [Runs -> {"none", "running", "ended"}] /\ exists \in BOOLEAN
      /\ stage \in [Runs -> {"idle", "begun", "noded", "done"}]
  BY <1>1 DEF PageInit
<1> QED  BY <1>2, <1>3, <1>4, <1>5 DEF PageTypeOK

(* A publication puts an event of the current write on the wire, or none.    *)
LEMMA PublishType ==
  ASSUME wire \in Seq(Event), rev \in Nat,
         NEW a \in {This, Other, NoAttempt}, publishLifecycle(a)
  PROVE  /\ wire' \in Seq(Event)
         /\ \A k \in DOMAIN wire' : wire'[k].rev = rev \/ (k \in DOMAIN wire /\ wire'[k] = wire[k])
<1>1. [attempt |-> a, rev |-> rev] \in Event
  BY DEF Event
<1>2. DEFINE e == [attempt |-> a, rev |-> rev]
<1>3. wire' = wire \/ wire' = Append(wire, e)
  BY DEF publishLifecycle
<1>4. e \in Event /\ e.rev = rev
  BY <1>1
<1>5. HIDE DEF e
<1>6. CASE wire' = wire
  BY <1>6
<1>7. CASE wire' = Append(wire, e)
  <2>1. wire' \in Seq(Event) /\ Len(wire') = Len(wire) + 1
    BY <1>4, <1>7
  <2>2. \A k \in 1..Len(wire) : wire'[k] = wire[k]
    BY <1>4, <1>7
  <2>3. wire'[Len(wire) + 1] = e
    BY <1>4, <1>7
  <2>4. Len(wire) \in Nat /\ DOMAIN wire = 1..Len(wire) /\ DOMAIN wire' = 1..(Len(wire) + 1)
    BY <2>1
  <2>5. ASSUME NEW k \in DOMAIN wire'
        PROVE  wire'[k].rev = rev \/ (k \in DOMAIN wire /\ wire'[k] = wire[k])
    <3>1. CASE k = Len(wire) + 1
      BY <1>4, <2>3, <3>1
    <3>2. CASE k # Len(wire) + 1
      <4>1. k \in 1..Len(wire)
        BY <2>4, <3>2
      <4> QED  BY <2>2, <2>4, <4>1
    <3> QED  BY <3>1, <3>2
  <2> QED  BY <2>1, <2>5
<1> QED  BY <1>3, <1>6, <1>7

LEMMA RemoveType ==
  ASSUME NEW s \in Seq(Event), NEW i \in DOMAIN s
  PROVE  /\ RemoveAt(s, i) \in Seq(Event)
         /\ \A k \in DOMAIN RemoveAt(s, i) : \E j \in DOMAIN s : RemoveAt(s, i)[k] = s[j]
<1>1. i \in 1..Len(s) /\ Len(s) \in Nat
  OBVIOUS
<1>2. SubSeq(s, 1, i - 1) \in Seq(Event) /\ Len(SubSeq(s, 1, i - 1)) = i - 1
  BY <1>1
<1>3. SubSeq(s, i + 1, Len(s)) \in Seq(Event) /\ Len(SubSeq(s, i + 1, Len(s))) = Len(s) - i
  BY <1>1
<1>4. \A k \in 1..(i - 1) : SubSeq(s, 1, i - 1)[k] = s[k]
  BY <1>1
<1>5. \A k \in 1..(Len(s) - i) : SubSeq(s, i + 1, Len(s))[k] = s[i + k]
  BY <1>1
<1>6. DEFINE u == SubSeq(s, 1, i - 1) v == SubSeq(s, i + 1, Len(s))
<1>7. RemoveAt(s, i) = u \o v
  BY DEF RemoveAt
<1>8. u \in Seq(Event) /\ v \in Seq(Event) /\ Len(u) = i - 1 /\ Len(v) = Len(s) - i
  BY <1>2, <1>3
<1>9. /\ \A k \in 1..(i - 1) : u[k] = s[k]
      /\ \A k \in 1..(Len(s) - i) : v[k] = s[i + k]
  BY <1>4, <1>5
<1>10. HIDE DEF u, v
<1>11. u \o v \in Seq(Event) /\ Len(u \o v) = Len(s) - 1
  BY <1>1, <1>8
<1>12. ASSUME NEW k \in 1..(Len(s) - 1)
       PROVE  \E j \in 1..Len(s) : (u \o v)[k] = s[j]
  <2>1. CASE k <= i - 1
    <3>1. (u \o v)[k] = u[k]
      BY <1>1, <1>8, <2>1
    <3> QED  BY <1>1, <1>9, <2>1, <3>1
  <2>2. CASE k > i - 1
    <3>1. (u \o v)[k] = v[k - (i - 1)]
      BY <1>1, <1>8, <2>2
    <3>2. k - (i - 1) \in 1..(Len(s) - i) /\ i + (k - (i - 1)) = k + 1
      BY <1>1, <2>2
    <3>3. v[k - (i - 1)] = s[k + 1]
      BY <1>9, <3>2
    <3> QED  BY <1>1, <3>1, <3>3
  <2> QED
    <3>1. k <= i - 1 \/ k > i - 1
      BY <1>1
    <3> QED  BY <2>1, <2>2, <3>1
<1>13. DOMAIN s = 1..Len(s) /\ DOMAIN (u \o v) = 1..(Len(s) - 1)
  BY <1>11
<1> QED  BY <1>7, <1>11, <1>12, <1>13

(* A page that was offered an event is the page, or has a wake queued and    *)
(* the newest of what was announced.                                         *)
LEMMA OfferedType ==
  ASSUME NEW p \in Page, NEW ev \in Event
  PROVE  /\ Offered(p, ev) \in Page
         /\ Offered(p, ev).pc = p.pc
         /\ \/ Offered(p, ev) = p
            \/ /\ Offered(p, ev).ch > 0
               /\ Offered(p, ev).announced \in {p.announced, ev.rev}
<1>1. /\ p.ch \in 0..Buffer /\ p.announced \in Nat /\ ev.rev \in Nat /\ Buffer \in Nat \ {0}
  BY LivePageAssumption DEF Page, Event
<1>2. DEFINE c == IF p.ch < Buffer THEN p.ch + 1 ELSE p.ch
             n == Newest(p.announced, ev.rev)
<1>3. c \in 0..Buffer /\ c > 0
  BY <1>1
<1>4. n \in Nat /\ n \in {p.announced, ev.rev}
  BY <1>1 DEF Newest
<1>5. Offered(p, ev) = IF p.pc # "closed" /\ match(p.kind, ev)
                       THEN [p EXCEPT !.ch = c, !.announced = n] ELSE p
  BY DEF Offered
<1>6. HIDE DEF c, n
<1>7. [p EXCEPT !.ch = c, !.announced = n] \in Page
  BY <1>3, <1>4 DEF Page
<1>8. /\ [p EXCEPT !.ch = c, !.announced = n].pc = p.pc
      /\ [p EXCEPT !.ch = c, !.announced = n].ch = c
      /\ [p EXCEPT !.ch = c, !.announced = n].announced = n
  BY DEF Page
<1> QED  BY <1>3, <1>4, <1>5, <1>7, <1>8

(* A render leaves a typed page that shows the newest write, or has failed;  *)
(* nothing else about a wake changes.                                        *)
LEMMA RenderedType ==
  ASSUME NEW p \in Page, rev \in Nat, exists \in BOOLEAN
  PROVE  /\ Rendered(p) \in Page
         /\ Rendered(p).pc = p.pc
         /\ Rendered(p).announced = p.announced
         /\ Rendered(p).failed \/ Rendered(p).shown = rev
<1>1. attemptSettled \in BOOLEAN
  BY DEF attemptSettled
<1>2. (exists /\ \E r \in Runs : records[r] = "running") \in BOOLEAN
  OBVIOUS
<1>3. DEFINE s == attemptSettled
             f == exists /\ \E r \in Runs : records[r] = "running"
<1>4. s \in BOOLEAN /\ f \in BOOLEAN
  BY <1>1, <1>2
<1>5. Rendered(p) = IF p.kind = "graph" /\ ~exists
                    THEN [p EXCEPT !.terminal = TRUE, !.failed = TRUE]
                    ELSE [p EXCEPT !.terminal = s, !.shown = rev, !.failed = FALSE,
                                   !.inFlight = f]
  BY DEF Rendered
<1>6. HIDE DEF s, f
<1>7. /\ [p EXCEPT !.terminal = TRUE, !.failed = TRUE] \in Page
      /\ [p EXCEPT !.terminal = TRUE, !.failed = TRUE].pc = p.pc
      /\ [p EXCEPT !.terminal = TRUE, !.failed = TRUE].announced = p.announced
      /\ [p EXCEPT !.terminal = TRUE, !.failed = TRUE].failed
  BY DEF Page
<1>8. DEFINE q == [p EXCEPT !.terminal = s, !.shown = rev, !.failed = FALSE, !.inFlight = f]
<1>9. q \in Page /\ q.pc = p.pc /\ q.announced = p.announced /\ q.shown = rev
  BY <1>4 DEF Page
<1> QED  BY <1>5, <1>7, <1>9

-----------------------------------------------------------------------------
(* What has been announced was written: it is no newer than the last write.  *)
Sound ==
    /\ page.announced <= rev
    /\ \A k \in DOMAIN wire : wire[k].rev <= rev

(* A page with a wake queued, or that shows all that was announced to it.    *)
Woken(p) ==
    p.pc = "open" =>
        p.announced <= p.shown \/ p.ch > 0 \/ p.debounce = "armed" \/ p.kick \/ p.failed

IInv == PageTypeOK /\ Sound /\ AnnouncedIsShown

LEMMA WokenIs == AnnouncedIsShown <=> Woken(page)
  BY DEF AnnouncedIsShown, Woken

(* A render of any page whose announcements are sound leaves a woken one.    *)
LEMMA SendKeeps ==
  ASSUME PageTypeOK, NEW p \in Page, p.announced <= rev, send(p)
  PROVE  page' \in Page /\ faults' \in 0..MaxFaults /\ page'.announced = p.announced /\ Woken(page')
<1>1. rev \in Nat /\ exists \in BOOLEAN /\ faults \in 0..MaxFaults /\ MaxFaults \in Nat
  BY LivePageAssumption DEF PageTypeOK
<1>2. CASE page' = Rendered(p) /\ UNCHANGED faults
  <2>1. page' \in Page /\ page'.announced = p.announced /\ (page'.failed \/ page'.shown = rev)
    BY <1>1, <1>2, RenderedType
  <2> QED  BY <1>1, <1>2, <2>1 DEF Woken
<1>3. CASE page' = [p EXCEPT !.failed = TRUE] /\ Fault
  <2>1. page' \in Page /\ page'.announced = p.announced /\ page'.failed
    BY <1>3 DEF Page
  <2>2. faults' \in 0..MaxFaults
    BY <1>1, <1>3 DEF Fault
  <2> QED  BY <2>1, <2>2 DEF Woken
<1> QED  BY <1>2, <1>3 DEF send
LEMMA InitIInv == PageInit => IInv
<1>1. SUFFICES ASSUME PageInit PROVE IInv
  OBVIOUS
<1>2. PageTypeOK
  BY <1>1, TypeInit
<1>3. PICK k \in Pages : page = ClosedPage(k)
  BY <1>1 DEF PageInit
<1>4. page.announced = 0 /\ page.pc = "closed"
  BY <1>3 DEF ClosedPage
<1>5. Sound
  BY <1>1, <1>4 DEF Sound, PageInit
<1> QED  BY <1>2, <1>4, <1>5 DEF IInv, AnnouncedIsShown

(* A step of a worker, or the deletion: the page stays and writes only add.  *)
LEMMA WriterKeeps ==
  ASSUME IInv, UNCHANGED page, rev' \in Nat, rev' >= rev, wire' \in Seq(Event),
         records' \in [Runs -> {"none", "running", "ended"}], exists' \in BOOLEAN,
         stage' \in [Runs -> {"idle", "begun", "noded", "done"}],
         faults' \in 0..MaxFaults,
         \A k \in DOMAIN wire' :
             wire'[k].rev = rev \/ (k \in DOMAIN wire /\ wire'[k] = wire[k])
  PROVE  IInv'
<1>1. rev \in Nat /\ page.announced \in Nat /\ page.announced <= rev
  BY DEF IInv, PageTypeOK, Page, Sound
<1>2. PageTypeOK'
  BY DEF IInv, PageTypeOK
<1>3. page'.announced <= rev'
  BY <1>1
<1>4. ASSUME NEW k \in DOMAIN wire' PROVE wire'[k].rev <= rev'
  <2>1. wire'[k].rev = rev \/ wire'[k].rev <= rev
    BY DEF IInv, Sound
  <2>2. wire'[k] \in Event
    OBVIOUS
  <2>3. wire'[k].rev \in Nat
    BY <2>2 DEF Event
  <2> QED  BY <1>1, <2>1, <2>3
<1>5. Sound'
  BY <1>3, <1>4 DEF Sound
<1> QED  BY <1>2, <1>5 DEF IInv, AnnouncedIsShown

(* A step of the page's loop: it reads the Attempt and writes nothing.       *)
LEMMA PageKeeps ==
  ASSUME IInv, UNCHANGED <<ledger, stage, wire>>, page' \in Page,
         page'.announced \in {page.announced, 0}, Woken(page'), faults' \in 0..MaxFaults
  PROVE  IInv'
<1>1. rev \in Nat /\ page.announced <= rev
  BY DEF IInv, PageTypeOK, Sound
<1>2. PageTypeOK'
  BY DEF IInv, PageTypeOK, ledger
<1>3. page'.announced <= rev'
  BY <1>1 DEF ledger
<1>4. Sound'
  BY <1>3 DEF IInv, Sound, ledger
<1>5. AnnouncedIsShown'
  BY DEF AnnouncedIsShown, Woken
<1> QED  BY <1>2, <1>4, <1>5 DEF IInv

LEMMA WorkerInductive ==
  ASSUME IInv, NEW r \in Runs, WorkerStep(r) \/ Announces(r) \/ WorkerDies(r)
  PROVE  IInv'
<1>1. /\ rev \in Nat /\ wire \in Seq(Event) /\ faults \in 0..MaxFaults /\ exists \in BOOLEAN
      /\ records \in [Runs -> {"none", "running", "ended"}] /\ MaxFaults \in Nat
      /\ stage \in [Runs -> {"idle", "begun", "noded", "done"}]
  BY LivePageAssumption DEF IInv, PageTypeOK
<1>2. Fault => faults' \in 0..MaxFaults
  BY <1>1 DEF Fault
<1>3. rev + 1 \in Nat /\ rev + 1 >= rev /\ rev >= rev
  BY <1>1
<1>4. ASSUME NEW ph \in {"running", "ended"}, Record(r, ph)
      PROVE  /\ records' \in [Runs -> {"none", "running", "ended"}]
             /\ rev' \in Nat /\ rev' >= rev /\ exists' \in BOOLEAN /\ faults' \in 0..MaxFaults
  BY <1>1, <1>2, <1>3, <1>4 DEF Record, ledger
<1>5. ASSUME NEW f, NEW t \in {"begun", "noded", "done"}, At(r, f, t)
      PROVE  stage' \in [Runs -> {"idle", "begun", "noded", "done"}]
  BY <1>1, <1>5 DEF At
<1>6. CASE RunStarts(r)
  <2>1. /\ stage' \in [Runs -> {"idle", "begun", "noded", "done"}] /\ Record(r, "running")
        /\ UNCHANGED <<wire, page>>
    BY <1>5, <1>6 DEF RunStarts
  <2> QED  BY <1>1, <1>4, <2>1, WriterKeeps
<1>7. CASE RunEnds(r)
  <2>1. /\ stage' \in [Runs -> {"idle", "begun", "noded", "done"}] /\ Record(r, "ended")
        /\ UNCHANGED <<wire, page>>
    BY <1>5, <1>7 DEF RunEnds
  <2> QED  BY <1>1, <1>4, <2>1, WriterKeeps
<1>8. CASE NodeRecorded(r)
  <2>1. /\ stage' \in [Runs -> {"idle", "begun", "noded", "done"}]
        /\ UNCHANGED <<records, exists, wire, page>>
    BY <1>5, <1>8 DEF NodeRecorded
  <2>2. rev' \in Nat /\ rev' >= rev /\ faults' \in 0..MaxFaults
    BY <1>1, <1>2, <1>3, <1>8 DEF NodeRecorded
  <2> QED  BY <1>1, <2>1, <2>2, WriterKeeps
<1>9. CASE Announces(r)
  <2>1. AttemptOf(r) \in {This, Other, NoAttempt}
    BY DEF AttemptOf
  <2>2. publishLifecycle(AttemptOf(r)) /\ UNCHANGED <<ledger, stage, page, faults>>
    BY <1>9 DEF Announces
  <2> QED  BY <1>1, <1>3, <2>1, <2>2, PublishType, WriterKeeps DEF ledger
<1>10. CASE WorkerDies(r)
  <2>1. stage' \in [Runs -> {"idle", "begun", "noded", "done"}]
    BY <1>1, <1>10 DEF WorkerDies
  <2>2. Fault /\ UNCHANGED <<ledger, wire, page>>
    BY <1>10 DEF WorkerDies
  <2> QED  BY <1>1, <1>2, <1>3, <2>1, <2>2, WriterKeeps DEF ledger
<1> QED  BY <1>6, <1>7, <1>8, <1>9, <1>10 DEF WorkerStep

(* What the gate settles is one more write of the Attempt.                   *)
LEMMA SettledInductive ==
  ASSUME IInv, RunsSettled
  PROVE  IInv'
<1>1. /\ rev \in Nat /\ wire \in Seq(Event) /\ faults \in 0..MaxFaults /\ exists \in BOOLEAN
      /\ records \in [Runs -> {"none", "running", "ended"}]
      /\ stage \in [Runs -> {"idle", "begun", "noded", "done"}]
  BY DEF IInv, PageTypeOK
<1>2. /\ records' = finalizeRunningRuns /\ rev' = rev + 1
      /\ UNCHANGED <<exists, stage, wire, page, faults>>
  BY DEF RunsSettled
<1>3. records' \in [Runs -> {"none", "running", "ended"}]
  BY <1>1, <1>2 DEF finalizeRunningRuns
<1>4. rev' \in Nat /\ rev' >= rev
  BY <1>1, <1>2
<1> QED  BY <1>1, <1>2, <1>3, <1>4, WriterKeeps

LEMMA StepInductive == IInv /\ [PageNext]_pageVars => IInv'
<1>1. SUFFICES ASSUME IInv, [PageNext]_pageVars PROVE IInv'
  OBVIOUS
<1>2. /\ rev \in Nat /\ page \in Page /\ faults \in 0..MaxFaults /\ page.announced <= rev
      /\ wire \in Seq(Event) /\ PageTypeOK /\ Woken(page) /\ page.announced \in Nat
  BY <1>1, WokenIs DEF IInv, PageTypeOK, Sound, Page
<1>3. CASE UNCHANGED pageVars
  BY <1>1, <1>3 DEF pageVars, IInv, PageTypeOK, Sound, AnnouncedIsShown
<1>4. CASE (\E r \in Runs : WorkerStep(r) \/ Announces(r) \/ WorkerDies(r)) \/ RunsSettled
  BY <1>1, <1>4, WorkerInductive, SettledInductive
<1>5. CASE ForeignEvent
  <2>1. publishLifecycle(Other) /\ UNCHANGED <<ledger, stage, page, faults>>
    BY <1>5 DEF ForeignEvent
  <2>2. /\ wire' \in Seq(Event)
        /\ \A k \in DOMAIN wire' :
               wire'[k].rev = rev \/ (k \in DOMAIN wire /\ wire'[k] = wire[k])
    BY <1>2, <2>1, PublishType
  <2>3. rev >= rev
    BY <1>2
  <2> QED  BY <1>1, <1>2, <2>1, <2>2, <2>3, WriterKeeps DEF ledger, PageTypeOK
<1>6. CASE Deleted
  <2>1. exists' = FALSE /\ rev' = rev + 1 /\ UNCHANGED <<records, stage, wire, page, faults>>
    BY <1>6 DEF Deleted
  <2>2. rev' \in Nat /\ rev' >= rev
    BY <1>2, <2>1
  <2> QED  BY <1>1, <1>2, <2>1, <2>2, WriterKeeps DEF PageTypeOK
<1>7. CASE Publish
  <2>1. PICK i \in DOMAIN wire : /\ page' = Offered(page, wire[i])
                                /\ wire' = RemoveAt(wire, i)
                                /\ UNCHANGED <<ledger, stage, faults>>
    BY <1>7 DEF Publish
  <2>2. wire[i] \in Event /\ wire[i].rev <= rev
    BY <1>1, <1>2 DEF IInv, Sound
  <2>3. /\ page' \in Page /\ page'.pc = page.pc
        /\ \/ page' = page
           \/ page'.ch > 0 /\ page'.announced \in {page.announced, wire[i].rev}
    BY <1>2, <2>1, <2>2, OfferedType
  <2>4. /\ wire' \in Seq(Event)
        /\ \A k \in DOMAIN wire' : \E j \in DOMAIN wire : wire'[k] = wire[j]
    BY <1>2, <2>1, RemoveType
  <2>5. page'.announced <= rev'
    BY <1>2, <2>1, <2>2, <2>3 DEF ledger
  <2>6. \A k \in DOMAIN wire' : wire'[k].rev <= rev'
    BY <1>1, <2>1, <2>4 DEF IInv, Sound, ledger
  <2>7. Woken(page')
    BY <1>2, <2>3 DEF Woken
  <2>8. PageTypeOK'
    BY <1>2, <2>1, <2>3, <2>4 DEF PageTypeOK, ledger
  <2> QED  BY <2>5, <2>6, <2>7, <2>8 DEF IInv, Sound, AnnouncedIsShown, Woken
<1>8. CASE Open
  <2>1. /\ page' = [page EXCEPT !.pc = "subscribed"]
        /\ UNCHANGED <<ledger, stage, wire, faults>>
    BY <1>8 DEF Open
  <2>2. page' \in Page /\ page'.announced = page.announced /\ page'.pc = "subscribed"
    BY <1>2, <2>1 DEF Page
  <2> QED  BY <1>1, <1>2, <2>1, <2>2, PageKeeps DEF Woken
<1>9. CASE FirstPaint
  <2>1. DEFINE p == [page EXCEPT !.pc = "open", !.ticker = TRUE]
  <2>2. p \in Page /\ p.announced = page.announced
    BY <1>2 DEF Page
  <2>3. send(p) /\ UNCHANGED <<ledger, stage, wire>>
    BY <1>9 DEF FirstPaint
  <2>4. HIDE DEF p
  <2> QED  BY <1>1, <1>2, <2>2, <2>3, SendKeeps, PageKeeps
<1>10. CASE Tick
  <2>1. UNCHANGED <<ledger, stage, wire>>
    BY <1>10 DEF Tick
  <2>2. CASE send(page)
    BY <1>1, <1>2, <2>1, <2>2, SendKeeps, PageKeeps
  <2>3. CASE page' = [page EXCEPT !.ticker = FALSE] /\ UNCHANGED faults
    <3>1. /\ page' \in Page /\ page'.announced = page.announced /\ page'.shown = page.shown
          /\ page'.pc = page.pc /\ page'.ch = page.ch /\ page'.debounce = page.debounce
          /\ page'.kick = page.kick /\ page'.failed = page.failed
      BY <1>2, <2>3 DEF Page
    <3>2. Woken(page')
      BY <1>2, <3>1 DEF Woken
    <3> QED  BY <1>1, <1>2, <2>1, <2>3, <3>1, <3>2, PageKeeps
  <2> QED  BY <1>10, <2>2, <2>3 DEF Tick
<1>11. CASE Kick
  <2>1. DEFINE p == [page EXCEPT !.kick = FALSE]
  <2>2. p \in Page /\ p.announced = page.announced
    BY <1>2 DEF Page
  <2>3. send(p) /\ UNCHANGED <<ledger, stage, wire>>
    BY <1>11 DEF Kick
  <2>4. HIDE DEF p
  <2> QED  BY <1>1, <1>2, <2>2, <2>3, SendKeeps, PageKeeps
<1>12. CASE Receive
  <2>1. DEFINE c == page.ch - 1
  <2>2. c \in 0..Buffer
    BY <1>2, <1>12, LivePageAssumption DEF Receive, Page
  <2>3. /\ page' = [page EXCEPT !.ch = c, !.debounce = "armed"]
        /\ UNCHANGED <<ledger, stage, wire, faults>>
    BY <1>12 DEF Receive, Debounced
  <2>4. HIDE DEF c
  <2>5. page' \in Page /\ page'.announced = page.announced /\ page'.debounce = "armed"
    BY <1>2, <2>2, <2>3 DEF Page
  <2> QED  BY <1>1, <1>2, <2>3, <2>5, PageKeeps DEF Woken
<1>13. CASE Fire
  <2>1. /\ page' = [page EXCEPT !.debounce = "fired", !.kick = TRUE]
        /\ UNCHANGED <<ledger, stage, wire, faults>>
    BY <1>13 DEF Fire
  <2>2. page' \in Page /\ page'.announced = page.announced /\ page'.kick
    BY <1>2, <2>1 DEF Page
  <2> QED  BY <1>1, <1>2, <2>1, <2>2, PageKeeps DEF Woken
<1>14. CASE Close
  <2>1. page' = ClosedPage(page.kind) /\ UNCHANGED <<ledger, stage, wire, faults>>
    BY <1>14 DEF Close
  <2>2. page.kind \in Pages
    BY <1>2 DEF Page
  <2>3. page' \in Page
    BY <2>1, <2>2, ClosedType
  <2>4. page'.announced = 0 /\ page'.pc = "closed"
    BY <2>1 DEF ClosedPage
  <2> QED  BY <1>1, <1>2, <2>1, <2>3, <2>4, PageKeeps DEF Woken
<1> QED  BY <1>1, <1>3, <1>4, <1>5, <1>6, <1>7, <1>8, <1>9, <1>10, <1>11, <1>12, <1>13,
            <1>14 DEF PageNext

(* For any runs, however many events a subscriber's channel holds and        *)
(* whatever is lost, delayed or overtaken: what was recorded before an event *)
(* that reached the hub is on an open page, or a wake for it is under way,   *)
(* unless the last render failed (EventHub.Publish, streamFragments).        *)
THEOREM ShownOrWoken == PageSpec => []AnnouncedIsShown
<1>1. IInv => AnnouncedIsShown
  BY DEF IInv
<1> QED  BY <1>1, InitIInv, StepInductive, PTL DEF PageSpec
================================================================================
