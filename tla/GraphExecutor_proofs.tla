----------------------- MODULE GraphExecutor_proofs -----------------------
(***************************************************************************)
(* Three promises of the graph executor, for every graph, every number of  *)
(* nodes and every iteration limit.  None is inductive alone: the dead     *)
(* letter needs to know that a run still walking has published nothing     *)
(* but its start, the trust boundary needs the types of the records, and   *)
(* that no failure is dropped needs what the queue still owes.             *)
(***************************************************************************)
EXTENDS GraphExecutor, FiniteSetTheorems, TLAPS

\* What a run that is still walking has made public.
Progress ==
  /\ pc = "start" => events = <<>>
  /\ pc \in {"walk", "exec"} => events = <<"pipeline.started">>
  /\ pc # "done" => letter = NoNode

\* The types the two promises rest on.
Records ==
  /\ graph \in Graph
  /\ pc = "exec" => cur \in Node
  /\ results \in [Node -> Result \cup {NoResult}]
  /\ claims \in [Node -> Claim]
  /\ since \in [Node -> SUBSET Node]

IInv == Records /\ Progress /\ DeadLetterIsFatal /\ VouchedAfterwards

-----------------------------------------------------------------------------
\* A claim goes through the trust boundary as a claim, and no word of a node
\* that is not deterministic comes out validated.
LEMMA EnforceType ==
  ASSUME NEW n \in Node, NEW c \in Asserted(n)
  PROVE  /\ Enforce(n, c) \in Claim
         /\ ~Deterministic(n) => Enforce(n, c).trust # "validated"
  BY NodeAssumption DEF Asserted, Enforce, Claim, NoClaim

\* Recording a node keeps the shape of the records.
LEMMA FinalizeType ==
  ASSUME Records, NEW n \in Node, NEW r \in Result, NEW cs \in [Node -> Claim],
         Finalize(n, r, cs)
  PROVE  /\ results' \in [Node -> Result \cup {NoResult}]
         /\ claims' \in [Node -> Claim]
         /\ since' \in [Node -> SUBSET Node]
         /\ results'[n] = r /\ since'[n] = {}
         /\ \A m \in Node : m # n => since'[m] = since[m] \cup {n}
  BY DEF Records, Finalize

\* An unhandled failure that was just recorded ends the run with a dead letter
\* that says so, or leaves it walking as it was.
LEMMA FailureRouted ==
  ASSUME IInv, pc \in {"walk", "exec"}, graph' = graph, NEW n \in Node,
         NEW cs \in [Node -> Claim],
         Finalize(n, [status |-> "failed", changed |-> FALSE], cs),
         unhandledNodeFailure(n) \/ (pc' = "walk" /\ UNCHANGED outcome)
  PROVE  Progress' /\ DeadLetterIsFatal' /\ pc' # "exec"
<1> DEFINE r == [status |-> "failed", changed |-> FALSE]
<1>1. events = <<"pipeline.started">> /\ letter = NoNode
  BY DEF IInv, Progress
<1>2. r \in Result /\ r.status = "failed"
  BY DEF Result, Status
<1>3. results'[n] = r /\ since'[n] = {}
  <2> HIDE DEF r
  <2> QED BY <1>2, FinalizeType DEF IInv, r
<1>4. CASE pc' = "walk" /\ UNCHANGED outcome
  BY <1>1, <1>4 DEF outcome, Progress, DeadLetterIsFatal
<1>5. CASE ~IsBackground(n) /\ unhandledNodeFailure(n)
  <2>1. pc' = "done" /\ status' = "failed" /\ letter' = n
    BY <1>5 DEF unhandledNodeFailure, Return
  <2>2. events' = <<"pipeline.started", "pipeline.failed">>
    BY <1>1, <1>5 DEF unhandledNodeFailure
  <2>3. ~IsBackground(n)'
    BY <1>5 DEF IsBackground
  <2> QED BY <1>2, <1>3, <2>1, <2>2, <2>3, NodeAssumption
          DEF Progress, DeadLetterIsFatal, IsBackground
<1>6. CASE IsBackground(n) /\ unhandledNodeFailure(n)
  BY <1>4, <1>6 DEF unhandledNodeFailure
<1> QED BY <1>4, <1>5, <1>6

\* Recording a node under the trust boundary keeps it: what the node asserts
\* arrives enforced, and only a gate adds its word to what others asserted.
LEMMA BoundaryKept ==
  ASSUME Records, VouchedAfterwards, graph' = graph,
         NEW n \in Node, NEW r \in Result, NEW cs \in [Node -> Claim],
         Finalize(n, r, cs),
         ~Deterministic(n) => cs[n].trust # "validated",
         \A m \in Node : m # n =>
           \/ cs[m] = claims[m]
           \/ cs[m].by = n /\ graph.type[n] = "gate"
  PROVE  VouchedAfterwards'
<1> SUFFICES ASSUME NEW m \in Node, claims'[m].trust = "validated", ~Deterministic(m)
             PROVE  claims'[m].by \in since'[m] /\ graph.type[claims'[m].by] = "gate"
  BY DEF VouchedAfterwards, Deterministic
<1>1. claims' = cs
  BY DEF Finalize
<1>2. m # n
  BY <1>1
<1>3. since'[m] = since[m] \cup {n}
  BY <1>2, FinalizeType
<1>4. CASE cs[m] = claims[m]
  BY <1>1, <1>3, <1>4 DEF VouchedAfterwards
<1>5. CASE cs[m].by = n /\ graph.type[n] = "gate"
  BY <1>1, <1>3, <1>5
<1> QED BY <1>2, <1>4, <1>5

\* A run starts with nothing public and nothing vouched for.
LEMMA InitIInv == Init => IInv
<1> SUFFICES ASSUME Init PROVE IInv
  OBVIOUS
<1>1. Records
  BY GraphsAssumption DEF Init, Records, Claim, NoClaim
<1>2. Progress /\ DeadLetterIsFatal
  BY DEF Init, Progress, DeadLetterIsFatal
<1>3. VouchedAfterwards
  BY DEF Init, VouchedAfterwards, NoClaim
<1> QED BY <1>1, <1>2, <1>3 DEF IInv

\* Every step of the walk keeps the inductive invariant.
LEMMA NextIInv == IInv /\ [Next]_vars => IInv'
<1> SUFFICES ASSUME IInv, [Next]_vars PROVE IInv'
  OBVIOUS
<1> USE DEF IInv
<1>1. CASE Refuse
  <2>1. Records' /\ VouchedAfterwards'
    BY <1>1 DEF Refuse, Return, record, Records, VouchedAfterwards, Deterministic
  <2>2. Progress' /\ DeadLetterIsFatal'
    BY <1>1 DEF Refuse, Return, record, Progress, DeadLetterIsFatal
  <2> QED BY <2>1, <2>2
<1>2. CASE Start
  <2>1. Records' /\ VouchedAfterwards'
    BY <1>2 DEF Start, record, Records, VouchedAfterwards, Deterministic
  <2>2. events' = <<"pipeline.started">> /\ letter' = NoNode /\ pc' = "walk"
    BY <1>2 DEF Start, Progress
  <2>3. Progress' /\ DeadLetterIsFatal'
    BY <2>2 DEF Progress, DeadLetterIsFatal
  <2> QED BY <2>1, <2>3
<1>3. CASE ExceedIterations
  <2>1. Records' /\ VouchedAfterwards'
    BY <1>3 DEF ExceedIterations, Return, record, Records, VouchedAfterwards, Deterministic
  <2>2. Progress' /\ DeadLetterIsFatal'
    BY <1>3 DEF ExceedIterations, Return, record, Progress, DeadLetterIsFatal
  <2> QED BY <2>1, <2>2
<1>4. ASSUME NEW n \in Node, UnknownNode(n) PROVE IInv'
  <2>1. Records' /\ VouchedAfterwards'
    BY <1>4 DEF UnknownNode, Dequeue, Return, record, Records, VouchedAfterwards, Deterministic
  <2>2. Progress' /\ DeadLetterIsFatal'
    BY <1>4 DEF UnknownNode, Dequeue, Return, record, Progress, DeadLetterIsFatal
  <2> QED BY <2>1, <2>2
<1>5. ASSUME NEW n \in Node, Deny(n) PROVE IInv'
  <2> DEFINE denied == [status |-> "failed", changed |-> FALSE]
             cs == [claims EXCEPT ![n] = NoClaim]
  <2>1. /\ pc = "walk" /\ graph' = graph
        /\ Finalize(n, denied, cs)
        /\ unhandledNodeFailure(n) \/ (pc' = "walk" /\ UNCHANGED outcome)
    BY <1>5 DEF Deny, Dequeue, RouteFailure
  <2>2. denied \in Result
    BY DEF Result, Status
  <2>3. cs \in [Node -> Claim] /\ cs[n].trust # "validated"
    BY NodeAssumption DEF Records, Claim, NoClaim
  <2>4. Progress' /\ DeadLetterIsFatal' /\ pc' # "exec"
    BY <2>1, <2>3, FailureRouted
  <2>5. \A m \in Node : m # n => cs[m] = claims[m]
    BY DEF Records
  <2> HIDE DEF denied, cs
  <2>6. VouchedAfterwards'
    BY <2>1, <2>2, <2>3, <2>5, BoundaryKept
  <2>7. Records'
    BY <2>1, <2>2, <2>3, <2>4, FinalizeType DEF Records
  <2> QED BY <2>4, <2>6, <2>7
<1>6. ASSUME NEW n \in Node, RegistryMiss(n) PROVE IInv'
  <2> DEFINE missed == [status |-> "failed", changed |-> FALSE]
             cs == [claims EXCEPT ![n] = NoClaim]
  <2>1. /\ pc = "walk" /\ graph' = graph
        /\ Finalize(n, missed, cs)
        /\ unhandledNodeFailure(n)
    BY <1>6 DEF RegistryMiss, Dequeue
  <2>2. missed \in Result
    BY DEF Result, Status
  <2>3. cs \in [Node -> Claim] /\ cs[n].trust # "validated"
    BY NodeAssumption DEF Records, Claim, NoClaim
  <2>4. Progress' /\ DeadLetterIsFatal' /\ pc' # "exec"
    BY <2>1, <2>3, FailureRouted
  <2>5. \A m \in Node : m # n => cs[m] = claims[m]
    BY DEF Records
  <2> HIDE DEF missed, cs
  <2>6. VouchedAfterwards'
    BY <2>1, <2>2, <2>3, <2>5, BoundaryKept
  <2>7. Records'
    BY <2>1, <2>2, <2>3, <2>4, FinalizeType DEF Records
  <2> QED BY <2>4, <2>6, <2>7
<1>7. ASSUME NEW n \in Node, Begin(n) PROVE IInv'
  <2>1. Records' /\ VouchedAfterwards'
    BY <1>7 DEF Begin, Dequeue, record, Records, VouchedAfterwards, Deterministic
  <2>2. Progress' /\ DeadLetterIsFatal'
    BY <1>7 DEF Begin, Dequeue, outcome, Progress, DeadLetterIsFatal
  <2> QED BY <2>1, <2>2
<1>8. CASE Retry
  <2>1. Records' /\ VouchedAfterwards'
    BY <1>8 DEF Retry, record, Records, VouchedAfterwards, Deterministic
  <2>2. Progress' /\ DeadLetterIsFatal'
    BY <1>8 DEF Retry, outcome, Progress, DeadLetterIsFatal
  <2> QED BY <2>1, <2>2
<1>9. CASE Complete
  <2>1. PICK r \in Returned(cur), c \in Asserted(cur), truthy \in SUBSET Templates(cur) :
          /\ Finalize(cur, r,
                      IF r.status = "green"
                      THEN Promote(cur, [claims EXCEPT ![cur] = Enforce(cur, c)])
                      ELSE [claims EXCEPT ![cur] = Enforce(cur, c)])
          /\ IF r.status = "failed" THEN RouteFailure(cur, Traversed(cur, r, truthy))
             ELSE pc' = "walk" /\ UNCHANGED outcome
    BY <1>9 DEF Complete
  <2> DEFINE es == [claims EXCEPT ![cur] = Enforce(cur, c)]
             cs == IF r.status = "green" THEN Promote(cur, es) ELSE es
  <2>2. pc = "exec" /\ cur \in Node /\ graph' = graph
    BY <1>9 DEF Complete, Records
  <2>3. r \in Result
    BY DEF Returned
  <2>4. /\ es \in [Node -> Claim]
        /\ \A m \in Node : m # cur => es[m] = claims[m]
        /\ ~Deterministic(cur) => es[cur].trust # "validated"
    BY <2>2, EnforceType DEF Records
  <2>5. Finalize(cur, r, cs)
    BY <2>1
  <2> HIDE DEF es
  <2>6. cs \in [Node -> Claim]
    BY <2>2, <2>4 DEF Promote, Claim
  <2>7. \A m \in Node : m # cur =>
          cs[m] = claims[m] \/ (cs[m].by = cur /\ graph.type[cur] = "gate")
    BY <2>4 DEF Promote
  <2>8. ~Deterministic(cur) => cs[cur].trust # "validated"
    BY <2>2, <2>4 DEF Promote, Deterministic
  <2> HIDE DEF cs
  <2>9. VouchedAfterwards'
    BY <2>2, <2>3, <2>5, <2>6, <2>7, <2>8, BoundaryKept
  <2>10. Progress' /\ DeadLetterIsFatal' /\ pc' # "exec"
    <3>1. CASE r.status = "failed"
      <4>1. r = [status |-> "failed", changed |-> FALSE]
        BY <3>1, <2>3 DEF Returned, Result
      <4>2. unhandledNodeFailure(cur) \/ (pc' = "walk" /\ UNCHANGED outcome)
        BY <3>1, <2>1 DEF RouteFailure
      <4> QED BY <2>2, <2>5, <2>6, <4>1, <4>2, FailureRouted
    <3>2. CASE r.status # "failed"
      BY <2>1, <2>2, <3>2 DEF outcome, Progress, DeadLetterIsFatal
    <3> QED BY <3>1, <3>2
  <2>11. Records'
    BY <2>2, <2>3, <2>5, <2>6, <2>10, FinalizeType DEF Records
  <2> QED BY <2>9, <2>10, <2>11
<1>10. CASE Finish
  <2>1. Records' /\ VouchedAfterwards'
    BY <1>10 DEF Finish, record, Records, VouchedAfterwards, Deterministic
  <2>2. events = <<"pipeline.started">> /\ letter = NoNode
    BY <1>10 DEF Finish, Progress
  <2>3. events' = Append(events, "pipeline.completed")
    BY <1>10 DEF Finish
  <2>4. "pipeline.failed" \notin {events'[i] : i \in DOMAIN events'}
    BY <2>2, <2>3
  <2>5. letter' = NoNode /\ pc' = "done"
    BY <1>10, <2>2 DEF Finish
  <2>6. Progress' /\ DeadLetterIsFatal'
    BY <2>4, <2>5 DEF Progress, DeadLetterIsFatal
  <2> QED BY <2>1, <2>6
<1>11. CASE UNCHANGED vars
  <2>1. Records' /\ VouchedAfterwards'
    BY <1>11 DEF vars, Records, VouchedAfterwards, Deterministic
  <2>2. Progress' /\ DeadLetterIsFatal'
    BY <1>11 DEF vars, Progress, DeadLetterIsFatal, IsBackground
  <2> QED BY <2>1, <2>2
<1> QED BY <1>1, <1>2, <1>3, <1>4, <1>5, <1>6, <1>7, <1>8, <1>9, <1>10, <1>11 DEF Next

-----------------------------------------------------------------------------
\* The dead letter of every run of every graph names the foreground failure
\* that ended it, and no other run publishes a failure (unhandledNodeFailure).
THEOREM DeadLetterContract == Spec => []DeadLetterIsFatal
<1>1. IInv => DeadLetterIsFatal
  BY DEF IInv
<1> QED BY InitIInv, NextIInv, <1>1, PTL DEF Spec

\* No node that is not deterministic ever has a validated claim but by a gate
\* that ran after it (claim.Enforce, claim.Promote).
THEOREM TrustBoundary == Spec => []VouchedAfterwards
<1>1. IInv => VouchedAfterwards
  BY DEF IInv
<1> QED BY InitIInv, NextIInv, <1>1, PTL DEF Spec

-----------------------------------------------------------------------------
(***************************************************************************)
(* No failure is dropped.  While a run is green, each foreground failure   *)
(* it recorded was followed along an edge to a display-only node, to a     *)
(* node that ran, or to one that is waiting in the queue or running now;   *)
(* at a green end nothing waits.                                           *)
(***************************************************************************)

\* t is one of the nodes of a queue.
Has(q, t) == \E k \in DOMAIN q : q[k] = t

\* t is queued or being run.
Pending(t) ==
  pc \in {"walk", "exec"} /\ (Has(queue, t) \/ (pc = "exec" /\ cur = t))

Followed(n) ==
  \E i \in OutEdges(n) :
    /\ HandsOn(n, i)
    /\ LET t == graph.edges[i].to
       IN  isExternalNode(t) \/ results[t] # NoResult \/ Pending(t)

FollowInv ==
  /\ queue \in Seq(Node)
  /\ status = "green" =>
       \A n \in Node : results[n].status = "failed" /\ ~IsBackground(n) => Followed(n)

\* The rank of an index tells it from the others of its set.
LEMMA RankApart ==
  ASSUME NEW S \in SUBSET Nat, IsFiniteSet(S), NEW i \in S, NEW m \in S,
         Cardinality({j \in S : j <= i}) = Cardinality({j \in S : j <= m})
  PROVE  i = m
<1> DEFINE Below(x) == {j \in S : j <= x}
<1>1. ASSUME NEW x \in S, NEW y \in S, x < y, Cardinality(Below(x)) = Cardinality(Below(y))
      PROVE  FALSE
  <2>0. x \in Nat /\ y \in Nat
    OBVIOUS
  <2>a. \A j \in Nat : j <= x => j <= y
    BY <1>1, <2>0
  <2>b. y <= y /\ ~(y <= x)
    BY <1>1, <2>0
  <2>1. Below(x) \in SUBSET Below(y) /\ y \in Below(y) /\ y \notin Below(x)
    BY <2>a, <2>b
  <2>2. IsFiniteSet(Below(y))
    <3>1. Below(y) \in SUBSET S
      OBVIOUS
    <3> QED  BY <3>1, FS_Subset
  <2> HIDE DEF Below
  <2>3. Below(x) = Below(y)
    BY <1>1, <2>1, <2>2, FS_Subset
  <2> QED  BY <2>1, <2>3
<1>2. i < m \/ m < i \/ i = m
  OBVIOUS
<1>3. Cardinality(Below(i)) = Cardinality(Below(m))
  OBVIOUS
<1> HIDE DEF Below
<1> QED  BY <1>1, <1>2, <1>3

\* Ranks run from one to the size of the set.
LEMMA RankRange ==
  ASSUME NEW S \in SUBSET Nat, IsFiniteSet(S), NEW i \in S
  PROVE  Cardinality({j \in S : j <= i}) \in 1..Cardinality(S)
<1> DEFINE B == {j \in S : j <= i}
<1>1. B \in SUBSET S /\ B # {}
  OBVIOUS
<1> HIDE DEF B
<1>2. /\ IsFiniteSet(B) /\ Cardinality(B) <= Cardinality(S)
      /\ Cardinality(B) \in Nat /\ Cardinality(S) \in Nat /\ Cardinality(B) # 0
  BY <1>1, FS_Subset, FS_CardinalityType, FS_EmptySet
<1>3. Cardinality(B) \in 1..Cardinality(S)
  BY <1>2
<1> QED  BY <1>3 DEF B

\* Every rank is some index's: an injection of a set into as many ranks is
\* onto them.
LEMMA RankOnto ==
  ASSUME NEW S \in SUBSET Nat, IsFiniteSet(S), NEW k \in 1..Cardinality(S)
  PROVE  \E i \in S : Cardinality({j \in S : j <= i}) = k
<1> DEFINE f == [i \in S |-> Cardinality({j \in S : j <= i})]
           n == Cardinality(S)
<1>1. n \in Nat
  BY FS_CardinalityType
<1>2. f \in [S -> 1..n] /\ \A i, m \in S : f[i] = f[m] => i = m
  BY RankRange, RankApart
<1>3. IsFiniteSet(1..n) /\ Cardinality(1..n) = n
  BY <1>1, FS_Interval
<1> HIDE DEF f
<1>4. f \in Injection(S, 1..n)
  BY <1>2 DEF Injection, IsInjective
<1>5. f \in Surjection(S, 1..n)
  BY <1>3, <1>4, FS_Injection
<1>6. PICK i \in S : f[i] = k
  BY <1>5 DEF Surjection
<1> QED  BY <1>6 DEF f

\* InOrder lists the members of a set of indices, each of them.
LEMMA InOrderLists ==
  ASSUME NEW S \in SUBSET Nat, IsFiniteSet(S)
  PROVE  /\ InOrder(S) \in Seq(S)
         /\ \A i \in S : \E k \in DOMAIN InOrder(S) : InOrder(S)[k] = i
<1>1. Cardinality(S) \in Nat
  BY FS_CardinalityType
<1>2. ASSUME NEW k \in 1..Cardinality(S)
      PROVE  InOrder(S)[k] \in S /\ Cardinality({j \in S : j <= InOrder(S)[k]}) = k
  BY RankOnto DEF InOrder
<1>3. DOMAIN InOrder(S) = 1..Cardinality(S)
  BY DEF InOrder
<1>4. InOrder(S) \in [1..Cardinality(S) -> S]
  BY RankOnto DEF InOrder
<1>5. ASSUME NEW i \in S PROVE \E k \in DOMAIN InOrder(S) : InOrder(S)[k] = i
  <2> DEFINE k == Cardinality({j \in S : j <= i})
  <2>1. k \in 1..Cardinality(S)
    BY RankRange
  <2>a. PICK e \in S : e = InOrder(S)[k] /\ Cardinality({j \in S : j <= e}) = k
    BY <1>2, <2>1
  <2>2. InOrder(S)[k] = i
    BY <2>a, RankApart
  <2> QED  BY <1>3, <2>1, <2>2
<1> QED  BY <1>1, <1>4, <1>5

\* A queue keeps its nodes when more are appended, and gains those.
LEMMA Appended ==
  ASSUME NEW q \in Seq(Node), NEW s \in Seq(Node)
  PROVE  /\ q \o s \in Seq(Node)
         /\ \A t : Has(q, t) \/ Has(s, t) => Has(q \o s, t)
<1>1. /\ q \o s \in Seq(Node) /\ DOMAIN (q \o s) = 1..(Len(q) + Len(s))
      /\ DOMAIN q = 1..Len(q) /\ DOMAIN s = 1..Len(s) /\ Len(q) \in Nat /\ Len(s) \in Nat
  OBVIOUS
<1>2. ASSUME NEW k \in DOMAIN q PROVE k \in DOMAIN (q \o s) /\ (q \o s)[k] = q[k]
  BY <1>1
<1>3. ASSUME NEW k \in DOMAIN s
      PROVE  Len(q) + k \in DOMAIN (q \o s) /\ (q \o s)[Len(q) + k] = s[k]
  BY <1>1
<1>4. ASSUME NEW t, Has(q, t) PROVE Has(q \o s, t)
  BY <1>2, <1>4 DEF Has
<1>5. ASSUME NEW t, Has(s, t) PROVE Has(q \o s, t)
  BY <1>3, <1>5 DEF Has
<1> QED  BY <1>1, <1>4, <1>5

\* Taking the head leaves the others queued.
LEMMA TailKeeps ==
  ASSUME NEW q \in Seq(Node), q # <<>>, NEW t, t # Head(q), Has(q, t)
  PROVE  Has(Tail(q), t)
<1>1. PICK k \in DOMAIN q : q[k] = t
  BY DEF Has
<1>2. k \in 1..Len(q) /\ Len(q) \in Nat /\ Head(q) = q[1]
  OBVIOUS
<1>3. k # 1
  BY <1>1, <1>2
<1>4. k - 1 \in 1..(Len(q) - 1)
  BY <1>2, <1>3
<1>5. k - 1 \in DOMAIN Tail(q) /\ Tail(q)[k - 1] = q[k]
  BY <1>2, <1>4
<1> QED  BY <1>1, <1>5 DEF Has

\* What a graph's lists are.
LEMMA GraphLists ==
  ASSUME Records
  PROVE  /\ graph.nodes \in Seq(Node) /\ graph.edges \in Seq(Edge)
         /\ \A i \in DOMAIN graph.edges : graph.edges[i].to \in Node
         /\ \A S \in SUBSET DOMAIN graph.edges : S \in SUBSET Nat /\ IsFiniteSet(S)
         /\ \A S \in SUBSET DOMAIN graph.nodes : S \in SUBSET Nat /\ IsFiniteSet(S)
<1>1. graph.nodes \in Seq(Node) /\ graph.edges \in Seq(Edge)
  BY DEF Records, Graph
<1>2. ASSUME NEW i \in DOMAIN graph.edges PROVE graph.edges[i].to \in Node
  <2>1. graph.edges[i] \in Edge
    BY <1>1
  <2> QED  BY <2>1 DEF Edge
<1>3. ASSUME NEW X, NEW s \in Seq(X), NEW S \in SUBSET DOMAIN s
      PROVE  S \in SUBSET Nat /\ IsFiniteSet(S)
  <2>1. DOMAIN s = 1..Len(s) /\ Len(s) \in Nat
    OBVIOUS
  <2>2. IsFiniteSet(1..Len(s))
    BY <2>1, FS_Interval
  <2>3. IsFiniteSet(S)
    BY <2>1, <2>2, FS_Subset
  <2> QED  BY <2>1, <2>3
<1> QED  BY <1>1, <1>2, <1>3

LEMMA EntryType == ASSUME Records PROVE entryNodes \in Seq(Node)
<1> DEFINE S == {i \in DOMAIN graph.nodes :
                   ~HasInEdge(graph.nodes[i]) /\ graph.type[graph.nodes[i]] # "external"}
           ix == InOrder(S)
<1>1. S \in SUBSET DOMAIN graph.nodes
  OBVIOUS
<1>2. entryNodes = [k \in DOMAIN ix |-> graph.nodes[ix[k]]]
  BY DEF entryNodes
<1> HIDE DEF S
<1>3. ix \in Seq(S)
  BY <1>1, GraphLists, InOrderLists
<1> HIDE DEF ix
<1>4. \A i \in S : graph.nodes[i] \in Node
  BY <1>1, GraphLists
<1>5. DOMAIN ix = 1..Len(ix) /\ Len(ix) \in Nat /\ \A k \in DOMAIN ix : ix[k] \in S
  BY <1>3
<1>6. entryNodes \in [1..Len(ix) -> Node]
  BY <1>2, <1>4, <1>5
<1> QED  BY <1>5, <1>6

\* Every edge that queues its target has it among the targets.
LEMMA TargetsList ==
  ASSUME Records, NEW n, NEW took \in SUBSET DOMAIN graph.edges
  PROVE  /\ Targets(n, took) \in Seq(Node)
         /\ \A i \in Enqueued(n, took) :
              \E k \in DOMAIN Targets(n, took) : Targets(n, took)[k] = graph.edges[i].to
<1> DEFINE S == Enqueued(n, took)
           ix == InOrder(S)
<1>1. S \in SUBSET DOMAIN graph.edges
  BY DEF Enqueued, Counted
<1>2. Targets(n, took) = [k \in DOMAIN ix |-> graph.edges[ix[k]].to]
  BY DEF Targets
<1> HIDE DEF S
<1>3. ix \in Seq(S) /\ \A i \in S : \E k \in DOMAIN ix : ix[k] = i
  BY <1>1, GraphLists, InOrderLists
<1> HIDE DEF ix
<1>4. \A i \in S : graph.edges[i].to \in Node
  BY <1>1, GraphLists
<1>5. DOMAIN ix = 1..Len(ix) /\ Len(ix) \in Nat /\ \A k \in DOMAIN ix : ix[k] \in S
  BY <1>3
<1>6. Targets(n, took) \in [1..Len(ix) -> Node]
  BY <1>2, <1>4, <1>5
<1>7. Targets(n, took) \in Seq(Node)
  BY <1>5, <1>6
<1>8. \A i \in S : \E k \in DOMAIN Targets(n, took) : Targets(n, took)[k] = graph.edges[i].to
  BY <1>2, <1>3
<1> QED  BY <1>7, <1>8 DEF S

\* Nothing is recorded and what waited goes on waiting or has run.
LEMMA FollowKept ==
  ASSUME FollowInv, UNCHANGED <<graph, results>>, queue' \in Seq(Node),
         status' = "green" => status = "green",
         status' = "green" => \A t : Pending(t) => results[t] # NoResult \/ Pending(t)'
  PROVE  FollowInv'
<1> SUFFICES ASSUME status' = "green", NEW n \in Node, results[n].status = "failed", ~IsBackground(n)
             PROVE  Followed(n)'
  BY DEF FollowInv, IsBackground
<1>1. PICK i \in OutEdges(n) :
        /\ HandsOn(n, i)
        /\ LET t == graph.edges[i].to
           IN  isExternalNode(t) \/ results[t] # NoResult \/ Pending(t)
  BY DEF FollowInv, Followed
<1>2. OutEdges(n)' = OutEdges(n) /\ (HandsOn(n, i)' <=> HandsOn(n, i))
  BY DEF OutEdges, HandsOn, shouldTraverse, Templates
<1>3. \A t : isExternalNode(t)' <=> isExternalNode(t)
  BY DEF isExternalNode, Known
<1> QED  BY <1>1, <1>2, <1>3 DEF Followed

\* A node is recorded; whatever else waited goes on waiting.
LEMMA FollowRecorded ==
  ASSUME Records, FollowInv, UNCHANGED graph, NEW n \in Node, NEW r \in Result, NEW cs,
         Finalize(n, r, cs), queue' \in Seq(Node), status' = "green" => status = "green",
         status' = "green" => \A t : t # n /\ Pending(t) => Pending(t)',
         status' = "green" /\ r.status = "failed" /\ ~IsBackground(n) => Followed(n)'
  PROVE  FollowInv'
<1>1. /\ results'[n] = r /\ r # NoResult
      /\ \A m \in Node \ {n} : results'[m] = results[m]
  BY DEF Records, Finalize, Result, NoResult, Status
<1> SUFFICES ASSUME status' = "green", NEW m \in Node, results'[m].status = "failed", ~IsBackground(m)
             PROVE  Followed(m)'
  BY DEF FollowInv, IsBackground
<1>2. CASE m = n
  BY <1>1, <1>2
<1>3. CASE m # n
  <2>1. PICK i \in OutEdges(m) :
          /\ HandsOn(m, i)
          /\ LET t == graph.edges[i].to
             IN  isExternalNode(t) \/ results[t] # NoResult \/ Pending(t)
    BY <1>1, <1>3 DEF FollowInv, Followed
  <2>2. OutEdges(m)' = OutEdges(m) /\ (HandsOn(m, i)' <=> HandsOn(m, i))
    BY <1>1, <1>3 DEF OutEdges, HandsOn, shouldTraverse, Templates
  <2>3. \A t : isExternalNode(t)' <=> isExternalNode(t)
    BY DEF isExternalNode, Known
  <2>4. graph.edges[i].to \in Node
    BY GraphLists DEF OutEdges
  <2> QED  BY <1>1, <2>1, <2>2, <2>3, <2>4 DEF Followed
<1> QED  BY <1>2, <1>3

\* A failure routed as handled is followed: the edge that handled it is one
\* its result satisfies, and its target is display-only or queued now.
LEMMA HandledIsFollowed ==
  ASSUME Records, UNCHANGED graph, NEW n \in Node, NEW r \in Result, NEW cs,
         Finalize(n, r, cs), NEW truthy \in SUBSET Templates(n), NEW q \in Seq(Node),
         Route(n, Traversed(n, r, truthy), q), Handled(n, Traversed(n, r, truthy)),
         pc' = "walk"
  PROVE  Followed(n)'
<1> DEFINE took == Traversed(n, r, truthy)
<1>1. took \in SUBSET OutEdges(n) /\ OutEdges(n) \in SUBSET DOMAIN graph.edges
  BY DEF Traversed, OutEdges
<1>2. results'[n] = r
  BY DEF Records, Finalize
<1>3. ASSUME NEW i \in took PROVE HandsOn(n, i)' /\ i \in OutEdges(n)'
  <2>1. shouldTraverse(i, r, truthy) /\ i \in OutEdges(n)
    BY DEF Traversed
  <2> QED  BY <1>2, <2>1 DEF HandsOn, shouldTraverse, OutEdges, Templates
<1>4. CASE Enqueued(n, took) # {}
  <2>1. PICK i : i \in Enqueued(n, took)
    BY <1>4
  <2>2. i \in took
    BY <2>1 DEF Enqueued, Counted
  <2>3. queue' = q \o Targets(n, took)
    BY DEF Route
  <2> HIDE DEF took
  <2>4. /\ Targets(n, took) \in Seq(Node)
        /\ \E k \in DOMAIN Targets(n, took) : Targets(n, took)[k] = graph.edges[i].to
    BY <1>1, <2>1, TargetsList
  <2> DEFINE s == Targets(n, took)
             t == graph.edges[i].to
  <2>a. s \in Seq(Node) /\ Has(s, t)
    BY <2>4 DEF Has
  <2>b. queue' = q \o s
    BY <2>3
  <2> HIDE DEF s, t
  <2>c. Has(q \o s, t)
    BY <2>a, Appended
  <2>5. Has(queue', t)
    BY <2>b, <2>c
  <2>6. Pending(graph.edges[i].to)'
    BY <2>5 DEF Pending, t
  <2> QED  BY <1>3, <2>2, <2>6 DEF Followed
<1>5. CASE Counted(took) # took
  <2>1. PICK i \in took : isExternalNode(graph.edges[i].to)
    BY <1>5 DEF Counted
  <2>2. isExternalNode(graph.edges[i].to)'
    BY <2>1 DEF isExternalNode, Known
  <2> QED  BY <1>3, <2>1, <2>2 DEF Followed
<1> QED  BY <1>4, <1>5 DEF Handled

\* What taking a node from the queue leaves of it.
LEMMA DequeueFacts ==
  ASSUME FollowInv, NEW n, Dequeue(n)
  PROVE  /\ pc = "walk" /\ graph' = graph /\ Tail(queue) \in Seq(Node)
         /\ \A t : t # n /\ Pending(t) => Has(Tail(queue), t)
<1>1. /\ pc = "walk" /\ graph' = graph /\ queue \in Seq(Node) /\ queue # <<>> /\ n = Head(queue)
  BY DEF Dequeue, FollowInv
<1>2. Tail(queue) \in Seq(Node)
  BY <1>1
<1>3. ASSUME NEW t, t # n, Pending(t) PROVE Has(Tail(queue), t)
  <2>1. Has(queue, t)
    BY <1>1, <1>3 DEF Pending
  <2> QED  BY <1>1, <1>3, <2>1, TailKeeps
<1> QED  BY <1>1, <1>2, <1>3

LEMMA InitFollow == Init => FollowInv
<1> SUFFICES ASSUME Init PROVE FollowInv
  OBVIOUS
<1>1. queue \in Seq(Node)
  BY DEF Init
<1>2. \A n \in Node : results[n].status = "none"
  BY DEF Init, NoResult
<1> QED  BY <1>1, <1>2 DEF FollowInv

\* A failure that is routed ends the run, is side work, or is handled.
LEMMA RoutedOrEnded ==
  ASSUME NEW n, NEW took, RouteFailure(n, took)
  PROVE  /\ status' = "green" => status = "green"
         /\ status' = "green" => pc' = "walk"
         /\ status' = "green" /\ ~IsBackground(n) => Handled(n, took)
<1>1. CASE Handled(n, took)
  BY <1>1 DEF RouteFailure, outcome
<1>2. CASE ~Handled(n, took) /\ IsBackground(n)
  BY <1>2 DEF RouteFailure, unhandledNodeFailure, outcome
<1>3. CASE ~Handled(n, took) /\ ~IsBackground(n)
  BY <1>3 DEF RouteFailure, unhandledNodeFailure, Return
<1> QED  BY <1>1, <1>2, <1>3

\* Every step of the walk keeps the failures followed.
LEMMA NextFollow == IInv /\ FollowInv /\ [Next]_vars => FollowInv'
<1> SUFFICES ASSUME IInv, FollowInv, [Next]_vars PROVE FollowInv'
  OBVIOUS
<1>0. Records /\ queue \in Seq(Node)
  BY DEF IInv, FollowInv
<1>1. CASE Refuse
  BY <1>1, FollowKept, <1>0 DEF Refuse, Return, record
<1>2. CASE Start
  <2>1. queue' = entryNodes /\ UNCHANGED <<graph, results, status>> /\ ~(pc \in {"walk", "exec"})
    BY <1>2 DEF Start, record
  <2> QED  BY <1>0, <2>1, EntryType, FollowKept DEF Pending
<1>3. CASE ExceedIterations
  BY <1>3, FollowKept, <1>0 DEF ExceedIterations, Return, record
<1>4. ASSUME NEW n \in Node, UnknownNode(n) PROVE FollowInv'
  <2>1. queue' = Tail(queue) /\ status' = "failed" /\ UNCHANGED <<graph, results>>
    BY <1>4 DEF UnknownNode, Dequeue, Return, record
  <2> QED  BY <1>4, <2>1, DequeueFacts, FollowKept DEF UnknownNode
<1>5. ASSUME NEW n \in Node, Deny(n) PROVE FollowInv'
  <2> DEFINE denied == [status |-> "failed", changed |-> FALSE]
             cs == [claims EXCEPT ![n] = NoClaim]
  <2>1. PICK truthy \in SUBSET Templates(n) :
          /\ Finalize(n, denied, cs)
          /\ Route(n, Traversed(n, denied, truthy), Tail(queue))
          /\ RouteFailure(n, Traversed(n, denied, truthy))
    BY <1>5 DEF Deny
  <2>2. denied \in Result
    BY DEF Result, Status
  <2> HIDE DEF denied, cs
  <2> DEFINE took == Traversed(n, denied, truthy)
             s == Targets(n, took)
  <2>3. Dequeue(n)
    BY <1>5 DEF Deny
  <2>4. took \in SUBSET DOMAIN graph.edges /\ queue' = Tail(queue) \o s
    BY <2>1 DEF Traversed, OutEdges, Route
  <2>5. s \in Seq(Node)
    BY <1>0, <2>4, TargetsList
  <2>6. Route(n, took, Tail(queue)) /\ RouteFailure(n, took)
    BY <2>1
  <2>7. /\ status' = "green" => status = "green" /\ pc' = "walk"
        /\ status' = "green" /\ ~IsBackground(n) => Handled(n, took)
    BY <2>6, RoutedOrEnded
  <2>8. status' = "green" /\ ~IsBackground(n) => Followed(n)'
    BY <1>0, <2>1, <2>2, <2>3, <2>7, DequeueFacts, HandledIsFollowed
  <2> HIDE DEF took, s
  <2>9. Tail(queue) \in Seq(Node) /\ graph' = graph
    BY <2>3, DequeueFacts
  <2>10. queue' \in Seq(Node)
    BY <2>4, <2>5, <2>9, Appended
  <2>11. ASSUME status' = "green", NEW t, t # n, Pending(t) PROVE Pending(t)'
    <3>1. Has(Tail(queue), t)
      BY <2>3, <2>11, DequeueFacts
    <3>2. Has(queue', t)
      BY <2>4, <2>5, <2>9, <3>1, Appended
    <3> QED  BY <2>7, <2>11, <3>2 DEF Pending
  <2> QED  BY <1>0, <2>1, <2>2, <2>7, <2>8, <2>9, <2>10, <2>11, FollowRecorded
<1>6. ASSUME NEW n \in Node, RegistryMiss(n) PROVE FollowInv'
  <2> DEFINE missed == [status |-> "failed", changed |-> FALSE]
             cs == [claims EXCEPT ![n] = NoClaim]
  <2>1. Dequeue(n) /\ Finalize(n, missed, cs) /\ queue' = Tail(queue) /\ unhandledNodeFailure(n)
    BY <1>6 DEF RegistryMiss
  <2>2. missed \in Result
    BY DEF Result, Status
  <2> HIDE DEF missed, cs
  <2>3. /\ status' = "green" => status = "green" /\ pc' = "walk"
        /\ status' = "green" => IsBackground(n)
    BY <2>1 DEF unhandledNodeFailure, Return, outcome
  <2>4. ASSUME status' = "green", NEW t, t # n, Pending(t) PROVE Pending(t)'
    BY <2>1, <2>3, <2>4, DequeueFacts DEF Pending
  <2>5. queue' \in Seq(Node) /\ graph' = graph
    BY <2>1, DequeueFacts
  <2> QED  BY <1>0, <2>1, <2>2, <2>3, <2>4, <2>5, FollowRecorded
<1>7. ASSUME NEW n \in Node, Begin(n) PROVE FollowInv'
  <2>1. /\ Dequeue(n) /\ queue' = Tail(queue) /\ pc' = "exec" /\ cur' = n
        /\ UNCHANGED <<results, status>>
    BY <1>7 DEF Begin, record, outcome
  <2>2. queue' \in Seq(Node) /\ graph' = graph
    BY <2>1, DequeueFacts
  <2>3. ASSUME NEW t, Pending(t) PROVE Pending(t)'
    BY <2>1, <2>3, DequeueFacts DEF Pending
  <2> QED  BY <2>1, <2>2, <2>3, FollowKept
<1>8. CASE Retry
  <2>1. UNCHANGED <<graph, pc, queue, cur, results, status>>
    BY <1>8 DEF Retry, record, outcome
  <2> QED  BY <1>0, <2>1, FollowKept DEF Pending
<1>9. CASE Complete
  <2>0. PICK n \in Node : n = cur
    BY <1>0, <1>9 DEF Complete, Records
  <2>1. PICK r \in Returned(n), c \in Asserted(n), truthy \in SUBSET Templates(n) :
          /\ Finalize(n, r,
                      IF r.status = "green"
                      THEN Promote(n, [claims EXCEPT ![n] = Enforce(n, c)])
                      ELSE [claims EXCEPT ![n] = Enforce(n, c)])
          /\ Route(n, Traversed(n, r, truthy), queue)
          /\ IF r.status = "failed" THEN RouteFailure(n, Traversed(n, r, truthy))
             ELSE pc' = "walk" /\ UNCHANGED outcome
    BY <1>9, <2>0 DEF Complete
  <2>2. pc = "exec" /\ n = cur /\ graph' = graph
    BY <1>9, <2>0 DEF Complete
  <2> DEFINE es == [claims EXCEPT ![n] = Enforce(n, c)]
             cs == IF r.status = "green" THEN Promote(n, es) ELSE es
  <2>6. Finalize(n, r, cs)
    BY <2>1
  <2> HIDE DEF cs
  <2>3. r \in Result
    BY DEF Returned
  <2> DEFINE took == Traversed(n, r, truthy)
             s == Targets(n, took)
  <2>4. took \in SUBSET DOMAIN graph.edges /\ queue' = queue \o s
    BY <2>1 DEF Traversed, OutEdges, Route
  <2>5. s \in Seq(Node)
    BY <1>0, <2>4, TargetsList
  <2>7. /\ status' = "green" => status = "green" /\ pc' = "walk"
        /\ status' = "green" /\ r.status = "failed" /\ ~IsBackground(n) => Handled(n, took)
    <3>1. CASE r.status = "failed"
      BY <2>1, <3>1, RoutedOrEnded
    <3>2. CASE r.status # "failed"
      BY <2>1, <3>2 DEF outcome
    <3> QED  BY <3>1, <3>2
  <2>8. status' = "green" /\ r.status = "failed" /\ ~IsBackground(n) => Followed(n)'
    <3>1. Route(n, took, queue)
      BY <2>1
    <3> QED  BY <1>0, <2>2, <2>3, <2>6, <2>7, <3>1, HandledIsFollowed
  <2> HIDE DEF took, s
  <2>10. queue' \in Seq(Node)
    BY <1>0, <2>4, <2>5, Appended
  <2>11. ASSUME status' = "green", NEW t, t # n, Pending(t) PROVE Pending(t)'
    <3>1. Has(queue, t)
      BY <2>2, <2>11 DEF Pending
    <3>2. Has(queue', t)
      BY <1>0, <2>4, <2>5, <3>1, Appended
    <3> QED  BY <2>7, <2>11, <3>2 DEF Pending
  <2> QED  BY <1>0, <2>2, <2>3, <2>6, <2>7, <2>8, <2>10, <2>11, FollowRecorded
<1>10. CASE Finish
  <2>1. queue = <<>> /\ pc = "walk" /\ UNCHANGED <<graph, queue, results, status>>
    BY <1>10 DEF Finish, record
  <2>2. \A t : ~Pending(t)
    BY <2>1 DEF Pending, Has
  <2> QED  BY <1>0, <2>1, <2>2, FollowKept
<1>11. CASE UNCHANGED vars
  BY <1>0, <1>11, FollowKept DEF vars, Pending
<1> QED BY <1>1, <1>2, <1>3, <1>4, <1>5, <1>6, <1>7, <1>8, <1>9, <1>10, <1>11 DEF Next

\* For every graph, every outcome of its nodes and every iteration limit: a
\* green run left no foreground failure without a successor that ran, or a
\* display-only one (enqueueEdge, routeFailure, unhandledNodeFailure).
THEOREM GreenIsEarned == Spec => []GreenRunHandled
<1>1. FollowInv => GreenRunHandled
  BY DEF FollowInv, Followed, Pending, GreenRunHandled, Green
<1> QED BY InitIInv, NextIInv, InitFollow, NextFollow, <1>1, PTL DEF Spec
=============================================================================
