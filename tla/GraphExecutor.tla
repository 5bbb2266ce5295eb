--------------------------- MODULE GraphExecutor ---------------------------
(***************************************************************************)
(* The graph executor (internal/graph/executor.go): the walk one review    *)
(* Job makes over a workflow's pipeline graph.  A node is taken from the   *)
(* head of the queue, refused by the capability policy or run by the       *)
(* executor of its type (with in-run retries of transient failures), its   *)
(* result and its claim are recorded, and the edges out of it decide what  *)
(* is queued next and whether a failure ends the run.                      *)
(*                                                                         *)
(* The walk is one goroutine; what it cannot foresee is what each node     *)
(* returns, when a deadline expires and how a template condition           *)
(* evaluates, and those are the nondeterministic choices.  Checkpoints and *)
(* node-level lifecycle events are best-effort writes nothing reads back   *)
(* and are left out; the run-level events are kept.                        *)
(***************************************************************************)
EXTENDS Naturals, Sequences, FiniteSets

CONSTANTS
  Node,           \* node ids, those no node of the graph carries included
  NoNode,         \* no node
  Graphs,         \* the graphs a run may be given
  MaxIterations   \* the executor's safety valve against endless loops

\* The hard cap on in-run attempts of a node.
maxRetryAttemptsCap == 5

Type == {"plugin", "agent", "gate", "branch", "external", "unregistered"}
When == {"", "always", "green", "failed", "changed", "unchanged", "template"}
Status == {"green", "failed", "skipped"}

Edge == [from : Node, to : Node, when : When, maxRetries : Nat]

\* A graph with the bindings its workflow declares.  The claim a node asserts
\* is named by the node, so a validation scope is the set of nodes it covers.
Graph == [nodes : Seq(Node), edges : Seq(Edge), type : [Node -> Type],
          background : SUBSET Node, retry : [Node -> Nat],
          requires : [Node -> SUBSET (STRING \X STRING)],
          bindings : Seq([name : STRING, granted : SUBSET STRING]),
          validates : [Node -> SUBSET Node]]

ASSUME NodeAssumption == NoNode \notin Node
ASSUME GraphsAssumption == Graphs \subseteq Graph
ASSUME IterationsAssumption == MaxIterations \in Nat

Result == [status : Status, changed : BOOLEAN]
NoResult == [status |-> "none", changed |-> FALSE]

\* The claim in a node's envelope: whether it asserts one, and who vouches.
Claim == [trust : {"none", "observed", "validated"}, by : Node \cup {NoNode}]
NoClaim == [trust |-> "none", by |-> NoNode]

VARIABLES
  graph,       \* the graph being walked
  pc,          \* where the walk is
  queue,       \* node ids still to visit
  iterations,  \* nodes taken from the queue
  edgeCount,   \* traversals per pair of nodes, as far as any limit can tell
  cur,         \* the node being run
  attempt,     \* its attempts that failed transiently
  results,     \* node -> latest result
  claims,      \* node -> claim of its latest envelope
  since,       \* node -> the nodes recorded after it (the ProducedAt order)
  status,      \* the run's outcome
  letter,      \* the node the dead letter names
  events       \* run-level lifecycle events, in order

vars == <<graph, pc, queue, iterations, edgeCount, cur, attempt, results,
          claims, since, status, letter, events>>
record == <<results, claims, since>>
outcome == <<status, letter, events>>

-----------------------------------------------------------------------------
\* The graph.

Known == {graph.nodes[i] : i \in DOMAIN graph.nodes}
isExternalNode(n) == n \in Known /\ graph.type[n] = "external"
IsBackground(n) == n \in graph.background
Deterministic(n) == graph.type[n] # "agent"

\* Loop-back edges and the edges of display-only nodes do not keep a node
\* from being an entry.
HasInEdge(n) ==
  \E i \in DOMAIN graph.edges :
    /\ graph.edges[i].to = n
    /\ graph.edges[i].maxRetries = 0
    /\ ~isExternalNode(graph.edges[i].from)

\* The members of a finite set of indices in ascending order: the k-th is the
\* one that k members do not exceed.
InOrder(ixs) ==
  [k \in 1..Cardinality(ixs) |-> CHOOSE i \in ixs : Cardinality({j \in ixs : j <= i}) = k]

entryNodes ==
  LET ix == InOrder({i \in DOMAIN graph.nodes :
                       ~HasInEdge(graph.nodes[i]) /\ graph.type[graph.nodes[i]] # "external"})
  IN [k \in DOMAIN ix |-> graph.nodes[ix[k]]]

\* Nothing may depend on side work; an edge to a display-only node does not.
BackgroundLeaves ==
  \A i \in DOMAIN graph.edges :
    LET e == graph.edges[i] IN
    ~(e.from \in Known /\ IsBackground(e.from) /\ ~isExternalNode(e.to))

\* What the workflow grants on a binding: of two bindings of one name the
\* later wins; a binding nobody declared grants nothing.
Granted(name) ==
  LET named == {i \in DOMAIN graph.bindings : graph.bindings[i].name = name}
  IN IF named = {} THEN {}
     ELSE graph.bindings[CHOOSE i \in named : \A j \in named : j <= i].granted

\* The requirements of n the declared bindings do not meet.
AuthorizeNode(n) ==
  {q \in graph.requires[n] : {q[2], "*"} \cap Granted(q[1]) = {}}

\* The attempts a node's retry policy allows in one visit.
MaxAttempts(n) ==
  IF graph.retry[n] <= 1 THEN 1
  ELSE IF graph.retry[n] > maxRetryAttemptsCap THEN maxRetryAttemptsCap
  ELSE graph.retry[n]

-----------------------------------------------------------------------------
\* What a node's executor returns (its type decides what is possible); the
\* claim it asserts, validated by its own word included, is the executor's. A
\* plugin's own event may say something else of `changed` than its status.

Returned(n) ==
  {r \in Result :
     CASE graph.type[n] = "plugin" -> r.changed => r.status # "failed"
       [] graph.type[n] = "branch" -> r.status # "skipped" /\ (r.changed => r.status = "green")
       [] OTHER -> r.status # "skipped" /\ ~r.changed}

Asserted(n) ==
  {NoClaim, [trust |-> "observed", by |-> NoNode], [trust |-> "validated", by |-> n]}

\* Only a plugin's exit code marks a failure transient.
MayBeTransient(n, r) == graph.type[n] = "plugin" /\ r.status = "failed"

\* Mutant: the word of any node stands.
EnforceNothing(n, c) == c

\* A node that is not deterministic cannot vouch for itself.
Enforce(n, c) ==
  IF ~Deterministic(n) /\ c.trust = "validated"
  THEN [trust |-> "observed", by |-> NoNode] ELSE c

\* A gate that went green vouches for the observed claims in its scope.
Promote(v, cs) ==
  [n \in Node |->
     IF graph.type[v] = "gate" /\ n \in graph.validates[v] /\ cs[n].trust = "observed"
     THEN [trust |-> "validated", by |-> v] ELSE cs[n]]

-----------------------------------------------------------------------------
\* Routing.

OutEdges(n) == {i \in DOMAIN graph.edges : graph.edges[i].from = n}

\* The edges out of n whose condition holds; a template is judged on outputs
\* the model does not carry, so `truthy` says which of them hold.
shouldTraverse(i, r, truthy) ==
  LET when == graph.edges[i].when IN
  \/ when = "always"
  \/ when \in {"", "green"} /\ r.status = "green"
  \/ when = "failed" /\ r.status = "failed"
  \/ when = "changed" /\ r.changed
  \/ when = "unchanged" /\ ~r.changed
  \/ when = "template" /\ i \in truthy

Templates(n) == {i \in OutEdges(n) : graph.edges[i].when = "template"}

Traversed(n, r, truthy) == {i \in OutEdges(n) : shouldTraverse(i, r, truthy)}

\* The traversed edges that count: not those to display-only nodes.
Counted(took) == {i \in took : ~isExternalNode(graph.edges[i].to)}

SameKey(took, i) ==
  {j \in Counted(took) : j <= i /\ graph.edges[j].to = graph.edges[i].to}

\* enqueueEdge, for all traversed edges in order: the count is kept per pair
\* of nodes, and an edge past its limit queues nothing.
Enqueued(n, took) ==
  {i \in Counted(took) :
     LET e == graph.edges[i] IN
     e.maxRetries = 0 \/ edgeCount[n, e.to] + Cardinality(SameKey(took, i)) <= e.maxRetries}

\* A failure is handled when an edge queued its target or led to a
\* display-only node.
Handled(n, took) == Enqueued(n, took) # {} \/ Counted(took) # took

\* No limit of the graph tells larger counts apart.
CountCap ==
  LET limits == {graph.edges[i].maxRetries : i \in DOMAIN graph.edges} \cup {0}
  IN 1 + (CHOOSE m \in limits : \A l \in limits : l <= m)

Count(n, took) ==
  [k \in Node \X Node |->
     LET new == IF k[1] # n THEN 0
                ELSE Cardinality({i \in Counted(took) : graph.edges[i].to = k[2]})
     IN IF edgeCount[k] + new > CountCap THEN CountCap ELSE edgeCount[k] + new]

Targets(n, took) ==
  LET ix == InOrder(Enqueued(n, took))
  IN [k \in DOMAIN ix |-> graph.edges[ix[k]].to]

Route(n, took, q) ==
  /\ queue' = q \o Targets(n, took)
  /\ edgeCount' = Count(n, took)

-----------------------------------------------------------------------------
\* The end of a run.

Return(s) == pc' = "done" /\ status' = s

\* Mutant: side work is fatal too.
unhandledAlwaysFatal(n) ==
  /\ Return("failed")
  /\ letter' = n
  /\ events' = Append(events, "pipeline.failed")

\* Mutant: no unhandled failure is fatal.
unhandledNeverFatal(n) == pc' = "walk" /\ UNCHANGED outcome

\* A failure no edge handles ends the run unless the node is side work.
unhandledNodeFailure(n) ==
  IF IsBackground(n)
  THEN pc' = "walk" /\ UNCHANGED outcome
  ELSE /\ Return("failed")
       /\ letter' = n
       /\ events' = Append(events, "pipeline.failed")

RouteFailure(n, took) ==
  IF Handled(n, took) THEN pc' = "walk" /\ UNCHANGED outcome
  ELSE unhandledNodeFailure(n)

Finalize(n, r, cs) ==
  /\ results' = [results EXCEPT ![n] = r]
  /\ claims' = cs
  /\ since' = [m \in Node |-> IF m = n THEN {} ELSE since[m] \cup {n}]

-----------------------------------------------------------------------------
Init ==
  /\ graph \in Graphs
  /\ pc = "start"
  /\ queue = <<>>
  /\ iterations = 0
  /\ edgeCount = [k \in Node \X Node |-> 0]
  /\ cur = NoNode
  /\ attempt = 0
  /\ results = [n \in Node |-> NoResult]
  /\ claims = [n \in Node |-> NoClaim]
  /\ since = [n \in Node |-> {}]
  /\ status = "green"
  /\ letter = NoNode
  /\ events = <<>>

\* The checks before any node runs: an authoring error ends the run at once.
Refuse ==
  /\ pc = "start"
  /\ ~BackgroundLeaves \/ entryNodes = <<>>
  /\ Return("failed")
  /\ UNCHANGED <<graph, queue, iterations, edgeCount, cur, attempt, record, letter, events>>

Start ==
  /\ pc = "start"
  /\ BackgroundLeaves
  /\ entryNodes # <<>>
  /\ pc' = "walk"
  /\ queue' = entryNodes
  /\ events' = Append(events, "pipeline.started")
  /\ UNCHANGED <<graph, iterations, edgeCount, cur, attempt, record, status, letter>>

\* The safety valve.
ExceedIterations ==
  /\ pc = "walk"
  /\ queue # <<>>
  /\ iterations >= MaxIterations
  /\ Return("failed")
  /\ UNCHANGED <<graph, queue, iterations, edgeCount, cur, attempt, record, letter, events>>

\* Mutant: only first visits count against the safety valve.
DequeueFirstVisits(n) ==
  /\ pc = "walk"
  /\ queue # <<>>
  /\ iterations < MaxIterations
  /\ n = Head(queue)
  /\ iterations' = IF n \in Node /\ results[n] = NoResult THEN iterations + 1 ELSE iterations
  /\ UNCHANGED <<graph, attempt>>

\* The next node is taken from the queue.
Dequeue(n) ==
  /\ pc = "walk"
  /\ queue # <<>>
  /\ iterations < MaxIterations
  /\ n = Head(queue)
  /\ iterations' = iterations + 1
  /\ UNCHANGED <<graph, attempt>>

UnknownNode(n) ==
  /\ Dequeue(n)
  /\ n \notin Known
  /\ queue' = Tail(queue)
  /\ Return("failed")
  /\ UNCHANGED <<edgeCount, cur, record, letter, events>>

\* The capability policy refuses the node; the refusal is routed like any
\* failure.
Deny(n) ==
  /\ Dequeue(n)
  /\ n \in Known
  /\ AuthorizeNode(n) # {}
  /\ \E truthy \in SUBSET Templates(n) :
       LET denied == [status |-> "failed", changed |-> FALSE]
           took == Traversed(n, denied, truthy)
       IN
       /\ Finalize(n, denied, [claims EXCEPT ![n] = NoClaim])
       /\ Route(n, took, Tail(queue))
       /\ RouteFailure(n, took)
  /\ UNCHANGED cur

\* No executor for the node's type: no edge is consulted.
RegistryMiss(n) ==
  /\ Dequeue(n)
  /\ n \in Known
  /\ AuthorizeNode(n) = {}
  /\ graph.type[n] \in {"unregistered", "external"}
  /\ queue' = Tail(queue)
  /\ Finalize(n, [status |-> "failed", changed |-> FALSE], [claims EXCEPT ![n] = NoClaim])
  /\ unhandledNodeFailure(n)
  /\ UNCHANGED <<edgeCount, cur>>

Begin(n) ==
  /\ Dequeue(n)
  /\ n \in Known
  /\ AuthorizeNode(n) = {}
  /\ graph.type[n] \notin {"unregistered", "external"}
  /\ queue' = Tail(queue)
  /\ pc' = "exec"
  /\ cur' = n
  /\ UNCHANGED <<edgeCount, record, outcome>>

\* A transient failure within the budget, the deadline not yet passed.
Retry ==
  /\ pc = "exec"
  /\ \E r \in Returned(cur) : MayBeTransient(cur, r)
  /\ attempt + 1 < MaxAttempts(cur)
  /\ attempt' = attempt + 1
  /\ UNCHANGED <<graph, pc, queue, iterations, edgeCount, cur, record, outcome>>

\* The last attempt: a transient failure may be last because the budget is
\* spent or because the deadline passed, before or during the backoff.
Complete ==
  /\ pc = "exec"
  /\ \E r \in Returned(cur), c \in Asserted(cur), truthy \in SUBSET Templates(cur) :
       LET took == Traversed(cur, r, truthy)
           cs == [claims EXCEPT ![cur] = Enforce(cur, c)]
       IN
       /\ Finalize(cur, r, IF r.status = "green" THEN Promote(cur, cs) ELSE cs)
       /\ Route(cur, took, queue)
       /\ IF r.status = "failed" THEN RouteFailure(cur, took)
          ELSE pc' = "walk" /\ UNCHANGED outcome
  /\ cur' = NoNode
  /\ attempt' = 0
  /\ UNCHANGED <<graph, iterations>>

Finish ==
  /\ pc = "walk"
  /\ queue = <<>>
  /\ pc' = "done"
  /\ events' = Append(events, "pipeline.completed")
  /\ UNCHANGED <<graph, queue, iterations, edgeCount, cur, attempt, record, status, letter>>

Next ==
  \/ Refuse
  \/ Start
  \/ ExceedIterations
  \/ \E n \in Node : UnknownNode(n)
  \/ \E n \in Node : Deny(n)
  \/ \E n \in Node : RegistryMiss(n)
  \/ \E n \in Node : Begin(n)
  \/ Retry
  \/ Complete
  \/ Finish

Spec == Init /\ [][Next]_vars

\* The walk keeps going: the goroutine runs and node executors return, which
\* their deadlines and the Job's enforce.
FairSpec == Spec /\ WF_vars(Next)

-----------------------------------------------------------------------------
\* Type correctness; attempts stay below the hard cap.
TypeOK ==
  /\ graph \in Graph
  /\ pc \in {"start", "walk", "exec", "done"}
  /\ queue \in Seq(Node)
  /\ iterations \in 0 .. MaxIterations
  /\ edgeCount \in [Node \X Node -> Nat]
  /\ cur \in Node \cup {NoNode}
  /\ attempt \in 0 .. maxRetryAttemptsCap - 1
  /\ results \in [Node -> Result \cup {NoResult}]
  /\ claims \in [Node -> Claim]
  /\ since \in [Node -> SUBSET Node]
  /\ status \in {"green", "failed"}
  /\ letter \in Node \cup {NoNode}
  /\ events \in Seq({"pipeline.started", "pipeline.completed", "pipeline.failed"})

Green == pc = "done" /\ status = "green"

\* An edge of n that its recorded failure satisfies (a template may have).
HandsOn(n, i) == shouldTraverse(i, results[n], Templates(n))

\* A green run left no foreground failure without a successor: each was
\* followed along an edge its result satisfies to a display-only node or to a
\* node that ran in turn.
GreenRunHandled ==
  Green =>
    \A n \in Node : results[n].status = "failed" /\ ~IsBackground(n) =>
      \E i \in OutEdges(n) :
        /\ HandsOn(n, i)
        /\ LET t == graph.edges[i].to IN isExternalNode(t) \/ results[t] # NoResult

\* The dead letter is the retry view's contract: it names a foreground node
\* whose failure was the last thing the run recorded, the run's only terminal
\* event says it failed, and a run without one published no failure.
DeadLetterIsFatal ==
  /\ letter # NoNode =>
       /\ pc = "done" /\ status = "failed"
       /\ ~IsBackground(letter)
       /\ results[letter].status = "failed"
       /\ since[letter] = {}
       /\ events = <<"pipeline.started", "pipeline.failed">>
  /\ letter = NoNode => "pipeline.failed" \notin {events[i] : i \in DOMAIN events}

\* The claim of a node that is not deterministic counts as validated only on
\* the word of a gate that ran after the node's latest run.
VouchedAfterwards ==
  \A n \in Node : claims[n].trust = "validated" /\ ~Deterministic(n) =>
    /\ claims[n].by \in since[n]
    /\ graph.type[claims[n].by] = "gate"

\* Every run ends, whatever its nodes return and however its edges loop.
Terminates == <>(pc = "done")

-----------------------------------------------------------------------------
\* What the comments say and the walk does not do.

\* "a node failure no when:failed edge handles ... a FOREGROUND failure fails
\* the run" (unhandledNodeFailure): no condition on an output, such as
\* `unchanged`, keeps a failed run green.
FailureNeedsHandler ==
  Green =>
    \A n \in Node : results[n].status = "failed" /\ ~IsBackground(n) =>
      \E i \in OutEdges(n) : graph.edges[i].when \in {"failed", "always", "template"}

\* "Returns false (and sets the pipeline to failed) if maxRetries is exceeded"
\* (enqueueEdge): a run that went past an edge's limit is not green.
ExceededRetriesFail ==
  Green =>
    \A i \in DOMAIN graph.edges :
      LET e == graph.edges[i] IN
      e.maxRetries > 0 => edgeCount[e.from, e.to] <= e.maxRetries

\* "DeadLetterEvent is published when a pipeline fails": every run that
\* started and failed has one.
FailedRunsLettered ==
  pc = "done" /\ status = "failed" /\ events # <<>> => letter # NoNode

\* "its failure is recorded (envelope, lifecycle, dead-letter)" (Background):
\* the failure of side work in a green run is dead-lettered.
SideFailureLettered ==
  Green => \A n \in graph.background : results[n].status = "failed" => letter = n

\* "Empty means always traverse (sequential)" (EdgeSpec.When): what follows a
\* node that ran, along an edge without a condition, ran too.
EmptyWhenAlways ==
  Green =>
    \A i \in DOMAIN graph.edges :
      LET e == graph.edges[i] IN
      /\ e.when = "" /\ e.maxRetries = 0 /\ ~isExternalNode(e.to)
      /\ results[e.from] # NoResult
      => results[e.to] # NoResult
=============================================================================
