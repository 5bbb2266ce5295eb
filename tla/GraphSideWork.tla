--------------------------- MODULE GraphSideWork ---------------------------
(***************************************************************************)
(* What side work may do to a run: nothing.  The walk of a graph, seen     *)
(* without its background nodes, is a walk of the same executor over the   *)
(* graph without them, so the outcome is decided by foreground nodes       *)
(* alone.  The graph must keep its side work apart (SideWorkApart): a      *)
(* foreground entry, no edge that hands a foreground failure to side work  *)
(* or comes back from it, no background gate that vouches for claims, and  *)
(* no foreground loop that only the iteration valve ends, because the      *)
(* valve counts side work too.                                             *)
(***************************************************************************)
EXTENDS GraphExecutor

\* Nodes taken from the queue that are not side work: the iterations the run
\* would have made without it.
VARIABLE fgIterations

sideVars == <<vars, fgIterations>>

SideInit == Init /\ fgIterations = 0

SideNext ==
  /\ Next
  /\ fgIterations' =
       IF iterations' # iterations /\ ~IsBackground(Head(queue))
       THEN fgIterations + 1 ELSE fgIterations

SideSpec == SideInit /\ [][SideNext]_sideVars
SideFairSpec == SideSpec /\ WF_sideVars(SideNext)

Foreground(n) == ~IsBackground(n)

\* A graph without its side work.
ForegroundOf(g) ==
  [g EXCEPT !.nodes = SelectSeq(@, LAMBDA n : n \notin g.background),
            !.edges = SelectSeq(@, LAMBDA e : {e.from, e.to} \cap g.background = {}),
            !.background = {}]

SideWorkApart(g) ==
  /\ g.nodes # <<>> /\ g.nodes[1] \notin g.background
  /\ \A i \in DOMAIN g.edges :
       /\ g.edges[i].from \notin g.background
       /\ g.edges[i].to = g.edges[i].from => g.edges[i].maxRetries > 0
       /\ g.edges[i].to \in g.background => g.edges[i].when \in {"", "green", "changed"}
  /\ \A n \in g.background : g.type[n] # "gate"

Fg == INSTANCE GraphExecutor WITH
  Graphs <- {ForegroundOf(g) : g \in Graphs},
  graph <- ForegroundOf(graph),
  pc <- IF cur # NoNode /\ IsBackground(cur) THEN "walk" ELSE pc,
  queue <- SelectSeq(queue, Foreground),
  iterations <- fgIterations,
  edgeCount <- [k \in Node \X Node |->
                  IF Foreground(k[1]) /\ Foreground(k[2]) THEN edgeCount[k] ELSE 0],
  cur <- IF cur # NoNode /\ IsBackground(cur) THEN NoNode ELSE cur,
  attempt <- IF cur # NoNode /\ IsBackground(cur) THEN 0 ELSE attempt,
  results <- [n \in Node |-> IF Foreground(n) THEN results[n] ELSE NoResult],
  claims <- [n \in Node |-> IF Foreground(n) THEN claims[n] ELSE NoClaim],
  since <- [n \in Node |-> {m \in Node : Foreground(m) /\ IF Foreground(n) THEN m \in since[n]
                                         ELSE results[m] # NoResult}]

\* The outcome of a run is decided by its foreground nodes alone: whatever
\* background nodes return, a run whose side work is apart is, step by step, a
\* run of the graph without it.
ForegroundAlone ==
  /\ SideWorkApart(graph) => Fg!Init
  /\ [][SideWorkApart(graph) => [Fg!Next]_(Fg!vars)]_sideVars
=============================================================================
