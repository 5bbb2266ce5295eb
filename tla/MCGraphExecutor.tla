-------------------------- MODULE MCGraphExecutor --------------------------
(***************************************************************************)
(* Small pipeline graphs for model checking: every choice of edges from a  *)
(* pool, over three nodes and one id no node carries.                      *)
(***************************************************************************)
EXTENDS GraphExecutor

CONSTANTS a, b, c, x

E(f, t, w, m) == [from |-> f, to |-> t, when |-> w, maxRetries |-> m]

\* A gate feedback loop with every kind of condition around it.
LoopPool == <<E(a, b, "", 0), E(b, a, "failed", 2), E(a, c, "failed", 0),
              E(b, c, "always", 0), E(a, c, "unchanged", 0), E(b, c, "template", 0)>>
\* Loops no limit bounds, parallel edges that share a count, a dangling edge.
WildPool == <<E(a, b, "changed", 0), E(b, b, "failed", 0), E(a, b, "failed", 1),
              E(b, c, "green", 0), E(c, b, "always", 1), E(c, x, "failed", 0)>>
\* Side work hangs off nodes that succeed.
SidePool == <<E(a, b, "", 0), E(b, a, "failed", 1), E(a, c, "green", 0),
              E(b, c, "green", 0)>>

T(ta, tb, tc) == [n \in Node |-> CASE n = a -> ta [] n = b -> tb [] OTHER -> tc]

\* b may need a capability its workflow does not grant; the second binding of
\* a name replaces the first.
Pushes == {<<"repo", "push">>}
Reads == {<<"repo", "read">>}
Bindings == <<[name |-> "repo", granted |-> {"*"}], [name |-> "repo", granted |-> {"read"}]>>

GraphsOver(pool, types, sides, needs) ==
  {[nodes |-> <<a, b, c>>,
    edges |-> SelectSeq(pool, LAMBDA e : e \in es),
    type |-> t, background |-> bg,
    retry |-> [n \in Node |-> IF n = a THEN 7 ELSE 0],
    requires |-> [n \in Node |-> IF n = b THEN q ELSE {}],
    bindings |-> Bindings,
    validates |-> [n \in Node |-> IF n = b THEN {a, c} ELSE {}]] :
     es \in SUBSET {pool[i] : i \in DOMAIN pool}, t \in types, bg \in sides, q \in needs}

LoopGraphs ==
  GraphsOver(LoopPool, {T("agent", "gate", "gate"), T("plugin", "gate", "external")},
             {{}}, {{}, Pushes})
WildGraphs ==
  LET types == {T("branch", "plugin", "agent"), T("plugin", "gate", "unregistered")}
  IN GraphsOver(WildPool, types, {{}}, {{}, Pushes}) \cup GraphsOver(WildPool, types, {{c}}, {{}})
SideGraphs ==
  GraphsOver(SidePool, {T("agent", "gate", "plugin"), T("plugin", "gate", "plugin")},
             {{}, {c}}, {{}, Reads})

WalkGraphs == LoopGraphs \cup WildGraphs \cup SideGraphs

MCNode == {a, b, c, x}
=============================================================================
