SPECIFICATION Spec
CONSTANTS
  w1 = w1
  w2 = w2
  p1 = p1
  p2 = p2
  Run = {r1, r2}
  Workflow = {w1, w2}
  PR = {p1, p2}
  Lineage <- Lineages
  OldDirectory <- OldDirectories
  OldSession = {p1}
  Reserved = {w2}
  Mount = {"none", "mounted", "ephemeral", "uncreatable"}
  AgentNodes <- Nodes
  PriorCap = 1
INVARIANTS
  FreshSession
  LinkDiscipline
PROPERTIES
  ResearchKept
  RoundsKept
CONSTRAINT TwoAgents
SYMMETRY Runs
CHECK_DEADLOCK FALSE
