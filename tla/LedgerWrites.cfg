SPECIFICATION Spec
CONSTANTS
  Run = {r1, r2}
  Node = {n1, n2}
  Reference = {}
  NoReference = NoReference
  Weight = {1}
  MaxStatusRuns = 1
  MaxStatusNodeResults = 3
  MaxStatusEvidence = 1
  MaxStatusBytes = 1
  MinTailEnvelopes = 2
  MaxNodeSteps = 2
  MaxTries = 2
INVARIANTS TotalsExact
PROPERTY WritesAreAtomic
CHECK_DEADLOCK FALSE
SYMMETRY RunSymmetry
