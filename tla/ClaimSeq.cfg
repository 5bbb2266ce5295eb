SPECIFICATION Spec
CONSTANTS
  s1 = s1
  s2 = s2
  w1 = w1
  w2 = w2
  Sweeper = {s1}
  Pod = {w1}
  PodOf <- PodOfOne
  Head = {h1, h2}
  NoHead = NoHead
  PR = {p1, p2}
  NoPR = NoPR
  Job = {j1}
  NoJob = NoJob
  GateReason = {"horizon"}
  MaxDeadDispatchesPerHead = 1
  MaxDispatchLostReleases = 1
INVARIANTS
  NoInvisibleClaim
  BreakerHolds
  DeadEraSettled
PROPERTIES
  OneChargePerDispatch
CONSTRAINT TwoOfThree
SYMMETRY Names
CHECK_DEADLOCK FALSE
