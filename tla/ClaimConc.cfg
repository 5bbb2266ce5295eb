SPECIFICATION Spec
CONSTANTS
  s1 = s1
  s2 = s2
  w1 = w1
  w2 = w2
  Sweeper = {s1, s2}
  Pod = {w1, w2}
  PodOf <- PodOfTwo
  Head = {h1, h2, h3}
  NoHead = NoHead
  PR = {p1}
  NoPR = NoPR
  Job = {j1}
  NoJob = NoJob
  GateReason = {"consumed"}
  MaxDeadDispatchesPerHead = 1
  MaxDispatchLostReleases = 1
INVARIANTS
  BreakerOvershoot
  LiveClaimsBounded
PROPERTIES
  OneChargePerStamp
CONSTRAINT OneHeadOrArmsOnly
SYMMETRY Names
CHECK_DEADLOCK FALSE
