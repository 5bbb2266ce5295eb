SPECIFICATION MCFairSpec
CONSTANTS
  p1 = p1
  p2 = p2
  h1 = h1
  h2 = h2
  PR = {p1}
  NoPR = NoPR
  Head = {h1}
  NoHead = NoHead
  PrOf <- OneHead
  Job = {j1}
  NoJob = NoJob
  Capacity = 1
  Granular = FALSE
  Failure = {}
  Ok = {TRUE}
  Counted = {"label", "state", "ci"}
  Free = {"post", "end", "dispatch", "horizon"}
  MaxMoves = 1
  MaxDeadDispatchesPerHead = 1
  MaxDispatchLostReleases = 1
INVARIANTS
  CancelledSameSweep
PROPERTIES
  EventuallyReviewed
CHECK_DEADLOCK FALSE
