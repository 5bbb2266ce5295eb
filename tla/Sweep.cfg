SPECIFICATION MCSpec
CONSTANTS
  p1 = p1
  p2 = p2
  h1 = h1
  h2 = h2
  PR = {p1}
  NoPR = NoPR
  Head = {h1, h2}
  NoHead = NoHead
  PrOf <- OnePR
  Job = {j1}
  NoJob = NoJob
  Capacity = 1
  Granular = TRUE
  Failure = {"pr", "comments"}
  Ok = {TRUE, FALSE}
  Counted = {"push", "label", "request", "end", "expire", "dispatch", "horizon", "state", "post"}
  Free = {}
  MaxMoves = 3
  MaxDeadDispatchesPerHead = 1
  MaxDispatchLostReleases = 1
PROPERTIES
  DeathIsFact
  ReviewedOnce
  HeadPinned
SYMMETRY Heads
CHECK_DEADLOCK FALSE
