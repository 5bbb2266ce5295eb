SPECIFICATION FairSpec
CONSTANTS
  MaxFixes = 2
  MaxMessages = 3
  PipeCap = 1
  ChanCap = 1
INVARIANTS
  UsageExact
  KilledGateIsNoFeedback
  FlushedBeforeRead
PROPERTIES
  RunEnds
CHECK_DEADLOCK FALSE
