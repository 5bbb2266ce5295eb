SPECIFICATION SideFairSpec
CONSTANTS
  a = a
  b = b
  c = c
  x = x
  NoNode = NoNode
  Node <- MCNode
  Graphs <- WalkGraphs
  MaxIterations = 8
INVARIANTS
  GreenRunHandled
  VouchedAfterwards
  DeadLetterIsFatal
PROPERTIES
  Terminates
  ForegroundAlone
CHECK_DEADLOCK FALSE
