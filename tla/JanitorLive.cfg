SPECIFICATION FairSpec
CONSTANTS
  PR = {p1}
  NoPR = NoPR
  Job = {j1}
  NoJob = NoJob
  MaxDeadDispatchesPerHead = 1
  MaxDispatchLostReleases = 1
  Objective = {h1, h2}
  Rolling = head
  NoObjective = NoObjective
  Gated = {TRUE, FALSE}
  MaxWakes = 2
PROPERTIES
  EventuallyCollected
  NoStrandedJob
