SPECIFICATION PageSpec
CONSTANTS
    r1 = r1
    r2 = r2
    Runs <- MCRuns
    LegacyRuns <- MCLegacyRuns
    Claimed = TRUE
    Buffer = 1
    WireMax = 1
    MaxFaults = 1
INVARIANTS AnnouncedIsShown
PROPERTIES Converges
CHECK_DEADLOCK FALSE
