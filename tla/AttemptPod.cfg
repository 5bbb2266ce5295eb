SPECIFICATION Spec
CONSTANTS
    Runs = {a, b}
    ProbeBatch = 2
    JournalEntries = 3
    JournalBytes = 3
    MaxEvents = 1
    MaxFaults = 2
    MaxEdits = 1
    Scenarios <- MCScenarios
    Specs <- MCSpecs
    Profiles <- MCProfiles
    OldJournal <- MCOldJournal
SYMMETRY Symmetry
INVARIANTS
    DeclaredSetLoaded
    SessionEnvSafe
    IdentityKept
    RejectedByFleetOnly
    
CHECK_DEADLOCK FALSE
