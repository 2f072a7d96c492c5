SPECIFICATION SuiteSpec
CONSTANTS
    MaxAttempts = 3
    MaxFaults = 4
    LauncherFaults = 3
    LauncherStarts = 3
INVARIANTS
    InjectionInv
    ReleasedRuns
    AuthorityInv
PROPERTIES
    AttemptEnds
