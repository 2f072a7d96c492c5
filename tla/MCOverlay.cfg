SPECIFICATION SuiteSpec
CONSTANTS
    Requests <- SomeRequests
    FirstFiles <- EditedFiles
    MaxRequests = 2
    MaxCrashes = 1
    Frames <- SomeFrames
    Scenes = {"game", "other"}
    Roots = {"r1", "r2"}
    MaxSeq = 2
    MaxRuns = 2
    MaxQueue = 1
    MaxFailing = 1
    MaxStray = 1
INVARIANTS
    StoreInv
    OverlayInv
PROPERTIES
    DrawnAsConfirmed
    EveryClientIsServed
    AppliedInOrder
    QuietShows
