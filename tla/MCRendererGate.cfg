SPECIFICATION FairSpec
CONSTANTS
    kShellUiGate = 2
    kGameGate = 2
    kRetryTicks = 2
    kMarkerPolls = 4
    kLookupEvery = 2
    MaxShellUi = 3
    MaxGames = 2
    MaxFaults = 2
INVARIANTS
    TypeOK
    AtMostOneImage
    OnlineIsReal
    FailedWaitIsLast
PROPERTIES
    RetryPaced
    Settles
