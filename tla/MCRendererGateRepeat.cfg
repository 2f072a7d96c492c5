SPECIFICATION Spec
CONSTANTS
    kShellUiGate = 2
    kGameGate = 2
    kRetryTicks = 2
    kMarkerPolls = 4
    kLookupEvery = 2
    MaxShellUi = 2
    MaxGames = 1
    MaxFaults = 1
INVARIANTS
    FailingImageNotRepeated
