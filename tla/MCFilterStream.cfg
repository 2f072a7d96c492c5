SPECIFICATION Spec
CONSTANTS
    kMaxDisplayFps = 120
    kMaxFpsWindow = 3
    kStartup = 3
    kRise = 3
    MaxTime = 9
    Feeds <- MCFeeds
    Inputs <- MCInputs
    Gaps <- MCGaps
INVARIANTS
    TypeOK
    SettledBeforeShown
    ShownFromCurrentFeed
    HoldBounded
PROPERTIES
    RiseConfirmed
    DropAndRecoveryAtOnce
