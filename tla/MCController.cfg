SPECIFICATION LoopSpec
CONSTANTS
    kMaxDisplayFps = 120
    kMaxFpsWindow = 2
    kStartup = 2
    kRise = 2
    kShellUiGate = 1
    kGameGate = 2
    MaxShellUi = 1
    MaxGames = 2
    MaxClock = 15
    Measurable <- MCMeasurable
    Sources <- MCSources
    Blocking <- MCBlocking
    Scanning <- MCScanning
PROPERTIES
    SentIsBacked
CHECK_DEADLOCK FALSE
