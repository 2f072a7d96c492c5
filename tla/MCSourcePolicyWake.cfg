SPECIFICATION Spec
CONSTANTS
    kGameGate = 2
    kStandby = 5
    kMisses = 2
    kBackoff = 4
    kWarmup = 1
    MaxGames = 2
    Periods = {1, 2}
    MaxTime = 12
CHECK_DEADLOCK FALSE
PROPERTIES
    MissesRecoverAtOnce
