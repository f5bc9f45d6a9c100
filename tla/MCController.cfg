CONSTANTS
    RawConfigs <- MCRawConfigs
    Samples <- MCSamples
    Margins <- MCMargins
    MA_FILTER_SIZE = 5
    UINT8_MOD = 5
    HistoryDepth = 4
SPECIFICATION FairHSpec
INVARIANTS
    TypeOK
    RelaySafeOutsideRun
    RunFollowsHysteresis
    ErrorStreakIsAnswered
    OkStreakOnlyInFault
PROPERTIES
    HealthySensorReachesRun
    ImplementsDebounce
