CONSTANTS
    RawConfigs = {}
    Samples <- MCSamples
    Margins = {499, 701}
    MA_FILTER_SIZE = 3
    UINT8_MOD = 8
    FlagSets <- MCFlagSets
    MaxCrashes = 7
SPECIFICATION IsolationSpec
INVARIANTS
    ThreeInRowLock
    
    
    CrashesAreRemembered
