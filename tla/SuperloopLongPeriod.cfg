CONSTANTS
    BootPeriod = 10
    Timeout = 20
    Regimes <- MCLongPeriod
SPECIFICATION LoopSpec
INVARIANT OnlyHangsAreReset
