CONSTANTS
    BootPeriod = 10
    Timeout = 20
    Regimes <- MCRegimes
SPECIFICATION LoopSpec
INVARIANT OnlyHangsAreReset
