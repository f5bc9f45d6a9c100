CONSTANTS
    RawConfigs = {}
    Samples <- MCSamples
    Margins = {499, 550, 650, 901}
    MA_FILTER_SIZE = 2
    UINT8_MOD = 5
    UINT32_MOD = 3
    Erased = Erased
    Damaged = Damaged
    InitialFlash <- MCInitialFlash
    ConfigWrites <- MCConfigWrites
SPECIFICATION NodeSpec
INVARIANTS
    AppTypeOK
    PinAwaitsSample
    WrittenConfigInForce
    FaultsAreCounted
PROPERTY TaskDrivesPin
