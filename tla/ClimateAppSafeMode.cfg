CONSTANTS
    RawConfigs = {}
    Samples <- MCSamples
    Margins = {499, 701}
    MA_FILTER_SIZE = 5
    UINT8_MOD = 256
    UINT32_MOD = 3
    Erased = Erased
    Damaged = Damaged
    InitialFlash <- MCInitialFlash
    ConfigWrites <- MCConfigWrites
SPECIFICATION NodeSpec
PROPERTY SafeModeIsPermanent
