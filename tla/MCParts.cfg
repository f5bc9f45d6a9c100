CONSTANTS
    dewpoint_ln_rh_q10 <- MCTable
    Temps <- MCTemps
    TempStep = 50
    HumidityStep = 50
    MA_FILTER_SIZE = 5
    Inputs <- MCInputs
    RawTemps <- MCRawTemps
    RawHumidities <- MCRawHumidities
    STEP_MOD = 64
    LOGGER_BUFFER_SIZE = 5
    LOGGER_CHUNK_SIZE = 2
    LineLengths = {1, 4, 6}
    MaxLines = 3
    Channels = {"stdout", "uart"}
    WireFrames <- MCWireFrames
    MaxFlips = 3
SPECIFICATION PartsSpec
INVARIANTS
    NeverFails
    SaturationIsTheLimit
    OnlyGoodDataIsAccepted
    LinesCutOnlyAtEnd
    DamagedFramesAreRefused
PROPERTIES
    FollowsTheAir
    ImplementsWindow
    ImplementsFifo
CHECK_DEADLOCK FALSE
