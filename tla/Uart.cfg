CONSTANTS
    UART_RX_DMA_BUF_SIZE = 8
    FrameLengths = {2, 3, 7}
    Lengths = {8, 15, 32}
SPECIFICATION UartSpec
INVARIANT DriverOnWhileSending
PROPERTIES
    NothingLostOrReordered
    BusIsReleased
