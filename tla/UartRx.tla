------------------------------- MODULE UartRx -------------------------------
(***************************************************************************)
(* Reception in src/bsp/stm32f1/uart.c: DMA channel 5 writes the bytes of  *)
(* the line into a circular buffer, and the IDLE interrupt hands what has  *)
(* arrived since the last one to the callback, as pointers into that       *)
(* buffer.  The interrupt comes in the silence after each frame.           *)
(***************************************************************************)
EXTENDS Integers, Sequences, SequencesExt

CONSTANTS
    UART_RX_DMA_BUF_SIZE,
    FrameLengths           \* lengths of the frames on the bus

ASSUME RxAssumption ==
    /\ UART_RX_DMA_BUF_SIZE \in Nat \ {0}
    /\ FrameLengths \subseteq 1 .. UART_RX_DMA_BUF_SIZE

VARIABLES
    g_rx_dma_buffer,  \* position -> byte, a byte being <<length of its frame, index>>
    rx_cndtr,         \* DMA1_CNDTR5
    g_last_rx_pos,
    arrived,          \* bytes since the last interrupt, in order
    chunks            \* what the last interrupt gave to the callback

rxVars == <<g_rx_dma_buffer, rx_cndtr, g_last_rx_pos, arrived, chunks>>

Positions == 0 .. UART_RX_DMA_BUF_SIZE - 1
Frame(n)  == [i \in 1 .. n |-> <<n, i>>]

dma_pos == UART_RX_DMA_BUF_SIZE - rx_cndtr

\* A frame arrives as a whole: no transmission begins within it.  The channel counts
\* down to zero and reloads.
Receive(n) ==
    LET at(i) == (dma_pos + i - 1) % UART_RX_DMA_BUF_SIZE
    IN  /\ arrived = <<>>
        /\ arrived' = Frame(n)
        /\ g_rx_dma_buffer' =
             [p \in Positions |-> IF \E i \in 1 .. n : at(i) = p
                                  THEN <<n, CHOOSE i \in 1 .. n : at(i) = p>>
                                  ELSE g_rx_dma_buffer[p]]
        /\ rx_cndtr' = UART_RX_DMA_BUF_SIZE - ((dma_pos + n) % UART_RX_DMA_BUF_SIZE)
        /\ chunks' = <<>>
        /\ UNCHANGED g_last_rx_pos

\* The bytes at positions first .. last, as the callback sees them.
Chunk(first, last) == [i \in 1 .. last - first + 1 |-> g_rx_dma_buffer[first + i - 1]]

\* Mutant: the tail before the wrap is dropped.
DeliveredHeadOnly ==
    IF dma_pos > g_last_rx_pos THEN <<Chunk(g_last_rx_pos, dma_pos - 1)>>
    ELSE <<Chunk(0, dma_pos - 1)>>

\* After a wrap the tail and the head of the buffer are two calls, the second
\* only if the head is not empty.
Delivered ==
    CASE dma_pos = g_last_rx_pos -> <<>>
      [] dma_pos > g_last_rx_pos -> <<Chunk(g_last_rx_pos, dma_pos - 1)>>
      [] dma_pos < g_last_rx_pos ->
           <<Chunk(g_last_rx_pos, UART_RX_DMA_BUF_SIZE - 1)>>
           \o IF dma_pos > 0 THEN <<Chunk(0, dma_pos - 1)>> ELSE <<>>

USART1_IRQHandler ==
    /\ arrived # <<>>
    /\ chunks' = Delivered
    /\ g_last_rx_pos' = dma_pos
    /\ arrived' = <<>>
    /\ UNCHANGED <<g_rx_dma_buffer, rx_cndtr>>

RxInit ==
    /\ g_rx_dma_buffer = [p \in Positions |-> <<0, 0>>]
    /\ rx_cndtr = UART_RX_DMA_BUF_SIZE
    /\ g_last_rx_pos = 0
    /\ arrived = <<>> /\ chunks = <<>>

RxNext == (\E n \in FrameLengths : Receive(n)) \/ USART1_IRQHandler

RxSpec == RxInit /\ [][RxNext]_rxVars
-----------------------------------------------------------------------------
(* Properties *)

\* Every byte of a frame reaches the callback once and in order, though perhaps in two
\* calls, wherever in the buffer the frame began and whatever older bytes lie there.
NothingLostOrReordered == [][USART1_IRQHandler => FlattenSeq(chunks') = arrived]_rxVars
=============================================================================
