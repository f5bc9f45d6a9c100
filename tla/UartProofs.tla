----------------------------- MODULE UartProofs -----------------------------
(***************************************************************************)
(* Theorems about both directions of the UART, for every size of the       *)
(* receive buffer, every set of lengths of transmissions and, in           *)
(* reception, every set of lengths of frames that are shorter than the     *)
(* buffer.                                                                 *)
(***************************************************************************)
EXTENDS Uart, SequenceTheorems, TLAPS

(* Transmission *)

\* The transceiver drives the bus exactly while the channel is on or its interrupt waits,
\* and the UART has nothing to send at any other time.
TxInv ==
    /\ enabled \in BOOLEAN /\ waiting \in BOOLEAN /\ shifting \in BOOLEAN /\ de \in BOOLEAN
    /\ de = TRUE <=> enabled = TRUE \/ waiting = TRUE
    /\ enabled = TRUE => waiting = FALSE
    /\ shifting = TRUE => enabled = TRUE \/ waiting = TRUE

\* The steps of the transmission keep it.
LEMMA TxStep ==
    ASSUME TxInv, [TxNext]_txVars
    PROVE  TxInv'
<1> USE DEF TxInv, channel
<1>1. CASE Refuse
  BY <1>1 DEF Refuse
<1>2. ASSUME NEW n \in Lengths, Start(n) PROVE TxInv'
  BY <1>2 DEF Start
<1>3. CASE ReturnFromTask
  BY <1>3 DEF ReturnFromTask
<1>4. CASE Fetch
  BY <1>4 DEF Fetch
<1>5. CASE ShiftOut
  BY <1>5 DEF ShiftOut
<1>6. CASE TransferComplete
  BY <1>6 DEF TransferComplete
<1>7. CASE LeaveInterrupt
  BY <1>7 DEF LeaveInterrupt
<1>8. CASE UNCHANGED txVars
  BY <1>8 DEF txVars
<1> QED
  BY <1>1, <1>2, <1>3, <1>4, <1>5, <1>6, <1>7, <1>8 DEF TxNext, Hardware

\* Receiving does not disturb it.
LEMMA TxInvariant == UartSpec => []TxInv
<1>1. UartInit => TxInv
  BY DEF UartInit, TxInit, TxInv
<1>2. TxInv /\ [UartNext]_uartVars => TxInv'
  <2> SUFFICES ASSUME TxInv, [UartNext]_uartVars PROVE TxInv'
    OBVIOUS
  <2>1. [TxNext]_txVars
    BY DEF UartNext, Hear, ServeIdle, Send, uartVars
  <2> QED
    BY <2>1, TxStep
<1> QED
  BY <1>1, <1>2, PTL DEF UartSpec

\* The driver stays on until the last bit is out (uart1_tx_dma_async,
\* DMA1_Channel4_IRQHandler).
THEOREM DriverStaysOn == UartSpec => []DriverOnWhileSending
<1>1. TxInv => DriverOnWhileSending
  BY DEF TxInv, DriverOnWhileSending
<1> QED
  BY <1>1, TxInvariant, PTL

\* The bus is nobody's when the channel is off and its interrupt is over: the safety half
\* of BusIsReleased.
THEOREM BusIsFreeAfterwards == UartSpec => [](~enabled /\ ~waiting => ~de)
<1>1. TxInv => (~enabled /\ ~waiting => ~de)
  BY DEF TxInv
<1> QED
  BY <1>1, TxInvariant, PTL
-----------------------------------------------------------------------------
(* Reception *)

\* The position after less than one turn of the buffer.
LEMMA OneTurn ==
    ASSUME NEW x \in 0 .. 2 * UART_RX_DMA_BUF_SIZE - 1
    PROVE  x % UART_RX_DMA_BUF_SIZE
             = IF x < UART_RX_DMA_BUF_SIZE THEN x ELSE x - UART_RX_DMA_BUF_SIZE
  BY RxAssumption

\* What two calls of the callback hand over is the one after the other.
LEMMA OneChunk == ASSUME NEW s PROVE FlattenSeq(<<s>>) = s
<1> SUFFICES ASSUME NEW q, Len(q) = 1, q[1] = s PROVE FlattenSeq(q) = s
  OBVIOUS
<1> DEFINE F(f) == [i \in 1 .. Len(q) |-> IF i = 1 THEN q[i] ELSE f[i - 1] \o q[i]]
           g == [i \in 1 .. 1 |-> s]
           h == CHOOSE f : f = F(f)
<1>1. g = F(g)
  OBVIOUS
<1>2. h = F(h)
  BY <1>1
<1>3. FlattenSeq(q) = h[Len(q)]
  BY DEF FlattenSeq
<1> HIDE DEF h
<1> QED
  BY <1>2, <1>3

LEMMA TwoChunks == ASSUME NEW s, NEW t PROVE FlattenSeq(<<s, t>>) = s \o t
<1> SUFFICES ASSUME NEW q, Len(q) = 2, q[1] = s, q[2] = t PROVE FlattenSeq(q) = s \o t
  OBVIOUS
<1> DEFINE F(f) == [i \in 1 .. Len(q) |-> IF i = 1 THEN q[i] ELSE f[i - 1] \o q[i]]
           g == [i \in 1 .. 2 |-> IF i = 1 THEN s ELSE s \o t]
           h == CHOOSE f : f = F(f)
<1>1. g = F(g)
  OBVIOUS
<1>2. h = F(h)
  BY <1>1
<1>3. FlattenSeq(q) = h[Len(q)]
  BY DEF FlattenSeq
<1> HIDE DEF h
<1>4. h[1] = s
  BY <1>2
<1>5. h[2] = h[1] \o t
  <2>1. F(h)[2] = h[2 - 1] \o q[2]
    OBVIOUS
  <2>2. 2 - 1 = 1
    OBVIOUS
  <2>3. h[2] = F(h)[2]
    BY <1>2, Zenon
  <2> HIDE DEF F
  <2> QED
    BY <2>1, <2>2, <2>3
<1> QED
  BY <1>3, <1>4, <1>5

LEMMA OneAndMore ==
    ASSUME NEW a, NEW b
    PROVE  <<a>> \o <<>> = <<a>> /\ <<a>> \o <<b>> = <<a, b>>
<1>1. <<a>> \in Seq({a, b}) /\ <<b>> \in Seq({a, b})
  OBVIOUS
<1>2. <<a>> \o <<>> = <<a>>
  BY <1>1, ConcatEmptySeq
<1>3. <<a>> \o <<b>> = <<a, b>>
  <2>1. <<a>> \o <<b>> = Append(<<a>>, b)
    BY <1>1, AppendIsConcat
  <2>2. Append(<<a>>, b) = <<a, b>>
    <3>1. /\ Append(<<a>>, b) \in Seq({a, b}) /\ Len(Append(<<a>>, b)) = 2
          /\ Append(<<a>>, b)[1] = a /\ Append(<<a>>, b)[2] = b
      BY <1>1, AppendProperties
    <3>2. <<a, b>> \in Seq({a, b}) /\ Len(<<a, b>>) = 2 /\ <<a, b>>[1] = a /\ <<a, b>>[2] = b
      OBVIOUS
    <3> DEFINE u == Append(<<a>>, b)
               v == <<a, b>>
    <3> HIDE DEF u, v
    <3>3. Len(u) = Len(v) /\ \A i \in 1 .. Len(u) : u[i] = v[i]
      BY <3>1, <3>2 DEF u, v
    <3>4. u = v
      BY <3>1, <3>2, <3>3, SeqEqual DEF u, v
    <3> QED
      BY <3>4 DEF u, v
  <2> QED
    BY <2>1, <2>2
<1> QED
  BY <1>2, <1>3

\* A frame as long as the buffer would leave the position where it was.
ShorterThanBuffer == \A n \in FrameLengths : n < UART_RX_DMA_BUF_SIZE

Bytes == Int \X Int

\* Where the i-th byte since the last interrupt is.
Place(i) == (g_last_rx_pos + i - 1) % UART_RX_DMA_BUF_SIZE

\* The frame n has arrived after the last position that was delivered.
Holds(n) ==
    /\ arrived = Frame(n)
    /\ dma_pos = (g_last_rx_pos + n) % UART_RX_DMA_BUF_SIZE
    /\ \A i \in 1 .. n : g_rx_dma_buffer[Place(i)] = <<n, i>>

RxInv ==
    /\ rx_cndtr \in 1 .. UART_RX_DMA_BUF_SIZE /\ g_last_rx_pos \in Positions
    /\ g_rx_dma_buffer \in [Positions -> Bytes]
    /\ \/ arrived = <<>> /\ dma_pos = g_last_rx_pos
       \/ \E n \in FrameLengths : Holds(n)

\* The bytes of a frame lie at different positions.
LEMMA PlacesDiffer ==
    ASSUME NEW p \in Positions, NEW n \in FrameLengths, NEW i \in 1 .. n, NEW j \in 1 .. n,
           (p + i - 1) % UART_RX_DMA_BUF_SIZE = (p + j - 1) % UART_RX_DMA_BUF_SIZE
    PROVE  i = j
<1> DEFINE x == p + i - 1
           y == p + j - 1
<1>1. /\ x \in 0 .. 2 * UART_RX_DMA_BUF_SIZE - 1 /\ y \in 0 .. 2 * UART_RX_DMA_BUF_SIZE - 1
      /\ x - y \in - UART_RX_DMA_BUF_SIZE + 1 .. UART_RX_DMA_BUF_SIZE - 1
      /\ x % UART_RX_DMA_BUF_SIZE = y % UART_RX_DMA_BUF_SIZE
      /\ x = y => i = j
  BY RxAssumption DEF Positions
<1> HIDE DEF x, y
<1>2. x % UART_RX_DMA_BUF_SIZE = IF x < UART_RX_DMA_BUF_SIZE THEN x ELSE x - UART_RX_DMA_BUF_SIZE
  BY <1>1, OneTurn
<1>3. y % UART_RX_DMA_BUF_SIZE = IF y < UART_RX_DMA_BUF_SIZE THEN y ELSE y - UART_RX_DMA_BUF_SIZE
  BY <1>1, OneTurn
<1> QED
  BY <1>1, <1>2, <1>3, RxAssumption

\* A frame that arrives lies where the interrupt will look for it.
LEMMA ReceiveHolds ==
    ASSUME RxInv, NEW n \in FrameLengths, Receive(n)
    PROVE  RxInv'
<1> DEFINE at(i) == (dma_pos + i - 1) % UART_RX_DMA_BUF_SIZE
<1>1. /\ arrived = <<>> /\ arrived' = Frame(n) /\ g_last_rx_pos' = g_last_rx_pos
      /\ rx_cndtr' = UART_RX_DMA_BUF_SIZE - ((dma_pos + n) % UART_RX_DMA_BUF_SIZE)
      /\ g_rx_dma_buffer' = [p \in Positions |-> IF \E i \in 1 .. n : at(i) = p
                                                 THEN <<n, CHOOSE i \in 1 .. n : at(i) = p>>
                                                 ELSE g_rx_dma_buffer[p]]
  BY DEF Receive
<1>2. n \in 1 .. UART_RX_DMA_BUF_SIZE
  BY RxAssumption
<1>3. dma_pos = g_last_rx_pos
  <2> SUFFICES ASSUME NEW m \in FrameLengths, Holds(m) PROVE FALSE
    BY DEF RxInv
  <2>1. Len(Frame(m)) = m /\ m > 0
    BY RxAssumption DEF Frame
  <2> QED
    BY <1>1, <2>1 DEF Holds
<1>4. (dma_pos + n) % UART_RX_DMA_BUF_SIZE \in Positions /\ \A i \in 1 .. n : at(i) \in Positions
  BY <1>2, <1>3, RxAssumption DEF RxInv, Positions
<1>5. rx_cndtr' \in 1 .. UART_RX_DMA_BUF_SIZE
      /\ dma_pos' = (g_last_rx_pos' + n) % UART_RX_DMA_BUF_SIZE
  BY <1>1, <1>3, <1>4, RxAssumption DEF dma_pos, Positions
<1>6. \A i \in 1 .. n : g_rx_dma_buffer'[at(i)] = <<n, i>>
  <2> TAKE i \in 1 .. n
  <2>1. \A j \in 1 .. n : at(j) = at(i) => j = i
    BY <1>3, PlacesDiffer DEF RxInv
  <2>2. (CHOOSE j \in 1 .. n : at(j) = at(i)) = i
    BY <2>1
  <2>3. at(i) \in Positions
    BY <1>4
  <2> HIDE DEF at
  <2> QED
    BY <1>1, <2>2, <2>3
<1>7. g_rx_dma_buffer' \in [Positions -> Bytes]
  <2> SUFFICES ASSUME NEW p \in Positions
               PROVE  (IF \E i \in 1 .. n : at(i) = p
                       THEN <<n, CHOOSE i \in 1 .. n : at(i) = p>>
                       ELSE g_rx_dma_buffer[p]) \in Bytes
    BY <1>1
  <2>1. CASE \E i \in 1 .. n : at(i) = p
    <3>1. (CHOOSE i \in 1 .. n : at(i) = p) \in 1 .. n
      BY <2>1
    <3> QED
      BY <1>2, <2>1, <3>1 DEF Bytes
  <2>2. CASE ~ \E i \in 1 .. n : at(i) = p
    BY <2>2 DEF RxInv
  <2> QED
    BY <2>1, <2>2
<1>8. \A i \in 1 .. n : g_rx_dma_buffer'[Place(i)'] = <<n, i>>
  BY <1>1, <1>3, <1>6 DEF Place
<1>9. Holds(n)'
  BY <1>1, <1>5, <1>8 DEF Holds, Frame
<1> QED
  BY <1>1, <1>5, <1>7, <1>9 DEF RxInv, Positions

\* What the interrupt delivers of a frame that lies there is the frame.
LEMMA HeldIsDelivered ==
    ASSUME ShorterThanBuffer, RxInv, NEW n \in FrameLengths, Holds(n)
    PROVE  FlattenSeq(Delivered) = Frame(n)
<1> DEFINE S == UART_RX_DMA_BUF_SIZE
           p == g_last_rx_pos
           d == dma_pos
<1>1. S \in Nat \ {0} /\ n \in 1 .. S - 1 /\ p \in 0 .. S - 1
  BY RxAssumption DEF ShorterThanBuffer, RxInv, Positions
<1>2. (p + n < S => d = p + n) /\ (p + n >= S => d = p + n - S)
  <2> DEFINE x == p + n
  <2>1. x \in 0 .. 2 * S - 1
    BY <1>1
  <2>2. d = x % S
    BY DEF Holds
  <2> HIDE DEF x
  <2>3. x % S = IF x < S THEN x ELSE x - S
    BY <2>1, OneTurn
  <2>4. (x < S => d = x) /\ (x >= S => d = x - S)
    BY <1>1, <2>1, <2>2, <2>3
  <2> QED
    BY <1>1, <2>4 DEF x
<1>3. \A i \in 1 .. n :
        /\ p + i - 1 < S => g_rx_dma_buffer[p + i - 1] = <<n, i>>
        /\ p + i - 1 >= S => g_rx_dma_buffer[p + i - 1 - S] = <<n, i>>
  <2> TAKE i \in 1 .. n
  <2> DEFINE x == p + i - 1
  <2>1. x \in 0 .. 2 * S - 1
    BY <1>1
  <2>2. g_rx_dma_buffer[x % S] = <<n, i>>
    BY DEF Holds, Place
  <2> HIDE DEF x
  <2>3. x % S = IF x < S THEN x ELSE x - S
    BY <2>1, OneTurn
  <2>4. (x < S => x % S = x) /\ (x >= S => x % S = x - S)
    BY <1>1, <2>1, <2>3
  <2>5. /\ x < S => g_rx_dma_buffer[x] = <<n, i>>
        /\ x >= S => g_rx_dma_buffer[x - S] = <<n, i>>
    BY <2>2, <2>4
  <2> QED
    BY <1>1, <2>5 DEF x
<1> HIDE DEF S, p, d
<1>4. CASE d > p
  <2>1. d = p + n /\ p + n < S
    BY <1>1, <1>2, <1>4
  <2>2. Chunk(p, d - 1) = Frame(n)
    <3>1. d - 1 - p + 1 = n /\ \A i \in 1 .. n : p + i - 1 < S
      BY <1>1, <2>1
    <3> QED
      BY <1>3, <3>1 DEF Chunk, Frame
  <2>3. Delivered = <<Chunk(p, d - 1)>>
    BY <1>1, <1>4, <2>1 DEF Delivered, p, d
  <2> QED
    BY <2>2, <2>3, OneChunk
<1>5. CASE ~ (d > p)
  <2>1. d = p + n - S /\ d \in 0 .. S - 1 /\ d < p /\ S - p \in 1 .. n
    BY <1>1, <1>2, <1>5
  <2> DEFINE k == S - p
  <2>2. Chunk(p, S - 1) = [i \in 1 .. k |-> <<n, i>>]
    <3>1. S - 1 - p + 1 = k /\ \A i \in 1 .. k : i \in 1 .. n /\ p + i - 1 < S
      BY <1>1, <2>1
    <3> QED
      BY <1>3, <3>1 DEF Chunk
  <2>3. Chunk(0, d - 1) = [i \in 1 .. d |-> <<n, k + i>>]
    <3>1. d - 1 - 0 + 1 = d
      BY <2>1
    <3>2. \A i \in 1 .. d : /\ k + i \in 1 .. n /\ ~ (p + (k + i) - 1 < S)
                            /\ p + (k + i) - 1 - S = 0 + i - 1
      BY <1>1, <2>1
    <3>3. \A i \in 1 .. d : g_rx_dma_buffer[0 + i - 1] = <<n, k + i>>
      <4> TAKE i \in 1 .. d
      <4> DEFINE j == k + i
      <4>1. j \in 1 .. n /\ p + j - 1 >= S /\ p + j - 1 - S = 0 + i - 1
        BY <1>1, <2>1, <3>2
      <4> HIDE DEF j
      <4>2. g_rx_dma_buffer[p + j - 1 - S] = <<n, j>>
        BY <1>3, <4>1
      <4> QED
        BY <4>1, <4>2 DEF j
    <3> QED
      BY <3>1, <3>3 DEF Chunk
  <2> DEFINE head == IF d > 0 THEN <<Chunk(0, d - 1)>> ELSE <<>>
  <2>4. Delivered = <<Chunk(p, S - 1)>> \o head
    <3>1. ~ (dma_pos = g_last_rx_pos) /\ ~ (dma_pos > g_last_rx_pos) /\ dma_pos < g_last_rx_pos
      BY <1>1, <2>1 DEF p, d
    <3> QED
      BY <3>1, Zenon DEF Delivered, S, p, d
  <2>5. CASE d = 0
    <3>1. Delivered = <<Chunk(p, S - 1)>>
      <4>1. head = <<>>
        BY <2>5
      <4> QED
        BY <2>4, <4>1, OneAndMore
    <3>2. k = n
      BY <1>1, <2>1, <2>5
    <3> QED
      BY <2>2, <3>1, <3>2, OneChunk DEF Frame
  <2>6. CASE d > 0
    <3>1. Delivered = <<Chunk(p, S - 1), Chunk(0, d - 1)>>
      <4>1. head = <<Chunk(0, d - 1)>>
        BY <2>6
      <4> QED
        BY <2>4, <4>1, OneAndMore
    <3>2. [i \in 1 .. k |-> <<n, i>>] \o [i \in 1 .. d |-> <<n, k + i>>] = Frame(n)
      <4>1. k \in Nat /\ d \in Nat /\ k + d = n /\ n \in Nat
        BY <1>1, <2>1
      <4> HIDE DEF k
      <4> QED
        BY <4>1 DEF Frame
    <3> QED
      BY <2>2, <2>3, <3>1, <3>2, TwoChunks
  <2> QED
    BY <2>1, <2>5, <2>6
<1> QED
  BY <1>4, <1>5

\* Every step keeps the frame that has arrived in its place until it is delivered.
LEMMA RxStep ==
    ASSUME RxInv, [UartNext]_uartVars
    PROVE  RxInv'
<1>1. ASSUME NEW n \in FrameLengths, Receive(n) PROVE RxInv'
  BY <1>1, ReceiveHolds
<1>2. CASE USART1_IRQHandler
  <2>1. dma_pos \in Positions
    BY RxAssumption DEF RxInv, Positions, dma_pos, Holds
  <2>2. /\ arrived' = <<>> /\ g_last_rx_pos' = dma_pos /\ dma_pos' = dma_pos
        /\ rx_cndtr' = rx_cndtr /\ g_rx_dma_buffer' = g_rx_dma_buffer
    BY <1>2 DEF USART1_IRQHandler, dma_pos
  <2> QED
    BY <2>1, <2>2 DEF RxInv, Positions
<1>3. CASE UNCHANGED rxVars
  BY <1>3 DEF rxVars, RxInv, Holds, Place, Positions, dma_pos
<1> QED
  BY <1>1, <1>2, <1>3 DEF UartNext, Hear, ServeIdle, Send, uartVars

\* Every frame that is shorter than the buffer reaches the callback byte for byte, in one
\* or two chunks, wherever it began (USART1_IRQHandler).
THEOREM FramesAreDelivered == ASSUME ShorterThanBuffer PROVE UartSpec => NothingLostOrReordered
<1>1. UartInit => RxInv
  <2> SUFFICES ASSUME UartInit PROVE RxInv
    OBVIOUS
  <2>1. <<0, 0>> \in Bytes
    BY DEF Bytes
  <2> QED
    BY <2>1, RxAssumption DEF UartInit, RxInit, RxInv, Positions, dma_pos
<1>2. RxInv /\ [UartNext]_uartVars => RxInv'
  BY RxStep
<1>3. RxInv => (USART1_IRQHandler => FlattenSeq(chunks') = arrived)
  <2> SUFFICES ASSUME RxInv, USART1_IRQHandler PROVE FlattenSeq(chunks') = arrived
    OBVIOUS
  <2>1. arrived # <<>> /\ chunks' = Delivered
    BY DEF USART1_IRQHandler
  <2>2. PICK n \in FrameLengths : Holds(n)
    BY <2>1 DEF RxInv
  <2>3. FlattenSeq(Delivered) = Frame(n)
    BY <2>2, HeldIsDelivered
  <2> QED
    BY <2>1, <2>2, <2>3 DEF Holds
<1> QED
  BY <1>1, <1>2, <1>3, PTL DEF UartSpec, NothingLostOrReordered
=============================================================================
