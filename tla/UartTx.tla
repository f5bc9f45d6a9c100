------------------------------- MODULE UartTx -------------------------------
(***************************************************************************)
(* Transmission in src/bsp/stm32f1/uart.c: uart1_tx_dma_async, which the   *)
(* Modbus and the logger task call with a buffer of their own stack frame, *)
(* DMA channel 4, and its interrupt, which turns the RS-485 transceiver    *)
(* round once the last byte has left the shift register.                   *)
(***************************************************************************)
EXTENDS Integers

CONSTANT Lengths   \* lengths of answers and of logger chunks

ASSUME TxAssumption == Lengths \subseteq Nat \ {0}

VARIABLES
    calling,   \* a task is between filling its buffer and returning
    enabled,   \* DMA1_CCR4 bit EN
    tx_cndtr,  \* DMA1_CNDTR4, bytes still to fetch
    shifting,  \* the UART sends a byte: flag TC is clear
    de,        \* the transceiver drives the bus
    waiting    \* the interrupt waits for TC

channel == <<enabled, tx_cndtr>>
txVars  == <<calling, channel, shifting, de, waiting>>

\* A task builds its data on the stack and calls uart1_tx_dma_async; tasks do not
\* run while the interrupt waits.  A busy channel refuses the call, and neither
\* caller looks at the result.
Refuse ==
    /\ ~calling /\ ~waiting /\ enabled
    /\ calling' = TRUE
    /\ UNCHANGED <<channel, shifting, de, waiting>>

Start(n) ==
    /\ ~calling /\ ~waiting /\ ~enabled
    /\ calling' = TRUE
    /\ de' = TRUE
    /\ enabled' = TRUE /\ tx_cndtr' = n
    /\ UNCHANGED <<shifting, waiting>>

\* The caller returns.  The data it handed over lie in its stack frame, which is
\* free for others from now on, whether the DMA has read them or not.
ReturnFromTask ==
    /\ calling /\ ~waiting
    /\ calling' = FALSE
    /\ UNCHANGED <<channel, shifting, de, waiting>>

Fetch ==
    /\ enabled /\ tx_cndtr > 0 /\ ~shifting
    /\ tx_cndtr' = tx_cndtr - 1
    /\ shifting' = TRUE
    /\ UNCHANGED <<calling, enabled, de, waiting>>

ShiftOut ==
    /\ shifting
    /\ shifting' = FALSE
    /\ UNCHANGED <<calling, channel, de, waiting>>

\* Mutant: the transceiver is turned round as soon as the DMA is done.
TransferCompleteNoWait ==
    /\ enabled /\ tx_cndtr = 0 /\ ~waiting
    /\ enabled' = FALSE
    /\ de' = FALSE
    /\ UNCHANGED <<calling, tx_cndtr, shifting, waiting>>

\* DMA1_Channel4_IRQHandler switches the channel off and waits for TC ...
TransferComplete ==
    /\ enabled /\ tx_cndtr = 0 /\ ~waiting
    /\ enabled' = FALSE
    /\ waiting' = TRUE
    /\ UNCHANGED <<calling, tx_cndtr, shifting, de>>

\* Mutant: the direction is left as it is.
LeaveInterruptDriving ==
    /\ waiting /\ ~shifting
    /\ waiting' = FALSE
    /\ UNCHANGED <<calling, channel, shifting, de>>

\* ... and then releases the bus.
LeaveInterrupt ==
    /\ waiting /\ ~shifting
    /\ de' = FALSE
    /\ waiting' = FALSE
    /\ UNCHANGED <<calling, channel, shifting>>

TxInit ==
    /\ calling = FALSE
    /\ enabled = FALSE /\ tx_cndtr = 0
    /\ shifting = FALSE /\ de = FALSE /\ waiting = FALSE

Hardware == Fetch \/ ShiftOut \/ TransferComplete \/ LeaveInterrupt

TxNext == Refuse \/ (\E n \in Lengths : Start(n)) \/ ReturnFromTask \/ Hardware

\* The UART sends, and the interrupt is served.
TxSpec == TxInit /\ [][TxNext]_txVars /\ WF_txVars(Hardware)
-----------------------------------------------------------------------------
(* Properties *)

\* The transceiver drives the bus for as long as there is a byte to fetch or a
\* bit to send (README.md: "preventing stop-bit truncation"), although tasks try
\* to send again meanwhile.
DriverOnWhileSending == enabled \/ shifting => de

\* The bus is given back after every transmission, and not by the luck of another one.
BusIsReleased ==
    /\ [](~enabled /\ ~waiting => ~de)
    /\ enabled ~> ~de
=============================================================================
