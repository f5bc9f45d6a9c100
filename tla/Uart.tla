-------------------------------- MODULE Uart --------------------------------
(***************************************************************************)
(* Both directions of src/bsp/stm32f1/uart.c on one RS-485 bus.  They      *)
(* share the transceiver, which hears the bus only while it does not drive *)
(* it, and the processor: no interrupt has a priority of its own, so the   *)
(* IDLE interrupt waits while the interrupt of DMA channel 4 waits for TC. *)
(***************************************************************************)
EXTENDS UartRx, UartTx

uartVars == <<rxVars, txVars>>

Hear == ~de /\ (\E n \in FrameLengths : Receive(n)) /\ UNCHANGED txVars

ServeIdle == ~waiting /\ USART1_IRQHandler /\ UNCHANGED txVars

Send == TxNext /\ UNCHANGED rxVars

UartInit == RxInit /\ TxInit

UartNext == Hear \/ ServeIdle \/ Send

\* The UART sends, and the interrupt is served.
UartSpec == UartInit /\ [][UartNext]_uartVars /\ WF_uartVars(Hardware /\ UNCHANGED rxVars)
=============================================================================
