----------------------------- MODULE Interrupts -----------------------------
(***************************************************************************)
(* Which code answers an exception: the vector table of                    *)
(* src/bsp/stm32f1/startup_stm32f103.c against the exception numbers of    *)
(* the Cortex-M3 and of the STM32F103, which are not in the repository.    *)
(* Every other module takes the handlers to be called as their names say.  *)
(***************************************************************************)
EXTENDS Integers

CONSTANT Sources   \* the exceptions that may occur, some of those below

\* Exception numbers of the hardware: the system tick is the last core
\* exception, and external interrupt n is exception 16 + n.
SysTick     == 15
ExternalIRQ(n) == 16 + n
PVD         == ExternalIRQ(1)
DMA1Channel4 == ExternalIRQ(14)
USART1      == ExternalIRQ(37)

VARIABLES
    pending,    \* exceptions raised and not yet taken
    handler,    \* the code the processor executes
    ticks,      \* SystemTicks, modulo 4
    isolated    \* ctrl_force_emergency_shutdown has run

irqVars == <<pending, handler, ticks, isolated>>

\* g_isr_vector; PendSV_Handler is a weak alias of Default_Handler, and no
\* entry names PVD_IRQHandler or DMA1_Channel4_IRQHandler.
Vector(exception) ==
    CASE exception = 16 -> "SysTick_Handler"
      [] exception = 53 -> "USART1_IRQHandler"
      [] OTHER          -> "Default_Handler"

Raise(exception) ==
    /\ exception \notin pending
    /\ pending' = pending \cup {exception}
    /\ UNCHANGED <<handler, ticks, isolated>>

\* Priorities are never set: the lowest number is taken first, and none preempts.
Take ==
    /\ handler = "main" /\ pending # {}
    /\ \E e \in pending :
         /\ \A other \in pending : e <= other
         /\ handler' = Vector(e)
         /\ pending' = pending \ {e}
    /\ UNCHANGED <<ticks, isolated>>

\* A handler returns; Default_Handler never does.
Return ==
    /\ handler \notin {"main", "Default_Handler"}
    /\ handler' = "main"
    /\ ticks' = IF handler = "SysTick_Handler" THEN (ticks + 1) % 4 ELSE ticks
    /\ isolated' = (isolated \/ handler = "PVD_IRQHandler")
    /\ UNCHANGED pending

IrqInit == pending = {} /\ handler = "main" /\ ticks = 0 /\ isolated = FALSE

IrqNext == (\E e \in Sources : Raise(e)) \/ Take \/ Return

\* The processor takes pending exceptions and executes handlers.
IrqSpec == IrqInit /\ [][IrqNext]_irqVars /\ WF_irqVars(Take) /\ WF_irqVars(Return)
-----------------------------------------------------------------------------
(* Properties *)

\* A system tick is counted (startup_stm32f103.c: core exceptions are entries
\* 0..15 of the table, and SysTick_Handler is there to increment SystemTicks).
TickIsCounted == SysTick \in pending ~> handler = "SysTick_Handler"
=============================================================================
