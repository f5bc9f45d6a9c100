--------------------------- MODULE ModbusMailbox ---------------------------
(***************************************************************************)
(* A Modbus master and this node.  In the node the receive interrupt       *)
(* (modbus_uart_event_callback of modbus_server.c) and the Modbus task     *)
(* (modbus_task and handle_modbus_request of main_mcu.c) share one event,  *)
(* one parsed request and, through its data pointer, the ring that the DMA *)
(* controller writes.  The task reads and writes the registers, which are  *)
(* a copy of the application's values that it makes for every request.     *)
(*                                                                         *)
(* A frame is abstracted to its function and a word for each four bytes of *)
(* it, which is half a request: of a request the register's address and    *)
(* the quantity or value.  Frames of other lengths shift those behind them *)
(* in the ring, until one reaches across its edge.                         *)
(***************************************************************************)
EXTENDS Registers, Sequences

CONSTANTS
    Frames,          \* what may be sent on a bus: [function, data]
    RING,            \* words that fit into the DMA ring: 64 in the firmware, 256 bytes
    Surroundings,    \* the [frames, read_twice, impatient] considered: what is sent on the
                     \* bus; whether the build loads srv.event for each of its two tests;
                     \* whether the master repeats a request before it is answered, or drops
                     \* it for another
    Measurements,    \* what the control task may measure: register -> number
    FirstConfigs,    \* configurations to begin with: register -> number
    BootUptime, MaxUptime,   \* bounds of the clock, in milliseconds
    None             \* model value

ASSUME MailboxAssumption ==
    /\ RING \in Nat /\ RING > 2 /\ RING % 2 = 0
    /\ Surroundings \subseteq [frames : SUBSET Frames, read_twice : BOOLEAN, impatient : BOOLEAN]
    /\ \A f \in Frames :
         /\ f.function \in {"READ", "WRITE", "OTHER", "FOREIGN"}
         /\ f.data \in Seq(Nat) /\ Len(f.data) \in 1 .. RING - 1
         /\ f.function # "FOREIGN" => Len(f.data) >= 2
         /\ f.function \in {"READ", "WRITE"} => f.data \in Nat \X (0 .. WORD - 1)
    /\ Measurements \subseteq [MeasuredRegisters -> Int]
    /\ FirstConfigs \subseteq [ConfigRegisters -> Int]
    /\ BootUptime \in Nat /\ MaxUptime \in Nat
    /\ None \notin [frame : Frames, slot : 0 .. RING - 1]

VARIABLES
    given,                   \* the surroundings, which never change
    event, request,          \* of the modbus_server_t; request is [function, length, slot]
    ring, landing,           \* slot -> word last written there; slot the next frame begins at
    line,                    \* a frame that has landed, its IDLE interrupt still to come
    pc, function, regs,      \* of the task; what it has read of the request; its registers
    measured, uptime, config,\* of the application: the report, the clock, app->cfg
    reply,                   \* the answer on its way to the master
    waiting, asked           \* of the master: for what, and the request it sent last

server      == <<event, request>>
dma         == <<ring, landing, line>>
task        == <<pc, function, regs>>
application == <<measured, uptime, config>>

\* For the properties: the instants of the application since the master asked, whether
\* it asked a node that was at rest, and whether what it has sent since was torn by the
\* edge of the ring.
VARIABLES instants, orderly, torn

master      == <<waiting, asked, orderly, torn>>
mailboxVars == <<given, server, dma, task, application, reply, master, instants>>

Instant == [measured |-> measured, uptime |-> uptime]

\* An answer: the words of a normal one, or the code of an exception.
Exception(f, code) == [function |-> f, exception |-> code, words |-> <<>>]
Normal(f, words)   == [function |-> f, exception |-> 0, words |-> words]
NoAnswer           == [function |-> "NONE", exception |-> 0, words |-> <<>>]

\* While the master waits for an answer, every instant counts.
Witnessed == instants' = IF waiting = "answer" THEN instants \cup {Instant'} ELSE instants
-----------------------------------------------------------------------------
(* The bus *)

\* Frames with this node's address or the broadcast address, OTHER being those of
\* another function, and frames that the parser refuses for their address or their CRC.
OwnFrames     == {f \in given.frames : f.function # "FOREIGN"}
ForeignFrames == {f \in given.frames : f.function = "FOREIGN"}

Wrapped(slot) == IF slot < RING THEN slot ELSE slot - RING

\* A frame that begins at the slot goes beyond the edge of the ring.
Straddles(frame, slot) == slot + Len(frame.data) > RING

\* The place in the frame that a slot of the ring gets, if the frame is so long.
PlaceIn(slot) == 1 + IF slot >= landing THEN slot - landing ELSE slot - landing + RING

Land(frame) ==
    /\ line = None
    /\ line' = [frame |-> frame, slot |-> landing]
    /\ ring' = [s \in 0 .. RING - 1 |-> IF PlaceIn(s) <= Len(frame.data)
                                        THEN frame.data[PlaceIn(s)] ELSE ring[s]]
    /\ landing' = Wrapped(landing + Len(frame.data))

\* Nothing is left to do in the node, on the line or in its transmitter.
Quiet == pc = "poll" /\ event = "NONE" /\ line = None
AtRest == Quiet /\ reply = NoAnswer

\* A master that waits for answers and timeouts is in order by itself; one that does
\* not is so only when it asks a node at rest.
InOrder == given.impatient => AtRest

Ask(frame) ==
    /\ waiting = "nothing"
    /\ Land(frame)
    /\ waiting' = "answer" /\ asked' = frame
    /\ orderly' = InOrder /\ torn' = Straddles(frame, landing)
    /\ instants' = {Instant}
    /\ UNCHANGED <<given, server, task, application, reply>>

\* A broadcast is handled, and answered, like any other request; the master
\* expects no answer and leaves the node time to work.
Broadcast(frame) ==
    /\ waiting = "nothing"
    /\ Land(frame)
    /\ waiting' = "turnaround" /\ asked' = frame
    /\ orderly' = InOrder
    /\ UNCHANGED <<given, server, task, application, reply, instants, torn>>

Overhear(frame) ==
    /\ waiting = "nothing"
    /\ Land(frame)
    /\ orderly' = (orderly /\ InOrder)
    /\ UNCHANGED <<given, server, task, application, reply, waiting, asked, instants, torn>>

\* An impatient master sends its request again while it still waits.
Retry ==
    /\ given.impatient
    /\ waiting = "answer"
    /\ Land(asked)
    /\ torn' = (torn \/ Straddles(asked, landing))
    /\ UNCHANGED <<given, server, task, application, reply, waiting, asked, orderly, instants>>

\* The answer and the silence around it take about a millisecond on the wire; by
\* then the task has left the handler that sent it and cleared the event.
Answered ==
    /\ reply # NoAnswer /\ pc # "clear"
    /\ reply' = NoAnswer
    /\ waiting' = IF waiting = "answer" THEN "nothing" ELSE waiting
    /\ instants' = {} /\ torn' = FALSE
    /\ UNCHANGED <<given, server, dma, task, application, asked, orderly>>

\* Timeouts and the delay after a broadcast are far longer than a period of the
\* task, unless the master is impatient.
GiveUp ==
    /\ waiting # "nothing" /\ (given.impatient \/ AtRest)
    /\ waiting' = "nothing"
    /\ instants' = {} /\ torn' = FALSE
    /\ UNCHANGED <<given, server, dma, task, application, reply, asked, orderly>>
-----------------------------------------------------------------------------
(* The interrupt *)

\* modbus_parse_request fills the request in before it looks at the function.
Parsed(frame) ==
    CASE frame.function = "FOREIGN" -> "ADDRESS_ERROR"
      [] frame.function = "OTHER"   -> "FUNCTION_ERROR"
      [] OTHER                      -> "REQUEST"

\* uart.c calls back once for each side of the edge, and the parser refuses both parts
\* for their length or their CRC.
Received(frame, slot) == IF Straddles(frame, slot) THEN "TORN" ELSE Parsed(frame)

IdleInterrupt ==
    /\ line # None
    /\ event' = Received(line.frame, line.slot)
    /\ request' = IF event' \in {"ADDRESS_ERROR", "TORN"} THEN request
                  ELSE [function |-> line.frame.function, length |-> Len(line.frame.data),
                        slot |-> line.slot]
    /\ line' = None
    /\ UNCHANGED <<given, ring, landing, task, application, reply, master, instants>>
-----------------------------------------------------------------------------
(* The application, whose tasks take turns with the Modbus task *)

Elapse ==
    /\ uptime < MaxUptime
    /\ uptime' = uptime + 1
    /\ UNCHANGED <<given, server, dma, task, measured, config, reply, master>>
    /\ Witnessed

Measure ==
    /\ pc = "poll"
    /\ measured' \in Measurements \ {measured}
    /\ UNCHANGED <<given, server, dma, task, uptime, config, reply, master>>
    /\ Witnessed
-----------------------------------------------------------------------------
(* The Modbus task *)

ILLEGAL_FUNC      == 1
ILLEGAL_DATA_ADDR == 2
ILLEGAL_DATA_VAL  == 3

\* uart1_tx_dma_async refuses an answer while another is being sent, and nobody
\* looks at its result.
Sent(answer) == IF reply = NoAnswer THEN answer ELSE reply

\* Mutant: the event is cleared on every path.
PollAlwaysClears ==
    /\ pc = "poll"
    /\ pc' = IF event = "REQUEST" THEN "handle" ELSE "clear"
    /\ UNCHANGED <<given, server, dma, function, regs, application, reply, master, instants>>

Poll ==
    /\ pc = "poll"
    /\ pc' = IF event = "REQUEST" THEN "handle"
             ELSE IF given.read_twice THEN "test again"
             ELSE IF event # "NONE" THEN "clear" ELSE "poll"
    /\ UNCHANGED <<given, server, dma, function, regs, application, reply, master, instants>>

TestAgain ==
    /\ pc = "test again"
    /\ pc' = IF event # "NONE" THEN "clear" ELSE "poll"
    /\ UNCHANGED <<given, server, dma, function, regs, application, reply, master, instants>>

\* sync_registers, then the switch on the function.
SyncRegisters ==
    /\ pc = "handle"
    /\ regs' = [measured |-> measured, uptime |-> uptime, config |-> config]
    /\ function' = request.function
    /\ pc' = IF function' = "WRITE" THEN "apply" ELSE "respond"
    /\ UNCHANGED <<given, server, dma, application, reply, master, instants>>

\* The answer to a read of the registers in r with the data d.
ReadAnswer(r, d) ==
    IF ~QuantityIsLegal(d[2]) THEN Exception("READ", ILLEGAL_DATA_VAL)
    ELSE IF ~Readable(d[1], d[2]) THEN Exception("READ", ILLEGAL_DATA_ADDR)
    ELSE Normal("READ", MbRegsRead(r, d[1], d[2]))

\* The two words behind the data pointer of the request, as they are now.
Data == <<ring[request.slot], ring[request.slot + 1]>>

\* Mutant: the high word of the clock is read when its turn comes.
RespondToReadTorn ==
    /\ pc = "respond" /\ function = "READ"
    /\ LET live == [regs EXCEPT !.uptime = uptime]
       IN  reply' = Sent([ReadAnswer(regs, Data) EXCEPT !.words =
                             [i \in DOMAIN @ |-> IF Data[1] + i - 1 = MB_UPTIME_HI
                                                 THEN RegisterWord(live, MB_UPTIME_HI) ELSE @[i]]])
    /\ pc' = "clear"
    /\ UNCHANGED <<given, server, dma, function, regs, application, master, instants>>

RespondToRead ==
    /\ pc = "respond" /\ function = "READ"
    /\ reply' = Sent(IF request.length = 2 THEN ReadAnswer(regs, Data)
                     ELSE Exception("READ", ILLEGAL_DATA_VAL))
    /\ pc' = "clear"
    /\ UNCHANGED <<given, server, dma, function, regs, application, master, instants>>

\* The default branch, for a request that was exchanged for another after the event.
RespondToOther ==
    /\ pc = "respond" /\ function = "OTHER"
    /\ reply' = Sent(Exception("OTHER", ILLEGAL_FUNC))
    /\ pc' = "clear"
    /\ UNCHANGED <<given, server, dma, function, regs, application, master, instants>>

\* mb_regs_write_single, then apply_modbus_write_to_app, on the data as they are now.
ApplyWrite ==
    /\ pc = "apply"
    /\ IF request.length = 2 /\ Writable(Data[1], Data[2])
       THEN /\ config' = [config EXCEPT ![Data[1]] = Decoded(Data[1], Data[2])]
            /\ regs' = [regs EXCEPT !.config = config']
            /\ pc' = "respond"
            /\ UNCHANGED reply
       ELSE /\ reply' = Sent(Exception("WRITE", IF request.length = 2 THEN ILLEGAL_DATA_ADDR
                                                ELSE ILLEGAL_DATA_VAL))
            /\ pc' = "clear"
            /\ UNCHANGED <<config, regs>>
    /\ UNCHANGED <<given, server, dma, function, measured, uptime, master, instants>>

\* The data bytes are read once more, for the echo.
RespondToWrite ==
    /\ pc = "respond" /\ function = "WRITE"
    /\ reply' = Sent(Normal("WRITE", Data))
    /\ pc' = "clear"
    /\ UNCHANGED <<given, server, dma, function, regs, application, master, instants>>

\* Mutant: only errors are cleared.
ClearErrorsOnly ==
    /\ pc = "clear"
    /\ event' = IF event = "REQUEST" THEN event ELSE "NONE"
    /\ pc' = "poll" /\ function' = None /\ regs' = None
    /\ UNCHANGED <<given, request, dma, application, reply, master, instants>>

\* modbus_server_clear_event clears whatever the event is by now.  What the task
\* has read of a request it reads again for the next one.
ClearEvent ==
    /\ pc = "clear"
    /\ event' = "NONE"
    /\ pc' = "poll" /\ function' = None /\ regs' = None
    /\ UNCHANGED <<given, request, dma, application, reply, master, instants>>
-----------------------------------------------------------------------------
MailboxInit ==
    /\ given \in Surroundings
    /\ event = "NONE" /\ request = None
    /\ ring = [s \in 0 .. RING - 1 |-> 0] /\ landing = 0 /\ line = None
    /\ measured \in Measurements /\ uptime = BootUptime /\ config \in FirstConfigs
    /\ pc = "poll" /\ function = None /\ regs = None
    /\ reply = NoAnswer
    /\ waiting = "nothing" /\ asked = None /\ orderly = TRUE /\ torn = FALSE /\ instants = {}

Bus ==
    \/ \E f \in OwnFrames : Ask(f) \/ Broadcast(f)
    \/ \E f \in ForeignFrames : Overhear(f)
    \/ Retry \/ Answered \/ GiveUp

TaskStep ==
    \/ Poll \/ TestAgain \/ SyncRegisters
    \/ RespondToRead \/ RespondToOther \/ ApplyWrite \/ RespondToWrite \/ ClearEvent

MailboxNext == Bus \/ IdleInterrupt \/ Elapse \/ Measure \/ TaskStep

MailboxSpec == MailboxInit /\ [][MailboxNext]_mailboxVars
-----------------------------------------------------------------------------
(* Properties *)

\* A request that was received intact is picked up by the task (main_mcu.c, the
\* comment in modbus_server_on_request_ready): once the node is quiet, a master that
\* asked for a supported function has its answer under way, however often it
\* repeated itself meanwhile.  It takes a bus that carries nothing but this node's
\* requests, a build that reads the event once, as otherwise a request that arrives
\* between test and clear is dropped, and that neither the request nor a repetition
\* reached across the edge of the ring.
NoRequestIsLost ==
    ForeignFrames = {} /\ ~given.read_twice /\ orderly /\ ~torn /\ Quiet
        /\ waiting = "answer" /\ asked.function # "OTHER"
      => reply # NoAnswer

\* What a word means in a register: the margins are signed, the period is not.
Meaning(a, word) ==
    CHOOSE x \in (IF a = MB_CFG_SAMPLE_MS THEN 0 .. WORD - 1 ELSE -(WORD \div 2) .. WORD \div 2 - 1) :
      x % WORD = word

\* A write that the node must refuse: a read-only register, or a period of zero.
Refused(d) == d[1] \notin ConfigRegisters \/ d = <<MB_CFG_SAMPLE_MS, 0>>

\* The answer that reaches the master answers its own request and is true: a read
\* shows the registers as they were together at one instant since it asked; an echo
\* means that the register now holds the value, sign and all; an exception means that
\* there is a reason for it.
AnswersAreTrue ==
    reply # NoAnswer /\ waiting = "answer" /\ orderly =>
        CASE asked.function = "READ" ->
               \E i \in instants :
                 reply = ReadAnswer([measured |-> i.measured, uptime |-> i.uptime,
                                     config |-> config], asked.data)
          [] asked.function = "WRITE" /\ Refused(asked.data) ->
               reply = Exception("WRITE", ILLEGAL_DATA_ADDR)
          [] asked.function = "WRITE" /\ ~Refused(asked.data) ->
               /\ reply = Normal("WRITE", asked.data)
               /\ config[asked.data[1]] = Meaning(asked.data[1], asked.data[2])
          [] asked.function = "OTHER" -> FALSE

\* The configuration changes only to what the master's last request says, whatever
\* lands in the ring while that request is carried out.
WritesAreAsked ==
    [][config' # config /\ orderly =>
         /\ asked.function = "WRITE" /\ ~Refused(asked.data)
         /\ config' = [config EXCEPT ![asked.data[1]] = Meaning(asked.data[1], asked.data[2])]
      ]_mailboxVars
=============================================================================
