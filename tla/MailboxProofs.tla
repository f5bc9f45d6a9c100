--------------------------- MODULE MailboxProofs ---------------------------
(***************************************************************************)
(* Theorems about the request mailbox, for every set of frames, every size *)
(* of the DMA ring, and every application.                                 *)
(***************************************************************************)
EXTENDS ModbusMailbox, TLAPS

\* A bus that carries only this node's requests, and a build that loads the event once.
Sheltered == ForeignFrames = {} /\ ~given.read_twice

Serving == pc \in {"handle", "apply", "respond"}

\* Where a patient master's request is: on the line, in the event, with the task, in the
\* transmitter, or nowhere.
OnLine      == line # None /\ pc = "poll" /\ event = "NONE" /\ reply = NoAnswer
InEvent     == line = None /\ event # "NONE" /\ (pc = "poll" \/ Serving) /\ reply = NoAnswer
BeingClosed == line = None /\ pc = "clear"

PlaceInv ==
    ~given.impatient =>
      /\ OnLine \/ InEvent \/ BeingClosed \/ Quiet
      /\ waiting = "nothing" => AtRest

\* A supported request that an orderly master waits for, and that the edge of the ring
\* has never torn, is in one of those places, however many copies of it are on the way.
KeptInv ==
    orderly /\ ~torn /\ waiting = "answer" /\ asked.function # "OTHER" =>
      /\ line # None => line.frame = asked /\ ~Straddles(asked, line.slot)
      /\ event \in {"NONE", "REQUEST"}
      /\ pc = "clear" => reply # NoAnswer
      /\ line # None \/ event = "REQUEST" \/ Serving \/ reply # NoAnswer

MailboxInv ==
    /\ given \in Surroundings
    /\ landing \in 0 .. RING - 1
    /\ line = None \/ line \in [frame : Frames, slot : 0 .. RING - 1]
    /\ pc \in {"poll", "handle", "apply", "respond", "clear"}
    /\ Serving => event # "NONE"
    /\ waiting = "answer" => asked \in Frames /\ asked.function # "FOREIGN"
    /\ PlaceInv
    /\ KeptInv

LEMMA FramesOfTheBus ==
    ASSUME given \in Surroundings
    PROVE  /\ \A f \in OwnFrames : f \in Frames /\ f.function # "FOREIGN"
           /\ \A f \in ForeignFrames : f \in Frames /\ f.function = "FOREIGN"
  BY MailboxAssumption DEF OwnFrames, ForeignFrames

\* What lands is on the line.
LEMMA LandIsOnLine ==
    ASSUME landing \in 0 .. RING - 1, NEW f \in Frames, Land(f)
    PROVE  /\ line = None /\ line' # None /\ line'.frame = f /\ line'.slot = landing
           /\ line' \in [frame : Frames, slot : 0 .. RING - 1]
           /\ landing' \in 0 .. RING - 1
<1>1. /\ line = None /\ line' = [frame |-> f, slot |-> landing]
      /\ landing' = Wrapped(landing + Len(f.data))
  BY DEF Land
<1>2. line' \in [frame : Frames, slot : 0 .. RING - 1]
  BY <1>1
<1>3. line' # None
  BY <1>2, MailboxAssumption
<1>4. landing' \in 0 .. RING - 1
  BY <1>1, MailboxAssumption DEF Wrapped
<1> QED
  BY <1>1, <1>2, <1>3, <1>4

\* Whatever the task answers is an answer.
LEMMA AnswersAreAnswers ==
    ASSUME NEW x
    PROVE  /\ Exception("READ", x) # NoAnswer /\ Exception("WRITE", x) # NoAnswer
           /\ Normal("READ", x) # NoAnswer /\ Normal("WRITE", x) # NoAnswer
  BY DEF Exception, Normal, NoAnswer

LEMMA OtherIsAnswer == ASSUME NEW x PROVE Exception("OTHER", x) # NoAnswer
  BY DEF Exception, NoAnswer

LEMMA ReadAnswerIsAnswer == ASSUME NEW r, NEW d PROVE ReadAnswer(r, d) # NoAnswer
  BY AnswersAreAnswers DEF ReadAnswer

LEMMA SentIsAnswer == ASSUME NEW a, a # NoAnswer PROVE Sent(a) # NoAnswer
  BY DEF Sent

\* The master's steps.
LEMMA BusStep ==
    ASSUME MailboxInv, Sheltered, Bus
    PROVE  MailboxInv'
<1> USE DEF MailboxInv, PlaceInv, KeptInv, OnLine, InEvent, BeingClosed, Quiet, AtRest, Serving
<1>1. ASSUME NEW f \in OwnFrames, Ask(f) PROVE MailboxInv'
  <2>1. /\ waiting = "nothing" /\ Land(f) /\ waiting' = "answer" /\ asked' = f
        /\ orderly' = InOrder /\ torn' = Straddles(f, landing)
        /\ UNCHANGED <<given, event, request, pc, function, regs, reply>>
    BY <1>1 DEF Ask, server, task
  <2>2. /\ f \in Frames /\ f.function # "FOREIGN"
        /\ line = None /\ line' # None /\ line'.frame = f /\ line'.slot = landing
        /\ line' \in [frame : Frames, slot : 0 .. RING - 1]
        /\ landing' \in 0 .. RING - 1
    BY <2>1, LandIsOnLine, FramesOfTheBus
  <2>3. orderly' => AtRest
    BY <2>1 DEF InOrder
  <2> QED
    BY <1>1, <2>1, <2>2, <2>3
<1>2. ASSUME NEW f \in OwnFrames, Broadcast(f) PROVE MailboxInv'
  <2>1. /\ waiting = "nothing" /\ Land(f) /\ waiting' = "turnaround"
        /\ UNCHANGED <<given, event, request, pc, function, regs, reply>>
    BY <1>2 DEF Broadcast, server, task
  <2>2. /\ line = None /\ line' # None
        /\ line' \in [frame : Frames, slot : 0 .. RING - 1]
        /\ landing' \in 0 .. RING - 1
    BY <2>1, LandIsOnLine, FramesOfTheBus
  <2> QED
    BY <2>1, <2>2
<1>3. ASSUME NEW f \in ForeignFrames, Overhear(f) PROVE MailboxInv'
  BY <1>3 DEF Overhear, Sheltered
<1>4. CASE Retry
  <2>1. /\ given.impatient /\ waiting = "answer" /\ Land(asked)
        /\ torn' = (torn \/ Straddles(asked, landing))
        /\ UNCHANGED <<given, event, request, pc, function, regs, reply, waiting, asked, orderly>>
    BY <1>4 DEF Retry, server, task
  <2>2. /\ line = None /\ line' # None /\ line'.frame = asked /\ line'.slot = landing
        /\ line' \in [frame : Frames, slot : 0 .. RING - 1]
        /\ landing' \in 0 .. RING - 1
    BY <2>1, LandIsOnLine, FramesOfTheBus
  <2> QED
    BY <2>1, <2>2
<1>5. CASE Answered
  <2>1. /\ reply # NoAnswer /\ pc # "clear" /\ reply' = NoAnswer
        /\ waiting' = IF waiting = "answer" THEN "nothing" ELSE waiting
        /\ UNCHANGED <<given, event, request, ring, landing, line, pc, asked, orderly>>
    BY <1>5 DEF Answered, server, dma, task
  <2> QED
    BY <2>1
<1>6. CASE GiveUp
  <2>1. /\ given.impatient \/ AtRest
        /\ waiting' = "nothing"
        /\ UNCHANGED <<given, event, request, ring, landing, line, pc, reply, asked, orderly>>
    BY <1>6 DEF GiveUp, server, dma, task
  <2> QED
    BY <2>1
<1> QED
  BY <1>1, <1>2, <1>3, <1>4, <1>5, <1>6 DEF Bus

\* The interrupt.
LEMMA IdleStep ==
    ASSUME MailboxInv, Sheltered, IdleInterrupt
    PROVE  MailboxInv'
<1>1. /\ line # None /\ event' = Received(line.frame, line.slot) /\ line' = None
      /\ UNCHANGED <<given, ring, landing, pc, reply, waiting, asked, orderly, torn>>
  BY DEF IdleInterrupt, task, master
<1>2. event' \in {"ADDRESS_ERROR", "FUNCTION_ERROR", "REQUEST", "TORN"}
  BY <1>1 DEF Received, Parsed
<1>3. ASSUME line.frame = asked, ~Straddles(asked, line.slot),
             asked.function \notin {"FOREIGN", "OTHER"}
      PROVE  event' = "REQUEST"
  BY <1>1, <1>3 DEF Received, Parsed
<1> QED
  BY <1>1, <1>2, <1>3 DEF MailboxInv, PlaceInv, KeptInv, OnLine, InEvent, BeingClosed, Quiet,
                          AtRest, Serving

\* The task's steps.
LEMMA TaskStepKeeps ==
    ASSUME MailboxInv, Sheltered, TaskStep
    PROVE  MailboxInv'
<1> USE DEF MailboxInv, PlaceInv, KeptInv, OnLine, InEvent, BeingClosed, Quiet, AtRest, Serving,
            server, dma, application, master
<1>1. CASE Poll
  BY <1>1 DEF Poll, Sheltered
<1>2. CASE TestAgain
  BY <1>2 DEF TestAgain
<1>3. CASE SyncRegisters
  BY <1>3 DEF SyncRegisters
<1>4. CASE RespondToRead
  <2>1. reply' # NoAnswer
    BY <1>4, ReadAnswerIsAnswer, AnswersAreAnswers, SentIsAnswer DEF RespondToRead
  <2> QED
    BY <1>4, <2>1 DEF RespondToRead
<1>5. CASE ApplyWrite
  <2>1. \/ pc' = "respond" /\ reply' = reply
        \/ pc' = "clear" /\ reply' # NoAnswer
    BY <1>5, AnswersAreAnswers, SentIsAnswer DEF ApplyWrite
  <2>2. pc = "apply" /\ UNCHANGED <<given, event, landing, line, waiting, asked, orderly, torn>>
    BY <1>5 DEF ApplyWrite
  <2> QED
    BY <2>1, <2>2
<1>6. CASE RespondToWrite
  <2>1. reply' # NoAnswer
    BY <1>6, AnswersAreAnswers, SentIsAnswer DEF RespondToWrite
  <2> QED
    BY <1>6, <2>1 DEF RespondToWrite
<1>7. CASE RespondToOther
  <2>1. reply' # NoAnswer
    BY <1>7, OtherIsAnswer, SentIsAnswer DEF RespondToOther
  <2> QED
    BY <1>7, <2>1 DEF RespondToOther
<1>8. CASE ClearEvent
  BY <1>8 DEF ClearEvent
<1> QED
  BY <1>1, <1>2, <1>3, <1>4, <1>5, <1>6, <1>7, <1>8 DEF TaskStep

\* Sheltered from the beginning, the node stays so and keeps the invariant.
LEMMA MailboxInductive == MailboxSpec => [](Sheltered => MailboxInv)
<1>1. MailboxInit => (Sheltered => MailboxInv)
  BY MailboxAssumption DEF MailboxInit, MailboxInv, PlaceInv, KeptInv, Quiet, AtRest, Serving
<1>2. (Sheltered => MailboxInv) /\ [MailboxNext]_mailboxVars => (Sheltered => MailboxInv)'
  <2> SUFFICES ASSUME Sheltered => MailboxInv, [MailboxNext]_mailboxVars, Sheltered'
               PROVE  MailboxInv'
    OBVIOUS
  <2>1. given' = given
    BY DEF MailboxNext, Bus, Ask, Broadcast, Overhear, Retry, Answered, GiveUp, IdleInterrupt,
           Elapse, Measure, TaskStep, Poll, TestAgain, SyncRegisters, RespondToRead, RespondToOther, ApplyWrite,
           RespondToWrite, ClearEvent, mailboxVars
  <2>2. Sheltered /\ MailboxInv
    BY <2>1 DEF Sheltered, ForeignFrames
  <2>3. ASSUME UNCHANGED <<given, server, dma, pc, reply, master>> PROVE MailboxInv'
    BY <2>2, <2>3 DEF server, dma, master, MailboxInv, PlaceInv, KeptInv, OnLine, InEvent,
                      BeingClosed, Quiet, AtRest, Serving
  <2>4. CASE Elapse \/ Measure
    BY <2>3, <2>4 DEF Elapse, Measure, task
  <2>5. CASE UNCHANGED mailboxVars
    BY <2>3, <2>5 DEF mailboxVars, task
  <2> QED
    BY <2>2, <2>4, <2>5, BusStep, IdleStep, TaskStepKeeps DEF MailboxNext
<1> QED
  BY <1>1, <1>2, PTL DEF MailboxSpec

\* Once the node is quiet, an orderly master that asked for a supported function has its
\* answer under way, unless the edge of the ring tore the request or a repetition of it
\* (modbus_server_on_request_ready, modbus_task, USART1_IRQHandler).
THEOREM RequestsAreKept == MailboxSpec => []NoRequestIsLost
<1>1. (Sheltered => MailboxInv) => NoRequestIsLost
  BY DEF Sheltered, MailboxInv, KeptInv, Quiet, Serving, NoRequestIsLost
<1> QED
  BY <1>1, MailboxInductive, PTL
-----------------------------------------------------------------------------
(***************************************************************************)
(* Writes.  The data of the request lie in the ring until the task has     *)
(* carried it out: whatever lands there meanwhile is a copy of it that     *)
(* puts the same words into the same slots, as the ring has an even number *)
(* of them, or it comes when the node has nothing to do for the master.    *)
(***************************************************************************)
Requested == event = "REQUEST" \/ Serving

\* A patient master has one request on the way at most.
OneInv ==
    ~given.impatient =>
      /\ waiting = "nothing" => /\ ~Requested /\ reply = NoAnswer
                                /\ line # None => line.frame.function = "FOREIGN"
      /\ waiting # "nothing" /\ line # None => ~Requested /\ reply = NoAnswer
      /\ reply # NoAnswer => ~Serving /\ (event = "REQUEST" => pc = "clear")

\* The slot is an even number of slots away from where the next frame lands.
Aligned(slot) == slot % 2 = landing % 2

\* What an orderly master asked for is what lies there.
DataInv ==
    orderly =>
      /\ line # None =>
           \/ line.frame.function = "FOREIGN"
           \/ /\ line.frame = asked
              /\ waiting = "answer" /\ Len(asked.data) = 2 => Aligned(line.slot)
      /\ Requested => /\ asked \in Frames /\ asked.function \in {"READ", "WRITE"}
                      /\ request.function = asked.function /\ request.length = 2
                      /\ request.slot \in 0 .. RING - 2
                      /\ Data = asked.data
                      /\ waiting = "answer" => Aligned(request.slot)
      /\ pc = "apply" => asked.function = "WRITE"

\* A frame that has landed in one piece can be read there.
IsInRing(frame, slot) ==
    ~Straddles(frame, slot) /\ Len(frame.data) >= 2 =>
      ring[slot] = frame.data[1] /\ ring[slot + 1] = frame.data[2]

WriteInv ==
    /\ given \in Surroundings
    /\ landing \in 0 .. RING - 1 /\ DOMAIN ring = 0 .. RING - 1
    /\ line # None => /\ line \in [frame : Frames, slot : 0 .. RING - 1]
                      /\ IsInRing(line.frame, line.slot)
    /\ waiting = "answer" => asked \in Frames /\ asked.function # "FOREIGN"
    /\ OneInv
    /\ DataInv

\* The data of a request are two words.
LEMMA TwoWords ==
    ASSUME NEW f \in Frames, f.function \in {"READ", "WRITE"}
    PROVE  /\ f.data \in Nat \X (0 .. WORD - 1) /\ Len(f.data) = 2
           /\ f.data = <<f.data[1], f.data[2]>>
<1>1. f.data \in Nat \X (0 .. WORD - 1)
  BY MailboxAssumption
<1>2. f.data = <<f.data[1], f.data[2]>>
  BY <1>1
<1> QED
  BY <1>1, <1>2

\* What lands lies in the ring, and a frame of two words puts each of them only into
\* slots that are an even number apart.
LEMMA LandIsInRing ==
    ASSUME landing \in 0 .. RING - 1, DOMAIN ring = 0 .. RING - 1, NEW f \in Frames, Land(f)
    PROVE  /\ line = None /\ line' # None /\ line'.frame = f /\ landing' \in 0 .. RING - 1
           /\ line' \in [frame : Frames, slot : 0 .. RING - 1] /\ line'.slot = landing
           /\ DOMAIN ring' = 0 .. RING - 1 /\ IsInRing(line.frame, line.slot)'
           /\ Len(f.data) = 2 =>
                /\ landing' % 2 = landing % 2
                /\ \A t \in 0 .. RING - 1 :
                     IF t % 2 = landing % 2 THEN ring'[t] \in {ring[t], f.data[1]}
                                            ELSE ring'[t] \in {ring[t], f.data[2]}
<1>1. /\ line = None /\ line' # None /\ line'.frame = f /\ landing' \in 0 .. RING - 1
      /\ line' \in [frame : Frames, slot : 0 .. RING - 1] /\ line'.slot = landing
  BY LandIsOnLine
<1>2. /\ ring' = [s \in 0 .. RING - 1 |-> IF PlaceIn(s) <= Len(f.data)
                                          THEN f.data[PlaceIn(s)] ELSE ring[s]]
      /\ landing' = Wrapped(landing + Len(f.data))
  BY DEF Land
<1>3. RING \in Nat /\ RING > 2 /\ RING % 2 = 0 /\ Len(f.data) \in 1 .. RING - 1
  BY MailboxAssumption
<1>4. IsInRing(line.frame, line.slot)'
  <2> SUFFICES ASSUME landing + Len(f.data) <= RING, Len(f.data) >= 2
               PROVE  ring'[landing] = f.data[1] /\ ring'[landing + 1] = f.data[2]
    BY <1>1, <1>3 DEF IsInRing, Straddles
  <2>1. /\ PlaceIn(landing) = 1 /\ PlaceIn(landing + 1) = 2
        /\ landing \in 0 .. RING - 1 /\ landing + 1 \in 0 .. RING - 1
    BY <1>3 DEF PlaceIn
  <2> QED
    BY <1>2, <1>3, <2>1
<1>5. ASSUME Len(f.data) = 2 PROVE landing' % 2 = landing % 2
  BY <1>2, <1>3, <1>5 DEF Wrapped
<1>6. ASSUME Len(f.data) = 2, NEW t \in 0 .. RING - 1
      PROVE  IF t % 2 = landing % 2 THEN ring'[t] \in {ring[t], f.data[1]}
                                    ELSE ring'[t] \in {ring[t], f.data[2]}
  <2>1. /\ t % 2 = landing % 2 => PlaceIn(t) # 2
        /\ t % 2 # landing % 2 => PlaceIn(t) # 1
        /\ PlaceIn(t) <= 2 => PlaceIn(t) \in {1, 2}
    BY <1>3 DEF PlaceIn
  <2>2. ring'[t] = IF PlaceIn(t) <= Len(f.data) THEN f.data[PlaceIn(t)] ELSE ring[t]
    BY <1>2
  <2> QED
    BY <1>6, <2>1, <2>2
<1> QED
  BY <1>1, <1>2, <1>4, <1>5, <1>6

\* The decoding of a word is its meaning.
LEMMA DecodedIsMeaning ==
    ASSUME NEW a \in ConfigRegisters, NEW w \in 0 .. WORD - 1
    PROVE  Decoded(a, w) = Meaning(a, w)
<1> DEFINE R == IF a = MB_CFG_SAMPLE_MS THEN 0 .. WORD - 1
                ELSE -(WORD \div 2) .. WORD \div 2 - 1
           x == Decoded(a, w)
<1>1. WORD \in Nat \ {0} /\ WORD = 2 * (WORD \div 2) /\ WORD \div 2 \in Nat
  BY RegistersAssumption
<1>2. x \in R /\ x % WORD = w
  <2>1. CASE a = MB_CFG_SAMPLE_MS
    BY <1>1, <2>1 DEF Decoded
  <2>2. CASE a # MB_CFG_SAMPLE_MS /\ w < WORD \div 2
    BY <1>1, <2>2 DEF Decoded, Signed
  <2>3. CASE a # MB_CFG_SAMPLE_MS /\ ~ (w < WORD \div 2)
    BY <1>1, <2>3 DEF Decoded, Signed
  <2> QED
    BY <2>1, <2>2, <2>3
<1>3. \A y \in R : y % WORD = w => y = x
  <2> SUFFICES ASSUME NEW y \in R, y % WORD = w PROVE y = x
    OBVIOUS
  <2>1. y \in Int /\ (y >= 0 => y % WORD = y) /\ (y < 0 => y % WORD = y + WORD)
    BY <1>1
  <2>2. x \in Int /\ (x >= 0 => x % WORD = x) /\ (x < 0 => x % WORD = x + WORD)
    BY <1>1, <1>2
  <2> QED
    BY <1>1, <1>2, <2>1, <2>2
<1> HIDE DEF R, x
<1>4. (CHOOSE y \in R : y % WORD = w) = x
  BY <1>2, <1>3
<1> QED
  BY <1>4 DEF Meaning, R, x

\* The master's steps keep the data of the request where they are.
LEMMA BusKeepsData ==
    ASSUME WriteInv, Bus
    PROVE  WriteInv'
<1> USE DEF Requested, Serving, Quiet, AtRest
<1>1. ASSUME NEW f \in OwnFrames, Ask(f) \/ Broadcast(f) PROVE WriteInv'
  <2>1. /\ waiting = "nothing" /\ Land(f) /\ waiting' \in {"answer", "turnaround"} /\ asked' = f
        /\ orderly' = InOrder
        /\ UNCHANGED <<given, event, request, pc, function, regs, reply>>
    BY <1>1 DEF Ask, Broadcast, server, task
  <2>2. f \in Frames /\ f.function # "FOREIGN"
    BY FramesOfTheBus DEF WriteInv
  <2>3. /\ line = None /\ line' # None /\ line'.frame = f /\ landing' \in 0 .. RING - 1
        /\ line' \in [frame : Frames, slot : 0 .. RING - 1] /\ line'.slot = landing
        /\ DOMAIN ring' = 0 .. RING - 1 /\ IsInRing(line.frame, line.slot)'
        /\ Len(f.data) = 2 => landing' % 2 = landing % 2
    BY <2>1, <2>2, LandIsInRing DEF WriteInv
  <2>4. orderly' => ~Requested /\ pc # "apply"
    BY <2>1 DEF InOrder, WriteInv, OneInv
  <2>5. OneInv'
    BY <2>1, <2>3 DEF WriteInv, OneInv
  <2>6. DataInv'
    BY <2>1, <2>3, <2>4 DEF DataInv, Aligned
  <2> QED
    BY <2>1, <2>2, <2>3, <2>5, <2>6 DEF WriteInv
<1>2. ASSUME NEW f \in ForeignFrames, Overhear(f) PROVE WriteInv'
  <2>1. /\ waiting = "nothing" /\ Land(f)
        /\ orderly' = (orderly /\ InOrder)
        /\ UNCHANGED <<given, event, request, pc, function, regs, reply, waiting, asked>>
    BY <1>2 DEF Overhear, server, task
  <2>2. f \in Frames /\ f.function = "FOREIGN"
    BY FramesOfTheBus DEF WriteInv
  <2>3. /\ line = None /\ line' # None /\ line'.frame = f /\ landing' \in 0 .. RING - 1
        /\ line' \in [frame : Frames, slot : 0 .. RING - 1]
        /\ DOMAIN ring' = 0 .. RING - 1 /\ IsInRing(line.frame, line.slot)'
    BY <2>1, <2>2, LandIsInRing DEF WriteInv
  <2>4. orderly' => orderly /\ ~Requested /\ pc # "apply"
    BY <2>1 DEF InOrder, WriteInv, OneInv
  <2>5. OneInv'
    BY <2>1, <2>2, <2>3 DEF WriteInv, OneInv
  <2>6. DataInv'
    BY <2>1, <2>2, <2>3, <2>4 DEF DataInv
  <2> QED
    BY <2>1, <2>2, <2>3, <2>5, <2>6 DEF WriteInv
<1>3. CASE Retry
  <2>1. /\ given.impatient /\ waiting = "answer" /\ Land(asked)
        /\ UNCHANGED <<given, event, request, pc, function, regs, reply, waiting, asked, orderly>>
    BY <1>3 DEF Retry, server, task
  <2>2. asked \in Frames /\ asked.function # "FOREIGN"
    BY <2>1 DEF WriteInv
  <2>3. /\ line = None /\ line' # None /\ line'.frame = asked /\ landing' \in 0 .. RING - 1
        /\ line' \in [frame : Frames, slot : 0 .. RING - 1] /\ line'.slot = landing
        /\ DOMAIN ring' = 0 .. RING - 1 /\ IsInRing(line.frame, line.slot)'
        /\ Len(asked.data) = 2 =>
             /\ landing' % 2 = landing % 2
             /\ \A t \in 0 .. RING - 1 :
                  IF t % 2 = landing % 2 THEN ring'[t] \in {ring[t], asked.data[1]}
                                         ELSE ring'[t] \in {ring[t], asked.data[2]}
    BY <2>1, <2>2, LandIsInRing DEF WriteInv
  <2>4. ASSUME orderly, Requested
        PROVE  Data' = asked.data /\ Aligned(request.slot)'
    <3>1. /\ asked.function \in {"READ", "WRITE"} /\ request.slot \in 0 .. RING - 2
          /\ Data = asked.data /\ request.slot % 2 = landing % 2
      BY <2>1, <2>4 DEF WriteInv, DataInv, Aligned
    <3>2. Len(asked.data) = 2 /\ asked.data = <<asked.data[1], asked.data[2]>>
      BY <2>2, <3>1, TwoWords
    <3>3. /\ RING \in Nat /\ landing \in Nat
          /\ request.slot \in 0 .. RING - 1 /\ request.slot + 1 \in 0 .. RING - 1
          /\ (request.slot + 1) % 2 # landing % 2
      BY <3>1, MailboxAssumption DEF WriteInv
    <3>4. ring[request.slot] = asked.data[1] /\ ring[request.slot + 1] = asked.data[2]
      BY <3>1, <3>2 DEF Data
    <3>5. ring'[request.slot] = asked.data[1] /\ ring'[request.slot + 1] = asked.data[2]
      BY <2>3, <3>1, <3>2, <3>3, <3>4
    <3>6. Data' = <<asked.data[1], asked.data[2]>>
      BY <2>1, <3>5 DEF Data
    <3> QED
      BY <2>1, <2>3, <3>1, <3>2, <3>6 DEF Aligned
  <2>5. OneInv'
    BY <2>1 DEF WriteInv, OneInv
  <2>6. Len(asked.data) = 2 => Aligned(line.slot)'
    BY <2>3 DEF Aligned
  <2>7. DataInv'
    BY <2>1, <2>3, <2>4, <2>6 DEF WriteInv, DataInv
  <2> QED
    BY <2>1, <2>2, <2>3, <2>5, <2>7 DEF WriteInv
<1>4. CASE Answered \/ GiveUp
  <2>1. /\ waiting' \in {"nothing", waiting} /\ (waiting' = "answer" => waiting = "answer")
        /\ UNCHANGED <<given, event, request, ring, landing, line, pc, asked, orderly>>
    BY <1>4 DEF Answered, GiveUp, server, dma, task
  <2>2. OneInv'
    <3>1. CASE Answered
      <4>1. reply # NoAnswer /\ pc # "clear" /\ reply' = NoAnswer
        BY <3>1 DEF Answered
      <4> QED
        BY <2>1, <4>1 DEF WriteInv, OneInv
    <3>2. CASE GiveUp
      <4>1. (given.impatient \/ AtRest) /\ reply' = reply
        BY <3>2 DEF GiveUp
      <4> QED
        BY <2>1, <4>1 DEF WriteInv, OneInv
    <3> QED
      BY <1>4, <3>1, <3>2
  <2>3. DataInv'
    BY <2>1 DEF WriteInv, DataInv, Aligned, Data
  <2> QED
    BY <2>1, <2>2, <2>3 DEF WriteInv, IsInRing
<1> QED
  BY <1>1, <1>2, <1>3, <1>4 DEF Bus

\* The interrupt points the request at them.
LEMMA IdleKeepsData ==
    ASSUME WriteInv, IdleInterrupt
    PROVE  WriteInv'
<1>1. /\ line # None /\ event' = Received(line.frame, line.slot) /\ line' = None
      /\ request' = IF event' \in {"ADDRESS_ERROR", "TORN"} THEN request
                    ELSE [function |-> line.frame.function, length |-> Len(line.frame.data),
                          slot |-> line.slot]
      /\ UNCHANGED <<given, ring, landing, pc, reply, waiting, asked, orderly>>
  BY DEF IdleInterrupt, task, master
<1>2. /\ event' \in {"ADDRESS_ERROR", "FUNCTION_ERROR", "REQUEST", "TORN"}
      /\ event' \notin {"ADDRESS_ERROR", "TORN"} =>
           line.frame.function # "FOREIGN" /\ ~Straddles(line.frame, line.slot)
      /\ event' = "REQUEST" => line.frame.function # "OTHER"
  BY <1>1 DEF Received, Parsed
<1>3. /\ line \in [frame : Frames, slot : 0 .. RING - 1] /\ IsInRing(line.frame, line.slot)
      /\ line.frame \in Frames /\ line.slot \in 0 .. RING - 1
  BY <1>1 DEF WriteInv
<1>4. OneInv'
  BY <1>1, <1>2 DEF WriteInv, OneInv, Requested, Serving
<1>5. DataInv'
  <2>1. ASSUME orderly, event' \notin {"ADDRESS_ERROR", "TORN"}, Requested'
        PROVE  /\ asked \in Frames /\ asked.function \in {"READ", "WRITE"}
               /\ request'.function = asked.function /\ request'.length = 2
               /\ request'.slot \in 0 .. RING - 2 /\ Data' = asked.data
               /\ waiting = "answer" => Aligned(request.slot)'
    <3>1. line.frame = asked /\ asked \in Frames
      BY <1>2, <1>3, <2>1, <1>1 DEF WriteInv, DataInv
    <3>2. asked.function \in {"READ", "WRITE"}
      <4>1. CASE event' = "REQUEST"
        BY <1>2, <2>1, <3>1, <4>1, MailboxAssumption
      <4>2. CASE event' # "REQUEST"
        BY <1>1, <2>1, <4>2 DEF WriteInv, DataInv, Requested, Serving
      <4> QED
        BY <4>1, <4>2
    <3>3. /\ asked.data = <<asked.data[1], asked.data[2]>> /\ Len(asked.data) = 2
      BY <3>1, <3>2, TwoWords
    <3>4. /\ request'.function = asked.function /\ request'.length = 2
          /\ request'.slot = line.slot
      BY <1>1, <2>1, <3>1, <3>3
    <3>5. line.slot \in 0 .. RING - 2
      BY <1>2, <1>3, <2>1, <3>1, <3>3, MailboxAssumption DEF Straddles
    <3>6. ring[line.slot] = asked.data[1] /\ ring[line.slot + 1] = asked.data[2]
      BY <1>2, <1>3, <2>1, <3>1, <3>3 DEF IsInRing
    <3>7. Data' = asked.data
      BY <1>1, <3>3, <3>4, <3>6 DEF Data
    <3>8. waiting = "answer" => Aligned(request.slot)'
      BY <1>1, <1>2, <2>1, <3>1, <3>3, <3>4 DEF WriteInv, DataInv, Aligned
    <3> QED
      BY <3>1, <3>2, <3>4, <3>5, <3>7, <3>8
  <2>2. ASSUME orderly, event' \in {"ADDRESS_ERROR", "TORN"}
        PROVE  request' = request /\ Data' = Data /\ (Requested' => Requested)
    BY <1>1, <2>2 DEF Requested, Serving, Data
  <2> QED
    BY <1>1, <2>1, <2>2 DEF WriteInv, DataInv, Aligned
<1> QED
  BY <1>1, <1>4, <1>5 DEF WriteInv

\* The task reads them, and nothing of what it does moves them.
LEMMA TaskKeepsData ==
    ASSUME WriteInv, TaskStep
    PROVE  WriteInv'
<1>1. UNCHANGED <<given, ring, landing, line, request, waiting, asked, orderly>>
  BY DEF TaskStep, Poll, TestAgain, SyncRegisters, RespondToRead, RespondToOther, ApplyWrite, RespondToWrite,
         ClearEvent, server, dma, master
<1>2. /\ Requested' => Requested
      /\ event' = "REQUEST" => event = "REQUEST"
      /\ Serving' => Requested
      /\ \/ reply' = reply
         \/ Serving /\ pc' = "clear"
      /\ (reply # NoAnswer /\ ~Serving /\ (event = "REQUEST" => pc = "clear"))
           => (~Serving' /\ (event' = "REQUEST" => pc' = "clear"))
  BY DEF TaskStep, Poll, TestAgain, SyncRegisters, RespondToRead, RespondToOther, ApplyWrite, RespondToWrite,
         ClearEvent, server, Requested, Serving
<1>3. OneInv'
  BY <1>1, <1>2 DEF WriteInv, OneInv, Requested, Serving
<1>4. DataInv'
  <2>1. pc' = "apply" => pc = "handle" /\ request.function = "WRITE"
    BY DEF TaskStep, Poll, TestAgain, SyncRegisters, RespondToRead, RespondToOther, ApplyWrite, RespondToWrite,
           ClearEvent
  <2> QED
    BY <1>1, <1>2, <2>1 DEF WriteInv, DataInv, Aligned, Data, Requested, Serving
<1> QED
  BY <1>1, <1>3, <1>4 DEF WriteInv, IsInRing

LEMMA WriteInvariant == MailboxSpec => []WriteInv
<1>1. MailboxInit => WriteInv
  BY MailboxAssumption
     DEF MailboxInit, WriteInv, OneInv, DataInv, Requested, Serving
<1>2. WriteInv /\ [MailboxNext]_mailboxVars => WriteInv'
  <2> SUFFICES ASSUME WriteInv, [MailboxNext]_mailboxVars PROVE WriteInv'
    OBVIOUS
  <2>1. ASSUME UNCHANGED <<given, server, dma, pc, reply, master>> PROVE WriteInv'
    BY <2>1 DEF server, dma, master, WriteInv, IsInRing, OneInv, DataInv, Aligned, Data, Requested,
                Serving
  <2>2. CASE Elapse \/ Measure
    BY <2>1, <2>2 DEF Elapse, Measure, task
  <2>3. CASE UNCHANGED mailboxVars
    BY <2>1, <2>3 DEF mailboxVars, task
  <2> QED
    BY <2>2, <2>3, BusKeepsData, IdleKeepsData, TaskKeepsData DEF MailboxNext
<1> QED
  BY <1>1, <1>2, PTL DEF MailboxSpec

\* The configuration changes only to what an orderly master asked for
\* (handle_modbus_request, mb_regs_write_single, apply_modbus_write_to_app).
THEOREM OnlyAskedIsWritten == MailboxSpec => WritesAreAsked
<1> DEFINE Fine == /\ asked.function = "WRITE" /\ ~Refused(asked.data)
                   /\ config' = [config EXCEPT ![asked.data[1]]
                                   = Meaning(asked.data[1], asked.data[2])]
<1>1. WriteInv /\ [MailboxNext]_mailboxVars => (config' # config /\ orderly => Fine)
  <2> SUFFICES ASSUME WriteInv, [MailboxNext]_mailboxVars, config' # config, orderly PROVE Fine
    OBVIOUS
  <2>1. ApplyWrite
    BY DEF MailboxNext, Bus, Ask, Broadcast, Overhear, Retry, Answered, GiveUp, IdleInterrupt,
           Elapse, Measure, TaskStep, Poll, TestAgain, SyncRegisters, RespondToRead, RespondToOther,
           RespondToWrite, ClearEvent, mailboxVars, application
  <2>2. /\ asked \in Frames /\ asked.function = "WRITE" /\ request.length = 2 /\ Data = asked.data
    BY <2>1 DEF ApplyWrite, WriteInv, DataInv, Requested, Serving
  <2> DEFINE d == asked.data
  <2>3. /\ d \in Nat \X (0 .. WORD - 1)
        /\ Writable(d[1], d[2])
        /\ config' = [config EXCEPT ![d[1]] = Decoded(d[1], d[2])]
    BY <2>1, <2>2, TwoWords DEF ApplyWrite
  <2>4. d[1] \in ConfigRegisters /\ ~Refused(d)
    BY <2>3 DEF Writable, Refused
  <2>5. Decoded(d[1], d[2]) = Meaning(d[1], d[2])
    BY <2>3, <2>4, DecodedIsMeaning
  <2> QED
    BY <2>2, <2>3, <2>4, <2>5
<1> QED
  BY <1>1, WriteInvariant, PTL DEF MailboxSpec, WritesAreAsked
-----------------------------------------------------------------------------
(***************************************************************************)
(* Answers.  The task answers what it has copied and carried out, and      *)
(* nothing makes that untrue while the master waits.                       *)
(***************************************************************************)

\* The registers are those of one instant since the master asked.
CopiedInTime ==
    \E i \in instants :
      regs = [measured |-> i.measured, uptime |-> i.uptime, config |-> config]

\* The write that was asked for has been carried out.
Obeyed ==
    /\ ~Refused(asked.data)
    /\ config[asked.data[1]] = Meaning(asked.data[1], asked.data[2])

\* What the task may do for an orderly master, and what it has done.
TaskInv ==
    orderly =>
      /\ pc \in {"apply", "respond"} => function = asked.function
      /\ (pc = "respond" /\ function = "READ" /\ waiting = "answer") => CopiedInTime
      /\ (pc = "respond" /\ function = "WRITE") => Obeyed

AnswerInv ==
    /\ WriteInv
    /\ DOMAIN config = ConfigRegisters
    /\ waiting = "answer" => Instant \in instants
    /\ TaskInv
    /\ AnswersAreTrue

\* Where nothing changes that the answer depends on, and the instants only grow, it
\* stays true.
LEMMA TrueStaysTrue ==
    ASSUME AnswersAreTrue, UNCHANGED <<config, asked, reply>>,
           waiting = "answer" => asked \in Frames /\ asked.function # "FOREIGN",
           orderly' => orderly, waiting' = "answer" => waiting = "answer",
           waiting' = "answer" => instants \subseteq instants'
    PROVE  AnswersAreTrue'
<1> SUFFICES ASSUME reply' # NoAnswer, waiting' = "answer", orderly' PROVE AnswersAreTrue'
  BY DEF AnswersAreTrue
<1>1. asked.function \in {"READ", "WRITE", "OTHER"}
  BY MailboxAssumption
<1>2. CASE asked.function = "READ"
  <2> DEFINE True(i) == reply = ReadAnswer([measured |-> i.measured, uptime |-> i.uptime,
                                            config |-> config], asked.data)
             TrueNext(i) == reply' = ReadAnswer([measured |-> i.measured, uptime |-> i.uptime,
                                                 config |-> config'], asked'.data)
  <2>1. \E i \in instants : True(i)
    BY <1>2 DEF AnswersAreTrue
  <2>2. \A i : True(i) => TrueNext(i)
    OBVIOUS
  <2> HIDE DEF True, TrueNext
  <2>3. \E i \in instants' : TrueNext(i)
    BY <2>1, <2>2
  <2> QED
    BY <1>2, <2>3 DEF AnswersAreTrue, TrueNext
<1>3. CASE asked.function = "WRITE" /\ Refused(asked.data)
  BY <1>3 DEF AnswersAreTrue, Refused
<1>4. CASE asked.function = "WRITE" /\ ~Refused(asked.data)
  BY <1>4 DEF AnswersAreTrue, Refused
<1>5. CASE asked.function = "OTHER"
  BY <1>5 DEF AnswersAreTrue
<1> QED
  BY <1>1, <1>2, <1>3, <1>4, <1>5

\* The same for what the task has done.
LEMMA DoneStaysDone ==
    ASSUME TaskInv, UNCHANGED <<config, asked, function, regs>>,
           pc' = pc,
           orderly' => orderly, waiting' = "answer" => waiting = "answer",
           waiting' = "answer" => instants \subseteq instants'
    PROVE  TaskInv'
<1> SUFFICES ASSUME orderly' PROVE TaskInv'
  BY DEF TaskInv
<1>1. (pc' = "respond" /\ function' = "READ" /\ waiting' = "answer") => CopiedInTime'
  BY DEF TaskInv, CopiedInTime
<1>2. Obeyed => Obeyed'
  BY DEF Obeyed, Refused, Meaning
<1> QED
  BY <1>1, <1>2 DEF TaskInv

\* The master's steps leave answers true: an orderly one asks when there is none.
LEMMA BusKeepsAnswers ==
    ASSUME AnswerInv, Bus
    PROVE  AnswerInv'
<1>1. WriteInv'
  BY BusKeepsData DEF AnswerInv
<1>2. UNCHANGED <<config, measured, uptime>> /\ DOMAIN config' = ConfigRegisters
  BY DEF Bus, Ask, Broadcast, Overhear, Retry, Answered, GiveUp, application, AnswerInv
<1>3. ASSUME NEW f \in OwnFrames, Ask(f) \/ Broadcast(f) PROVE AnswerInv'
  <2>1. /\ waiting = "nothing" /\ orderly' = InOrder
        /\ UNCHANGED <<given, event, request, pc, function, regs, reply>>
        /\ waiting' = "answer" => instants' = {Instant}
    BY <1>3 DEF Ask, Broadcast, server, task
  <2>2. orderly' => ~Requested /\ reply = NoAnswer
    BY <2>1 DEF InOrder, AnswerInv, WriteInv, OneInv, AtRest, Quiet, Requested, Serving
  <2>3. orderly' => ~Requested' /\ pc' \notin {"apply", "respond"} /\ reply' = NoAnswer
    BY <2>1, <2>2 DEF Requested, Serving
  <2>4. TaskInv' /\ AnswersAreTrue'
    BY <2>3 DEF TaskInv, AnswersAreTrue
  <2>5. waiting' = "answer" => Instant' \in instants'
    BY <1>2, <2>1 DEF Instant
  <2> QED
    BY <1>1, <1>2, <2>4, <2>5 DEF AnswerInv
<1>4. CASE (\E f \in ForeignFrames : Overhear(f)) \/ Retry \/ Answered \/ GiveUp
  <2>1. /\ UNCHANGED <<event, pc, function, regs, asked>>
        /\ orderly' => orderly
        /\ waiting' = "answer" => waiting = "answer"
    <3>1. ASSUME NEW f \in ForeignFrames, Overhear(f) PROVE <2>1!:
      BY <3>1 DEF Overhear, server, task
    <3>2. CASE Retry
      BY <3>2 DEF Retry, server, task, master
    <3>3. CASE Answered
      BY <3>3 DEF Answered, server, task
    <3>4. CASE GiveUp
      BY <3>4 DEF GiveUp, server, task
    <3> QED
      BY <1>4, <3>1, <3>2, <3>3, <3>4
  <2>2. waiting' = "answer" => instants' = instants /\ reply' = reply
    BY <1>4 DEF Overhear, Retry, Answered, GiveUp
  <2>3. reply' # NoAnswer => reply' = reply
    BY <1>4 DEF Overhear, Retry, Answered, GiveUp
  <2>4. TaskInv'
    BY <1>2, <2>1, <2>2, DoneStaysDone DEF AnswerInv, Requested, Serving
  <2>5. AnswersAreTrue'
    <3>1. CASE reply' = NoAnswer
      BY <3>1 DEF AnswersAreTrue
    <3>2. CASE reply' # NoAnswer
      BY <1>2, <2>1, <2>2, <2>3, <3>2, TrueStaysTrue DEF AnswerInv, WriteInv
    <3> QED
      BY <3>1, <3>2
  <2>6. waiting' = "answer" => Instant' \in instants'
    BY <1>2, <2>1, <2>2 DEF Instant, AnswerInv
  <2> QED
    BY <1>1, <1>2, <2>4, <2>5, <2>6 DEF AnswerInv
<1> QED
  BY <1>3, <1>4 DEF Bus

\* The interrupt changes nothing that an answer depends on.
LEMMA IdleKeepsAnswers ==
    ASSUME AnswerInv, IdleInterrupt
    PROVE  AnswerInv'
<1>1. UNCHANGED <<config, measured, uptime, pc, function, regs, reply, waiting, asked, orderly,
                  instants>>
  BY DEF IdleInterrupt, task, master, application
<1>2. WriteInv'
  BY IdleKeepsData DEF AnswerInv
<1>3. TaskInv'
  BY <1>1, DoneStaysDone DEF AnswerInv
<1>4. AnswersAreTrue'
  BY <1>1, TrueStaysTrue DEF AnswerInv, WriteInv
<1> QED
  BY <1>1, <1>2, <1>3, <1>4 DEF AnswerInv, Instant

\* An instant more does no harm.
LEMMA TimeKeepsAnswers ==
    ASSUME AnswerInv, Elapse \/ Measure
    PROVE  AnswerInv'
<1>1. /\ UNCHANGED <<given, event, request, ring, landing, line, config, pc, function, regs,
                      reply, waiting, asked, orderly>>
      /\ Witnessed
  BY DEF Elapse, Measure, server, dma, task, master
<1>2. waiting' = "answer" => instants \subseteq instants' /\ Instant' \in instants'
  BY <1>1 DEF Witnessed
<1>3. WriteInv'
  BY <1>1 DEF AnswerInv, WriteInv, IsInRing, OneInv, DataInv, Aligned, Data, Requested, Serving
<1>4. TaskInv' /\ AnswersAreTrue'
  BY <1>1, <1>2, DoneStaysDone, TrueStaysTrue
     DEF AnswerInv, WriteInv, Requested, Serving
<1> QED
  BY <1>1, <1>2, <1>3, <1>4 DEF AnswerInv

\* A write that is not refused is one the registers take.
LEMMA RefusedIsNotWritable ==
    ASSUME NEW d \in Nat \X (0 .. WORD - 1)
    PROVE  Refused(d) <=> ~Writable(d[1], d[2])
<1>1. MB_CFG_SAMPLE_MS \in ConfigRegisters
  BY DEF ConfigRegisters
<1>2. d = <<d[1], d[2]>>
  OBVIOUS
<1> QED
  BY <1>1, <1>2 DEF Refused, Writable

\* The task answers what it has copied and carried out.
LEMMA TaskKeepsAnswers ==
    ASSUME AnswerInv, TaskStep
    PROVE  AnswerInv'
<1>1. UNCHANGED <<given, ring, line, request, measured, uptime, waiting, asked, orderly,
                  instants>>
  BY DEF TaskStep, Poll, TestAgain, SyncRegisters, RespondToRead, RespondToOther, ApplyWrite, RespondToWrite,
         ClearEvent, server, dma, master, application
<1>2. WriteInv' /\ (waiting' = "answer" => Instant' \in instants')
  BY <1>1, TaskKeepsData DEF AnswerInv, Instant
<1>3. orderly /\ Requested => /\ asked \in Frames /\ asked.function \in {"READ", "WRITE"}
                              /\ request.function = asked.function
                              /\ request.length = 2 /\ Data = asked.data
                              /\ asked.data \in Nat \X (0 .. WORD - 1)
  BY TwoWords DEF AnswerInv, WriteInv, DataInv
<1>4. CASE Poll \/ TestAgain \/ ClearEvent
  <2>1. /\ UNCHANGED <<config, reply>> /\ pc' \notin {"apply", "respond"}
        /\ Requested' => Requested
    BY <1>4 DEF Poll, TestAgain, ClearEvent, server, application, Requested, Serving
  <2>2. TaskInv'
    BY <1>1, <2>1 DEF AnswerInv, TaskInv
  <2>3. AnswersAreTrue'
    BY <1>1, <2>1, TrueStaysTrue DEF AnswerInv, WriteInv
  <2> QED
    BY <1>2, <2>1, <2>2, <2>3 DEF AnswerInv
<1>5. CASE SyncRegisters
  <2>1. /\ pc = "handle" /\ function' = request.function
        /\ regs' = [measured |-> measured, uptime |-> uptime, config |-> config]
        /\ pc' = IF function' = "WRITE" THEN "apply" ELSE "respond"
        /\ UNCHANGED <<config, reply>>
    BY <1>5 DEF SyncRegisters, application
  <2>2. waiting' = "answer" => CopiedInTime'
    <3> SUFFICES ASSUME waiting' = "answer" PROVE CopiedInTime'
      OBVIOUS
    <3>1. Instant \in instants'
      BY <1>1 DEF AnswerInv
    <3>2. regs' = [measured |-> Instant.measured, uptime |-> Instant.uptime, config |-> config']
      BY <2>1 DEF Instant
    <3> QED
      BY <3>1, <3>2 DEF CopiedInTime
  <2>3. TaskInv'
    BY <1>1, <1>3, <2>1, <2>2 DEF AnswerInv, TaskInv, Requested, Serving
  <2>4. AnswersAreTrue'
    BY <1>1, <2>1, TrueStaysTrue DEF AnswerInv, WriteInv
  <2> QED
    BY <1>2, <2>1, <2>3, <2>4 DEF AnswerInv
<1>6. CASE RespondToRead
  <2>1. /\ pc = "respond" /\ function = "READ" /\ pc' = "clear"
        /\ reply' = Sent(IF request.length = 2 THEN ReadAnswer(regs, Data)
                         ELSE Exception("READ", ILLEGAL_DATA_VAL))
        /\ UNCHANGED <<event, config>>
    BY <1>6 DEF RespondToRead, server, application
  <2>2. TaskInv'
    BY <1>1, <2>1 DEF AnswerInv, TaskInv, Requested, Serving
  <2>3. AnswersAreTrue'
    <3>1. CASE reply # NoAnswer
      BY <1>1, <2>1, <3>1, TrueStaysTrue DEF AnswerInv, WriteInv, Sent
    <3>2. CASE reply = NoAnswer
      <4> SUFFICES ASSUME waiting = "answer", orderly PROVE AnswersAreTrue'
        BY <1>1 DEF AnswersAreTrue
      <4>1. /\ asked.function = "READ" /\ request.length = 2 /\ Data = asked.data
            /\ CopiedInTime
        BY <1>3, <2>1 DEF AnswerInv, TaskInv, Requested, Serving
      <4>2. reply' = ReadAnswer(regs, asked.data)
        BY <2>1, <3>2, <4>1 DEF Sent
      <4>3. \E i \in instants :
              reply' = ReadAnswer([measured |-> i.measured, uptime |-> i.uptime,
                                   config |-> config], asked.data)
        BY <4>1, <4>2 DEF CopiedInTime
      <4> QED
        BY <1>1, <2>1, <4>1, <4>3 DEF AnswersAreTrue
    <3> QED
      BY <3>1, <3>2
  <2> QED
    BY <1>2, <2>1, <2>2, <2>3 DEF AnswerInv
<1>7. CASE RespondToWrite
  <2>1. /\ pc = "respond" /\ function = "WRITE" /\ pc' = "clear"
        /\ reply' = Sent(Normal("WRITE", Data))
        /\ UNCHANGED <<event, config>>
    BY <1>7 DEF RespondToWrite, server, application
  <2>2. TaskInv'
    BY <1>1, <2>1 DEF AnswerInv, TaskInv, Requested, Serving
  <2>3. AnswersAreTrue'
    <3>1. CASE reply # NoAnswer
      BY <1>1, <2>1, <3>1, TrueStaysTrue DEF AnswerInv, WriteInv, Sent
    <3>2. CASE reply = NoAnswer
      <4> SUFFICES ASSUME waiting = "answer", orderly PROVE AnswersAreTrue'
        BY <1>1 DEF AnswersAreTrue
      <4>1. asked.function = "WRITE" /\ Data = asked.data /\ Obeyed
        BY <1>3, <2>1 DEF AnswerInv, TaskInv, Requested, Serving
      <4>2. reply' = Normal("WRITE", asked.data)
        BY <2>1, <3>2, <4>1 DEF Sent
      <4> QED
        BY <1>1, <2>1, <4>1, <4>2 DEF AnswersAreTrue, Obeyed, Refused
    <3> QED
      BY <3>1, <3>2
  <2> QED
    BY <1>2, <2>1, <2>2, <2>3 DEF AnswerInv
<1>8. CASE ApplyWrite
  <2> DEFINE d == Data
             taken == request.length = 2 /\ Writable(d[1], d[2])
  <2>1. /\ pc = "apply" /\ UNCHANGED <<event, function>>
        /\ taken =>
             /\ config' = [config EXCEPT ![d[1]] = Decoded(d[1], d[2])]
             /\ pc' = "respond" /\ reply' = reply
        /\ ~taken =>
             /\ config' = config /\ pc' = "clear"
             /\ reply' = Sent(Exception("WRITE", IF request.length = 2 THEN ILLEGAL_DATA_ADDR
                                                 ELSE ILLEGAL_DATA_VAL))
    BY <1>8 DEF ApplyWrite, server
  <2>2. orderly => /\ asked.function = "WRITE" /\ function = "WRITE" /\ d = asked.data
                   /\ d \in Nat \X (0 .. WORD - 1) /\ Requested /\ request.length = 2
    BY <1>3, <2>1 DEF AnswerInv, TaskInv, WriteInv, DataInv, Requested, Serving
  <2>3. orderly => (Refused(asked.data) <=> ~taken)
    BY <2>2, RefusedIsNotWritable
  <2>a. taken => d[1] \in ConfigRegisters
    BY DEF Writable
  <2> HIDE DEF d, taken
  <2>4. CASE taken
    <3>1. /\ config' = [config EXCEPT ![d[1]] = Decoded(d[1], d[2])]
          /\ pc' = "respond" /\ reply' = reply /\ d[1] \in ConfigRegisters
      BY <2>1, <2>4, <2>a
    <3>2. DOMAIN config' = ConfigRegisters
      BY <3>1 DEF AnswerInv
    <3>3. orderly => Obeyed'
      <4> SUFFICES ASSUME orderly PROVE Obeyed'
        OBVIOUS
      <4>1. config'[d[1]] = Decoded(d[1], d[2])
        BY <3>1 DEF AnswerInv
      <4>2. Decoded(d[1], d[2]) = Meaning(d[1], d[2])
        BY <2>2, <3>1, DecodedIsMeaning
      <4> QED
        BY <1>1, <2>2, <2>3, <2>4, <4>1, <4>2 DEF Obeyed, Refused, Meaning
    <3>4. TaskInv'
      BY <1>1, <2>1, <2>2, <3>1, <3>3 DEF TaskInv
    <3>5. AnswersAreTrue'
      <4> SUFFICES ASSUME reply # NoAnswer, waiting = "answer", orderly PROVE AnswersAreTrue'
        BY <1>1, <3>1 DEF AnswersAreTrue
      <4>1. ~Refused(asked.data) /\ reply = Normal("WRITE", asked.data)
        BY <2>2, <2>3, <2>4 DEF AnswerInv, AnswersAreTrue
      <4> QED
        BY <1>1, <2>2, <3>1, <3>3, <4>1 DEF AnswersAreTrue, Obeyed, Refused
    <3> QED
      BY <1>2, <3>2, <3>4, <3>5 DEF AnswerInv
  <2>5. CASE ~taken
    <3>1. /\ config' = config /\ pc' = "clear"
          /\ reply' = Sent(Exception("WRITE", IF request.length = 2 THEN ILLEGAL_DATA_ADDR
                                              ELSE ILLEGAL_DATA_VAL))
      BY <2>1, <2>5
    <3>2. TaskInv'
      BY <1>1, <2>1, <3>1 DEF AnswerInv, TaskInv, Requested, Serving
    <3>3. AnswersAreTrue'
      <4>1. CASE reply # NoAnswer
        BY <1>1, <3>1, <4>1, TrueStaysTrue DEF AnswerInv, WriteInv, Sent
      <4>2. CASE reply = NoAnswer
        <5> SUFFICES ASSUME waiting = "answer", orderly PROVE AnswersAreTrue'
          BY <1>1 DEF AnswersAreTrue
        <5>1. asked.function = "WRITE" /\ Refused(asked.data) /\ request.length = 2
          BY <2>2, <2>3, <2>5
        <5>2. reply' = Exception("WRITE", ILLEGAL_DATA_ADDR)
          BY <3>1, <4>2, <5>1 DEF Sent
        <5> QED
          BY <1>1, <5>1, <5>2 DEF AnswersAreTrue, Refused
      <4> QED
        BY <4>1, <4>2
    <3> QED
      BY <1>2, <3>1, <3>2, <3>3 DEF AnswerInv
  <2> QED
    BY <2>4, <2>5
<1>9. CASE RespondToOther
  <2>1. pc = "respond" /\ function = "OTHER" /\ pc' = "clear" /\ UNCHANGED config
    BY <1>9 DEF RespondToOther, application
  <2>2. ~orderly
    BY <1>3, <2>1 DEF AnswerInv, TaskInv, Requested, Serving
  <2> QED
    BY <1>1, <1>2, <2>1, <2>2 DEF AnswerInv, TaskInv, AnswersAreTrue
<1> QED
  BY <1>4, <1>5, <1>6, <1>7, <1>8, <1>9 DEF TaskStep

LEMMA AnswerInvariant == MailboxSpec => []AnswerInv
<1>1. MailboxInit => AnswerInv
  BY MailboxAssumption
     DEF MailboxInit, AnswerInv, WriteInv, OneInv, DataInv, TaskInv, AnswersAreTrue, Requested,
         Serving
<1>2. AnswerInv /\ [MailboxNext]_mailboxVars => AnswerInv'
  <2> SUFFICES ASSUME AnswerInv, [MailboxNext]_mailboxVars PROVE AnswerInv'
    OBVIOUS
  <2>1. CASE UNCHANGED mailboxVars
    <3>1. UNCHANGED <<given, event, request, ring, landing, line, pc, function, regs, measured,
                      uptime, config, reply, waiting, asked, orderly, instants>>
      BY <2>1 DEF mailboxVars, server, dma, task, application, master
    <3>2. WriteInv'
      BY <3>1 DEF AnswerInv, WriteInv, IsInRing, OneInv, DataInv, Aligned, Data, Requested, Serving
    <3>3. TaskInv' /\ AnswersAreTrue'
      BY <3>1, DoneStaysDone, TrueStaysTrue DEF AnswerInv, WriteInv, Requested, Serving
    <3> QED
      BY <3>1, <3>2, <3>3 DEF AnswerInv, Instant
  <2> QED
    BY <2>1, BusKeepsAnswers, IdleKeepsAnswers, TimeKeepsAnswers, TaskKeepsAnswers
       DEF MailboxNext
<1> QED
  BY <1>1, <1>2, PTL DEF MailboxSpec

\* An answer that reaches an orderly master is the answer to its request and true
\* (handle_modbus_request, sync_registers, mb_regs_read).
THEOREM OnlyTruthIsAnswered == MailboxSpec => []AnswersAreTrue
<1>1. AnswerInv => AnswersAreTrue
  BY DEF AnswerInv
<1> QED
  BY <1>1, AnswerInvariant, PTL
=============================================================================
