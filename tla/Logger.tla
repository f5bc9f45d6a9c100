------------------------------- MODULE Logger -------------------------------
(***************************************************************************)
(* The logger of src/service/logger.c: a ring of characters between the    *)
(* tasks that log and the logger task, which hands it chunk by chunk to    *)
(* the platform.  Tasks take turns, so a line is written without a chunk   *)
(* being taken in between.  A character is the number of its line and its  *)
(* place in it; what the formatting functions make of numbers is left out. *)
(***************************************************************************)
EXTENDS Integers, Sequences

CONSTANTS
    LOGGER_BUFFER_SIZE, LOGGER_CHUNK_SIZE,
    LineLengths,   \* lengths of lines, the line end included
    MaxLines,      \* bound: lines that are logged
    Channels       \* the platforms considered, subset of AllChannels

\* The host writes to standard output; on the STM32 the UART's DMA channel refuses
\* what comes while it sends, and platform_write ignores that.
AllChannels == {"stdout", "uart"}

ASSUME LoggerAssumption ==
    /\ LOGGER_BUFFER_SIZE \in Nat \ {0} /\ LOGGER_CHUNK_SIZE \in Nat \ {0}
    /\ LineLengths \subseteq Nat \ {0} /\ MaxLines \in Nat
    /\ Channels \subseteq AllChannels

Character == (1 .. MaxLines) \X UNION {1 .. n : n \in LineLengths}
NUL       == <<0, 0>>

VARIABLES
    g_buf, g_head, g_tail, g_count, g_dropped,
    lines, length, next,  \* lines begun, length of the last, the place to write next
    flushing,             \* a caller is inside logger_flush
    chunk,                \* what logger_task handed to platform_write last
    channel, terminal     \* the platform, which never changes, and what has come out

ringVars    == <<g_buf, g_head, g_tail, g_count, g_dropped>>
callerVars  == <<lines, length, next, flushing>>
outputVars  == <<chunk, channel, terminal>>
loggerVars  == <<ringVars, callerVars, outputVars>>

\* An index that has run over the end of the ring by less than the ring.
Wrapped(i) == IF i >= LOGGER_BUFFER_SIZE THEN i - LOGGER_BUFFER_SIZE ELSE i

\* The characters in the ring, oldest first.
Buffered == [i \in 1 .. g_count |-> g_buf[Wrapped(g_tail + i - 1)]]

Writing == next <= length
-----------------------------------------------------------------------------
BeginLine(n) ==
    /\ ~Writing /\ ~flushing /\ lines < MaxLines
    /\ lines' = lines + 1 /\ length' = n /\ next' = 1
    /\ UNCHANGED <<ringVars, flushing, outputVars>>

\* Mutant: the limit is off by one.
PushOneMore(c) ==
    IF g_count > LOGGER_BUFFER_SIZE
    THEN g_dropped' = g_dropped + 1 /\ UNCHANGED <<g_buf, g_head, g_tail, g_count>>
    ELSE /\ g_buf' = [g_buf EXCEPT ![g_head] = c]
         /\ g_head' = Wrapped(g_head + 1)
         /\ g_count' = g_count + 1
         /\ UNCHANGED <<g_tail, g_dropped>>

\* logger_push_char
PushChar(c) ==
    IF g_count >= LOGGER_BUFFER_SIZE
    THEN g_dropped' = g_dropped + 1 /\ UNCHANGED <<g_buf, g_head, g_tail, g_count>>
    ELSE /\ g_buf' = [g_buf EXCEPT ![g_head] = c]
         /\ g_head' = Wrapped(g_head + 1)
         /\ g_count' = g_count + 1
         /\ UNCHANGED <<g_tail, g_dropped>>

\* logger_write_char, which does not look at the result.
WriteChar ==
    /\ Writing
    /\ PushChar(<<lines, next>>)
    /\ next' = next + 1
    /\ UNCHANGED <<lines, length, flushing, outputVars>>

\* platform_write
Output ==
    \/ terminal' = terminal \o chunk'
    \/ channel = "uart" /\ UNCHANGED terminal

\* The loop of logger_task ends when the chunk is full or the ring empty.
PoppedInTask == IF g_count < LOGGER_CHUNK_SIZE THEN g_count ELSE LOGGER_CHUNK_SIZE

\* Mutant: the loop pops before it looks whether the chunk has room.
LoggerTaskPopsFirst ==
    /\ ~Writing /\ g_count > 0
    /\ LET n    == PoppedInTask
           gone == IF g_count > LOGGER_CHUNK_SIZE THEN n + 1 ELSE n
       IN  /\ chunk' = SubSeq(Buffered, 1, n)
           /\ g_tail' = Wrapped(g_tail + gone)
           /\ g_count' = g_count - gone
    /\ Output
    /\ flushing' = (flushing /\ g_count' > 0)
    /\ UNCHANGED <<g_buf, g_head, g_dropped, lines, length, next, channel>>

\* logger_task, of its own or inside logger_flush; it does nothing to an empty ring.
LoggerTask ==
    /\ ~Writing /\ g_count > 0
    /\ chunk' = SubSeq(Buffered, 1, PoppedInTask)
    /\ g_tail' = Wrapped(g_tail + PoppedInTask)
    /\ g_count' = g_count - PoppedInTask
    /\ Output
    /\ flushing' = (flushing /\ g_count' > 0)
    /\ UNCHANGED <<g_buf, g_head, g_dropped, lines, length, next, channel>>

\* logger_flush calls logger_task until the ring is empty.
Flush ==
    /\ ~Writing /\ ~flushing /\ g_count > 0
    /\ flushing' = TRUE
    /\ UNCHANGED <<ringVars, lines, length, next, outputVars>>
-----------------------------------------------------------------------------
LoggerInit ==
    /\ g_buf = [i \in 0 .. LOGGER_BUFFER_SIZE - 1 |-> NUL]
    /\ g_head = 0 /\ g_tail = 0 /\ g_count = 0 /\ g_dropped = 0
    /\ lines = 0 /\ length = 0 /\ next = 1 /\ flushing = FALSE
    /\ chunk = <<>>
    /\ channel \in Channels /\ terminal = <<>>

LoggerNext == (\E n \in LineLengths : BeginLine(n)) \/ WriteChar \/ LoggerTask \/ Flush

LoggerSpec == LoggerInit /\ [][LoggerNext]_loggerVars
-----------------------------------------------------------------------------
(* Properties *)

\* The ring with its two indices and its count is a queue of bounded length: whatever
\* is dropped is counted, and nothing is reordered, repeated or handed over twice where
\* the indices wrap.
Fifo ==
    INSTANCE CharFifo WITH
        Capacity <- LOGGER_BUFFER_SIZE, Chunk <- LOGGER_CHUNK_SIZE, Chars <- Character,
        queue <- Buffered, dropped <- g_dropped, handed <- chunk

ImplementsFifo == Fifo!FifoSpec

\* What may come after a character: the rest of its line, in order, or a later line.
Follows(c, d) == \/ d[1] = c[1] /\ d[2] = c[2] + 1
                 \/ d[1] > c[1] /\ d[2] = 1

\* Where nothing is lost behind the logger's back, an overflow cuts a line only at its
\* end: what comes out of a line is its beginning, without a gap, and lines come in the
\* order they were written in.  On the STM32 a refused chunk leaves a gap anywhere.
LinesCutOnlyAtEnd ==
    channel = "stdout" =>
      LET shown == terminal \o Buffered
      IN  /\ \A i \in 1 .. Len(shown) - 1 : Follows(shown[i], shown[i + 1])
          /\ shown # <<>> => shown[1] = <<1, 1>>
=============================================================================
