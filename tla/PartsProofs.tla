----------------------------- MODULE PartsProofs -----------------------------
(***************************************************************************)
(* Theorems about the parts that nothing interrupts, which MCParts checks  *)
(* together: the logger, the moving average, the sensors, the dew point    *)
(* and the frames on a noisy line, for every size, every table and every   *)
(* input their assumptions allow.                                          *)
(***************************************************************************)
EXTENDS Logger, MovingAverage, Sensors, DewPoint, ModbusFrame,
        SequenceTheorems, FiniteSetTheorems, WellFoundedInduction, TLAPS

(* Induction over sets of numbers *)

\* The least-number principle, stated of a set.
LEMMA LeastOfSet ==
    ASSUME NEW T \in SUBSET Nat, T # {}
    PROVE  \E m \in T : \A k \in T : m <= k
<1> DEFINE R == OpToRel(<, Nat)
<1>1. IsWellFoundedOn(R, Nat)
  BY NatLessThanWellFounded
<1>2. \A x, y \in Nat : <<y, x>> \in R <=> y < x
  BY DEF OpToRel
<1> HIDE DEF R
<1>3. PICK m \in T : \A k \in T : ~ (<<k, m>> \in R)
  BY <1>1, WFMin, Zenon
<1>4. \A k \in T : m <= k
  <2> TAKE k \in T
  <2>1. m \in Nat /\ k \in Nat
    OBVIOUS
  <2>2. ~ (k < m)
    BY <1>2, <1>3, <2>1, Zenon
  <2> QED
    BY <2>1, <2>2
<1> QED
  BY <1>4

\* Induction, stated of the set of numbers a fact holds for.
LEMMA SetInduction ==
    ASSUME NEW T \in SUBSET Nat, 0 \in T, \A n \in T : n + 1 \in T
    PROVE  T = Nat
<1> DEFINE M == Nat \ T
<1>1. SUFFICES ASSUME M # {} PROVE FALSE
  OBVIOUS
<1>2. PICK m \in M : \A k \in M : m <= k
  <2> HIDE DEF M
  <2>1. M \in SUBSET Nat
    BY DEF M
  <2> QED
    BY <1>1, <2>1, LeastOfSet
<1>3. m # 0 /\ m - 1 \in Nat
  OBVIOUS
<1>4. m - 1 \in T
  BY <1>2, <1>3
<1> QED
  BY <1>3, <1>4
-----------------------------------------------------------------------------
(* Logger *)

Indices == 0 .. LOGGER_BUFFER_SIZE - 1

\* The head is where the ring ends when it is counted from the tail.
RingInv ==
    /\ g_head \in Indices /\ g_tail \in Indices /\ g_count \in 0 .. LOGGER_BUFFER_SIZE
    /\ g_buf \in [Indices -> Character \cup {NUL}]
    /\ g_head = Wrapped(g_tail + g_count)

\* What a task writes is a character of a line.
CallerInv ==
    /\ lines \in 0 .. MaxLines /\ next \in Nat \ {0} /\ length \in Nat
    /\ Writing => lines > 0 /\ length \in LineLengths

LoggerInv == RingInv /\ CallerInv

\* An index that has run over the end by less than the ring is in it, and different
\* distances from the tail are different places.
LEMMA WrappedIsIndex ==
    ASSUME NEW i \in 0 .. 2 * LOGGER_BUFFER_SIZE - 1
    PROVE  Wrapped(i) \in Indices
  BY LoggerAssumption DEF Wrapped, Indices

LEMMA WrappedIsFree ==
    ASSUME NEW t \in Indices, NEW n \in 0 .. LOGGER_BUFFER_SIZE - 1, NEW i \in 0 .. n - 1
    PROVE  Wrapped(t + i) # Wrapped(t + n)
  BY LoggerAssumption DEF Wrapped, Indices

LEMMA WrappedAddsUp ==
    ASSUME NEW t \in Indices, NEW n \in 0 .. LOGGER_BUFFER_SIZE,
           NEW i \in 0 .. LOGGER_BUFFER_SIZE - n
    PROVE  Wrapped(Wrapped(t + n) + i) = Wrapped(t + n + i)
  BY LoggerAssumption DEF Wrapped, Indices

\* The content of the ring is a sequence as long as its count.
Queued == Buffered \in Seq(Character \cup {NUL}) /\ Len(Buffered) = g_count

LEMMA BufferedIsSequence == RingInv => Queued
<1> SUFFICES ASSUME RingInv PROVE Queued
  OBVIOUS
<1>1. \A i \in 1 .. g_count : g_buf[Wrapped(g_tail + i - 1)] \in Character \cup {NUL}
  <2> TAKE i \in 1 .. g_count
  <2>1. g_tail + i - 1 \in 0 .. 2 * LOGGER_BUFFER_SIZE - 1
    BY LoggerAssumption DEF RingInv, Indices
  <2> QED
    BY <2>1, WrappedIsIndex DEF RingInv
<1>2. g_count \in Nat
  BY LoggerAssumption DEF RingInv
<1>3. Buffered \in [1 .. g_count -> Character \cup {NUL}]
  BY <1>1 DEF Buffered
<1>4. Buffered \in Seq(Character \cup {NUL})
  BY <1>2, <1>3, SeqDef
<1> QED
  BY <1>2, <1>3, <1>4, LenProperties DEF Queued

\* The same in the next state.
LEMMA LenOfNext == RingInv' => Queued'
  BY BufferedIsSequence, PTL

LEMMA BufferedAt ==
    ASSUME NEW i \in 1 .. g_count
    PROVE  Buffered[i] = g_buf[Wrapped(g_tail + i - 1)]
  BY DEF Buffered

\* A character that is accepted goes to the end of the queue.
LEMMA PushAppends ==
    ASSUME RingInv, NEW c \in Character, PushChar(c), g_count < LOGGER_BUFFER_SIZE
    PROVE  RingInv' /\ Buffered' = Append(Buffered, c)
<1>1. /\ g_buf' = [g_buf EXCEPT ![g_head] = c] /\ g_head' = Wrapped(g_head + 1)
      /\ g_count' = g_count + 1 /\ g_tail' = g_tail
  BY LoggerAssumption DEF PushChar, RingInv
<1>2. RingInv'
  <2>1. g_head' \in Indices
    BY <1>1, LoggerAssumption DEF RingInv, Indices, Wrapped
  <2>2. g_head' = Wrapped(g_tail' + g_count')
    BY <1>1, LoggerAssumption DEF RingInv, Indices, Wrapped
  <2>3. g_count' \in 0 .. LOGGER_BUFFER_SIZE
    BY <1>1, LoggerAssumption DEF RingInv
  <2> QED
    BY <1>1, <2>1, <2>2, <2>3 DEF RingInv
<1>3. /\ Buffered \in Seq(Character \cup {NUL}) /\ Len(Buffered) = g_count
      /\ Buffered' \in Seq(Character \cup {NUL}) /\ Len(Buffered') = g_count + 1
  BY <1>1, <1>2, BufferedIsSequence, LenOfNext DEF Queued
<1>4. \A i \in 1 .. g_count : Buffered'[i] = Buffered[i]
  <2> TAKE i \in 1 .. g_count
  <2>1. Wrapped(g_tail + i - 1) # g_head
    <3>1. g_tail \in Indices /\ i - 1 \in 0 .. g_count - 1 /\ g_count \in 0 .. LOGGER_BUFFER_SIZE - 1
      BY LoggerAssumption DEF RingInv
    <3>2. Wrapped(g_tail + (i - 1)) # Wrapped(g_tail + g_count)
      BY <3>1, WrappedIsFree
    <3>3. g_tail + (i - 1) = g_tail + i - 1
      BY <3>1 DEF Indices
    <3> QED
      BY <3>2, <3>3 DEF RingInv
  <2>2. Wrapped(g_tail + i - 1) \in Indices
    BY WrappedIsIndex, LoggerAssumption DEF RingInv, Indices
  <2>3. Buffered'[i] = g_buf'[Wrapped(g_tail + i - 1)]
    BY <1>1, LoggerAssumption DEF Buffered, RingInv, Wrapped
  <2>4. g_buf'[Wrapped(g_tail + i - 1)] = g_buf[Wrapped(g_tail + i - 1)]
    BY <1>1, <2>1, <2>2 DEF RingInv
  <2> QED
    BY <2>3, <2>4, BufferedAt
<1>5. Buffered'[g_count + 1] = c
  <2>1. Buffered'[g_count + 1] = g_buf'[Wrapped(g_tail + g_count)]
    BY <1>1, LoggerAssumption DEF Buffered, RingInv, Wrapped, Indices
  <2> QED
    BY <1>1, <2>1 DEF RingInv
<1>6. /\ Append(Buffered, c) \in Seq(Character \cup {NUL})
      /\ Len(Append(Buffered, c)) = g_count + 1
      /\ \A i \in 1 .. g_count + 1 : Append(Buffered, c)[i] = Buffered'[i]
  <2>1. c \in Character \cup {NUL} /\ g_count \in Nat
    BY DEF RingInv
  <2>2. /\ Append(Buffered, c) \in Seq(Character \cup {NUL})
        /\ Len(Append(Buffered, c)) = g_count + 1
        /\ \A i \in 1 .. g_count : Append(Buffered, c)[i] = Buffered[i]
        /\ Append(Buffered, c)[g_count + 1] = c
    BY <1>3, <2>1, AppendProperties
  <2>3. \A i \in 1 .. g_count + 1 : i \in 1 .. g_count \/ i = g_count + 1
    BY <2>1
  <2> QED
    BY <1>4, <1>5, <2>2, <2>3
<1> QED
  BY <1>2, <1>3, <1>6, SeqEqual

\* What the logger task pops is what stands first in the queue.
LEMMA PoppingTakes ==
    ASSUME RingInv, LoggerTask
    PROVE  /\ RingInv'
           /\ PoppedInTask \in 1 .. LOGGER_CHUNK_SIZE /\ PoppedInTask <= g_count
           /\ Buffered' = SubSeq(Buffered, PoppedInTask + 1, Len(Buffered))
<1> DEFINE n == PoppedInTask
<1>1. /\ g_buf' = g_buf /\ g_head' = g_head /\ g_count' = g_count - n
      /\ g_tail' = Wrapped(g_tail + n) /\ g_count > 0
  BY DEF LoggerTask
<1>2. n \in 1 .. LOGGER_CHUNK_SIZE /\ n <= g_count /\ (n = LOGGER_CHUNK_SIZE \/ n = g_count)
  BY <1>1, LoggerAssumption DEF PoppedInTask, RingInv
<1>3. RingInv'
  <2>1. g_tail' \in Indices
    BY <1>1, <1>2, WrappedIsIndex, LoggerAssumption DEF RingInv, Indices
  <2>2. g_count' \in 0 .. LOGGER_BUFFER_SIZE
    BY <1>1, <1>2, LoggerAssumption DEF RingInv
  <2>3. g_head' = Wrapped(g_tail' + g_count')
    <3> HIDE DEF n
    <3> QED
      BY <1>1, <1>2, LoggerAssumption DEF RingInv, Indices, Wrapped
  <2> QED
    BY <1>1, <2>1, <2>2, <2>3 DEF RingInv
<1>4. /\ Buffered \in Seq(Character \cup {NUL}) /\ Len(Buffered) = g_count
      /\ Buffered' \in Seq(Character \cup {NUL}) /\ Len(Buffered') = g_count - n
  BY <1>1, <1>3, BufferedIsSequence, LenOfNext DEF Queued
<1> HIDE DEF n
<1>5. \A i \in 1 .. g_count - n : Buffered'[i] = Buffered[n + i]
  <2> TAKE i \in 1 .. g_count - n
  <2>1. Buffered'[i] = g_buf[Wrapped(Wrapped(g_tail + n) + i - 1)]
    BY <1>1 DEF Buffered, Wrapped
  <2>2. Wrapped(Wrapped(g_tail + n) + i - 1) = Wrapped(g_tail + (n + i) - 1)
    BY <1>2, LoggerAssumption DEF RingInv, Indices, Wrapped
  <2>3. n + i \in 1 .. g_count
    BY <1>2 DEF RingInv
  <2> QED
    BY <2>1, <2>2, <2>3, BufferedAt
<1>6. /\ SubSeq(Buffered, n + 1, g_count) \in Seq(Character \cup {NUL})
      /\ Len(SubSeq(Buffered, n + 1, g_count)) = g_count - n
      /\ \A i \in 1 .. g_count - n : SubSeq(Buffered, n + 1, g_count)[i] = Buffered[n + i]
  <2>1. n + 1 \in Int /\ g_count \in Int /\ n \in Nat
    BY <1>2, LoggerAssumption DEF RingInv
  <2>2. \A i \in n + 1 .. g_count : Buffered[i] \in Character \cup {NUL}
    BY <1>4, <2>1, ElementOfSeq
  <2>3. /\ SubSeq(Buffered, n + 1, g_count) \in Seq(Character \cup {NUL})
        /\ Len(SubSeq(Buffered, n + 1, g_count))
             = IF n + 1 <= g_count THEN g_count - (n + 1) + 1 ELSE 0
        /\ \A i \in 1 .. g_count - (n + 1) + 1 :
             SubSeq(Buffered, n + 1, g_count)[i] = Buffered[n + 1 + i - 1]
    BY <2>1, <2>2, SubSeqProperties
  <2>4. /\ g_count - (n + 1) + 1 = g_count - n
        /\ (IF n + 1 <= g_count THEN g_count - (n + 1) + 1 ELSE 0) = g_count - n
        /\ \A i \in 1 .. g_count - n : n + 1 + i - 1 = n + i
    BY <1>2, <2>1
  <2> QED
    BY <2>3, <2>4
<1>7. Buffered' = SubSeq(Buffered, n + 1, g_count)
  BY <1>4, <1>5, <1>6, SeqEqual
<1> QED
  BY <1>2, <1>3, <1>4, <1>7 DEF n
-----------------------------------------------------------------------------
\* What is written next is a character of the last line begun.
LEMMA WrittenIsCharacter ==
    ASSUME CallerInv, Writing
    PROVE  <<lines, next>> \in Character
  BY LoggerAssumption DEF CallerInv, Writing, Character

\* The first state is an empty queue.
LEMMA LoggerInitially == LoggerInit => LoggerInv /\ Fifo!FifoInit
<1> SUFFICES ASSUME LoggerInit PROVE LoggerInv /\ Fifo!FifoInit
  OBVIOUS
<1>1. RingInv
  BY LoggerAssumption DEF LoggerInit, RingInv, Indices, Wrapped
<1>2. CallerInv
  BY LoggerAssumption DEF LoggerInit, CallerInv, Writing
<1>3. Buffered = <<>>
  <2>1. Len(Buffered) = 0 /\ Buffered \in Seq(Character \cup {NUL})
    BY <1>1, BufferedIsSequence DEF Queued, LoggerInit
  <2> QED
    BY <2>1, EmptySeq
<1> QED
  BY <1>1, <1>2, <1>3 DEF LoggerInv, LoggerInit, Fifo!FifoInit

\* Every step is one of the queue, or changes nothing of it.
LEMMA LoggerStep ==
    LoggerInv /\ [LoggerNext]_loggerVars
      => LoggerInv' /\ [Fifo!FifoNext]_(Fifo!fifoVars)
<1> SUFFICES ASSUME LoggerInv, [LoggerNext]_loggerVars
             PROVE  LoggerInv' /\ [Fifo!FifoNext]_(Fifo!fifoVars)
  OBVIOUS
<1> USE DEF LoggerInv
<1>1. ASSUME UNCHANGED <<ringVars, chunk>>
      PROVE  RingInv' /\ UNCHANGED Fifo!fifoVars
  BY <1>1 DEF ringVars, RingInv, Buffered, Fifo!fifoVars
<1>2. ASSUME NEW n \in LineLengths, BeginLine(n)
      PROVE  LoggerInv' /\ [Fifo!FifoNext]_(Fifo!fifoVars)
  <2>1. CallerInv'
    BY <1>2, LoggerAssumption DEF BeginLine, CallerInv, Writing
  <2> QED
    BY <1>1, <1>2, <2>1 DEF BeginLine, outputVars
<1>3. CASE WriteChar
  <2>1. CallerInv'
    BY <1>3 DEF WriteChar, CallerInv, Writing
  <2>2. CASE g_count < LOGGER_BUFFER_SIZE
    <3>1. RingInv' /\ Buffered' = Append(Buffered, <<lines, next>>)
      BY <1>3, <2>2, WrittenIsCharacter, PushAppends DEF WriteChar
    <3>2. UNCHANGED <<g_dropped, chunk>>
      BY <1>3, <2>2, LoggerAssumption DEF WriteChar, PushChar, outputVars, RingInv
    <3>3. Len(Buffered) < LOGGER_BUFFER_SIZE
      BY <2>2, BufferedIsSequence DEF Queued
    <3>4. Fifo!Put(<<lines, next>>)
      BY <3>1, <3>2, <3>3 DEF Fifo!Put
    <3> QED
      BY <1>3, <2>1, <3>1, <3>4, WrittenIsCharacter DEF WriteChar, Fifo!FifoNext
  <2>3. CASE g_count >= LOGGER_BUFFER_SIZE
    <3>1. g_dropped' = g_dropped + 1 /\ UNCHANGED <<g_buf, g_head, g_tail, g_count, chunk>>
      BY <1>3, <2>3 DEF WriteChar, PushChar, outputVars
    <3>2. RingInv' /\ Buffered' = Buffered
      BY <3>1 DEF RingInv, Buffered
    <3>3. Len(Buffered) >= LOGGER_BUFFER_SIZE
      BY <2>3, BufferedIsSequence DEF Queued
    <3>4. Fifo!Drop
      BY <3>1, <3>2, <3>3 DEF Fifo!Drop
    <3> QED
      BY <2>1, <3>2, <3>4 DEF Fifo!FifoNext
  <2> QED
    BY <2>2, <2>3, LoggerAssumption DEF RingInv
<1>4. CASE LoggerTask
  <2>1. CallerInv'
    BY <1>4 DEF LoggerTask, CallerInv, Writing
  <2>2. /\ RingInv'
        /\ PoppedInTask \in 1 .. LOGGER_CHUNK_SIZE /\ PoppedInTask <= g_count
        /\ Buffered' = SubSeq(Buffered, PoppedInTask + 1, Len(Buffered))
    BY <1>4, PoppingTakes
  <2>3. /\ Len(Buffered) = g_count /\ chunk' = SubSeq(Buffered, 1, PoppedInTask)
        /\ g_dropped' = g_dropped
        /\ PoppedInTask = LOGGER_CHUNK_SIZE \/ PoppedInTask = g_count
    BY <1>4, BufferedIsSequence DEF Queued, LoggerTask, PoppedInTask
  <2>4. Fifo!Take
    BY <2>2, <2>3 DEF Fifo!Take
  <2> QED
    BY <2>1, <2>2, <2>4 DEF Fifo!FifoNext
<1>5. CASE Flush
  <2>1. CallerInv'
    BY <1>5 DEF Flush, CallerInv, Writing
  <2> QED
    BY <1>1, <1>5, <2>1 DEF Flush, outputVars
<1>6. CASE UNCHANGED loggerVars
  <2>1. CallerInv'
    BY <1>6 DEF loggerVars, callerVars, CallerInv, Writing
  <2> QED
    BY <1>1, <1>6, <2>1 DEF loggerVars, outputVars
<1> QED
  BY <1>2, <1>3, <1>4, <1>5, <1>6 DEF LoggerNext

\* The ring of characters is the queue that CharFifo promises (logger_push_char,
\* logger_pop_char, logger_task).
THEOREM LoggerIsFifo == LoggerSpec => ImplementsFifo
  BY LoggerInitially, LoggerStep, PTL DEF LoggerSpec, ImplementsFifo, Fifo!FifoSpec

\* Its indices stay inside the buffer.
THEOREM LoggerStaysInBuffer == LoggerSpec => [](g_head \in Indices /\ g_tail \in Indices)
<1>1. LoggerInv => g_head \in Indices /\ g_tail \in Indices
  BY DEF LoggerInv, RingInv
<1> QED
  BY <1>1, LoggerInitially, LoggerStep, PTL DEF LoggerSpec
-----------------------------------------------------------------------------
\* What is printed already and what waits in the ring, in this order.
Shown == terminal \o Buffered

Ordered(s) ==
    /\ \A i \in 1 .. Len(s) - 1 : Follows(s[i], s[i + 1])
    /\ s # <<>> => s[1] = <<1, 1>>

\* The first character of all finds an empty ring.  From then on the last one kept is of
\* the line being written, just before the next, or of an earlier line if this one has
\* only begun; or else the ring is full, and stays so to the end of the line.
Continues(s) ==
    IF s = <<>>
    THEN lines = 0 \/ (lines = 1 /\ next = 1 /\ Writing)
    ELSE /\ s[Len(s)][1] \in 0 .. lines /\ s[Len(s)][2] \in Nat
         /\ Writing => \/ g_count = LOGGER_BUFFER_SIZE
                       \/ s[Len(s)][1] = lines /\ s[Len(s)][2] = next - 1
                       \/ next = 1 /\ s[Len(s)][1] < lines

PrintedInv ==
    channel = "stdout" =>
      terminal \in Seq(Character \cup {NUL}) /\ Ordered(Shown) /\ Continues(Shown)

\* A character that may come next keeps a sequence in order.
LEMMA AppendKeepsOrder ==
    ASSUME NEW s \in Seq(Character \cup {NUL}), NEW c \in Character, Ordered(s),
           IF s = <<>> THEN c = <<1, 1>> ELSE Follows(s[Len(s)], c)
    PROVE  Ordered(Append(s, c))
<1> DEFINE t == Append(s, c)
<1>1. /\ t \in Seq(Character \cup {NUL}) /\ Len(t) = Len(s) + 1 /\ Len(s) \in Nat
      /\ \A i \in 1 .. Len(s) : t[i] = s[i]
      /\ t[Len(s) + 1] = c
  BY AppendProperties, LenProperties
<1> HIDE DEF t
<1>2. CASE s = <<>>
  <2>1. Len(s) = 0
    BY <1>2
  <2> QED
    BY <1>1, <1>2, <2>1 DEF Ordered, t
<1>3. CASE s # <<>>
  <2>1. Len(s) > 0
    BY <1>1, <1>3, EmptySeq
  <2>2. t[1] = <<1, 1>>
    BY <1>1, <1>3, <2>1 DEF Ordered
  <2>3. ASSUME NEW i \in 1 .. Len(t) - 1 PROVE Follows(t[i], t[i + 1])
    <3>1. CASE i < Len(s)
      <4>1. i \in 1 .. Len(s) - 1 /\ i \in 1 .. Len(s) /\ i + 1 \in 1 .. Len(s)
        BY <1>1, <3>1
      <4>2. t[i] = s[i] /\ t[i + 1] = s[i + 1] /\ Follows(s[i], s[i + 1])
        BY <1>1, <4>1 DEF Ordered
      <4> QED
        BY <4>2
    <3>2. CASE i = Len(s)
      <4>1. t[i] = s[Len(s)] /\ t[i + 1] = c
        BY <1>1, <2>1, <3>2
      <4> QED
        BY <1>3, <4>1
    <3> QED
      BY <1>1, <3>1, <3>2
  <2> QED
    BY <2>2, <2>3 DEF Ordered, t
<1> QED
  BY <1>2, <1>3

\* What is taken from the ring and printed stays where it was in the whole.
LEMMA TakingShowsTheSame ==
    ASSUME LoggerInv, LoggerTask, channel = "stdout", terminal \in Seq(Character \cup {NUL})
    PROVE  terminal' \in Seq(Character \cup {NUL}) /\ Shown' = Shown
<1> DEFINE X == Character \cup {NUL}
           n == PoppedInTask
<1>1. /\ n \in 1 .. LOGGER_CHUNK_SIZE /\ n <= g_count
      /\ Buffered' = SubSeq(Buffered, n + 1, Len(Buffered))
  BY PoppingTakes DEF LoggerInv
<1>2. Buffered \in Seq(X) /\ Len(Buffered) = g_count /\ g_count \in Nat
  BY BufferedIsSequence, LoggerAssumption DEF LoggerInv, Queued, RingInv
<1>3. chunk' = SubSeq(Buffered, 1, n) /\ terminal' = terminal \o chunk'
  BY DEF LoggerTask, Output
<1> HIDE DEF X, n
<1>4. n \in Nat /\ n \in 0 .. Len(Buffered) /\ Len(Buffered) \in n .. Len(Buffered)
  BY <1>1, <1>2, LoggerAssumption
<1>5. \A i \in 1 .. Len(Buffered) : Buffered[i] \in X
  BY <1>2, ElementOfSeq
<1>6. chunk' \in Seq(X)
  <2>1. \A i \in 1 .. n : Buffered[i] \in X
    BY <1>4, <1>5
  <2> QED
    BY <1>3, <1>4, <2>1, SubSeqProperties
<1>7. Buffered' \in Seq(X)
  <2>1. \A i \in n + 1 .. Len(Buffered) : Buffered[i] \in X
    BY <1>4, <1>5
  <2>2. n + 1 \in Int /\ Len(Buffered) \in Int
    BY <1>2, <1>4
  <2> QED
    BY <1>1, <2>1, <2>2, SubSeqProperties
<1>8. chunk' \o Buffered' = Buffered
  <2>1. 1 \in 1 .. Len(Buffered) + 1 /\ n \in 1 - 1 .. Len(Buffered)
    BY <1>2, <1>4
  <2>2. SubSeq(Buffered, 1, n) \o SubSeq(Buffered, n + 1, Len(Buffered))
          = SubSeq(Buffered, 1, Len(Buffered))
    BY <1>2, <1>4, <2>1, ConcatAdjacentSubSeq
  <2> QED
    BY <1>1, <1>2, <1>3, <2>2, SubSeqFull
<1>9. terminal \in Seq(X)
  BY DEF X
<1>10. Shown' = Shown
  <2>1. (terminal \o chunk') \o Buffered' = terminal \o (chunk' \o Buffered')
    BY <1>6, <1>7, <1>9, ConcatAssociative
  <2> QED
    BY <1>3, <1>8, <2>1 DEF Shown
<1>11. terminal' \in Seq(X)
  BY <1>3, <1>6, <1>9, ConcatProperties
<1> QED
  BY <1>10, <1>11 DEF X

\* A character that is accepted comes last of all.
LEMMA PushingShowsOneMore ==
    ASSUME LoggerInv, WriteChar, g_count < LOGGER_BUFFER_SIZE,
           terminal \in Seq(Character \cup {NUL})
    PROVE  /\ Shown \in Seq(Character \cup {NUL})
           /\ Shown' = Append(Shown, <<lines, next>>)
           /\ Len(Shown) = Len(terminal) + g_count
<1> DEFINE X == Character \cup {NUL}
           c == <<lines, next>>
<1>1. c \in X
  BY WrittenIsCharacter DEF LoggerInv, WriteChar
<1>2. Buffered' = Append(Buffered, c)
  BY WrittenIsCharacter, PushAppends DEF LoggerInv, WriteChar
<1>3. Buffered \in Seq(X) /\ Len(Buffered) = g_count
  BY BufferedIsSequence DEF LoggerInv, Queued
<1>4. terminal' = terminal /\ terminal \in Seq(X)
  BY DEF WriteChar, outputVars
<1> HIDE DEF X, c
<1>5. Shown \in Seq(X) /\ Len(Shown) = Len(terminal) + g_count
  BY <1>3, <1>4, ConcatProperties DEF Shown
<1>6. <<c>> \in Seq(X)
  BY <1>1
<1>7. Shown' = terminal \o (Buffered \o <<c>>)
  BY <1>1, <1>2, <1>3, <1>4, AppendIsConcat DEF Shown
<1>8. Append(Shown, c) = (terminal \o Buffered) \o <<c>>
  BY <1>1, <1>5, AppendIsConcat DEF Shown
<1>9. Shown' = Append(Shown, c)
  BY <1>3, <1>4, <1>6, <1>7, <1>8, ConcatAssociative
<1> QED
  BY <1>5, <1>9 DEF X, c

\* At the start nothing is shown.
LEMMA PrintedInitially == LoggerInit => PrintedInv
<1> SUFFICES ASSUME LoggerInit PROVE PrintedInv
  OBVIOUS
<1>1. terminal = <<>> /\ Buffered = <<>> /\ lines = 0
  BY LoggerInitially DEF Fifo!FifoInit, LoggerInit
<1>2. Shown = <<>>
  BY <1>1 DEF Shown
<1> QED
  BY <1>1, <1>2 DEF PrintedInv, Ordered, Continues

LEMMA PrintedStep ==
    LoggerInv /\ PrintedInv /\ [LoggerNext]_loggerVars => PrintedInv'
<1> SUFFICES ASSUME LoggerInv, PrintedInv, [LoggerNext]_loggerVars, channel' = "stdout"
             PROVE  (/\ terminal \in Seq(Character \cup {NUL})
                     /\ Ordered(Shown) /\ Continues(Shown))'
  BY DEF PrintedInv
<1>1. channel = "stdout"
  BY DEF LoggerNext, BeginLine, WriteChar, LoggerTask, Flush, loggerVars, outputVars
<1>2. terminal \in Seq(Character \cup {NUL}) /\ Ordered(Shown) /\ Continues(Shown)
  BY <1>1 DEF PrintedInv
<1>3. /\ lines \in 0 .. MaxLines /\ next \in Nat \ {0} /\ length \in Nat
      /\ g_count \in 0 .. LOGGER_BUFFER_SIZE
      /\ LOGGER_BUFFER_SIZE \in Nat \ {0} /\ MaxLines \in Nat
  BY LoggerAssumption DEF LoggerInv, RingInv, CallerInv
<1>4. ASSUME UNCHANGED ringVars, UNCHANGED terminal
      PROVE  Shown' = Shown
  BY <1>4 DEF ringVars, Shown, Buffered
<1>5. ASSUME NEW n \in LineLengths, BeginLine(n)
      PROVE  (terminal \in Seq(Character \cup {NUL}) /\ Ordered(Shown) /\ Continues(Shown))'
  <2>1. /\ Shown' = Shown /\ terminal' = terminal
        /\ ~Writing /\ Writing' /\ lines' = lines + 1 /\ next' = 1
    BY <1>4, <1>5, LoggerAssumption DEF BeginLine, outputVars, Writing
  <2>2. Ordered(Shown)'
    BY <1>2, <2>1 DEF Ordered
  <2>3. Continues(Shown)'
    <3>1. CASE Shown = <<>>
      <4>1. lines = 0
        BY <1>2, <1>3, <2>1, <3>1 DEF Continues
      <4> QED
        BY <2>1, <3>1, <4>1 DEF Continues
    <3>2. CASE Shown # <<>>
      BY <1>2, <1>3, <2>1, <3>2 DEF Continues
    <3> QED
      BY <3>1, <3>2
  <2> QED
    BY <1>2, <2>1, <2>2, <2>3
<1>6. CASE WriteChar
  <2>1. /\ Writing /\ terminal' = terminal /\ lines' = lines /\ length' = length
        /\ next' = next + 1
    BY <1>6 DEF WriteChar, outputVars
  <2>2. CASE g_count < LOGGER_BUFFER_SIZE
    <3> DEFINE c == <<lines, next>>
               s == Shown
    <3>1. /\ s \in Seq(Character \cup {NUL}) /\ Shown' = Append(s, c)
          /\ Len(s) = Len(terminal) + g_count /\ c \in Character
      BY <1>2, <1>6, <2>2, PushingShowsOneMore, WrittenIsCharacter DEF LoggerInv, WriteChar
    <3>2. IF s = <<>> THEN c = <<1, 1>> ELSE Follows(s[Len(s)], c)
      <4>1. CASE s = <<>>
        <5>1. lines = 1 /\ next = 1
          BY <1>2, <2>1, <4>1 DEF Continues, LoggerInv, CallerInv
        <5> QED
          BY <4>1, <5>1
      <4>2. CASE s # <<>>
        BY <1>2, <1>3, <2>1, <2>2, <4>2 DEF Continues, Follows
      <4> QED
        BY <4>1, <4>2
    <3>3. /\ Shown' # <<>> /\ Len(Shown') = Len(s) + 1 /\ Shown'[Len(s) + 1] = c
      BY <3>1, AppendProperties
    <3> HIDE DEF s
    <3>4. Ordered(Shown)'
      <4>1. Ordered(s)
        BY <1>2 DEF s
      <4>2. Ordered(Append(s, c))
        BY <3>1, <3>2, <4>1, AppendKeepsOrder
      <4> QED
        BY <3>1, <4>2 DEF Ordered
    <3>5. Continues(Shown)'
      <4>1. Shown'[Len(Shown')] = c
        BY <3>3
      <4> QED
        BY <1>3, <2>1, <3>3, <4>1 DEF Continues
    <3> QED
      BY <1>2, <2>1, <3>4, <3>5
  <2>3. CASE g_count >= LOGGER_BUFFER_SIZE
    <3>1. UNCHANGED <<g_buf, g_head, g_tail, g_count>>
      BY <1>6, <2>3 DEF WriteChar, PushChar
    <3>2. Shown' = Shown
      BY <2>1, <3>1 DEF Shown, Buffered
    <3>3. Shown # <<>>
      <4>1. /\ Buffered \in Seq(Character \cup {NUL}) /\ Len(Buffered) = g_count
        BY BufferedIsSequence DEF LoggerInv, Queued
      <4>2. Len(Shown) = Len(terminal) + g_count /\ Len(terminal) \in Nat
        BY <1>2, <4>1, ConcatProperties, LenProperties DEF Shown
      <4> QED
        BY <1>3, <2>3, <4>2
    <3>4. Continues(Shown)'
      BY <1>2, <1>3, <2>1, <2>3, <3>1, <3>2, <3>3 DEF Continues
    <3>5. Ordered(Shown)'
      BY <1>2, <3>2 DEF Ordered
    <3> QED
      BY <1>2, <2>1, <3>4, <3>5
  <2> QED
    BY <1>3, <2>2, <2>3
<1>7. CASE LoggerTask
  <2>1. terminal' \in Seq(Character \cup {NUL}) /\ Shown' = Shown
    BY <1>1, <1>2, <1>7, TakingShowsTheSame
  <2>2. ~Writing /\ ~Writing' /\ lines' = lines
    BY <1>7 DEF LoggerTask, Writing
  <2>3. Ordered(Shown)'
    BY <1>2, <2>1 DEF Ordered
  <2>4. Continues(Shown)'
    BY <1>2, <2>1, <2>2 DEF Continues
  <2> QED
    BY <2>1, <2>3, <2>4
<1>8. CASE Flush \/ UNCHANGED loggerVars
  <2>1. UNCHANGED <<ringVars, terminal, lines, length, next>>
    BY <1>8 DEF Flush, loggerVars, callerVars, outputVars
  <2>2. Shown' = Shown
    BY <1>4, <2>1
  <2>3. Ordered(Shown)'
    BY <1>2, <2>2 DEF Ordered
  <2>4. Continues(Shown)'
    BY <1>2, <2>1, <2>2 DEF Continues, Writing, ringVars
  <2> QED
    BY <1>2, <2>1, <2>3, <2>4
<1> QED
  BY <1>5, <1>6, <1>7, <1>8 DEF LoggerNext

\* On the host a full ring cuts lines only at their ends: what comes out of a line is its
\* beginning, without a gap (logger_write_char ignores a refused character, logger_task).
THEOREM LinesKeepTheirBeginning == LoggerSpec => []LinesCutOnlyAtEnd
<1>1. PrintedInv => LinesCutOnlyAtEnd
  BY DEF PrintedInv, Ordered, Shown, LinesCutOnlyAtEnd
<1> QED
  BY <1>1, LoggerInitially, PrintedInitially, LoggerStep, PrintedStep, PTL DEF LoggerSpec
-----------------------------------------------------------------------------
(* Moving average *)

\* The sums of the beginnings of a sequence, by their recurrence.
Sums(g, s) ==
    /\ g \in [0 .. Len(s) -> Int]
    /\ g[0] = 0
    /\ \A i \in 1 .. Len(s) : g[i] = g[i - 1] + s[i]

LEMMA SumsExist ==
    ASSUME NEW s \in Seq(Int)
    PROVE  \E g : Sums(g, s)
<1> DEFINE Upto(n, g) == /\ g \in [0 .. n -> Int]
                         /\ g[0] = 0
                         /\ \A i \in 1 .. n : g[i] = g[i - 1] + s[i]
           T == {n \in Nat : n <= Len(s) => \E g : Upto(n, g)}
<1>1. Len(s) \in Nat /\ \A i \in 1 .. Len(s) : s[i] \in Int
  BY LenProperties, ElementOfSeq
<1>2. 0 \in T
  <2>1. Upto(0, [i \in 0 .. 0 |-> 0])
    OBVIOUS
  <2> HIDE DEF Upto
  <2> QED
    BY <2>1
<1>3. ASSUME NEW n \in T PROVE n + 1 \in T
  <2>1. SUFFICES ASSUME n + 1 <= Len(s) PROVE \E h : Upto(n + 1, h)
    <3> HIDE DEF Upto
    <3> QED
      OBVIOUS
  <2>2. PICK g : Upto(n, g)
    <3> HIDE DEF Upto
    <3> QED
      BY <1>1, <2>1
  <2> DEFINE h == [i \in 0 .. n + 1 |-> IF i <= n THEN g[i] ELSE g[n] + s[n + 1]]
  <2>3. n \in Nat /\ s[n + 1] \in Int
    BY <1>1, <2>1
  <2>4. h \in [0 .. n + 1 -> Int]
    BY <2>2, <2>3
  <2>5. h[0] = 0
    BY <2>2, <2>3
  <2>6. ASSUME NEW i \in 1 .. n + 1 PROVE h[i] = h[i - 1] + s[i]
    <3>1. CASE i <= n
      BY <2>2, <2>3, <3>1
    <3>2. CASE i = n + 1
      <4>1. h[i] = g[n] + s[n + 1] /\ h[i - 1] = g[n]
        BY <2>3, <3>2
      <4> QED
        BY <3>2, <4>1
    <3> QED
      BY <2>3, <3>1, <3>2
  <2>7. Upto(n + 1, h)
    BY <2>4, <2>5, <2>6
  <2> HIDE DEF Upto, h
  <2> QED
    BY <2>7
<1>4. T = Nat
  <2> HIDE DEF T
  <2>1. T \in SUBSET Nat
    BY DEF T
  <2> QED
    BY <1>2, <1>3, <2>1, SetInduction
<1>5. PICK g : Upto(Len(s), g)
  <2> HIDE DEF Upto
  <2> QED
    BY <1>1, <1>4
<1> QED
  BY <1>5 DEF Sums

LEMMA SumsAreUnique ==
    ASSUME NEW s \in Seq(Int), NEW g, NEW h, Sums(g, s),
           h[0] = 0, \A i \in 1 .. Len(s) : h[i] = h[i - 1] + s[i]
    PROVE  \A i \in 0 .. Len(s) : g[i] = h[i]
<1> DEFINE T == {n \in Nat : n <= Len(s) => g[n] = h[n]}
<1>1. Len(s) \in Nat
  BY LenProperties
<1>2. 0 \in T
  BY DEF Sums
<1>3. ASSUME NEW n \in T PROVE n + 1 \in T
  <2>1. SUFFICES ASSUME n + 1 <= Len(s) PROVE g[n + 1] = h[n + 1]
    OBVIOUS
  <2>2. n + 1 \in 1 .. Len(s) /\ (n + 1) - 1 = n /\ g[n] = h[n]
    BY <1>1, <2>1
  <2>3. g[n + 1] = g[n] + s[n + 1]
    BY <2>2 DEF Sums
  <2>4. h[n + 1] = h[n] + s[n + 1]
    BY <2>2
  <2> QED
    BY <2>2, <2>3, <2>4
<1>4. T = Nat
  <2> HIDE DEF T
  <2>1. T \in SUBSET Nat
    BY DEF T
  <2> QED
    BY <1>2, <1>3, <2>1, SetInduction
<1> QED
  BY <1>1, <1>4

\* The recursive function satisfies its equation.
LEMMA TotalsAreSums ==
    ASSUME NEW s \in Seq(Int)
    PROVE  Sums(Window!Totals(s), s)
<1> DEFINE f == Window!Totals(s)
<1>1. PICK g : Sums(g, s)
  BY SumsExist
<1>2. g = [i \in 0 .. Len(s) |-> IF i = 0 THEN 0 ELSE g[i - 1] + s[i]]
  BY <1>1, LenProperties DEF Sums
<1>3. f = [i \in 0 .. Len(s) |-> IF i = 0 THEN 0 ELSE f[i - 1] + s[i]]
  BY <1>2, Zenon DEF Window!Totals
<1> HIDE DEF f
<1>4. Len(s) \in Nat
  BY LenProperties
<1>5. f[0] = 0 /\ \A i \in 1 .. Len(s) : f[i] = f[i - 1] + s[i]
  <2>1. f[0] = 0
    BY <1>3, <1>4
  <2>2. ASSUME NEW i \in 1 .. Len(s) PROVE f[i] = f[i - 1] + s[i]
    BY <1>3, <1>4
  <2> QED
    BY <2>1, <2>2
<1>6. \A i \in 0 .. Len(s) : g[i] = f[i]
  BY <1>1, <1>5, SumsAreUnique
<1>7. f \in [0 .. Len(s) -> Int]
  <2>1. \A i \in 0 .. Len(s) : f[i] \in Int
    BY <1>1, <1>6 DEF Sums
  <2> QED
    BY <1>3, <2>1
<1> QED
  BY <1>5, <1>7 DEF Sums, f

LEMMA TotalIsUnique ==
    ASSUME NEW s \in Seq(Int), NEW g, Sums(g, s)
    PROVE  Window!Total(s) = g[Len(s)] /\ Window!Total(s) \in Int
<1> DEFINE f == Window!Totals(s)
<1>1. Sums(f, s)
  BY TotalsAreSums
<1> HIDE DEF f
<1>2. Len(s) \in Nat /\ Len(s) \in 0 .. Len(s)
  BY LenProperties
<1>3. g[Len(s)] = f[Len(s)]
  <2>1. f[0] = 0 /\ \A i \in 1 .. Len(s) : f[i] = f[i - 1] + s[i]
    BY <1>1 DEF Sums
  <2>2. \A i \in 0 .. Len(s) : g[i] = f[i]
    BY <2>1, SumsAreUnique
  <2> QED
    BY <1>2, <2>2
<1>4. f[Len(s)] \in Int
  BY <1>1, <1>2 DEF Sums
<1> QED
  BY <1>3, <1>4 DEF Window!Total, f

LEMMA TotalOfNothing == Window!Total(<<>>) = 0
<1> DEFINE g == [i \in 0 .. 0 |-> 0]
<1>1. <<>> \in Seq(Int) /\ Len(<<>>) = 0
  BY EmptySeq
<1>2. Sums(g, <<>>)
  BY <1>1 DEF Sums
<1>3. g[0] = 0
  OBVIOUS
<1> HIDE DEF g
<1> QED
  BY <1>1, <1>2, <1>3, TotalIsUnique

LEMMA TotalOfAppend ==
    ASSUME NEW s \in Seq(Int), NEW x \in Int
    PROVE  Window!Total(Append(s, x)) = Window!Total(s) + x
<1> DEFINE n == Len(s)
           t == Append(s, x)
           f == Window!Totals(s)
           g == [i \in 0 .. n + 1 |-> IF i <= n THEN f[i] ELSE f[n] + x]
<1>1. /\ t \in Seq(Int) /\ Len(t) = n + 1 /\ n \in Nat
      /\ \A i \in 1 .. n : t[i] = s[i]
      /\ t[n + 1] = x
  BY AppendProperties, LenProperties
<1>2. /\ f \in [0 .. n -> Int] /\ f[0] = 0
      /\ \A i \in 1 .. n : f[i] = f[i - 1] + s[i]
  BY TotalsAreSums DEF Sums
<1> HIDE DEF n, t, f
<1>3. g \in [0 .. n + 1 -> Int] /\ g[0] = 0 /\ g[n + 1] = f[n] + x
  BY <1>1, <1>2
<1>4. ASSUME NEW i \in 1 .. n + 1 PROVE g[i] = g[i - 1] + t[i]
  <2>1. CASE i <= n
    BY <1>1, <1>2, <2>1
  <2>2. CASE i = n + 1
    <3>1. g[i] = f[n] + x /\ g[i - 1] = f[n]
      BY <1>1, <2>2
    <3> QED
      BY <1>1, <2>2, <3>1
  <2> QED
    BY <1>1, <2>1, <2>2
<1> HIDE DEF g
<1>5. Sums(g, t)
  BY <1>1, <1>3, <1>4 DEF Sums
<1>6. Window!Total(t) = g[n + 1]
  BY <1>1, <1>5, TotalIsUnique
<1> QED
  BY <1>3, <1>6 DEF Window!Total, t, n, f

LEMMA TotalOfTail ==
    ASSUME NEW s \in Seq(Int), s # <<>>
    PROVE  /\ s[1] \in Int
           /\ Window!Total(Tail(s)) = Window!Total(s) - s[1]
<1> DEFINE n == Len(s)
           t == Tail(s)
           f == Window!Totals(s)
           g == [i \in 0 .. n - 1 |-> f[i + 1] - s[1]]
<1>1. n \in Nat /\ n # 0 /\ \A i \in 1 .. n : s[i] \in Int
  BY LenProperties, EmptySeq, ElementOfSeq
<1>2. /\ t \in Seq(Int) /\ Len(t) = n - 1
      /\ \A i \in 1 .. n - 1 : t[i] = s[i + 1]
  BY HeadTailProperties
<1>3. /\ f \in [0 .. n -> Int] /\ f[0] = 0
      /\ \A i \in 1 .. n : f[i] = f[i - 1] + s[i]
  BY TotalsAreSums DEF Sums
<1> HIDE DEF n, t, f
<1>4. s[1] \in Int /\ f[1] = s[1]
  BY <1>1, <1>3
<1>5. g \in [0 .. n - 1 -> Int] /\ g[0] = 0 /\ g[n - 1] = f[n] - s[1]
  <2>1. \A i \in 0 .. n - 1 : i + 1 \in 0 .. n /\ f[i + 1] - s[1] \in Int
    BY <1>1, <1>3, <1>4
  <2>2. g \in [0 .. n - 1 -> Int]
    BY <2>1
  <2>3. g[0] = 0
    BY <1>1, <1>4
  <2>4. g[n - 1] = f[n] - s[1]
    BY <1>1
  <2> QED
    BY <2>2, <2>3, <2>4
<1>6. ASSUME NEW i \in 1 .. n - 1 PROVE g[i] = g[i - 1] + t[i]
  <2>1. f[i + 1] = f[i] + s[i + 1]
    BY <1>1, <1>3
  <2>4. i \in 0 .. n /\ i + 1 \in 1 .. n
    BY <1>1
  <2>2. f[i] \in Int /\ s[i + 1] \in Int /\ t[i] = s[i + 1]
    BY <1>1, <1>2, <1>3, <2>4
  <2>3. g[i] = f[i + 1] - s[1] /\ g[i - 1] = f[i] - s[1]
    BY <1>1
  <2> QED
    BY <1>4, <2>1, <2>2, <2>3
<1> HIDE DEF g
<1>7. Sums(g, t)
  BY <1>2, <1>5, <1>6 DEF Sums
<1>8. Window!Total(t) = g[n - 1]
  BY <1>2, <1>7, TotalIsUnique
<1> QED
  BY <1>4, <1>5, <1>8 DEF Window!Total, t, n, f
-----------------------------------------------------------------------------
\* What the refinement mapping reads from the ring.
Samples == [i \in 1 .. count |->
              buf[(head + MA_FILTER_SIZE - count + i - 1) % MA_FILTER_SIZE]]

\* The place of the i-th sample of the window.
At(i) == IF count < MA_FILTER_SIZE THEN i - 1
         ELSE IF head + i - 1 < MA_FILTER_SIZE THEN head + i - 1
         ELSE head + i - 1 - MA_FILTER_SIZE

\* A ring that is not full begins at 0, and the running sum is that of its samples.
RingOfSamples ==
    /\ buf \in [Slot -> Int] /\ head \in Slot /\ count \in 0 .. MA_FILTER_SIZE
    /\ count < MA_FILTER_SIZE => head = count

FilterInv == RingOfSamples /\ sum = Window!Total(Samples)

LEMMA RemainderOfRing ==
    ASSUME NEW k \in 0 .. 2 * MA_FILTER_SIZE - 1
    PROVE  k % MA_FILTER_SIZE = IF k < MA_FILTER_SIZE THEN k ELSE k - MA_FILTER_SIZE
  BY FilterAssumption

LEMMA SampleAt ==
    ASSUME RingOfSamples, NEW i \in 1 .. count
    PROVE  At(i) \in Slot /\ Samples[i] = buf[At(i)]
<1> DEFINE k == head + MA_FILTER_SIZE - count + i - 1
<1>1. /\ MA_FILTER_SIZE \in Nat \ {0} /\ head \in 0 .. MA_FILTER_SIZE - 1
      /\ count \in 0 .. MA_FILTER_SIZE /\ (count < MA_FILTER_SIZE => head = count)
  BY FilterAssumption DEF RingOfSamples, Slot
<1>2. k \in 0 .. 2 * MA_FILTER_SIZE - 1
  BY <1>1
<1>3. (IF k < MA_FILTER_SIZE THEN k ELSE k - MA_FILTER_SIZE) = At(i)
  BY <1>1 DEF At
<1>4. Samples[i] = buf[k % MA_FILTER_SIZE]
  BY DEF Samples
<1> HIDE DEF k
<1>5. k % MA_FILTER_SIZE = At(i)
  BY <1>2, <1>3, RemainderOfRing
<1>6. At(i) \in Slot
  BY <1>1 DEF At, Slot
<1> QED
  BY <1>4, <1>5, <1>6

LEMMA SamplesAreSequence ==
    RingOfSamples => Samples \in Seq(Int) /\ Len(Samples) = count
<1> SUFFICES ASSUME RingOfSamples PROVE Samples \in Seq(Int) /\ Len(Samples) = count
  OBVIOUS
<1>1. count \in Nat
  BY FilterAssumption DEF RingOfSamples
<1>2. \A i \in 1 .. count : Samples[i] \in Int
  BY SampleAt DEF RingOfSamples
<1>3. Samples \in [1 .. count -> Int]
  BY <1>2 DEF Samples
<1> QED
  BY <1>1, <1>3, SeqDef, LenProperties

\* The same in the next state.
LEMMA SamplesAreSequenceNext ==
    RingOfSamples' => (Samples \in Seq(Int) /\ Len(Samples) = count)'
  BY SamplesAreSequence, PTL

LEMMA SamplesAt == RingOfSamples => \A i \in 1 .. count : Samples[i] = buf[At(i)]
  BY SampleAt

LEMMA SamplesAtNext == RingOfSamples' => (\A i \in 1 .. count : Samples[i] = buf[At(i)])'
  BY SamplesAt, PTL

\* The window after an update, in terms of the window before it.
Slid(x) == Append(IF count < MA_FILTER_SIZE THEN Samples ELSE Tail(Samples), x)

LEMMA UpdateSlides ==
    ASSUME RingOfSamples, NEW x \in Int, MaUpdate(x)
    PROVE  RingOfSamples' /\ Samples' = Slid(x)
<1>1. /\ MA_FILTER_SIZE \in Nat \ {0} /\ head \in 0 .. MA_FILTER_SIZE - 1
      /\ count \in 0 .. MA_FILTER_SIZE /\ (count < MA_FILTER_SIZE => head = count)
      /\ buf \in [Slot -> Int] /\ head \in Slot
  BY FilterAssumption DEF RingOfSamples, Slot
<1>2. /\ buf' = [buf EXCEPT ![head] = x]
      /\ count' = IF count < MA_FILTER_SIZE THEN count + 1 ELSE count
      /\ head' = IF head + 1 >= MA_FILTER_SIZE THEN 0 ELSE head + 1
  BY DEF MaUpdate
<1>3. RingOfSamples'
  <2>1. buf' \in [Slot -> Int]
    BY <1>1, <1>2
  <2>2. head' \in Slot /\ count' \in 0 .. MA_FILTER_SIZE
    BY <1>1, <1>2 DEF Slot
  <2>3. count' < MA_FILTER_SIZE => head' = count'
    BY <1>1, <1>2
  <2> QED
    BY <2>1, <2>2, <2>3 DEF RingOfSamples
<1>4. /\ Samples \in Seq(Int) /\ Len(Samples) = count
      /\ Samples' \in Seq(Int) /\ Len(Samples') = count'
  BY <1>3, SamplesAreSequence, SamplesAreSequenceNext
<1>5. \A i \in 1 .. count' : Samples'[i] = buf'[At(i)']
  BY <1>3, SamplesAtNext
<1> DEFINE w == IF count < MA_FILTER_SIZE THEN Samples ELSE Tail(Samples)
           n == Len(w)
<1>6. w \in Seq(Int) /\ n \in Nat /\ n + 1 = count'
  <2>1. CASE count < MA_FILTER_SIZE
    BY <1>1, <1>2, <1>4, <2>1
  <2>2. CASE count = MA_FILTER_SIZE
    <3>1. Samples # <<>>
      BY <1>1, <1>4, <2>2
    <3>2. Tail(Samples) \in Seq(Int) /\ Len(Tail(Samples)) = count - 1
      BY <1>4, <3>1, HeadTailProperties
    <3> QED
      BY <1>1, <1>2, <2>2, <3>2
  <2> QED
    BY <1>1, <2>1, <2>2
<1>7. ASSUME NEW i \in 1 .. n PROVE Samples'[i] = w[i]
  <2>1. CASE count < MA_FILTER_SIZE
    <3>1. i \in 1 .. count /\ i \in 1 .. count' /\ w[i] = Samples[i]
      BY <1>4, <1>6, <2>1
    <3>2. At(i)' = i - 1 /\ At(i) = i - 1 /\ At(i) # head
      BY <1>1, <1>2, <2>1, <3>1 DEF At
    <3>3. At(i) \in Slot /\ Samples[i] = buf[At(i)]
      BY <3>1, SampleAt
    <3>4. Samples'[i] = buf'[At(i)]
      BY <1>5, <3>1, <3>2
    <3>5. buf'[At(i)] = buf[At(i)]
      BY <1>1, <1>2, <3>2, <3>3
    <3> QED
      BY <3>1, <3>3, <3>4, <3>5
  <2>2. CASE count = MA_FILTER_SIZE
    <3>1. i + 1 \in 1 .. count /\ i \in 1 .. count'
      BY <1>1, <1>2, <1>6, <2>2
    <3>2. At(i)' = At(i + 1) /\ At(i + 1) # head
      BY <1>1, <1>2, <2>2, <3>1 DEF At
    <3>3. At(i + 1) \in Slot /\ Samples[i + 1] = buf[At(i + 1)]
      BY <3>1, SampleAt
    <3>4. Samples'[i] = buf'[At(i + 1)]
      BY <1>5, <3>1, <3>2
    <3>5. buf'[At(i + 1)] = buf[At(i + 1)]
      BY <1>1, <1>2, <3>2, <3>3
    <3>6. w[i] = Samples[i + 1]
      <4>1. Samples # <<>> /\ w = Tail(Samples)
        BY <1>1, <1>4, <2>2
      <4> QED
        BY <1>4, <4>1, HeadTailProperties
    <3> QED
      BY <3>3, <3>4, <3>5, <3>6
  <2> QED
    BY <1>1, <2>1, <2>2
<1>8. Samples'[n + 1] = x
  <2>1. SUFFICES ASSUME NEW k \in Nat, k = n + 1 PROVE Samples'[k] = x
    BY <1>6
  <2>2. k \in 1 .. count' /\ k = count'
    BY <1>6, <2>1
  <2> HIDE DEF w, n
  <2>3. At(k)' = head
    <3>1. CASE count < MA_FILTER_SIZE
      BY <1>1, <1>2, <2>2, <3>1 DEF At
    <3>2. CASE count = MA_FILTER_SIZE
      BY <1>1, <1>2, <2>2, <3>2 DEF At
    <3> QED
      BY <1>1, <3>1, <3>2
  <2>4. Samples'[k] = buf'[head]
    BY <1>5, <2>2, <2>3
  <2> QED
    BY <1>1, <1>2, <2>4
<1> HIDE DEF w, n
<1>9. /\ Append(w, x) \in Seq(Int) /\ Len(Append(w, x)) = n + 1
      /\ \A i \in 1 .. n : Append(w, x)[i] = w[i]
      /\ Append(w, x)[n + 1] = x
  BY <1>6, AppendProperties DEF n
<1>10. \A i \in 1 .. n + 1 : i \in 1 .. n \/ i = n + 1
  BY <1>6
<1>11. \A i \in 1 .. n + 1 : Append(w, x)[i] = Samples'[i]
  BY <1>7, <1>8, <1>9, <1>10
<1>12. Samples' = Append(w, x)
  BY <1>4, <1>6, <1>9, <1>11, SeqEqual
<1> QED
  BY <1>3, <1>12 DEF Slid, w

\* The running sum follows the window.
LEMMA SumFollows ==
    ASSUME FilterInv, NEW x \in Int, MaUpdate(x)
    PROVE  sum' = Window!Total(Samples') /\ sum' \in Int
<1>1. RingOfSamples' /\ Samples' = Slid(x)
  BY UpdateSlides DEF FilterInv
<1>2. Samples \in Seq(Int) /\ Len(Samples) = count
  BY SamplesAreSequence DEF FilterInv
<1>3. /\ MA_FILTER_SIZE \in Nat \ {0} /\ head \in Slot /\ count \in 0 .. MA_FILTER_SIZE
      /\ sum = Window!Total(Samples)
  BY FilterAssumption DEF FilterInv, RingOfSamples
<1>4. sum \in Int
  <2>1. PICK g : Sums(g, Samples)
    BY <1>2, SumsExist
  <2> QED
    BY <1>2, <1>3, <2>1, TotalIsUnique
<1>5. sum' = sum - Leaving + x
  BY DEF MaUpdate
<1>6. CASE count < MA_FILTER_SIZE
  <2>1. Samples' = Append(Samples, x) /\ Leaving = 0
    BY <1>1, <1>6 DEF Slid, Leaving
  <2>2. Window!Total(Samples') = Window!Total(Samples) + x
    BY <1>2, <2>1, TotalOfAppend
  <2> QED
    BY <1>3, <1>4, <1>5, <2>1, <2>2
<1>7. CASE count = MA_FILTER_SIZE
  <2>1. Samples # <<>>
    BY <1>2, <1>3, <1>7
  <2>2. Samples' = Append(Tail(Samples), x)
    BY <1>1, <1>3, <1>7 DEF Slid
  <2>3. Leaving = Samples[1]
    <3>1. At(1) = head
      BY <1>3, <1>7 DEF At, Slot
    <3>2. Samples[1] = buf[At(1)]
      BY <1>3, <1>7, SampleAt DEF FilterInv
    <3> QED
      BY <1>3, <1>7, <3>1, <3>2 DEF Leaving
  <2>4. /\ Samples[1] \in Int
        /\ Window!Total(Tail(Samples)) = Window!Total(Samples) - Samples[1]
    BY <1>2, <2>1, TotalOfTail
  <2>5. Tail(Samples) \in Seq(Int)
    BY <1>2, <2>1, HeadTailProperties
  <2>6. Window!Total(Samples') = Window!Total(Tail(Samples)) + x
    BY <2>2, <2>5, TotalOfAppend
  <2> QED
    BY <1>3, <1>4, <1>5, <2>3, <2>4, <2>6
<1> QED
  BY <1>3, <1>6, <1>7
-----------------------------------------------------------------------------
\* The first window is empty.
LEMMA EmptyRing ==
    ASSUME buf = [i \in Slot |-> 0], head = 0, count = 0, sum = 0
    PROVE  FilterInv /\ Samples = <<>>
<1>1. RingOfSamples
  BY FilterAssumption DEF RingOfSamples, Slot
<1>2. Samples = <<>>
  BY <1>1, SamplesAreSequence, EmptySeq
<1> QED
  BY <1>1, <1>2, TotalOfNothing DEF FilterInv

\* The same in the next state.
LEMMA EmptyRingNext ==
    (buf = [i \in Slot |-> 0] /\ head = 0 /\ count = 0 /\ sum = 0 => FilterInv /\ Samples = <<>>)'
<1>1. buf = [i \in Slot |-> 0] /\ head = 0 /\ count = 0 /\ sum = 0
        => FilterInv /\ Samples = <<>>
  BY EmptyRing
<1> QED
  BY <1>1, PTL

LEMMA FilterInitially == FilterInit => FilterInv /\ Window!WindowInit
  BY EmptyRing DEF FilterInit, Window!WindowInit, Samples

\* Every step slides the window or empties it.
LEMMA FilterStep ==
    FilterInv /\ [FilterNext]_maVars
      => /\ FilterInv'
         /\ [(\E x \in Inputs : Window!Slide(x)) \/ Window!Empty]_(Window!windowVars)
<1> SUFFICES ASSUME FilterInv, [FilterNext]_maVars
             PROVE  /\ FilterInv'
                    /\ [(\E x \in Inputs : Window!Slide(x)) \/ Window!Empty]_(Window!windowVars)
  OBVIOUS
<1>1. CASE MaInit
  <2>1. FilterInv' /\ Samples' = <<>>
    BY <1>1, EmptyRingNext DEF MaInit
  <2>2. Window!Empty
    BY <1>1, <2>1 DEF MaInit, Window!Empty, Samples
  <2> QED
    BY <2>1, <2>2
<1>2. ASSUME NEW x \in Inputs, MaUpdate(x)
      PROVE  FilterInv' /\ Window!Slide(x)
  <2>1. x \in Int
    BY FilterAssumption
  <2>2. RingOfSamples' /\ Samples' = Slid(x)
    BY <1>2, <2>1, UpdateSlides DEF FilterInv
  <2>3. sum' = Window!Total(Samples') /\ sum' \in Int
    BY <1>2, <2>1, SumFollows
  <2>4. FilterInv'
    BY <2>2, <2>3 DEF FilterInv
  <2>5. Len(Samples) = count /\ Len(Samples') = count'
    BY <2>2, SamplesAreSequence, SamplesAreSequenceNext DEF FilterInv
  <2>6. Samples' = Append(IF Len(Samples) < MA_FILTER_SIZE THEN Samples ELSE Tail(Samples), x)
    BY <2>2, <2>5 DEF Slid
  <2>7. out_avg' = Window!Mean(Samples')
    BY <1>2, <2>3, <2>5 DEF MaUpdate, Window!Mean, Quotient
  <2>8. warm' = (Len(Samples') = MA_FILTER_SIZE)
    <3>1. warm' = (count' >= MA_FILTER_SIZE)
      BY <1>2 DEF MaUpdate
    <3>2. (count' >= MA_FILTER_SIZE) <=> (count' = MA_FILTER_SIZE)
      BY <2>2, FilterAssumption DEF RingOfSamples
    <3> QED
      BY <2>5, <3>1, <3>2
  <2>9. Window!Slide(x)
    BY <2>6, <2>7, <2>8 DEF Window!Slide, Samples
  <2> QED
    BY <2>4, <2>9
<1>3. CASE UNCHANGED maVars
  BY <1>3 DEF maVars, FilterInv, RingOfSamples, Samples, Window!windowVars
<1> QED
  BY <1>1, <1>2, <1>3 DEF FilterNext

\* The ring with its running sum is the sliding window that SlidingWindow promises
\* (ma_init, ma_update), for every size and all inputs.
THEOREM FilterIsWindow == FilterSpec => ImplementsWindow
  BY FilterInitially, FilterStep, PTL DEF FilterSpec, ImplementsWindow, Window!WindowSpec
-----------------------------------------------------------------------------
(* Sensors *)

\* q is n divided by 65535 and rounded down.
IsShare(q, n) == q \in Nat /\ 65535 * q <= n /\ n < 65535 * q + 65535

LEMMA Share ==
    ASSUME NEW n \in Nat
    PROVE  IsShare(n \div 65535, n)
<1>1. n \div 65535 \in Nat
  BY SMT
<1>2. 65535 * (n \div 65535) <= n
  BY SMT
<1>3. n < 65535 * (n \div 65535) + 65535
  BY SMT
<1> QED
  BY <1>1, <1>2, <1>3, SMT DEF IsShare

LEMMA RestOfShare ==
    ASSUME NEW n \in Nat, NEW q, IsShare(q, n)
    PROVE  Remainder(n - 65535 * q)
<1>1. q \in Nat
  BY SMT DEF IsShare
<1>2. 0 <= n - 65535 * q
  BY <1>1, SMT DEF IsShare
<1>3. n - 65535 * q < 65535
  BY <1>1, SMT DEF IsShare
<1> QED
  BY <1>2, <1>3, SMT DEF Remainder

\* The range of the controller in words.
WordInRange(n) == n >= 500 * 65535 /\ n < 13001 * 65535

LEMMA ShareInRange ==
    ASSUME NEW n \in Nat, NEW q, IsShare(q, n)
    PROVE  q >= 500 /\ q <= 13000 <=> WordInRange(n)
<1>0. q \in Nat
  BY SMT DEF IsShare
<1>1. q >= 500 => n >= 500 * 65535
  BY <1>0, SMT DEF IsShare
<1>2. n >= 500 * 65535 => q >= 500
  BY <1>0, SMT DEF IsShare
<1>3. q <= 13000 => n < 13001 * 65535
  BY <1>0, SMT DEF IsShare
<1>4. n < 13001 * 65535 => q <= 13000
  BY <1>0, SMT DEF IsShare
<1> QED
  BY <1>1, <1>2, <1>3, <1>4, SMT DEF WordInRange

TemperatureIsExact(st, t) == Remainder(17500 * st - 65535 * (t + 4500))
HumidityIsExact(srh, rh)  == Remainder(10000 * srh - 65535 * rh)

LEMMA TemperatureConversion ==
    ASSUME NEW st, Word(st)
    PROVE  /\ TempCd(st) \in Int
           /\ TempCd(st) \in TEMP_CD_MIN .. TEMP_CD_MAX <=> WithinRange(st)
           /\ TemperatureIsExact(st, TempCd(st))
<1> DEFINE n == 17500 * st
           q == n \div 65535
           t == TempCd(st)
<1>1. n \in Nat
  BY SMT DEF Word
<1>2. t = -4500 + q
  BY SMT DEF TempCd
<1>3. WithinRange(st) <=> WordInRange(n)
  BY SMT DEF WithinRange, WordInRange
<1>4. TemperatureIsExact(st, t) <=> Remainder(n - 65535 * (t + 4500))
  BY SMT DEF TemperatureIsExact
<1> HIDE DEF n, t
<1>5. IsShare(q, n)
  BY <1>1, Share, SMT
<1> HIDE DEF q
<1>6. q \in Nat
  BY <1>5, SMT DEF IsShare
<1>7. t \in Int
  BY <1>2, <1>6, SMT
<1>8. t + 4500 = q
  BY <1>2, <1>6, SMT
<1>9. Remainder(n - 65535 * q)
  BY <1>1, <1>5, RestOfShare, SMT
<1>10. TemperatureIsExact(st, t)
  BY <1>4, <1>8, <1>9, SMT
<1>11. t \in TEMP_CD_MIN .. TEMP_CD_MAX <=> q >= 500 /\ q <= 13000
  <2>1. t >= -4000 <=> q >= 500
    BY <1>6, <1>7, <1>8, SMT
  <2>2. t <= 8500 <=> q <= 13000
    BY <1>6, <1>7, <1>8, SMT
  <2>3. t \in TEMP_CD_MIN .. TEMP_CD_MAX <=> t >= -4000 /\ t <= 8500
    BY <1>7, SMT DEF TEMP_CD_MIN, TEMP_CD_MAX
  <2> QED
    BY <2>1, <2>2, <2>3, SMT
<1>12. q >= 500 /\ q <= 13000 <=> WordInRange(n)
  BY <1>1, <1>5, ShareInRange, SMT
<1>13. t \in TEMP_CD_MIN .. TEMP_CD_MAX <=> WithinRange(st)
  BY <1>3, <1>11, <1>12, SMT
<1> QED
  BY <1>7, <1>10, <1>13, Zenon DEF t

LEMMA HumidityConversion ==
    ASSUME NEW srh, Word(srh)
    PROVE  /\ RhCp(srh) \in Nat
           /\ ~ (RhCp(srh) > RH_CP_MAX)
           /\ HumidityIsExact(srh, RhCp(srh))
<1> DEFINE n == 10000 * srh
           q == n \div 65535
           rh == RhCp(srh)
<1>1. n \in Nat
  BY SMT DEF Word
<1>2. n <= 10000 * 65535
  BY SMT DEF Word
<1>3. rh = q
  BY SMT DEF RhCp
<1>4. HumidityIsExact(srh, rh) <=> Remainder(n - 65535 * rh)
  BY SMT DEF HumidityIsExact
<1> HIDE DEF n, rh
<1>5. IsShare(q, n)
  BY <1>1, Share, SMT
<1> HIDE DEF q
<1>6. q \in Nat
  BY <1>5, SMT DEF IsShare
<1>7. Remainder(n - 65535 * q)
  BY <1>1, <1>5, RestOfShare, SMT
<1>8. ~ (q > RH_CP_MAX)
  BY <1>1, <1>2, <1>5, <1>6, SMT DEF RH_CP_MAX, IsShare
<1>9. rh \in Nat /\ ~ (rh > RH_CP_MAX)
  BY <1>3, <1>6, <1>8, Zenon
<1>10. HumidityIsExact(srh, rh)
  BY <1>3, <1>4, <1>7, SMT
<1> QED
  BY <1>9, <1>10, Zenon DEF rh

SensorInv == step \in Nat /\ OnlyGoodDataIsAccepted

\* What the SHT31 delivers, whatever its words and the bus.
LEMMA Sht31Step ==
    ReadSht31 => OnlyGoodDataIsAccepted'
<1>0. SUFFICES ASSUME ReadSht31 PROVE OnlyGoodDataIsAccepted'
  OBVIOUS
<1>1. PICK bus \in {"works", "refuses", "breaks_off"}, st \in RawTemps, srh \in RawHumidities :
        measured' = [bus |-> bus, st |-> st, srh |-> srh]
  BY <1>0, Zenon DEF ReadSht31
<1>2. Word(st) /\ Word(srh)
  BY SensorAssumption, Zenon
<1>3. /\ measured'.bus = bus /\ measured'.st = st /\ measured'.srh = srh
      /\ sensor' = "sht31"
  BY <1>0, <1>1, SMT DEF ReadSht31
<1>4. sample' = Taken(Sht31ReadSample(measured'))
  BY <1>0, Zenon DEF ReadSht31
<1>5. Good(measured)' <=> bus = "works" /\ WithinRange(st)
  BY <1>3, Zenon DEF Good
<1>6. /\ TempCd(st) \in Int
      /\ TempCd(st) \in TEMP_CD_MIN .. TEMP_CD_MAX <=> WithinRange(st)
      /\ TemperatureIsExact(st, TempCd(st))
  BY <1>2, TemperatureConversion, Zenon
<1>7. RhCp(srh) \in Nat /\ ~ (RhCp(srh) > RH_CP_MAX) /\ HumidityIsExact(srh, RhCp(srh))
  BY <1>2, HumidityConversion, Zenon
<1>8. CASE bus = "works" /\ WithinRange(st)
  <2>1. Sht31ReadSample(measured') = Delivered(TempCd(st), RhCp(srh))
    BY <1>3, <1>6, <1>7, <1>8, Zenon DEF Sht31ReadSample, Sht31Converted
  <2>2. sample' = [quality |-> "VALID", temp_cd |-> TempCd(st), rh_cp |-> RhCp(srh)]
    BY <1>4, <2>1, SMT DEF Taken, Delivered
  <2>3. sample'.quality = "VALID" /\ sample'.temp_cd = TempCd(st) /\ sample'.rh_cp = RhCp(srh)
    BY <2>2, SMT
  <2>4. RhCp(srh) <= RH_CP_MAX
    BY <1>7, SMT DEF RH_CP_MAX
  <2>5. SampleIsValid(sample)'
    BY <1>6, <1>8, <2>3, <2>4, Zenon DEF SampleIsValid
  <2>6. /\ TemperatureIsExact(measured'.st, sample'.temp_cd)
        /\ HumidityIsExact(measured'.srh, sample'.rh_cp)
    BY <1>3, <1>6, <1>7, <2>3, Zenon
  <2>7. Exact(measured', sample')
    BY <2>6, SMT DEF Exact, TemperatureIsExact, HumidityIsExact
  <2> QED
    BY <1>3, <1>5, <1>8, <2>5, <2>7, Zenon DEF OnlyGoodDataIsAccepted
<1>9. CASE ~ (bus = "works" /\ WithinRange(st))
  <2>1. \E q \in {"FAULT", "INVALID"}, e \in {"ERR_COMM", "ERR_OUT_OF_RANGE"} :
          Sht31ReadSample(measured') = Failed(q, e)
    BY <1>3, <1>6, <1>9, Zenon DEF Sht31ReadSample, Sht31Converted
  <2>2. sample'.quality = "INVALID"
    BY <1>4, <2>1, SMT DEF Taken, Failed, Blank
  <2>3. ~ SampleIsValid(sample)'
    BY <2>2, SMT DEF SampleIsValid
  <2> QED
    BY <1>5, <1>9, <2>3, Zenon DEF OnlyGoodDataIsAccepted
<1> QED
  BY <1>8, <1>9, Zenon

LEMMA StubStep ==
    step \in Nat /\ ReadStub => OnlyGoodDataIsAccepted'
<1> SUFFICES ASSUME step \in Nat, ReadStub PROVE OnlyGoodDataIsAccepted'
  OBVIOUS
<1> DEFINE n == (step * 7) % STEP_MOD
           t == 2250 + (n % 21) - 10
<1>0. n \in Nat
  BY SMT, SensorAssumption
<1>1. t \in 2200 .. 2300
  <2> HIDE DEF n
  <2> QED
    BY <1>0, SMT
<1>2. sample' = [quality |-> "VALID", temp_cd |-> t, rh_cp |-> 6500] /\ sensor' = "stub"
  BY DEF ReadStub, Taken, StubSensorRead, Delivered
<1> HIDE DEF t
<1>3. SampleIsValid(sample)' /\ Good(measured)'
  BY <1>1, <1>2 DEF SampleIsValid, Good, TEMP_CD_MIN, TEMP_CD_MAX, RH_CP_MAX
<1> QED
  BY <1>1, <1>2, <1>3 DEF OnlyGoodDataIsAccepted

LEMMA MockStep ==
    step \in Nat /\ ReadMock => OnlyGoodDataIsAccepted'
<1> SUFFICES ASSUME step \in Nat, ReadMock PROVE OnlyGoodDataIsAccepted'
  OBVIOUS
<1>1. PICK jitter \in -50 .. 50 : sample' = Taken(MockSensorRead(step, jitter))
  BY DEF ReadMock
<1> DEFINE t == 2250 + jitter
<1>2. t \in 2200 .. 2300
  OBVIOUS
<1>3. /\ measured' = [step |-> step] /\ measured'.step = step /\ sensor' = "mock"
      /\ Good(measured)' <=> step \notin 20 .. 24
  BY DEF ReadMock, Good
<1>4. sample' = [quality |-> IF step \in 20 .. 24 THEN "INVALID" ELSE "VALID",
                 temp_cd |-> t, rh_cp |-> 6500]
  BY <1>1 DEF Taken, MockSensorRead, Delivered
<1> HIDE DEF t
<1>5. SampleIsValid(sample)' <=> step \notin 20 .. 24
  BY <1>2, <1>4 DEF SampleIsValid, TEMP_CD_MIN, TEMP_CD_MAX, RH_CP_MAX
<1> QED
  BY <1>2, <1>3, <1>4, <1>5 DEF OnlyGoodDataIsAccepted

\* The controller accepts a sample exactly if the sensor was read completely and what it
\* measured is in range, and then it is what was measured: for every word the SHT31 can
\* deliver and every number of reads (sht31_read_sample, stub_sensor_read,
\* mock_sensor_read, app_task, sample_is_valid).
THEOREM GoodDataOnly == SensorSpec => []OnlyGoodDataIsAccepted
<1>1. SensorInit => SensorInv
  BY DEF SensorInit, SensorInv, OnlyGoodDataIsAccepted
<1>2. SensorInv /\ [SensorNext]_sensorVars => SensorInv'
  <2> SUFFICES ASSUME SensorInv, [SensorNext]_sensorVars PROVE SensorInv'
    OBVIOUS
  <2>1. CASE ReadSht31
    BY <2>1, Sht31Step DEF SensorInv, ReadSht31
  <2>2. ASSUME step' = (step + 1) % STEP_MOD PROVE step' \in Nat
    BY <2>2, SensorAssumption DEF SensorInv
  <2>3. CASE ReadStub
    BY <2>2, <2>3, StubStep DEF SensorInv, ReadStub
  <2>4. CASE ReadMock
    BY <2>2, <2>4, MockStep DEF SensorInv, ReadMock
  <2>5. CASE Forget
    BY <2>5 DEF Forget, SensorInv, OnlyGoodDataIsAccepted
  <2>6. CASE UNCHANGED sensorVars
    <3>1. sensor' = sensor /\ step' = step /\ measured' = measured /\ sample' = sample
      BY <2>6, Zenon DEF sensorVars
    <3>2. Good(measured)' <=> Good(measured)
      BY <3>1, SMT DEF Good
    <3>3. Exact(measured', sample') <=> Exact(measured, sample)
      BY <3>1, Zenon
    <3>4. SampleIsValid(sample') <=> SampleIsValid(sample)
      BY <3>1, Zenon
    <3>5. ASSUME measured' # Nothing
          PROVE  /\ SampleIsValid(sample') <=> Good(measured)'
                 /\ SampleIsValid(sample') /\ sensor' = "sht31" => Exact(measured', sample')
                 /\ SampleIsValid(sample') /\ sensor' # "sht31" =>
                      sample'.temp_cd \in 2200 .. 2300 /\ sample'.rh_cp = 6500
      <4>1. measured # Nothing
        BY <3>1, <3>5
      <4>2. SampleIsValid(sample') <=> Good(measured)'
        <5>1. SampleIsValid(sample) <=> Good(measured)
          BY <4>1 DEF SensorInv, OnlyGoodDataIsAccepted
        <5> QED
          BY <3>2, <3>4, <5>1
      <4>3. SampleIsValid(sample') /\ sensor' = "sht31" => Exact(measured', sample')
        BY <3>1, <3>3, <3>4, <4>1, Zenon DEF SensorInv, OnlyGoodDataIsAccepted
      <4>4. SampleIsValid(sample') /\ sensor' # "sht31" =>
              sample'.temp_cd \in 2200 .. 2300 /\ sample'.rh_cp = 6500
        BY <3>1, <3>4, <4>1, SMT DEF SensorInv, OnlyGoodDataIsAccepted
      <4> QED
        BY <4>2, <4>3, <4>4
    <3>6. OnlyGoodDataIsAccepted'
      BY <3>5, Zenon DEF OnlyGoodDataIsAccepted
    <3>7. step' \in Nat
      BY <3>1 DEF SensorInv
    <3> QED
      BY <3>6, <3>7 DEF SensorInv
  <2> QED
    BY <2>1, <2>3, <2>4, <2>5, <2>6 DEF SensorNext
<1>3. SensorInv => OnlyGoodDataIsAccepted
  BY DEF SensorInv
<1> QED
  BY <1>1, <1>2, <1>3, PTL DEF SensorSpec
-----------------------------------------------------------------------------
(* Dew point *)

\* Rounding to the nearest, halves away from zero.
LEMMA RoundingBounds ==
    ASSUME NEW n \in Int, NEW d \in Nat \ {0}
    PROVE  LET r == DivRoundPosDen(n, d)
           IN  /\ r \in Int
               /\ n >= 0 => 0 <= r /\ 2 * (r * d) <= 2 * n + d /\ 2 * n + d < 2 * (r * d) + 2 * d
               /\ n < 0  => r <= 0 /\ 2 * (r * d) >= 2 * n - d /\ 2 * n - d > 2 * (r * d) - 2 * d
<1> DEFINE h == d \div 2
           Down(m) == (m + h) \div d
<1>1. h \in Nat /\ 2 * h <= d /\ d <= 2 * h + 1
  OBVIOUS
<1>2. ASSUME NEW m \in Nat
      PROVE  /\ Down(m) \in Nat /\ Quotient(m + h, d) = Down(m)
             /\ 2 * (Down(m) * d) <= 2 * m + d /\ 2 * m + d < 2 * (Down(m) * d) + 2 * d
  <2> DEFINE q == Down(m)
  <2>1. m + h \in Nat
    BY <1>1
  <2> DEFINE w == m + h
  <2> HIDE DEF h
  <2>2. q \in Nat /\ d * q <= m + h /\ m + h < d * q + d
    <3> HIDE DEF w
    <3>1. ASSUME NEW k \in Nat
          PROVE  k \div d \in Nat /\ d * (k \div d) <= k /\ k < d * (k \div d) + d
      OBVIOUS
    <3> QED
      BY <2>1, <3>1 DEF w
  <2>3. Quotient(m + h, d) = q
    <3>1. w \in Nat /\ q = w \div d /\ Quotient(m + h, d) = Quotient(w, d)
      BY <2>1
    <3> HIDE DEF w, q
    <3> QED
      BY <3>1 DEF Quotient
  <2> HIDE DEF q
  <2>4. q * d = d * q /\ q * d \in Int
    BY <2>2
  <2>5. 2 * (q * d) <= 2 * m + d /\ 2 * m + d < 2 * (q * d) + 2 * d
    BY <1>1, <2>2, <2>4
  <2> QED
    BY <2>2, <2>3, <2>5 DEF q
<1> DEFINE r == DivRoundPosDen(n, d)
<1> HIDE DEF Down, h
<1>3. CASE n >= 0
  <2>1. r = Down(n)
    BY <1>2, <1>3 DEF DivRoundPosDen, h
  <2> QED
    BY <1>2, <1>3, <2>1
<1>4. CASE n < 0
  <2> DEFINE q == Down(-n)
  <2>1. -n \in Nat
    BY <1>4
  <2>2. q \in Nat /\ 2 * (q * d) <= 2 * (-n) + d /\ 2 * (-n) + d < 2 * (q * d) + 2 * d
    BY <1>2, <2>1
  <2>3. r = -q
    BY <1>2, <1>4, <2>1 DEF DivRoundPosDen, h
  <2> HIDE DEF q
  <2>4. (-q) * d = -(q * d) /\ q * d \in Int
    BY <2>2
  <2>5. /\ -q \in Int /\ -q <= 0
        /\ 2 * ((-q) * d) >= 2 * n - d /\ 2 * n - d > 2 * ((-q) * d) - 2 * d
    BY <2>2, <2>4
  <2> QED
    BY <1>4, <2>3, <2>5
<1> QED
  BY <1>3, <1>4

\* Multiplying an inequality.
LEMMA TimesPositive ==
    ASSUME NEW x \in Int, NEW y \in Int, NEW d \in Nat \ {0}
    PROVE  /\ x <= y => x * d <= y * d
           /\ x < y => x * d < y * d
           /\ x * d \in Int /\ y * d \in Int
  OBVIOUS

\* A rounded quotient follows the exact one.
LEMMA RoundingIsMonotone ==
    ASSUME NEW n1 \in Int, NEW d1 \in Nat \ {0}, NEW n2 \in Int, NEW d2 \in Nat \ {0},
           n1 * d2 <= n2 * d1
    PROVE  DivRoundPosDen(n1, d1) <= DivRoundPosDen(n2, d2)
<1> DEFINE r1 == DivRoundPosDen(n1, d1)
           r2 == DivRoundPosDen(n2, d2)
           a  == 2 * r1 - 1
<1>1. /\ r1 \in Int
      /\ n1 >= 0 => 0 <= r1 /\ 2 * (r1 * d1) <= 2 * n1 + d1
      /\ n1 < 0 => r1 <= 0 /\ 2 * n1 - d1 > 2 * (r1 * d1) - 2 * d1
  BY RoundingBounds
<1>2. /\ r2 \in Int
      /\ n2 >= 0 => 0 <= r2 /\ 2 * n2 + d2 < 2 * (r2 * d2) + 2 * d2
      /\ n2 < 0 => r2 <= 0 /\ 2 * (r2 * d2) >= 2 * n2 - d2
  BY RoundingBounds
<1> HIDE DEF r1, r2
<1> SUFFICES ASSUME r1 >= r2 + 1 PROVE FALSE
  BY <1>1, <1>2 DEF r1, r2
<1>3. /\ a \in Int /\ a * d1 \in Int /\ a * d2 \in Int
      /\ a * d1 = 2 * (r1 * d1) - d1
      /\ a * d2 = 2 * (r1 * d2) - d2
      /\ r1 * d2 >= r2 * d2 + d2
  <2>1. (r2 + 1) * d2 <= r1 * d2
    BY <1>1, <1>2, TimesPositive
  <2> QED
    BY <1>1, <1>2, <2>1
<1> HIDE DEF a
<1>4. /\ (a * d1) * d2 = (a * d2) * d1
      /\ (2 * n1) * d2 = 2 * (n1 * d2) /\ (2 * n2) * d1 = 2 * (n2 * d1)
      /\ n1 * d2 \in Int /\ n2 * d1 \in Int
  BY <1>3
<1>5. n1 >= 0 /\ n2 < 0 => FALSE
  <2> SUFFICES ASSUME n1 >= 0, n2 < 0 PROVE FALSE
    OBVIOUS
  <2>1. n2 * d1 < 0 * d1 /\ 0 * d2 <= n1 * d2
    BY TimesPositive
  <2> QED
    BY <1>4, <2>1
<1>6. CASE n1 >= 0 /\ n2 >= 0
  <2>1. a * d1 <= 2 * n1 /\ 2 * n2 < a * d2
    BY <1>1, <1>2, <1>3, <1>6
  <2>2. (a * d1) * d2 <= (2 * n1) * d2 /\ (2 * n2) * d1 < (a * d2) * d1
    BY <1>3, <2>1, TimesPositive
  <2> QED
    BY <1>3, <1>4, <2>2
<1>7. CASE n1 < 0 /\ n2 < 0
  <2>1. a * d1 < 2 * n1 /\ 2 * n2 <= a * d2
    BY <1>1, <1>2, <1>3, <1>7
  <2>2. (a * d1) * d2 < (2 * n1) * d2 /\ (2 * n2) * d1 <= (a * d2) * d1
    BY <1>3, <2>1, TimesPositive
  <2> QED
    BY <1>3, <1>4, <2>2
<1>8. CASE n1 < 0 /\ n2 >= 0
  BY <1>1, <1>2, <1>8
<1> QED
  BY <1>5, <1>6, <1>7, <1>8
-----------------------------------------------------------------------------
(* The arithmetic of the interpolation, on numbers of the size of the table's. *)

\* What may be looked up.
Wheres == {v \in Int : 100 <= v /\ v <= 10000}

LEMMA Hundreds ==
    ASSUME NEW l \in Wheres
    PROVE  /\ l \div 100 \in 1 .. 100 /\ l % 100 \in 0 .. 99
           /\ l = 100 * (l \div 100) + (l % 100)
<1>1. l \div 100 \in 1 .. 100
  BY SMT DEF Wheres
<1>2. l % 100 \in 0 .. 99
  BY SMT DEF Wheres
<1>3. l = 100 * (l \div 100) + (l % 100)
  BY SMT DEF Wheres
<1> QED
  BY <1>1, <1>2, <1>3

LEMMA HundredsGrow ==
    ASSUME NEW l1 \in Wheres, NEW l2 \in Wheres, l1 <= l2
    PROVE  /\ l1 \div 100 <= l2 \div 100
           /\ l1 \div 100 = l2 \div 100 => l1 % 100 <= l2 % 100
           /\ l1 \div 100 # l2 \div 100 => l1 \div 100 + 1 <= l2 \div 100
<1>1. /\ l1 = 100 * (l1 \div 100) + (l1 % 100) /\ l2 = 100 * (l2 \div 100) + (l2 % 100)
      /\ l1 \div 100 \in 1 .. 100 /\ l2 \div 100 \in 1 .. 100
      /\ l1 % 100 \in 0 .. 99 /\ l2 % 100 \in 0 .. 99
  BY Hundreds
<1> DEFINE p1 == l1 \div 100
           p2 == l2 \div 100
           f1 == l1 % 100
           f2 == l2 % 100
<1> HIDE DEF p1, p2, f1, f2
<1>2. /\ l1 = 100 * p1 + f1 /\ l2 = 100 * p2 + f2
      /\ p1 \in 1 .. 100 /\ p2 \in 1 .. 100 /\ f1 \in 0 .. 99 /\ f2 \in 0 .. 99
  BY <1>1 DEF p1, p2, f1, f2
<1>3. p1 <= p2
  BY <1>2
<1>4. p1 = p2 => f1 <= f2
  BY <1>2
<1>5. p1 # p2 => p1 + 1 <= p2
  BY <1>2
<1> QED
  BY <1>3, <1>4, <1>5 DEF p1, p2, f1, f2

Between(a, b, f) == b + Quotient((a - b) * f, 100)

LEMMA BetweenIsBetween ==
    ASSUME NEW a \in Logarithms, NEW b \in Logarithms, b <= a, NEW f \in 0 .. 99
    PROVE  /\ Between(a, b, f) \in Logarithms
           /\ b <= Between(a, b, f)
           /\ Between(a, b, f) <= a
<1> DEFINE y == a - b
           x == y * f
           q == x \div 100
<1>1. y \in Nat
  BY SMT DEF Logarithms
<1> HIDE DEF y
<1>2. x \in Nat /\ x <= 99 * y
  BY <1>1
<1> HIDE DEF x
<1>4. q \in Nat
  BY <1>2
<1>5. q <= y
  BY <1>1, <1>2
<1>6. Quotient(x, 100) = q
  BY <1>2 DEF Quotient
<1> HIDE DEF q
<1> DEFINE z == b + q
<1>8. z \in Int /\ b <= z
  BY <1>1, <1>4, <1>5, SMT DEF Logarithms
<1>9. z <= a
  BY <1>1, <1>4, <1>5, SMT DEF y, Logarithms
<1>7. z \in Logarithms
  <2>1. a \in Int /\ a <= 0 /\ b \in Int /\ -9431 <= b
    BY SMT DEF Logarithms
  <2> HIDE DEF z
  <2>2. -9431 <= z /\ z <= 0
    BY <2>1, <1>8, <1>9, SMT
  <2> QED
    BY <2>2, <1>8, SMT DEF Logarithms
<1>10. Between(a, b, f) = z
  BY <1>6 DEF Between, x, y
<1> HIDE DEF z
<1> QED
  BY <1>7, <1>8, <1>9, <1>10, Zenon

LEMMA BetweenIsMonotone ==
    ASSUME NEW a \in Logarithms, NEW b \in Logarithms, b <= a,
           NEW f1 \in 0 .. 99, NEW f2 \in 0 .. 99, f1 <= f2
    PROVE  Between(a, b, f1) <= Between(a, b, f2)
<1> DEFINE y  == a - b
           x1 == y * f1
           x2 == y * f2
<1>1. y \in Nat
  BY SMT DEF Logarithms
<1> HIDE DEF y
<1>2. x1 \in Nat /\ x2 \in Nat
  BY <1>1
<1>3. x1 <= x2
  BY <1>1
<1> HIDE DEF x1, x2
<1>4. x1 \div 100 <= x2 \div 100
  BY <1>2, <1>3
<1>5. Quotient(x1, 100) = x1 \div 100 /\ Quotient(x2, 100) = x2 \div 100
  BY <1>2 DEF Quotient
<1>6. b + (x1 \div 100) <= b + (x2 \div 100)
  BY <1>2, <1>4, SMT DEF Logarithms
<1> QED
  BY <1>5, <1>6 DEF Between, x1, x2, y

LEMMA AtMostTransitive ==
    ASSUME NEW x \in Int, NEW y \in Int, NEW z \in Int, NEW w \in Int, x <= y, y <= z, z <= w
    PROVE  x <= w
  OBVIOUS
-----------------------------------------------------------------------------
Degrees    == TEMP_CD_MIN .. TEMP_CD_MAX
Humidity == 0 .. RH_CP_MAX

\* The humidity that is looked up, and the two entries it lies between.
Looked(rh)  == IF rh < 100 THEN 100 ELSE rh
Percent(rh) == Looked(rh) \div 100
Below(rh)   == dewpoint_ln_rh_q10[Percent(rh)]
Above(rh)   == IF Percent(rh) < 100 THEN dewpoint_ln_rh_q10[Percent(rh) + 1] ELSE Below(rh)

LEMMA Table ==
    /\ \A p \in 0 .. 100 : dewpoint_ln_rh_q10[p] \in Logarithms
    /\ \A p, q \in 0 .. 100 : p <= q => dewpoint_ln_rh_q10[p] <= dewpoint_ln_rh_q10[q]
    /\ dewpoint_ln_rh_q10[100] = 0
  BY DewPointAssumption, Zenon

LEMMA EntryOf ==
    ASSUME NEW p \in 1 .. 100
    PROVE  LET above == IF p < 100 THEN dewpoint_ln_rh_q10[p + 1] ELSE dewpoint_ln_rh_q10[p]
           IN  /\ dewpoint_ln_rh_q10[p] \in Logarithms
               /\ above \in Logarithms
               /\ dewpoint_ln_rh_q10[p] <= above
<1>1. p \in 0 .. 100 /\ dewpoint_ln_rh_q10[p] \in Logarithms
  <2>1. p \in 0 .. 100
    OBVIOUS
  <2> QED
    BY <2>1, Table, Zenon
<1>2. CASE p < 100
  <2>1. p + 1 \in 0 .. 100 /\ p <= p + 1
    BY <1>2
  <2>2. /\ dewpoint_ln_rh_q10[p + 1] \in Logarithms
        /\ dewpoint_ln_rh_q10[p] <= dewpoint_ln_rh_q10[p + 1]
    BY <1>1, <2>1, Table, Zenon
  <2> QED
    BY <1>1, <1>2, <2>2, Zenon
<1>3. CASE ~(p < 100)
  <2> DEFINE e == dewpoint_ln_rh_q10[p]
  <2> HIDE DEF e
  <2>1. e \in Logarithms
    BY <1>1 DEF e
  <2>2. e <= e
    BY <2>1, SMT DEF Logarithms
  <2> QED
    BY <1>1, <1>3, <2>2, Zenon DEF e
<1> QED
  BY <1>2, <1>3

Entry(l) ==
    LET percent == l \div 100
        y0      == dewpoint_ln_rh_q10[percent]
        y1      == IF percent < 100 THEN dewpoint_ln_rh_q10[percent + 1] ELSE y0
    IN  Between(y1, y0, l % 100)

LEMMA LookedUp ==
    ASSUME NEW rh \in Humidity
    PROVE  /\ Looked(rh) \in Wheres
           /\ Percent(rh) \in 1 .. 100 /\ Looked(rh) % 100 \in 0 .. 99
           /\ Below(rh) \in Logarithms /\ Above(rh) \in Logarithms /\ Below(rh) <= Above(rh)
           /\ LnRhQ10(rh) = Between(Above(rh), Below(rh), Looked(rh) % 100)
<1>1. Looked(rh) \in Wheres
  BY SMT DEF Humidity, RH_CP_MAX, Looked, Wheres
<1>2. Percent(rh) \in 1 .. 100 /\ Looked(rh) % 100 \in 0 .. 99
  BY <1>1, Hundreds, Zenon DEF Percent
<1>3. Below(rh) \in Logarithms /\ Above(rh) \in Logarithms /\ Below(rh) <= Above(rh)
  BY <1>2, EntryOf, Zenon DEF Below, Above
<1>4. LnRhQ10(rh) = Between(Above(rh), Below(rh), Looked(rh) % 100)
  <2>1. (IF rh < 100 THEN 100 ELSE IF rh > RH_CP_MAX THEN RH_CP_MAX ELSE rh) = Looked(rh)
    BY SMT DEF Humidity, RH_CP_MAX, Looked
  <2>2. LnRhQ10(rh) = Entry(IF rh < 100 THEN 100 ELSE IF rh > RH_CP_MAX THEN RH_CP_MAX ELSE rh)
    BY Zenon DEF LnRhQ10, Entry, Between
  <2>3. Entry(Looked(rh)) = Between(Above(rh), Below(rh), Looked(rh) % 100)
    BY Zenon DEF Entry, Above, Below, Percent
  <2> QED
    BY <2>1, <2>2, <2>3, Zenon
<1> QED
  BY <1>1, <1>2, <1>3, <1>4, Zenon

\* The interpolation stays between its ends.
LEMMA Interpolates ==
    ASSUME NEW rh \in Humidity
    PROVE  /\ LnRhQ10(rh) \in Logarithms
           /\ Below(rh) <= LnRhQ10(rh) /\ LnRhQ10(rh) <= Above(rh)
<1>1. /\ Looked(rh) % 100 \in 0 .. 99
      /\ Below(rh) \in Logarithms /\ Above(rh) \in Logarithms /\ Below(rh) <= Above(rh)
      /\ LnRhQ10(rh) = Between(Above(rh), Below(rh), Looked(rh) % 100)
  BY LookedUp, Zenon
<1> DEFINE a == Above(rh)
           b == Below(rh)
           f == Looked(rh) % 100
           z == LnRhQ10(rh)
<1> HIDE DEF a, b, f, z
<1>2. a \in Logarithms /\ b \in Logarithms /\ b <= a /\ f \in 0 .. 99 /\ z = Between(a, b, f)
  BY <1>1, Zenon DEF a, b, f, z
<1>3. z \in Logarithms /\ b <= z /\ z <= a
  BY <1>2, BetweenIsBetween, Zenon
<1> QED
  BY <1>3, Zenon DEF a, b, z

\* Damper air has no smaller logarithm.
LEMMA LogarithmIsMonotone ==
    ASSUME NEW rh1 \in Humidity, NEW rh2 \in Humidity, rh1 <= rh2
    PROVE  LnRhQ10(rh1) <= LnRhQ10(rh2)
<1>1. Looked(rh1) <= Looked(rh2)
  BY SMT DEF Looked, Humidity, RH_CP_MAX
<1>2. /\ Looked(rh1) \in Wheres /\ Looked(rh2) \in Wheres
      /\ Percent(rh1) \in 1 .. 100 /\ Percent(rh2) \in 1 .. 100
  BY LookedUp, Zenon
<1>3. /\ Percent(rh1) = Percent(rh2) => Looked(rh1) % 100 <= Looked(rh2) % 100
      /\ Percent(rh1) # Percent(rh2) => Percent(rh1) + 1 <= Percent(rh2)
  BY <1>1, <1>2, HundredsGrow, Zenon DEF Percent
<1>4. CASE Percent(rh1) = Percent(rh2)
  <2>1. Below(rh1) = Below(rh2) /\ Above(rh1) = Above(rh2)
    BY <1>4, Zenon DEF Below, Above
  <2> QED
    <3> DEFINE a  == Above(rh1)
               b  == Below(rh1)
               f1 == Looked(rh1) % 100
               f2 == Looked(rh2) % 100
    <3>1. /\ a \in Logarithms /\ b \in Logarithms /\ b <= a
          /\ f1 \in 0 .. 99 /\ f2 \in 0 .. 99 /\ f1 <= f2
          /\ LnRhQ10(rh1) = Between(a, b, f1)
      BY <1>3, <1>4, LookedUp, Zenon
    <3>2. LnRhQ10(rh2) = Between(a, b, f2)
      BY <2>1, LookedUp, Zenon
    <3> HIDE DEF a, b, f1, f2
    <3>3. Between(a, b, f1) <= Between(a, b, f2)
      BY <3>1, BetweenIsMonotone, Zenon
    <3> QED
      BY <3>1, <3>2, <3>3, Zenon
<1>5. CASE Percent(rh1) # Percent(rh2)
  <2> DEFINE p == Percent(rh1)
             q == Percent(rh2)
  <2>1. p \in 1 .. 100 /\ q \in 1 .. 100 /\ p + 1 <= q
    BY <1>2, <1>3, <1>5, Zenon
  <2> HIDE DEF p, q
  <2>2. p < 100 /\ p + 1 \in 0 .. 100 /\ q \in 0 .. 100
    BY <2>1
  <2>3. dewpoint_ln_rh_q10[p + 1] <= dewpoint_ln_rh_q10[q]
    BY <2>1, <2>2, Table, Zenon
  <2>4. Above(rh1) <= Below(rh2)
    BY <2>2, <2>3, Zenon DEF Above, Below, p, q
  <2>5. \A x \in Logarithms : x \in Int
    BY SMT DEF Logarithms
  <2>6. /\ LnRhQ10(rh1) \in Int /\ LnRhQ10(rh2) \in Int
        /\ Above(rh1) \in Int /\ Below(rh2) \in Int
    BY <2>5, Interpolates, LookedUp, Zenon
  <2> QED
    BY <2>4, <2>6, Interpolates, AtMostTransitive, Zenon
<1> QED
  BY <1>4, <1>5

\* Saturated air has the logarithm 0.
LEMMA LogarithmOfSaturation == LnRhQ10(RH_CP_MAX) = 0
<1>1. RH_CP_MAX \in Humidity /\ Percent(RH_CP_MAX) = 100
  <2>1. RH_CP_MAX \in Humidity /\ Looked(RH_CP_MAX) = 10000
    BY SMT DEF Humidity, RH_CP_MAX, Looked
  <2>2. 10000 \div 100 = 100
    BY SMT
  <2>3. Percent(RH_CP_MAX) = Looked(RH_CP_MAX) \div 100
    BY Zenon DEF Percent
  <2> QED
    BY <2>1, <2>2, <2>3, SMT
<1>2. dewpoint_ln_rh_q10[100] = 0 /\ ~(100 < 100)
  <2>1. ~(100 < 100)
    BY SMT
  <2> QED
    BY <2>1, Table, Zenon
<1>3. Below(RH_CP_MAX) = 0 /\ Above(RH_CP_MAX) = 0
  BY <1>1, <1>2, Zenon DEF Below, Above
<1>4. LnRhQ10(RH_CP_MAX) <= 0 /\ 0 <= LnRhQ10(RH_CP_MAX) /\ LnRhQ10(RH_CP_MAX) \in Logarithms
  BY <1>1, <1>3, Interpolates, Zenon
<1> DEFINE z == LnRhQ10(RH_CP_MAX)
<1>5. z <= 0 /\ 0 <= z /\ z \in Logarithms
  BY <1>4
<1> HIDE DEF z
<1>6. z = 0
  BY <1>5, SMT DEF Logarithms
<1> QED
  BY <1>6 DEF z
-----------------------------------------------------------------------------
\* What the intermediate results may be.
Terms        == {v \in Int : -3579 <= v /\ v <= 4658}
Alphas       == {v \in Int : -13010 <= v /\ v <= 4658}
Denominators == {v \in Int : 13026 <= v /\ v <= 30694}

\* The first term of the Magnus formula: its bounds and how far rounding takes it down.
LEMMA TermOne ==
    ASSUME NEW t \in Degrees
    PROVE  /\ Term1(t) \in Terms
           /\ 2 * (Term1(t) * (B_CD + t)) >= 2 * (A_Q10 * t) - (B_CD + t)
<1> DEFINE n == A_Q10 * t
           d == B_CD + t
           r == Term1(t)
<1>1. t \in Int /\ -4000 <= t /\ t <= 8500
  BY SMT DEF Degrees, TEMP_CD_MIN, TEMP_CD_MAX
<1>2. n = 17684 * t /\ n \in Int /\ d = 23770 + t /\ d \in Nat \ {0}
  BY <1>1, SMT DEF A_Q10, B_CD
<1>3. r = DivRoundPosDen(n, d)
  BY Zenon DEF Term1
<1> HIDE DEF n, d, r
<1>4. /\ r \in Int
      /\ n >= 0 => 0 <= r /\ 2 * (r * d) <= 2 * n + d /\ 2 * n + d < 2 * (r * d) + 2 * d
      /\ n < 0 => r <= 0 /\ 2 * (r * d) >= 2 * n - d /\ 2 * n - d > 2 * (r * d) - 2 * d
  <2> DEFINE z == DivRoundPosDen(n, d)
  <2>1. /\ z \in Int
        /\ n >= 0 => 0 <= z /\ 2 * (z * d) <= 2 * n + d /\ 2 * n + d < 2 * (z * d) + 2 * d
        /\ n < 0 => z <= 0 /\ 2 * (z * d) >= 2 * n - d /\ 2 * n - d > 2 * (z * d) - 2 * d
    <3>1. n \in Int /\ d \in Nat \ {0}
      BY <1>2, SMT
    <3> QED
      BY <3>1, RoundingBounds
  <2> QED
    BY <1>3, <2>1, Zenon
<1> DEFINE m == r * d
<1>5. m \in Int
  BY <1>2, <1>4, SMT
<1>6. 2 * m >= 2 * n - d /\ 2 * m <= 2 * n + d
  <2> HIDE DEF m
  <2>1. /\ n >= 0 => 2 * m <= 2 * n + d /\ 2 * n + d < 2 * m + 2 * d
        /\ n < 0 => 2 * m >= 2 * n - d /\ 2 * n - d > 2 * m - 2 * d
    BY <1>4, Zenon DEF m
  <2> QED
    BY <1>2, <1>5, <2>1, SMT
<1>7. r <= 4658
  <2> SUFFICES ASSUME r >= 4659 PROVE FALSE
    BY <1>4, SMT
  <2>1. 4659 * d <= m
    BY <1>2, <1>4, SMT
  <2> HIDE DEF m
  <2> QED
    BY <1>1, <1>2, <1>5, <1>6, <2>1, SMT
<1>8. r >= -3579
  <2> SUFFICES ASSUME r <= -3580 PROVE FALSE
    BY <1>4, SMT
  <2>1. m <= (-3580) * d
    BY <1>2, <1>4, SMT
  <2> HIDE DEF m
  <2> QED
    BY <1>1, <1>2, <1>5, <1>6, <2>1, SMT
<1>9. r \in Terms
  BY <1>4, <1>7, <1>8, SMT DEF Terms
<1> QED
  BY <1>6, <1>9, Zenon DEF n, d, r, m

LEMMA TermOneIsMonotone ==
    ASSUME NEW t1 \in Degrees, NEW t2 \in Degrees, t1 <= t2
    PROVE  Term1(t1) <= Term1(t2)
<1> DEFINE n1 == A_Q10 * t1
           d1 == B_CD + t1
           n2 == A_Q10 * t2
           d2 == B_CD + t2
<1>1. t1 \in Int /\ -4000 <= t1 /\ t2 \in Int /\ -4000 <= t2
  BY SMT DEF Degrees, TEMP_CD_MIN, TEMP_CD_MAX
<1>2. n1 \in Int /\ n2 \in Int /\ d1 \in Nat \ {0} /\ d2 \in Nat \ {0}
  BY <1>1, SMT DEF A_Q10, B_CD
<1>3. n1 * d2 <= n2 * d1
  <2>1. n1 * d2 = 17684 * (23770 * t1) + 17684 * (t1 * t2)
    BY <1>1, SMT DEF A_Q10, B_CD
  <2>2. n2 * d1 = 17684 * (23770 * t2) + 17684 * (t1 * t2)
    BY <1>1, SMT DEF A_Q10, B_CD
  <2>3. t1 * t2 \in Int
    BY <1>1, SMT
  <2> DEFINE u == t1 * t2
  <2> HIDE DEF u
  <2>4. 17684 * (23770 * t1) + 17684 * u <= 17684 * (23770 * t2) + 17684 * u
    BY <1>1, <2>3, SMT DEF u
  <2> QED
    BY <2>1, <2>2, <2>4, SMT DEF u
<1>4. Term1(t1) = DivRoundPosDen(n1, d1) /\ Term1(t2) = DivRoundPosDen(n2, d2)
  BY Zenon DEF Term1
<1> HIDE DEF n1, n2, d1, d2
<1> QED
  BY <1>2, <1>3, <1>4, RoundingIsMonotone, Zenon

\* The logarithm of the vapour pressure's ratio: warmer and damper air has no smaller one.
LEMMA AlphaInRange ==
    ASSUME NEW t \in Degrees, NEW rh \in Humidity
    PROVE  /\ Alpha(t, rh) \in Alphas
           /\ DenomQ10(t, rh) = A_Q10 - Alpha(t, rh)
           /\ DenomQ10(t, rh) \in Denominators
<1> DEFINE x == Term1(t)
           y == LnRhQ10(rh)
           a == Alpha(t, rh)
           d == DenomQ10(t, rh)
<1>1. x \in Terms /\ y \in Logarithms
  BY TermOne, Interpolates, Zenon
<1>2. a = x + y
  BY Zenon DEF Alpha
<1>5. d = A_Q10 - a
  BY Zenon DEF DenomQ10
<1> HIDE DEF x, y, a, d
<1>3. a \in Alphas
  BY <1>1, <1>2, SMT DEF Logarithms, Terms, Alphas
<1>4. d \in Denominators
  <2>1. d = 17684 - a
    BY <1>5, SMT DEF A_Q10
  <2>2. a \in Int /\ -13010 <= a /\ a <= 4658
    BY <1>3, SMT DEF Alphas
  <2>3. d \in Int /\ 13026 <= d /\ d <= 30694
    BY <2>1, <2>2, SMT
  <2> QED
    BY <2>3, SMT DEF Denominators
<1> QED
  BY <1>3, <1>4, <1>5, Zenon DEF a, d

LEMMA AlphaIsMonotone ==
    ASSUME NEW t1 \in Degrees, NEW t2 \in Degrees, NEW rh1 \in Humidity, NEW rh2 \in Humidity,
           t1 <= t2, rh1 <= rh2
    PROVE  Alpha(t1, rh1) <= Alpha(t2, rh2)
<1> DEFINE x1 == Term1(t1)
           x2 == Term1(t2)
           y1 == LnRhQ10(rh1)
           y2 == LnRhQ10(rh2)
<1>1. /\ x1 <= x2 /\ y1 <= y2
      /\ x1 \in Terms /\ x2 \in Terms
      /\ y1 \in Logarithms /\ y2 \in Logarithms
  BY TermOne, TermOneIsMonotone, Interpolates, LogarithmIsMonotone, Zenon
<1> HIDE DEF x1, x2, y1, y2
<1>2. x1 + y1 <= x2 + y2
  BY <1>1, SMT DEF Logarithms, Terms
<1> QED
  BY <1>2, Zenon DEF Alpha, x1, x2, y1, y2
-----------------------------------------------------------------------------
\* The quotient before it is clamped.
Dew(t, rh) == DivRoundPosDen(B_CD * Alpha(t, rh), DenomQ10(t, rh))

LEMMA DewIsMonotone ==
    ASSUME NEW t1 \in Degrees, NEW t2 \in Degrees, NEW rh1 \in Humidity, NEW rh2 \in Humidity,
           t1 <= t2, rh1 <= rh2
    PROVE  Dew(t1, rh1) \in Int /\ Dew(t2, rh2) \in Int /\ Dew(t1, rh1) <= Dew(t2, rh2)
<1> DEFINE a1 == Alpha(t1, rh1)
           a2 == Alpha(t2, rh2)
           n1 == B_CD * a1
           n2 == B_CD * a2
           d1 == DenomQ10(t1, rh1)
           d2 == DenomQ10(t2, rh2)
<1>1. /\ a1 \in Alphas /\ a2 \in Alphas /\ a1 <= a2
      /\ d1 \in Denominators /\ d2 \in Denominators
      /\ d1 = A_Q10 - a1 /\ d2 = A_Q10 - a2
  BY AlphaInRange, AlphaIsMonotone, Zenon
<1> HIDE DEF a1, a2, d1, d2
<1>2. a1 \in Int /\ a2 \in Int /\ d1 \in Nat \ {0} /\ d2 \in Nat \ {0}
  <2>1. a1 \in Int /\ a2 \in Int
    BY <1>1, SMT DEF Alphas
  <2>2. d1 \in Denominators /\ d2 \in Denominators
    BY <1>1, Zenon
  <2>3. d1 \in Nat \ {0} /\ d2 \in Nat \ {0}
    BY <2>2, SMT DEF Denominators
  <2> QED
    BY <2>1, <2>2, <2>3
<1>3. n1 \in Int /\ n2 \in Int
  BY <1>2, SMT DEF B_CD
<1>4. n1 * d2 <= n2 * d1
  <2>1. n1 * d2 = 23770 * (17684 * a1) - 23770 * (a1 * a2)
    BY <1>1, <1>2, SMT DEF A_Q10, B_CD
  <2>2. n2 * d1 = 23770 * (17684 * a2) - 23770 * (a1 * a2)
    BY <1>1, <1>2, SMT DEF A_Q10, B_CD
  <2> DEFINE u == a1 * a2
  <2>3. u \in Int
    BY <1>2, SMT
  <2> HIDE DEF u
  <2>4. 23770 * (17684 * a1) - 23770 * u <= 23770 * (17684 * a2) - 23770 * u
    BY <1>1, <1>2, <2>3, SMT
  <2> QED
    BY <2>1, <2>2, <2>4, SMT DEF u
<1>5. Dew(t1, rh1) = DivRoundPosDen(n1, d1) /\ Dew(t2, rh2) = DivRoundPosDen(n2, d2)
  BY Zenon DEF Dew, a1, a2, d1, d2
<1> HIDE DEF n1, n2
<1> QED
  BY <1>2, <1>3, <1>4, <1>5, RoundingIsMonotone, RoundingBounds, Zenon

\* Saturated air: the temperature, or 0.01 degC below it, or more than the clamp lets through.
LEMMA DewOfSaturation ==
    ASSUME NEW t \in Degrees
    PROVE  Dew(t, RH_CP_MAX) >= t - 1
<1> DEFINE x == Term1(t)
           a == Alpha(t, RH_CP_MAX)
           n == B_CD * a
           d == DenomQ10(t, RH_CP_MAX)
           e == Dew(t, RH_CP_MAX)
<1>1. RH_CP_MAX \in Humidity
  BY SMT DEF Humidity, RH_CP_MAX
<1>0. x \in Terms /\ 2 * (x * (B_CD + t)) >= 2 * (A_Q10 * t) - (B_CD + t)
  BY TermOne, Zenon
<1>2. /\ t \in Int /\ -4000 <= t /\ t <= 8500
  BY SMT DEF Degrees, TEMP_CD_MIN, TEMP_CD_MAX
<1>3. a = x + 0
  BY LogarithmOfSaturation, Zenon DEF Alpha
<1>4. d = A_Q10 - a
  BY Zenon DEF DenomQ10
<1>5. e = DivRoundPosDen(n, d)
  BY Zenon DEF Dew
<1> HIDE DEF x, a, d, e
<1>6. x \in Int /\ x <= 4658 /\ n = 23770 * x /\ d = 17684 - x /\ n \in Int /\ d \in Nat \ {0}
  <2>1. x \in Int /\ x <= 4658
    BY <1>0, SMT DEF Terms
  <2>2. a = x
    BY <1>3, <2>1, SMT
  <2> QED
    BY <1>4, <2>1, <2>2, SMT DEF A_Q10, B_CD
<1> HIDE DEF n
<1>7. /\ e \in Int
      /\ n >= 0 => 2 * (e * d) <= 2 * n + d /\ 2 * n + d < 2 * (e * d) + 2 * d
      /\ n < 0 => 2 * (e * d) >= 2 * n - d /\ 2 * n - d > 2 * (e * d) - 2 * d
  <2> DEFINE z == DivRoundPosDen(n, d)
  <2>1. /\ z \in Int
        /\ n >= 0 => 2 * (z * d) <= 2 * n + d /\ 2 * n + d < 2 * (z * d) + 2 * d
        /\ n < 0 => 2 * (z * d) >= 2 * n - d /\ 2 * n - d > 2 * (z * d) - 2 * d
    BY <1>6, RoundingBounds
  <2> QED
    BY <1>5, <2>1, Zenon
<1> DEFINE m == e * d
           w == x * t
<1>8. m \in Int /\ w \in Int
  BY <1>2, <1>6, <1>7, SMT
<1>9. 2 * m >= 2 * n - d
  <2>1. /\ n >= 0 => 2 * m <= 2 * n + d /\ 2 * n + d < 2 * m + 2 * d
        /\ n < 0 => 2 * m >= 2 * n - d /\ 2 * n - d > 2 * m - 2 * d
    BY <1>7, Zenon
  <2> HIDE DEF m
  <2> QED
    BY <1>6, <1>8, <2>1, SMT
<1>10. 2 * (23770 * x) + 2 * w >= 2 * (17684 * t) - (23770 + t)
  <2>1. x * (B_CD + t) = 23770 * x + w
    BY <1>2, <1>6, SMT DEF B_CD
  <2> HIDE DEF w
  <2>2. 2 * (23770 * x + w) >= 2 * (17684 * t) - (23770 + t)
    BY <1>0, <1>2, <2>1, SMT DEF A_Q10, B_CD
  <2> QED
    BY <1>2, <1>6, <1>8, <2>2, SMT
<1>11. ASSUME e <= t - 2 PROVE FALSE
  <2> DEFINE u == t - 2
  <2>0. u \in Int /\ e <= u
    BY <1>2, <1>11, SMT
  <2> HIDE DEF u
  <2>3. m <= u * d
    <3>1. d \in Nat \ {0} /\ e \in Int
      BY <1>6, <1>7, SMT
    <3> QED
      BY <2>0, <3>1, TimesPositive, Zenon
  <2>1. m <= (t - 2) * d
    BY <2>3, Zenon DEF u
  <2>2. (t - 2) * d = 17684 * t - w - 2 * d
    BY <1>2, <1>6, SMT
  <2> HIDE DEF m, w
  <2> QED
    BY <1>2, <1>6, <1>8, <1>9, <1>10, <2>1, <2>2, SMT
<1>12. e >= t - 1
  BY <1>2, <1>7, <1>11, SMT
<1> QED
  BY <1>12, Zenon DEF e

LEMMA ClampKeepsOrder ==
    ASSUME NEW t1 \in Degrees, NEW t2 \in Degrees, NEW d1 \in Int, NEW d2 \in Int,
           t1 <= t2, d1 <= d2
    PROVE  /\ Clamped(d1, t1) <= Clamped(d2, t2)
           /\ Clamped(d1, t1) <= t1
           /\ d1 >= t1 - 1 => t1 - Clamped(d1, t1) <= 1
<1>1. Clamped(d1, t1) <= Clamped(d2, t2)
  <2> DEFINE LimitedTo(d, t) == IF d > t THEN t ELSE d
             Within(b) == IF b < TEMP_CD_MIN THEN TEMP_CD_MIN
                          ELSE IF b > TEMP_CD_MAX THEN TEMP_CD_MAX ELSE b
             b1 == LimitedTo(d1, t1)
             b2 == LimitedTo(d2, t2)
  <2>1. t1 \in Int /\ t2 \in Int
    BY SMT DEF Degrees
  <2>2. b1 \in Int /\ b2 \in Int /\ b1 <= b2
    BY <2>1, SMT
  <2>3. Clamped(d1, t1) = Within(b1) /\ Clamped(d2, t2) = Within(b2)
    BY SMT DEF Clamped
  <2> HIDE DEF b1, b2
  <2>4. Within(b1) <= Within(b2)
    BY <2>2, SMT DEF TEMP_CD_MIN, TEMP_CD_MAX
  <2> QED
    BY <2>3, <2>4, Zenon
<1>2. Clamped(d1, t1) <= t1
  BY SMT DEF Clamped, Degrees, TEMP_CD_MIN, TEMP_CD_MAX
<1>3. d1 >= t1 - 1 => t1 - Clamped(d1, t1) <= 1
  BY SMT DEF Clamped, Degrees, TEMP_CD_MIN, TEMP_CD_MAX
<1> QED
  BY <1>1, <1>2, <1>3, Zenon

\* Every path of the calculation that a sample in range can take.
LEMMA CalculationSucceeds ==
    ASSUME NEW t \in Degrees, NEW rh \in Humidity
    PROVE  DewPointCalc(t, rh) = [err |-> "ERR_OK", dew |-> Clamped(Dew(t, rh), t)]
<1>1. ~(B_CD + t <= 0)
  BY SMT DEF Degrees, TEMP_CD_MIN, TEMP_CD_MAX, B_CD
<1>2. ~(DenomQ10(t, rh) <= 0)
  <2> DEFINE d == DenomQ10(t, rh)
  <2>1. d \in Denominators
    BY AlphaInRange, Zenon
  <2> HIDE DEF d
  <2>2. ~(d <= 0)
    BY <2>1, SMT DEF Denominators
  <2> QED
    BY <2>2, Zenon DEF d
<1> QED
  BY <1>1, <1>2, Zenon DEF DewPointCalc, Dew, Degrees

AirInv == temp_cd \in Degrees /\ rh_cp \in Humidity

LEMMA AirInitially == AirInit => AirInv
<1> SUFFICES ASSUME AirInit PROVE AirInv
  OBVIOUS
<1>1. temp_cd \in Degrees
  BY DewPointAssumption, Zenon DEF AirInit, Degrees
<1>2. rh_cp \in Humidity
  BY SMT DEF AirInit, Humidity, RH_CP_MAX
<1> QED
  BY <1>1, <1>2 DEF AirInv

LEMMA AirStep ==
    AirInv /\ [Damper \/ Warmer]_airVars
      => AirInv' /\ temp_cd <= temp_cd' /\ rh_cp <= rh_cp'
<1> SUFFICES ASSUME AirInv, [Damper \/ Warmer]_airVars
             PROVE  AirInv' /\ temp_cd <= temp_cd' /\ rh_cp <= rh_cp'
  OBVIOUS
<1>1. TempStep \in Nat \ {0} /\ HumidityStep \in Nat \ {0}
  BY DewPointAssumption, Zenon
<1>2. CASE Damper
  BY <1>1, <1>2, SMT DEF Damper, AirInv, Degrees, Humidity, TEMP_CD_MIN, TEMP_CD_MAX, RH_CP_MAX
<1>3. CASE Warmer
  BY <1>1, <1>3, SMT DEF Warmer, AirInv, Degrees, Humidity, TEMP_CD_MIN, TEMP_CD_MAX, RH_CP_MAX
<1>4. CASE UNCHANGED airVars
  BY <1>4, SMT DEF airVars, AirInv, Degrees, Humidity, TEMP_CD_MIN, TEMP_CD_MAX, RH_CP_MAX
<1> QED
  BY <1>2, <1>3, <1>4

\* No temperature and humidity within the sensor's ranges make the calculation fail
\* (dewpoint_calc_cd), whatever table that rises to 0.
THEOREM DewPointNeverFails == AirSpec => []NeverFails
<1>1. ASSUME AirInv PROVE NeverFails
  <2>1. Air = [err |-> "ERR_OK", dew |-> Clamped(Dew(temp_cd, rh_cp), temp_cd)]
    BY <1>1, CalculationSucceeds, Zenon DEF AirInv, Air
  <2> QED
    BY <2>1 DEF NeverFails
<1> QED
  BY <1>1, AirInitially, AirStep, PTL DEF AirSpec

\* The dew point is no higher than the temperature, and at most 0.01 degC lower in
\* saturated air (dewpoint_calc_cd's clamp and rounding).
THEOREM SaturatedAirIsAtItsDewPoint == AirSpec => []SaturationIsTheLimit
<1>1. ASSUME AirInv PROVE SaturationIsTheLimit
  <2>0. Air = [err |-> "ERR_OK", dew |-> Clamped(Dew(temp_cd, rh_cp), temp_cd)]
    BY <1>1, CalculationSucceeds, Zenon DEF AirInv, Air
  <2>1. temp_cd \in Degrees /\ rh_cp \in Humidity /\ Air.dew = Clamped(Dew(temp_cd, rh_cp), temp_cd)
    BY <1>1, <2>0 DEF AirInv
  <2>2. temp_cd <= temp_cd /\ rh_cp <= rh_cp
    BY <2>1, SMT DEF Degrees, Humidity, TEMP_CD_MIN, TEMP_CD_MAX, RH_CP_MAX
  <2>3. Dew(temp_cd, rh_cp) \in Int /\ Dew(temp_cd, rh_cp) <= Dew(temp_cd, rh_cp)
    BY <2>1, <2>2, DewIsMonotone, Zenon
  <2>4. /\ Air.dew <= temp_cd
        /\ Dew(temp_cd, rh_cp) >= temp_cd - 1 => temp_cd - Air.dew <= 1
    BY <2>1, <2>2, <2>3, ClampKeepsOrder, Zenon
  <2>5. rh_cp = RH_CP_MAX => Dew(temp_cd, rh_cp) >= temp_cd - 1
    BY <2>1, DewOfSaturation, Zenon
  <2> QED
    BY <2>4, <2>5, Zenon DEF SaturationIsTheLimit
<1> QED
  BY <1>1, AirInitially, AirStep, PTL DEF AirSpec

\* Damper or warmer air never has a lower dew point (ln_rh_q10's interpolation and
\* div_round_pos_den), whatever the steps.
THEOREM DewPointFollowsTheAir == AirSpec => FollowsTheAir
<1>1. ASSUME AirInv, [Damper \/ Warmer]_airVars PROVE [Air.dew <= Air'.dew]_airVars
  <2>1. AirInv' /\ temp_cd <= temp_cd' /\ rh_cp <= rh_cp'
    BY <1>1, AirStep
  <2>2. /\ temp_cd \in Degrees /\ rh_cp \in Humidity /\ temp_cd' \in Degrees /\ rh_cp' \in Humidity
    BY <1>1, <2>1, Zenon DEF AirInv, Degrees, Humidity
  <2>a. Air = [err |-> "ERR_OK", dew |-> Clamped(Dew(temp_cd, rh_cp), temp_cd)]
    BY <2>2, CalculationSucceeds, Zenon DEF Air
  <2>b. Air' = DewPointCalc(temp_cd', rh_cp')
    BY Zenon DEF Air
  <2>c. DewPointCalc(temp_cd', rh_cp')
          = [err |-> "ERR_OK", dew |-> Clamped(Dew(temp_cd', rh_cp'), temp_cd')]
    BY <2>2, CalculationSucceeds, Zenon
  <2>3. Air.dew = Clamped(Dew(temp_cd, rh_cp), temp_cd)
    BY <2>a
  <2>4. Air'.dew = Clamped(Dew(temp_cd', rh_cp'), temp_cd')
    BY <2>b, <2>c
  <2>5. /\ Dew(temp_cd, rh_cp) \in Int /\ Dew(temp_cd', rh_cp') \in Int
        /\ Dew(temp_cd, rh_cp) <= Dew(temp_cd', rh_cp')
    BY <2>1, <2>2, DewIsMonotone, Zenon
  <2>6. Clamped(Dew(temp_cd, rh_cp), temp_cd) <= Clamped(Dew(temp_cd', rh_cp'), temp_cd')
    BY <2>1, <2>2, <2>5, ClampKeepsOrder, Zenon
  <2> QED
    BY <2>3, <2>4, <2>6, Zenon
<1> QED
  BY <1>1, AirInitially, AirStep, PTL DEF AirSpec, FollowsTheAir
-----------------------------------------------------------------------------
(* Frames *)

Registers == SUBSET (0 .. 15)

Bytes == SUBSET (0 .. 7)

\* A step that stays in a set, and so many of these steps in a row.
StaysIn(F, X) == \A i \in Nat, x \in X : F[<<i, x>>] \in X

Iterates(g, F, first, n) == g[0] = first /\ \A i \in 1 .. n : g[i] = F[<<i, g[i - 1]>>]

\* Any number of steps can be made.
LEMMA IterationExists ==
    ASSUME NEW X, NEW F, StaysIn(F, X), NEW first \in X, NEW n \in Nat
    PROVE  \E g \in [0 .. n -> X] : Iterates(g, F, first, n)
<1> USE DEF StaysIn, Iterates
<1> DEFINE Upto(m, g) == /\ g \in [0 .. m -> X]
                         /\ g[0] = first
                         /\ \A i \in 1 .. m : g[i] = F[<<i, g[i - 1]>>]
           T == {m \in Nat : \E g : Upto(m, g)}
<1>1. 0 \in T
  <2>1. Upto(0, [i \in 0 .. 0 |-> first])
    OBVIOUS
  <2> HIDE DEF Upto
  <2> QED
    BY <2>1
<1>2. ASSUME NEW m \in T PROVE m + 1 \in T
  <2>1. PICK g : Upto(m, g)
    <3> HIDE DEF Upto
    <3> QED
      OBVIOUS
  <2> DEFINE h == [i \in 0 .. m + 1 |-> IF i <= m THEN g[i] ELSE F[<<m + 1, g[m]>>]]
  <2>2. m \in Nat /\ g[m] \in X
    BY <2>1
  <2>3. h \in [0 .. m + 1 -> X]
    BY <2>1, <2>2
  <2>4. h[0] = first
    BY <2>1, <2>2
  <2>5. ASSUME NEW i \in 1 .. m + 1 PROVE h[i] = F[<<i, h[i - 1]>>]
    <3>1. CASE i <= m
      BY <2>1, <2>2, <3>1
    <3>2. CASE i = m + 1
      <4>1. h[i] = F[<<m + 1, g[m]>>] /\ h[i - 1] = g[m]
        BY <2>2, <3>2
      <4> QED
        BY <3>2, <4>1
    <3> QED
      BY <2>2, <3>1, <3>2
  <2>6. Upto(m + 1, h)
    BY <2>3, <2>4, <2>5
  <2> HIDE DEF Upto, h
  <2> QED
    BY <2>2, <2>6
<1>3. T = Nat
  <2> HIDE DEF T
  <2>1. T \in SUBSET Nat
    BY DEF T
  <2> QED
    BY <1>1, <1>2, <2>1, SetInduction
<1> QED
  BY <1>3

\* Two functions that begin alike and go on alike are alike.
GoOnAlike(f, g, n) == f[0] = g[0] /\ \A i \in 1 .. n : f[i - 1] = g[i - 1] => f[i] = g[i]

LEMMA SameIteration ==
    ASSUME NEW f, NEW g, NEW n \in Nat, GoOnAlike(f, g, n)
    PROVE  \A i \in 0 .. n : f[i] = g[i]
<1> USE DEF GoOnAlike
<1> DEFINE T == {m \in Nat : m <= n => f[m] = g[m]}
<1>1. 0 \in T
  OBVIOUS
<1>2. ASSUME NEW m \in T PROVE m + 1 \in T
  <2>1. SUFFICES ASSUME m + 1 <= n PROVE f[m + 1] = g[m + 1]
    OBVIOUS
  <2>2. m + 1 \in 1 .. n /\ (m + 1) - 1 = m /\ f[m] = g[m]
    BY <2>1
  <2>3. f[(m + 1) - 1] = g[(m + 1) - 1] => f[m + 1] = g[m + 1]
    BY <2>2
  <2> QED
    BY <2>2, <2>3
<1>3. T = Nat
  <2> HIDE DEF T
  <2>1. T \in SUBSET Nat
    BY DEF T
  <2> QED
    BY <1>1, <1>2, <2>1, SetInduction
<1> QED
  BY <1>3
-----------------------------------------------------------------------------
(* The register *)

\* A turn keeps the register's width, loses nothing and goes bit by bit.
LEMMA TurnIsLinear ==
    ASSUME NEW S \in Registers, NEW U \in Registers
    PROVE  /\ ShiftRight(S) \in Registers
           /\ ShiftRight({}) = {}
           /\ ShiftRight(S) = {} => S = {}
           /\ SymDiff(S, U) \in Registers
           /\ ShiftRight(SymDiff(S, U)) = SymDiff(ShiftRight(S), ShiftRight(U))
<1>1. \A V \in Registers : ShiftRight(V) \in Registers
                           /\ \A x \in 0 .. 15 : x \in ShiftRight(V) <=>
                                ~ (x + 1 \in V <=> 0 \in V /\ x \in POLYNOMIAL)
  <2> SUFFICES ASSUME NEW V \in Registers
               PROVE  ShiftRight(V) \in Registers
                      /\ \A x \in 0 .. 15 : x \in ShiftRight(V) <=>
                                ~ (x + 1 \in V <=> 0 \in V /\ x \in POLYNOMIAL)
    OBVIOUS
  <2> DEFINE shifted == {b - 1 : b \in V \ {0}}
  <2>1. shifted \in Registers /\ POLYNOMIAL \in Registers
    BY DEF Registers, POLYNOMIAL
  <2>2. ASSUME NEW x \in 0 .. 15 PROVE x \in shifted <=> x + 1 \in V
    <3>1. ASSUME x \in shifted PROVE x + 1 \in V
      BY <3>1 DEF Registers
    <3>2. ASSUME x + 1 \in V PROVE x \in shifted
      <4>1. x + 1 \in V \ {0} /\ (x + 1) - 1 = x
        BY <3>2
      <4> QED
        BY <4>1
    <3> QED
      BY <3>1, <3>2
  <2>3. ShiftRight(V) = IF 0 \in V THEN SymDiff(shifted, POLYNOMIAL) ELSE shifted
    BY DEF ShiftRight
  <2> HIDE DEF shifted
  <2> QED
    BY <2>1, <2>2, <2>3 DEF SymDiff, Registers
<1>2. SymDiff(S, U) \in Registers /\ {} \in Registers
  BY DEF SymDiff, Registers
<1>3. ShiftRight({}) = {}
  BY DEF ShiftRight
<1>4. ShiftRight(S) = {} => S = {}
  <2>1. SUFFICES ASSUME ShiftRight(S) = {} PROVE S = {}
    OBVIOUS
  <2>2. ~ (0 \in S)
    <3>1. 15 \in ShiftRight(S) <=> ~ (16 \in S <=> 0 \in S /\ 15 \in POLYNOMIAL)
      BY <1>1
    <3>2. ~ (16 \in S)
      BY DEF Registers
    <3> QED
      BY <2>1, <3>1, <3>2 DEF POLYNOMIAL
  <2>3. ASSUME NEW x \in S PROVE FALSE
    <3>1. x \in 1 .. 15
      BY <2>2 DEF Registers
    <3>2. x - 1 \in 0 .. 15 /\ (x - 1) + 1 = x
      BY <3>1
    <3> QED
      BY <1>1, <2>1, <2>2, <3>2
  <2> QED
    BY <2>3
<1>5. ShiftRight(SymDiff(S, U)) = SymDiff(ShiftRight(S), ShiftRight(U))
  <2>1. ShiftRight(SymDiff(S, U)) \in Registers
        /\ SymDiff(ShiftRight(S), ShiftRight(U)) \in Registers
    BY <1>1, <1>2 DEF SymDiff, Registers
  <2>2. ASSUME NEW x \in 0 .. 15
        PROVE  x \in ShiftRight(SymDiff(S, U)) <=> x \in SymDiff(ShiftRight(S), ShiftRight(U))
    <3>1. x \in ShiftRight(SymDiff(S, U)) <=>
            ~ (x + 1 \in SymDiff(S, U) <=> 0 \in SymDiff(S, U) /\ x \in POLYNOMIAL)
      BY <1>1, <1>2
    <3>2. /\ x \in ShiftRight(S) <=> ~ (x + 1 \in S <=> 0 \in S /\ x \in POLYNOMIAL)
          /\ x \in ShiftRight(U) <=> ~ (x + 1 \in U <=> 0 \in U /\ x \in POLYNOMIAL)
      BY <1>1
    <3>3. /\ x + 1 \in SymDiff(S, U) <=> ~ (x + 1 \in S <=> x + 1 \in U)
          /\ 0 \in SymDiff(S, U) <=> ~ (0 \in S <=> 0 \in U)
          /\ x \in SymDiff(ShiftRight(S), ShiftRight(U)) <=>
               ~ (x \in ShiftRight(S) <=> x \in ShiftRight(U))
      BY DEF SymDiff
    <3> QED
      BY <3>1, <3>2, <3>3
  <2> QED
    BY <2>1, <2>2 DEF Registers
<1> QED
  BY <1>1, <1>2, <1>3, <1>4, <1>5

\* Nothing remains nothing.
LEMMA EmptyTurn == ShiftRight({}) = {}
  BY DEF ShiftRight
-----------------------------------------------------------------------------
(* Turns *)

\* The inner loop, turn by turn.
LEMMA ShiftedStep ==
    ASSUME NEW S \in Registers, NEW n \in Nat
    PROVE  /\ Shifted(S, 0) = S
           /\ Shifted(S, n) \in Registers
           /\ Shifted(S, n + 1) = ShiftRight(Shifted(S, n))
<1> DEFINE turn(m) == CHOOSE h : h = [i \in 0 .. m |-> IF i = 0 THEN S ELSE ShiftRight(h[i - 1])]
           Turning(m, g) == /\ g \in [0 .. m -> Registers]
                            /\ g[0] = S
                            /\ \A i \in 1 .. m : g[i] = ShiftRight(g[i - 1])
<1> HIDE DEF turn, Turning
<1>1. ASSUME NEW m \in Nat
      PROVE  Turning(m, turn(m))
  <2> DEFINE F == [p \in Nat \X Registers |-> ShiftRight(p[2])]
  <2>1. \A i \in Nat, x \in Registers : F[<<i, x>>] = ShiftRight(x)
    OBVIOUS
  <2> HIDE DEF F
  <2>2. StaysIn(F, Registers)
    BY <2>1, TurnIsLinear DEF StaysIn
  <2>3. PICK g \in [0 .. m -> Registers] : Iterates(g, F, S, m)
    BY <2>2, IterationExists
  <2>4b. ASSUME NEW i \in 1 .. m
         PROVE  g[i] = ShiftRight(g[i - 1]) /\ g[i - 1] \in Registers
    <3>1. i \in Nat /\ i - 1 \in 0 .. m
      OBVIOUS
    <3>2. g[i - 1] \in Registers /\ g[i] = F[<<i, g[i - 1]>>]
      BY <2>3, <3>1 DEF Iterates
    <3> QED
      BY <2>1, <3>1, <3>2
  <2>4. g = [i \in 0 .. m |-> IF i = 0 THEN S ELSE ShiftRight(g[i - 1])]
    BY <2>3, <2>4b DEF Iterates
  <2> DEFINE h == turn(m)
  <2>5. h = [i \in 0 .. m |-> IF i = 0 THEN S ELSE ShiftRight(h[i - 1])]
    BY <2>4, Zenon DEF turn
  <2> HIDE DEF h
  <2>6. h[0] = S /\ \A i \in 1 .. m : h[i] = ShiftRight(h[i - 1])
    BY <2>5
  <2>7. \A i \in 0 .. m : h[i] = g[i]
    <3>1. GoOnAlike(h, g, m)
      BY <2>3, <2>4b, <2>6 DEF GoOnAlike, Iterates
    <3> QED
      BY <3>1, SameIteration
  <2>8. h \in [0 .. m -> Registers]
    <3>1. \A i \in 0 .. m : h[i] \in Registers
      BY <2>3, <2>7
    <3> QED
      BY <2>5, <3>1
  <2>9. Turning(m, h)
    BY <2>6, <2>8 DEF Turning
  <2> QED
    BY <2>9 DEF h
<1>2. \A m : Shifted(S, m) = turn(m)[m]
  BY DEF Shifted, turn
<1>3. n + 1 \in Nat /\ 0 \in Nat
  OBVIOUS
<1>4. Turning(0, turn(0)) /\ Turning(n, turn(n)) /\ Turning(n + 1, turn(n + 1))
  BY <1>1, <1>3
<1> USE DEF Turning
<1>5. turn(n + 1)[n] = turn(n)[n]
  <2> DEFINE f == turn(n + 1)
             g == turn(n)
  <2>1. GoOnAlike(f, g, n)
    BY <1>4 DEF GoOnAlike
  <2> HIDE DEF f, g
  <2>2. \A i \in 0 .. n : f[i] = g[i]
    BY <2>1, SameIteration
  <2>3. f[n] = g[n]
    BY <2>2
  <2> QED
    BY <2>3 DEF f, g
<1>6. turn(n + 1)[n + 1] = ShiftRight(turn(n + 1)[n])
  <2>1. n + 1 \in 1 .. n + 1 /\ (n + 1) - 1 = n
    OBVIOUS
  <2> QED
    BY <1>4, <2>1
<1> QED
  BY <1>2, <1>4, <1>5, <1>6

\* What a turn does, any number of turns do.
LEMMA ShiftedIsLinear ==
    ASSUME NEW S \in Registers, NEW U \in Registers, NEW n \in Nat
    PROVE  /\ Shifted({}, n) = {}
           /\ Shifted(S, n) = {} => S = {}
           /\ Shifted(SymDiff(S, U), n) = SymDiff(Shifted(S, n), Shifted(U, n))
<1> DEFINE P(m) == /\ Shifted({}, m) = {}
                   /\ Shifted(S, m) = {} => S = {}
                   /\ Shifted(SymDiff(S, U), m) = SymDiff(Shifted(S, m), Shifted(U, m))
           T == {m \in Nat : P(m)}
<1>0. {} \in Registers /\ SymDiff(S, U) \in Registers
  BY TurnIsLinear DEF Registers
<1>1. P(0)
  BY <1>0, ShiftedStep
<1>2. ASSUME NEW m \in Nat, P(m) PROVE P(m + 1)
  <2>1. Shifted({}, m + 1) = ShiftRight(Shifted({}, m))
    BY <1>0, ShiftedStep
  <2>1a. Shifted({}, m + 1) = {}
    BY <1>2, <2>1, EmptyTurn
  <2>2. Shifted(S, m) \in Registers /\ Shifted(U, m) \in Registers
        /\ Shifted(S, m + 1) = ShiftRight(Shifted(S, m))
        /\ Shifted(U, m + 1) = ShiftRight(Shifted(U, m))
    BY ShiftedStep
  <2>3. Shifted(SymDiff(S, U), m + 1) = ShiftRight(SymDiff(Shifted(S, m), Shifted(U, m)))
    BY <1>0, <1>2, ShiftedStep
  <2>4. Shifted(SymDiff(S, U), m + 1) = SymDiff(Shifted(S, m + 1), Shifted(U, m + 1))
    BY <2>2, <2>3, TurnIsLinear
  <2>5. Shifted(S, m + 1) = {} => S = {}
    BY <1>2, <2>2, TurnIsLinear
  <2> QED
    BY <2>1a, <2>4, <2>5
<1>3. T = Nat
  <2>1. 0 \in T
    BY <1>1
  <2>2. \A m \in T : m + 1 \in T
    BY <1>2
  <2>3. T \in SUBSET Nat
    OBVIOUS
  <2> HIDE DEF T
  <2> QED
    BY <2>1, <2>2, <2>3, SetInduction
<1> QED
  BY <1>3

\* Turns add up.
LEMMA ShiftedAgain ==
    ASSUME NEW S \in Registers, NEW m \in Nat, NEW n \in Nat
    PROVE  Shifted(Shifted(S, m), n) = Shifted(S, m + n)
<1> DEFINE T == {k \in Nat : Shifted(Shifted(S, m), k) = Shifted(S, m + k)}
<1>0. Shifted(S, m) \in Registers
  BY ShiftedStep
<1>1. 0 \in T
  BY <1>0, ShiftedStep
<1>2. ASSUME NEW k \in T PROVE k + 1 \in T
  <2>1. k \in Nat /\ m + k \in Nat /\ m + (k + 1) = (m + k) + 1
    OBVIOUS
  <2>2. Shifted(Shifted(S, m), k + 1) = ShiftRight(Shifted(Shifted(S, m), k))
    BY <1>0, <2>1, ShiftedStep
  <2>3. Shifted(S, (m + k) + 1) = ShiftRight(Shifted(S, m + k))
    BY <2>1, ShiftedStep
  <2> QED
    BY <2>1, <2>2, <2>3
<1>3. T = Nat
  <2>1. T \in SUBSET Nat
    OBVIOUS
  <2> HIDE DEF T
  <2> QED
    BY <1>1, <1>2, <2>1, SetInduction
<1> QED
  BY <1>3
-----------------------------------------------------------------------------
(***************************************************************************)
(* How far apart two bits must be for the register to forget them.  The    *)
(* polynomial has the factor x + 1: of every register that a single bit    *)
(* leads to, Fixed is a part that turns do not change.  The other part     *)
(* slides to the right until a bit falls out.                              *)
(***************************************************************************)
Fixed == {0, 14, 15}

Moved(V, n) == {v - n : v \in V}

\* As long as no bit falls out, turns move the bits.
LEMMA BitsSlide ==
    ASSUME NEW V \in Registers, NEW n \in Nat, \A v \in V : v >= n
    PROVE  Shifted(V, n) = Moved(V, n)
<1> DEFINE T == {k \in Nat : k <= n => Shifted(V, k) = Moved(V, k)}
<1>1. 0 \in T
  <2>1. Moved(V, 0) = V
    <3>1. \A v \in V : v - 0 = v
      BY DEF Registers
    <3>2. \A x : x \in Moved(V, 0) <=> x \in V
      BY <3>1 DEF Moved
    <3> QED
      BY <3>2
  <2> QED
    BY <2>1, ShiftedStep
<1>2. ASSUME NEW k \in T PROVE k + 1 \in T
  <2>1. SUFFICES ASSUME k + 1 <= n PROVE Shifted(V, k + 1) = Moved(V, k + 1)
    OBVIOUS
  <2>2. Shifted(V, k + 1) = ShiftRight(Moved(V, k))
    BY <2>1, ShiftedStep
  <2>3. ~ (0 \in Moved(V, k))
    BY <2>1 DEF Moved, Registers
  <2>4. ShiftRight(Moved(V, k)) = {b - 1 : b \in Moved(V, k)}
    BY <2>3 DEF ShiftRight
  <2>5. {b - 1 : b \in Moved(V, k)} = Moved(V, k + 1)
    <3>1. \A v \in V : (v - k) - 1 = v - (k + 1)
      BY DEF Registers
    <3>2. \A b \in Moved(V, k) : b - 1 \in Moved(V, k + 1)
      BY <3>1 DEF Moved
    <3>3. \A c \in Moved(V, k + 1) : \E b \in Moved(V, k) : c = b - 1
      BY <3>1 DEF Moved
    <3> QED
      BY <3>2, <3>3
  <2> QED
    BY <2>2, <2>4, <2>5
<1>3. T = Nat
  <2>1. T \in SUBSET Nat
    OBVIOUS
  <2> HIDE DEF T
  <2> QED
    BY <1>1, <1>2, <2>1, SetInduction
<1> QED
  BY <1>3

\* Turns do not change the fixed part.
LEMMA FixedStays ==
    ASSUME NEW n \in Nat
    PROVE  Shifted(Fixed, n) = Fixed /\ ShiftRight(Fixed) = Fixed /\ Fixed \in Registers
<1> DEFINE T == {k \in Nat : Shifted(Fixed, k) = Fixed}
<1>0. Fixed \in Registers
  BY DEF Fixed, Registers
<1>1. ShiftRight(Fixed) = Fixed
  BY SMT DEF Fixed, ShiftRight, SymDiff, POLYNOMIAL
<1>2. 0 \in T
  BY <1>0, ShiftedStep
<1>3. \A k \in T : k + 1 \in T
  BY <1>0, <1>1, ShiftedStep
<1>4. T = Nat
  <2>1. T \in SUBSET Nat
    OBVIOUS
  <2> HIDE DEF T
  <2> QED
    BY <1>2, <1>3, <2>1, SetInduction
<1> QED
  BY <1>0, <1>1, <1>4

\* What slides after so many turns, what it becomes when a bit falls out at last, and a
\* stretch of turns in which the bit is not back.
Carries(i, V) == Shifted({0}, i) = SymDiff(Fixed, V)

Leads(V, n, W) ==
    /\ \A v \in V : v >= n
    /\ \E v \in V : v <= 13
    /\ ShiftRight(Moved(V, n)) = W

Absent(i, n) == \A m \in i .. i + n : Shifted({0}, m) # {0}

LEMMA Phase ==
    ASSUME NEW i \in Nat, NEW n \in Nat, NEW V \in Registers, NEW W,
           Carries(i, V), Leads(V, n, W)
    PROVE  Absent(i, n) /\ Carries(i + n + 1, W)
<1>0. {0} \in Registers
  BY DEF Registers
<1>1. ASSUME NEW j \in 0 .. n
      PROVE  Shifted({0}, i + j) = SymDiff(Fixed, Moved(V, j)) /\ Shifted(V, j) = Moved(V, j)
  <2>1. \A v \in V : v >= j
    <3>1. \A v \in V : v >= n /\ v \in 0 .. 15
      BY DEF Leads, Registers
    <3> QED
      BY <3>1
  <2>2. j \in Nat /\ Shifted(V, j) = Moved(V, j)
    BY <2>1, BitsSlide
  <2>3. Shifted({0}, i + j) = Shifted(Shifted({0}, i), j)
    BY <1>0, <2>2, ShiftedAgain
  <2>4. Shifted({0}, i + j) = Shifted(SymDiff(Fixed, V), j)
    BY <2>3 DEF Carries
  <2>5. Shifted(SymDiff(Fixed, V), j) = SymDiff(Shifted(Fixed, j), Shifted(V, j))
    BY <2>2, FixedStays, ShiftedIsLinear
  <2>6. Shifted(Fixed, j) = Fixed
    BY <2>2, FixedStays
  <2> QED
    BY <2>2, <2>4, <2>5, <2>6
<1>2. Absent(i, n)
  <2> SUFFICES ASSUME NEW m \in i .. i + n, Shifted({0}, m) = {0} PROVE FALSE
    BY DEF Absent
  <2> DEFINE j == m - i
  <2>1. j \in 0 .. n /\ i + j = m
    OBVIOUS
  <2>2. SymDiff(Fixed, Moved(V, j)) = {0}
    BY <1>1, <2>1
  <2>3. PICK v \in V : v <= 13 /\ v >= n
    BY DEF Leads
  <2>4. v - j \in Moved(V, j) /\ v - j <= 13 /\ v - j >= 0 /\ v - j \in Int
    <3>1. v \in 0 .. 15
      BY DEF Registers
    <3>2. v - j \in Moved(V, j)
      BY DEF Moved
    <3> QED
      BY <2>1, <2>3, <3>1, <3>2
  <2>5. CASE v - j = 0
    <3>1. ~ (0 \in SymDiff(Fixed, Moved(V, j)))
      BY <2>4, <2>5 DEF SymDiff, Fixed
    <3> QED
      BY <2>2, <3>1
  <2>6. CASE v - j # 0
    <3>1. v - j \in SymDiff(Fixed, Moved(V, j))
      BY <2>4, <2>6 DEF SymDiff, Fixed
    <3> QED
      BY <2>2, <2>6, <3>1
  <2> QED
    BY <2>5, <2>6
<1>3. Carries(i + n + 1, W)
  <2>1. Shifted({0}, (i + n) + 1) = ShiftRight(Shifted({0}, i + n)) /\ Shifted(V, n) \in Registers
    BY <1>0, ShiftedStep
  <2>2. Shifted({0}, i + n) = SymDiff(Fixed, Moved(V, n)) /\ Moved(V, n) \in Registers
    BY <1>1, <2>1
  <2>3. ShiftRight(SymDiff(Fixed, Moved(V, n))) = SymDiff(ShiftRight(Fixed), ShiftRight(Moved(V, n)))
    BY <2>2, FixedStays, TurnIsLinear
  <2> QED
    BY <2>1, <2>2, <2>3, FixedStays DEF Carries, Leads
<1> QED
  BY <1>2, <1>3

\* A single bit does not come back to its place in a frame of eight bytes.
LEMMA BitDoesNotReturn ==
    ASSUME NEW n \in 1 .. 63
    PROVE  Shifted({0}, n) # {0}
<1>0. Carries(1, {13, 14})
  <2>1. {0} \in Registers /\ 0 + 1 = 1
    BY DEF Registers
  <2>2. Shifted({0}, 1) = ShiftRight({0})
    BY <2>1, ShiftedStep
  <2>3. ShiftRight({0}) = SymDiff(Fixed, {13, 14})
    BY SMT DEF Fixed, ShiftRight, SymDiff, POLYNOMIAL
  <2> QED
    BY <2>2, <2>3 DEF Carries
<1>1. Absent(1, 13) /\ Carries(15, {13, 15})
  <2>1. Leads({13, 14}, 13, {13, 15})
    <3>1. Moved({13, 14}, 13) = {0, 1}
      BY SMT DEF Moved
    <3>2. ShiftRight({0, 1}) = {13, 15}
      BY SMT DEF ShiftRight, SymDiff, POLYNOMIAL
    <3>3. (\A v \in {13, 14} : v >= 13) /\ \E v \in {13, 14} : v <= 13
      BY SMT
    <3> QED
      BY <3>1, <3>2, <3>3 DEF Leads
  <2>2. {13, 14} \in Registers /\ 1 + 13 + 1 = 15
    BY DEF Registers
  <2> QED
    BY <1>0, <2>1, <2>2, Phase
<1>2. Absent(15, 13) /\ Carries(29, {0, 1, 13, 15})
  <2>1. Leads({13, 15}, 13, {0, 1, 13, 15})
    <3>1. Moved({13, 15}, 13) = {0, 2}
      BY SMT DEF Moved
    <3>2. ShiftRight({0, 2}) = {0, 1, 13, 15}
      BY SMT DEF ShiftRight, SymDiff, POLYNOMIAL
    <3>3. (\A v \in {13, 15} : v >= 13) /\ \E v \in {13, 15} : v <= 13
      BY SMT
    <3> QED
      BY <3>1, <3>2, <3>3 DEF Leads
  <2>2. {13, 15} \in Registers /\ 15 + 13 + 1 = 29
    BY DEF Registers
  <2> QED
    BY <1>1, <2>1, <2>2, Phase
<1>3. Absent(29, 0) /\ Carries(30, {12, 13, 14, 15})
  <2>1. Leads({0, 1, 13, 15}, 0, {12, 13, 14, 15})
    <3>1. Moved({0, 1, 13, 15}, 0) = {0, 1, 13, 15}
      BY SMT DEF Moved
    <3>2. ShiftRight({0, 1, 13, 15}) = {12, 13, 14, 15}
      BY SMT DEF ShiftRight, SymDiff, POLYNOMIAL
    <3>3. (\A v \in {0, 1, 13, 15} : v >= 0) /\ \E v \in {0, 1, 13, 15} : v <= 13
      BY SMT
    <3> QED
      BY <3>1, <3>2, <3>3 DEF Leads
  <2>2. {0, 1, 13, 15} \in Registers /\ 29 + 0 + 1 = 30
    BY DEF Registers
  <2> QED
    BY <1>2, <2>1, <2>2, Phase
<1>4. Absent(30, 12) /\ Carries(43, {1, 2, 13, 15})
  <2>1. Leads({12, 13, 14, 15}, 12, {1, 2, 13, 15})
    <3>1. Moved({12, 13, 14, 15}, 12) = {0, 1, 2, 3}
      BY SMT DEF Moved
    <3>2. ShiftRight({0, 1, 2, 3}) = {1, 2, 13, 15}
      BY SMT DEF ShiftRight, SymDiff, POLYNOMIAL
    <3>3. (\A v \in {12, 13, 14, 15} : v >= 12) /\ \E v \in {12, 13, 14, 15} : v <= 13
      BY SMT
    <3> QED
      BY <3>1, <3>2, <3>3 DEF Leads
  <2>2. {12, 13, 14, 15} \in Registers /\ 30 + 12 + 1 = 43
    BY DEF Registers
  <2> QED
    BY <1>3, <2>1, <2>2, Phase
<1>5. Absent(43, 1) /\ Carries(45, {11, 15})
  <2>1. Leads({1, 2, 13, 15}, 1, {11, 15})
    <3>1. Moved({1, 2, 13, 15}, 1) = {0, 1, 12, 14}
      BY SMT DEF Moved
    <3>2. ShiftRight({0, 1, 12, 14}) = {11, 15}
      BY SMT DEF ShiftRight, SymDiff, POLYNOMIAL
    <3>3. (\A v \in {1, 2, 13, 15} : v >= 1) /\ \E v \in {1, 2, 13, 15} : v <= 13
      BY SMT
    <3> QED
      BY <3>1, <3>2, <3>3 DEF Leads
  <2>2. {1, 2, 13, 15} \in Registers /\ 43 + 1 + 1 = 45
    BY DEF Registers
  <2> QED
    BY <1>4, <2>1, <2>2, Phase
<1>6. Absent(45, 11) /\ Carries(57, {0, 3, 13, 15})
  <2>1. Leads({11, 15}, 11, {0, 3, 13, 15})
    <3>1. Moved({11, 15}, 11) = {0, 4}
      BY SMT DEF Moved
    <3>2. ShiftRight({0, 4}) = {0, 3, 13, 15}
      BY SMT DEF ShiftRight, SymDiff, POLYNOMIAL
    <3>3. (\A v \in {11, 15} : v >= 11) /\ \E v \in {11, 15} : v <= 13
      BY SMT
    <3> QED
      BY <3>1, <3>2, <3>3 DEF Leads
  <2>2. {11, 15} \in Registers /\ 45 + 11 + 1 = 57
    BY DEF Registers
  <2> QED
    BY <1>5, <2>1, <2>2, Phase
<1>7. Absent(57, 0) /\ Carries(58, {0, 2, 12, 13, 14, 15})
  <2>1. Leads({0, 3, 13, 15}, 0, {0, 2, 12, 13, 14, 15})
    <3>1. Moved({0, 3, 13, 15}, 0) = {0, 3, 13, 15}
      BY SMT DEF Moved
    <3>2. ShiftRight({0, 3, 13, 15}) = {0, 2, 12, 13, 14, 15}
      BY SMT DEF ShiftRight, SymDiff, POLYNOMIAL
    <3>3. (\A v \in {0, 3, 13, 15} : v >= 0) /\ \E v \in {0, 3, 13, 15} : v <= 13
      BY SMT
    <3> QED
      BY <3>1, <3>2, <3>3 DEF Leads
  <2>2. {0, 3, 13, 15} \in Registers /\ 57 + 0 + 1 = 58
    BY DEF Registers
  <2> QED
    BY <1>6, <2>1, <2>2, Phase
<1>8. Absent(58, 0) /\ Carries(59, {0, 1, 11, 12, 14, 15})
  <2>1. Leads({0, 2, 12, 13, 14, 15}, 0, {0, 1, 11, 12, 14, 15})
    <3>1. Moved({0, 2, 12, 13, 14, 15}, 0) = {0, 2, 12, 13, 14, 15}
      BY SMT DEF Moved
    <3>2. ShiftRight({0, 2, 12, 13, 14, 15}) = {0, 1, 11, 12, 14, 15}
      BY SMT DEF ShiftRight, SymDiff, POLYNOMIAL
    <3>3. (\A v \in {0, 2, 12, 13, 14, 15} : v >= 0) /\ \E v \in {0, 2, 12, 13, 14, 15} : v <= 13
      BY SMT
    <3> QED
      BY <3>1, <3>2, <3>3 DEF Leads
  <2>2. {0, 2, 12, 13, 14, 15} \in Registers /\ 58 + 0 + 1 = 59
    BY DEF Registers
  <2> QED
    BY <1>7, <2>1, <2>2, Phase
<1>9. Absent(59, 0) /\ Carries(60, {10, 11, 14, 15})
  <2>1. Leads({0, 1, 11, 12, 14, 15}, 0, {10, 11, 14, 15})
    <3>1. Moved({0, 1, 11, 12, 14, 15}, 0) = {0, 1, 11, 12, 14, 15}
      BY SMT DEF Moved
    <3>2. ShiftRight({0, 1, 11, 12, 14, 15}) = {10, 11, 14, 15}
      BY SMT DEF ShiftRight, SymDiff, POLYNOMIAL
    <3>3. (\A v \in {0, 1, 11, 12, 14, 15} : v >= 0) /\ \E v \in {0, 1, 11, 12, 14, 15} : v <= 13
      BY SMT
    <3> QED
      BY <3>1, <3>2, <3>3 DEF Leads
  <2>2. {0, 1, 11, 12, 14, 15} \in Registers /\ 59 + 0 + 1 = 60
    BY DEF Registers
  <2> QED
    BY <1>8, <2>1, <2>2, Phase
<1>10. Absent(60, 3) /\ Carries(64, {6, 7, 10, 11})
  <2>1. Leads({10, 11, 14, 15}, 3, {6, 7, 10, 11})
    <3>1. Moved({10, 11, 14, 15}, 3) = {7, 8, 11, 12}
      BY SMT DEF Moved
    <3>2. ShiftRight({7, 8, 11, 12}) = {6, 7, 10, 11}
      BY SMT DEF ShiftRight, SymDiff, POLYNOMIAL
    <3>3. (\A v \in {10, 11, 14, 15} : v >= 3) /\ \E v \in {10, 11, 14, 15} : v <= 13
      BY SMT
    <3> QED
      BY <3>1, <3>2, <3>3 DEF Leads
  <2>2. {10, 11, 14, 15} \in Registers /\ 60 + 3 + 1 = 64
    BY DEF Registers
  <2> QED
    BY <1>9, <2>1, <2>2, Phase
<1> QED
  BY <1>1, <1>2, <1>3, <1>4, <1>5, <1>6, <1>7, <1>8, <1>9, <1>10 DEF Absent
-----------------------------------------------------------------------------
(* Parity *)

Odd(S) == Cardinality(S) % 2 = 1

LEMMA RegisterIsFinite ==
    ASSUME NEW S \in Registers
    PROVE  IsFiniteSet(S) /\ Cardinality(S) \in Nat
<1>1. IsFiniteSet(0 .. 15)
  <2>1. \A n \in Nat : IsFiniteSet(0 .. n)
    BY FS_Interval
  <2> QED
    BY <2>1
<1>2. S \in SUBSET (0 .. 15)
  BY DEF Registers
<1>3. IsFiniteSet(S)
  BY <1>1, <1>2, FS_Subset
<1> QED
  BY <1>3, FS_CardinalityType

\* What two sets share counts twice.
LEMMA OddOfDifference ==
    ASSUME NEW S, IsFiniteSet(S), NEW U, IsFiniteSet(U)
    PROVE  IsFiniteSet(SymDiff(S, U)) /\ (Odd(SymDiff(S, U)) <=> ~ (Odd(S) <=> Odd(U)))
<1> DEFINE both == Cardinality(S \cap U)
<1>1. IsFiniteSet(S \ U) /\ Cardinality(S \ U) = Cardinality(S) - both
  BY FS_Difference
<1>2. U \cap S = S \cap U
  OBVIOUS
<1>3. IsFiniteSet(U \ S) /\ Cardinality(U \ S) = Cardinality(U) - both
  BY <1>2, FS_Difference
<1>4. (S \ U) \cap (U \ S) = {}
  OBVIOUS
<1>5. /\ IsFiniteSet((S \ U) \cup (U \ S))
      /\ Cardinality((S \ U) \cup (U \ S)) = Cardinality(S \ U) + Cardinality(U \ S) - Cardinality({})
  BY <1>1, <1>3, <1>4, FS_Union
<1>6. Cardinality(SymDiff(S, U)) = Cardinality(S) - both + (Cardinality(U) - both) - 0
  BY <1>1, <1>3, <1>5, FS_EmptySet DEF SymDiff
<1>7. Cardinality(S) \in Nat /\ Cardinality(U) \in Nat /\ both \in Nat
  <2>1. IsFiniteSet(S \cap U)
    BY FS_Intersection
  <2> QED
    BY <2>1, FS_CardinalityType
<1>8. \A a, b, c \in Int : (a - c + (b - c) - 0) % 2 = 1 <=> ~ (a % 2 = 1 <=> b % 2 = 1)
  BY SMT
<1>9. Odd(SymDiff(S, U)) <=> ~ (Odd(S) <=> Odd(U))
  <2> HIDE DEF both
  <2> QED
    BY <1>6, <1>7, <1>8 DEF Odd
<1> QED
  BY <1>5, <1>9 DEF SymDiff

\* Moving a set does not change how many elements it has.
LEMMA MovedIsAsMany ==
    ASSUME NEW S \in SUBSET Int, IsFiniteSet(S), NEW k \in Int
    PROVE  IsFiniteSet(Moved(S, k)) /\ Cardinality(Moved(S, k)) = Cardinality(S)
<1> DEFINE f == [x \in S |-> x - k]
<1>1. f \in [S -> Moved(S, k)]
  BY DEF Moved
<1>2. \A x, y \in S : f[x] = f[y] => x = y
  OBVIOUS
<1>3. \A y \in Moved(S, k) : \E x \in S : f[x] = y
  BY DEF Moved
<1>4. f \in Bijection(S, Moved(S, k))
  <2> HIDE DEF f
  <2> QED
    BY <1>1, <1>2, <1>3 DEF Bijection, Injection, Surjection, IsInjective
<1>5. ExistsBijection(S, Moved(S, k))
  BY <1>4 DEF ExistsBijection
<1> QED
  BY <1>5, FS_Bijection

\* The polynomial has three bits: one that falls out is replaced by an odd number.
LEMMA TurnKeepsParity ==
    ASSUME NEW S \in Registers
    PROVE  Odd(ShiftRight(S)) <=> Odd(S)
<1> DEFINE rest == S \ {0}
<1>1. IsFiniteSet(rest) /\ Cardinality(rest) = IF 0 \in S THEN Cardinality(S) - 1 ELSE Cardinality(S)
  BY RegisterIsFinite, FS_RemoveElement
<1>2. IsFiniteSet(Moved(rest, 1)) /\ Cardinality(Moved(rest, 1)) = Cardinality(rest)
  <2>1. rest \in SUBSET Int
    BY DEF Registers
  <2> HIDE DEF rest
  <2> QED
    BY <1>1, <2>1, MovedIsAsMany
<1>3. ShiftRight(S) = IF 0 \in S THEN SymDiff(Moved(rest, 1), POLYNOMIAL) ELSE Moved(rest, 1)
  BY DEF ShiftRight, Moved
<1>4. IsFiniteSet(POLYNOMIAL) /\ Odd(POLYNOMIAL)
  <2>1. IsFiniteSet({0}) /\ Cardinality({0}) = 1
    BY FS_Singleton
  <2>2. IsFiniteSet({0} \cup {13}) /\ Cardinality({0} \cup {13}) = 2
    BY <2>1, FS_AddElement
  <2>3. IsFiniteSet(({0} \cup {13}) \cup {15}) /\ Cardinality(({0} \cup {13}) \cup {15}) = 3
    <3>1. ~ (15 \in {0} \cup {13})
      OBVIOUS
    <3> QED
      BY <2>2, <3>1, FS_AddElement
  <2>4. POLYNOMIAL = ({0} \cup {13}) \cup {15}
    BY DEF POLYNOMIAL
  <2> QED
    BY <2>3, <2>4 DEF Odd
<1>5. Cardinality(S) \in Nat
  BY RegisterIsFinite
<1> HIDE DEF rest
<1>6. CASE 0 \in S
  <2>1. Odd(ShiftRight(S)) <=> ~ (Odd(Moved(rest, 1)) <=> Odd(POLYNOMIAL))
    BY <1>2, <1>3, <1>4, <1>6, OddOfDifference
  <2>2. Odd(Moved(rest, 1)) <=> ~ Odd(S)
    BY <1>1, <1>2, <1>5, <1>6 DEF Odd
  <2> QED
    BY <1>4, <2>1, <2>2
<1>7. CASE ~ (0 \in S)
  BY <1>1, <1>2, <1>3, <1>7 DEF Odd
<1> QED
  BY <1>6, <1>7

LEMMA ShiftedKeepsParity ==
    ASSUME NEW S \in Registers, NEW n \in Nat
    PROVE  Odd(Shifted(S, n)) <=> Odd(S)
<1> DEFINE T == {k \in Nat : Odd(Shifted(S, k)) <=> Odd(S)}
<1>1. 0 \in T
  BY ShiftedStep
<1>2. ASSUME NEW k \in T PROVE k + 1 \in T
  <2>1. k \in Nat /\ (Odd(Shifted(S, k)) <=> Odd(S))
    OBVIOUS
  <2>2. Shifted(S, k) \in Registers /\ Shifted(S, k + 1) = ShiftRight(Shifted(S, k))
    BY <2>1, ShiftedStep
  <2>3. Odd(Shifted(S, k + 1)) <=> Odd(S)
    BY <2>1, <2>2, TurnKeepsParity
  <2> QED
    BY <2>1, <2>3
<1>3. T = Nat
  <2>1. T \in SUBSET Nat
    OBVIOUS
  <2> HIDE DEF T
  <2> QED
    BY <1>1, <1>2, <2>1, SetInduction
<1> QED
  BY <1>3
-----------------------------------------------------------------------------
(* Bytes *)

Byteful(bytes, len) == \A i \in 1 .. len : bytes[i] \in Bytes

LEMMA ByteOfRegister ==
    ASSUME NEW S \in Registers, NEW b \in Bytes
    PROVE  b \in Registers /\ SymDiff(S, b) \in Registers /\ CrcOfByte(b, S) \in Registers
<1>1. b \in Registers
  BY DEF Registers, Bytes
<1>2. SymDiff(S, b) \in Registers /\ 8 \in Nat
  BY <1>1, TurnIsLinear
<1> QED
  BY <1>1, <1>2, ShiftedStep DEF CrcOfByte

\* The outer loop, byte by byte.
LEMMA CrcAfterStep ==
    ASSUME NEW b, NEW len \in Nat, Byteful(b, len)
    PROVE  /\ CrcAfter(b, 0) = 0 .. 15
           /\ \A n \in 0 .. len : CrcAfter(b, n) \in Registers
           /\ \A n \in 0 .. len : n < len => CrcAfter(b, n + 1) = CrcOfByte(b[n + 1], CrcAfter(b, n))
<1> DEFINE Ones == 0 .. 15
<1> DEFINE after(m) == CHOOSE h : h = [i \in 0 .. m |-> IF i = 0 THEN Ones
                                                        ELSE CrcOfByte(b[i], h[i - 1])]
           Reading(m, g) == /\ g \in [0 .. m -> Registers]
                            /\ g[0] = Ones
                            /\ \A i \in 1 .. m : g[i] = CrcOfByte(b[i], g[i - 1])
           F == [p \in Nat \X Registers |-> IF p[1] \in 1 .. len THEN CrcOfByte(b[p[1]], p[2]) ELSE p[2]]
<1> HIDE DEF after, Reading
<1>0. Ones \in Registers
  BY DEF Registers
<1> HIDE DEF Ones
<1>1. ASSUME NEW m \in 0 .. len
      PROVE  Reading(m, after(m))
  <2>1a. \A i \in Nat, x \in Registers : F[<<i, x>>] = IF i \in 1 .. len THEN CrcOfByte(b[i], x) ELSE x
    OBVIOUS
  <2> HIDE DEF F
  <2>1. \A i \in 1 .. len, x \in Registers : F[<<i, x>>] = CrcOfByte(b[i], x)
    <3>1. \A i \in 1 .. len : i \in Nat
      OBVIOUS
    <3> QED
      BY <2>1a, <3>1
  <2>2. StaysIn(F, Registers)
    <3> SUFFICES ASSUME NEW i \in Nat, NEW x \in Registers PROVE F[<<i, x>>] \in Registers
      BY DEF StaysIn
    <3>1. i \in 1 .. len => CrcOfByte(b[i], x) \in Registers
      BY ByteOfRegister DEF Byteful
    <3> QED
      BY <2>1a, <3>1
  <2>3. PICK g \in [0 .. m -> Registers] : Iterates(g, F, Ones, m)
    <3>1. m \in Nat
      OBVIOUS
    <3> QED
      BY <1>0, <2>2, <3>1, IterationExists
  <2>4b. ASSUME NEW i \in 1 .. m
         PROVE  g[i] = CrcOfByte(b[i], g[i - 1]) /\ g[i - 1] \in Registers
    <3>1. i \in 1 .. len /\ i - 1 \in 0 .. m
      OBVIOUS
    <3>2. g[i - 1] \in Registers /\ g[i] = F[<<i, g[i - 1]>>]
      BY <2>3, <3>1 DEF Iterates
    <3> QED
      BY <2>1, <3>1, <3>2
  <2>4. g = [i \in 0 .. m |-> IF i = 0 THEN Ones ELSE CrcOfByte(b[i], g[i - 1])]
    BY <2>3, <2>4b DEF Iterates
  <2> DEFINE h == after(m)
  <2>5. h = [i \in 0 .. m |-> IF i = 0 THEN Ones ELSE CrcOfByte(b[i], h[i - 1])]
    BY <2>4, Zenon DEF after
  <2> HIDE DEF h
  <2>6. h[0] = Ones /\ \A i \in 1 .. m : h[i] = CrcOfByte(b[i], h[i - 1])
    BY <2>5
  <2>7. \A i \in 0 .. m : h[i] = g[i]
    <3>1. GoOnAlike(h, g, m)
      BY <2>3, <2>4b, <2>6 DEF GoOnAlike, Iterates
    <3> QED
      BY <3>1, SameIteration
  <2>8. h \in [0 .. m -> Registers]
    <3>1. \A i \in 0 .. m : h[i] \in Registers
      BY <2>3, <2>7
    <3> QED
      BY <2>5, <3>1
  <2>9. Reading(m, h)
    BY <2>6, <2>8 DEF Reading
  <2> QED
    BY <2>9 DEF h
<1> HIDE DEF F
<1>2. \A m : CrcAfter(b, m) = after(m)[m]
  BY DEF CrcAfter, after, Ones
<1>3. CrcAfter(b, 0) = Ones
  <2>1. 0 \in 0 .. len
    OBVIOUS
  <2> QED
    BY <1>1, <1>2, <2>1 DEF Reading
<1>4. ASSUME NEW n \in 0 .. len PROVE CrcAfter(b, n) \in Registers
  BY <1>1, <1>2 DEF Reading
<1>5. ASSUME NEW n \in 0 .. len, n < len
      PROVE  CrcAfter(b, n + 1) = CrcOfByte(b[n + 1], CrcAfter(b, n))
  <2>0. n + 1 \in 0 .. len /\ n \in Nat
    BY <1>5
  <2>1. Reading(n, after(n)) /\ Reading(n + 1, after(n + 1))
    BY <1>1, <2>0
  <2> DEFINE f == after(n + 1)
             g == after(n)
  <2>2. GoOnAlike(f, g, n)
    BY <2>0, <2>1 DEF GoOnAlike, Reading
  <2> HIDE DEF f, g
  <2>3. \A i \in 0 .. n : f[i] = g[i]
    BY <2>0, <2>2, SameIteration
  <2>4. f[n] = g[n]
    BY <2>0, <2>3
  <2>5. f[n + 1] = CrcOfByte(b[n + 1], f[n])
    <3>1. n + 1 \in 1 .. n + 1 /\ (n + 1) - 1 = n
      BY <2>0
    <3> QED
      BY <2>1, <3>1 DEF f, Reading
  <2> QED
    BY <1>2, <2>4, <2>5 DEF f, g
<1> QED
  BY <1>3, <1>4, <1>5 DEF Ones

\* The register depends on the bytes read so far.
Same(b, c, len) == \A i \in 1 .. len : b[i] = c[i]

LEMMA SameBytesSameCrc ==
    ASSUME NEW b, NEW c, NEW len \in Nat, Byteful(b, len), Same(b, c, len)
    PROVE  CrcAfter(b, len) = CrcAfter(c, len)
<1> DEFINE T == {n \in Nat : n <= len => CrcAfter(b, n) = CrcAfter(c, n)}
<1>0. Byteful(c, len)
  BY DEF Byteful, Same
<1>1. 0 \in T
  BY <1>0, CrcAfterStep
<1>2. ASSUME NEW n \in T PROVE n + 1 \in T
  <2>1. SUFFICES ASSUME n + 1 <= len PROVE CrcAfter(b, n + 1) = CrcAfter(c, n + 1)
    OBVIOUS
  <2>2. n \in 0 .. len /\ n < len /\ n + 1 \in 1 .. len
    BY <2>1
  <2>3. CrcAfter(b, n + 1) = CrcOfByte(b[n + 1], CrcAfter(b, n))
    BY <2>2, CrcAfterStep
  <2>4. CrcAfter(c, n + 1) = CrcOfByte(c[n + 1], CrcAfter(c, n))
    BY <1>0, <2>2, CrcAfterStep
  <2>5. CrcAfter(b, n) = CrcAfter(c, n)
    BY <2>2
  <2>6. b[n + 1] = c[n + 1]
    BY <2>2 DEF Same
  <2> QED
    BY <2>3, <2>4, <2>5, <2>6
<1>3. T = Nat
  <2>1. T \in SUBSET Nat
    OBVIOUS
  <2> HIDE DEF T
  <2> QED
    BY <1>1, <1>2, <2>1, SetInduction
<1> QED
  BY <1>3

\* A frame with its checksum behind it takes the register to zero.
LEMMA ValidCrcLeavesZero ==
    ASSUME NEW f \in Seq(Bytes), FrameHasValidCrc(f)
    PROVE  CrcAfter(f, Len(f)) = {}
<1> DEFINE len == Len(f)
           C == CrcAfter(f, len - 2)
           high == f[len]
<1>1. len \in Nat /\ len >= 3 /\ Byteful(f, len) /\ high \in Bytes /\ f[len - 1] \in Bytes
  BY DEF FrameHasValidCrc, Byteful
<1>2. Crc16(Body(f)) = C
  <2> DEFINE body == Body(f)
  <2>1. Len(body) = len - 2 /\ \A i \in 1 .. len - 2 : body[i] = f[i]
    BY <1>1 DEF Body
  <2> HIDE DEF body
  <2>2. Same(f, body, len - 2) /\ Byteful(f, len - 2)
    BY <1>1, <2>1 DEF Same, Byteful
  <2>3. len - 2 \in Nat
    BY <1>1
  <2>4. CrcAfter(f, len - 2) = CrcAfter(body, len - 2)
    BY <2>2, <2>3, SameBytesSameCrc
  <2> QED
    BY <2>1, <2>4 DEF Crc16, body
<1>3. C = f[len - 1] \cup ShiftLeft(high, 8)
  BY <1>2 DEF FrameHasValidCrc
<1>4. C \in Registers
  <2>1. len - 2 \in 0 .. len
    BY <1>1
  <2> QED
    BY <1>1, <2>1, CrcAfterStep
<1>5. SymDiff(C, f[len - 1]) = ShiftLeft(high, 8)
  <2>1. \A x \in f[len - 1] : x \in 0 .. 7
    BY <1>1 DEF Bytes
  <2>2. \A x \in ShiftLeft(high, 8) : x >= 8
    BY <1>1 DEF Bytes, ShiftLeft
  <2>3. \A x : ~ (x \in f[len - 1] /\ x \in ShiftLeft(high, 8))
    BY <2>1, <2>2
  <2> HIDE DEF C, high
  <2> QED
    BY <1>3, <2>3 DEF SymDiff
<1>6. Shifted(ShiftLeft(high, 8), 8) = high
  <2>1. ShiftLeft(high, 8) \in Registers /\ \A v \in ShiftLeft(high, 8) : v >= 8
    BY <1>1 DEF Bytes, ShiftLeft, Registers
  <2>2. Shifted(ShiftLeft(high, 8), 8) = Moved(ShiftLeft(high, 8), 8)
    <3>1. 8 \in Nat
      OBVIOUS
    <3> QED
      BY <2>1, <3>1, BitsSlide
  <2>3. \A x \in high : (x + 8) - 8 = x
    BY <1>1 DEF Bytes
  <2>4. \A x : x \in Moved(ShiftLeft(high, 8), 8) <=> x \in high
    BY <2>3 DEF Moved, ShiftLeft
  <2> QED
    BY <2>2, <2>4
<1>7. CrcAfter(f, len - 1) = high
  <2>1. len - 2 \in 0 .. len /\ len - 2 < len /\ (len - 2) + 1 = len - 1
    BY <1>1
  <2>2. CrcAfter(f, len - 1) = CrcOfByte(f[len - 1], C)
    BY <1>1, <2>1, CrcAfterStep
  <2> QED
    BY <1>5, <1>6, <2>2 DEF CrcOfByte
<1>8. CrcAfter(f, len) = CrcOfByte(high, high)
  <2>1. len - 1 \in 0 .. len /\ len - 1 < len /\ (len - 1) + 1 = len
    BY <1>1
  <2> QED
    BY <1>1, <1>7, <2>1, CrcAfterStep
<1>9. SymDiff(high, high) = {}
  BY DEF SymDiff
<1>10. Shifted({}, 8) = {}
  <2>1. {} \in Registers /\ 8 \in Nat
    BY DEF Registers
  <2> QED
    BY <2>1, ShiftedIsLinear
<1> QED
  BY <1>8, <1>9, <1>10 DEF CrcOfByte

\* What is appended to a body is its checksum.
LEMMA WithCrcIsValid ==
    ASSUME NEW body \in Seq(Bytes), Len(body) >= 1
    PROVE  /\ WithCrc(body) \in Seq(Bytes)
           /\ Len(WithCrc(body)) = Len(body) + 2
           /\ FrameHasValidCrc(WithCrc(body))
<1> DEFINE C == Crc16(body)
           tail == <<Low(C), High(C)>>
           f == body \o tail
<1>1. C \in Registers
  <2>1. Byteful(body, Len(body)) /\ Len(body) \in Nat /\ Len(body) \in 0 .. Len(body)
    BY DEF Byteful
  <2> QED
    BY <2>1, CrcAfterStep DEF Crc16
<1>2. Low(C) \in Bytes /\ High(C) \in Bytes
  <2> HIDE DEF C
  <2>1. Low(C) \in Bytes
    BY DEF Low, Bytes
  <2>2. High(C) \in Bytes
    BY DEF High, Bytes
  <2> QED
    BY <2>1, <2>2
<1>3. tail \in Seq(Bytes) /\ Len(tail) = 2 /\ tail[1] = Low(C) /\ tail[2] = High(C)
  <2> HIDE DEF C
  <2> QED
    BY <1>2
<1> HIDE DEF tail
<1>4. /\ f \in Seq(Bytes)
      /\ Len(f) = Len(body) + 2
      /\ \A i \in 1 .. Len(body) + 2 : f[i] = IF i <= Len(body) THEN body[i] ELSE tail[i - Len(body)]
  <2>1. Len(f) = Len(body) + Len(tail) /\ f \in Seq(Bytes)
        /\ \A i \in 1 .. Len(body) + Len(tail) :
              f[i] = IF i <= Len(body) THEN body[i] ELSE tail[i - Len(body)]
    BY <1>3, ConcatProperties, Zenon
  <2> HIDE DEF f
  <2> QED
    BY <1>3, <2>1
<1> HIDE DEF f
<1>5. f[Len(f) - 1] = Low(C) /\ f[Len(f)] = High(C)
  <2> HIDE DEF C
  <2>1. Len(body) \in Nat /\ Len(body) + 1 \in 1 .. Len(body) + 2 /\ Len(body) + 2 \in 1 .. Len(body) + 2
    OBVIOUS
  <2>2. f[Len(body) + 1] = tail[1] /\ f[Len(body) + 2] = tail[2]
    BY <1>4, <2>1
  <2> QED
    BY <1>3, <1>4, <2>1, <2>2
<1>6. Body(f) = body
  <2>1. Len(f) - 2 = Len(body)
    BY <1>4
  <2>2. Body(f) \in Seq(Bytes) /\ Len(Body(f)) = Len(body) /\ \A i \in 1 .. Len(body) : Body(f)[i] = body[i]
    BY <1>4, <2>1 DEF Body
  <2> DEFINE g == Body(f)
  <2> HIDE DEF g
  <2>3. g \in Seq(Bytes) /\ Len(g) = Len(body) /\ \A i \in 1 .. Len(body) : g[i] = body[i]
    BY <2>2 DEF g
  <2>4. g = body
    BY <2>3
  <2> QED
    BY <2>4 DEF g
<1>7. C = Low(C) \cup ShiftLeft(High(C), 8)
  <2> HIDE DEF C
  <2>1. ASSUME NEW x \in C PROVE x \in Low(C) \/ x \in ShiftLeft(High(C), 8)
    <3>1. x \in 0 .. 15
      BY <1>1 DEF Registers
    <3>2. CASE x <= 7
      BY <3>1, <3>2 DEF Low
    <3>3. CASE x >= 8
      <4>1. x - 8 \in High(C)
        BY <3>1, <3>3 DEF High
      <4>2. (x - 8) + 8 = x
        BY <3>1
      <4> QED
        BY <4>1, <4>2 DEF ShiftLeft
    <3> QED
      BY <3>1, <3>2, <3>3
  <2>2. \A x \in Low(C) : x \in C
    BY DEF Low
  <2>3. ASSUME NEW x \in ShiftLeft(High(C), 8) PROVE x \in C
    <3>1. PICK y \in High(C) : x = y + 8
      BY DEF ShiftLeft
    <3>2. PICK z \in C \cap 8 .. 15 : y = z - 8
      BY DEF High
    <3>3. x = z
      BY <3>1, <3>2
    <3> QED
      BY <3>2, <3>3
  <2> QED
    BY <2>1, <2>2, <2>3
<1>8. FrameHasValidCrc(f)
  <2>1. Len(f) >= 3
    BY <1>4
  <2> HIDE DEF C
  <2>2. Crc16(Body(f)) = C
    BY <1>6 DEF C
  <2> QED
    BY <1>5, <1>7, <2>1, <2>2 DEF FrameHasValidCrc
<1>9. WithCrc(body) = f
  BY DEF WithCrc, f, tail
<1> QED
  BY <1>4, <1>8, <1>9
-----------------------------------------------------------------------------
(* Noise *)

\* A whole frame of at most eight bytes and some of its bits.
OnTheLine ==
    /\ frame \in Seq(Bytes)
    /\ Len(frame) \in 0 .. 8
    /\ noise \in SUBSET (0 .. 8 * Len(frame) - 1)

\* How the register of the frame and the one of what was heard differ after n bytes.
Apart(n) == SymDiff(CrcAfter(frame, n), CrcAfter(Heard, n))

LEMMA HeardIsFrame ==
    ASSUME OnTheLine
    PROVE  /\ Heard \in Seq(Bytes)
           /\ Len(Heard) = Len(frame)
           /\ \A i \in 1 .. Len(frame) : /\ Hit(i) \in Bytes
                                         /\ Heard[i] = SymDiff(frame[i], Hit(i))
           /\ noise = {} => Heard = frame
           /\ IsFiniteSet(noise)
<1>1. ASSUME NEW i \in 1 .. Len(frame) PROVE Hit(i) \in Bytes
  BY DEF OnTheLine, Hit, Bytes
<1>2. ASSUME NEW i \in 1 .. Len(frame) PROVE SymDiff(frame[i], Hit(i)) \in Bytes
  <2>1. frame[i] \in Bytes
    BY DEF OnTheLine
  <2> QED
    BY <1>1, <2>1 DEF SymDiff, Bytes
<1>3. DOMAIN frame = 1 .. Len(frame) /\ Len(frame) \in Nat
  BY DEF OnTheLine
<1>4. Heard = [i \in 1 .. Len(frame) |-> SymDiff(frame[i], Hit(i))]
  BY <1>3 DEF Heard
<1>5. Heard \in [1 .. Len(frame) -> Bytes]
  BY <1>2, <1>4
<1>6. Heard \in Seq(Bytes) /\ Len(Heard) = Len(frame)
  <2> DEFINE h == Heard
  <2> HIDE DEF h
  <2>1. h \in [1 .. Len(frame) -> Bytes]
    BY <1>5 DEF h
  <2>2. h \in Seq(Bytes) /\ Len(h) = Len(frame)
    BY <1>3, <2>1
  <2> QED
    BY <2>2 DEF h
<1>7. ASSUME noise = {} PROVE Heard = frame
  <2>1. \A i : Hit(i) = {}
    BY <1>7 DEF Hit
  <2>2. \A S : SymDiff(S, {}) = S
    BY DEF SymDiff
  <2>3. \A i \in 1 .. Len(frame) : Heard[i] = frame[i]
    BY <1>4, <2>1, <2>2
  <2> DEFINE h == Heard
  <2>4. h \in Seq(Bytes) /\ Len(h) = Len(frame) /\ \A i \in 1 .. Len(frame) : h[i] = frame[i]
    BY <1>6, <2>3
  <2> HIDE DEF h
  <2>5. h = frame
    BY <2>4 DEF OnTheLine
  <2> QED
    BY <2>5 DEF h
<1>8. IsFiniteSet(noise)
  <2>1. \A n \in Int : IsFiniteSet(0 .. n)
    BY FS_Interval
  <2>2. 8 * Len(frame) - 1 \in Int
    BY <1>3
  <2>3. IsFiniteSet(0 .. 8 * Len(frame) - 1)
    BY <2>1, <2>2
  <2> QED
    BY <2>3, FS_Subset DEF OnTheLine
<1> QED
  BY <1>1, <1>4, <1>6, <1>7, <1>8

\* The registers begin alike, and every byte adds the bits that were turned round in it.
LEMMA ApartStep ==
    ASSUME OnTheLine
    PROVE  /\ Apart(0) = {}
           /\ \A n \in 0 .. Len(frame) : Apart(n) \in Registers
           /\ \A n \in 0 .. Len(frame) - 1 :
                 Apart(n + 1) = Shifted(SymDiff(Apart(n), Hit(n + 1)), 8)
<1> DEFINE len == Len(frame)
<1>1. len \in Nat /\ Byteful(frame, len) /\ Byteful(Heard, len)
  BY HeardIsFrame DEF Byteful, OnTheLine
<1>2. Apart(0) = {}
  <2>1. CrcAfter(frame, 0) = CrcAfter(Heard, 0)
    BY <1>1, CrcAfterStep
  <2> QED
    BY <2>1 DEF Apart, SymDiff
<1>3. ASSUME NEW n \in 0 .. len
      PROVE  CrcAfter(frame, n) \in Registers /\ CrcAfter(Heard, n) \in Registers
  BY <1>1, CrcAfterStep
<1>4. ASSUME NEW n \in 0 .. len - 1
      PROVE  Apart(n + 1) = Shifted(SymDiff(Apart(n), Hit(n + 1)), 8)
  <2> DEFINE C == CrcAfter(frame, n)
             D == CrcAfter(Heard, n)
             b == frame[n + 1]
             c == Heard[n + 1]
             X == SymDiff(C, b)
             Y == SymDiff(D, c)
  <2>1. n \in 0 .. len /\ n < len /\ n + 1 \in 1 .. len
    BY <1>1
  <2>2. CrcAfter(frame, n + 1) = Shifted(X, 8)
    BY <1>1, <2>1, CrcAfterStep DEF CrcOfByte
  <2>3. CrcAfter(Heard, n + 1) = Shifted(Y, 8)
    BY <1>1, <2>1, CrcAfterStep DEF CrcOfByte
  <2>4. X \in Registers /\ Y \in Registers
    <3>1. C \in Registers /\ D \in Registers /\ b \in Bytes /\ c \in Bytes
      BY <1>1, <1>3, <2>1 DEF Byteful
    <3> HIDE DEF C, D, b, c
    <3> QED
      BY <3>1, ByteOfRegister
  <2>5. SymDiff(Shifted(X, 8), Shifted(Y, 8)) = Shifted(SymDiff(X, Y), 8)
    <3>1. 8 \in Nat
      OBVIOUS
    <3> HIDE DEF X, Y
    <3> QED
      BY <2>4, <3>1, ShiftedIsLinear
  <2>6. c = SymDiff(b, Hit(n + 1))
    BY <2>1, HeardIsFrame
  <2>7. SymDiff(X, Y) = SymDiff(SymDiff(C, D), Hit(n + 1))
    <3> HIDE DEF C, D, b, c
    <3> QED
      BY <2>6 DEF SymDiff
  <2> QED
    BY <2>2, <2>3, <2>5, <2>7 DEF Apart
<1>5. ASSUME NEW n \in 0 .. len PROVE Apart(n) \in Registers
  BY <1>3, TurnIsLinear DEF Apart
<1> QED
  BY <1>2, <1>4, <1>5

\* An odd number of bits is never lost.
LEMMA OddNoiseShows ==
    ASSUME OnTheLine, Odd(noise)
    PROVE  Apart(Len(frame)) # {}
<1> DEFINE len == Len(frame)
           early(n) == noise \cap (0 .. 8 * n - 1)
           T == {n \in Nat : n <= len => (Odd(Apart(n)) <=> Odd(early(n)))}
<1>0. len \in Nat /\ IsFiniteSet(noise)
  BY HeardIsFrame DEF OnTheLine
<1>1. 0 \in T
  <2>1. early(0) = {}
    <3>1. 0 .. 8 * 0 - 1 = {}
      OBVIOUS
    <3> QED
      BY <3>1
  <2> QED
    BY <2>1, ApartStep
<1>2. ASSUME NEW n \in T PROVE n + 1 \in T
  <2>1. SUFFICES ASSUME n + 1 <= len PROVE Odd(Apart(n + 1)) <=> Odd(early(n + 1))
    OBVIOUS
  <2>2. n \in Nat /\ n \in 0 .. len - 1 /\ n \in 0 .. len /\ n + 1 \in 1 .. len /\ n <= len
    BY <1>0, <2>1
  <2>3. Odd(Apart(n)) <=> Odd(early(n))
    BY <2>2
  <2> DEFINE here == noise \cap (8 * n .. 8 * n + 7)
  <2>4. IsFiniteSet(early(n)) /\ IsFiniteSet(here)
    BY <1>0, FS_Intersection
  <2>5. early(n + 1) = SymDiff(early(n), here)
    <3>1. \A x \in noise : x \in Nat
      BY DEF OnTheLine
    <3>2. \A x \in noise : x \in 0 .. 8 * (n + 1) - 1 <=>
                             ~ (x \in 0 .. 8 * n - 1 <=> x \in 8 * n .. 8 * n + 7)
      BY <2>2, <3>1
    <3> QED
      BY <3>2 DEF SymDiff
  <2>6. Odd(early(n + 1)) <=> ~ (Odd(early(n)) <=> Odd(here))
    <3> HIDE DEF early, here
    <3> QED
      BY <2>4, <2>5, OddOfDifference
  <2>7. Hit(n + 1) = Moved(here, 8 * n)
    <3>1. 8 * ((n + 1) - 1) = 8 * n /\ 8 * (n + 1) - 1 = 8 * n + 7
      BY <2>2
    <3> QED
      BY <3>1 DEF Hit, Moved
  <2>8. IsFiniteSet(Hit(n + 1)) /\ Cardinality(Hit(n + 1)) = Cardinality(here)
    <3>1. here \in SUBSET Int /\ 8 * n \in Int
      BY <2>2 DEF OnTheLine
    <3> HIDE DEF here
    <3> QED
      BY <2>4, <2>7, <3>1, MovedIsAsMany
  <2>9. Apart(n) \in Registers /\ IsFiniteSet(Apart(n)) /\ Hit(n + 1) \in Bytes
    BY <2>2, ApartStep, RegisterIsFinite, HeardIsFrame
  <2>10. Odd(SymDiff(Apart(n), Hit(n + 1))) <=> ~ (Odd(Apart(n)) <=> Odd(here))
    <3>1. Odd(Hit(n + 1)) <=> Odd(here)
      BY <2>8 DEF Odd
    <3> QED
      BY <2>8, <2>9, <3>1, OddOfDifference
  <2>11. Odd(Apart(n + 1)) <=> Odd(SymDiff(Apart(n), Hit(n + 1)))
    <3>1. Apart(n + 1) = Shifted(SymDiff(Apart(n), Hit(n + 1)), 8)
      BY <2>2, ApartStep
    <3>2. SymDiff(Apart(n), Hit(n + 1)) \in Registers /\ 8 \in Nat
      BY <2>9, ByteOfRegister
    <3> QED
      BY <3>1, <3>2, ShiftedKeepsParity
  <2> QED
    BY <2>3, <2>6, <2>10, <2>11
<1>3. T = Nat
  <2>1. T \in SUBSET Nat
    OBVIOUS
  <2> HIDE DEF T
  <2> QED
    BY <1>1, <1>2, <2>1, SetInduction
<1>4. Odd(Apart(len)) <=> Odd(early(len))
  BY <1>0, <1>3
<1>5. early(len) = noise
  BY DEF OnTheLine
<1>6. ~ Odd({})
  BY FS_EmptySet DEF Odd
<1> QED
  BY <1>4, <1>5, <1>6

\* What one of the bits does to the register, n bytes into the frame.
Trace(p, n) == IF p < 8 * n THEN Shifted({0}, 8 * n - p) ELSE {}

LEMMA TraceStep ==
    ASSUME NEW p \in Nat, NEW n \in Nat
    PROVE  /\ Trace(p, n) \in Registers
           /\ {x - 8 * n : x \in {p} \cap (8 * n .. 8 * n + 7)} \in Bytes
           /\ Trace(p, n + 1) =
                Shifted(SymDiff(Trace(p, n), {x - 8 * n : x \in {p} \cap (8 * n .. 8 * n + 7)}), 8)
<1> DEFINE hit == {x - 8 * n : x \in {p} \cap (8 * n .. 8 * n + 7)}
<1>0. {0} \in Registers /\ {} \in Registers /\ 8 \in Nat
  BY DEF Registers
<1>1. Trace(p, n) \in Registers
  <2>1. p < 8 * n => 8 * n - p \in Nat
    OBVIOUS
  <2> QED
    BY <1>0, <2>1, ShiftedStep DEF Trace
<1>2. hit \in Bytes
  BY DEF Bytes
<1>3. CASE p < 8 * n
  <2>1. hit = {} /\ p < 8 * (n + 1) /\ 8 * (n + 1) - p = (8 * n - p) + 8 /\ 8 * n - p \in Nat
    BY <1>3
  <2>2. SymDiff(Trace(p, n), hit) = Shifted({0}, 8 * n - p)
    BY <1>3, <2>1 DEF Trace, SymDiff
  <2>3. Trace(p, n + 1) = Shifted({0}, (8 * n - p) + 8)
    BY <2>1 DEF Trace
  <2>4. Shifted(Shifted({0}, 8 * n - p), 8) = Shifted({0}, (8 * n - p) + 8)
    BY <1>0, <2>1, ShiftedAgain
  <2> HIDE DEF hit
  <2> QED
    BY <1>1, <1>2, <2>2, <2>3, <2>4 DEF hit
<1>4. CASE p \in 8 * n .. 8 * n + 7
  <2> DEFINE b == p - 8 * n
  <2>1. b \in 0 .. 7 /\ hit = {b} /\ Trace(p, n) = {}
    <3>1. ~ (p < 8 * n) /\ p - 8 * n \in 0 .. 7
      BY <1>4
    <3>2. {p} \cap (8 * n .. 8 * n + 7) = {p}
      BY <1>4
    <3> QED
      BY <3>1, <3>2 DEF Trace
  <2>2. Trace(p, n + 1) = Shifted({0}, 8 - b)
    <3>1. p < 8 * (n + 1) /\ 8 * (n + 1) - p = 8 - b
      BY <1>4
    <3> QED
      BY <3>1 DEF Trace
  <2> HIDE DEF b, hit
  <2>3. {b} \in Registers /\ b \in Nat /\ 8 - b \in Nat /\ b + (8 - b) = 8
    BY <2>1 DEF Registers
  <2>4. Shifted({b}, b) = Moved({b}, b)
    BY <2>3, BitsSlide
  <2>5. Moved({b}, b) = {0}
    BY <2>3 DEF Moved
  <2>6. Shifted(Shifted({b}, b), 8 - b) = Shifted({b}, 8)
    BY <2>3, ShiftedAgain
  <2>7. SymDiff({}, {b}) = {b}
    BY DEF SymDiff
  <2> QED
    BY <1>1, <1>2, <2>1, <2>2, <2>4, <2>5, <2>6, <2>7 DEF hit
<1>5. CASE p > 8 * n + 7
  <2>1. ~ (p < 8 * n) /\ ~ (p < 8 * (n + 1)) /\ hit = {}
    BY <1>5
  <2>2. Trace(p, n) = {} /\ Trace(p, n + 1) = {}
    BY <2>1 DEF Trace
  <2>3. SymDiff({}, {}) = {} /\ Shifted({}, 8) = {}
    BY <1>0, ShiftedIsLinear DEF SymDiff
  <2> HIDE DEF hit
  <2> QED
    BY <1>1, <1>2, <2>1, <2>2, <2>3 DEF hit
<1> QED
  BY <1>3, <1>4, <1>5

\* Two bits do not make up for each other.
LEMMA TwoBitsShow ==
    ASSUME OnTheLine, NEW p, NEW q, noise = {p, q}, p \in Nat, q \in Nat, p < q
    PROVE  Apart(Len(frame)) # {}
<1> DEFINE len == Len(frame)
           T == {n \in Nat : n <= len => Apart(n) = SymDiff(Trace(p, n), Trace(q, n))}
<1>0. len \in Nat /\ len <= 8 /\ q < 8 * len
  <2>1. len \in 0 .. 8 /\ noise \in SUBSET (0 .. 8 * len - 1)
    BY DEF OnTheLine
  <2>2. q \in noise
    OBVIOUS
  <2>3. q \in 0 .. 8 * len - 1
    BY <2>1, <2>2
  <2> HIDE DEF len
  <2> QED
    BY <2>1, <2>3
<1>1. 0 \in T
  <2>1. ~ (p < 8 * 0) /\ ~ (q < 8 * 0)
    OBVIOUS
  <2>2. Trace(p, 0) = {} /\ Trace(q, 0) = {}
    BY <2>1 DEF Trace
  <2> QED
    BY <2>2, ApartStep DEF SymDiff
<1>2. ASSUME NEW n \in T PROVE n + 1 \in T
  <2>1. SUFFICES ASSUME n + 1 <= len PROVE Apart(n + 1) = SymDiff(Trace(p, n + 1), Trace(q, n + 1))
    OBVIOUS
  <2>2. n \in Nat /\ n \in 0 .. len - 1 /\ n <= len
    BY <1>0, <2>1
  <2>3. Apart(n) = SymDiff(Trace(p, n), Trace(q, n))
    BY <2>2
  <2> DEFINE hit(r) == {x - 8 * n : x \in {r} \cap (8 * n .. 8 * n + 7)}
  <2>4. Hit(n + 1) = SymDiff(hit(p), hit(q))
    <3>1. 8 * ((n + 1) - 1) = 8 * n /\ 8 * (n + 1) - 1 = 8 * n + 7
      BY <2>2
    <3>2. Hit(n + 1) = {x - 8 * n : x \in noise \cap (8 * n .. 8 * n + 7)}
      BY <3>1 DEF Hit
    <3>3. Hit(n + 1) = hit(p) \cup hit(q)
      BY <3>2
    <3>4. \A x \in hit(p), y \in hit(q) : x # y
      BY <2>2
    <3> HIDE DEF hit
    <3> QED
      BY <3>3, <3>4 DEF SymDiff
  <2>5. /\ Trace(p, n) \in Registers /\ hit(p) \in Bytes
        /\ Trace(p, n + 1) = Shifted(SymDiff(Trace(p, n), hit(p)), 8)
    BY <2>2, TraceStep
  <2>6. /\ Trace(q, n) \in Registers /\ hit(q) \in Bytes
        /\ Trace(q, n + 1) = Shifted(SymDiff(Trace(q, n), hit(q)), 8)
    BY <2>2, TraceStep
  <2> HIDE DEF hit
  <2>7. Apart(n + 1) = Shifted(SymDiff(Apart(n), Hit(n + 1)), 8)
    BY <2>2, ApartStep
  <2> DEFINE X == SymDiff(Trace(p, n), hit(p))
             Y == SymDiff(Trace(q, n), hit(q))
  <2>8. SymDiff(Apart(n), Hit(n + 1)) = SymDiff(X, Y)
    BY <2>3, <2>4 DEF SymDiff
  <2>9. X \in Registers /\ Y \in Registers /\ 8 \in Nat
    BY <2>5, <2>6, ByteOfRegister
  <2> HIDE DEF X, Y
  <2>10. Shifted(SymDiff(X, Y), 8) = SymDiff(Shifted(X, 8), Shifted(Y, 8))
    BY <2>9, ShiftedIsLinear
  <2> QED
    BY <2>5, <2>6, <2>7, <2>8, <2>10 DEF X, Y
<1>3. T = Nat
  <2>1. T \in SUBSET Nat
    OBVIOUS
  <2> HIDE DEF T
  <2> QED
    BY <1>1, <1>2, <2>1, SetInduction
<1>4. Apart(len) = SymDiff(Trace(p, len), Trace(q, len))
  BY <1>0, <1>3
<1> DEFINE k == 8 * len - q
           d == q - p
           A == Shifted({0}, d)
<1>5. k \in Nat /\ d \in 1 .. 63 /\ d \in Nat /\ d + k = 8 * len - p /\ p < 8 * len
  BY <1>0
<1>6. {0} \in Registers /\ A \in Registers
  <2>1. {0} \in Registers
    BY DEF Registers
  <2> HIDE DEF d
  <2> QED
    BY <1>5, <2>1, ShiftedStep
<1>7. Trace(q, len) = Shifted({0}, k) /\ Trace(p, len) = Shifted({0}, d + k)
  BY <1>0, <1>5 DEF Trace
<1> HIDE DEF k, d
<1>8. Shifted(A, k) = Shifted({0}, d + k)
  BY <1>5, <1>6, ShiftedAgain
<1>9. Apart(len) = Shifted(SymDiff(A, {0}), k)
  <2> HIDE DEF A
  <2>1. Shifted(SymDiff(A, {0}), k) = SymDiff(Shifted(A, k), Shifted({0}, k))
    BY <1>5, <1>6, ShiftedIsLinear
  <2> QED
    BY <1>4, <1>7, <1>8, <2>1
<1>10. A # {0}
  BY <1>5, BitDoesNotReturn
<1> HIDE DEF A
<1>11. SymDiff(A, {0}) \in Registers /\ SymDiff(A, {0}) # {}
  <2>1. SymDiff(A, {0}) \in Registers
    BY <1>6, TurnIsLinear
  <2> QED
    BY <1>10, <2>1 DEF SymDiff
<1> QED
  BY <1>5, <1>9, <1>11, ShiftedIsLinear

\* Up to three bits that were turned round do not leave a valid checksum.
LEMMA NoiseIsHeard ==
    ASSUME OnTheLine, FrameHasValidCrc(frame), noise # {}, Cardinality(noise) <= 3
    PROVE  ~ FrameHasValidCrc(Heard)
<1>1. Heard \in Seq(Bytes) /\ Len(Heard) = Len(frame) /\ IsFiniteSet(noise)
  BY HeardIsFrame
<1>2. SUFFICES ASSUME FrameHasValidCrc(Heard) PROVE FALSE
  OBVIOUS
<1>3. Apart(Len(frame)) = {}
  <2>1. CrcAfter(frame, Len(frame)) = {}
    BY ValidCrcLeavesZero DEF OnTheLine
  <2>2. CrcAfter(Heard, Len(frame)) = {}
    BY <1>1, <1>2, ValidCrcLeavesZero
  <2> QED
    BY <2>1, <2>2 DEF Apart, SymDiff
<1>4. Cardinality(noise) \in Nat /\ Cardinality(noise) # 0
  BY <1>1, FS_CardinalityType, FS_EmptySet
<1>5. CASE Cardinality(noise) = 1 \/ Cardinality(noise) = 3
  <2>1. Odd(noise)
    BY <1>5 DEF Odd
  <2> QED
    BY <1>3, <2>1, OddNoiseShows
<1>6. CASE Cardinality(noise) = 2
  <2>1. PICK p \in noise : TRUE
    OBVIOUS
  <2>2. IsFiniteSet(noise \ {p}) /\ Cardinality(noise \ {p}) = 1
    BY <1>1, <1>6, <2>1, FS_RemoveElement
  <2>3. PICK q : noise \ {p} = {q}
    BY <2>2, FS_Singleton
  <2>4. noise = {p, q} /\ p # q
    BY <2>1, <2>3
  <2>5. p \in Nat /\ q \in Nat
    BY <2>4 DEF OnTheLine
  <2>6. CASE p < q
    BY <1>3, <2>4, <2>5, <2>6, TwoBitsShow
  <2>7. CASE q < p
    <3>1. noise = {q, p}
      BY <2>4
    <3> QED
      BY <1>3, <2>5, <2>7, <3>1, TwoBitsShow
  <2> QED
    BY <2>4, <2>5, <2>6, <2>7
<1> QED
  BY <1>4, <1>5, <1>6

LEMMA BitsAreByte ==
    ASSUME NEW n
    PROVE  Bits(n) \in Bytes
  BY DEF Bits, Bytes

\* The requests of a master are requests as the node takes them.
MasterIsSound == \A f \in Requests : ParseRequest(f) = "OK"

\* What is sent is a frame of the protocol's length with its checksum.
LEMMA SentIsValid ==
    ASSUME MasterIsSound, NEW f \in Requests \cup Answers
    PROVE  f \in Seq(Bytes) /\ Len(f) \in 5 .. 8 /\ FrameHasValidCrc(f)
<1>1. CASE f \in Requests
  <2>1. PICK w \in WireFrames : f = [i \in DOMAIN w |-> Bits(w[i])]
    BY <1>1 DEF Requests
  <2>2. w \in Seq(0 .. 255)
    BY FrameAssumption
  <2>3. DOMAIN w = 1 .. Len(w) /\ Len(w) \in Nat
    BY <2>2
  <2>4. f \in [1 .. Len(w) -> Bytes]
    BY <2>1, <2>3, BitsAreByte
  <2>5. f \in Seq(Bytes)
    BY <2>3, <2>4
  <2>6. ParseRequest(f) = "OK"
    BY <1>1 DEF MasterIsSound
  <2>7. ~ (Len(f) < 5) /\ FrameHasValidCrc(f) /\ Len(f) = 8
    BY <2>6 DEF ParseRequest
  <2> QED
    BY <2>5, <2>7
<1>2. CASE f \in Answers
  <2>1. ASSUME NEW body \in Seq(Bytes), Len(body) \in 3 .. 6, f = WithCrc(body)
        PROVE  f \in Seq(Bytes) /\ Len(f) \in 5 .. 8 /\ FrameHasValidCrc(f)
    <3>1. Len(body) >= 1
      BY <2>1
    <3>2. f \in Seq(Bytes) /\ Len(f) = Len(body) + 2 /\ FrameHasValidCrc(f)
      BY <2>1, <3>1, WithCrcIsValid
    <3>3. Len(body) + 2 \in 5 .. 8
      <4>1. \A n \in 3 .. 6 : n + 2 \in 5 .. 8
        OBVIOUS
      <4> QED
        BY <2>1, <4>1, Zenon
    <3> QED
      BY <3>2, <3>3
  <2>2. OwnSlaveAddr \in Bytes /\ \A n : Bits(n) \in Bytes
    BY BitsAreByte DEF OwnSlaveAddr
  <2>3. CASE f = BuildResponse(OwnSlaveAddr, Bits(3), <<Bits(2), Bits(8), Bits(202)>>)
    <3> DEFINE body == <<OwnSlaveAddr, Bits(3)>> \o <<Bits(2), Bits(8), Bits(202)>>
    <3>1. body \in Seq(Bytes) /\ Len(body) = 5
      BY <2>2
    <3>2. f = WithCrc(body)
      BY <2>3 DEF BuildResponse
    <3> HIDE DEF body
    <3>3. Len(body) \in 3 .. 6
      BY <3>1
    <3> QED
      BY <2>1, <3>1, <3>2, <3>3
  <2>4. CASE f = BuildResponse(OwnSlaveAddr, Bits(6), <<Bits(1), Bits(2), Bits(3), Bits(232)>>)
    <3> DEFINE body == <<OwnSlaveAddr, Bits(6)>> \o <<Bits(1), Bits(2), Bits(3), Bits(232)>>
    <3>1. body \in Seq(Bytes) /\ Len(body) = 6
      BY <2>2
    <3>2. f = WithCrc(body)
      BY <2>4 DEF BuildResponse
    <3> HIDE DEF body
    <3>3. Len(body) \in 3 .. 6
      BY <3>1
    <3> QED
      BY <2>1, <3>1, <3>2, <3>3
  <2>5. CASE f = BuildException(OwnSlaveAddr, Bits(3), Bits(2))
    <3> DEFINE body == <<OwnSlaveAddr, Bits(3) \cup {7}, Bits(2)>>
    <3>1. body \in Seq(Bytes) /\ Len(body) = 3
      <4>1. Bits(3) \cup {7} \in Bytes
        BY <2>2 DEF Bytes
      <4> QED
        BY <2>2, <4>1
    <3>2. f = WithCrc(body)
      BY <2>5 DEF BuildException
    <3> HIDE DEF body
    <3>3. Len(body) \in 3 .. 6
      BY <3>1
    <3> QED
      BY <2>1, <3>1, <3>2, <3>3
  <2> QED
    BY <1>2, <2>3, <2>4, <2>5 DEF Answers
<1> QED
  BY <1>1, <1>2

\* A frame is on the way and at most MaxFlips of its bits are turned round.
FrameInv ==
    /\ frame \in Requests \cup Answers
    /\ OnTheLine
    /\ Cardinality(noise) <= MaxFlips

LEMMA FrameInductive ==
    ASSUME MasterIsSound
    PROVE  FrameSpec => []FrameInv
<1>1. FrameInit => FrameInv
  <2> SUFFICES ASSUME FrameInit PROVE FrameInv
    OBVIOUS
  <2>1. frame \in Requests \cup Answers /\ noise = {}
    BY DEF FrameInit
  <2>2. frame \in Seq(Bytes) /\ Len(frame) \in 0 .. 8
    BY <2>1, SentIsValid
  <2>3. Cardinality(noise) <= MaxFlips
    BY <2>1, FS_EmptySet, FrameAssumption
  <2> QED
    BY <2>1, <2>2, <2>3 DEF FrameInv, OnTheLine
<1>2. FrameInv /\ [FrameNext]_frameVars => FrameInv'
  <2> SUFFICES ASSUME FrameInv, [FrameNext]_frameVars PROVE FrameInv'
    OBVIOUS
  <2>1. ASSUME NEW n \in 0 .. 8 * Len(frame) - 1, Flip(n) PROVE FrameInv'
    <3>1. Cardinality(noise) < MaxFlips /\ noise' = noise \cup {n} /\ frame' = frame
      BY <2>1 DEF Flip
    <3>2. OnTheLine'
      BY <3>1 DEF FrameInv, OnTheLine
    <3>3. IsFiniteSet(noise)
      BY HeardIsFrame DEF FrameInv
    <3>4. Cardinality(noise) \in Nat /\ MaxFlips \in Nat
      BY <3>3, FS_CardinalityType, FrameAssumption
    <3>5. Cardinality(noise \cup {n}) = Cardinality(noise)
          \/ Cardinality(noise \cup {n}) = Cardinality(noise) + 1
      BY <3>3, FS_AddElement
    <3>6. Cardinality(noise \cup {n}) <= MaxFlips
      BY <3>1, <3>4, <3>5
    <3>7. (Requests \cup Answers)' = Requests \cup Answers
      BY DEF Requests, Answers, BuildResponse, BuildException, WithCrc
    <3> QED
      BY <3>1, <3>2, <3>6, <3>7 DEF FrameInv
  <2>2. CASE UNCHANGED frameVars
    BY <2>2 DEF FrameInv, frameVars, OnTheLine
  <2> QED
    BY <2>1, <2>2 DEF FrameNext
<1> QED
  BY <1>1, <1>2, PTL DEF FrameSpec

\* Whatever the master's requests, a frame of at most eight bytes in which one, two or
\* three bits were turned round is refused for its checksum, and one that came through
\* is not.
THEOREM DamageIsNoticed ==
    ASSUME MasterIsSound, MaxFlips <= 3
    PROVE  FrameSpec => []DamagedFramesAreRefused
<1>1. FrameInv => DamagedFramesAreRefused
  <2> SUFFICES ASSUME FrameInv PROVE DamagedFramesAreRefused
    OBVIOUS
  <2>1. frame \in Requests \cup Answers /\ OnTheLine
    BY DEF FrameInv
  <2>2. Len(frame) \in 5 .. 8 /\ FrameHasValidCrc(frame)
    BY <2>1, SentIsValid
  <2>3. Len(Heard) = Len(frame) /\ (noise = {} => Heard = frame) /\ IsFiniteSet(noise)
    BY <2>1, HeardIsFrame
  <2>4. Cardinality(noise) <= 3
    <3>1. Cardinality(noise) \in Nat /\ MaxFlips \in Nat
      BY <2>3, FS_CardinalityType, FrameAssumption
    <3> QED
      BY <3>1 DEF FrameInv
  <2>5. noise # {} => ~ FrameHasValidCrc(Heard)
    BY <2>1, <2>2, <2>4, NoiseIsHeard
  <2>6. noise = {} => FrameHasValidCrc(Heard)
    BY <2>2, <2>3
  <2>7. noise # {} => ParseRequest(Heard) = "CRC"
    <3>1. ~ (Len(Heard) < 5)
      <4>1. \A n \in 5 .. 8 : ~ (n < 5)
        OBVIOUS
      <4>2. Len(Heard) \in 5 .. 8
        BY <2>2, <2>3, Zenon
      <4> QED
        BY <4>1, <4>2, Zenon
    <3> QED
      BY <2>5, <3>1, Zenon DEF ParseRequest
  <2>8. noise = {} /\ frame \in Requests => ParseRequest(Heard) = "OK"
    BY <2>3 DEF MasterIsSound
  <2> QED
    BY <2>5, <2>6, <2>7, <2>8 DEF DamagedFramesAreRefused
<1> QED
  BY <1>1, FrameInductive, PTL
=============================================================================
