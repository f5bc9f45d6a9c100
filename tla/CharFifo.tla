------------------------------ MODULE CharFifo ------------------------------
(* What the logger promises: a queue of bounded length that drops what no    *)
(* longer fits in, counts it, and hands over its oldest characters.          *)
EXTENDS Integers, Sequences

CONSTANTS Capacity, Chunk, Chars

VARIABLES queue, dropped, handed   \* handed: the characters handed over last

fifoVars == <<queue, dropped, handed>>

Put(c) ==
    /\ Len(queue) < Capacity
    /\ queue' = Append(queue, c)
    /\ UNCHANGED <<dropped, handed>>

Drop ==
    /\ Len(queue) >= Capacity
    /\ dropped' = dropped + 1
    /\ UNCHANGED <<queue, handed>>

Take ==
    \E n \in 1 .. Chunk :
      /\ n <= Len(queue) /\ (n = Chunk \/ n = Len(queue))
      /\ handed' = SubSeq(queue, 1, n)
      /\ queue' = SubSeq(queue, n + 1, Len(queue))
      /\ UNCHANGED dropped

FifoInit == queue = <<>> /\ dropped = 0 /\ handed = <<>>

FifoNext == (\E c \in Chars : Put(c)) \/ Drop \/ Take

FifoSpec == FifoInit /\ [][FifoNext]_fifoVars
=============================================================================
