--------------------------- MODULE SlidingWindow ---------------------------
(* What the moving average promises: the mean of the latest Size inputs,     *)
(* rounded towards zero, and whether there have been that many.              *)
EXTENDS Integers, Sequences

CONSTANTS Size, WindowInputs

VARIABLES window, mean, ready

windowVars == <<window, mean, ready>>

\* The sums of the beginnings of a sequence.
Totals(seq) ==
    LET upTo[i \in 0 .. Len(seq)] == IF i = 0 THEN 0 ELSE upTo[i - 1] + seq[i]
    IN  upTo

Total(seq) == Totals(seq)[Len(seq)]
Mean(seq)  == LET t == Total(seq)
              IN  IF t >= 0 THEN t \div Len(seq) ELSE -((-t) \div Len(seq))

Slide(x) ==
    /\ window' = Append(IF Len(window) < Size THEN window ELSE Tail(window), x)
    /\ mean' = Mean(window')
    /\ ready' = (Len(window') = Size)

Empty ==
    /\ window' = <<>>
    /\ ready' = FALSE
    /\ UNCHANGED mean

WindowInit == window = <<>> /\ mean = 0 /\ ready = FALSE

WindowSpec == WindowInit /\ [][(\E x \in WindowInputs : Slide(x)) \/ Empty]_windowVars
=============================================================================
