--------------------------- MODULE MovingAverage ---------------------------
(***************************************************************************)
(* The moving-average filter of src/core/filter.c: a ring of samples with  *)
(* a running sum, so that an update costs the same whatever the size.      *)
(***************************************************************************)
EXTENDS CDivision

CONSTANTS MA_FILTER_SIZE, Inputs

ASSUME FilterAssumption == MA_FILTER_SIZE \in Nat \ {0} /\ Inputs \subseteq Int

VARIABLES
    buf, sum, head, count,  \* the ma_filter_t
    out_avg,                \* what the last update put out
    warm                    \* it returned ERR_OK and not ERR_WARMUP

maVars == <<buf, sum, head, count, out_avg, warm>>

Slot == 0 .. MA_FILTER_SIZE - 1

\* Mutant: the running sum survives the reset.
InitKeepsSum ==
    /\ buf' = [i \in Slot |-> 0]
    /\ head' = 0 /\ count' = 0
    /\ warm' = FALSE
    /\ UNCHANGED <<sum, out_avg>>

\* ma_init; the caller's output variable is not touched.
MaInit ==
    /\ buf' = [i \in Slot |-> 0]
    /\ sum' = 0 /\ head' = 0 /\ count' = 0
    /\ warm' = FALSE
    /\ UNCHANGED out_avg

\* The sample that drops out of a full ring.
Leaving == IF count < MA_FILTER_SIZE THEN 0 ELSE buf[head]

MaUpdate(x) ==
    /\ sum' = sum - Leaving + x
    /\ buf' = [buf EXCEPT ![head] = x]
    /\ count' = IF count < MA_FILTER_SIZE THEN count + 1 ELSE count
    /\ head' = IF head + 1 >= MA_FILTER_SIZE THEN 0 ELSE head + 1
    /\ out_avg' = Quotient(sum', count')
    /\ warm' = (count' >= MA_FILTER_SIZE)

FilterInit ==
    /\ buf = [i \in Slot |-> 0]
    /\ sum = 0 /\ head = 0 /\ count = 0
    /\ out_avg = 0 /\ warm = FALSE

FilterNext == MaInit \/ \E x \in Inputs : MaUpdate(x)

FilterSpec == FilterInit /\ [][FilterNext]_maVars
-----------------------------------------------------------------------------
(* Properties *)

\* Whenever the ring has wrapped or been reset, the filter is a sliding window:
\* the window is read from the ring backwards from head.
Window ==
    INSTANCE SlidingWindow WITH
        Size <- MA_FILTER_SIZE, WindowInputs <- Inputs,
        window <- [i \in 1 .. count |->
                      buf[(head + MA_FILTER_SIZE - count + i - 1) % MA_FILTER_SIZE]],
        mean <- out_avg, ready <- warm

ImplementsWindow == Window!WindowSpec
=============================================================================
