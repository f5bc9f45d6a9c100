----------------------------- MODULE MCSuperloop -----------------------------
(* Instance of Superloop for TLC, in units of 100 ms. *)
EXTENDS Superloop

\* Every period up to the boot period and an iteration per unit; the boot period
\* and stalls of almost a whole period.
MCRegimes == {[written |-> 1 .. 10, stall |-> 1], [written |-> {10}, stall |-> 9]}

\* A period just above the boot period.
MCLongPeriod == {[written |-> {11}, stall |-> 1]}
=============================================================================
