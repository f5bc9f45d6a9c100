--------------------------- MODULE SampleDebounce ---------------------------
(***************************************************************************)
(* What the sensor-fault debouncing of ctrl_update promises, said of the   *)
(* samples themselves rather than of counters: a fault is declared exactly *)
(* when the latest limits.fault samples since the last initialisation are  *)
(* all bad, and is withdrawn exactly when the latest limits.recovery are   *)
(* all good.                                                               *)
(***************************************************************************)
EXTENDS Integers, Sequences

CONSTANT Depth   \* how many samples are remembered, at least one: no limit may exceed it

VARIABLES
    recent,  \* goodness of the latest samples, oldest first
    limits,  \* [fault, recovery]
    faulty,
    locked   \* samples are no longer looked at

debounceVars == <<recent, limits, faulty, locked>>

Limits == [fault : 1 .. Depth, recovery : 1 .. Depth]

Remember(log, good) ==
    IF Len(log) < Depth THEN Append(log, good) ELSE Append(Tail(log), good)

LatestAll(log, n, good) ==
    /\ Len(log) >= n
    /\ \A i \in 0 .. n - 1 : log[Len(log) - i] = good

Sampled(good) ==
    /\ ~locked
    /\ recent' = Remember(recent, good)
    /\ faulty' = \/ LatestAll(recent', limits.fault, FALSE)
                 \/ faulty /\ ~LatestAll(recent', limits.recovery, TRUE)
    /\ UNCHANGED <<limits, locked>>

Restart ==
    /\ recent' = <<>>
    /\ faulty' = FALSE
    /\ limits' \in Limits
    /\ locked' \in BOOLEAN

Lock ==
    /\ locked' = TRUE
    /\ faulty' = FALSE
    /\ UNCHANGED <<recent, limits>>

DebounceInit ==
    /\ recent = <<>>
    /\ faulty = FALSE
    /\ limits \in Limits
    /\ locked = FALSE

DebounceNext == (\E good \in BOOLEAN : Sampled(good)) \/ Restart \/ Lock

DebounceSpec == DebounceInit /\ [][DebounceNext]_debounceVars
=============================================================================
