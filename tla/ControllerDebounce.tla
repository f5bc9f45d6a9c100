------------------------- MODULE ControllerDebounce -------------------------
(***************************************************************************)
(* Controller with a history of the samples it has taken since it was last *)
(* initialised, and the claim that its 8-bit streak counters implement     *)
(* SampleDebounce.                                                         *)
(***************************************************************************)
EXTENDS Controller, Sequences

CONSTANT HistoryDepth

\* No threshold is longer than the history.
ASSUME HistoryAssumption == HistoryDepth \in Nat /\ HistoryDepth >= UINT8_MOD - 1

VARIABLES
    taken,  \* SampleIsValid of the latest samples that ctrl_update looked at
    beat    \* alternates with the calls of ctrl_update: one that changes nothing is a step

hVars == <<vars, taken, beat>>

Note(good) ==
    taken' = IF Locked THEN taken
             ELSE Append(IF Len(taken) < HistoryDepth THEN taken ELSE Tail(taken), good)

HInit == Init /\ taken = <<>> /\ beat = 0

HUpdate ==
    /\ \E s \in Samples : CtrlUpdate(s) /\ UNCHANGED relay_pin /\ Note(SampleIsValid(s))
    /\ beat' = 1 - beat

HNext ==
    \/ HUpdate
    \/ Reconfigure /\ taken' = <<>> /\ UNCHANGED beat
    \/ Boot /\ taken' = <<>> /\ UNCHANGED beat
    \/ CtrlForceEmergencyShutdown /\ UNCHANGED <<taken, beat>>

HSpec == HInit /\ [][HNext]_hVars

\* The superloop calls ctrl_update once a period for as long as the processor runs.
FairHSpec == HSpec /\ WF_hVars(HUpdate)

\* The mapping: the fault is the SENSOR_FAULT state, the limits are the
\* sanitised thresholds.
Debounce ==
    INSTANCE SampleDebounce WITH
        Depth  <- HistoryDepth,
        recent <- taken,
        limits <- [fault |-> cfg.fault_threshold, recovery |-> cfg.recovery_threshold],
        faulty <- state = "SENSOR_FAULT",
        locked <- Locked

\* SENSOR_FAULT begins exactly with the fault_threshold-th bad sample in a row
\* and ends exactly with the recovery_threshold-th good one in a row, wherever
\* the automaton was in between and however often the streaks wrapped.
ImplementsDebounce == Debounce!DebounceSpec

\* When from some point on every sample is good, the dew point is computable and
\* nothing re-initialises the automaton, it ends up regulating, or is locked in
\* SAFE: no fault and no warm-up is a trap.  A call that changes nothing counts
\* too, by its beat.
HealthySensorReachesRun == <>[][HealthyStep]_hVars => <>[](state \in {"RUN", "SAFE"})
=============================================================================
