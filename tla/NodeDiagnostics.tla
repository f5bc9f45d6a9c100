-------------------------- MODULE NodeDiagnostics --------------------------
(***************************************************************************)
(* The diagnostics of src/core/diagnostics.c beside the application: the   *)
(* control task records every sample it has processed, and nothing else    *)
(* tells the diagnostics what becomes of the automaton.  Kept is what      *)
(* fault_events depends on; the counters of samples, warm-ups and sensor   *)
(* errors, the times and the copies of error and relay are left out.       *)
(***************************************************************************)
EXTENDS ClimateApp

CONSTANT UINT32_MOD   \* 2^32; a run may do with fewer, the count wraps sooner

ASSUME DiagnosticsAssumption == UINT32_MOD \in Nat /\ UINT32_MOD > 1

VARIABLES initialized, last_state, fault_events   \* of the diagnostics_t

\* For the property: the faults the automaton has entered, and whether one of them was
\* over before a sample could show it.
VARIABLES entered, missed

diagVars  == <<initialized, last_state, fault_events>>
countVars == <<entered, missed>>
nodeVars  == <<appVars, diagVars, countVars>>

DiagIsFaultState(s) == s \in {"SENSOR_FAULT", "MATH_FAULT", "SAFE"}

\* A fault that no recorded sample has shown.
Unseen == DiagIsFaultState(state) /\ ~(initialized /\ DiagIsFaultState(last_state))

\* From outside a fault into one.
CountEntered ==
    entered' = IF DiagIsFaultState(state') /\ ~DiagIsFaultState(state)
               THEN (entered + 1) % UINT32_MOD ELSE entered
-----------------------------------------------------------------------------
\* diag_init.  The automaton has been initialised, and possibly locked, by then.
DiagInit == initialized' = FALSE /\ last_state' = "INIT" /\ fault_events' = 0

\* Mutant: every sample in a fault is an event.
DiagRecordEverySample ==
    /\ fault_events' = IF DiagIsFaultState(state')
                       THEN (fault_events + 1) % UINT32_MOD ELSE fault_events
    /\ last_state' = state' /\ initialized' = TRUE

\* diag_record, of a sample that was processed.
DiagRecord ==
    /\ LET is_fault  == DiagIsFaultState(state')
           was_fault == initialized /\ DiagIsFaultState(last_state)
       IN  fault_events' = IF is_fault /\ ~was_fault
                           THEN (fault_events + 1) % UINT32_MOD ELSE fault_events
    /\ last_state' = state' /\ initialized' = TRUE

NodeStart ==
    /\ Start
    /\ DiagInit
    /\ entered' = IF DiagIsFaultState(state') THEN 1 ELSE 0
    /\ missed' = FALSE

\* control_task, at an instant where a sample is due.
ControlTask ==
    /\ Sampling
    /\ DiagRecord
    /\ CountEntered /\ UNCHANGED missed

\* A write, of which the diagnostics are not told.
Intervention ==
    /\ ModbusWrite
    /\ UNCHANGED diagVars
    /\ CountEntered
    /\ missed' = (missed \/ (Unseen /\ ~DiagIsFaultState(state')))

NodeInit ==
    /\ ClimateInit
    /\ initialized = FALSE /\ last_state = "INIT" /\ fault_events = 0
    /\ entered = 0 /\ missed = FALSE

NodeNext == NodeStart \/ ControlTask \/ Intervention

NodeSpec == NodeInit /\ [][NodeNext]_nodeVars
-----------------------------------------------------------------------------
\* fault_events counts the times the automaton fell into a fault since the start
\* (diagnostics.c, "counts edges"): not the samples it stayed in one, and whatever
\* writes took it out of one.  All it ever misses is the lock of a start, until the
\* first sample, or for good when a write ends the lock before that.
FaultsAreCounted ==
    entered = (fault_events + IF Unseen \/ missed THEN 1 ELSE 0) % UINT32_MOD
=============================================================================
