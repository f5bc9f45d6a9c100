----------------------------- MODULE Superloop -----------------------------
(***************************************************************************)
(* The superloop of src/app/main_mcu.c in time: the control task under the *)
(* scheduler and under app_task's own sampling period, the tickets, and    *)
(* the independent watchdog.  All times are relative to now, in units of   *)
(* ClockUnit milliseconds; the Modbus task, whose period is 1 ms, is due   *)
(* in every iteration.  The logger task takes no part in supervision.      *)
(***************************************************************************)
EXTENDS Integers

CONSTANTS
    BootPeriod,     \* the scheduler's control period, CONTROLLER_DEFAULTS.sample_period_ms at boot
    Timeout,        \* the watchdog period given to platform_wdg_init
    Regimes         \* the [written, stall] a behaviour may have: the sample periods that a
                    \* Modbus master may write, and, as a bound, the longest time between
                    \* two iterations of a loop that is not hung

ASSUME SuperloopAssumption ==
    /\ BootPeriod \in Nat \ {0}
    /\ Timeout \in Nat /\ Timeout > BootPeriod
    /\ \A r \in Regimes : r.written \subseteq Nat \ {0} /\ r.stall \in Nat \ {0}

Tickets == {"CONTROL", "COMM"}   \* app->required_tickets

VARIABLES
    regime,        \* never changes
    control_left,  \* tasks[0].next_ms - now
    sample_left,   \* app->next_sample_ms - now
    period,        \* app->ctrl.cfg.sample_period_ms
    ticket_mask,
    pc,            \* where the iteration is
    hung,          \* a task does not return
    wdg_age,       \* time since the watchdog was started or fed
    silence        \* time since the last iteration

loopVars == <<regime, control_left, sample_left, period, ticket_mask, pc, hung, wdg_age, silence>>

LoopInit ==
    /\ regime \in Regimes
    /\ control_left = 0 /\ sample_left = 0
    /\ period = BootPeriod
    /\ ticket_mask = {}
    /\ pc = "control" /\ hung = FALSE
    /\ wdg_age = 0 /\ silence = 0

\* sched_run_once: the next grid point, or a new grid if that is not in the future.
SchedRenew(left, p) == IF left + p > 0 THEN left + p ELSE p

\* app_task: the same, except that a grid point at this very moment is kept.
SampleRenew(left, p) == IF left + p < 0 THEN p ELSE left + p

\* Mutant: the sample is due one tick late.
ProcessedLate == control_left <= 0 /\ sample_left < 0

Processed == control_left <= 0 /\ sample_left <= 0

ControlTask ==
    /\ pc = "control" /\ ~hung
    /\ control_left' = IF control_left <= 0 THEN SchedRenew(control_left, BootPeriod)
                       ELSE control_left
    /\ IF Processed
       THEN /\ sample_left' = SampleRenew(sample_left, period)
            /\ ticket_mask' = ticket_mask \cup {"CONTROL"}
       ELSE UNCHANGED <<sample_left, ticket_mask>>
    /\ pc' = "comm"
    /\ UNCHANGED <<regime, period, hung, wdg_age, silence>>

\* modbus_task marks its ticket on every path; a request may set a new period,
\* which re-initialises the automaton and leaves next_sample_ms as it is.
CommTask ==
    /\ pc = "comm" /\ ~hung
    /\ \E p \in regime.written \cup {period} : period' = p
    /\ ticket_mask' = ticket_mask \cup {"COMM"}
    /\ pc' = "feed"
    /\ UNCHANGED <<regime, control_left, sample_left, hung, wdg_age, silence>>

\* The watchdog is fed only if every required ticket was marked in this
\* iteration; the next iteration begins with no tickets.
FeedAndSleep ==
    /\ pc = "feed" /\ ~hung
    /\ wdg_age' = IF Tickets \subseteq ticket_mask THEN 0 ELSE wdg_age
    /\ ticket_mask' = {}
    /\ pc' = "wfi"
    /\ UNCHANGED <<regime, control_left, sample_left, period, hung, silence>>

WakeUp ==
    /\ pc = "wfi" /\ ~hung /\ silence > 0
    /\ pc' = "control"
    /\ silence' = 0
    /\ UNCHANGED <<regime, control_left, sample_left, period, ticket_mask, hung, wdg_age>>

\* A task enters a loop it does not leave.
Hang ==
    /\ pc \in {"control", "comm"} /\ ~hung
    /\ hung' = TRUE
    /\ UNCHANGED <<regime, control_left, sample_left, period, ticket_mask, pc, wdg_age, silence>>

Elapse ==
    /\ wdg_age < Timeout
    /\ hung \/ (pc = "wfi" /\ silence < regime.stall)
    /\ wdg_age' = wdg_age + 1
    /\ control_left' = control_left - 1
    /\ sample_left' = sample_left - 1
    /\ silence' = IF hung THEN silence ELSE silence + 1
    /\ UNCHANGED <<regime, period, ticket_mask, pc, hung>>

WatchdogReset ==
    /\ wdg_age = Timeout
    /\ control_left' = 0 /\ sample_left' = 0
    /\ period' = BootPeriod
    /\ ticket_mask' = {}
    /\ pc' = "control" /\ hung' = FALSE
    /\ wdg_age' = 0 /\ silence' = 0
    /\ UNCHANGED regime

Iteration == ControlTask \/ CommTask \/ FeedAndSleep \/ WakeUp

LoopNext == Iteration \/ Hang \/ Elapse \/ WatchdogReset

LoopSpec == LoopInit /\ [][LoopNext]_loopVars
-----------------------------------------------------------------------------
(* Property *)

\* The watchdog never reaches its timeout while the loop is turning: the two
\* grids, however a stall has shifted them, always meet in time to be fed.
OnlyHangsAreReset == wdg_age = Timeout => hung
=============================================================================
