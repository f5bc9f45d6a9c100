--------------------------- MODULE FaultIsolation ---------------------------
(***************************************************************************)
(* Crash isolation across resets: the reset flags the hardware leaves in   *)
(* RCC_CSR, how platform_reset_cause_get reads them, and what              *)
(* ctrl_init_extended and ctrl_update do with the crash counter that       *)
(* survives in the backup register.  main_mcu.c always boots with          *)
(* CONTROLLER_DEFAULTS.                                                    *)
(***************************************************************************)
EXTENDS Controller

CONSTANTS
    FlagSets,    \* the sets of RCC_CSR reset flags a reset may leave
    MaxCrashes   \* bound on the watchdog resets of a behaviour

Flags == {"IWDGRSTF", "SFTRSTF", "PINRSTF", "PORRSTF"}

ASSUME FlagSetsAssumption == FlagSets \subseteq SUBSET Flags /\ MaxCrashes \in Nat

VARIABLES
    in_row,          \* watchdog resets since the last RUN decision or other reset
    since_power_on,  \* watchdog resets since the last reset taken for a power-on
    only_crashes     \* no other reset since the last one taken for a power-on

isolationVars == <<vars, in_row, since_power_on, only_crashes>>

\* platform_reset_cause_get tests the flags in this order.
ResetCause(flags) ==
    IF "IWDGRSTF" \in flags THEN "WATCHDOG"
    ELSE IF "SFTRSTF" \in flags THEN "SOFTWARE"
    ELSE IF "PINRSTF" \in flags THEN "EXTERNAL"
    ELSE IF "PORRSTF" \in flags THEN "POWER_ON"
    ELSE "UNKNOWN"

CrashReset ==
    \E flags \in FlagSets :
        /\ ResetCause(flags) = "WATCHDOG"
        /\ since_power_on < MaxCrashes
        /\ CtrlInitExtended(CONTROLLER_DEFAULTS, "WATCHDOG")
        /\ relay_pin' = FALSE
        /\ in_row' = in_row + 1
        /\ since_power_on' = since_power_on + 1
        /\ UNCHANGED only_crashes

OtherReset ==
    \E flags \in FlagSets :
        /\ ResetCause(flags) # "WATCHDOG"
        /\ CtrlInitExtended(CONTROLLER_DEFAULTS, ResetCause(flags))
        /\ relay_pin' = FALSE
        /\ in_row' = 0
        /\ only_crashes' = (ResetCause(flags) = "POWER_ON")
        /\ since_power_on' = IF only_crashes' THEN 0 ELSE since_power_on

Running ==
    /\ Update
    /\ in_row' = IF state' = "RUN" THEN 0 ELSE in_row
    /\ UNCHANGED <<since_power_on, only_crashes>>

IsolationInit ==
    /\ cfg = Sanitised(CONTROLLER_DEFAULTS)
    /\ filter_count = 0 /\ margin_cd = 0
    /\ sensor_error_streak = 0 /\ sensor_ok_streak = 0
    /\ relay_on = FALSE /\ relay_pin = FALSE
    /\ state = "INIT" /\ last_error = "ERR_NOT_READY"
    /\ watchdog_crash_counter = 0 /\ backup = 0
    /\ power_is_dying = FALSE
    /\ in_row = 0 /\ since_power_on = 0 /\ only_crashes = TRUE

IsolationNext == CrashReset \/ OtherReset \/ Running

IsolationSpec == IsolationInit /\ [][IsolationNext]_isolationVars
-----------------------------------------------------------------------------
(* Properties *)

\* Three watchdog resets in a row without a RUN decision lock the output,
\* whatever other resets came before them (README.md: "If 3 consecutive
\* hardware Watchdog (IWDG) resets occur without reaching a stable RUN state").
ThreeInRowLock == in_row >= CRASH_LIMIT => state = "SAFE"

\* The output is locked only after three watchdog resets in a row, as long as
\* the causes in between are none but watchdog and power-on: a reset of another
\* cause clears the counter in RAM and leaves the register, so that crashes
\* before it and after it add up.
LockNeedsThreeInRow == state = "SAFE" /\ only_crashes => in_row >= CRASH_LIMIT

\* Reaching RUN repays the crashes in the register that a later boot reads, and
\* not only in RAM (ctrl_update, the comment before its last if), under the same
\* condition: what a reset of another cause left in the register stays there.
RunForgives == state = "RUN" /\ only_crashes => backup = 0

\* A pending fault isolation is not lost: outside RUN the register holds at
\* least the crashes suffered in a row, so that the next watchdog reset counts on.
CrashesAreRemembered == state # "RUN" => backup >= in_row
=============================================================================
