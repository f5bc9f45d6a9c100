------------------------------ MODULE Controller ------------------------------
(***************************************************************************)
(* The control automaton of src/core/controller.c: ctrl_init,              *)
(* ctrl_init_extended, ctrl_update and ctrl_force_emergency_shutdown, with *)
(* the two platform cells they write: the backup register that survives a  *)
(* reset and the relay output pin.                                         *)
(*                                                                         *)
(* Data abstraction.  The decision of ctrl_update depends on the moving    *)
(* average only through its number of samples, and on the temperature and  *)
(* the dew point only through their difference.  So the filter is its      *)
(* count, and margin_cd stands for filtered_temp_cd - dew_point_cd, chosen *)
(* freely at each decision: every filter and every dew-point function is   *)
(* covered.  The statistics sample_count and fault_count, which nothing    *)
(* reads back, are left out.                                               *)
(***************************************************************************)
EXTENDS SampleTypes

CONSTANTS
    RawConfigs,     \* controller_config_t values a caller may pass
    Samples,        \* sample_t values the sensor port may deliver
    Margins,        \* temperature minus dew point, in 0.01 degC
    MA_FILTER_SIZE, \* samples in the moving average (= MA_WARMUP_SAMPLES)
    UINT8_MOD       \* 2^8 in the firmware; the width of the streak counters

States  == {"INIT", "WARMUP", "RUN", "SENSOR_FAULT", "MATH_FAULT", "SAFE"}
Errors  == {"ERR_OK", "ERR_NOT_READY", "ERR_WARMUP", "ERR_SENSOR", "ERR_MATH", "ERR_HW"}
Causes  == {"POWER_ON", "WATCHDOG", "SOFTWARE", "EXTERNAL", "UNKNOWN"}

UInt8 == 0 .. UINT8_MOD - 1

RawConfig ==
    [dew_margin_on_cd : Int, dew_margin_off_cd : Int, sample_period_ms : Nat,
     fault_threshold : UInt8, recovery_threshold : UInt8, relay_safe_state : BOOLEAN]

ASSUME ConstantsAssumption ==
    /\ MA_FILTER_SIZE \in Nat \ {0}
    /\ UINT8_MOD \in Nat /\ UINT8_MOD > 3
    /\ Margins \subseteq Int
    /\ RawConfigs \subseteq RawConfig
    /\ Samples \subseteq Sample

CONTROLLER_DEFAULTS ==
    [dew_margin_on_cd |-> 500, dew_margin_off_cd |-> 700, sample_period_ms |-> 1000,
     fault_threshold |-> 3, recovery_threshold |-> 3, relay_safe_state |-> FALSE]

CRASH_LIMIT == 3

VARIABLES
    cfg,                    \* the sanitised configuration
    filter_count,           \* filter.count
    margin_cd,              \* filtered_temp_cd - dew_point_cd at the last decision
    sensor_error_streak,
    sensor_ok_streak,
    relay_on,               \* what the automaton wants
    state,
    last_error,
    watchdog_crash_counter, \* RAM copy
    power_is_dying,
    backup,                 \* BKP_DR1
    relay_pin               \* the output platform_relay_set drives

streakVars == <<sensor_error_streak, sensor_ok_streak>>
crashVars  == <<watchdog_crash_counter, backup>>
ctrlVars   == <<cfg, filter_count, margin_cd, streakVars, relay_on, state,
                last_error, crashVars, power_is_dying>>
vars       == <<ctrlVars, relay_pin>>
-----------------------------------------------------------------------------
Increment8(n) == (n + 1) % UINT8_MOD

\* Mutant: a threshold of zero is accepted.
ThresholdAsGiven(n) == n

AtLeastOne(n) == IF n = 0 THEN 1 ELSE n

\* The repairs ctrl_init makes to the configuration it is given.
Sanitised(raw) ==
    LET ordered == raw.dew_margin_on_cd < raw.dew_margin_off_cd
        margins == IF ordered THEN raw ELSE CONTROLLER_DEFAULTS
    IN  [dew_margin_on_cd   |-> margins.dew_margin_on_cd,
         dew_margin_off_cd  |-> margins.dew_margin_off_cd,
         sample_period_ms   |-> IF raw.sample_period_ms = 0 THEN 1000 ELSE raw.sample_period_ms,
         fault_threshold    |-> AtLeastOne(raw.fault_threshold),
         recovery_threshold |-> AtLeastOne(raw.recovery_threshold),
         relay_safe_state   |-> raw.relay_safe_state]
-----------------------------------------------------------------------------
(* Initialisation *)

\* The fields that both initialisers leave the same way.
ClearFields(raw) ==
    /\ cfg' = Sanitised(raw)
    /\ filter_count' = 0
    /\ margin_cd' = 0
    /\ sensor_error_streak' = 0
    /\ sensor_ok_streak' = 0
    /\ relay_on' = raw.relay_safe_state
    /\ power_is_dying' = FALSE

CtrlInit(raw) ==
    /\ ClearFields(raw)
    /\ state' = "INIT"
    /\ last_error' = "ERR_NOT_READY"
    /\ watchdog_crash_counter' = 0
    /\ UNCHANGED backup

\* Mutants: the lock comes one crash late; the crash is counted in RAM only.
WatchdogLockLate(raw) ==
    /\ ClearFields(raw)
    /\ watchdog_crash_counter' = Increment8(backup)
    /\ backup' = watchdog_crash_counter'
    /\ last_error' = "ERR_HW"
    /\ state' = IF watchdog_crash_counter' > CRASH_LIMIT THEN "SAFE" ELSE "WARMUP"

WatchdogNotSaved(raw) ==
    /\ ClearFields(raw)
    /\ watchdog_crash_counter' = Increment8(backup)
    /\ UNCHANGED backup
    /\ last_error' = "ERR_HW"
    /\ state' = IF watchdog_crash_counter' >= CRASH_LIMIT THEN "SAFE" ELSE "WARMUP"

InitAfterWatchdog(raw) ==
    /\ ClearFields(raw)
    /\ watchdog_crash_counter' = Increment8(backup)
    /\ backup' = watchdog_crash_counter'
    /\ last_error' = "ERR_HW"
    /\ state' = IF watchdog_crash_counter' >= CRASH_LIMIT THEN "SAFE" ELSE "WARMUP"

\* Mutant: a power-on leaves the backup register alone.
PowerOnKeepsBackup(raw) ==
    /\ ClearFields(raw)
    /\ watchdog_crash_counter' = 0
    /\ UNCHANGED backup
    /\ last_error' = "ERR_NOT_READY"
    /\ state' = "INIT"

InitAfterPowerOn(raw) ==
    /\ ClearFields(raw)
    /\ watchdog_crash_counter' = 0
    /\ backup' = 0
    /\ last_error' = "ERR_NOT_READY"
    /\ state' = "INIT"

\* Any other cause clears the RAM counter; the backup register keeps its value.
InitAfterOther(raw) ==
    /\ ClearFields(raw)
    /\ watchdog_crash_counter' = 0
    /\ UNCHANGED backup
    /\ last_error' = "ERR_NOT_READY"
    /\ state' = "INIT"

CtrlInitExtended(raw, cause) ==
    \/ cause = "WATCHDOG" /\ InitAfterWatchdog(raw)
    \/ cause = "POWER_ON" /\ InitAfterPowerOn(raw)
    \/ cause \notin {"WATCHDOG", "POWER_ON"} /\ InitAfterOther(raw)
-----------------------------------------------------------------------------
(* ctrl_update *)

Locked   == state = "SAFE" \/ power_is_dying
InFault  == state \in {"SENSOR_FAULT", "MATH_FAULT"}
MakeSafe == relay_on' = cfg.relay_safe_state

RefuseWhenLocked ==
    /\ Locked
    /\ MakeSafe
    /\ UNCHANGED <<cfg, filter_count, margin_cd, streakVars, state, last_error,
                   crashVars, power_is_dying>>

\* Mutants: the fault is declared one sample late; the good streak is not cut.
RejectSampleLate(s) ==
    /\ ~Locked
    /\ ~SampleIsValid(s)
    /\ sensor_error_streak' = Increment8(sensor_error_streak)
    /\ sensor_ok_streak' = 0
    /\ last_error' = "ERR_SENSOR"
    /\ IF sensor_error_streak' > cfg.fault_threshold
       THEN state' = "SENSOR_FAULT" /\ MakeSafe
       ELSE UNCHANGED <<state, relay_on>>
    /\ UNCHANGED <<cfg, filter_count, margin_cd, crashVars, power_is_dying>>

RejectSampleKeepsOk(s) ==
    /\ ~Locked
    /\ ~SampleIsValid(s)
    /\ sensor_error_streak' = Increment8(sensor_error_streak)
    /\ last_error' = "ERR_SENSOR"
    /\ IF sensor_error_streak' >= cfg.fault_threshold
       THEN state' = "SENSOR_FAULT" /\ MakeSafe
       ELSE UNCHANGED <<state, relay_on>>
    /\ UNCHANGED <<cfg, filter_count, margin_cd, sensor_ok_streak, crashVars, power_is_dying>>

RejectSample(s) ==
    /\ ~Locked
    /\ ~SampleIsValid(s)
    /\ sensor_error_streak' = Increment8(sensor_error_streak)
    /\ sensor_ok_streak' = 0
    /\ last_error' = "ERR_SENSOR"
    /\ IF sensor_error_streak' >= cfg.fault_threshold
       THEN state' = "SENSOR_FAULT" /\ MakeSafe
       ELSE UNCHANGED <<state, relay_on>>
    /\ UNCHANGED <<cfg, filter_count, margin_cd, crashVars, power_is_dying>>

\* A fault is not yet confirmed as over.
Recovering == InFault /\ Increment8(sensor_ok_streak) < cfg.recovery_threshold

\* Mutant: a good sample in a fault is not counted.
AwaitRecoveryUncounted(s) ==
    /\ ~Locked
    /\ SampleIsValid(s)
    /\ Recovering
    /\ sensor_error_streak' = 0
    /\ last_error' = "ERR_NOT_READY"
    /\ UNCHANGED <<cfg, filter_count, margin_cd, sensor_ok_streak, relay_on, state,
                   crashVars, power_is_dying>>

AwaitRecovery(s) ==
    /\ ~Locked
    /\ SampleIsValid(s)
    /\ Recovering
    /\ sensor_error_streak' = 0
    /\ sensor_ok_streak' = Increment8(sensor_ok_streak)
    /\ last_error' = "ERR_NOT_READY"
    /\ UNCHANGED <<cfg, filter_count, margin_cd, relay_on, state, crashVars, power_is_dying>>

\* ma_update as far as its result matters: it is warm once it holds MA_FILTER_SIZE samples.
FilterAccepts ==
    filter_count' = IF filter_count < MA_FILTER_SIZE THEN filter_count + 1 ELSE filter_count

AcceptSample(s) ==
    /\ ~Locked
    /\ SampleIsValid(s)
    /\ ~Recovering
    /\ sensor_error_streak' = 0
    /\ sensor_ok_streak' = 0
    /\ FilterAccepts
    /\ UNCHANGED <<cfg, power_is_dying>>

WarmUp(s) ==
    /\ AcceptSample(s)
    /\ filter_count' < MA_FILTER_SIZE
    /\ state' = "WARMUP"
    /\ last_error' = "ERR_WARMUP"
    /\ MakeSafe
    /\ UNCHANGED <<margin_cd, crashVars>>

\* Mutant: the relay stays as it is on an arithmetic fault.
MathFaultKeepsRelay(s) ==
    /\ AcceptSample(s)
    /\ filter_count' >= MA_FILTER_SIZE
    /\ state' = "MATH_FAULT"
    /\ last_error' = "ERR_MATH"
    /\ UNCHANGED <<relay_on, margin_cd, crashVars>>

\* dewpoint_calc_cd returned an error.
MathFault(s) ==
    /\ AcceptSample(s)
    /\ filter_count' >= MA_FILTER_SIZE
    /\ state' = "MATH_FAULT"
    /\ last_error' = "ERR_MATH"
    /\ MakeSafe
    /\ UNCHANGED <<margin_cd, crashVars>>

\* Mutant: the heater is switched on but never off.
HysteresisStaysOn(margin) == relay_on \/ margin < cfg.dew_margin_on_cd

Hysteresis(margin) ==
    IF relay_on THEN ~(margin > cfg.dew_margin_off_cd) ELSE margin < cfg.dew_margin_on_cd

\* Mutant: the crashes are forgiven in RAM only.
ForgiveInRam == watchdog_crash_counter' = 0 /\ UNCHANGED backup

ForgiveCrashes ==
    IF watchdog_crash_counter > 0
    THEN watchdog_crash_counter' = 0 /\ backup' = 0
    ELSE UNCHANGED crashVars

Regulate(s, margin) ==
    /\ AcceptSample(s)
    /\ filter_count' >= MA_FILTER_SIZE
    /\ margin_cd' = margin
    /\ relay_on' = Hysteresis(margin)
    /\ ForgiveCrashes
    /\ state' = "RUN"
    /\ last_error' = "ERR_OK"

CtrlUpdate(s) ==
    \/ RefuseWhenLocked
    \/ RejectSample(s)
    \/ AwaitRecovery(s)
    \/ WarmUp(s)
    \/ MathFault(s)
    \/ \E m \in Margins : Regulate(s, m)

\* The brown-out interrupt, between two updates (module Emergency interleaves it with one).
CtrlForceEmergencyShutdown ==
    /\ power_is_dying' = TRUE
    /\ state' = "SAFE"
    /\ relay_on' = cfg.relay_safe_state
    /\ relay_pin' = relay_on'
    /\ UNCHANGED <<cfg, filter_count, margin_cd, streakVars, last_error, crashVars>>
-----------------------------------------------------------------------------
(* The component with an environment that calls it in any order *)

Init ==
    \E raw \in RawConfigs :
        /\ cfg = Sanitised(raw)
        /\ filter_count = 0
        /\ margin_cd = 0
        /\ sensor_error_streak = 0
        /\ sensor_ok_streak = 0
        /\ relay_on = raw.relay_safe_state
        /\ state = "INIT"
        /\ last_error = "ERR_NOT_READY"
        /\ watchdog_crash_counter = 0
        /\ power_is_dying = FALSE
        /\ backup = 0
        /\ relay_pin = raw.relay_safe_state

Update      == \E s \in Samples : CtrlUpdate(s) /\ UNCHANGED relay_pin
Reconfigure == \E raw \in RawConfigs : CtrlInit(raw) /\ UNCHANGED relay_pin

\* A reset: app_init drives the pin to the safe state before the automaton starts.
Boot ==
    \E raw \in RawConfigs, cause \in Causes :
        CtrlInitExtended(raw, cause) /\ relay_pin' = raw.relay_safe_state

Next == Update \/ Reconfigure \/ Boot \/ CtrlForceEmergencyShutdown

Spec == Init /\ [][Next]_vars
-----------------------------------------------------------------------------
(* Properties *)

\* What every initialisation leaves in cfg.
SaneConfig ==
    {c \in RawConfig : /\ c.dew_margin_on_cd < c.dew_margin_off_cd
                       /\ c.sample_period_ms > 0
                       /\ c.fault_threshold > 0
                       /\ c.recovery_threshold > 0}

\* The type of the automaton's state; the sanitised configuration always has
\* ordered margins, a period and thresholds of at least one (ctrl_init).
TypeOK ==
    /\ cfg \in SaneConfig
    /\ filter_count \in 0 .. MA_FILTER_SIZE
    /\ margin_cd \in Int
    /\ sensor_error_streak \in UInt8
    /\ sensor_ok_streak \in UInt8
    /\ relay_on \in BOOLEAN
    /\ state \in States
    /\ last_error \in Errors
    /\ watchdog_crash_counter \in UInt8
    /\ power_is_dying \in BOOLEAN
    /\ backup \in UInt8
    /\ relay_pin \in BOOLEAN

\* The heater may leave its safe position only in RUN: every path of
\* ctrl_update, every initialiser and the brown-out handler that ends in
\* another state has put relay_on back.
RelaySafeOutsideRun == state # "RUN" => relay_on = cfg.relay_safe_state

\* In RUN, between decisions too (bad samples below the threshold do not
\* decide), the relay agrees with the last margin: on only up to the off
\* threshold, off only from the on threshold up, with a full filter.
RunFollowsHysteresis ==
    state = "RUN" =>
        /\ relay_on => margin_cd <= cfg.dew_margin_off_cd
        /\ ~relay_on => margin_cd >= cfg.dew_margin_on_cd
        /\ filter_count = MA_FILTER_SIZE

\* A run of bad samples long enough to be a fault is never outstanding
\* outside SENSOR_FAULT, whatever wraps the 8-bit streak has been through.
ErrorStreakIsAnswered ==
    state \notin {"SENSOR_FAULT", "SAFE"} => sensor_error_streak < cfg.fault_threshold

\* The count towards recovery is kept only inside a fault, is cut by a bad
\* sample and never reaches the threshold without leaving the fault.
OkStreakOnlyInFault ==
    /\ sensor_ok_streak < cfg.recovery_threshold
    /\ sensor_ok_streak > 0 =>
         state \in {"SENSOR_FAULT", "MATH_FAULT", "SAFE"} /\ sensor_error_streak = 0

\* Once the supply is known to fail, the automaton is in SAFE: between updates, that is,
\* as an interrupted one may still store another state.  A part of the proofs.
DyingMeansSafe == power_is_dying => state = "SAFE"

\* The steps of a healthy phase: good samples and a computable dew point.
HealthyStep ==
    \E s \in Samples :
        /\ SampleIsValid(s)
        /\ UNCHANGED relay_pin
        /\ RefuseWhenLocked \/ AwaitRecovery(s) \/ WarmUp(s) \/ \E m \in Margins : Regulate(s, m)
=============================================================================
