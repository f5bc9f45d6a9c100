----------------------------- MODULE ClimateApp -----------------------------
(***************************************************************************)
(* The application of src/app/app.c around the automaton of Controller, in *)
(* the firmware: start-up, the sampling task with the relay output, and    *)
(* the path of a Modbus write (function 0x06) from main_mcu.c through      *)
(* app_update_config and the storage to ctrl_init.  A function runs to     *)
(* completion between two others: the superloop is cooperative.  What it   *)
(* shares with the brown-out interrupt, which falls into the functions, is *)
(* the subject of module Emergency, and that interrupt is left out here.   *)
(***************************************************************************)
EXTENDS Controller, Storage

CONSTANTS
    InitialFlash,  \* contents the flash may have
    ConfigWrites   \* [reg, value] pairs a Modbus master may write

ConfigRegisters == {"MARGIN_ON", "MARGIN_OFF", "SAMPLE_MS"}

ASSUME AppAssumption ==
    /\ InitialFlash \subseteq [Slots -> Image]
    /\ \A f \in InitialFlash : \A i \in Slots : Usable(f[i]) => f[i].sample_period_ms > 0
    /\ \A w \in ConfigWrites :
         /\ w.reg \in ConfigRegisters /\ w.value \in Int
         /\ w.reg = "SAMPLE_MS" => w.value \in Nat

VARIABLES
    app_cfg,     \* app->cfg, the configuration the registers report
    flash,       \* the two slots
    relay_prev,  \* app->relay_prev
    reply        \* the answer to the last Modbus write

\* For the properties: whether a write has been accepted since the start.
VARIABLE written

appOnlyVars == <<app_cfg, flash, relay_prev, reply, written>>
appVars     == <<vars, appOnlyVars>>

\* The controller_config_t that app_init and app_apply_config build.
ControllerConfig(device) ==
    [dew_margin_on_cd |-> device.dew_margin_on_cd,
     dew_margin_off_cd |-> device.dew_margin_off_cd,
     sample_period_ms |-> device.sample_period_ms,
     fault_threshold |-> 3, recovery_threshold |-> 3, relay_safe_state |-> FALSE]
-----------------------------------------------------------------------------
\* app_init, whose initialisation of the automaton main_mcu.c then repeats, from the
\* defaults and with the cause of the reset.
AppInit(cause) ==
    /\ app_cfg' = StorageLoad(flash)
    /\ CtrlInitExtended(CONTROLLER_DEFAULTS, cause)
    /\ relay_prev' = FALSE
    /\ relay_pin' = relay_prev'
    /\ reply' = "none" /\ written' = FALSE
    /\ UNCHANGED flash

\* Mutant: the switched relay is not remembered.
AppTaskForgets(s) ==
    /\ CtrlUpdate(s)
    /\ relay_pin' = IF relay_on' # relay_prev THEN relay_on' ELSE relay_pin
    /\ UNCHANGED <<app_cfg, flash, reply, written, relay_prev>>

\* A sensor that fails to read delivers a sample of quality INVALID.
AppTask(s) ==
    /\ CtrlUpdate(s)
    /\ IF relay_on' # relay_prev
       THEN relay_pin' = relay_on' /\ relay_prev' = relay_on'
       ELSE UNCHANGED <<relay_pin, relay_prev>>
    /\ UNCHANGED <<app_cfg, flash, reply, written>>

\* mb_regs_write_single refuses a period of zero with an exception.
RefusedWrite(w) ==
    /\ w.reg = "SAMPLE_MS" /\ w.value = 0
    /\ reply' = "exception"
    /\ UNCHANGED <<vars, app_cfg, flash, relay_prev, written>>

\* apply_modbus_write_to_app: one field of the current configuration is replaced.
Written(w) ==
    CASE w.reg = "MARGIN_ON"  -> [app_cfg EXCEPT !.dew_margin_on_cd = w.value]
      [] w.reg = "MARGIN_OFF" -> [app_cfg EXCEPT !.dew_margin_off_cd = w.value]
      [] w.reg = "SAMPLE_MS"  -> [app_cfg EXCEPT !.sample_period_ms = w.value]

\* Mutants: the new configuration is reported but not applied; the re-initialisation
\* also forgets that the relay is on.
AppUpdateNotApplied(w) ==
    /\ ~(w.reg = "SAMPLE_MS" /\ w.value = 0)
    /\ app_cfg' = Written(w)
    /\ flash' = StorageSave(flash, app_cfg')
    /\ reply' = "echo" /\ written' = TRUE
    /\ UNCHANGED <<ctrlVars, relay_pin, relay_prev>>

AppUpdateForgetsRelay(w) ==
    /\ ~(w.reg = "SAMPLE_MS" /\ w.value = 0)
    /\ app_cfg' = Written(w)
    /\ flash' = StorageSave(flash, app_cfg')
    /\ CtrlInit(ControllerConfig(app_cfg'))
    /\ relay_prev' = FALSE
    /\ reply' = "echo" /\ written' = TRUE
    /\ UNCHANGED relay_pin

\* app_update_config, with a save that never fails in the firmware.
AppUpdateConfig(w) ==
    /\ ~(w.reg = "SAMPLE_MS" /\ w.value = 0)
    /\ app_cfg' = Written(w)
    /\ flash' = StorageSave(flash, app_cfg')
    /\ CtrlInit(ControllerConfig(app_cfg'))
    /\ reply' = "echo" /\ written' = TRUE
    /\ UNCHANGED <<relay_pin, relay_prev>>
-----------------------------------------------------------------------------
\* The first start, a power-on with a cleared backup register.
ClimateInit ==
    /\ flash \in InitialFlash
    /\ app_cfg = StorageLoad(flash)
    /\ cfg = Sanitised(CONTROLLER_DEFAULTS)
    /\ filter_count = 0 /\ margin_cd = 0
    /\ sensor_error_streak = 0 /\ sensor_ok_streak = 0
    /\ relay_on = FALSE /\ relay_pin = FALSE /\ relay_prev = FALSE
    /\ state = "INIT" /\ last_error = "ERR_NOT_READY"
    /\ watchdog_crash_counter = 0 /\ backup = 0
    /\ power_is_dying = FALSE
    /\ reply = "none" /\ written = FALSE

Start       == \E cause \in Causes : AppInit(cause)
Sampling    == \E s \in Samples : AppTask(s)
ModbusWrite == \E w \in ConfigWrites : RefusedWrite(w) \/ AppUpdateConfig(w)

ClimateNext == Start \/ Sampling \/ ModbusWrite

ClimateSpec == ClimateInit /\ [][ClimateNext]_appVars
-----------------------------------------------------------------------------
(* Properties *)

\* Types of the application's own variables, the automaton's included.
AppTypeOK ==
    /\ TypeOK
    /\ app_cfg \in DeviceConfig
    /\ flash \in [Slots -> Image]
    /\ relay_prev \in BOOLEAN
    /\ reply \in {"none", "echo", "exception"}

\* Whenever the sampling task returns, the output is what the automaton asks for:
\* comparing with relay_prev loses no change, although configuration writes change
\* relay_on behind its back.  (A brown-out within the task: module Emergency.)
TaskDrivesPin == [][Sampling => relay_pin' = relay_on']_appVars

\* The output and the automaton disagree only over a heater that was on when a write
\* re-initialised the automaton and that the task, which knows of it, is still to switch
\* off at the next sample.  So the heater is off in SAFE and never on unasked for.
PinAwaitsSample ==
    relay_pin # relay_on =>
      relay_pin /\ relay_prev /\ state = "INIT" /\ filter_count = 0

Ordered(device) == device.dew_margin_on_cd < device.dew_margin_off_cd

InForce(device) ==
    /\ cfg.dew_margin_on_cd = device.dew_margin_on_cd
    /\ cfg.dew_margin_off_cd = device.dew_margin_off_cd
    /\ cfg.sample_period_ms = device.sample_period_ms

\* Of the copies of the configuration, the registers report what the flash held until
\* a write, while the automaton works with the defaults; from the first accepted write
\* on it works with every part of what the registers report whenever its margins are in
\* order, whatever turned margins ctrl_init has repaired in between.
WrittenConfigInForce ==
    IF written THEN Ordered(app_cfg) => InForce(app_cfg)
    ELSE cfg = Sanitised(CONTROLLER_DEFAULTS) /\ app_cfg = StorageLoad(flash)

\* The Safe Mode that crash isolation enters is permanent: only a restart ends
\* it (README.md, "enters a permanent Safe Mode"; state_machine_diagram.mermaid,
\* "system_reset_required").
SafeModeIsPermanent == [][state = "SAFE" => state' = "SAFE" \/ Start]_appVars
=============================================================================
