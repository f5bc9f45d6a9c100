----------------------------- MODULE NodeProofs -----------------------------
(***************************************************************************)
(* Theorems about the application and its diagnostics, for every filter,   *)
(* set of samples, margins, stored images and configuration writes, and    *)
(* every width of the counters.                                            *)
(***************************************************************************)
EXTENDS NodeDiagnostics, ControllerProofs

\* What the sampling task relies on: the safe position is off, and the memory of the
\* output is right.
HeaterInv ==
    /\ relay_on \in BOOLEAN /\ relay_pin \in BOOLEAN /\ relay_prev = relay_pin
    /\ cfg.relay_safe_state = FALSE /\ cfg.fault_threshold = 3
    /\ PinAwaitsSample

\* The configurations that app_init and app_apply_config hand to the automaton.
Handed == {ControllerConfig(d) : d \in DeviceConfig} \cup {CONTROLLER_DEFAULTS}

\* They ask for an output that is off in safety, and for three bad samples before a fault.
LEMMA HandedIsPlain ==
    ASSUME NEW raw \in Handed
    PROVE  /\ raw.relay_safe_state = FALSE
           /\ Sanitised(raw).relay_safe_state = FALSE /\ Sanitised(raw).fault_threshold = 3
  BY DEF Handed, ControllerConfig, CONTROLLER_DEFAULTS, Sanitised, AtLeastOne

\* The defaults of the storage are a configuration like any other.
LEMMA DefaultsAreDeviceConfig ==
    StorageDefaults \in DeviceConfig /\ StorageDefaults.sample_period_ms > 0
  BY DEF StorageDefaults, DeviceConfig

\* What is loaded is a configuration, whatever the slots hold.
LEMMA LoadGivesConfig ==
    ASSUME NEW f \in [Slots -> Image]
    PROVE  StorageLoad(f) \in DeviceConfig
<1>1. \A i \in Slots : Usable(f[i]) => f[i] \in DeviceConfig
  BY DEF Image, Usable
<1> QED
  BY <1>1, DefaultsAreDeviceConfig DEF StorageLoad, Slots

\* They are configurations the automaton can be given.
LEMMA HandedIsConfig ==
    ASSUME NEW raw \in Handed
    PROVE  raw \in RawConfig
<1>1. 3 \in UInt8
  BY ConstantsAssumption DEF UInt8
<1>2. CASE raw = CONTROLLER_DEFAULTS
  BY <1>1, <1>2 DEF CONTROLLER_DEFAULTS, RawConfig
<1>3. ASSUME NEW d \in DeviceConfig, raw = ControllerConfig(d)
      PROVE  raw \in RawConfig
  BY <1>1, <1>3 DEF ControllerConfig, RawConfig, DeviceConfig
<1> QED
  BY <1>2, <1>3 DEF Handed

\* What an initialisation does to the heater and to the state.
LEMMA InitOfHeater ==
    ASSUME NEW raw \in Handed,
           CtrlInit(raw) \/ (\E cause \in Causes : CtrlInitExtended(raw, cause))
    PROVE  /\ state' \in {"INIT", "WARMUP", "SAFE"} /\ (CtrlInit(raw) => state' = "INIT")
           /\ power_is_dying' = FALSE /\ relay_on' = FALSE /\ filter_count' = 0
           /\ sensor_error_streak' = 0
           /\ cfg' = Sanitised(raw)
           /\ cfg'.relay_safe_state = FALSE /\ cfg'.fault_threshold = 3
  BY HandedIsPlain DEF CtrlInit, CtrlInitExtended, InitAfterWatchdog, InitAfterPowerOn,
                       InitAfterOther, ClearFields

\* What a sample does: it leaves the configuration alone and makes or ends no lock.
LEMMA UpdateOfHeater ==
    ASSUME NEW s \in Samples, CtrlUpdate(s),
           cfg.relay_safe_state = FALSE, relay_on \in BOOLEAN
    PROVE  cfg' = cfg /\ relay_on' \in BOOLEAN /\ (state = "SAFE" => state' = "SAFE")
<1>1. CASE RefuseWhenLocked
  BY <1>1 DEF RefuseWhenLocked, MakeSafe
<1>2. CASE RejectSample(s)
  BY <1>2 DEF RejectSample, MakeSafe, Locked
<1>3. CASE AwaitRecovery(s)
  BY <1>3 DEF AwaitRecovery, Locked
<1>4. CASE WarmUp(s)
  BY <1>4 DEF WarmUp, AcceptSample, MakeSafe, Locked
<1>5. CASE MathFault(s)
  BY <1>5 DEF MathFault, AcceptSample, MakeSafe, Locked
<1>6. ASSUME NEW m \in Margins, Regulate(s, m)
      PROVE  cfg' = cfg /\ relay_on' \in BOOLEAN /\ state # "SAFE"
  <2>1. relay_on' = Hysteresis(m) /\ cfg' = cfg /\ state # "SAFE"
    BY <1>6 DEF Regulate, AcceptSample, Locked
  <2>2. Hysteresis(m) \in BOOLEAN
    <3>1. CASE relay_on
      BY <3>1, SMT DEF Hysteresis
    <3>2. CASE ~relay_on
      BY <3>2, SMT DEF Hysteresis
    <3> QED
      BY <3>1, <3>2
  <2> QED
    BY <2>1, <2>2
<1> QED
  BY <1>1, <1>2, <1>3, <1>4, <1>5, <1>6 DEF CtrlUpdate

\* After a sample, output and memory agree with the decision.
LEMMA SamplingOfHeater ==
    ASSUME HeaterInv, Sampling
    PROVE  HeaterInv' /\ relay_pin' = relay_on'
<1>1. PICK s \in Samples : AppTask(s)
  BY DEF Sampling
<1>2. CtrlUpdate(s) /\ \/ relay_on' # relay_prev /\ relay_pin' = relay_on' /\ relay_prev' = relay_on'
                       \/ relay_on' = relay_prev /\ relay_pin' = relay_pin /\ relay_prev' = relay_prev
  BY <1>1 DEF AppTask
<1>3. cfg' = cfg /\ relay_on' \in BOOLEAN
  BY <1>2, UpdateOfHeater DEF HeaterInv
<1>4. relay_pin' = relay_on' /\ relay_prev' = relay_on'
  BY <1>2 DEF HeaterInv
<1> QED
  BY <1>3, <1>4 DEF HeaterInv, PinAwaitsSample

\* The same invariant over the other steps.
LEMMA HeaterInductive ==
    ASSUME HeaterInv, app_cfg \in DeviceConfig, [ClimateNext]_appVars
    PROVE  HeaterInv'
<1>1. CASE Start
  <2>1. PICK cause \in Causes : AppInit(cause)
    BY <1>1 DEF Start
  <2>2. /\ relay_prev' = FALSE /\ relay_pin' = FALSE
        /\ \E raw \in Handed : CtrlInitExtended(raw, cause)
    BY <2>1 DEF AppInit, Handed
  <2> QED
    BY <2>2, InitOfHeater DEF HeaterInv, PinAwaitsSample
<1>2. CASE Sampling
  BY <1>2, SamplingOfHeater
<1>3. CASE ModbusWrite
  <2>1. PICK w \in ConfigWrites : RefusedWrite(w) \/ AppUpdateConfig(w)
    BY <1>3 DEF ModbusWrite
  <2>2. CASE RefusedWrite(w)
    BY <2>2 DEF RefusedWrite, HeaterInv, PinAwaitsSample, vars, ctrlVars
  <2>3. CASE AppUpdateConfig(w)
    <3>1. /\ CtrlInit(ControllerConfig(app_cfg')) /\ app_cfg' = Written(w)
          /\ UNCHANGED <<relay_pin, relay_prev>>
      BY <2>3 DEF AppUpdateConfig
    <3>2. Written(w) \in DeviceConfig
      BY AppAssumption DEF Written, DeviceConfig, ConfigRegisters
    <3>3. ControllerConfig(app_cfg') \in Handed
      BY <3>1, <3>2 DEF Handed
    <3>4. state' = "INIT" /\ relay_on' = FALSE /\ filter_count' = 0
          /\ cfg'.relay_safe_state = FALSE /\ cfg'.fault_threshold = 3
      BY <3>1, <3>3, InitOfHeater
    <3> QED
      BY <3>1, <3>4 DEF HeaterInv, PinAwaitsSample
  <2> QED
    BY <2>1, <2>2, <2>3
<1>4. CASE UNCHANGED appVars
  BY <1>4 DEF appVars, vars, ctrlVars, appOnlyVars, HeaterInv, PinAwaitsSample
<1> QED
  BY <1>1, <1>2, <1>3, <1>4 DEF ClimateNext
-----------------------------------------------------------------------------
(***************************************************************************)
(* The configuration: what the flash held and the defaults until a write,  *)
(* and what was written from then on.                                      *)
(***************************************************************************)
ConfigInv ==
    /\ app_cfg \in DeviceConfig /\ app_cfg.sample_period_ms > 0
    /\ flash \in [Slots -> Image]
    /\ \A i \in Slots : Usable(flash[i]) => flash[i].sample_period_ms > 0
    /\ WrittenConfigInForce

\* What is loaded has a period that the automaton takes as it is.
LEMMA LoadGivesPeriod ==
    ASSUME NEW f \in [Slots -> Image],
           \A i \in Slots : Usable(f[i]) => f[i].sample_period_ms > 0
    PROVE  StorageLoad(f).sample_period_ms > 0
  BY DefaultsAreDeviceConfig DEF StorageLoad, Slots

\* ctrl_init leaves a configuration in order alone.
LEMMA OrderedIsApplied ==
    ASSUME NEW d \in DeviceConfig, d.sample_period_ms > 0, Ordered(d),
           cfg' = Sanitised(ControllerConfig(d))
    PROVE  /\ cfg'.dew_margin_on_cd = d.dew_margin_on_cd
           /\ cfg'.dew_margin_off_cd = d.dew_margin_off_cd
           /\ cfg'.sample_period_ms = d.sample_period_ms
  BY DEF Sanitised, ControllerConfig, Ordered, DeviceConfig

\* The configuration at the first start.
LEMMA ConfigInitially == ClimateInit => ConfigInv
<1> SUFFICES ASSUME ClimateInit PROVE ConfigInv
  OBVIOUS
<1>1. /\ flash \in [Slots -> Image]
      /\ \A i \in Slots : Usable(flash[i]) => flash[i].sample_period_ms > 0
      /\ app_cfg = StorageLoad(flash) /\ cfg = Sanitised(CONTROLLER_DEFAULTS)
      /\ written = FALSE
  BY AppAssumption DEF ClimateInit
<1>2. app_cfg \in DeviceConfig /\ app_cfg.sample_period_ms > 0
  BY <1>1, LoadGivesConfig, LoadGivesPeriod
<1> QED
  BY <1>1, <1>2 DEF ConfigInv, WrittenConfigInForce

\* The configuration over every step of the application.
LEMMA ConfigInductive ==
    ASSUME ConfigInv, [ClimateNext]_appVars
    PROVE  ConfigInv'
<1>1. CASE Start
  <2>1. PICK cause \in Causes : AppInit(cause)
    BY <1>1 DEF Start
  <2>2. /\ app_cfg' = StorageLoad(flash) /\ flash' = flash /\ written' = FALSE
        /\ cfg' = Sanitised(CONTROLLER_DEFAULTS)
    BY <2>1 DEF AppInit, CtrlInitExtended, InitAfterWatchdog, InitAfterPowerOn, InitAfterOther,
                ClearFields
  <2>3. app_cfg' \in DeviceConfig /\ app_cfg'.sample_period_ms > 0
    BY <2>2, LoadGivesConfig, LoadGivesPeriod DEF ConfigInv
  <2> QED
    BY <2>2, <2>3 DEF ConfigInv, WrittenConfigInForce
<1>2. CASE Sampling
  <2>1. PICK s \in Samples : CtrlUpdate(s) /\ UNCHANGED <<app_cfg, flash, written>>
    BY <1>2 DEF Sampling, AppTask
  <2>2. cfg' = cfg
    BY <2>1 DEF CtrlUpdate, RefuseWhenLocked, RejectSample, AwaitRecovery, WarmUp, MathFault,
                Regulate, AcceptSample
  <2> QED
    BY <2>1, <2>2 DEF ConfigInv, WrittenConfigInForce, InForce, Ordered
<1>3. CASE ModbusWrite
  <2>1. PICK w \in ConfigWrites : RefusedWrite(w) \/ AppUpdateConfig(w)
    BY <1>3 DEF ModbusWrite
  <2>2. CASE RefusedWrite(w)
    BY <2>2 DEF RefusedWrite, ConfigInv, WrittenConfigInForce, InForce, Ordered, vars, ctrlVars
  <2>3. CASE AppUpdateConfig(w)
    <3>1. /\ app_cfg' = Written(w) /\ ~(w.reg = "SAMPLE_MS" /\ w.value = 0)
          /\ flash' = flash /\ written' = TRUE
          /\ cfg' = Sanitised(ControllerConfig(app_cfg'))
      BY <2>3 DEF AppUpdateConfig, StorageSave, CtrlInit, ClearFields
    <3>2. app_cfg' \in DeviceConfig /\ app_cfg'.sample_period_ms > 0
      BY <3>1, AppAssumption DEF ConfigInv, Written, DeviceConfig, ConfigRegisters
    <3>3. WrittenConfigInForce'
      BY <3>1, <3>2, OrderedIsApplied DEF WrittenConfigInForce, InForce, Ordered
    <3> QED
      BY <3>1, <3>2, <3>3 DEF ConfigInv
  <2> QED
    BY <2>1, <2>2, <2>3
<1>4. CASE UNCHANGED appVars
  BY <1>4 DEF appVars, vars, ctrlVars, appOnlyVars, ConfigInv, WrittenConfigInForce, InForce,
              Ordered
<1> QED
  BY <1>1, <1>2, <1>3, <1>4 DEF ClimateNext
-----------------------------------------------------------------------------
(***************************************************************************)
(* The automaton inside the application, with a filter of any size: it has *)
(* its types and its invariants, which ask nothing of the caller but       *)
(* that it hands over configurations.                                      *)
(***************************************************************************)
EmbeddedInv == AppTypeOK /\ SafetyInv

\* At the first start.
LEMMA EmbeddedInitially == ClimateInit => EmbeddedInv
<1> SUFFICES ASSUME ClimateInit PROVE EmbeddedInv
  OBVIOUS
<1>1. ConfigInv
  BY ConfigInitially
<1>2. PICK raw \in Handed : cfg = Sanitised(raw)
  BY DEF ClimateInit, Handed
<1>3. cfg \in SaneConfig /\ cfg.relay_safe_state = FALSE
  BY <1>2, HandedIsConfig, HandedIsPlain, SanitisedIsSane
<1>4. AppTypeOK
  <2>1. /\ filter_count = 0 /\ margin_cd = 0
        /\ relay_on = FALSE /\ relay_pin = FALSE /\ power_is_dying = FALSE
        /\ state = "INIT" /\ last_error = "ERR_NOT_READY"
        /\ sensor_error_streak = 0 /\ sensor_ok_streak = 0
        /\ watchdog_crash_counter = 0 /\ backup = 0
    BY DEF ClimateInit
  <2>2. 0 \in 0 .. MA_FILTER_SIZE
    BY ConstantsAssumption
  <2>3. relay_on \in BOOLEAN /\ relay_pin \in BOOLEAN /\ power_is_dying \in BOOLEAN
    BY <2>1, Zenon
  <2>4. filter_count \in 0 .. MA_FILTER_SIZE /\ margin_cd \in Int
    BY <2>1, <2>2, SMT
  <2>5. /\ sensor_error_streak \in UInt8 /\ sensor_ok_streak \in UInt8
        /\ watchdog_crash_counter \in UInt8 /\ backup \in UInt8
    BY <2>1, ZeroIsUInt8, Zenon
  <2>6. state \in States /\ last_error \in Errors
    BY <2>1 DEF States, Errors
  <2>7. TypeOK
    BY <1>3, <2>3, <2>4, <2>5, <2>6, Zenon DEF TypeOK
  <2> QED
    BY <1>1, <2>7 DEF AppTypeOK, ClimateInit, ConfigInv
<1>5. 0 < cfg.fault_threshold /\ 0 < cfg.recovery_threshold
  BY <1>3 DEF SaneConfig, RawConfig, UInt8
<1>6. SafetyInv
  <2>1. /\ relay_on = FALSE /\ power_is_dying = FALSE /\ state = "INIT"
        /\ sensor_error_streak = 0 /\ sensor_ok_streak = 0
    BY DEF ClimateInit
  <2>2. RelaySafeOutsideRun /\ DyingMeansSafe
    BY <1>3, <2>1, Zenon DEF RelaySafeOutsideRun, DyingMeansSafe
  <2>3. RunFollowsHysteresis
    BY <2>1 DEF RunFollowsHysteresis
  <2>4. ErrorStreakIsAnswered /\ OkStreakOnlyInFault
    BY <1>5, <2>1 DEF ErrorStreakIsAnswered, OkStreakOnlyInFault
  <2> QED
    BY <2>2, <2>3, <2>4 DEF SafetyInv
<1> QED
  BY <1>4, <1>6 DEF EmbeddedInv

\* What the automaton decides is a position of the relay.
LEMMA UpdateKeepsRelay ==
    ASSUME TypeOK, NEW s \in Samples, CtrlUpdate(s)
    PROVE  relay_on' \in BOOLEAN
<1>1. cfg.relay_safe_state \in BOOLEAN /\ relay_on \in BOOLEAN
  BY DEF TypeOK, SaneConfig, RawConfig
<1>2. ASSUME NEW m \in Margins, Regulate(s, m)
      PROVE  relay_on' \in BOOLEAN
  <2>1. relay_on' = Hysteresis(m)
    BY <1>2 DEF Regulate
  <2>2. CASE relay_on
    BY <2>1, <2>2, SMT DEF Hysteresis
  <2>3. CASE ~relay_on
    BY <2>1, <2>3, SMT DEF Hysteresis
  <2> QED
    BY <2>2, <2>3
<1> QED
  BY <1>1, <1>2 DEF CtrlUpdate, RefuseWhenLocked, RejectSample, AwaitRecovery, WarmUp,
                    MathFault, MakeSafe

\* A step that leaves the automaton alone leaves its invariants alone.
LEMMA UnchangedIsSafe ==
    ASSUME TypeOK, SafetyInv, UNCHANGED <<ctrlVars, relay_pin>>
    PROVE  TypeOK' /\ SafetyInv'
  BY DEF ctrlVars, streakVars, crashVars, TypeOK, SafetyInv, RelaySafeOutsideRun,
         RunFollowsHysteresis, ErrorStreakIsAnswered, OkStreakOnlyInFault, DyingMeansSafe

\* Over every step of the application.
LEMMA EmbeddedInductive ==
    ASSUME EmbeddedInv, ConfigInv, [ClimateNext]_appVars
    PROVE  EmbeddedInv'
<1>0. TypeOK /\ SafetyInv /\ relay_pin \in BOOLEAN /\ relay_prev \in BOOLEAN
  BY DEF EmbeddedInv, AppTypeOK, TypeOK
<1>1. app_cfg' \in DeviceConfig /\ flash' \in [Slots -> Image]
  BY ConfigInductive DEF ConfigInv
<1>2. CASE Start
  <2>1. PICK cause \in Causes : AppInit(cause)
    BY <1>2 DEF Start
  <2>2. PICK raw \in Handed : CtrlInit(raw) \/ (\E c \in Causes : CtrlInitExtended(raw, c))
    BY <1>1, <2>1 DEF AppInit, Handed
  <2>3. relay_prev' = FALSE /\ relay_pin' = FALSE /\ reply' = "none"
    BY <2>1 DEF AppInit
  <2>4. TypeOK' /\ SafetyInv'
    BY <1>0, <2>2, <2>3, HandedIsConfig, InitialisingType, InitialisingSafe
  <2> QED
    BY <1>1, <2>3, <2>4 DEF EmbeddedInv, AppTypeOK
<1>3. CASE Sampling
  <2>1. PICK s \in Samples : AppTask(s)
    BY <1>3 DEF Sampling
  <2>2. CtrlUpdate(s) /\ SafetyInv'
    BY <1>0, <2>1, UpdateSafe DEF AppTask
  <2>3. relay_on' \in BOOLEAN
    BY <1>0, <2>2, UpdateKeepsRelay
  <2>4. relay_pin' \in BOOLEAN /\ relay_prev' \in BOOLEAN /\ reply' = reply
    BY <1>0, <2>1, <2>3 DEF AppTask
  <2>5. TypeOK'
    BY <1>0, <2>2, <2>4, UpdateType
  <2> QED
    BY <1>1, <2>2, <2>4, <2>5 DEF EmbeddedInv, AppTypeOK
<1>4. CASE ModbusWrite
  <2>1. PICK w \in ConfigWrites : RefusedWrite(w) \/ AppUpdateConfig(w)
    BY <1>4 DEF ModbusWrite
  <2>2. /\ UNCHANGED <<relay_pin, relay_prev>> /\ reply' \in {"echo", "exception"}
        /\ UNCHANGED ctrlVars \/ CtrlInit(ControllerConfig(app_cfg'))
    BY <2>1 DEF RefusedWrite, AppUpdateConfig, vars
  <2>3. CASE UNCHANGED ctrlVars
    BY <1>0, <1>1, <2>2, <2>3, UnchangedIsSafe DEF EmbeddedInv, AppTypeOK
  <2>4. CASE CtrlInit(ControllerConfig(app_cfg'))
    <3>1. ControllerConfig(app_cfg') \in Handed
      BY <1>1 DEF Handed
    <3>2. TypeOK' /\ SafetyInv'
      BY <1>0, <2>2, <2>4, <3>1, HandedIsConfig, InitialisingType, InitialisingSafe
    <3> QED
      BY <1>0, <1>1, <2>2, <3>2 DEF EmbeddedInv, AppTypeOK
  <2> QED
    BY <2>2, <2>3, <2>4
<1>5. CASE UNCHANGED appVars
  <2>1. UNCHANGED <<ctrlVars, relay_pin, appOnlyVars>>
    BY <1>5 DEF appVars, vars
  <2> QED
    BY <1>0, <2>1, UnchangedIsSafe DEF appOnlyVars, EmbeddedInv, AppTypeOK
<1> QED
  BY <1>2, <1>3, <1>4, <1>5 DEF ClimateNext
-----------------------------------------------------------------------------
(***************************************************************************)
(* The diagnostics, which see the automaton only after a sample.  A fault  *)
(* they have not seen is a lock, which no sample ends; and where they      *)
(* still see a fault that is over, the automaton was just initialised, and *)
(* no single sample makes a fault of that.                                 *)
(***************************************************************************)

\* A filter of one sample would let the first sample after a write end in MATH_FAULT,
\* which the diagnostics would take for the fault before the write.
Smoothed == MA_FILTER_SIZE > 1

Seen == initialized /\ DiagIsFaultState(last_state)

Fresh == state = "INIT" /\ filter_count = 0 /\ sensor_error_streak = 0 /\ ~power_is_dying

CountInv ==
    /\ initialized \in BOOLEAN /\ missed \in BOOLEAN
    /\ fault_events \in 0 .. UINT32_MOD - 1
    /\ Unseen => state = "SAFE" /\ ~missed
    /\ Seen /\ ~DiagIsFaultState(state) => Fresh
    /\ FaultsAreCounted

\* The values of the count.
LEMMA CountOf ==
    ASSUME NEW n \in 0 .. UINT32_MOD - 1
    PROVE  /\ (n + 0) % UINT32_MOD = n
           /\ (n + 1) % UINT32_MOD \in 0 .. UINT32_MOD - 1
  BY DiagnosticsAssumption

\* Two counts that go up together keep their distance.
LEMMA CountsInStep ==
    ASSUME NEW n \in 0 .. UINT32_MOD - 1, NEW d \in {0, 1}, NEW m, m = (n + d) % UINT32_MOD
    PROVE  (m + 1) % UINT32_MOD = (((n + 1) % UINT32_MOD) + d) % UINT32_MOD
<1>1. UINT32_MOD \in Nat /\ UINT32_MOD > 1
  BY DiagnosticsAssumption
<1>2. \A k \in 0 .. UINT32_MOD : k % UINT32_MOD = IF k = UINT32_MOD THEN 0 ELSE k
  BY <1>1
<1> QED
  BY <1>1, <1>2

\* One sample does not make a fault of a fresh automaton.
LEMMA FreshSurvivesSample ==
    ASSUME Smoothed, NEW s \in Samples, CtrlUpdate(s), Fresh, cfg.fault_threshold = 3
    PROVE  ~DiagIsFaultState(state')
<1>1. Increment8(sensor_error_streak) = 1
  BY ConstantsAssumption DEF Fresh, Increment8
<1>2. CASE RejectSample(s)
  BY <1>1, <1>2 DEF RejectSample, Fresh, DiagIsFaultState
<1>3. ASSUME AcceptSample(s) PROVE filter_count' < MA_FILTER_SIZE
  BY <1>3, ConstantsAssumption DEF AcceptSample, FilterAccepts, Fresh, Smoothed
<1>4. CASE WarmUp(s)
  BY <1>4 DEF WarmUp, DiagIsFaultState
<1>5. CASE AwaitRecovery(s)
  BY <1>5 DEF AwaitRecovery, Recovering, InFault, Fresh
<1>6. CASE MathFault(s)
  BY <1>3, <1>6, ConstantsAssumption DEF MathFault, FilterAccepts, AcceptSample, Fresh
<1>7. CASE RefuseWhenLocked
  BY <1>7 DEF RefuseWhenLocked, Locked, Fresh
<1>8. ASSUME NEW m \in Margins, Regulate(s, m)
      PROVE  ~DiagIsFaultState(state')
  BY <1>8 DEF Regulate, DiagIsFaultState
<1> QED
  BY <1>2, <1>4, <1>5, <1>6, <1>7, <1>8 DEF CtrlUpdate

\* The count over a sample.
LEMMA ControlTaskCounts ==
    ASSUME Smoothed, HeaterInv, CountInv, ControlTask
    PROVE  CountInv'
<1>1. PICK s \in Samples : CtrlUpdate(s)
  BY DEF ControlTask, Sampling, AppTask
<1>2. /\ fault_events' = IF DiagIsFaultState(state') /\ ~Seen
                         THEN (fault_events + 1) % UINT32_MOD ELSE fault_events
      /\ last_state' = state' /\ initialized' = TRUE /\ missed' = missed
      /\ entered' = IF DiagIsFaultState(state') /\ ~DiagIsFaultState(state)
                    THEN (entered + 1) % UINT32_MOD ELSE entered
  BY DEF ControlTask, DiagRecord, CountEntered, Seen
<1>3. state = "SAFE" => state' = "SAFE"
  BY <1>1, UpdateOfHeater DEF HeaterInv
<1>4. fault_events' \in 0 .. UINT32_MOD - 1
  BY <1>2, CountOf DEF CountInv
<1>5. (Seen' <=> DiagIsFaultState(state')) /\ ~Unseen'
  BY <1>2 DEF Seen, Unseen
<1>6. FaultsAreCounted'
  <2>1. CASE Unseen
    <3>1. entered = (fault_events + 1) % UINT32_MOD /\ ~missed /\ ~Seen
      BY <2>1 DEF CountInv, FaultsAreCounted, Seen, Unseen
    <3>2. DiagIsFaultState(state') /\ DiagIsFaultState(state)
      BY <2>1, <1>3 DEF CountInv, DiagIsFaultState
    <3>3. entered' = fault_events'
      BY <3>1, <3>2, <1>2
    <3> QED
      BY <1>2, <1>4, <1>5, <3>1, <3>3, CountOf DEF FaultsAreCounted
  <2>2. CASE ~Unseen
    <3> DEFINE step == IF DiagIsFaultState(state') /\ ~DiagIsFaultState(state) THEN 1 ELSE 0
    <3>1. entered = (fault_events + IF missed THEN 1 ELSE 0) % UINT32_MOD
      BY <2>2 DEF CountInv, FaultsAreCounted
    <3>2. Seen <=> DiagIsFaultState(state) \/ (Seen /\ ~DiagIsFaultState(state'))
      <4>1. Seen /\ ~DiagIsFaultState(state) => ~DiagIsFaultState(state')
        BY <1>1, FreshSurvivesSample DEF CountInv, HeaterInv
      <4> QED
        BY <2>2, <4>1 DEF Unseen, Seen
    <3>3. /\ fault_events' = IF step = 1 THEN (fault_events + 1) % UINT32_MOD ELSE fault_events
          /\ entered' = IF step = 1 THEN (entered + 1) % UINT32_MOD ELSE entered
      BY <1>2, <3>2
    <3> HIDE DEF step
    <3>4. entered' = (fault_events' + IF missed THEN 1 ELSE 0) % UINT32_MOD
      BY <3>1, <3>3, CountsInStep DEF CountInv
    <3> QED
      BY <1>2, <1>5, <3>4 DEF FaultsAreCounted
  <2> QED
    BY <2>1, <2>2
<1>7. initialized' \in BOOLEAN /\ missed' \in BOOLEAN
  BY <1>2, Zenon DEF CountInv
<1> QED
  BY <1>4, <1>5, <1>6, <1>7, Zenon DEF CountInv

\* The count over a write.
LEMMA InterventionCounts ==
    ASSUME CountInv, Intervention
    PROVE  CountInv'
<1>1. /\ last_state' = last_state /\ initialized' = initialized /\ fault_events' = fault_events
      /\ missed' = (missed \/ (Unseen /\ ~DiagIsFaultState(state')))
      /\ entered' = IF DiagIsFaultState(state') /\ ~DiagIsFaultState(state)
                    THEN (entered + 1) % UINT32_MOD ELSE entered
  BY DEF Intervention, CountEntered, diagVars
<1>2. Seen' = Seen /\ missed' \in BOOLEAN
  BY <1>1, Zenon DEF Seen, CountInv
<1>3. \/ Fresh'
      \/ /\ state' = state /\ filter_count' = filter_count /\ power_is_dying' = power_is_dying
         /\ sensor_error_streak' = sensor_error_streak
  BY DEF Intervention, ModbusWrite, RefusedWrite, AppUpdateConfig, CtrlInit, ClearFields, Fresh,
         vars, ctrlVars, streakVars
<1>4. DiagIsFaultState(state') => state' = state
  BY <1>3 DEF Fresh, DiagIsFaultState
<1>5. Unseen' => state' = "SAFE" /\ ~missed'
  BY <1>1, <1>2, <1>4 DEF CountInv, Unseen, Seen
<1>6. Seen' /\ ~DiagIsFaultState(state') => Fresh'
  BY <1>2, <1>3 DEF CountInv, Fresh
<1>7. FaultsAreCounted'
  <2>1. entered' = entered
    BY <1>1, <1>4
  <2>2. (Unseen \/ missed) <=> (Unseen' \/ missed')
    BY <1>1, <1>2, <1>4 DEF Unseen, Seen, CountInv
  <2> QED
    BY <1>1, <2>1, <2>2 DEF CountInv, FaultsAreCounted
<1>8. initialized' \in BOOLEAN /\ fault_events' \in 0 .. UINT32_MOD - 1
  BY <1>1 DEF CountInv
<1> QED
  BY <1>2, <1>5, <1>6, <1>7, <1>8, Zenon DEF CountInv

\* The count at a start.
LEMMA StartCounts ==
    ASSUME NodeStart
    PROVE  CountInv'
<1>1. PICK cause \in Causes : AppInit(cause)
  BY DEF NodeStart, Start
<1>2. state' \in {"INIT", "WARMUP", "SAFE"}
  BY <1>1, InitOfHeater DEF AppInit, Handed
<1>3. /\ initialized' = FALSE /\ fault_events' = 0 /\ missed' = FALSE
      /\ entered' = IF DiagIsFaultState(state') THEN 1 ELSE 0
  BY DEF NodeStart, DiagInit
<1>4. 1 % UINT32_MOD = 1 /\ 0 % UINT32_MOD = 0 /\ 0 \in 0 .. UINT32_MOD - 1
  BY DiagnosticsAssumption
<1>5. /\ ~Seen' /\ (Unseen' <=> DiagIsFaultState(state'))
      /\ DiagIsFaultState(state') => state' = "SAFE"
  BY <1>2, <1>3 DEF Seen, Unseen, DiagIsFaultState
<1>6. FaultsAreCounted'
  BY <1>3, <1>4, <1>5 DEF FaultsAreCounted
<1>7. initialized' \in BOOLEAN /\ missed' \in BOOLEAN /\ ~missed'
  BY <1>3, Zenon
<1>8. fault_events' \in 0 .. UINT32_MOD - 1
  BY <1>3, <1>4
<1> QED
  BY <1>5, <1>6, <1>7, <1>8, Zenon DEF CountInv
-----------------------------------------------------------------------------
(* The node *)

NodeInv == HeaterInv /\ ConfigInv /\ CountInv

\* The invariant in the first state.
LEMMA NodeInitially == NodeInit => NodeInv
<1> SUFFICES ASSUME NodeInit PROVE NodeInv
  OBVIOUS
<1>1. HeaterInv
  <2>1. cfg.relay_safe_state = FALSE /\ cfg.fault_threshold = 3
    BY HandedIsPlain DEF NodeInit, ClimateInit, Handed
  <2> QED
    BY <2>1 DEF HeaterInv, PinAwaitsSample, NodeInit, ClimateInit
<1>2. ConfigInv
  BY ConfigInitially DEF NodeInit
<1>3. CountInv
  <2>1. (0 + 0) % UINT32_MOD = 0 /\ 0 \in 0 .. UINT32_MOD - 1
    BY DiagnosticsAssumption
  <2>2. ~Unseen /\ ~Seen
    BY DEF NodeInit, ClimateInit, Seen, Unseen, DiagIsFaultState
  <2>3. initialized = FALSE /\ missed = FALSE /\ fault_events = 0 /\ entered = 0
    BY DEF NodeInit
  <2>4. FaultsAreCounted
    BY <2>1, <2>2, <2>3 DEF FaultsAreCounted
  <2>5. initialized \in BOOLEAN /\ missed \in BOOLEAN
    BY <2>3, Zenon
  <2>6. fault_events \in 0 .. UINT32_MOD - 1
    BY <2>1, <2>3
  <2> QED
    BY <2>2, <2>4, <2>5, <2>6, Zenon DEF CountInv
<1> QED
  BY <1>1, <1>2, <1>3 DEF NodeInv

\* Every step of the node is one of the application, or changes nothing of it.
LEMMA NodeStepsAreClimateSteps == [NodeNext]_nodeVars => [ClimateNext]_appVars
  BY DEF NodeNext, NodeStart, ControlTask, Intervention, ClimateNext, nodeVars

\* Every step keeps the invariant.
LEMMA NodeInductive ==
    ASSUME Smoothed, NodeInv, [NodeNext]_nodeVars
    PROVE  NodeInv'
<1>1. HeaterInv' /\ ConfigInv'
  BY NodeStepsAreClimateSteps, HeaterInductive, ConfigInductive DEF NodeInv, ConfigInv
<1>2. CountInv'
  <2>1. CASE NodeStart
    BY <2>1, StartCounts DEF NodeInv
  <2>2. CASE ControlTask
    BY <2>2, ControlTaskCounts DEF NodeInv
  <2>3. CASE Intervention
    BY <2>3, InterventionCounts DEF NodeInv
  <2>4. CASE UNCHANGED nodeVars
    BY <2>4 DEF nodeVars, appVars, vars, ctrlVars, streakVars, diagVars, countVars, NodeInv,
                CountInv, FaultsAreCounted, Seen, Unseen, Fresh
  <2> QED
    BY <2>1, <2>2, <2>3, <2>4 DEF NodeNext
<1> QED
  BY <1>1, <1>2 DEF NodeInv

LEMMA HeaterAndConfig == NodeSpec => [](HeaterInv /\ ConfigInv)
<1>1. NodeInit => HeaterInv /\ ConfigInv
  BY NodeInitially DEF NodeInv
<1>2. HeaterInv /\ ConfigInv /\ [NodeNext]_nodeVars => HeaterInv' /\ ConfigInv'
  BY NodeStepsAreClimateSteps, HeaterInductive, ConfigInductive DEF ConfigInv
<1> QED
  BY <1>1, <1>2, PTL DEF NodeSpec

\* The types of the application and of the automaton in it, whatever the flash held and
\* the masters write (app_init, app_update_config, ctrl_init).
THEOREM NodeTypes == NodeSpec => []AppTypeOK
<1>1. NodeInit => ConfigInv /\ EmbeddedInv
  BY ConfigInitially, EmbeddedInitially DEF NodeInit
<1>2. ConfigInv /\ EmbeddedInv /\ [NodeNext]_nodeVars => ConfigInv' /\ EmbeddedInv'
  BY NodeStepsAreClimateSteps, ConfigInductive, EmbeddedInductive
<1>3. EmbeddedInv => AppTypeOK
  BY DEF EmbeddedInv
<1> QED
  BY <1>1, <1>2, <1>3, PTL DEF NodeSpec

\* The four invariants of samples and decisions hold of the automaton in the application
\* too, where writes and restarts hand it what the registers contain and the defaults
\* (app_task, app_apply_config, ctrl_update).
THEOREM AutomatonIsSafeInNode ==
    NodeSpec => [](/\ RelaySafeOutsideRun /\ RunFollowsHysteresis /\ ErrorStreakIsAnswered
                   /\ OkStreakOnlyInFault)
<1>1. NodeInit => ConfigInv /\ EmbeddedInv
  BY ConfigInitially, EmbeddedInitially DEF NodeInit
<1>2. ConfigInv /\ EmbeddedInv /\ [NodeNext]_nodeVars => ConfigInv' /\ EmbeddedInv'
  BY NodeStepsAreClimateSteps, ConfigInductive, EmbeddedInductive
<1>3. EmbeddedInv => /\ RelaySafeOutsideRun /\ RunFollowsHysteresis /\ ErrorStreakIsAnswered
                     /\ OkStreakOnlyInFault
  BY DEF EmbeddedInv, SafetyInv
<1> QED
  BY <1>1, <1>2, <1>3, PTL DEF NodeSpec

\* Output and automaton disagree only over a heater that a write has caught switched on,
\* until the next sample (app_task, relay_prev, app_apply_config).
THEOREM PinIsBehindByOneSample == NodeSpec => []PinAwaitsSample
<1>1. HeaterInv /\ ConfigInv => PinAwaitsSample
  BY DEF HeaterInv
<1> QED
  BY <1>1, HeaterAndConfig, PTL

\* The registers show the flash and the automaton has the defaults until a write; from
\* then on a configuration in order that the registers show is the automaton's
\* (app_init, ctrl_init_extended, app_update_config, app_apply_config, ctrl_init).
THEOREM WrittenConfigIsInForce == NodeSpec => []WrittenConfigInForce
<1>1. HeaterInv /\ ConfigInv => WrittenConfigInForce
  BY DEF ConfigInv
<1> QED
  BY <1>1, HeaterAndConfig, PTL

\* The diagnostics count every fault once, except the lock of a start that a write ends
\* before the first sample (diag_record).
THEOREM FaultsCounted == ASSUME Smoothed PROVE NodeSpec => []FaultsAreCounted
<1>1. NodeInv => FaultsAreCounted
  BY DEF NodeInv, CountInv
<1> QED
  BY <1>1, NodeInitially, NodeInductive, PTL DEF NodeSpec

\* Whenever the sampling task returns, the output is what the automaton asks for, however
\* configuration writes and restarts fall between its runs (app_task, the comparison with
\* relay_prev).
THEOREM PinFollowsTask == NodeSpec => TaskDrivesPin
<1>1. HeaterInv /\ ConfigInv /\ [NodeNext]_nodeVars => [Sampling => relay_pin' = relay_on']_appVars
  BY SamplingOfHeater
<1> QED
  BY <1>1, HeaterAndConfig, PTL DEF NodeSpec, TaskDrivesPin
=============================================================================
