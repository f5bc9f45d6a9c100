--------------------------- MODULE ControllerProofs ---------------------------
(***************************************************************************)
(* Type correctness and the safety invariants of Controller, that its      *)
(* streak counters implement SampleDebounce, and the crash isolation of    *)
(* FaultIsolation, for every filter size, counter width, configuration,    *)
(* sample, margin and set of reset flags.                                  *)
(***************************************************************************)
EXTENDS ControllerDebounce, FaultIsolation, SequenceTheorems, TLAPS

USE ConstantsAssumption

\* ctrl_init repairs every configuration it can be given.
LEMMA SanitisedIsSane ==
    ASSUME NEW raw \in RawConfig
    PROVE  Sanitised(raw) \in SaneConfig
  BY DEF Sanitised, SaneConfig, RawConfig, UInt8, AtLeastOne, CONTROLLER_DEFAULTS

\* An 8-bit increment stays in its width.
LEMMA Increment8Type ==
    ASSUME NEW n \in UInt8
    PROVE  Increment8(n) \in UInt8
  BY DEF Increment8, UInt8

\* Zero is a value of the counters.
LEMMA ZeroIsUInt8 == 0 \in UInt8
  BY DEF UInt8

\* The state that every initialiser of the automaton establishes satisfies the
\* type invariant, provided its state, error and counters have their types.
LEMMA ClearFieldsType ==
    ASSUME NEW raw \in RawConfig,
           ClearFields(raw),
           state' \in States, last_error' \in Errors,
           watchdog_crash_counter' \in UInt8, backup' \in UInt8,
           relay_pin' \in BOOLEAN
    PROVE  TypeOK'
<1>1. cfg' \in SaneConfig
  BY SanitisedIsSane DEF ClearFields
<1>2. raw.relay_safe_state \in BOOLEAN
  BY DEF RawConfig
<1>3. relay_on' \in BOOLEAN /\ power_is_dying' \in BOOLEAN
  BY <1>2, Zenon DEF ClearFields
<1>4. filter_count' \in 0 .. MA_FILTER_SIZE /\ margin_cd' \in Int
  BY DEF ClearFields
<1> QED
  BY <1>1, <1>3, <1>4, ZeroIsUInt8 DEF TypeOK, ClearFields

\* No call of ctrl_update leaves the types.
LEMMA UpdateType ==
    ASSUME TypeOK, NEW s \in Samples, CtrlUpdate(s), relay_pin' \in BOOLEAN
    PROVE  TypeOK'
<1>0. cfg.relay_safe_state \in BOOLEAN
  BY DEF TypeOK, SaneConfig, RawConfig
<1>1. CASE RefuseWhenLocked
  BY <1>1, <1>0 DEF RefuseWhenLocked, MakeSafe, TypeOK, streakVars, crashVars
<1>2. CASE RejectSample(s)
  <2>1. sensor_error_streak' \in UInt8 /\ sensor_ok_streak' \in UInt8
    BY <1>2, Increment8Type, ZeroIsUInt8 DEF RejectSample, TypeOK
  <2>2. state' \in States /\ relay_on' \in BOOLEAN
    BY <1>2, <1>0 DEF RejectSample, MakeSafe, TypeOK, States
  <2> QED
    BY <1>2, <2>1, <2>2 DEF RejectSample, TypeOK, Errors, crashVars
<1>3. CASE AwaitRecovery(s)
  BY <1>3, Increment8Type, ZeroIsUInt8 DEF AwaitRecovery, TypeOK, Errors, crashVars
<1>4. ASSUME AcceptSample(s)
      PROVE  /\ filter_count' \in 0 .. MA_FILTER_SIZE
             /\ sensor_error_streak' \in UInt8 /\ sensor_ok_streak' \in UInt8
             /\ cfg' \in SaneConfig /\ power_is_dying' \in BOOLEAN
  BY <1>4, ZeroIsUInt8 DEF AcceptSample, FilterAccepts, TypeOK
<1>5. CASE WarmUp(s)
  BY <1>5, <1>4, <1>0 DEF WarmUp, MakeSafe, TypeOK, States, Errors, crashVars
<1>6. CASE MathFault(s)
  BY <1>6, <1>4, <1>0 DEF MathFault, MakeSafe, TypeOK, States, Errors, crashVars
<1>7. ASSUME NEW m \in Margins, Regulate(s, m)
      PROVE  TypeOK'
  <2>1. Hysteresis(m) \in BOOLEAN
    <3>1. CASE relay_on
      BY <3>1, SMT DEF Hysteresis
    <3>2. CASE ~relay_on
      BY <3>2, SMT DEF Hysteresis
    <3> QED
      BY <3>1, <3>2
  <2>2. watchdog_crash_counter' \in UInt8 /\ backup' \in UInt8
    BY <1>7, ZeroIsUInt8 DEF Regulate, ForgiveCrashes, crashVars, TypeOK
  <2>3. AcceptSample(s)
    BY <1>7 DEF Regulate
  <2> QED
    BY <1>7, <1>4, <2>1, <2>2, <2>3 DEF Regulate, TypeOK, States, Errors
<1> QED
  BY <1>1, <1>2, <1>3, <1>5, <1>6, <1>7 DEF CtrlUpdate

\* Nor does an initialisation, with any configuration.
LEMMA InitialisingType ==
    ASSUME TypeOK, NEW raw \in RawConfig, relay_pin' \in BOOLEAN,
           CtrlInit(raw) \/ (\E cause \in Causes : CtrlInitExtended(raw, cause))
    PROVE  TypeOK'
<1>1. CASE CtrlInit(raw)
  BY <1>1, ClearFieldsType, ZeroIsUInt8 DEF CtrlInit, TypeOK, States, Errors
<1>2. CASE InitAfterWatchdog(raw)
  <2>1. watchdog_crash_counter' \in UInt8 /\ backup' \in UInt8
    BY <1>2, Increment8Type DEF InitAfterWatchdog, TypeOK
  <2> QED
    BY <1>2, <2>1, ClearFieldsType DEF InitAfterWatchdog, States, Errors
<1>3. CASE InitAfterPowerOn(raw)
  BY <1>3, ClearFieldsType, ZeroIsUInt8 DEF InitAfterPowerOn, States, Errors
<1>4. CASE InitAfterOther(raw)
  BY <1>4, ClearFieldsType, ZeroIsUInt8 DEF InitAfterOther, TypeOK, States, Errors
<1> QED
  BY <1>1, <1>2, <1>3, <1>4 DEF CtrlInitExtended

\* Nor does the brown-out interrupt.
LEMMA ShutdownType ==
    ASSUME TypeOK, CtrlForceEmergencyShutdown
    PROVE  TypeOK'
<1>0. cfg.relay_safe_state \in BOOLEAN
  BY DEF TypeOK, SaneConfig, RawConfig
<1> QED
  BY <1>0 DEF CtrlForceEmergencyShutdown, TypeOK, States, streakVars, crashVars

\* Every value of the state variables has its type in every reachable state.
THEOREM TypeCorrect == Spec => []TypeOK
<1>1. Init => TypeOK
  <2> SUFFICES ASSUME NEW raw \in RawConfigs,
                      cfg = Sanitised(raw), filter_count = 0, margin_cd = 0,
                      sensor_error_streak = 0, sensor_ok_streak = 0,
                      relay_on = raw.relay_safe_state, state = "INIT",
                      last_error = "ERR_NOT_READY", watchdog_crash_counter = 0,
                      power_is_dying = FALSE, backup = 0, relay_pin = raw.relay_safe_state
               PROVE  TypeOK
    BY DEF Init
  <2>1. raw.relay_safe_state \in BOOLEAN
    BY DEF RawConfig
  <2>2. relay_on \in BOOLEAN /\ relay_pin \in BOOLEAN /\ power_is_dying \in BOOLEAN
    BY <2>1, Zenon
  <2>3. filter_count \in 0 .. MA_FILTER_SIZE /\ margin_cd \in Int
    OBVIOUS
  <2>4. cfg \in SaneConfig
    BY SanitisedIsSane
  <2> QED
    BY <2>2, <2>3, <2>4, ZeroIsUInt8 DEF TypeOK, States, Errors
<1>2. TypeOK /\ [Next]_vars => TypeOK'
  <2> SUFFICES ASSUME TypeOK, [Next]_vars
               PROVE  TypeOK'
    OBVIOUS
  <2>1. CASE Update
    BY <2>1, UpdateType DEF Update, TypeOK
  <2>2. CASE Reconfigure
    <3> PICK raw \in RawConfigs : CtrlInit(raw) /\ UNCHANGED relay_pin
      BY <2>2 DEF Reconfigure
    <3>1. raw \in RawConfig /\ relay_pin' \in BOOLEAN
      BY DEF TypeOK
    <3> QED
      BY <3>1, InitialisingType
  <2>3. CASE Boot
    <3> PICK raw \in RawConfigs, cause \in Causes :
               CtrlInitExtended(raw, cause) /\ relay_pin' = raw.relay_safe_state
      BY <2>3 DEF Boot
    <3>1. raw \in RawConfig /\ relay_pin' \in BOOLEAN
      BY DEF RawConfig
    <3> QED
      BY <3>1, InitialisingType
  <2>4. CASE CtrlForceEmergencyShutdown
    BY <2>4, ShutdownType
  <2>5. CASE UNCHANGED vars
    BY <2>5 DEF vars, ctrlVars, streakVars, crashVars, TypeOK
  <2> QED
    BY <2>1, <2>2, <2>3, <2>4, <2>5 DEF Next
<1> QED
  BY <1>1, <1>2, PTL DEF Spec
-----------------------------------------------------------------------------
(***************************************************************************)
(* Safety.  The five invariants support each other: that RUN has a full    *)
(* filter makes WarmUp impossible there, and that an outstanding ok streak *)
(* belongs to a fault is what keeps a bad sample from being forgotten.     *)
(***************************************************************************)
SafetyInv ==
    /\ RelaySafeOutsideRun
    /\ RunFollowsHysteresis
    /\ ErrorStreakIsAnswered
    /\ OkStreakOnlyInFault
    /\ DyingMeansSafe

\* A freshly cleared automaton satisfies the invariants in any state but RUN.
LEMMA ClearFieldsSafe ==
    ASSUME NEW raw \in RawConfig,
           ClearFields(raw),
           state' \in {"INIT", "WARMUP", "SAFE"}
    PROVE  SafetyInv'
<1>1. cfg' \in SaneConfig /\ relay_on' = cfg'.relay_safe_state
  BY SanitisedIsSane DEF ClearFields, Sanitised
<1>2. 0 < cfg'.fault_threshold /\ 0 < cfg'.recovery_threshold
  BY <1>1 DEF SaneConfig, RawConfig, UInt8
<1>3. sensor_error_streak' = 0 /\ sensor_ok_streak' = 0
  BY DEF ClearFields
<1>4. DyingMeansSafe'
  BY Zenon DEF ClearFields, DyingMeansSafe
<1>5. RelaySafeOutsideRun'
  BY <1>1 DEF RelaySafeOutsideRun
<1> QED
  BY <1>2, <1>3, <1>4, <1>5
  DEF SafetyInv, RunFollowsHysteresis, ErrorStreakIsAnswered, OkStreakOnlyInFault

\* No call of ctrl_update breaks the invariants.
LEMMA UpdateSafe ==
    ASSUME TypeOK, SafetyInv, NEW s \in Samples, CtrlUpdate(s)
    PROVE  SafetyInv'
<1> USE DEF SafetyInv
<1>1. /\ cfg.relay_safe_state \in BOOLEAN
      /\ cfg.fault_threshold \in Nat /\ cfg.fault_threshold > 0
      /\ cfg.recovery_threshold \in Nat /\ cfg.recovery_threshold > 0
      /\ cfg.dew_margin_on_cd \in Int /\ cfg.dew_margin_off_cd \in Int
      /\ cfg.dew_margin_on_cd < cfg.dew_margin_off_cd
  BY DEF TypeOK, SaneConfig, RawConfig, UInt8
<1>2. CASE RefuseWhenLocked
  <2>1. state = "SAFE"
    BY <1>2 DEF RefuseWhenLocked, Locked, DyingMeansSafe
  <2>2. UNCHANGED <<cfg, sensor_error_streak, sensor_ok_streak, state, power_is_dying>>
    BY <1>2 DEF RefuseWhenLocked, streakVars
  <2>3. relay_on' = cfg.relay_safe_state
    BY <1>2 DEF RefuseWhenLocked, MakeSafe
  <2> QED
    BY <2>1, <2>2, <2>3
    DEF RelaySafeOutsideRun, RunFollowsHysteresis, ErrorStreakIsAnswered,
        OkStreakOnlyInFault, DyingMeansSafe
<1>3. CASE RejectSample(s)
  <2>1. UNCHANGED <<cfg, filter_count, margin_cd, power_is_dying>> /\ sensor_ok_streak' = 0
    BY <1>3 DEF RejectSample
  <2>2. CASE sensor_error_streak' >= cfg.fault_threshold
    <3>1. state' = "SENSOR_FAULT" /\ relay_on' = cfg.relay_safe_state
      BY <1>3, <2>2 DEF RejectSample, MakeSafe
    <3>2. ~power_is_dying
      BY <1>3 DEF RejectSample, Locked
    <3> QED
      BY <1>1, <2>1, <3>1, <3>2
      DEF RelaySafeOutsideRun, RunFollowsHysteresis, ErrorStreakIsAnswered,
          OkStreakOnlyInFault, DyingMeansSafe
  <2>3. CASE ~(sensor_error_streak' >= cfg.fault_threshold)
    <3>1. UNCHANGED <<state, relay_on>>
      BY <1>3, <2>3 DEF RejectSample
    <3>2. sensor_error_streak' < cfg.fault_threshold
      BY <1>1, <1>3, <2>3, Increment8Type DEF RejectSample, TypeOK, UInt8
    <3> QED
      BY <1>1, <2>1, <3>1, <3>2
      DEF RelaySafeOutsideRun, RunFollowsHysteresis, ErrorStreakIsAnswered,
          OkStreakOnlyInFault, DyingMeansSafe
  <2> QED
    BY <2>2, <2>3
<1>4. CASE AwaitRecovery(s)
  <2>1. UNCHANGED <<cfg, relay_on, state, power_is_dying>>
    BY <1>4 DEF AwaitRecovery
  <2>2. state \in {"SENSOR_FAULT", "MATH_FAULT"}
    BY <1>4 DEF AwaitRecovery, Recovering, InFault
  <2>3. sensor_error_streak' = 0 /\ sensor_ok_streak' < cfg.recovery_threshold
    BY <1>4 DEF AwaitRecovery, Recovering
  <2> QED
    BY <1>1, <2>1, <2>2, <2>3
    DEF RelaySafeOutsideRun, RunFollowsHysteresis, ErrorStreakIsAnswered,
        OkStreakOnlyInFault, DyingMeansSafe
<1>5. ASSUME AcceptSample(s)
      PROVE  /\ UNCHANGED <<cfg, power_is_dying>> /\ ~power_is_dying
             /\ sensor_error_streak' = 0 /\ sensor_ok_streak' = 0
             /\ filter_count' \in 0 .. MA_FILTER_SIZE
  BY <1>5 DEF AcceptSample, Locked, FilterAccepts, TypeOK
<1>6. CASE WarmUp(s) \/ MathFault(s)
  <2>1. relay_on' = cfg.relay_safe_state /\ state' \in {"WARMUP", "MATH_FAULT"}
    BY <1>6 DEF WarmUp, MathFault, MakeSafe
  <2>2. AcceptSample(s)
    BY <1>6 DEF WarmUp, MathFault
  <2> QED
    BY <1>1, <1>5, <2>1, <2>2
    DEF RelaySafeOutsideRun, RunFollowsHysteresis, ErrorStreakIsAnswered,
        OkStreakOnlyInFault, DyingMeansSafe
<1>7. ASSUME NEW m \in Margins, Regulate(s, m)
      PROVE  SafetyInv'
  <2>1. AcceptSample(s) /\ filter_count' >= MA_FILTER_SIZE
    BY <1>7 DEF Regulate
  <2>2. filter_count' = MA_FILTER_SIZE
    BY <1>5, <2>1
  <2>3. margin_cd' = m /\ state' = "RUN" /\ relay_on' = Hysteresis(m)
    BY <1>7 DEF Regulate
  <2> DEFINE above == m > cfg.dew_margin_off_cd
             below == m < cfg.dew_margin_on_cd
  <2>4. (relay_on' => ~above \/ below) /\ (~relay_on' => above \/ ~below)
    <3> HIDE DEF above, below
    <3>1. relay_on' = IF relay_on THEN ~above ELSE below
      BY <2>3 DEF Hysteresis, above, below
    <3>2. CASE relay_on
      BY <3>1, <3>2, Zenon
    <3>3. CASE ~relay_on
      BY <3>1, <3>3, Zenon
    <3> QED
      BY <3>2, <3>3
  <2>5. relay_on' => m <= cfg.dew_margin_off_cd
    BY <1>1, <2>4
  <2>6. ~relay_on' => m >= cfg.dew_margin_on_cd
    BY <1>1, <2>4
  <2> QED
    BY <1>1, <1>5, <2>1, <2>2, <2>3, <2>5, <2>6
    DEF RelaySafeOutsideRun, RunFollowsHysteresis, ErrorStreakIsAnswered,
        OkStreakOnlyInFault, DyingMeansSafe
<1> QED
  BY <1>2, <1>3, <1>4, <1>6, <1>7 DEF CtrlUpdate

\* Nor does an initialisation, whatever came before it.
LEMMA InitialisingSafe ==
    ASSUME NEW raw \in RawConfig,
           CtrlInit(raw) \/ (\E cause \in Causes : CtrlInitExtended(raw, cause))
    PROVE  SafetyInv'
<1>1. ClearFields(raw) /\ state' \in {"INIT", "WARMUP", "SAFE"}
  BY DEF CtrlInit, CtrlInitExtended, InitAfterWatchdog, InitAfterPowerOn, InitAfterOther
<1> QED
  BY <1>1, ClearFieldsSafe

\* Nor does the brown-out interrupt.
LEMMA ShutdownSafe ==
    ASSUME SafetyInv, CtrlForceEmergencyShutdown
    PROVE  SafetyInv'
<1>1. state' = "SAFE" /\ relay_on' = cfg.relay_safe_state
  BY DEF CtrlForceEmergencyShutdown
<1>2. UNCHANGED <<cfg, sensor_error_streak, sensor_ok_streak>>
  BY DEF CtrlForceEmergencyShutdown, streakVars
<1> QED
  BY <1>1, <1>2
  DEF SafetyInv, RelaySafeOutsideRun, RunFollowsHysteresis, ErrorStreakIsAnswered,
      OkStreakOnlyInFault, DyingMeansSafe

\* The five invariants together are inductive.
LEMMA SafetyInductive == Spec => []SafetyInv
<1>1. Init => SafetyInv
  <2> SUFFICES ASSUME Init
               PROVE  SafetyInv
    OBVIOUS
  <2>1. PICK raw \in RawConfigs :
          /\ cfg = Sanitised(raw) /\ relay_on = raw.relay_safe_state
          /\ state = "INIT" /\ sensor_error_streak = 0 /\ sensor_ok_streak = 0
          /\ power_is_dying = FALSE
    BY Zenon DEF Init
  <2>2. cfg \in SaneConfig /\ relay_on = cfg.relay_safe_state
    BY <2>1, SanitisedIsSane DEF Sanitised
  <2>3. 0 < cfg.fault_threshold /\ 0 < cfg.recovery_threshold
    BY <2>2 DEF SaneConfig, RawConfig, UInt8
  <2>4. DyingMeansSafe
    BY <2>1, Zenon DEF DyingMeansSafe
  <2> QED
    BY <2>1, <2>2, <2>3, <2>4
    DEF SafetyInv, RelaySafeOutsideRun, RunFollowsHysteresis, ErrorStreakIsAnswered,
        OkStreakOnlyInFault
<1>2. TypeOK /\ SafetyInv /\ [Next]_vars => SafetyInv'
  <2> SUFFICES ASSUME TypeOK, SafetyInv, [Next]_vars
               PROVE  SafetyInv'
    OBVIOUS
  <2>1. CASE Update
    BY <2>1, UpdateSafe DEF Update
  <2>2. CASE Reconfigure
    BY <2>2, InitialisingSafe DEF Reconfigure
  <2>3. CASE Boot
    BY <2>3, InitialisingSafe DEF Boot
  <2>4. CASE CtrlForceEmergencyShutdown
    BY <2>4, ShutdownSafe
  <2>5. CASE UNCHANGED vars
    BY <2>5
    DEF vars, ctrlVars, streakVars, crashVars, SafetyInv, RelaySafeOutsideRun,
        RunFollowsHysteresis, ErrorStreakIsAnswered, OkStreakOnlyInFault, DyingMeansSafe
  <2> QED
    BY <2>1, <2>2, <2>3, <2>4, <2>5 DEF Next
<1> QED
  BY <1>1, <1>2, TypeCorrect, PTL DEF Spec

\* Outside RUN the relay request is at its safe position.
THEOREM RelaySafety == Spec => []RelaySafeOutsideRun
<1>1. SafetyInv => RelaySafeOutsideRun
  BY DEF SafetyInv
<1> QED
  BY <1>1, SafetyInductive, PTL

\* In RUN the relay request agrees with the last margin, over a full filter.
THEOREM HysteresisCorrect == Spec => []RunFollowsHysteresis
<1>1. SafetyInv => RunFollowsHysteresis
  BY DEF SafetyInv
<1> QED
  BY <1>1, SafetyInductive, PTL

\* A run of fault_threshold bad samples is never left without its fault, for
\* every width of the streak counter and every threshold.
THEOREM FaultsAreAnswered == Spec => []ErrorStreakIsAnswered
<1>1. SafetyInv => ErrorStreakIsAnswered
  BY DEF SafetyInv
<1> QED
  BY <1>1, SafetyInductive, PTL

\* The recovery count lives only inside a fault and below its threshold.
THEOREM RecoveryCountBounded == Spec => []OkStreakOnlyInFault
<1>1. SafetyInv => OkStreakOnlyInFault
  BY DEF SafetyInv
<1> QED
  BY <1>1, SafetyInductive, PTL
-----------------------------------------------------------------------------
(***************************************************************************)
(* Progress, as far as it is a matter of steps: what fairness has then to  *)
(* bring about is only that the steps are made.                            *)
(***************************************************************************)

\* How many good samples the automaton is away from regulating: those that confirm that
\* the fault is over but for the last, and those that fill the filter, at least one.
GoodSamplesNeeded ==
    IF state \in {"RUN", "SAFE"} THEN 0
    ELSE (IF InFault THEN cfg.recovery_threshold - 1 - sensor_ok_streak ELSE 0)
         + (IF filter_count < MA_FILTER_SIZE THEN MA_FILTER_SIZE - filter_count ELSE 1)

\* A healthy step does all that there is to do.
LEMMA HealthyStepCounts ==
    ASSUME TypeOK, SafetyInv, HealthyStep
    PROVE  /\ GoodSamplesNeeded \in 0 .. cfg.recovery_threshold + MA_FILTER_SIZE - 1
           /\ GoodSamplesNeeded' = IF GoodSamplesNeeded = 0 THEN 0 ELSE GoodSamplesNeeded - 1
           /\ GoodSamplesNeeded = 0 <=> state \in {"RUN", "SAFE"}
<1> DEFINE R == cfg.recovery_threshold
           k == sensor_ok_streak
           c == filter_count
           rest == IF c < MA_FILTER_SIZE THEN MA_FILTER_SIZE - c ELSE 1
<1>1. /\ R \in Nat /\ R > 0 /\ R < UINT8_MOD /\ k \in Nat /\ k < R
      /\ c \in 0 .. MA_FILTER_SIZE /\ MA_FILTER_SIZE \in Nat \ {0}
      /\ rest \in 1 .. MA_FILTER_SIZE
  <2>1. R \in UInt8 /\ R > 0 /\ k \in UInt8 /\ k < R /\ c \in 0 .. MA_FILTER_SIZE
    BY DEF TypeOK, SaneConfig, RawConfig, SafetyInv, OkStreakOnlyInFault
  <2> QED
    BY <2>1 DEF UInt8
<1>2. Locked <=> state = "SAFE"
  BY DEF Locked, SafetyInv, DyingMeansSafe
<1>3. GoodSamplesNeeded = IF state \in {"RUN", "SAFE"} THEN 0
                          ELSE IF InFault THEN R - 1 - k + rest ELSE rest
  BY <1>1 DEF GoodSamplesNeeded
<1>4. /\ GoodSamplesNeeded \in 0 .. R + MA_FILTER_SIZE - 1
      /\ GoodSamplesNeeded = 0 <=> state \in {"RUN", "SAFE"}
  <2> HIDE DEF R, k, c, rest
  <2>1. CASE state \in {"RUN", "SAFE"}
    BY <1>1, <1>3, <2>1
  <2>2. CASE ~ (state \in {"RUN", "SAFE"}) /\ InFault
    BY <1>1, <1>3, <2>2
  <2>3. CASE ~ (state \in {"RUN", "SAFE"}) /\ ~InFault
    BY <1>1, <1>3, <2>3
  <2> QED
    BY <2>1, <2>2, <2>3
<1>5. PICK s \in Samples :
        RefuseWhenLocked \/ AwaitRecovery(s) \/ WarmUp(s) \/ \E m \in Margins : Regulate(s, m)
  BY DEF HealthyStep
<1>6. ASSUME RefuseWhenLocked
      PROVE  GoodSamplesNeeded' = IF GoodSamplesNeeded = 0 THEN 0 ELSE GoodSamplesNeeded - 1
  <2>1. state = "SAFE" /\ state' = "SAFE"
    BY <1>2, <1>6 DEF RefuseWhenLocked
  <2> QED
    BY <1>4, <2>1 DEF GoodSamplesNeeded
<1>7. ASSUME AwaitRecovery(s)
      PROVE  GoodSamplesNeeded' = IF GoodSamplesNeeded = 0 THEN 0 ELSE GoodSamplesNeeded - 1
  <2>1. InFault /\ InFault' /\ ~ (state \in {"RUN", "SAFE"}) /\ ~ (state' \in {"RUN", "SAFE"})
    BY <1>7 DEF AwaitRecovery, Recovering, InFault
  <2>2. Increment8(k) = k + 1
    BY <1>1 DEF Increment8
  <2>3. cfg' = cfg /\ filter_count' = c /\ sensor_ok_streak' = k + 1 /\ k + 1 < R
    BY <1>7, <2>2 DEF AwaitRecovery, Recovering
  <2>4. GoodSamplesNeeded = R - 1 - k + rest
    BY <1>3, <2>1
  <2>5. GoodSamplesNeeded' = R - 1 - (k + 1) + rest
    BY <2>1, <2>3 DEF GoodSamplesNeeded
  <2> HIDE DEF R, k, c, rest
  <2> QED
    BY <1>1, <1>4, <2>3, <2>4, <2>5
<1>8. ASSUME AcceptSample(s)
      PROVE  /\ state # "SAFE"
             /\ InFault => k = R - 1
             /\ filter_count' = IF c < MA_FILTER_SIZE THEN c + 1 ELSE c
             /\ GoodSamplesNeeded = IF state = "RUN" THEN 0 ELSE rest
             /\ state = "RUN" => c = MA_FILTER_SIZE
  <2>1. state # "SAFE" /\ ~Recovering /\ filter_count' = IF c < MA_FILTER_SIZE THEN c + 1 ELSE c
    BY <1>2, <1>8 DEF AcceptSample, FilterAccepts
  <2>2. InFault => k = R - 1
    <3>1. Increment8(k) = k + 1
      BY <1>1 DEF Increment8
    <3> QED
      BY <1>1, <2>1, <3>1 DEF Recovering
  <2>3. state = "RUN" => c = MA_FILTER_SIZE
    BY DEF SafetyInv, RunFollowsHysteresis
  <2>4. GoodSamplesNeeded = IF state = "RUN" THEN 0 ELSE rest
    <3> HIDE DEF R, k, c, rest
    <3> QED
      BY <1>1, <1>3, <2>1, <2>2
  <2> QED
    BY <2>1, <2>2, <2>3, <2>4
<1>9. ASSUME WarmUp(s)
      PROVE  GoodSamplesNeeded' = IF GoodSamplesNeeded = 0 THEN 0 ELSE GoodSamplesNeeded - 1
  <2>1. AcceptSample(s) /\ filter_count' < MA_FILTER_SIZE /\ state' = "WARMUP"
    BY <1>9 DEF WarmUp
  <2>2. filter_count' = c + 1 /\ c + 1 < MA_FILTER_SIZE /\ state # "RUN"
    BY <1>1, <1>8, <2>1
  <2>3. GoodSamplesNeeded' = MA_FILTER_SIZE - (c + 1)
    <3>1. ~InFault' /\ ~ (state' \in {"RUN", "SAFE"})
      BY <2>1 DEF InFault
    <3>2. GoodSamplesNeeded' = 0 + (MA_FILTER_SIZE - (c + 1))
      BY <2>2, <3>1 DEF GoodSamplesNeeded
    <3> QED
      BY <1>1, <3>2
  <2>4. GoodSamplesNeeded = MA_FILTER_SIZE - c
    BY <1>1, <1>8, <2>1, <2>2
  <2> HIDE DEF R, k, c, rest
  <2> QED
    BY <1>1, <1>4, <2>2, <2>3, <2>4
<1>10. ASSUME \E m \in Margins : Regulate(s, m)
      PROVE  GoodSamplesNeeded' = IF GoodSamplesNeeded = 0 THEN 0 ELSE GoodSamplesNeeded - 1
  <2>1. AcceptSample(s) /\ filter_count' >= MA_FILTER_SIZE /\ state' = "RUN"
    BY <1>10 DEF Regulate
  <2>2. GoodSamplesNeeded' = 0
    BY <2>1 DEF GoodSamplesNeeded
  <2>3. GoodSamplesNeeded = 0 \/ GoodSamplesNeeded = 1
    BY <1>1, <1>8, <2>1
  <2> QED
    BY <2>2, <2>3
<1>11. GoodSamplesNeeded' = IF GoodSamplesNeeded = 0 THEN 0 ELSE GoodSamplesNeeded - 1
  BY <1>5, <1>6, <1>7, <1>9, <1>10
<1> QED
  BY <1>4, <1>11

\* From any state outside SAFE, every good sample (with a computable dew point) brings the
\* automaton exactly one step nearer to RUN, which at most recovery_threshold +
\* MA_FILTER_SIZE - 1 of them reach; in RUN and SAFE they leave it (ctrl_update).
THEOREM EveryGoodSampleCounts ==
    Spec => [][HealthyStep =>
                 /\ GoodSamplesNeeded \in 0 .. cfg.recovery_threshold + MA_FILTER_SIZE - 1
                 /\ GoodSamplesNeeded' = IF GoodSamplesNeeded = 0 THEN 0 ELSE GoodSamplesNeeded - 1
                 /\ GoodSamplesNeeded = 0 <=> state \in {"RUN", "SAFE"}]_vars
<1>1. TypeOK /\ SafetyInv /\ [Next]_vars =>
        [HealthyStep =>
           /\ GoodSamplesNeeded \in 0 .. cfg.recovery_threshold + MA_FILTER_SIZE - 1
           /\ GoodSamplesNeeded' = IF GoodSamplesNeeded = 0 THEN 0 ELSE GoodSamplesNeeded - 1
           /\ GoodSamplesNeeded = 0 <=> state \in {"RUN", "SAFE"}]_vars
  BY HealthyStepCounts
<1> QED
  BY <1>1, TypeCorrect, SafetyInductive, PTL DEF Spec
-----------------------------------------------------------------------------
(***************************************************************************)
(* The streak counters.  A counter can wrap, but only while it does not    *)
(* matter: the bad streak in SENSOR_FAULT, the good one never.  Where it   *)
(* matters it is the exact length of the streak in the history.            *)
(***************************************************************************)

\* The last n of the samples, and no more, are all good or all bad.
StreakIs(n, good) ==
    Debounce!LatestAll(taken, n, good) /\ ~Debounce!LatestAll(taken, n + 1, good)

StreakInv ==
    /\ taken \in Seq(BOOLEAN) /\ Len(taken) <= HistoryDepth
    /\ ~Locked /\ state # "SENSOR_FAULT" => StreakIs(sensor_error_streak, FALSE)
    /\ state = "SENSOR_FAULT" => StreakIs(sensor_ok_streak, TRUE)

\* What is remembered stands last, and what was there before it stands before it.
LEMMA RememberLooksBack ==
    ASSUME NEW log \in Seq(BOOLEAN), Len(log) <= HistoryDepth, NEW good \in BOOLEAN
    PROVE  LET new == Debounce!Remember(log, good)
           IN  /\ new \in Seq(BOOLEAN) /\ Len(new) <= HistoryDepth
               /\ Len(new) = IF Len(log) < HistoryDepth THEN Len(log) + 1 ELSE HistoryDepth
               /\ new[Len(new)] = good
               /\ \A i \in 1 .. Len(new) - 1 : new[Len(new) - i] = log[Len(log) - (i - 1)]
<1> DEFINE new == Debounce!Remember(log, good)
<1>1. Len(log) \in Nat /\ HistoryDepth \in Nat /\ HistoryDepth > 0
  BY HistoryAssumption
<1>2. CASE Len(log) < HistoryDepth
  <2>1. new = Append(log, good)
    BY <1>2 DEF Debounce!Remember
  <2>2. /\ new \in Seq(BOOLEAN) /\ Len(new) = Len(log) + 1 /\ new[Len(log) + 1] = good
        /\ \A i \in 1 .. Len(log) : new[i] = log[i]
    BY <2>1, AppendProperties
  <2> HIDE DEF new
  <2>3. ASSUME NEW i \in 1 .. Len(new) - 1
        PROVE  new[Len(new) - i] = log[Len(log) - (i - 1)]
    <3>1. Len(new) - i \in 1 .. Len(log) /\ Len(new) - i = Len(log) - (i - 1)
      BY <1>1, <2>2
    <3> QED
      BY <2>2, <3>1
  <2> QED
    BY <1>1, <1>2, <2>2, <2>3 DEF new
<1>3. CASE Len(log) = HistoryDepth
  <2>1. new = Append(Tail(log), good)
    BY <1>1, <1>3 DEF Debounce!Remember
  <2>2. log # <<>>
    BY <1>1, <1>3
  <2>3. /\ Tail(log) \in Seq(BOOLEAN) /\ Len(Tail(log)) = Len(log) - 1
        /\ \A i \in 1 .. Len(log) - 1 : Tail(log)[i] = log[i + 1]
    BY <2>2, HeadTailProperties
  <2>4. /\ new \in Seq(BOOLEAN) /\ Len(new) = Len(log) /\ new[Len(log)] = good
        /\ \A i \in 1 .. Len(log) - 1 : new[i] = Tail(log)[i]
    <3>1. /\ new \in Seq(BOOLEAN) /\ Len(new) = Len(Tail(log)) + 1
          /\ new[Len(Tail(log)) + 1] = good
          /\ \A i \in 1 .. Len(Tail(log)) : new[i] = Tail(log)[i]
      BY <2>1, <2>3, AppendProperties
    <3>2. Len(Tail(log)) + 1 = Len(log)
      BY <1>1, <2>3
    <3> QED
      BY <2>3, <3>1, <3>2
  <2> HIDE DEF new
  <2>5. ASSUME NEW i \in 1 .. Len(new) - 1
        PROVE  new[Len(new) - i] = log[Len(log) - (i - 1)]
    <3>1. Len(new) - i \in 1 .. Len(log) - 1 /\ (Len(new) - i) + 1 = Len(log) - (i - 1)
      BY <1>1, <2>4
    <3> QED
      BY <2>3, <2>4, <3>1
  <2> QED
    BY <1>1, <1>3, <2>4, <2>5 DEF new
<1> QED
  BY <1>1, <1>2, <1>3

\* A streak grows by a sample of its kind.
LEMMA StreakGrows ==
    ASSUME NEW log \in Seq(BOOLEAN), Len(log) <= HistoryDepth, NEW good \in BOOLEAN,
           NEW n \in 0 .. HistoryDepth - 1
    PROVE  Debounce!LatestAll(Debounce!Remember(log, good), n + 1, good)
             <=> Debounce!LatestAll(log, n, good)
<1> DEFINE new == Debounce!Remember(log, good)
<1>1. /\ Len(new) = IF Len(log) < HistoryDepth THEN Len(log) + 1 ELSE HistoryDepth
      /\ new[Len(new)] = good
      /\ \A i \in 1 .. Len(new) - 1 : new[Len(new) - i] = log[Len(log) - (i - 1)]
  BY RememberLooksBack
<1> HIDE DEF new
<1>2. Len(log) \in Nat /\ HistoryDepth \in Nat /\ n \in Nat
  BY HistoryAssumption
<1>3. Len(new) >= n + 1 <=> Len(log) >= n
  BY <1>1, <1>2
<1>4. ASSUME Len(log) >= n
      PROVE  (\A i \in 0 .. (n + 1) - 1 : new[Len(new) - i] = good)
               <=> \A i \in 0 .. n - 1 : log[Len(log) - i] = good
  <2>1. \A i \in 0 .. n - 1 : new[Len(new) - (i + 1)] = log[Len(log) - i]
    <3> TAKE i \in 0 .. n - 1
    <3>1. i + 1 \in 1 .. Len(new) - 1 /\ (i + 1) - 1 = i
      BY <1>1, <1>2, <1>4
    <3> QED
      BY <1>1, <3>1
  <2>2. ASSUME \A i \in 0 .. (n + 1) - 1 : new[Len(new) - i] = good, NEW i \in 0 .. n - 1
        PROVE  log[Len(log) - i] = good
    <3>1. i + 1 \in 0 .. (n + 1) - 1
      BY <1>2
    <3> QED
      BY <2>1, <2>2, <3>1
  <2>3. ASSUME \A i \in 0 .. n - 1 : log[Len(log) - i] = good, NEW i \in 0 .. (n + 1) - 1
        PROVE  new[Len(new) - i] = good
    <3>1. CASE i = 0
      BY <1>1, <1>2, <3>1
    <3>2. CASE i > 0
      <4>1. i - 1 \in 0 .. n - 1 /\ (i - 1) + 1 = i
        BY <1>2, <3>2
      <4> QED
        BY <2>1, <2>3, <4>1
    <3> QED
      BY <1>2, <3>1, <3>2
  <2> QED
    BY <2>2, <2>3
<1> QED
  BY <1>3, <1>4 DEF Debounce!LatestAll, new

\* A sample of the other kind ends it.
LEMMA StreakEnds ==
    ASSUME NEW log \in Seq(BOOLEAN), Len(log) <= HistoryDepth, NEW good \in BOOLEAN,
           NEW other \in BOOLEAN, other # good, NEW n \in Nat \ {0}
    PROVE  ~Debounce!LatestAll(Debounce!Remember(log, good), n, other)
<1> DEFINE new == Debounce!Remember(log, good)
<1>1. new[Len(new)] = good /\ Len(new) \in Nat
  BY RememberLooksBack, HistoryAssumption
<1> HIDE DEF new
<1>2. 0 \in 0 .. n - 1 /\ Len(new) - 0 = Len(new)
  BY <1>1
<1> QED
  BY <1>1, <1>2 DEF Debounce!LatestAll, new

\* What holds of the latest holds of fewer.
LEMMA ShorterStreak ==
    ASSUME NEW log, NEW good, NEW n \in Nat, NEW m \in Nat, m <= n, Len(log) \in Nat,
           Debounce!LatestAll(log, n, good)
    PROVE  Debounce!LatestAll(log, m, good)
  BY DEF Debounce!LatestAll

\* The last none of the samples are of either kind.
LEMMA NothingIsAStreak ==
    ASSUME NEW log \in Seq(BOOLEAN), NEW good \in BOOLEAN
    PROVE  Debounce!LatestAll(log, 0, good)
  BY DEF Debounce!LatestAll

\* Before the first sample there is no streak.
LEMMA NoStreakYet ==
    ASSUME NEW good \in BOOLEAN
    PROVE  Debounce!LatestAll(<<>>, 0, good) /\ ~Debounce!LatestAll(<<>>, 0 + 1, good)
  BY DEF Debounce!LatestAll

\* Both thresholds fit the counters and the history.
LEMMA ThresholdsFit ==
    TypeOK => /\ cfg.fault_threshold \in 1 .. UINT8_MOD - 1
              /\ cfg.recovery_threshold \in 1 .. UINT8_MOD - 1
              /\ cfg.fault_threshold <= HistoryDepth /\ cfg.recovery_threshold <= HistoryDepth
  BY HistoryAssumption DEF TypeOK, SaneConfig, RawConfig, UInt8

LEMMA StreakInitially == HInit => StreakInv /\ Debounce!DebounceInit
<1> SUFFICES ASSUME HInit PROVE StreakInv /\ Debounce!DebounceInit
  OBVIOUS
<1>1. PICK raw \in RawConfigs :
        /\ cfg = Sanitised(raw) /\ sensor_error_streak = 0 /\ state = "INIT"
        /\ power_is_dying = FALSE
  BY Zenon DEF HInit, Init
<1>2. taken = <<>> /\ state # "SENSOR_FAULT"
  BY <1>1 DEF HInit
<1>3. Locked = FALSE
  BY <1>1, Zenon DEF Locked
<1>4. /\ cfg.fault_threshold \in 1 .. HistoryDepth
      /\ cfg.recovery_threshold \in 1 .. HistoryDepth
  <2>1. cfg \in SaneConfig
    BY <1>1, SanitisedIsSane
  <2> QED
    BY <2>1, HistoryAssumption DEF SaneConfig, RawConfig, UInt8
<1>5. StreakInv
  <2>1. taken \in Seq(BOOLEAN) /\ Len(taken) <= HistoryDepth
    BY <1>2, HistoryAssumption
  <2>2. StreakIs(sensor_error_streak, FALSE)
    BY <1>1, <1>2, NoStreakYet, Zenon DEF StreakIs
  <2> QED
    BY <1>2, <2>1, <2>2 DEF StreakInv
<1>6. Debounce!DebounceInit
  <2>1. [fault |-> cfg.fault_threshold, recovery |-> cfg.recovery_threshold] \in Debounce!Limits
    BY <1>4 DEF Debounce!Limits
  <2>2. (state = "SENSOR_FAULT") = FALSE
    BY <1>2
  <2> QED
    BY <1>2, <1>3, <2>1, <2>2, Zenon DEF Debounce!DebounceInit
<1> QED
  BY <1>5, <1>6

\* Every initialisation is a Restart.
LEMMA ClearingRestarts ==
    ASSUME NEW raw \in RawConfigs, ClearFields(raw), state' \in {"INIT", "WARMUP", "SAFE"},
           taken' = <<>>
    PROVE  StreakInv' /\ Debounce!Restart
<1>1. cfg' \in SaneConfig /\ sensor_error_streak' = 0 /\ state' # "SENSOR_FAULT"
  BY SanitisedIsSane DEF ClearFields
<1>2. StreakInv'
  <2>1. taken' \in Seq(BOOLEAN) /\ Len(taken') <= HistoryDepth
    BY HistoryAssumption
  <2>2. StreakIs(sensor_error_streak, FALSE)'
    BY <1>1, NoStreakYet, Zenon DEF StreakIs
  <2> QED
    BY <1>1, <2>1, <2>2 DEF StreakInv
<1>3. [fault |-> cfg'.fault_threshold, recovery |-> cfg'.recovery_threshold] \in Debounce!Limits
  BY <1>1, HistoryAssumption DEF SaneConfig, RawConfig, UInt8, Debounce!Limits
<1>4. Locked' \in BOOLEAN /\ (state' = "SENSOR_FAULT") = FALSE
  BY <1>1 DEF Locked
<1> QED
  BY <1>2, <1>3, <1>4, Zenon DEF Debounce!Restart

\* What has to be shown of a sample that is looked at.
LEMMA SampledIf ==
    ASSUME NEW good \in BOOLEAN, ~Locked, ~Locked', UNCHANGED cfg,
           taken' = Debounce!Remember(taken, good),
           state' = "SENSOR_FAULT"
             <=> \/ Debounce!LatestAll(taken', cfg.fault_threshold, FALSE)
                 \/ /\ state = "SENSOR_FAULT"
                    /\ ~Debounce!LatestAll(taken', cfg.recovery_threshold, TRUE)
    PROVE  Debounce!Sampled(good)
<1> DEFINE limits == [fault |-> cfg.fault_threshold, recovery |-> cfg.recovery_threshold]
<1>1. limits.fault = cfg.fault_threshold /\ limits.recovery = cfg.recovery_threshold
  OBVIOUS
<1>2. limits' = limits
  OBVIOUS
<1>3. Locked = FALSE /\ Locked' = FALSE
  BY DEF Locked
<1> HIDE DEF limits
<1>4. (state' = "SENSOR_FAULT")
        = \/ Debounce!LatestAll(taken', limits.fault, FALSE)
          \/ state = "SENSOR_FAULT" /\ ~Debounce!LatestAll(taken', limits.recovery, TRUE)
  BY <1>1, Zenon
<1> QED
  BY <1>2, <1>3, <1>4, Zenon DEF Debounce!Sampled, limits

\* A bad sample, with the counter just before its threshold or far beyond it.
LEMMA RejectingIsSampled ==
    ASSUME TypeOK, SafetyInv, StreakInv, NEW s \in Samples, RejectSample(s),
           Note(SampleIsValid(s))
    PROVE  StreakInv' /\ Debounce!Sampled(FALSE)
<1> DEFINE e == sensor_error_streak
           T == cfg.fault_threshold
           R == cfg.recovery_threshold
<1>1. /\ ~Locked /\ SampleIsValid(s) = FALSE
      /\ UNCHANGED <<cfg, power_is_dying>> /\ sensor_ok_streak' = 0
      /\ e' = Increment8(e)
      /\ IF e' >= T THEN state' = "SENSOR_FAULT" ELSE state' = state
  BY DEF RejectSample
<1>2. taken' = Debounce!Remember(taken, FALSE)
  BY <1>1 DEF Note, Debounce!Remember
<1>3. taken \in Seq(BOOLEAN) /\ Len(taken) <= HistoryDepth
  BY DEF StreakInv
<1>4. taken' \in Seq(BOOLEAN) /\ Len(taken') <= HistoryDepth /\ Len(taken') \in Nat
  <2>1. taken' \in Seq(BOOLEAN) /\ Len(taken') <= HistoryDepth
    BY <1>2, <1>3, RememberLooksBack, Zenon
  <2> QED
    BY <2>1
<1>5. /\ T \in 1 .. UINT8_MOD - 1 /\ R \in 1 .. UINT8_MOD - 1
      /\ T <= HistoryDepth /\ R <= HistoryDepth
      /\ e \in UInt8 /\ HistoryDepth \in Nat /\ UINT8_MOD \in Nat
  BY ThresholdsFit, HistoryAssumption DEF TypeOK
<1>6. ~Locked' /\ state # "SAFE"
  BY <1>1 DEF Locked
<1>7. \A n \in Nat \ {0} : ~Debounce!LatestAll(taken', n, TRUE)
  BY <1>2, <1>3, StreakEnds
<1>8. StreakIs(sensor_ok_streak, TRUE)'
  <2>1. Debounce!LatestAll(taken', 0, TRUE)
    BY <1>4, NothingIsAStreak, Zenon
  <2> QED
    BY <1>1, <1>7, <2>1, 0 + 1 \in Nat \ {0}, Zenon DEF StreakIs
<1>9. CASE state = "SENSOR_FAULT"
  <2>1. state' = "SENSOR_FAULT"
    BY <1>1, <1>9
  <2>2. ~Debounce!LatestAll(taken', R, TRUE)
    BY <1>5, <1>7, R \in Nat \ {0}, Zenon
  <2>3. Debounce!Sampled(FALSE)
    BY <1>1, <1>2, <1>6, <1>9, <2>1, <2>2, SampledIf, Zenon
  <2> QED
    BY <1>4, <1>8, <2>1, <2>3 DEF StreakInv
<1>10. CASE state # "SENSOR_FAULT"
  <2>1. e < T /\ StreakIs(e, FALSE)
    BY <1>1, <1>6, <1>10 DEF SafetyInv, ErrorStreakIsAnswered, StreakInv
  <2>2. e' = e + 1 /\ e \in 0 .. HistoryDepth - 1
    BY <1>1, <1>5, <2>1 DEF Increment8, UInt8
  <2>3. Debounce!LatestAll(taken', e', FALSE)
    BY <1>2, <1>3, <2>1, <2>2, StreakGrows DEF StreakIs
  <2>4. CASE e' >= T
    <3>1. state' = "SENSOR_FAULT" /\ e' = T
      BY <1>1, <1>5, <2>1, <2>2, <2>4
    <3>2. Debounce!Sampled(FALSE)
      BY <1>1, <1>2, <1>6, <2>3, <3>1, SampledIf, Zenon
    <3> QED
      BY <1>4, <1>8, <3>1, <3>2 DEF StreakInv
  <2>5. CASE ~(e' >= T)
    <3>1. state' = state /\ e' + 1 <= T /\ e' \in Nat
      BY <1>1, <1>5, <2>2, <2>5
    <3>2. ~Debounce!LatestAll(taken', e' + 1, FALSE)
      <4>1. e + 1 \in 0 .. HistoryDepth - 1 /\ e' + 1 = (e + 1) + 1
        BY <1>5, <2>2, <3>1
      <4>2. ~Debounce!LatestAll(taken, e + 1, FALSE)
        BY <2>1 DEF StreakIs
      <4> QED
        BY <1>2, <1>3, <4>1, <4>2, StreakGrows
    <3>3. ~Debounce!LatestAll(taken', T, FALSE)
      <4>1. T \in Nat
        BY <1>5
      <4>2. e' \in Nat /\ e' + 1 <= T
        BY <3>1
      <4> DEFINE m == e'
      <4>3. m \in Nat /\ m + 1 <= T /\ ~Debounce!LatestAll(taken', m + 1, FALSE)
        BY <3>2, <4>2, Zenon
      <4> HIDE DEF m
      <4>4. m + 1 \in Nat
        BY <4>3
      <4> QED
        BY <1>4, <4>1, <4>3, <4>4, ShorterStreak, Zenon
    <3>4. Debounce!Sampled(FALSE)
      BY <1>1, <1>2, <1>6, <1>10, <3>1, <3>3, SampledIf, Zenon
    <3>5. StreakIs(sensor_error_streak, FALSE)'
      BY <2>3, <3>2 DEF StreakIs
    <3> QED
      BY <1>4, <1>10, <3>1, <3>4, <3>5 DEF StreakInv
  <2> QED
    BY <2>4, <2>5
<1> QED
  BY <1>9, <1>10

\* A good sample ends every streak of bad ones.
LEMMA GoodSampleEndsBad ==
    ASSUME StreakInv, taken' = Debounce!Remember(taken, TRUE), sensor_error_streak' = 0
    PROVE  /\ taken' \in Seq(BOOLEAN) /\ Len(taken') <= HistoryDepth
           /\ \A n \in Nat \ {0} : ~Debounce!LatestAll(taken', n, FALSE)
           /\ StreakIs(sensor_error_streak, FALSE)'
<1>1. taken \in Seq(BOOLEAN) /\ Len(taken) <= HistoryDepth
  BY DEF StreakInv
<1>2. taken' \in Seq(BOOLEAN) /\ Len(taken') <= HistoryDepth
  BY <1>1, RememberLooksBack, Zenon
<1>3. \A n \in Nat \ {0} : ~Debounce!LatestAll(taken', n, FALSE)
  BY <1>1, StreakEnds
<1>4. Debounce!LatestAll(taken', 0, FALSE)
  BY <1>2, NothingIsAStreak, Zenon
<1>5. StreakIs(sensor_error_streak, FALSE)'
  BY <1>3, <1>4, 0 + 1 \in Nat \ {0}, Zenon DEF StreakIs
<1> QED
  BY <1>2, <1>3, <1>5

\* A good sample that does not yet end the fault.
LEMMA AwaitingIsSampled ==
    ASSUME TypeOK, SafetyInv, StreakInv, NEW s \in Samples, AwaitRecovery(s),
           Note(SampleIsValid(s))
    PROVE  StreakInv' /\ Debounce!Sampled(TRUE)
<1>1. /\ ~Locked /\ SampleIsValid(s) = TRUE
      /\ UNCHANGED <<cfg, power_is_dying, state>> /\ sensor_error_streak' = 0
      /\ sensor_ok_streak' = Increment8(sensor_ok_streak)
      /\ Increment8(sensor_ok_streak) < cfg.recovery_threshold
  BY DEF AwaitRecovery, Recovering, SampleIsValid
<1>2. taken' = Debounce!Remember(taken, TRUE)
  BY <1>1 DEF Note, Debounce!Remember
<1>3. taken \in Seq(BOOLEAN) /\ Len(taken) <= HistoryDepth
  BY DEF StreakInv
<1>4. /\ taken' \in Seq(BOOLEAN) /\ Len(taken') <= HistoryDepth
      /\ \A n \in Nat \ {0} : ~Debounce!LatestAll(taken', n, FALSE)
      /\ StreakIs(sensor_error_streak, FALSE)'
  BY <1>1, <1>2, GoodSampleEndsBad
<1>5. ~Locked'
  BY <1>1 DEF Locked
<1>6. ~Debounce!LatestAll(taken', cfg.fault_threshold, FALSE)
  <2>1. cfg.fault_threshold \in Nat \ {0}
    BY ThresholdsFit
  <2> QED
    BY <1>4, <2>1
<1>7. CASE state = "SENSOR_FAULT"
  <2> DEFINE k == sensor_ok_streak
             R == cfg.recovery_threshold
  <2>1. k < R /\ StreakIs(k, TRUE)
    BY <1>7 DEF SafetyInv, OkStreakOnlyInFault, StreakInv
  <2>2. /\ R \in 1 .. UINT8_MOD - 1 /\ R <= HistoryDepth
        /\ k \in UInt8 /\ HistoryDepth \in Nat
    BY ThresholdsFit, HistoryAssumption DEF TypeOK
  <2>3. sensor_ok_streak' = k + 1 /\ k + 1 < R
    BY <1>1, <2>1, <2>2 DEF Increment8, UInt8
  <2> HIDE DEF k, R
  <2>4. /\ k \in 0 .. HistoryDepth - 1 /\ k + 1 \in 0 .. HistoryDepth - 1
        /\ k + 2 \in Nat /\ R \in Nat /\ k + 2 <= R /\ k + 2 = (k + 1) + 1
    BY <2>2, <2>3 DEF UInt8
  <2>5. Debounce!LatestAll(taken', k + 1, TRUE)
    BY <1>2, <1>3, <2>1, <2>4, StreakGrows DEF StreakIs
  <2>6. ~Debounce!LatestAll(taken', k + 2, TRUE)
    BY <1>2, <1>3, <2>1, <2>4, StreakGrows DEF StreakIs
  <2>7. ~Debounce!LatestAll(taken', R, TRUE)
    <3>1. Len(taken') \in Nat
      BY <1>4
    <3> QED
      BY <2>4, <2>6, <3>1, ShorterStreak, Zenon
  <2>8. StreakIs(sensor_ok_streak, TRUE)'
    BY <2>3, <2>4, <2>5, <2>6, Zenon DEF StreakIs
  <2>9. Debounce!Sampled(TRUE)
    BY <1>1, <1>2, <1>5, <1>7, <2>7, SampledIf, Zenon DEF R
  <2> QED
    BY <1>1, <1>4, <2>8, <2>9 DEF StreakInv
<1>8. CASE state # "SENSOR_FAULT"
  <2>1. Debounce!Sampled(TRUE)
    BY <1>1, <1>2, <1>5, <1>6, <1>8, SampledIf, Zenon
  <2> QED
    BY <1>1, <1>4, <1>8, <2>1 DEF StreakInv
<1> QED
  BY <1>7, <1>8

\* A good sample outside a fault, or the last one that it takes to end it.
LEMMA AcceptingIsSampled ==
    ASSUME TypeOK, SafetyInv, StreakInv, NEW s \in Samples, AcceptSample(s),
           state' \in {"WARMUP", "MATH_FAULT", "RUN"}, Note(SampleIsValid(s))
    PROVE  StreakInv' /\ Debounce!Sampled(TRUE)
<1>1. /\ ~Locked /\ SampleIsValid(s) = TRUE /\ ~Recovering
      /\ UNCHANGED <<cfg, power_is_dying>> /\ sensor_error_streak' = 0
  BY DEF AcceptSample, SampleIsValid
<1>2. taken' = Debounce!Remember(taken, TRUE)
  BY <1>1 DEF Note, Debounce!Remember
<1>3. taken \in Seq(BOOLEAN) /\ Len(taken) <= HistoryDepth
  BY DEF StreakInv
<1>4. /\ taken' \in Seq(BOOLEAN) /\ Len(taken') <= HistoryDepth
      /\ \A n \in Nat \ {0} : ~Debounce!LatestAll(taken', n, FALSE)
      /\ StreakIs(sensor_error_streak, FALSE)'
  BY <1>1, <1>2, GoodSampleEndsBad
<1>5. ~Locked' /\ state' # "SENSOR_FAULT"
  BY <1>1 DEF Locked
<1>6. ~Debounce!LatestAll(taken', cfg.fault_threshold, FALSE)
  <2>1. cfg.fault_threshold \in Nat \ {0}
    BY ThresholdsFit
  <2> QED
    BY <1>4, <2>1
<1>7. ASSUME state = "SENSOR_FAULT"
      PROVE  Debounce!LatestAll(taken', cfg.recovery_threshold, TRUE)
  <2> DEFINE k == sensor_ok_streak
             R == cfg.recovery_threshold
  <2>1. k < R /\ StreakIs(k, TRUE)
    BY <1>7 DEF SafetyInv, OkStreakOnlyInFault, StreakInv
  <2>2. /\ R \in 1 .. UINT8_MOD - 1 /\ R <= HistoryDepth
        /\ k \in UInt8 /\ HistoryDepth \in Nat
    BY ThresholdsFit, HistoryAssumption DEF TypeOK
  <2>3. ~(Increment8(k) < R)
    BY <1>1, <1>7 DEF Recovering, InFault
  <2>4. k + 1 = R /\ k \in 0 .. HistoryDepth - 1
    BY <2>1, <2>2, <2>3 DEF Increment8, UInt8
  <2> HIDE DEF k, R
  <2>5. Debounce!LatestAll(taken', k + 1, TRUE)
    BY <1>2, <1>3, <2>1, <2>4, StreakGrows DEF StreakIs
  <2> QED
    BY <2>4, <2>5, Zenon DEF R
<1>8. Debounce!Sampled(TRUE)
  BY <1>1, <1>2, <1>5, <1>6, <1>7, SampledIf, Zenon
<1> QED
  BY <1>4, <1>5, <1>8 DEF StreakInv

LEMMA StreakStep ==
    TypeOK /\ SafetyInv /\ StreakInv /\ [HNext]_hVars
      => StreakInv' /\ [Debounce!DebounceNext]_(Debounce!debounceVars)
<1> SUFFICES ASSUME TypeOK, SafetyInv, StreakInv, [HNext]_hVars
             PROVE  StreakInv' /\ [Debounce!DebounceNext]_(Debounce!debounceVars)
  OBVIOUS
<1>1. ASSUME Debounce!Sampled(TRUE) \/ Debounce!Sampled(FALSE)
      PROVE  Debounce!DebounceNext
  BY <1>1, TRUE \in BOOLEAN, FALSE \in BOOLEAN, Zenon DEF Debounce!DebounceNext
<1>2. ASSUME UNCHANGED <<cfg, sensor_error_streak, sensor_ok_streak, state, power_is_dying, taken>>
      PROVE  StreakInv' /\ UNCHANGED Debounce!debounceVars
  BY <1>2 DEF StreakInv, StreakIs, Locked, Debounce!debounceVars
<1>3. CASE HUpdate
  <2>1. PICK s \in Samples : CtrlUpdate(s) /\ Note(SampleIsValid(s))
    BY <1>3 DEF HUpdate
  <2>2. CASE RefuseWhenLocked
    <3>1. taken' = taken
      BY <2>1, <2>2 DEF RefuseWhenLocked, Note
    <3> QED
      BY <1>2, <2>2, <3>1 DEF RefuseWhenLocked, streakVars
  <2>3. CASE RejectSample(s)
    BY <1>1, <2>1, <2>3, RejectingIsSampled
  <2>4. CASE AwaitRecovery(s)
    BY <1>1, <2>1, <2>4, AwaitingIsSampled
  <2>5. CASE WarmUp(s) \/ MathFault(s) \/ \E m \in Margins : Regulate(s, m)
    <3>1. AcceptSample(s) /\ state' \in {"WARMUP", "MATH_FAULT", "RUN"}
      BY <2>5 DEF WarmUp, MathFault, Regulate
    <3> QED
      BY <1>1, <2>1, <3>1, AcceptingIsSampled
  <2> QED
    BY <2>1, <2>2, <2>3, <2>4, <2>5 DEF CtrlUpdate
<1>4. CASE (Reconfigure \/ Boot) /\ taken' = <<>>
  <2>1. PICK raw \in RawConfigs :
          ClearFields(raw) /\ state' \in {"INIT", "WARMUP", "SAFE"}
    BY <1>4
    DEF Reconfigure, Boot, CtrlInit, CtrlInitExtended, InitAfterWatchdog, InitAfterPowerOn,
        InitAfterOther
  <2>2. StreakInv' /\ Debounce!Restart
    BY <1>4, <2>1, ClearingRestarts
  <2> QED
    BY <2>2, Zenon DEF Debounce!DebounceNext
<1>5. CASE CtrlForceEmergencyShutdown /\ UNCHANGED taken
  <2>1. state' = "SAFE" /\ UNCHANGED <<cfg, taken>>
    BY <1>5 DEF CtrlForceEmergencyShutdown
  <2>2. Locked' = TRUE /\ (state' = "SENSOR_FAULT") = FALSE
    BY <2>1 DEF Locked
  <2>3. StreakInv'
    BY <2>1, <2>2 DEF StreakInv
  <2>4. Debounce!Lock
    BY <2>1, <2>2, Zenon DEF Debounce!Lock
  <2> QED
    BY <2>3, <2>4, Zenon DEF Debounce!DebounceNext
<1>6. CASE UNCHANGED hVars
  BY <1>2, <1>6 DEF hVars, vars, ctrlVars, streakVars
<1> QED
  BY <1>3, <1>4, <1>5, <1>6 DEF HNext

\* The wrapping streak counters debounce the sensor as SampleDebounce says, wherever the
\* automaton was in between (ctrl_update): the fault begins and ends with exactly as many
\* bad and good samples in a row as the thresholds ask for.
THEOREM StreaksDebounce == HSpec => ImplementsDebounce
<1>1. HInit => Init
  BY DEF HInit
<1>2. [HNext]_hVars => [Next]_vars
  BY DEF HNext, HUpdate, hVars, Next, Update
<1>3. HSpec => Spec
  BY <1>1, <1>2, PTL DEF HSpec, Spec
<1> QED
  BY <1>3, TypeCorrect, SafetyInductive, StreakInitially, StreakStep, PTL
  DEF HSpec, ImplementsDebounce, Debounce!DebounceSpec
-----------------------------------------------------------------------------
(***************************************************************************)
(* Crash isolation, for every set of reset flags, as long as there are     *)
(* fewer watchdog resets between two recognised power-ons than the crash   *)
(* counter has values: behind that the counter wraps and the lock opens.   *)
(***************************************************************************)

\* The register holds at least the crashes in a row and no more than those since
\* the power-on, so that it has not wrapped; the counter in RAM is the register
\* or was cleared by a reset of another cause.
CrashCount ==
    /\ state \in States
    /\ power_is_dying = FALSE
    /\ in_row \in Nat /\ backup \in Nat
    /\ since_power_on \in 0 .. MaxCrashes
    /\ in_row <= backup \/ state = "RUN"
    /\ backup <= since_power_on
    /\ watchdog_crash_counter \in {0, backup}
    /\ only_crashes \in BOOLEAN

\* Where the three counts stand in each state, and that they are one number as
\* long as no reset of another cause tells them apart.
CrashesAndLock ==
    /\ state = "RUN" => in_row = 0
    /\ state = "SAFE" => watchdog_crash_counter >= CRASH_LIMIT
    /\ in_row >= CRASH_LIMIT => state = "SAFE"
    /\ only_crashes => backup = in_row /\ watchdog_crash_counter = in_row

IsolationInv == CrashCount /\ CrashesAndLock

\* Below its width the crash counter counts.
LEMMA Increment8Counts ==
    ASSUME NEW n \in Nat, n + 1 < UINT8_MOD
    PROVE  Increment8(n) = n + 1
  BY ConstantsAssumption DEF Increment8

\* What an update does to the counts: it leaves them alone, or it reaches RUN
\* and repays what RAM knows of; it never locks, and it never opens a lock.
LEMMA UpdateOfCounts ==
    ASSUME CrashCount, Update
    PROVE  /\ state' \in States /\ power_is_dying' = FALSE
           /\ state = "SAFE" <=> state' = "SAFE"
           /\ \/ UNCHANGED crashVars
              \/ /\ state' = "RUN" /\ watchdog_crash_counter > 0
                 /\ watchdog_crash_counter' = 0 /\ backup' = 0
           /\ state' = "RUN" /\ state # "RUN" =>
                watchdog_crash_counter' = 0
<1> USE DEF CrashCount, States, crashVars
<1>1. PICK s \in Samples : CtrlUpdate(s)
  BY DEF Update
<1>2. CASE RefuseWhenLocked
  BY <1>2 DEF RefuseWhenLocked
<1>3. CASE RejectSample(s)
  BY <1>3 DEF RejectSample, Locked
<1>4. CASE AwaitRecovery(s)
  BY <1>4 DEF AwaitRecovery, Locked
<1>5. CASE WarmUp(s)
  BY <1>5 DEF WarmUp, AcceptSample, Locked
<1>6. CASE MathFault(s)
  BY <1>6 DEF MathFault, AcceptSample, Locked
<1>7. ASSUME NEW m \in Margins, Regulate(s, m)
      PROVE  /\ state # "SAFE" /\ state' = "RUN" /\ power_is_dying' = FALSE
             /\ watchdog_crash_counter' = 0
             /\ \/ UNCHANGED crashVars
                \/ watchdog_crash_counter > 0 /\ backup' = 0
  BY <1>7 DEF Regulate, AcceptSample, Locked, ForgiveCrashes
<1> QED
  BY <1>1, <1>2, <1>3, <1>4, <1>5, <1>6, <1>7 DEF CtrlUpdate

\* The counts in the first state.
LEMMA IsolationInitially == IsolationInit => IsolationInv
  BY FlagSetsAssumption DEF IsolationInit, IsolationInv, CrashCount, CrashesAndLock,
                            States, CRASH_LIMIT

\* Every step keeps the counts together.
LEMMA IsolationInductive ==
    ASSUME MaxCrashes < UINT8_MOD, IsolationInv, [IsolationNext]_isolationVars
    PROVE  IsolationInv'
<1> USE FlagSetsAssumption DEF IsolationInv, CrashCount, CrashesAndLock, CRASH_LIMIT
<1>1. CASE CrashReset
  <2>1. /\ since_power_on < MaxCrashes
        /\ InitAfterWatchdog(CONTROLLER_DEFAULTS)
        /\ in_row' = in_row + 1 /\ since_power_on' = since_power_on + 1
        /\ UNCHANGED only_crashes
    BY <1>1 DEF CrashReset, CtrlInitExtended
  <2>2. Increment8(backup) = backup + 1
    BY <2>1, Increment8Counts, ConstantsAssumption
  <2>3. /\ backup' = backup + 1 /\ watchdog_crash_counter' = backup'
        /\ state' = IF watchdog_crash_counter' >= CRASH_LIMIT THEN "SAFE" ELSE "WARMUP"
        /\ power_is_dying' = FALSE
    BY <2>1, <2>2 DEF InitAfterWatchdog, ClearFields
  <2>4. in_row' <= backup'
    BY <2>1, <2>3
  <2> QED
    BY <2>1, <2>3, <2>4 DEF States
<1>2. CASE OtherReset
  <2>1. PICK flags \in FlagSets :
          /\ ResetCause(flags) # "WATCHDOG"
          /\ CtrlInitExtended(CONTROLLER_DEFAULTS, ResetCause(flags))
          /\ in_row' = 0
          /\ only_crashes' = (ResetCause(flags) = "POWER_ON")
          /\ since_power_on' = IF only_crashes' THEN 0 ELSE since_power_on
    BY <1>2 DEF OtherReset
  <2>2. CASE ResetCause(flags) = "POWER_ON"
    <3>1. InitAfterPowerOn(CONTROLLER_DEFAULTS)
      BY <2>1, <2>2 DEF CtrlInitExtended
    <3> QED
      BY <2>1, <2>2, <3>1 DEF InitAfterPowerOn, ClearFields, States
  <2>3. CASE ResetCause(flags) # "POWER_ON"
    <3>1. InitAfterOther(CONTROLLER_DEFAULTS)
      BY <2>1, <2>3 DEF CtrlInitExtended
    <3>2. only_crashes' = FALSE /\ UNCHANGED since_power_on
      BY <2>1, <2>3
    <3> QED
      BY <2>1, <3>1, <3>2 DEF InitAfterOther, ClearFields, States
  <2> QED
    BY <2>2, <2>3
<1>3. CASE Running
  <2>1. /\ Update
        /\ in_row' = IF state' = "RUN" THEN 0 ELSE in_row
        /\ UNCHANGED <<since_power_on, only_crashes>>
    BY <1>3 DEF Running
  <2>2. /\ state' \in States /\ power_is_dying' = FALSE
        /\ state = "SAFE" <=> state' = "SAFE"
        /\ \/ UNCHANGED crashVars
           \/ /\ state' = "RUN" /\ watchdog_crash_counter > 0
              /\ watchdog_crash_counter' = 0 /\ backup' = 0
        /\ state' = "RUN" /\ state # "RUN" => watchdog_crash_counter' = 0
    BY <2>1, UpdateOfCounts
  <2>3. CASE state' = "RUN"
    <3>1. in_row' = 0
      BY <2>1, <2>3
    <3>2. only_crashes => backup' = 0 /\ watchdog_crash_counter' = 0
      BY <2>2, <2>3 DEF crashVars
    <3> QED
      BY <2>1, <2>2, <2>3, <3>1, <3>2 DEF crashVars
  <2>4. CASE state' # "RUN"
    <3>1. in_row' = in_row /\ UNCHANGED <<watchdog_crash_counter, backup>>
      BY <2>1, <2>2, <2>4 DEF crashVars
    <3>2. state = "RUN" => in_row = 0
      OBVIOUS
    <3> QED
      BY <2>1, <2>2, <2>4, <3>1, <3>2
  <2> QED
    BY <2>3, <2>4
<1>4. CASE UNCHANGED isolationVars
  BY <1>4 DEF isolationVars, vars, ctrlVars, crashVars
<1> QED
  BY <1>1, <1>2, <1>3, <1>4 DEF IsolationNext

\* Three watchdog resets in a row without a RUN decision lock the output, whatever
\* other resets came between (ctrl_init_extended).
THEOREM ThreeCrashesLock ==
    ASSUME MaxCrashes < UINT8_MOD
    PROVE  IsolationSpec => []ThreeInRowLock
<1>1. IsolationInv => ThreeInRowLock
  BY DEF IsolationInv, CrashCount, CrashesAndLock, ThreeInRowLock
<1> QED
  BY <1>1, IsolationInitially, IsolationInductive, PTL DEF IsolationSpec

\* Outside RUN the backup register holds at least the crashes in a row, so the count
\* goes on after the next reset (ctrl_init_extended saves before it locks).
THEOREM CrashesAreNotForgotten ==
    ASSUME MaxCrashes < UINT8_MOD
    PROVE  IsolationSpec => []CrashesAreRemembered
<1>1. IsolationInv => CrashesAreRemembered
  BY DEF IsolationInv, CrashCount, CrashesAndLock, CrashesAreRemembered
<1> QED
  BY <1>1, IsolationInitially, IsolationInductive, PTL DEF IsolationSpec

\* With no other causes than watchdog and power-on, the output is locked for nothing
\* less than three watchdog resets in a row (ctrl_init_extended).
THEOREM NothingElseLocks ==
    ASSUME MaxCrashes < UINT8_MOD
    PROVE  IsolationSpec => []LockNeedsThreeInRow
<1>1. IsolationInv => LockNeedsThreeInRow
  BY DEF IsolationInv, CrashCount, CrashesAndLock, LockNeedsThreeInRow
<1> QED
  BY <1>1, IsolationInitially, IsolationInductive, PTL DEF IsolationSpec

\* With no other causes than watchdog and power-on, RUN leaves no crash in the
\* register (ctrl_update, its last if).
THEOREM RunRepaysCrashes ==
    ASSUME MaxCrashes < UINT8_MOD
    PROVE  IsolationSpec => []RunForgives
<1>1. IsolationInv => RunForgives
  BY DEF IsolationInv, CrashCount, CrashesAndLock, RunForgives
<1> QED
  BY <1>1, IsolationInitially, IsolationInductive, PTL DEF IsolationSpec
=============================================================================
