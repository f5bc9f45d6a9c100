---------------------------- MODULE MCController ----------------------------
(* Instance of Controller with its history of samples for TLC. *)
EXTENDS ControllerDebounce

MCConfig(on, off, fault, recovery, safe) ==
    [dew_margin_on_cd |-> on, dew_margin_off_cd |-> off, sample_period_ms |-> 1000,
     fault_threshold |-> fault, recovery_threshold |-> recovery, relay_safe_state |-> safe]

\* Thresholds 1, 2, 3 and the limit of the counter, 4 in this instance: the
\* defaults; a caller whose margins and thresholds need every repair and
\* whose safe position is "on"; a fault threshold at the limit of the counter.
MCRawConfigs ==
    {CONTROLLER_DEFAULTS,
     [MCConfig(700, 500, 0, 0, TRUE) EXCEPT !.sample_period_ms = 0],
     MCConfig(500, 501, UINT8_MOD - 1, 2, FALSE)}

\* One good sample at the edges of the range, and one per reason for refusal.
MCSamples ==
    {[quality |-> "VALID", temp_cd |-> 8500, rh_cp |-> 10000],
     [quality |-> "VALID", temp_cd |-> -4001, rh_cp |-> 5000],
     [quality |-> "VALID", temp_cd |-> 2000, rh_cp |-> 10001],
     [quality |-> "FAULT", temp_cd |-> 2000, rh_cp |-> 5000]}

\* Both sides of both default thresholds and of the narrow band 500..501.
MCMargins == {499, 500, 501, 502, 700, 701}
=============================================================================
