---------------------------- MODULE MCClimateApp ----------------------------
(* Instance of ClimateApp and its diagnostics for TLC. *)
EXTENDS NodeDiagnostics

MCSamples ==
    {[quality |-> "VALID", temp_cd |-> 2000, rh_cp |-> 5000],
     [quality |-> "INVALID", temp_cd |-> 0, rh_cp |-> 0]}

\* A write that narrows the band, one that turns the margins over, one that
\* orders them again, a period, and the refused period.
MCConfigWrites ==
    {[reg |-> "MARGIN_ON", value |-> 600], [reg |-> "MARGIN_ON", value |-> 800],
     [reg |-> "MARGIN_OFF", value |-> 900],
     [reg |-> "SAMPLE_MS", value |-> 2000], [reg |-> "SAMPLE_MS", value |-> 0]}

MCFlash(slot0, slot1) == [i \in Slots |-> IF i = 0 THEN slot0 ELSE slot1]

MCStored == [dew_margin_on_cd |-> 600, dew_margin_off_cd |-> 900, sample_period_ms |-> 1000]

MCInitialFlash ==
    {MCFlash(Erased, Erased), MCFlash(Damaged, MCStored), MCFlash(MCStored, Erased)}
=============================================================================
