-------------------------- MODULE MCFaultIsolation --------------------------
(* Instance of FaultIsolation for TLC. *)
EXTENDS FaultIsolation

MCSamples ==
    {[quality |-> "VALID", temp_cd |-> 2000, rh_cp |-> 5000],
     [quality |-> "FAULT", temp_cd |-> 2000, rh_cp |-> 5000]}

\* The watchdog and the reset pin both pull NRST, so PINRSTF comes with them; a
\* power-on leaves PORRSTF, with PINRSTF or without.
MCFlagSets ==
    {{"IWDGRSTF", "PINRSTF"}, {"SFTRSTF", "PINRSTF"}, {"PINRSTF"},
     {"PORRSTF"}, {"PORRSTF", "PINRSTF"}, {}}
=============================================================================
