---------------------------- MODULE SampleTypes ----------------------------
(* The sample_t of include/core/types.h and what the controller accepts.     *)
EXTENDS Integers

Quality == {"INVALID", "WARMUP", "VALID", "FAULT"}

Sample == [quality : Quality, temp_cd : Int, rh_cp : Nat]

TEMP_CD_MIN == -4000
TEMP_CD_MAX == 8500
RH_CP_MAX   == 10000

SampleIsValid(s) ==
    /\ s.quality = "VALID"
    /\ s.temp_cd \in TEMP_CD_MIN .. TEMP_CD_MAX
    /\ s.rh_cp <= RH_CP_MAX
=============================================================================
