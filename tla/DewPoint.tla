------------------------------ MODULE DewPoint ------------------------------
(***************************************************************************)
(* The fixed-point dew point of src/core/dewpoint.c.  Temperatures are in  *)
(* 0.01 degC, humidities in 0.01 %, logarithms in 1/1024.  TLC's integers  *)
(* have the width of the program's int32_t and report an overflow, so a    *)
(* run over the sensor's range shows that no intermediate result leaves    *)
(* it.                                                                     *)
(***************************************************************************)
EXTENDS CDivision, SampleTypes

CONSTANTS
    dewpoint_ln_rh_q10,  \* the generated table
    Temps,               \* temperatures to begin with
    TempStep, HumidityStep

\* gen_dewpoint_lut.py: round(1024 ln(p / 100)), and 1024 ln(0.0001) for p = 0
Logarithms == -9431 .. 0

ASSUME DewPointAssumption ==
    /\ dewpoint_ln_rh_q10 \in [0 .. 100 -> Logarithms]
    /\ \A p, q \in 0 .. 100 : p <= q => dewpoint_ln_rh_q10[p] <= dewpoint_ln_rh_q10[q]
    /\ dewpoint_ln_rh_q10[100] = 0
    /\ Temps \subseteq TEMP_CD_MIN .. TEMP_CD_MAX
    /\ TempStep \in Nat \ {0} /\ HumidityStep \in Nat \ {0}

A_Q10 == 17684

\* Mutant: 237.7 degC in tenths.
B_IN_TENTHS == 2377

B_CD == 23770

DivRoundPosDen(n, d) ==
    IF n >= 0 THEN Quotient(n + d \div 2, d) ELSE -Quotient(-n + d \div 2, d)

\* Mutant: the ends of the interpolation are exchanged.
LnRhEndsExchanged(rh) ==
    LET percent == IF rh < 100 THEN 1 ELSE rh \div 100
        y0      == dewpoint_ln_rh_q10[percent]
        y1      == IF percent < 100 THEN dewpoint_ln_rh_q10[percent + 1] ELSE y0
    IN  y1 + Quotient((y0 - y1) * (rh % 100), 100)

LnRhQ10(rh) ==
    LET local_rh == IF rh < 100 THEN 100 ELSE IF rh > RH_CP_MAX THEN RH_CP_MAX ELSE rh
        percent  == local_rh \div 100
        y0       == dewpoint_ln_rh_q10[percent]
        y1       == IF percent < 100 THEN dewpoint_ln_rh_q10[percent + 1] ELSE y0
    IN  y0 + Quotient((y1 - y0) * (local_rh % 100), 100)

Term1(temp) == DivRoundPosDen(A_Q10 * temp, B_CD + temp)
Alpha(temp, rh) == Term1(temp) + LnRhQ10(rh)
DenomQ10(temp, rh) == A_Q10 - Alpha(temp, rh)

\* Mutant: the dew point is not limited by the temperature.
ClampedToSensor(dew, temp) ==
    IF dew < TEMP_CD_MIN THEN TEMP_CD_MIN ELSE IF dew > TEMP_CD_MAX THEN TEMP_CD_MAX ELSE dew

Clamped(dew, temp) ==
    LET below == IF dew > temp THEN temp ELSE dew
    IN  IF below < TEMP_CD_MIN THEN TEMP_CD_MIN
        ELSE IF below > TEMP_CD_MAX THEN TEMP_CD_MAX ELSE below

\* dewpoint_calc_cd: the error and the dew point.
DewPointCalc(temp, rh) ==
    IF temp \notin TEMP_CD_MIN .. TEMP_CD_MAX THEN [err |-> "ERR_OUT_OF_RANGE", dew |-> 0]
    ELSE IF B_CD + temp <= 0 \/ DenomQ10(temp, rh) <= 0 THEN [err |-> "ERR_MATH", dew |-> 0]
    ELSE [err |-> "ERR_OK",
          dew |-> Clamped(DivRoundPosDen(B_CD * Alpha(temp, rh), DenomQ10(temp, rh)), temp)]
-----------------------------------------------------------------------------
(* Air that gets damper or warmer *)

VARIABLES temp_cd, rh_cp

airVars == <<temp_cd, rh_cp>>

Air == DewPointCalc(temp_cd, rh_cp)

AirInit == temp_cd \in Temps /\ rh_cp = 0

Damper ==
    /\ rh_cp + HumidityStep <= RH_CP_MAX
    /\ rh_cp' = rh_cp + HumidityStep
    /\ UNCHANGED temp_cd

Warmer ==
    /\ temp_cd + TempStep <= TEMP_CD_MAX
    /\ temp_cd' = temp_cd + TempStep
    /\ UNCHANGED rh_cp

AirSpec == AirInit /\ [][Damper \/ Warmer]_airVars
-----------------------------------------------------------------------------
(* Properties *)

\* No sample that the controller accepts makes the calculation fail: the
\* arithmetic fault of ctrl_update is unreachable from it.
NeverFails == Air.err = "ERR_OK"

\* The margin the heater is switched by is never negative, and saturated air is
\* at its dew point up to 0.01 degC (test_dewpoint.c allows 0.30 at one point).
SaturationIsTheLimit ==
    /\ Air.dew <= temp_cd
    /\ rh_cp = RH_CP_MAX => temp_cd - Air.dew <= 1

\* Damper air has a smaller margin and warmer air a higher dew point: rounding
\* and interpolation never turn the direction of the regulation round.
FollowsTheAir == [][Air.dew <= Air'.dew]_airVars
=============================================================================
