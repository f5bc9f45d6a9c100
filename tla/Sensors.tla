------------------------------ MODULE Sensors ------------------------------
(***************************************************************************)
(* The sensors of src/driver behind the port that app_task reads: the      *)
(* SHT31 on the I2C bus, the stub that the firmware is linked with, and    *)
(* the mock of the host program.  The application takes a fresh sample,    *)
(* has it filled in, and overrides its quality when the sensor returns an  *)
(* error; the controller decides whether it is accepted.                   *)
(***************************************************************************)
EXTENDS SampleTypes

CONSTANTS
    RawTemps, RawHumidities,  \* 16-bit words the SHT31 may deliver
    STEP_MOD                  \* 2^32, the width of the step counters

Word(w) == w \in Nat /\ w < 65536

ASSUME SensorAssumption ==
    /\ \A w \in RawTemps \cup RawHumidities : Word(w)
    /\ STEP_MOD \in Nat /\ STEP_MOD > 25

VARIABLES
    sensor,    \* the sensor the node was built with, which never changes
    step,      \* reads of the stub or the mock so far
    measured,  \* what there was to read: the words and how the bus did, or the step
    sample     \* the sample_t app_task hands to ctrl_update

sensorVars == <<sensor, step, measured, sample>>

Nothing == [nothing |-> TRUE]

\* sample_t s = {0}
Blank == [quality |-> "INVALID", temp_cd |-> 0, rh_cp |-> 0]

\* What a sensor port returns.
Failed(quality, err) == [err |-> err, sample |-> [Blank EXCEPT !.quality = quality]]
Delivered(t, rh)     == [err |-> "ERR_OK",
                         sample |-> [quality |-> "VALID", temp_cd |-> t, rh_cp |-> rh]]

\* The conversions of the SHT31's words, both operands positive in the division.
TempCd(st)  == -4500 + (17500 * st) \div 65535
RhCp(srh)   == (10000 * srh) \div 65535

Sht31Converted(st, srh) ==
    IF TempCd(st) \notin TEMP_CD_MIN .. TEMP_CD_MAX \/ RhCp(srh) > RH_CP_MAX
    THEN Failed("FAULT", "ERR_OUT_OF_RANGE")
    ELSE Delivered(TempCd(st), RhCp(srh))

\* Mutant: the result of the second transfer is not looked at, and the buffer on the
\* stack holds whatever was there.
Sht31IgnoresRead(m) ==
    IF m.bus = "refuses" THEN Failed("FAULT", "ERR_COMM") ELSE Sht31Converted(m.st, m.srh)

\* sht31_read_sample: a command, then six bytes; their two CRC bytes are not looked at.
Sht31ReadSample(m) ==
    IF m.bus \in {"refuses", "breaks_off"} THEN Failed("FAULT", "ERR_COMM")
    ELSE Sht31Converted(m.st, m.srh)

\* The product of the step wraps like the step before the remainder is taken.
StubSensorRead(s) == Delivered(2250 + (((s * 7) % STEP_MOD) % 21) - 10, 6500)

\* The noise is a hash of the step; the mock reports no error even where it marks the
\* sample as invalid.
MockSensorRead(s, noise) ==
    LET answer == Delivered(2250 + noise, 6500)
    IN  IF s \in 20 .. 24 THEN [answer EXCEPT !.sample.quality = "INVALID"] ELSE answer

\* app_task overrides the quality of a sample that came with an error.
Taken(answer) ==
    IF answer.err # "ERR_OK" THEN [answer.sample EXCEPT !.quality = "INVALID"] ELSE answer.sample
-----------------------------------------------------------------------------
ReadSht31 ==
    /\ sensor = "sht31" /\ measured = Nothing
    /\ \E bus \in {"works", "refuses", "breaks_off"}, st \in RawTemps, srh \in RawHumidities :
         measured' = [bus |-> bus, st |-> st, srh |-> srh]
    /\ sample' = Taken(Sht31ReadSample(measured'))
    /\ UNCHANGED <<sensor, step>>

ReadStub ==
    /\ sensor = "stub" /\ measured = Nothing
    /\ measured' = [step |-> step]
    /\ sample' = Taken(StubSensorRead(step))
    /\ step' = (step + 1) % STEP_MOD
    /\ UNCHANGED sensor

ReadMock ==
    /\ sensor = "mock" /\ measured = Nothing
    /\ measured' = [step |-> step]
    /\ \E noise \in -50 .. 50 : sample' = Taken(MockSensorRead(step, noise))
    /\ step' = (step + 1) % STEP_MOD
    /\ UNCHANGED sensor

\* The next call of app_task begins with an empty sample.
Forget ==
    /\ measured # Nothing
    /\ measured' = Nothing /\ sample' = Blank
    /\ UNCHANGED <<sensor, step>>

SensorInit ==
    /\ sensor \in {"sht31", "stub", "mock"}
    /\ step = 0 /\ measured = Nothing /\ sample = Blank

SensorNext == ReadSht31 \/ ReadStub \/ ReadMock \/ Forget

SensorSpec == SensorInit /\ [][SensorNext]_sensorVars
-----------------------------------------------------------------------------
\* The words of an SHT31 whose temperature, -45 + 175 st / 65535 degC by its formula,
\* lies within the range of the controller.
WithinRange(st) == 17500 * st >= 500 * 65535 /\ 17500 * st < 13001 * 65535

\* What a division by 65535 that rounds down leaves over.
Remainder(n) == 0 <= n /\ n < 65535

\* The two formulas of sensor_sht31.c, to less than 0.01 degC and 0.01 %.
Exact(m, s) ==
    /\ Remainder(17500 * m.st - 65535 * (s.temp_cd + 4500))
    /\ Remainder(10000 * m.srh - 65535 * s.rh_cp)

Good(m) ==
    CASE sensor = "sht31" -> m.bus = "works" /\ WithinRange(m.st)
      [] sensor = "stub"  -> TRUE
      [] sensor = "mock"  -> m.step \notin 20 .. 24

\* The controller accepts a sample exactly if the sensor could be read, completely, and
\* what it measured is within range; and an accepted sample is what was measured, with no
\* product beyond 32 bits on the way.
OnlyGoodDataIsAccepted ==
    measured # Nothing =>
      /\ SampleIsValid(sample) <=> Good(measured)
      /\ SampleIsValid(sample) /\ sensor = "sht31" => Exact(measured, sample)
      /\ SampleIsValid(sample) /\ sensor # "sht31" =>
           sample.temp_cd \in 2200 .. 2300 /\ sample.rh_cp = 6500
=============================================================================
