------------------------------- MODULE MCParts -------------------------------
(* Instance, for TLC, of the parts that nothing interrupts: a run moves one  *)
(* of them and leaves the others where they begin.                           *)
EXTENDS DewPoint, MovingAverage, Sensors, Logger, ModbusFrame

\* The table that tools/gen_dewpoint_lut.py writes: 1024 ln(p / 100) for
\* p = 0 .. 100, the entry for 0 being that of 0.01 %.
MCEntries ==
    <<-9431, -4716, -4006, -3591, -3296, -3068, -2881, -2723, -2586, -2466,
       -2358, -2260, -2171, -2089, -2013, -1943, -1877, -1814, -1756, -1701,
       -1648, -1598, -1550, -1505, -1461, -1420, -1379, -1341, -1304, -1268,
       -1233, -1199, -1167, -1135, -1105, -1075, -1046, -1018, -991, -964,
       -938, -913, -888, -864, -841, -818, -795, -773, -752, -730,
       -710, -690, -670, -650, -631, -612, -594, -576, -558, -540,
       -523, -506, -490, -473, -457, -441, -425, -410, -395, -380,
       -365, -351, -336, -322, -308, -295, -281, -268, -254, -241,
       -228, -216, -203, -191, -179, -166, -154, -143, -131, -119,
       -108, -97, -85, -74, -63, -53, -42, -31, -21, -10,
       0>>

MCTable == [p \in 0 .. 100 |-> MCEntries[p + 1]]

\* The whole range of the sensor, its ends included, in steps of 0.5 degC and
\* 0.5 %; 9900 and 10000 are the last two entries of the table.
MCTemps == {-4000 + 50 * i : i \in 0 .. 250}

\* The ends of the sensor's range and a value that truncation and rounding treat
\* apart.
MCInputs == {-4000, -1, 8500}

\* The words of the SHT31 in steps of about 0.25 degC, with both ends of the range and
\* of the controller's range, and some humidities.
MCRawTemps ==
    {97 * i : i \in 0 .. 675} \cup {1872, 1873, 32767, 32768, 48682, 48683, 48686, 48687, 65535}

MCRawHumidities == {0, 6, 7, 32768, 65535}

\* A read of ten registers and a broadcast write, with the checksums any master sends.
MCWireFrames == {<<1, 3, 0, 0, 0, 10, 197, 205>>, <<0, 6, 1, 2, 7, 208, 43, 139>>}

VARIABLE part   \* the one that moves, which never changes

partsVars == <<part, airVars, maVars, sensorVars, loggerVars, frameVars>>

PartsInit ==
    /\ part \in {"air", "filter", "sensors", "logger", "frame"}
    /\ AirInit /\ (part # "air" => temp_cd = TEMP_CD_MIN)
    /\ FilterInit
    /\ SensorInit /\ (part # "sensors" => sensor = "sht31")
    /\ LoggerInit /\ (part # "logger" => channel = "stdout")
    /\ FrameInit /\ (part # "frame" => frame = CHOOSE f \in Answers : Len(f) = 5)

MoveAir     == part = "air" /\ (Damper \/ Warmer)
               /\ UNCHANGED <<part, maVars, sensorVars, loggerVars, frameVars>>
MoveFilter  == part = "filter" /\ FilterNext
               /\ UNCHANGED <<part, airVars, sensorVars, loggerVars, frameVars>>
MoveSensors == part = "sensors" /\ SensorNext
               /\ UNCHANGED <<part, airVars, maVars, loggerVars, frameVars>>
MoveLogger  == part = "logger" /\ LoggerNext
               /\ UNCHANGED <<part, airVars, maVars, sensorVars, frameVars>>
MoveFrame   == part = "frame" /\ FrameNext
               /\ UNCHANGED <<part, airVars, maVars, sensorVars, loggerVars>>

PartsSpec ==
    PartsInit /\ [][MoveAir \/ MoveFilter \/ MoveSensors \/ MoveLogger \/ MoveFrame]_partsVars
=============================================================================
