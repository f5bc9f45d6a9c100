--------------------------- MODULE MCModbusMailbox ---------------------------
(* Instance of ModbusMailbox for TLC. *)
EXTENDS ModbusMailbox

\* With words of two bits, as writes: a read-only register, a negative margin, the
\* refused period, and a period that would be negative if it were signed; as reads: the
\* fault counter and the whole clock, as its low word carries, both margins, a quantity
\* of none, and registers beyond the map.
MCData == {<<5, 3>>, <<256, 2>>, <<258, 0>>, <<258, 3>>}

OwnMCFrames ==
    [function : {"READ", "WRITE"}, data : MCData]
    \cup {[function |-> "OTHER", data |-> <<256, 2, 256>>]}

MCFrames == OwnMCFrames \cup {[function |-> "FOREIGN", data |-> <<5>>]}

\* An impatient master, which may send at any moment, has a smaller choice.
FewFrames == {f \in OwnMCFrames : f.data \in {<<256, 2>>, <<256, 2, 256>>}}

MCSurroundings ==
    [frames : {OwnMCFrames, MCFrames}, read_twice : BOOLEAN, impatient : {FALSE}]
    \cup [frames : {FewFrames}, read_twice : {FALSE}, impatient : {TRUE}]

MCMeasurements == {[a \in MeasuredRegisters |-> n] : n \in {-1, 1}}

MCFirstConfigs == {[a \in ConfigRegisters |-> 1]}
=============================================================================
