----------------------------- MODULE ModbusFrame -----------------------------
(***************************************************************************)
(* Frames of src/service/modbus.c on a noisy line: how they are built,     *)
(* checked and taken apart.  A byte is the set of its bits that are one,   *)
(* so that exclusive or is the symmetric difference of sets and a shift    *)
(* moves every element.                                                    *)
(***************************************************************************)
EXTENDS Integers, Sequences, FiniteSetsExt

CONSTANTS
    WireFrames,   \* frames a master sends, as sequences of numbers
    MaxFlips      \* bits that the line may turn round in one frame

ASSUME FrameAssumption ==
    /\ WireFrames \subseteq Seq(0 .. 255)
    /\ MaxFlips \in Nat

Bits(n)         == {b \in 0 .. 7 : (n \div 2 ^ b) % 2 = 1}
ShiftLeft(s, n) == {b + n : b \in s}
Low(word)       == word \cap 0 .. 7
High(word)      == {b - 8 : b \in word \cap 8 .. 15}

POLYNOMIAL == {0, 13, 15}   \* 0xA001

\* One turn of the inner loop.
ShiftRight(crc) ==
    LET shifted == {b - 1 : b \in crc \ {0}}
    IN  IF 0 \in crc THEN SymDiff(shifted, POLYNOMIAL) ELSE shifted

\* That many turns.
Shifted(crc, turns) ==
    LET turn[i \in 0 .. turns] == IF i = 0 THEN crc ELSE ShiftRight(turn[i - 1])
    IN  turn[turns]

CrcOfByte(byte, crc) == Shifted(SymDiff(crc, byte), 8)

\* The register after that many bytes.
CrcAfter(bytes, len) ==
    LET after[i \in 0 .. len] == IF i = 0 THEN 0 .. 15 ELSE CrcOfByte(bytes[i], after[i - 1])
    IN  after[len]

Crc16(bytes) == CrcAfter(bytes, Len(bytes))

Body(frame) == SubSeq(frame, 1, Len(frame) - 2)

\* Mutant: only the low byte of the checksum is compared.
HasValidLowByte(frame) ==
    Len(frame) >= 3 /\ Low(Crc16(Body(frame))) = frame[Len(frame) - 1]

\* modbus_frame_has_valid_crc; the low byte comes first on the line.
FrameHasValidCrc(frame) ==
    /\ Len(frame) >= 3
    /\ Crc16(Body(frame)) = frame[Len(frame) - 1] \cup ShiftLeft(frame[Len(frame)], 8)

OwnSlaveAddr == Bits(1)

\* modbus_parse_request, the order of its refusals included.
ParseRequest(frame) ==
    IF Len(frame) < 5 THEN "SHORT_FRAME"
    ELSE IF ~FrameHasValidCrc(frame) THEN "CRC"
    ELSE IF frame[1] \notin {OwnSlaveAddr, Bits(0)} THEN "BAD_ADDR"
    ELSE IF frame[2] \notin {Bits(3), Bits(6)} THEN "UNSUPPORTED_FUNC"
    ELSE IF Len(frame) # 8 THEN "BAD_LENGTH"
    ELSE "OK"

WithCrc(body) == body \o <<Low(Crc16(body)), High(Crc16(body))>>

\* modbus_build_response and modbus_build_exception, into buffers that are large enough.
BuildResponse(address, function, payload)   == WithCrc(<<address, function>> \o payload)
BuildException(address, original_func, code) == WithCrc(<<address, original_func \cup {7}, code>>)
-----------------------------------------------------------------------------
(* The line *)

VARIABLES
    frame,  \* what was sent
    noise   \* the bits turned round on the way, numbered from the first byte

frameVars == <<frame, noise>>

Requests == {[i \in DOMAIN w |-> Bits(w[i])] : w \in WireFrames}

\* The answers of this node to a read of one register, to a write and to a bad address.
Answers ==
    {BuildResponse(OwnSlaveAddr, Bits(3), <<Bits(2), Bits(8), Bits(202)>>),
     BuildResponse(OwnSlaveAddr, Bits(6), <<Bits(1), Bits(2), Bits(3), Bits(232)>>),
     BuildException(OwnSlaveAddr, Bits(3), Bits(2))}

\* The bits of a byte that it turned round.
Hit(i) == {n - 8 * (i - 1) : n \in noise \cap (8 * (i - 1) .. 8 * i - 1)}

Heard == [i \in DOMAIN frame |-> SymDiff(frame[i], Hit(i))]

FrameInit == frame \in Requests \cup Answers /\ noise = {}

\* The line turns round one bit more, behind the others.
Flip(n) ==
    /\ Cardinality(noise) < MaxFlips
    /\ \A earlier \in noise : earlier < n
    /\ noise' = noise \cup {n}
    /\ UNCHANGED frame

FrameNext == \E n \in 0 .. 8 * Len(frame) - 1 : Flip(n)

FrameSpec == FrameInit /\ [][FrameNext]_frameVars
-----------------------------------------------------------------------------
\* A frame in which up to three bits were turned round, its checksum included, is
\* refused for its checksum, and one that came through is not: neither a request of a
\* master, whose checksum this code had no part in, nor an answer this code built.
DamagedFramesAreRefused ==
    /\ noise = {} <=> FrameHasValidCrc(Heard)
    /\ noise # {} => ParseRequest(Heard) = "CRC"
    /\ noise = {} /\ frame \in Requests => ParseRequest(Heard) = "OK"
=============================================================================
