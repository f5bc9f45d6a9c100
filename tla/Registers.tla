----------------------------- MODULE Registers -----------------------------
(***************************************************************************)
(* The register map of src/service/modbus_regs.c, as operators.  A         *)
(* register carries 16 bits: WORD values, half of them negative where the  *)
(* register is signed.                                                     *)
(***************************************************************************)
EXTENDS Integers

CONSTANT WORD   \* 65536; a run may do with fewer, they carry and wrap sooner

ASSUME RegistersAssumption == WORD \in Nat \ {0} /\ WORD % 2 = 0

MeasuredRegisters == 0 .. 5   \* temperature .. fault events, copied from the report
MB_UPTIME_LO      == 6
MB_UPTIME_HI      == 7
MB_CFG_MARGIN_ON  == 256
MB_CFG_MARGIN_OFF == 257
MB_CFG_SAMPLE_MS  == 258
ConfigRegisters   == {MB_CFG_MARGIN_ON, MB_CFG_MARGIN_OFF, MB_CFG_SAMPLE_MS}
RegisterMap       == MeasuredRegisters \cup {MB_UPTIME_LO, MB_UPTIME_HI} \cup ConfigRegisters

MAX_QUANTITY == 125

\* A number in a register, and a register read as a signed number.
Unsigned(x) == x % WORD
Signed(w)   == IF w < WORD \div 2 THEN w ELSE w - WORD

\* One register of a modbus_reg_map_t [measured, uptime, config].
RegisterWord(regs, a) ==
    CASE a \in MeasuredRegisters -> Unsigned(regs.measured[a])
      [] a = MB_UPTIME_LO        -> Unsigned(regs.uptime)
      [] a = MB_UPTIME_HI        -> Unsigned(regs.uptime \div WORD)
      [] a \in ConfigRegisters   -> Unsigned(regs.config[a])

QuantityIsLegal(quantity)   == quantity \in 1 .. MAX_QUANTITY
Readable(start, quantity)   == start .. start + quantity - 1 \subseteq RegisterMap
MbRegsRead(regs, start, quantity) ==
    [i \in 1 .. quantity |-> RegisterWord(regs, start + i - 1)]

\* mb_regs_write_single: what it refuses, and what it makes of a word.  The margins
\* are signed, the period is not.
Writable(a, word) == a \in ConfigRegisters /\ ~(a = MB_CFG_SAMPLE_MS /\ word = 0)
Decoded(a, word)  == IF a = MB_CFG_SAMPLE_MS THEN word ELSE Signed(word)
=============================================================================
