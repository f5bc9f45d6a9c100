----------------------------- MODULE CDivision -----------------------------
(* The division of C99 by a positive number, which truncates towards zero,   *)
(* while \div rounds down.                                                   *)
EXTENDS Integers

Quotient(n, d) == IF n >= 0 THEN n \div d ELSE -((-n) \div d)
=============================================================================
