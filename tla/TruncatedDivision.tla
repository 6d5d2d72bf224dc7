-------------------------- MODULE TruncatedDivision --------------------------
(* The division and the remainder of C++, which round towards zero. *)
EXTENDS Integers

Quotient(a, b)  == IF a < 0 /\ a % b # 0 THEN a \div b + 1 ELSE a \div b
Remainder(a, b) == a - b * Quotient(a, b)
=============================================================================
