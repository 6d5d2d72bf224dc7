------------------------------ MODULE LogStream ------------------------------
(***************************************************************************)
(* mengSen/base/LogStream: the texts of integers, and those of quantities  *)
(* in five or six characters.  A text of an integer is the sequence of its *)
(* digits, with a "-" before them if it is negative; that of a pointer has *)
(* "0x" before them; that of a quantity is a number of some decimals and a *)
(* unit.  A definition named <x>_<variant> is x with a plausible slip.     *)
(*                                                                         *)
(* The branches of formatSI above T and of formatIEC above Ti are left     *)
(* out: there the conversion to double rounds.  Below, it is exact.        *)
(***************************************************************************)
EXTENDS TruncatedDivision, Sequences, SequencesExt

\* The table of digits, from the middle: lsd is in -9 .. 9.
zero(lsd) == <<9, 8, 7, 6, 5, 4, 3, 2, 1, 0, 1, 2, 3, 4, 5, 6, 7, 8, 9>>[lsd + 10]

\* The digits of i from the least significant one; zero has one.
DigitsUp[i \in Int] ==
    LET rest == Quotient(i, 10)
    IN  <<zero(Remainder(i, 10))>> \o (IF rest = 0 THEN <<>> ELSE DigitsUp[rest])

convert(value) ==
    Reverse(DigitsUp[value] \o (IF value < 0 THEN <<"-">> ELSE <<>>))

HexDigitsUp[i \in Nat] ==
    <<i % 16>> \o (IF i \div 16 = 0 THEN <<>> ELSE HexDigitsUp[i \div 16])

convertHex(value) == Reverse(HexDigitsUp[value])

-----------------------------------------------------------------------------
kMaxNumericSize == 32

\* operator<< of an integer, when the buffer has room for avail characters: it is left
\* out of the line, whatever its length, if there is less than kMaxNumericSize.
formatInteger(avail, v) == IF avail >= kMaxNumericSize THEN convert(v) ELSE <<>>

\* operator<< of a pointer.
formatPointer(avail, p) ==
    IF avail >= kMaxNumericSize THEN <<"0", "x">> \o convertHex(p) ELSE <<>>

-----------------------------------------------------------------------------
\* printf of s / unit with so many decimals: the number of its last decimals.  A tie,
\* which printf rounds up or down, is rounded up; the length of no text depends on one.
Printed(s, unit, decimals) ==
    LET tenfold  == <<1, 10, 100>>[decimals + 1]
        whole    == (s \div unit) * tenfold
        fraction == (2 * (s % unit) * tenfold + unit) \div (2 * unit)
    IN  [number |-> whole + fraction, decimals |-> decimals, unit |-> unit]

\* unit * thousandths / 1000, rounded up.
Part(unit, thousandths) ==
    unit * (thousandths \div 1000) + (unit * (thousandths % 1000) + 999) \div 1000

\* The variant: a number gets the decimals that it has room for before it is rounded.
ThreeDigits_unrounded(s, unit) ==
    Printed(s, unit, IF s < 10 * unit THEN 2 ELSE IF s < 100 * unit THEN 1 ELSE 0)

\* The three branches of a unit.
ThreeDigits(s, unit) ==
    Printed(s, unit, IF s < Part(unit, 9995) THEN 2 ELSE IF s < Part(unit, 99950) THEN 1 ELSE 0)

Kilo == 1000
Mega == 1000 * Kilo
Giga == 1000 * Mega

formatSI(s) ==
    IF s < Kilo                    THEN Printed(s, 1, 0)
    ELSE IF s < Part(Kilo, 999500) THEN ThreeDigits(s, Kilo)
    ELSE IF s < Part(Mega, 999500) THEN ThreeDigits(s, Mega)
    ELSE IF s < Part(Giga, 999500) THEN ThreeDigits(s, Giga)
    ELSE ThreeDigits(s, 1000 * Giga)

Ki == 1024
Mi == 1024 * Ki
Gi == 1024 * Mi

formatIEC(s) ==
    IF s < Ki                      THEN Printed(s, 1, 0)
    ELSE IF s < Part(Ki, 1023500)  THEN ThreeDigits(s, Ki)
    ELSE IF s < Part(Mi, 1023500)  THEN ThreeDigits(s, Mi)
    ELSE IF s < Part(Gi, 1023500)  THEN ThreeDigits(s, Gi)
    ELSE ThreeDigits(s, 1024 * Gi)
=============================================================================
