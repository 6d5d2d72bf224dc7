------------------------------- MODULE Numbers -------------------------------
(***************************************************************************)
(* The texts of LogStream, read again.  The walk goes on from an integer   *)
(* by adding a digit to it.                                                *)
(***************************************************************************)
EXTENDS LogStream, Walk

CONSTANTS
    FirstNumbers,   \* where the walks start
    MostTimesTen    \* bound: the largest number to which a digit is added

ASSUME NumbersAssumption == FirstNumbers \subseteq Int /\ MostTimesTen \in Nat

-----------------------------------------------------------------------------
NumberInit == walk = "number" /\ input \in FirstNumbers /\ original = 0

NextNumber ==
    /\ walk = "number" /\ input # 0 /\ input \in -MostTimesTen .. MostTimesTen
    /\ \E d \in (IF input \in -9999 .. 9999 THEN {0, 4, 5, 9} ELSE {0, 9}) :
          input' = 10 * input + (IF input < 0 THEN -d ELSE d)
    /\ UNCHANGED <<walk, original>>

NumberSpec == NumberInit /\ [][NextNumber]_walkVars

-----------------------------------------------------------------------------
(* Properties *)

\* The number that digits stand for, in some base, from the first digit on.
ReadDigits(ds, base, negative) ==
    LET read[i \in 0 .. Len(ds)] ==
            IF i = 0 THEN 0
            ELSE IF negative THEN base * read[i - 1] - ds[i] ELSE base * read[i - 1] + ds[i]
    IN  read[Len(ds)]

\* The text is v in that base: without a zero before it, and with a sign if it needs one.
Notation(text, v, base) ==
    LET digits == IF v < 0 THEN Tail(text) ELSE text
    IN  /\ v < 0 => Head(text) = "-"
        /\ digits \in Seq(0 .. base - 1) /\ digits # <<>>
        /\ Head(digits) = 0 => Len(digits) = 1
        /\ ReadDigits(digits, base, v < 0) = v

\* What is added to a buffer with so much room left.
PrintedIn(avail, v) ==
    IF avail < kMaxNumericSize THEN formatInteger(avail, v) = <<>> /\ formatPointer(avail, v) = <<>>
    ELSE /\ Notation(formatInteger(avail, v), v, 10)
         /\ v >= 0 =>
               LET pointer == formatPointer(avail, v)
               IN  /\ SubSeq(pointer, 1, 2) = <<"0", "x">>
                   /\ Notation(SubSeq(pointer, 3, Len(pointer)), v, 16)

\* The characters of a printed quantity, with a unit of so many letters.
Width(p, letters) ==
    LET digits == Len(convert(p.number))
        least  == p.decimals + 1
    IN  (IF digits < least THEN least ELSE digits)
            + (IF p.decimals > 0 THEN 1 ELSE 0) + (IF p.unit > 1 THEN letters ELSE 0)

\* LogStream.cpp:43-77 and 224-282: the text of an integer, the least one too, is its
\* decimal notation, with the sign and no zero before it, that of a pointer the hexadecimal
\* one, and there is none if the buffer is nearly full.  LogStream.h:171 and 177: a text of
\* formatSI has at most five characters and one of formatIEC at most six, and
\* LogStream.cpp:86-90, from the unit on none of its three digits is wasted on a leading zero.
NumbersPrinted ==
    walk = "number" =>
        /\ \A avail \in {kMaxNumericSize - 1, kMaxNumericSize} : PrintedIn(avail, input)
        /\ input >= 0 /\ input \div Mega < Part(Mega, 999500) =>
              /\ Width(formatSI(input), 1) <= 5
              /\ input >= Kilo => formatSI(input).number >= 100
        /\ input >= 0 /\ input \div Mi < Part(Mi, 1023500) =>
              /\ Width(formatIEC(input), 2) <= 6
              /\ input >= Ki => formatIEC(input).number >= 100
=============================================================================
