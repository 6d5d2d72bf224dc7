-------------------------------- MODULE Lines --------------------------------
(***************************************************************************)
(* The log lines of LogLine, read again.  The walk puts one argument after *)
(* the other into a line.                                                  *)
(***************************************************************************)
EXTENDS LogLine, SequencesExt, Walk

CONSTANTS
    Fields,         \* time, thread, file, function, line and level
    Arguments,      \* what can be logged
    MaxArguments    \* bound: arguments of a line

\* A string is without the NUL that ends it.  One that comes as std::string may have others.
ASSUME LinesAssumption ==
    /\ Fields \in [time : Int, tid : Int, file : Int, function : Int, number : Int, level : Int]
    /\ MaxArguments \in Nat
    /\ \A a \in Arguments :
          /\ a.type \in DOMAIN TypeId
          /\ IF a.type = "c_string" THEN a.value \in Seq(Int) ELSE a.value \in Int

-----------------------------------------------------------------------------
LineInit == walk = "line" /\ input = <<>> /\ original = Header(Fields)

NextArgument ==
    /\ walk = "line" /\ Len(input) < MaxArguments
    /\ \E a \in Arguments :
          input' = Append(input, a) /\ original' = put(original, a.type, a.value)
    /\ UNCHANGED walk

LineSpec == LineInit /\ [][NextArgument]_walkVars

-----------------------------------------------------------------------------
(* Properties *)

HasNul(a) == a.type = "c_string" /\ \E i \in DOMAIN a.value : a.value[i] = NUL

\* What is to be written of an argument: a string up to its first NUL.
TextOf(a) ==
    IF a.type # "c_string" THEN <<a.value>>
    ELSE IF HasNul(a) THEN SubSeq(a.value, 1, Min({i \in DOMAIN a.value : a.value[i] = NUL}) - 1)
    ELSE a.value

Texts(args) == [i \in DOMAIN args |-> TextOf(args[i])]

\* The first string that is cut.
FirstCut(args, k) ==
    k \in DOMAIN args /\ HasNul(args[k]) /\ \A i \in 1 .. k - 1 : ~HasNul(args[i])

\* Log.cpp:92-208, 292-378: what is put in a line, of every type and with strings of
\* every length, is read from it again, each value once and in order; the buffer has
\* room for it, also where it moves from the stack to the heap and from heap to heap.
\* A std::string with a NUL in it is read up to that, as are the values before it; what
\* then comes of the line up to its file is not promised.
LineReadsBack ==
    walk = "line" =>
        LET message == Message(original.bytes)[HeaderSize + 1]
        IN  /\ Len(original.bytes) <= original.size
            /\ stringify(original) = <<Fields.time, Fields.tid, Fields.level>> \o message
                                         \o <<Fields.file, Fields.function, Fields.number>>
            /\ (\A i \in DOMAIN input : ~HasNul(input[i])) => message = FlattenSeq(Texts(input))
            /\ \A k \in DOMAIN input : FirstCut(input, k) =>
                   IsPrefix(FlattenSeq(Texts(SubSeq(input, 1, k))), message)
=============================================================================
