------------------------------- MODULE MCData -------------------------------
(***************************************************************************)
(* The sequential code for TLC.  The walks go through the inputs of the    *)
(* conversions, which are functions: the calendar and times in some zones  *)
(* (Times), integers digit by digit, log lines argument by argument and    *)
(* values of configuration variables; in each state the functions are      *)
(* compared with the walk.                                                 *)
(*                                                                         *)
(* In the other behaviours a Buffer or a LogFile is used.  The Buffer has  *)
(* a header of two bytes and room for two more at first; six bytes, at     *)
(* most three at a time, are enough to fill the vector, to move bytes to   *)
(* its front, to make it grow and to read past its end.  The LogFile has   *)
(* days of four seconds, so that a midnight lies within MaxTime with room  *)
(* for a flush before it, a check every second line, and lines of one byte *)
(* and of more than half of RollSize, so that files are replaced for their *)
(* size, for their day, and not although they are long; local time spells  *)
(* two seconds twice.                                                      *)
(***************************************************************************)
EXTENDS Times, Numbers, Lines, Casts, Buffer, LogFile

MCReserves   == {0, 2}
MCLengths    == {1, 2}
MCStartTimes == {1}
MCLocalTime  == <<3, 4, 5, 4, 5, 6>>

-----------------------------------------------------------------------------
(* Some hours, minutes and seconds; and zones: standard time, and summer   *)
(* time an hour later, in turns, from one of three half hours on.          *)
MCClockTimes == [hour : {0, 12, 23}, min : {0, 59}, sec : {0, 1, 59}]

HalfHour  == 1800
MCOffsets == {east * HalfHour : east \in {-7, 0, 11}}

Local(offset, dst) == [gmtOffset |-> offset + (IF dst THEN 3600 ELSE 0), isDst |-> dst]

MCZoneFiles ==
    {[localtimes |-> <<Local(offset, FALSE), Local(offset, TRUE)>>,
      trans      |-> [i \in 1 .. many |-> HalfHour * (first + distance * i)],
      idx        |-> [i \in 1 .. many |-> IF i % 2 = 1 THEN 2 ELSE 1]] :
        offset \in MCOffsets, many \in 1 .. 4, first \in {-60, 2, 7}, distance \in {3, 50}}

\* The half hours, and the seconds before and after them.
MCZoneTimes == {HalfHour * k + second : k \in -60 .. 210, second \in {-1, 0, 1}}

-----------------------------------------------------------------------------
(* What is logged: values, and strings that fill the buffer on the stack or *)
(* that on the heap to the last byte, or one less or more.                  *)
Argument(type, value) == [type |-> type, value |-> value]

StringLengths == {0, 1, StackBuffer - HeaderSize - 3, StackBuffer - HeaderSize - 2,
                  StackBuffer - HeaderSize - 1, LeastHeap - HeaderSize - 2, 600}

Letters == <<97, 1, 7>>

\* After the NUL: a value, a string, a type_id that is none, and one with no value left.
StringsWithNul == {<<97, 98, NUL, 3, 97>>, <<97, NUL, 7, 98>>, <<NUL, 97>>, <<97, NUL>>}

MCArguments ==
    {Argument(type, 1000) : type \in DOMAIN TypeId \ {"c_string"}} \cup
    {Argument("c_string", [i \in 1 .. len |-> Letters[(i % 3) + 1]]) : len \in StringLengths} \cup
    {Argument("c_string", chars) : chars \in StringsWithNul}

MCFields == [time |-> 2001, tid |-> 2002, file |-> 2003, function |-> 2004, number |-> 2005,
             level |-> 2006]

-----------------------------------------------------------------------------
(* Configuration values of up to two levels of containers.                  *)
MCStrings  == {"0", "1", "text", "~", "", "null", "#x", "'text'", "'null'", "\"null\"", "["}
MCNumerals == {"0", "1"}

\* The string that an entry is for, the leaf that it is read as, and how that is printed.
Yaml ==
    {<<s, s, s>> : s \in {"0", "1", "text"}}
        \cup {<<s, "nothing", "~">> : s \in {"~", "", "null", "#x"}}
        \cup {<<"'text'", "text", "text">>}
        \cup {<<s, "null", "\"null\"">> : s \in {"'null'", "\"null\""}}

MCLeaves == {entry[2] : entry \in Yaml}
MCThrows == "throws"
MCReadAs == [s \in MCStrings |-> IF s = "[" THEN MCThrows ELSE (CHOOSE e \in Yaml : e[1] = s)[2]]
MCPrintedAs == [leaf \in MCLeaves |-> (CHOOSE e \in Yaml : e[2] = leaf)[3]]
MCKeys     == {"a", "b"}

MCScalars == {<<"int">>, <<"string">>}

InContainers(types) == {<<c>> \o t : c \in {"vector", "set", "map"}, t \in types}

MCTypes == MCScalars \cup InContainers(MCScalars) \cup InContainers(InContainers(MCScalars))

ContainersOf(container, values) ==
    CASE container = "vector" -> UNION {[1 .. k -> values] : k \in 0 .. 2}
      [] container = "set"    -> {s \in SUBSET values : Cardinality(s) <= 2}
      [] container = "map"    -> UNION {{{<<k, v[k]>> : k \in keys} : v \in [keys -> values]} : keys \in SUBSET MCKeys}

RECURSIVE ValuesOf(_)
ValuesOf(type) ==
    CASE type = <<"int">>    -> MCNumerals
      [] type = <<"string">> -> {"text", "'text'", "["}
      [] OTHER -> ContainersOf(Head(type), ValuesOf(Tail(type)))

\* Any strings in one container, and some in two.
MCSamples ==
    UNION {{[type |-> <<c, "string">>, value |-> v] : v \in ContainersOf(c, MCStrings)} :
              c \in {"vector", "set", "map"}}
        \cup UNION {{[type |-> t, value |-> v] : v \in ValuesOf(t)} : t \in MCTypes}

-----------------------------------------------------------------------------
(* Integers: of one digit, the least one, and those around the limits of formatIEC. *)
Around(n) == {n - 1, n, n + 1}

MCNumbers ==
    {-9, -4, -1, 0, 1, 4, 5, 9, -2147483647 - 1}
        \cup Around(Ki) \cup Around(Part(Ki, 9995)) \cup Around(Part(Ki, 99950))
        \cup Around(Part(Ki, 1023500)) \cup Around(Part(Mi, 9995)) \cup Around(Part(Mi, 99950))

-----------------------------------------------------------------------------
WalkInit ==
    \/ TimesInit \/ NumberInit \/ LineInit \/ CastInit
    \/ walk \in {"buffer", "file"} /\ input = 0 /\ original = 0

WalkNext == TimesNext \/ NextNumber \/ NextArgument

DataInit == WalkInit /\ BufferInit /\ FileInit

DataNext ==
    \/ WalkNext /\ UNCHANGED <<bufferVars, fileVars>>
    \/ walk = "buffer" /\ BufferNext /\ UNCHANGED <<walkVars, fileVars>>
    \/ walk = "file" /\ FileNext /\ UNCHANGED <<walkVars, bufferVars>>

DataSpec == DataInit /\ [][DataNext]_<<walkVars, bufferVars, fileVars>>
=============================================================================
