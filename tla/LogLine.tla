------------------------------- MODULE LogLine -------------------------------
(***************************************************************************)
(* example/log: LogLine, which encodes what is logged into a buffer of its *)
(* own, on the stack at first, and decodes it when the line is written.    *)
(*                                                                         *)
(* The buffer is the sequence of the bytes used, _bytes_used being its     *)
(* length, with its _buffer_size.  The first byte of a value stands for    *)
(* the whole of it, and those after it are Rest.  A character is its code. *)
(* A definition named <x>_<variant> is x with a plausible slip in it.      *)
(***************************************************************************)
EXTENDS Integers, Sequences

StackBuffer == 256 - 2 * 8 - 8 - 8     \* sizeof(_stack_buffer)
LeastHeap   == 512
Rest        == -1
NUL         == 0

\* SupportedTypes: the type of number i - 1 has Sizeof[i] bytes; the last is char*.
Sizeof == <<1, 4, 8, 4, 8, 8, 8>>
TypeId == [char |-> 0, uint32_t |-> 1, uint64_t |-> 2, int32_t |-> 3, int64_t |-> 4,
           double |-> 5, string_literal_t |-> 6, c_string |-> 7]

-----------------------------------------------------------------------------
(* Encoding *)

resize_buffer_if_needed(line, additional) ==
    LET required == Len(line.bytes) + additional
    IN  IF required <= line.size THEN line
        ELSE [line EXCEPT !.size = IF required > LeastHeap THEN required ELSE LeastHeap]

\* encode(arg): no room is made.
encode(line, value, size) ==
    [line EXCEPT !.bytes = @ \o <<value>> \o [i \in 1 .. size - 1 |-> Rest]]

\* LogLine::LogLine: time, thread, file, function, line and level.
Header(h) ==
    LET empty == [bytes |-> <<>>, size |-> StackBuffer]
    IN  encode(encode(encode(encode(encode(encode(empty,
            h.time, 8), h.tid, 4), h.file, 8), h.function, 8), h.number, 4), h.level, 1)

\* encode(arg, type_id)
encodeTyped(line, type, value) ==
    LET size == Sizeof[TypeId[type] + 1]
        room == resize_buffer_if_needed(line, size + 1)
    IN  encode(encode(room, TypeId[type], 1), value, size)

\* The variant: the terminating NUL is not counted.
roomFor_short(chars) == 1 + Len(chars)

roomFor(chars) == 1 + Len(chars) + 1

encode_c_string(line, chars) ==
    IF chars = <<>> THEN line
    ELSE LET room == resize_buffer_if_needed(line, roomFor(chars))
         IN  [room EXCEPT !.bytes = @ \o <<TypeId.c_string>> \o chars \o <<NUL>>]

\* operator<<; strings come as std::string, as char* or as YAML nodes.
put(line, type, value) ==
    IF type = "c_string" THEN encode_c_string(line, value) ELSE encodeTyped(line, type, value)

-----------------------------------------------------------------------------
(* stringify(): what is written, value by value and character by character *)

HeaderSize == 8 + 4 + 8 + 8 + 4 + 1

\* The value at byte b: what is written of it, and where the next one begins.  A string
\* ends at its first NUL, and one that has more of them goes on as values.  These may go
\* beyond the buffer, where the program would read on: here they end with it.
decode(bytes, type, b) ==
    LET end == CHOOSE e \in b .. Len(bytes) + 1 :
                   /\ e > Len(bytes) \/ bytes[e] = NUL
                   /\ \A i \in b .. e - 1 : bytes[i] # NUL
    IN  IF type = TypeId.c_string THEN [text |-> SubSeq(bytes, b, end - 1), next |-> end + 1]
        ELSE [text |-> IF b > Len(bytes) THEN <<>> ELSE <<bytes[b]>>,
              next |-> b + Sizeof[type + 1]]

\* The message, from byte b on.  A type_id that is none ends it.
Message(bytes) ==
    LET from[b \in Nat \ {0}] ==
            IF b > Len(bytes) \/ bytes[b] \notin 0 .. 7 THEN <<>>
            ELSE LET value == decode(bytes, bytes[b], b + 1)
                 IN  value.text \o from[value.next]
    IN  from

\* Time, thread and level come before the message, file, function and line after it.
stringify(line) ==
    <<line.bytes[1], line.bytes[9], line.bytes[HeaderSize]>>
        \o Message(line.bytes)[HeaderSize + 1]
        \o <<line.bytes[13], line.bytes[21], line.bytes[29]>>
=============================================================================
