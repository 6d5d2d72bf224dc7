----------------------------- MODULE ByteStream -----------------------------
(***************************************************************************)
(* What net/Buffer promises: a sequence of bytes that grows at either end, *)
(* is read from its front and can lose its last bytes.  Bytes are numbered *)
(* in the order in which they were given to it.  Buffer implements it.     *)
(***************************************************************************)
EXTENDS Naturals, Sequences

CONSTANT MaxStep   \* bound: bytes in one step

VARIABLES stream, given, result

vars == <<stream, given, result>>

Fresh(n) == [i \in 1 .. n |-> given + i]

Init == stream = <<>> /\ given = 0 /\ result = <<>>

Append_(n)  == /\ stream' = stream \o Fresh(n)
               /\ given' = given + n /\ UNCHANGED result
Prepend_(n) == /\ stream' = Fresh(n) \o stream
               /\ given' = given + n /\ UNCHANGED result
Read(n)     == /\ n <= Len(stream)
               /\ result' = SubSeq(stream, 1, n)
               /\ stream' = SubSeq(stream, n + 1, Len(stream))
               /\ UNCHANGED given
Drop(n)     == /\ n <= Len(stream)
               /\ stream' = SubSeq(stream, 1, Len(stream) - n)
               /\ UNCHANGED <<given, result>>

Next == \E n \in 0 .. MaxStep : Append_(n) \/ Prepend_(n) \/ Read(n) \/ Drop(n)

Spec == Init /\ [][Next]_vars
=============================================================================
