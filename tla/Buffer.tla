------------------------------- MODULE Buffer -------------------------------
(***************************************************************************)
(* mengSen/net/Buffer: bytes between a read and a write index in a vector, *)
(* with room before them for a header and behind them for more.            *)
(*                                                                         *)
(* A Buffer is a record of its three members; a member function is an      *)
(* operator from a Buffer to what it leaves.  Bytes are numbers in the     *)
(* order in which callers gave them; Junk is what resize() and the         *)
(* constructor put in the vector.  All is in one thread.  A definition     *)
(* named <x>_<variant> is x with a plausible slip in it.                   *)
(***************************************************************************)
EXTENDS Integers, Sequences

CONSTANTS
    kCheapPrepend,  \* the room kept for a header
    kInitialSize,
    ExtraSize,      \* the size of extrabuf in readFd
    Reserves,       \* the arguments of shrink
    MaxLength,      \* bound: bytes given in one call
    MaxBytes        \* bound: bytes given in a behaviour

ASSUME SizesAssumption ==
    /\ kCheapPrepend \in Nat /\ kInitialSize \in Nat /\ ExtraSize \in Nat
    /\ Reserves \subseteq Nat /\ MaxLength \in Nat /\ MaxBytes \in Nat

Junk == 0

VARIABLES
    buf,        \* the Buffer
    given,      \* bytes given to it so far
    result      \* what the last read returned

bufferVars == <<buf, given, result>>

Buffers == [buffer_ : Seq(Nat), readerIndex_ : Nat, writerIndex_ : Nat]

-----------------------------------------------------------------------------
newBuffer == [buffer_      |-> [i \in 1 .. kCheapPrepend + kInitialSize |-> Junk],
              readerIndex_ |-> kCheapPrepend,
              writerIndex_ |-> kCheapPrepend]

readableBytes(b)    == b.writerIndex_ - b.readerIndex_
writableBytes(b)    == Len(b.buffer_) - b.writerIndex_
prependableBytes(b) == b.readerIndex_

\* The readable bytes: toStringPiece.
toStringPiece(b) == SubSeq(b.buffer_, b.readerIndex_ + 1, b.writerIndex_)

\* The vector v with data copied to it from the index at.
copied(v, at, data) ==
    [i \in DOMAIN v |-> IF i \in at + 1 .. at + Len(data) THEN data[i - at] ELSE v[i]]

retrieveAll(b) == [b EXCEPT !.readerIndex_ = kCheapPrepend, !.writerIndex_ = kCheapPrepend]

\* The variant: the indices go back whenever nothing or less is left than was read.
retrieve_half(b, len) ==
    IF 2 * len < readableBytes(b) THEN [b EXCEPT !.readerIndex_ = @ + len] ELSE retrieveAll(b)

retrieve(b, len) ==
    IF len < readableBytes(b) THEN [b EXCEPT !.readerIndex_ = @ + len] ELSE retrieveAll(b)

unwrite(b, len) == [b EXCEPT !.writerIndex_ = @ - len]

\* Whether the readable bytes cannot just be moved to the front.  The variant: the
\* room for a header is forgotten.
mustGrow_whole(b, len) == writableBytes(b) + prependableBytes(b) < len

mustGrow(b, len) == writableBytes(b) + prependableBytes(b) < len + kCheapPrepend

\* resize() moves what is before writerIndex_ and puts Junk behind it.  The variant:
\* the write index moves first.
makeSpace_index_first(b, len) ==
    IF mustGrow(b, len)
    THEN [b EXCEPT !.buffer_ = [i \in 1 .. b.writerIndex_ + len |->
                                   IF i \in DOMAIN b.buffer_ THEN b.buffer_[i] ELSE Junk]]
    ELSE LET readable == readableBytes(b)
             c == [b EXCEPT !.readerIndex_ = kCheapPrepend]
         IN  [c EXCEPT !.buffer_ = copied(@, kCheapPrepend, toStringPiece(c)),
                       !.writerIndex_ = kCheapPrepend + readable]

makeSpace(b, len) ==
    IF mustGrow(b, len)
    THEN [b EXCEPT !.buffer_ = [i \in 1 .. b.writerIndex_ + len |->
                                   IF i \in DOMAIN b.buffer_ THEN b.buffer_[i] ELSE Junk]]
    ELSE [b EXCEPT !.buffer_ = copied(@, kCheapPrepend, toStringPiece(b)),
                   !.readerIndex_ = kCheapPrepend,
                   !.writerIndex_ = kCheapPrepend + readableBytes(b)]

ensureWritableBytes(b, len) == IF writableBytes(b) < len THEN makeSpace(b, len) ELSE b

append(b, data) ==
    LET c == ensureWritableBytes(b, Len(data))
    IN  [c EXCEPT !.buffer_ = copied(@, c.writerIndex_, data),
                  !.writerIndex_ = @ + Len(data)]

prepend(b, data) ==
    LET at == b.readerIndex_ - Len(data)
    IN  [b EXCEPT !.readerIndex_ = at, !.buffer_ = copied(@, at, data)]

\* The bytes are copied to a new Buffer, which takes the place of this one.
shrink(b, reserve) ==
    append(ensureWritableBytes(newBuffer, readableBytes(b) + reserve), toStringPiece(b))

\* readv fills the vector first and the rest goes through extrabuf.
readFd(b, data) ==
    LET writable == writableBytes(b)
        first    == [i \in 1 .. IF Len(data) <= writable THEN Len(data) ELSE writable |-> data[i]]
        filled   == [b EXCEPT !.buffer_ = copied(@, b.writerIndex_, first),
                              !.writerIndex_ = @ + Len(first)]
    IN  IF Len(data) <= writable
        THEN filled
        ELSE append(filled, SubSeq(data, writable + 1, Len(data)))

-----------------------------------------------------------------------------
(* The calls of a user, who keeps to the asserts at the top of each function *)

data(n) == [i \in 1 .. n |-> given + i]

give(n) == n \in 0 .. MaxLength /\ given' = given + n /\ given' <= MaxBytes /\ UNCHANGED result

callAppend(n)  == give(n) /\ buf' = append(buf, data(n))
callPrepend(n) == n <= prependableBytes(buf) /\ give(n) /\ buf' = prepend(buf, data(n))

\* At most what is writable, or ExtraSize more if that is less than ExtraSize.
callReadFd(n) ==
    /\ n <= writableBytes(buf) + (IF writableBytes(buf) < ExtraSize THEN ExtraSize ELSE 0)
    /\ give(n) /\ buf' = readFd(buf, data(n))

\* retrieveAsString: the functions that read or drop bytes all come down to it.
callRetrieve(n) ==
    /\ n <= readableBytes(buf)
    /\ result' = SubSeq(toStringPiece(buf), 1, n)
    /\ buf' = retrieve(buf, n)
    /\ UNCHANGED given

callUnwrite(n) == n <= readableBytes(buf) /\ buf' = unwrite(buf, n) /\ UNCHANGED <<given, result>>

callShrink == \E reserve \in Reserves : buf' = shrink(buf, reserve) /\ UNCHANGED <<given, result>>

BufferInit == buf = newBuffer /\ given = 0 /\ result = <<>>

BufferNext ==
    \/ \E n \in 0 .. MaxLength : callAppend(n) \/ callPrepend(n) \/ callReadFd(n)
    \/ \E n \in 0 .. MaxBytes : callRetrieve(n) \/ callUnwrite(n)
    \/ callShrink

BufferSpec == BufferInit /\ [][BufferNext]_bufferVars

-----------------------------------------------------------------------------
(* Properties *)

\* Types, and that the indices stay in order and inside the vector.
BufferTypeOK ==
    /\ buf \in Buffers
    /\ buf.readerIndex_ <= buf.writerIndex_ /\ buf.writerIndex_ <= Len(buf.buffer_)
    /\ given \in Nat /\ result \in Seq(Nat)

\* Whatever is asked for, ensureWritableBytes finds room for it (its assert), bytes are
\* only ever moved towards the front (the assert of makeSpace), and moving them leaves
\* room for a header again.
RoomFound ==
    \A len \in 1 .. MaxBytes :
        LET b == ensureWritableBytes(buf, len)
        IN  /\ len <= writableBytes(b)
            /\ b.readerIndex_ # buf.readerIndex_ =>
                  kCheapPrepend <= b.readerIndex_ /\ b.readerIndex_ < buf.readerIndex_

\* The readable bytes are the stream of the bytes given, whichever way they move in
\* the vector.
Stream == INSTANCE ByteStream WITH MaxStep <- MaxBytes, stream <- toStringPiece(buf)
ImplementsByteStream == Stream!Spec

=============================================================================
