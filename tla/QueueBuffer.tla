----------------------------- MODULE QueueBuffer -----------------------------
(***************************************************************************)
(* example/log/Log.cpp: QueueBuffer and its Buffers, in which the threads  *)
(* that log, without a lock, leave lines for the one thread that pops      *)
(* them.  A claim of a slot, a load or a store of an atomic and a critical *)
(* section under _flags are a step each, and the memory is sequentially    *)
(* consistent.  A Buffer is the lines in its slots, NoLine where the write *)
(* state is still 0, and the number of slots in _write_state[size].        *)
(*                                                                         *)
(* To use a Buffer that has been deleted, or _current_read_buffer before   *)
(* it was set, is undefined: the step sets broken, and nothing is said of  *)
(* what follows.  A definition named <x>_<variant> is x with a plausible   *)
(* slip in it.                                                             *)
(***************************************************************************)
EXTENDS Integers, Sequences

CONSTANTS
    Producers,  \* the threads that log
    Size,       \* Buffer::size
    NoLine

ASSUME SizeAssumption == Size \in Nat \ {0}

VARIABLES
    broken,     \* the behaviour is undefined from here on
    buffers,    \* every Buffer there has been; a pointer is a place in this sequence
    freed,      \* those deleted
    queue,      \* _buffers
    current,    \* _current_write_buffer
    writeIndex, \* _write_index
    readBuffer, \* _current_read_buffer
    readIndex,  \* _read_index
    at,         \* where each producer is in push
    line,       \* the line it pushes
    index,      \* write_index of its push
    target      \* the Buffer it has loaded from _current_write_buffer

producerVars == <<at, line, index, target>>
bufferVars   == <<buffers, queue, current, writeIndex>>
readVars     == <<readBuffer, readIndex>>
queueVars    == <<broken, freed, bufferVars, readVars, producerVars>>

Slots    == 0 .. Size - 1
NullPtr  == 0
Garbage  == -1

NewBuffer == [lines |-> [i \in Slots |-> NoLine], count |-> 0]

Goto(p, place) == at' = [at EXCEPT ![p] = place]

\* push returns, and its locals are gone.
Return(p) ==
    /\ Goto(p, "idle")
    /\ line' = [line EXCEPT ![p] = NoLine]
    /\ index' = [index EXCEPT ![p] = 0]
    /\ target' = [target EXCEPT ![p] = NullPtr]

-----------------------------------------------------------------------------
(* push() *)

\* _write_index.fetch_add: a slot, or none and a wait for the next Buffer.
claimSlot(p) ==
    /\ writeIndex' = writeIndex + 1
    /\ index' = [index EXCEPT ![p] = writeIndex]
    /\ Goto(p, IF writeIndex < Size THEN "load" ELSE "spin")
    /\ UNCHANGED <<broken, freed, buffers, queue, current, readVars, target>>

\* The wait is over, and push begins again.
spinEnds(p) ==
    /\ at[p] = "spin" /\ writeIndex < Size
    /\ Goto(p, "again")
    /\ UNCHANGED <<broken, freed, bufferVars, readVars, line, index, target>>

loadCurrent(p) ==
    /\ at[p] = "load"
    /\ target' = [target EXCEPT ![p] = current]
    /\ Goto(p, "store")
    /\ UNCHANGED <<broken, freed, bufferVars, readVars, line, index>>

storeLine(p) ==
    /\ at[p] = "store"
    /\ IF target[p] \in freed
       THEN broken' = TRUE /\ UNCHANGED <<buffers, at>>
       ELSE /\ buffers' = [buffers EXCEPT ![target[p]].lines[index[p]] = line[p]]
            /\ Goto(p, "count")
            /\ UNCHANGED broken
    /\ UNCHANGED <<freed, queue, current, writeIndex, readVars, line, index, target>>

\* Who fills a Buffer sets the next one up.  The variant: without the + 1 after fetch_add.
isLast_late(count) == count - 1 = Size

isLast(count) == count = Size

countLine(p) ==
    /\ at[p] = "count"
    /\ IF target[p] \in freed
       THEN broken' = TRUE /\ UNCHANGED <<buffers, producerVars>>
       ELSE /\ buffers' = [buffers EXCEPT ![target[p]].count = @ + 1]
            /\ IF isLast(buffers'[target[p]].count)
               THEN Goto(p, "setup") /\ UNCHANGED <<line, index, target>>
               ELSE Return(p)
            /\ UNCHANGED broken
    /\ UNCHANGED <<freed, queue, current, writeIndex, readVars>>

\* setup_next_write_buffer: a new Buffer is made the current one,
storeCurrent(p) ==
    /\ at[p] = "setup"
    /\ buffers' = Append(buffers, NewBuffer)
    /\ current' = Len(buffers')
    /\ Goto(p, "enqueue")
    /\ UNCHANGED <<broken, freed, queue, writeIndex, readVars, line, index, target>>

\* and put in the queue, whereupon the slots are counted from 0 again.
pushBuffer(p) ==
    /\ at[p] = "enqueue"
    /\ queue' = Append(queue, current)
    /\ writeIndex' = 0
    /\ Return(p)
    /\ UNCHANGED <<broken, freed, buffers, current, readVars>>

-----------------------------------------------------------------------------
(* try_pop(), of the popping thread *)

\* The variant: a Buffer is read when the next one is there.
get_next_read_buffer_filled == IF Len(queue) < 2 THEN NullPtr ELSE Head(queue)

get_next_read_buffer == IF queue = <<>> THEN NullPtr ELSE Head(queue)

Reading == IF readBuffer # NullPtr THEN readBuffer ELSE get_next_read_buffer

\* The line in the next slot.
NextLine == IF Reading = NullPtr THEN NoLine ELSE buffers[Reading].lines[readIndex]

\* It returns a line, and has the last one of its Buffer still to be deleted.
IsLastSlot == readIndex + 1 = Size

\* The variant: the place in the Buffer is kept for the next one.
afterLast_kept == readIndex

afterLast == 0

popLine ==
    /\ Reading # Garbage /\ NextLine # NoLine
    /\ IF IsLastSlot THEN readIndex' = afterLast /\ readBuffer' = NullPtr
                     ELSE readIndex' = readIndex + 1 /\ readBuffer' = Reading
    /\ UNCHANGED <<broken, freed, bufferVars, producerVars>>

\* _buffers.pop() deletes the Buffer.
popBuffer ==
    /\ queue' = Tail(queue)
    /\ freed' = freed \cup {Head(queue)}
    /\ UNCHANGED <<broken, buffers, current, writeIndex, readVars, producerVars>>

\* It returns false.
popNothing ==
    /\ Reading # Garbage /\ NextLine = NoLine
    /\ readBuffer' = Reading
    /\ UNCHANGED <<broken, freed, bufferVars, readIndex, producerVars>>

\* No constructor sets _current_read_buffer.
popGarbage ==
    /\ Reading = Garbage
    /\ broken' = TRUE
    /\ UNCHANGED <<freed, bufferVars, readVars, producerVars>>

-----------------------------------------------------------------------------
\* The constructor sets up the first Buffer.
InitQueue ==
    /\ broken = FALSE
    /\ buffers = <<NewBuffer>> /\ freed = {} /\ queue = <<1>>
    /\ current = 1 /\ writeIndex = 0
    /\ readBuffer \in {NullPtr, Garbage} /\ readIndex = 0
    /\ at = [p \in Producers |-> "idle"]
    /\ line = [p \in Producers |-> NoLine]
    /\ index = [p \in Producers |-> 0]
    /\ target = [p \in Producers |-> NullPtr]

\* The steps of push after the first; "again" is left to the caller of claimSlot.
pushGoesOn(p) ==
    \/ spinEnds(p) \/ loadCurrent(p) \/ storeLine(p) \/ countLine(p)
    \/ storeCurrent(p) \/ pushBuffer(p)

-----------------------------------------------------------------------------
(* Properties *)

\* The producers that have a slot, or have filled the last one, and owe a step to those
\* that wait.
Pushing == {p \in Producers : at[p] \in {"load", "store", "count", "setup", "enqueue"}}

\* Nobody waits in vain for the next Buffer (Log.cpp:514): while the slots are used up
\* there is always a producer on its way to fill one of them or to set the next up.
SlotsComeBack == writeIndex >= Size => Pushing # {}
=============================================================================
