---------------------------- MODULE AsyncLogging ----------------------------
(***************************************************************************)
(* mengSen/base/AsyncLogging: the double-buffered back end of the logger.  *)
(* Any number of threads call append; one "Logging" thread, started by     *)
(* start() and ended by stop(), swaps the full buffers out under mutex_    *)
(* and writes them to the LogFile outside it.                              *)
(*                                                                         *)
(* A log line is its number in the order in which append() took mutex_.    *)
(* A buffer is the sequence of lines it holds and the bytes they use.  The *)
(* two critical sections are single steps: nothing in them blocks but the  *)
(* wait on cond_, which releases the mutex and is a state of its own.      *)
(* A definition named <x>_<variant> is x with a plausible slip in it, kept *)
(* to show which property notices.                                         *)
(***************************************************************************)
EXTENDS Integers, SequencesExt

CONSTANTS
    BufferSize,     \* kLargeBuffer
    Lengths,        \* the lengths of the lines appended
    MaxBacklog,     \* the 25 of threadFunc: a longer backlog is cut to two buffers
    MaxAppends,     \* bound: calls of append in a behaviour
    NoBuffer        \* the null BufferPtr

ASSUME ConstantsAssumption ==
    /\ BufferSize \in Nat \ {0}
    /\ Lengths \subseteq Nat
    /\ MaxBacklog \in Nat /\ MaxBacklog >= 2
    /\ MaxAppends \in Nat

\* Lines are numbered from 1; Notice is "Dropped log messages at ..." in the file.
Line   == Nat \ {0}
Notice == 0

Buffer == [data : Seq(Line), used : 0 .. BufferSize - 1]

ASSUME NoBufferAssumption == NoBuffer \notin Buffer

VARIABLES
    owner,          \* where the thread that owns the object is: start() ... stop()
    running,        \* running_
    latch,          \* latch_'s count
    pc,             \* where the logging thread is in threadFunc
    signalled,      \* cond_ was notified while the logging thread waited on it
    currentBuffer, nextBuffer, buffers,         \* the members guarded by mutex_
    newBuffer1, newBuffer2, buffersToWrite,     \* threadFunc's locals
    next,           \* index in buffersToWrite of the next buffer to write
    file,           \* what output.append has been given
    flushed,        \* how much of file the last output.flush covered
    appended,       \* number of calls of append
    oversized,      \* lines FixedBuffer::append refused: too long for any buffer
    dropped         \* lines cut with the backlog

shared  == <<currentBuffer, nextBuffer, buffers>>
locals  == <<newBuffer1, newBuffer2, buffersToWrite, next>>
output  == <<file, flushed>>
history == <<appended, oversized, dropped>>
vars    == <<owner, running, latch, pc, signalled, shared, locals, output, history>>

-----------------------------------------------------------------------------
(* FixedBuffer *)

EmptyBuffer == [data |-> <<>>, used |-> 0]

avail(b) == BufferSize - b.used

fits_exactly(b, len) == avail(b) >= len

fits(b, len) == avail(b) > len

\* A line that does not fit is refused silently.
store(b, line, len) ==
    IF fits(b, len) THEN [data |-> Append(b.data, line), used |-> b.used + len]
                    ELSE b

LinesOf(b)  == {b.data[i] : i \in DOMAIN b.data}
LinesIn(bs) == UNION {LinesOf(bs[i]) : i \in DOMAIN bs}

-----------------------------------------------------------------------------
(* The appending threads *)

\* The line goes to the full buffer, before the spare takes its place.
append_early(len) ==
    LET line == appended + 1
        room == fits(currentBuffer, len)
        spare == IF nextBuffer # NoBuffer THEN nextBuffer ELSE EmptyBuffer
    IN  /\ appended < MaxAppends
        /\ appended' = line
        /\ IF room THEN /\ currentBuffer' = store(currentBuffer, line, len)
                        /\ UNCHANGED <<buffers, nextBuffer, signalled>>
                   ELSE /\ buffers' = Append(buffers, store(currentBuffer, line, len))
                        /\ nextBuffer' = NoBuffer
                        /\ currentBuffer' = spare
                        /\ signalled' = (signalled \/ pc = "waiting")
        /\ oversized' = IF fits(spare, len) THEN oversized ELSE oversized \cup {line}
        /\ UNCHANGED <<owner, running, latch, pc, locals, output, dropped>>

append(len) ==
    LET line   == appended + 1
        room   == fits(currentBuffer, len)
        target == IF room THEN currentBuffer
                  ELSE IF nextBuffer # NoBuffer THEN nextBuffer ELSE EmptyBuffer
    IN  /\ appended < MaxAppends
        /\ appended' = line
        /\ currentBuffer' = store(target, line, len)
        /\ oversized' = IF fits(target, len) THEN oversized ELSE oversized \cup {line}
        /\ IF room
           THEN UNCHANGED <<buffers, nextBuffer, signalled>>
           ELSE /\ buffers' = Append(buffers, currentBuffer)
                /\ nextBuffer' = NoBuffer
                /\ signalled' = (signalled \/ pc = "waiting")
        /\ UNCHANGED <<owner, running, latch, pc, locals, output, dropped>>

-----------------------------------------------------------------------------
(* The owner *)

\* start(): thread_.start() creates the thread, then latch_.wait().
start ==
    /\ owner = "fresh"
    /\ owner' = "starting" /\ running' = TRUE /\ pc' = "begin"
    /\ UNCHANGED <<latch, signalled, shared, locals, output, history>>

startReturns ==
    /\ owner = "starting" /\ latch = 0
    /\ owner' = "started"
    /\ UNCHANGED <<running, latch, pc, signalled, shared, locals, output, history>>

\* stop(), called or from the destructor: it takes no mutex.
stop ==
    /\ owner = "started"
    /\ owner' = "notifying" /\ running' = FALSE
    /\ UNCHANGED <<latch, pc, signalled, shared, locals, output, history>>

stopNotifies ==
    /\ owner = "notifying"
    /\ owner' = "joining" /\ signalled' = (signalled \/ pc = "waiting")
    /\ UNCHANGED <<running, latch, pc, shared, locals, output, history>>

stopReturns ==
    /\ owner = "joining" /\ pc = "done"
    /\ owner' = "stopped"
    /\ UNCHANGED <<running, latch, pc, signalled, shared, locals, output, history>>

-----------------------------------------------------------------------------
(* The logging thread *)

Goto(label) == pc' = label

\* An assert() that fails aborts the process.
Asserted(condition, label) == Goto(IF condition THEN label ELSE "aborted")

threadBegins ==
    /\ pc = "begin"
    /\ Asserted(running, "test")
    /\ latch' = 0
    /\ newBuffer1' = EmptyBuffer /\ newBuffer2' = EmptyBuffer
    /\ UNCHANGED <<owner, running, signalled, shared, buffersToWrite, next, output, history>>

IsEmpty(b) == b # NoBuffer /\ b.data = <<>> /\ b.used = 0

testRunning ==
    /\ pc = "test"
    /\ IF running
       THEN Asserted(IsEmpty(newBuffer1) /\ IsEmpty(newBuffer2) /\ buffersToWrite = <<>>, "lock")
       ELSE Goto("final")
    /\ UNCHANGED <<owner, running, latch, signalled, shared, locals, output, history>>

\* The current buffer is put in front of the older ones.
takeBuffers_current_first ==
    /\ buffersToWrite' = <<currentBuffer>> \o buffers /\ buffers' = <<>>
    /\ currentBuffer' = newBuffer1 /\ newBuffer1' = NoBuffer
    /\ IF nextBuffer = NoBuffer
       THEN nextBuffer' = newBuffer2 /\ newBuffer2' = NoBuffer
       ELSE UNCHANGED <<nextBuffer, newBuffer2>>
    /\ next' = 1
    /\ Goto("cut")

\* The second half of the critical section.
takeBuffers ==
    /\ buffersToWrite' = Append(buffers, currentBuffer) /\ buffers' = <<>>
    /\ currentBuffer' = newBuffer1 /\ newBuffer1' = NoBuffer
    /\ IF nextBuffer = NoBuffer
       THEN nextBuffer' = newBuffer2 /\ newBuffer2' = NoBuffer
       ELSE UNCHANGED <<nextBuffer, newBuffer2>>
    /\ next' = 1
    /\ Goto("cut")

lockBuffers ==
    /\ pc = "lock"
    /\ IF buffers = <<>>
       THEN Goto("waiting") /\ UNCHANGED <<shared, locals>>
       ELSE takeBuffers
    /\ UNCHANGED <<owner, running, latch, signalled, output, history>>

\* The wait without its time limit.
waitReturns_signal_only ==
    /\ pc = "waiting" /\ signalled
    /\ takeBuffers
    /\ signalled' = FALSE
    /\ UNCHANGED <<owner, running, latch, output, history>>

\* The wait in a loop, as for a plain condition: on a timeout it begins again.
waitReturns_while_empty ==
    /\ pc = "waiting"
    /\ IF running /\ buffers = <<>>
       THEN Goto("lock") /\ UNCHANGED <<shared, locals>>
       ELSE takeBuffers
    /\ signalled' = FALSE
    /\ UNCHANGED <<owner, running, latch, output, history>>

\* wait_for returns: notified, after flushInterval_ seconds, or spuriously.
waitReturns ==
    /\ pc = "waiting"
    /\ takeBuffers
    /\ signalled' = FALSE
    /\ UNCHANGED <<owner, running, latch, output, history>>

\* The two oldest buffers are kept; the others are cut.
Kept == 2

cutBacklog_no_notice ==
    /\ pc = "cut"
    /\ IF Len(buffersToWrite) > MaxBacklog
       THEN /\ file' = file
            /\ dropped' = dropped \cup
                 UNION {LinesOf(buffersToWrite[i]) : i \in Kept + 1 .. Len(buffersToWrite)}
            /\ buffersToWrite' = SubSeq(buffersToWrite, 1, Kept)
       ELSE UNCHANGED <<file, dropped, buffersToWrite>>
    /\ Goto("write")
    /\ UNCHANGED <<owner, running, latch, signalled, shared, newBuffer1, newBuffer2, next,
                   flushed, appended, oversized>>

cutBacklog ==
    /\ pc = "cut"
    /\ IF Len(buffersToWrite) > MaxBacklog
       THEN /\ file' = Append(file, Notice)
            /\ dropped' = dropped \cup
                 UNION {LinesOf(buffersToWrite[i]) : i \in Kept + 1 .. Len(buffersToWrite)}
            /\ buffersToWrite' = SubSeq(buffersToWrite, 1, Kept)
       ELSE UNCHANGED <<file, dropped, buffersToWrite>>
    /\ Asserted(buffersToWrite # <<>>, "write")
    /\ UNCHANGED <<owner, running, latch, signalled, shared, newBuffer1, newBuffer2, next,
                   flushed, appended, oversized>>

\* One turn of the loop over buffersToWrite.
writeBuffer ==
    /\ pc = "write" /\ next <= Len(buffersToWrite)
    /\ file' = file \o buffersToWrite[next].data
    /\ next' = next + 1
    /\ UNCHANGED <<owner, running, latch, pc, signalled, shared, newBuffer1, newBuffer2,
                   buffersToWrite, flushed, history>>

\* How many written buffers resize() leaves to recycle.
recyclable_one(batch) == IF Len(batch) > 1 THEN 1 ELSE Len(batch)

recyclable(batch) == IF Len(batch) > 2 THEN 2 ELSE Len(batch)

\* The null ones of newBuffer1 and newBuffer2 are refilled from the batch.
recycleBuffers ==
    LET wanted == (IF newBuffer1 = NoBuffer THEN 1 ELSE 0)
                + (IF newBuffer2 = NoBuffer THEN 1 ELSE 0)
    IN  /\ pc = "write" /\ next > Len(buffersToWrite)
        /\ Asserted(recyclable(buffersToWrite) >= wanted, "test")
        /\ newBuffer1' = IF newBuffer1 = NoBuffer THEN EmptyBuffer ELSE newBuffer1
        /\ newBuffer2' = IF newBuffer2 = NoBuffer THEN EmptyBuffer ELSE newBuffer2
        /\ buffersToWrite' = <<>> /\ next' = 1
        /\ flushed' = Len(file)
        /\ UNCHANGED <<owner, running, latch, signalled, shared, file, history>>

finalFlush ==
    /\ pc = "final"
    /\ Goto("done")
    /\ flushed' = Len(file)
    /\ UNCHANGED <<owner, running, latch, signalled, shared, locals, file, history>>

-----------------------------------------------------------------------------
Init ==
    /\ owner = "fresh" /\ running = FALSE /\ latch = 1
    /\ pc = "none" /\ signalled = FALSE
    /\ currentBuffer = EmptyBuffer /\ nextBuffer = EmptyBuffer /\ buffers = <<>>
    /\ newBuffer1 = NoBuffer /\ newBuffer2 = NoBuffer /\ buffersToWrite = <<>> /\ next = 1
    /\ file = <<>> /\ flushed = 0
    /\ appended = 0 /\ oversized = {} /\ dropped = {}

OwnerNext == start \/ startReturns \/ stop \/ stopNotifies \/ stopReturns

threadFunc ==
    \/ threadBegins \/ testRunning \/ lockBuffers \/ waitReturns \/ cutBacklog
    \/ writeBuffer \/ recycleBuffers \/ finalFlush

Next == OwnerNext \/ threadFunc \/ \E len \in Lengths : append(len)

\* The operating system runs both threads, and wait_for ends by itself after
\* flushInterval_ seconds; nobody has to call append or stop.
Fairness ==
    /\ WF_vars(threadFunc)
    /\ WF_vars(startReturns) /\ WF_vars(stopNotifies) /\ WF_vars(stopReturns)

Spec == Init /\ [][Next]_vars /\ Fairness

-----------------------------------------------------------------------------
(* Properties *)

InFile    == {file[i] : i \in DOMAIN file} \ {Notice}
InBatch   == UNION {LinesOf(buffersToWrite[i]) : i \in next .. Len(buffersToWrite)}
InBuffers == LinesIn(buffers)
InCurrent == LinesOf(currentBuffer)
Held      == InFile \cup InBatch \cup InBuffers \cup InCurrent

Increasing(s) == \A i, j \in DOMAIN s : i < j => s[i] < s[j]
Before(S, T)  == \A m \in S, n \in T : m < n

\* Types, and FixedBuffer's bound: cur_ stays short of the end of data_.
TypeOK ==
    /\ owner \in {"fresh", "starting", "started", "notifying", "joining", "stopped"}
    /\ running \in BOOLEAN /\ latch \in {0, 1}
    /\ pc \in {"none", "begin", "test", "lock", "waiting", "cut", "write", "final", "done",
               "aborted"}
    /\ signalled \in BOOLEAN
    /\ currentBuffer \in Buffer /\ nextBuffer \in Buffer \cup {NoBuffer}
    /\ buffers \in Seq(Buffer)
    /\ newBuffer1 \in Buffer \cup {NoBuffer} /\ newBuffer2 \in Buffer \cup {NoBuffer}
    /\ buffersToWrite \in Seq(Buffer) /\ next \in Nat \ {0}
    /\ file \in Seq(Nat) /\ flushed \in Nat
    /\ appended \in Nat
    /\ oversized \subseteq Line /\ dropped \subseteq Line

\* No assert of threadFunc fails: at the top of the loop both spare buffers are
\* there and empty, the batch is not empty, and when the appenders have used up
\* nextBuffer_ as well, the batch holds enough buffers to refill both spares.
NoAssertFails == pc # "aborted"

EachLineOnce ==
    /\ Held \cup oversized \cup dropped = 1 .. appended
    /\ Held \cap (oversized \cup dropped) = {}
    /\ oversized \cap dropped = {}

FileInOrder ==
    \A i, j \in DOMAIN file :
        i < j /\ file[i] # Notice /\ file[j] # Notice => file[i] < file[j]

BuffersInOrder ==
    /\ \A i \in next .. Len(buffersToWrite) : Increasing(buffersToWrite[i].data)
    /\ \A i, j \in next .. Len(buffersToWrite) :
          i < j => Before(LinesOf(buffersToWrite[i]), LinesOf(buffersToWrite[j]))
    /\ \A i \in DOMAIN buffers : Increasing(buffers[i].data)
    /\ \A i, j \in DOMAIN buffers : i < j => Before(LinesOf(buffers[i]), LinesOf(buffers[j]))
    /\ Increasing(currentBuffer.data)

PlacesInOrder ==
    /\ Before(InFile, InBatch \cup InBuffers \cup InCurrent)
    /\ Before(InBatch, InBuffers \cup InCurrent)
    /\ Before(InBuffers, InCurrent)

\* Every line appended is in exactly one place - in the file, in the batch, among
\* the full buffers, in the current one, or counted as refused or cut - and the
\* places hold them in the order of the calls.  So no line is lost without trace,
\* written twice or written out of order.
Accounting == EachLineOnce /\ FileInOrder /\ BuffersInOrder /\ PlacesInOrder

\* A reader of the file can tell that lines are missing: whatever was cut from a
\* backlog, a notice stands in the file before every later line.
CutsAreAnnounced ==
    \A m \in dropped : \E i \in DOMAIN file :
        /\ file[i] = Notice
        /\ \A j \in DOMAIN file : file[j] > m => i < j

\* stop() returns, whatever the logging thread was doing when running_ changed and
\* although the notification may come before the wait it is meant for.
StopReturns == owner = "notifying" ~> owner = "stopped"

-----------------------------------------------------------------------------
(* What the callers of append see: a first-in first-out queue *)

Joined(bs) == FlattenSeq([i \in DOMAIN bs |-> bs[i].data])

\* What is queued is what no step has yet written or cut.
Queued ==
    Joined(SubSeq(buffersToWrite, next, Len(buffersToWrite)))
    \o Joined(buffers) \o currentBuffer.data

\* The lines of the file: the notices are not among those appended.
Written == FlattenSeq([i \in DOMAIN file |-> IF file[i] = Notice THEN <<>> ELSE <<file[i]>>])

Channel == INSTANCE LogChannel WITH
    Lines <- 1 .. MaxAppends,
    queue <- Queued, file <- Written, open <- running

\* The double buffering implements the first-in first-out channel: what goes to the
\* file is what append was given, in order, less what a cut takes out of the queue.
ImplementsLogChannel == Channel!Init /\ [][Channel!Next]_(Channel!vars)

\* While running_ holds, every queued line is eventually written or cut.  With
\* ImplementsLogChannel this makes up Channel!Spec.
QueueDrains == Channel!Liveness

=============================================================================
