------------------------------- MODULE NanoLog -------------------------------
(***************************************************************************)
(* example/log: the logger behind the LOG macros.  Producers push lines    *)
(* into a QueueBuffer (GuaranteedLogger) or a RingBuffer                   *)
(* (NonGuaranteedLogger), and the thread "Logger" pops them and writes     *)
(* them to files that roll.  Log.h:159 asks that initialize() comes before *)
(* any log; here it comes once, and the static logger is destroyed at the  *)
(* end of the program, when no push is under way.  A definition named      *)
(* <x>_<variant> is x with a plausible slip in it.                         *)
(***************************************************************************)
EXTENDS QueueBuffer, RingBuffer, SequencesExt

CONSTANTS
    RollSizes,  \* the arguments log_file_roll_size_mb
    Mega,       \* the bytes of a megabyte
    Lengths,    \* the lengths of lines, in bytes
    Levels,     \* the levels of lines
    MaxLines    \* bound: lines logged in a behaviour

ASSUME LoggerAssumption ==
    /\ RollSizes \subseteq Nat /\ Mega \in Nat
    /\ Lengths \subseteq Nat \ {0} /\ Levels \subseteq Nat /\ MaxLines \in Nat

VARIABLES
    logger,     \* _state, and "none" or "gone" where there is no Logger
    guaranteed, \* whether _buffer_base is a QueueBuffer
    loglevel,   \* the least level that is logged
    rollBytes,  \* _log_file_roll_size_bytes
    popper,     \* where the thread "Logger" is in pop
    draining,   \* it has seen SHUTDOWN
    popped,     \* its logline
    files,      \* the lines in each file, the last one open
    bytes,      \* _bytes_written
    calls,      \* lines logged
    claims,     \* the lines that have got a slot, in the order of the slots
    reads,      \* lines popped
    overrun     \* a slot of the ring was claimed while no slot was free

popVars    == <<popper, draining, popped, reads>>
fileVars   == <<files, bytes>>
loggerVars == <<logger, loglevel, guaranteed, rollBytes>>
logVars    == <<calls, claims, overrun>>
vars       == <<queueVars, ringVars, loggerVars, popVars, fileVars, logVars>>

Line == [by : Producers, number : 1 .. MaxLines, length : Lengths]

-----------------------------------------------------------------------------
(* FileWriter *)

\* uint32_t * int: the product has 32 bits.
RollBytes(mb) == ((IF mb < 1 THEN 1 ELSE mb) * Mega) % IndexModulus

isLong(n) == n > rollBytes

writeLine(l) ==
    LET written == [files EXCEPT ![Len(files)] = Append(@, l)]
        long    == isLong(bytes + l.length)
    IN  /\ files' = IF long THEN Append(written, <<>>) ELSE written
        /\ bytes' = IF long THEN 0 ELSE bytes + l.length

-----------------------------------------------------------------------------
(* initialize() and the end of the program *)

\* The constructor of Logger: the thread it starts finds READY.
newLogger(mb) ==
    /\ logger' = "ready"
    /\ rollBytes' = RollBytes(mb)
    /\ files' = <<<<>>>>
    /\ popper' = "test"

initialize ==
    /\ logger = "none"
    /\ guaranteed' \in BOOLEAN
    /\ \E mb \in RollSizes : newLogger(mb)
    /\ UNCHANGED <<queueVars, ringVars, loglevel, draining, popped, reads, bytes, logVars>>

set_log_level(level) ==
    /\ level # loglevel
    /\ loglevel' = level
    /\ UNCHANGED <<queueVars, ringVars, logger, guaranteed, rollBytes, popVars, fileVars,
                   logVars>>

\* ~Logger stores SHUTDOWN,
shutdown ==
    /\ logger = "ready" /\ \A p \in Producers : at[p] = "idle"
    /\ logger' = "shutdown"
    /\ UNCHANGED <<queueVars, ringVars, loglevel, guaranteed, rollBytes, popVars, fileVars,
                   logVars>>

\* and destroys the members: the thread is detached, not joined, the file closed and
\* the buffers deleted.
destroyMembers ==
    /\ logger = "shutdown"
    /\ logger' = "gone"
    /\ UNCHANGED <<queueVars, ringVars, loglevel, guaranteed, rollBytes, popVars, fileVars,
                   logVars>>

-----------------------------------------------------------------------------
(* Log::operator== and Logger::add *)

claimed(l) == claims' = Append(claims, l)

Full == Len(claims) - reads >= RingSize

pushToQueue(p, l) ==
    /\ guaranteed
    /\ claimSlot(p)
    /\ IF writeIndex < Size THEN claimed(l) ELSE UNCHANGED claims
    /\ UNCHANGED <<ringVars, overrun>>

pushToRing(p, l) ==
    /\ ~guaranteed
    /\ claimItem
    /\ index' = [index EXCEPT ![p] = ringWriteIndex]
    /\ Goto(p, "item")
    /\ claimed(l)
    /\ overrun' = (overrun \/ Full)
    /\ UNCHANGED <<broken, freed, bufferVars, readVars, target>>

add(p) ==
    /\ at[p] = "idle" /\ logger = "ready" /\ calls < MaxLines
    /\ calls' = calls + 1
    /\ \E len \in Lengths :
          LET l == [by |-> p, number |-> calls', length |-> len]
          IN  /\ line' = [line EXCEPT ![p] = l]
              /\ pushToQueue(p, l) \/ pushToRing(p, l)
    /\ UNCHANGED <<loggerVars, popVars, fileVars>>

is_logged(level) == level >= loglevel

\* The macros: a line of too low a level does nothing.
LOG(p, level) == is_logged(level) /\ add(p)

pushAgain(p) ==
    /\ at[p] = "again"
    /\ pushToQueue(p, line[p])
    /\ UNCHANGED <<line, calls, loggerVars, popVars, fileVars>>

queueStep(p) ==
    /\ pushGoesOn(p)
    /\ UNCHANGED <<ringVars, logVars, loggerVars, popVars, fileVars>>

\* The critical section of RingBuffer::push.
ringStep(p) ==
    /\ at[p] = "item"
    /\ writeItem(index[p], line[p])
    /\ Return(p)
    /\ UNCHANGED <<broken, freed, bufferVars, readVars, logVars, loggerVars, popVars, fileVars>>

-----------------------------------------------------------------------------
(* Logger::pop, of the thread "Logger" *)

popperVarsFixed == UNCHANGED <<logVars, loggerVars>>

testState ==
    /\ popper = "test"
    /\ popper' = "pop"
    /\ draining' = (logger = "shutdown")
    /\ UNCHANGED <<queueVars, ringVars, popped, reads, fileVars>>

\* try_pop returns true.  A QueueBuffer may have a Buffer to delete first.
popSucceeds ==
    /\ popper = "pop"
    /\ \/ /\ guaranteed
          /\ popLine
          /\ popped' = NextLine
          /\ popper' = IF IsLastSlot THEN "delete" ELSE "write"
          /\ UNCHANGED ringVars
       \/ /\ ~guaranteed
          /\ readItem
          /\ popped' = NextItem
          /\ popper' = "write"
          /\ UNCHANGED queueVars
    /\ reads' = reads + 1
    /\ UNCHANGED <<draining, fileVars>>

deleteBuffer ==
    /\ popper = "delete"
    /\ popBuffer
    /\ popper' = "write"
    /\ UNCHANGED <<ringVars, draining, popped, reads, fileVars>>

\* try_pop returns false.
popFails ==
    /\ popper = "pop"
    /\ \/ guaranteed /\ popNothing /\ UNCHANGED ringVars
       \/ ~guaranteed /\ NextItem = NoLine /\ UNCHANGED <<queueVars, ringVars>>
    /\ popper' = IF draining THEN "done" ELSE "test"
    /\ UNCHANGED <<draining, popped, reads, fileVars>>

popBreaks ==
    /\ popper = "pop" /\ guaranteed
    /\ popGarbage
    /\ UNCHANGED <<ringVars, popVars, fileVars>>

writePopped ==
    /\ popper = "write"
    /\ writeLine(popped)
    /\ popped' = NoLine
    /\ popper' = IF draining THEN "pop" ELSE "test"
    /\ UNCHANGED <<queueVars, ringVars, draining, reads>>

\* The thread goes on in what was the Logger.
popAfterEnd ==
    /\ popper # "done"
    /\ broken' = TRUE
    /\ UNCHANGED <<freed, bufferVars, readVars, producerVars, ringVars, popVars, fileVars>>

pop ==
    /\ popper # "none"
    /\ IF logger = "gone" THEN popAfterEnd
       ELSE \/ testState \/ popSucceeds \/ deleteBuffer \/ popFails \/ popBreaks
            \/ writePopped
    /\ popperVarsFixed

-----------------------------------------------------------------------------
Init ==
    /\ InitQueue /\ InitRing
    /\ logger = "none" /\ loglevel = 0 /\ guaranteed = FALSE /\ rollBytes = 0
    /\ popper = "none" /\ draining = FALSE /\ popped = NoLine
    /\ files = <<>> /\ bytes = 0
    /\ calls = 0 /\ claims = <<>> /\ reads = 0 /\ overrun = FALSE

pushStep(p) == queueStep(p) \/ pushAgain(p) \/ ringStep(p)

Next ==
    /\ ~broken
    /\ \/ initialize \/ shutdown \/ destroyMembers \/ pop
       \/ \E level \in Levels : set_log_level(level)
       \/ \E p \in Producers : pushStep(p) \/ \E level \in Levels : LOG(p, level)

\* The operating system runs every thread; nobody has to log or to end the program.
Fairness ==
    /\ WF_vars(~broken /\ pop)
    /\ \A p \in Producers : WF_vars(~broken /\ pushStep(p))

Spec == Init /\ [][Next]_vars /\ Fairness

-----------------------------------------------------------------------------
(* Properties *)

\* All that is in the files.
Written == FlattenSeq(files)

\* What the popping thread has read: the files and the line it is about to write.
Read == IF popped = NoLine THEN Written ELSE Append(Written, popped)

\* The lines come out of the buffer once each, in the order of their slots and so each
\* thread's in the order in which it logged them, through any number of Buffers made
\* and deleted; of a ring, as long as no slot was claimed when none was free.
ReadAsClaimed == ~overrun => IsPrefix(Read, claims)

\* Log.h:130: lines are dropped when the ring is full, and only then; a GuaranteedLogger
\* drops none.  Every line logged is written unless the program ends first.
LinesGetWritten ==
    []<>(Len(Written) = calls \/ overrun \/ broken \/ logger # "ready")

\* Log.cpp:810: after SHUTDOWN the thread is to "pop and log all remaining entries".
RemainingLogged == logger = "gone" => Written = claims

=============================================================================
