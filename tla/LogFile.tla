------------------------------- MODULE LogFile -------------------------------
(***************************************************************************)
(* mengSen/base/LogFile, and FileUtil::AppendFile under it: a log kept in  *)
(* files of a limited size, one day each at most, flushed now and then.    *)
(*                                                                         *)
(* append() and flush() are one step each: mutex_ guards them, or a single *)
(* thread uses the object.  The clock is a variable in seconds, which also *)
(* moves while append() runs: rollFile() reads it a second time.  A line   *)
(* is the time at which it was appended, and a file's name the second that *)
(* its year, month, day, hour, minute and second spell: of UTC, or of the  *)
(* local time, which spells the same again when summer time ends.          *)
(* A definition named <x>_<variant> is x with a plausible slip in it.      *)
(***************************************************************************)
EXTENDS Integers, Sequences

CONSTANTS
    RollSize,       \* rollSize_
    FlushInterval,  \* flushInterval_
    CheckEveryN,    \* checkEveryN_
    Day,            \* kRollPerSeconds_
    LocalTime,      \* localtime_r: the second that each time has in the local zone
    Lengths,        \* the lengths of the lines
    StartTimes,     \* when the object may be created
    MaxTime,        \* bound: the latest time
    MaxAppends      \* bound: calls of append in a behaviour

ASSUME LimitsAssumption ==
    /\ RollSize \in Nat /\ FlushInterval \in Nat
    /\ CheckEveryN \in Nat \ {0} /\ Day \in Nat \ {0}

ASSUME InputsAssumption ==
    /\ Lengths \subseteq Nat /\ MaxTime \in Nat /\ MaxAppends \in Nat
    /\ StartTimes \subseteq 1 .. MaxTime /\ LocalTime \in [1 .. MaxTime -> Nat]

VARIABLES
    now,            \* the clock
    setBack,        \* whether the clock has been set back
    count,          \* count_
    startOfPeriod, lastRoll, lastFlush,     \* startOfPeriod_, lastRoll_, lastFlush_
    writtenBytes,   \* file_->writtenBytes_
    lines,          \* the lines appended to file_
    unflushed,      \* how many of the last of them may still be in its buffer
    opened,         \* when file_ was opened
    name,           \* its name
    sizes,          \* the bytes appended to the file of each name
    g_logTimeZone,  \* whether a zone is set
    zoned,          \* whether a file was named by the local time
    appends,        \* calls of append
    tried           \* the time at which append last wanted another file for size, or 0

openVars == <<startOfPeriod, lastRoll, opened, name, zoned>>
contentVars == <<count, writtenBytes, lines, unflushed, lastFlush, sizes, appends, tried>>
fileVars == <<now, setBack, g_logTimeZone, openVars, contentVars>>

PeriodOf(t) == (t \div Day) * Day

Names == 1 .. MaxTime \cup {LocalTime[t] : t \in 1 .. MaxTime}

\* getLogFileName
NameOf(t) == IF g_logTimeZone THEN LocalTime[t] ELSE t

-----------------------------------------------------------------------------
\* Whether the clock has moved on since the last roll.  The variant: or not.
mayRoll_same_second(t) == t >= lastRoll

mayRoll(t) == t > lastRoll

\* rollFile() at time t, when file_ has been given the lines after, of which
\* pending may be in the buffer; to replace file_ closes, and so flushes it.  A file that
\* exists is opened at its end, and writtenBytes_ is 0 all the same.
rollFile(t, bytes, after, pending) ==
    IF mayRoll(t)
    THEN /\ lastRoll' = t /\ lastFlush' = t /\ startOfPeriod' = PeriodOf(t)
         /\ opened' = t /\ name' = NameOf(t) /\ zoned' = (zoned \/ g_logTimeZone)
         /\ writtenBytes' = 0 /\ lines' = <<>> /\ unflushed' = 0
    ELSE /\ writtenBytes' = bytes /\ lines' = after /\ unflushed' = pending
         /\ UNCHANGED <<lastFlush, openVars>>

tooLong_one_line_late(bytes) == writtenBytes > RollSize

tooLong(bytes) == bytes > RollSize

\* The two things to do every CheckEveryN lines, of which the first that is due is
\* done.  The variants: in the other order, and with lastFlush_ set in any case.
everyN_flush_first(t, bytes, after, pending) ==
    IF now - lastFlush > FlushInterval
    THEN /\ lastFlush' = now /\ unflushed' = 0
         /\ writtenBytes' = bytes /\ lines' = after
         /\ UNCHANGED openVars
    ELSE rollFile(t, bytes, after, pending)

everyN_never_flush(t, bytes, after, pending) ==
    IF PeriodOf(now) # startOfPeriod
    THEN rollFile(t, bytes, after, pending)
    ELSE /\ lastFlush' = now /\ unflushed' = pending
         /\ writtenBytes' = bytes /\ lines' = after
         /\ UNCHANGED openVars

everyN(t, bytes, after, pending) ==
    IF PeriodOf(now) # startOfPeriod
    THEN rollFile(t, bytes, after, pending)
    ELSE /\ IF now - lastFlush > FlushInterval
            THEN lastFlush' = now /\ unflushed' = 0
            ELSE UNCHANGED lastFlush /\ unflushed' = pending
         /\ writtenBytes' = bytes /\ lines' = after
         /\ UNCHANGED openVars

\* The variant: count_ is not set to zero again.
nextCount_no_reset == count + 1

nextCount == IF count + 1 >= CheckEveryN THEN 0 ELSE count + 1

\* The time at which rollFile() reads the clock, called from append() at now.
Moments == {now, now + 1} \cap 0 .. MaxTime

\* AppendFile::append counts the whole line as written even when a write fails.
append_unlocked(len) ==
    LET bytes   == writtenBytes + len
        after   == Append(lines, now)
        pending == unflushed + 1
    IN  /\ appends < MaxAppends
        /\ appends' = appends + 1
        /\ sizes' = [sizes EXCEPT ![name] = @ + len]
        /\ \E t \in Moments :
              /\ now' = t
              /\ IF tooLong(bytes)
                 THEN /\ rollFile(t, bytes, after, pending)
                      /\ tried' = t
                      /\ UNCHANGED count
                 ELSE /\ count' = nextCount
                      /\ IF count + 1 >= CheckEveryN
                         THEN everyN(t, bytes, after, pending)
                         ELSE /\ writtenBytes' = bytes /\ lines' = after /\ unflushed' = pending
                              /\ UNCHANGED <<lastFlush, openVars>>
                      /\ UNCHANGED tried
        /\ UNCHANGED <<setBack, g_logTimeZone>>

flush ==
    /\ unflushed' = 0
    /\ UNCHANGED <<now, setBack, g_logTimeZone, openVars, count, writtenBytes, lines, lastFlush,
                   sizes, appends, tried>>

\* Logger::setTimeZone, whenever the program calls it.
setTimeZone ==
    /\ g_logTimeZone' \in BOOLEAN
    /\ UNCHANGED <<now, setBack, openVars, contentVars>>

-----------------------------------------------------------------------------
(* The clock *)

tick ==
    /\ now < MaxTime
    /\ now' = now + 1
    /\ UNCHANGED <<setBack, g_logTimeZone, openVars, contentVars>>

setClockBack ==
    /\ \E t \in 1 .. now - 1 : now' = t
    /\ setBack' = TRUE
    /\ UNCHANGED <<g_logTimeZone, openVars, contentVars>>

\* The constructor opens the first file.
FileInit ==
    /\ now \in StartTimes /\ setBack = FALSE
    /\ count = 0 /\ appends = 0 /\ tried = 0
    /\ startOfPeriod = PeriodOf(now) /\ lastRoll = now /\ lastFlush = now
    /\ g_logTimeZone \in BOOLEAN /\ zoned = g_logTimeZone
    /\ opened = now /\ name = NameOf(now) /\ sizes = [n \in Names |-> 0]
    /\ writtenBytes = 0 /\ lines = <<>> /\ unflushed = 0

FileNext ==
    (\E len \in Lengths : append_unlocked(len)) \/ flush \/ setTimeZone \/ tick \/ setClockBack

FileSpec == FileInit /\ [][FileNext]_fileVars

-----------------------------------------------------------------------------
(* Properties *)

Time == 1 .. MaxTime

\* Types, and that the count of lines stays below CheckEveryN.
FileTypeOK ==
    /\ now \in Time /\ setBack \in BOOLEAN
    /\ count \in 0 .. CheckEveryN - 1
    /\ startOfPeriod \in Nat /\ lastRoll \in Time /\ lastFlush \in Time /\ tried \in Nat
    /\ writtenBytes \in Nat /\ unflushed \in Nat /\ appends \in Nat
    /\ lines \in Seq(Time) /\ unflushed <= Len(lines)
    /\ opened \in Time /\ name \in Names /\ sizes \in [Names -> Nat]
    /\ g_logTimeZone \in BOOLEAN /\ zoned \in BOOLEAN

\* LogFile.cpp:58, the size limit is that of the file: while files are named by UTC
\* writtenBytes_ counts all that the file of that name holds, for none is opened twice,
\* not even after the clock is set back.  Named by the local time a file of an hour ago
\* may be opened again, and then it holds more than is counted.
WrittenIsSize ==
    /\ writtenBytes <= sizes[name]
    /\ ~zoned => writtenBytes = sizes[name]

\* More than RollSize is written to a file since it was opened only if append has tried
\* to open another one and the clock had not moved on since this one was opened.
LongOnlyInItsSecond == writtenBytes > RollSize => tried <= lastRoll /\ tried > 0

\* The last count_ lines are not checked yet; the others are.
Checked == 1 .. Len(lines) - count

\* Of the lines written since the file was opened, those that are checked are of the day in
\* which it was opened: at most CheckEveryN - 1 lines are in the file of another day.
FileOfOneDay ==
    ~setBack => \A i \in Checked : PeriodOf(lines[i]) = PeriodOf(opened)

\* The checked lines that may still be in the buffer were appended within
\* FlushInterval of each other: older ones have been flushed.
FlushedInTime ==
    ~setBack => \A i, j \in Checked :
                    Len(lines) - unflushed < i /\ i < j => lines[j] - lines[i] <= FlushInterval

=============================================================================
