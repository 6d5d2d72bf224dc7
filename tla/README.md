# Verification of mengSen

TLA+ models of the C++ library under `src/mengSen` and of the logger in
`src/example/log`: threads, queues, logs, event loop, timers, channels, buffers,
configuration and conversions, checked with TLC on small instances, with theorems
proved by TLAPS for every value of the constants.

The reference is the source. Every definition that stands for code is listed in
`PROJECT.json` under `map` with the lines it translates. A definition named
`<x>_<variant>` is `x` with a plausible slip in it (a dropped guard, a missing
reset, a swapped order); nothing uses it but the `mutants`, each of which puts one
in the place of `x` and names the property that then fails.

## 1. The system

| component | state | operations | interacts with |
|---|---|---|---|
| `base/AsyncLogging` | `currentBuffer_`, `nextBuffer_`, `buffers_` under `mutex_`; `running_`; locals of the logging thread | `append` (any thread), `start`, `stop`, `threadFunc` | producers through `mutex_` and `cond_`; `LogFile` below it |
| `base/LogFile`, `FileUtil::AppendFile` | `count_`, `lastRoll_`, `lastFlush_`, `startOfPeriod_`, the open file | `append`, `flush`, `rollFile` | the clock, the file system |
| `base/Logging`, `LogStream`, `Timestamp` | a line in a `FixedBuffer`; global output, level and time zone; a static buffer in `Timestamp::convert` | `Logger` and its destructor, `operator<<`, `convert` | the output function, often `AsyncLogging::append` |
| `base/ThreadPool` | `queue_`, `running_`, `maxQueueSize_` under `mutex_`; `notEmpty_`, `notFull_` | `start`, `stop`, `run`, `take`, `runInThread` | clients and workers through the condition variables; `Thread` |
| `base/Thread`, `CountDownLatch` | `started_`, `joined_`, `tid_`; a count under a mutex | `start`, `join`, `wait`, `countDown` | creator and new thread through the latch |
| `base/BlockingQueue`, `BoundedBlockingQueue`, `SpinLock` | a queue under a mutex | `put`, `take` | nothing uses the queues |
| `base/Date`, `TimeZone` | none (values) | Julian days, UTC, local time | `LogFile`, `Logging` |
| `net/EventLoop` | `pendingFunctors_` under `mutex_`; `quit_`, `callingPendingFunctors_`; the counter of an eventfd | `loop`, `quit`, `runInLoop`, `queueInLoop`, `wakeup`, `handleRead`, `doPendingFunctors` | other threads through the queue and the eventfd; `Poller`, `Channel` |
| `net/TimerQueue`, `Timer` | `timers_`, `activeTimers_`, `cancelingTimers_`, the timerfd | `addTimer`, `cancel`, `handleRead`, `getExpired`, `reset` | `EventLoop` runs its functors and calls `handleRead` |
| `net/Channel`, `Poller` | `events_`, `addedToLoop_`, `eventHandling_`, `tie_`; `channels_`, `activeChannels_` | `enable...`, `disable...`, `remove`, `tie`, `handleEvent` | `EventLoop` dispatches; the owner may go away in a callback |
| `net/Acceptor`, `Socket`, `SocketsOps` | `idleFd_`, `listening_`, the descriptors of the process | `listen`, `handleRead`, `~Acceptor` | its channel, the kernel, other threads that open files |
| `net/Buffer` | a vector and two indices | `append`, `prepend`, `retrieve`, `unwrite`, `shrink`, `readFd` | one thread |
| `config` | the map of variables; of each the value, the listeners and a lock; the times of the files loaded | `lookup`, `setValue`, `addListener`, `deleteListener`, `loadFromYaml`, `LoadFromConfDir`, `LexicalCast` | every thread of the program, the files |
| `example/log` (NanoLog) | Buffers of slots with write states, or a ring of slots with spinlocks; a popping thread; the files | `LOG`, `push`, `try_pop`, `setup_next_write_buffer`, `initialize`, `~Logger`, `LogLine` | producers without a lock; `base/Thread` |
| `coroutine` | a schedule and a vector of coroutines | `create`, `resume`, `yield` | nothing is ever registered in it |

What is hard, and what makes each part correct:

* **AsyncLogging.** Two fixed spare buffers go round between producers and the
  logging thread; `stop` and the notification race with the wait. Correct: a
  line is written once, in order, unless it is announced as cut or no buffer
  can hold it; the asserts hold; `stop` returns.
* **ThreadPool, Thread.** One `notify_one` per task and per free place; several kinds of
  waiters; threads that tell their `tid_` through a latch. Correct: tasks leave once each
  in order; no waiter sleeps while there is something for it to do that nobody else is on
  the way to do; `start` and `stop` return.
* **EventLoop.** Work queued by other threads, by callbacks and by functors
  while the loop is about to sleep. Correct: functors are called once each and
  in order; the loop never sleeps over one; `quit` ends it.
* **TimerQueue.** Callbacks that add and cancel timers, themselves included;
  unsigned times of more than one unit. Correct: no pointer of the loop dangles, the two
  sets agree, a cancelled timer stops, the timerfd is armed while timers wait.
* **Channel.** A channel removed, by itself or by another, while events of the same poll are
  handled, or destroyed with its owner in its own callback. Correct: the asserts hold and
  nothing destroyed is used.
* **Acceptor.** No descriptor left for a connection that the poller reports for ever, and
  other threads that open files between any two system calls. Correct: what is
  closed is the Acceptor's own, and the backlog drains.
* **LogFile.** Three reasons to touch the file, tested in an order, with a clock
  that moves and may be set back. Correct: the size that is tested is the file's,
  files stay within a size and a day and are flushed, each up to the slack the code accepts.
* **Buffer.** Indices that wander, room that is moved or grown. Correct: it is a
  stream of bytes.
* **Conversions.** Boundaries of calendars, zones, widths and buffers; texts within texts.
  Correct: they lose nothing, or, where they do, exactly what is said.
* **config.** Listeners called under one lock and values written under another;
  one counter for all variables; files edited while they are loaded. Correct: keys name
  listeners, calls return, a deleted listener stays quiet, listeners are told each change, a
  file that was loaded is in force.
* **example/log.** Slots are claimed by a counter, filled in any order and counted, and
  who fills a Buffer sets up the next; the ring overruns. Correct: lines are read once
  in the order of their slots, slots come back, all lines get written.

The top `CMakeLists.txt` builds `base` only; `net` has no build file, and does not
compile as it is (`std::bind(TimerQueue::cancelInLoop, ...)` in
`net/TimerQueue.cpp` lacks the `&`). The models take the evident meaning.

## 2. The modules

| module | models | kind |
|---|---|---|
| `AsyncLogging`, `AsyncLoggingProofs` | `base/AsyncLogging`, with `FixedBuffer` | state machine, theorems |
| `LogChannel` | what it promises: a first-in first-out channel | abstract specification |
| `ThreadPool`, `PoolThreads` | `base/ThreadPool`; the same composed with `base/Thread` and `CountDownLatch` | state machines |
| `LogFile` | `base/LogFile`, `AppendFile` | state machine |
| `TimeZone` | `base/Date`, `base/TimeZone` | functions |
| `Walk` | the variables of the walks of `Times`, `Numbers`, `Lines` and `Casts` | |
| `Times` | the reference for `TimeZone`: a calendar walked day by day, and times in zones | reference, properties |
| `LogStream` | the numbers of `base/LogStream` | functions |
| `Numbers` | the reference for `LogStream`: integers walked digit by digit, and what a text stands for | reference, properties |
| `TruncatedDivision` | `/` and `%` of C++ | functions |
| `BaseProofs` | of `ThreadPool`, `PoolThreads`, `LogFile`, `Times` and `Numbers` | theorems |
| `EventLoop` | `net/EventLoop` | state machine |
| `Buffer` | `net/Buffer` | operators and the calls of a user |
| `ByteStream` | what it promises | abstract specification |
| `NetProofs` | of `EventLoop` and `Buffer` | theorems |
| `TimerQueue`, `TimerQueueProofs` | `net/TimerQueue`, `Timer` | state machine, theorems |
| `Channel` | `net/Channel`, the registration in `EventLoop` and `Poller` | actions, composed by `Acceptor` |
| `Acceptor`, `AcceptorProofs` | `net/Acceptor` with its channel and those of its connections | state machine, theorems |
| `ConfigVar` | `ConfigVar` of `config` | state machine |
| `ConfigLoad` | `ConfigVar` composed with the map of variables and the loading of files | state machine |
| `Containers` | the conversions of a container of any type to YAML and back, given those of its elements | operators with functions as parameters |
| `LexicalCast` | the conversions of a type, made of those of its elements, to any depth | a recursive function |
| `Casts` | values converted to their texts and back | properties |
| `ConfigVarProofs` | of `ConfigVar`, `ConfigLoad` and `Casts` | theorems |
| `QueueBuffer`, `RingBuffer` | the two buffers of `example/log` | actions, composed by `NanoLog` |
| `NanoLog` | the Logger: `LOG`, `initialize`, the popping thread, the file writer, `~Logger` | state machine |
| `LogLine` | the encoding of a line of `example/log` | functions |
| `Lines` | the reference for `LogLine`: lines walked argument by argument | reference, properties |
| `NanoLogProofs` | of `NanoLog` and `Lines` | theorems |
| `DataLemmas` | induction over the naturals, functions that call themselves, sequences joined, remainders and quotients | lemmas that the proofs share |
| `MC*` | constants, bounds and references for TLC | |

Where a module has `Steps`, it is `Spec` without fairness, of which safety is proved.

**AsyncLogging.** A line is its number in the order in which `append` took
`mutex_`. The critical sections are single steps, because nothing blocks in them
except the wait on `cond_`, which is a state (`pc = "waiting"`). The body of
`threadFunc` is cut where other threads can come between: the test of
`running_`, the lock, the cut of the backlog, each buffer written, the refill of
the spares. `wait_for` may return notified, timed out or spuriously: one action,
`waitReturns`. The owner's `stop` takes no mutex, so its store and its
notification are two steps. `assert`s lead to `pc = "aborted"`.
`LogChannel` is the queue drained into a file; `AsyncLogging` maps the batch,
the full buffers and the current one to that queue (`ImplementsLogChannel`).

**ThreadPool, PoolThreads.** `pc` says where each worker and client is; sleeping on a
condition variable is the value `notEmpty` or `notFull`. `notify_one` sends any
one waiter back to the head of its loop, and `spuriousWakeup` any waiter at any
time. `running_` is read without the mutex in `runInThread`, a step of its own.
Tasks return normally (an exception ends the process, `ThreadPool.cpp:99-112`).
`PoolThreads` takes these steps over and adds what `start` and `stop` do with each
thread: create it, sleep on its latch until it has told its `tid_`, join it.

**EventLoop.** The eventfd is its counter; `poll` returns for it, for another
channel or for its time-out. `queueInLoop` by another thread is two steps, push
and `wakeup`; by the loop thread it is one. `quit` stores and then wakes.
`loop()` forgets an earlier `quit`, as the FIXME in front of it says.

**LogFile.** The clock is a variable; `append` reads it and `rollFile` reads it
again, a moment later. A line is the time of its `append`. `setClockBack` is the
administrator's hand. A file's name is the second that its date and time spell (the host and the
process are the same in all): the time itself, or `LocalTime` of it while a zone is set
(`g_logTimeZone`), which is any function, so that names may come again; `sizes` has the bytes
of the file of each name, and a file that exists is opened at its end.

**TimerQueue.** Functors that other threads queue are a sequence, called in
order by the loop thread (the order is what `EventLoop` guarantees). `handleRead`
is cut where callbacks run, since they may call `addTimer` and `cancel`. `addTimer` of
another thread hands the timer to the loop in one step and reads its `sequence_` in another
(`addReturns`): when the timer is gone by then, the `TimerId` it returns is any, and
may be used (`ids`). The
widths (`ShortRange`, `WideRange`) and the units of time are constants, so that
the truncation of `Timer`'s `uint16_t` parameter, the unsigned difference and the
confusion of micro- and nanoseconds are all in the model; `armedFor` is the time the
timerfd was armed for, `alarm` when it fires. `nextExpire` is read
uninitialized in `reset` when no timer is left: any value of `Garbage`.

**Channel, Acceptor.** A channel is a record of its members and of whether it is
there and kept by the program. The loop goes poll, handle, functors; a callback of a
connection may change its own events, remove itself, remove another channel that has no
event of this poll, or queue a functor that removes one. A false assertion, and the
use of a destroyed channel, are put in `broken`. `Poller` is an interface without an
implementation in the repository: that it reports registered channels with events they
care about, or that the kernel always reports, is an assumption. `Acceptor` adds the
table of descriptors, the backlog of the kernel, and `handleRead` with one step per
system call, so that `otherOpens` and `otherCloses` come between any two.

**Buffer.** A `Buffer` is a record and each member function an operator from it
to what it leaves; the actions are the calls of a user who keeps to the asserts.

**ConfigVar, ConfigLoad.** The `shared_mutex` of a variable is held by whoever is at certain
places (`Readers`, `Writers`). `setValue` looks and calls the listeners, one step
each, as a reader, and writes as the only writer. The static counter of
`addListener` is loaded, stored and loaded again in steps of their own, since
users of other variables do the same under other locks: a data race, of which
the model takes every outcome that loads and stores can give. Listeners do not
use the variable themselves (they would wait for the lock they are called under). The
record of a `setValue` has, besides its locals, the listeners that it found (`there`), for the
properties.
`LoadFromConfDir` looks at the time of a file, records it, reads the file and sets each variable
it names by a `setValue` of `ConfigVar`; between any two of these the file may be
edited, also to an older time, and other threads may call. A document is the sequence
of its nodes; texts that are not YAML and values that do not convert are in it. No time of
modification is 0, the time a file that was never loaded is recorded with.

**QueueBuffer, RingBuffer, NanoLog.** Each claim of a slot, load or store of an atomic and
critical section of a spinlock is a step, interleaved under sequential consistency; what weaker
memory orders may add is not modelled. A pointer is a place in the sequence of all
Buffers ever made, `freed` are those deleted; the use of one of these, of the
uninitialized `_current_read_buffer`, or of a destroyed Logger sets `broken`, after which nothing is
said. `_write_state[size]` counts the lines of a Buffer. The ring's indices are counted
modulo `IndexModulus` and the slot is the index modulo `RingSize`, as in the code.

**LogLine, LexicalCast, TimeZone, LogStream.** Functions, compared with a reference that a
walk carries along: the arguments given (`Lines`), the integer whose digits are printed
(`Numbers`), a calendar walked day by day by the rule of leap years (`Times`), the value
converted (`Casts`). `MCData` puts the sequential code together: a behaviour is one of these
walks, or the use of a `Buffer` or of a `LogFile`. What calls itself in the code for every
byte or digit (`convert`, `stringify`) is a recursive function, of which theorems can be
proved. The conversions of containers are templates in the code: here they are given functions that
convert the elements (`Containers`), and `LexicalCast` makes the functions of a type out of those of its
element type, as the compiler does. So a function has a domain, the values of a type and the
YAML trees of its depth. What YAML makes of a string, a scalar, null or an exception, and how
it prints that, are constants (`ReadAs`, `PrintedAs`), of which only one thing is assumed, that
YAML reads back what it prints: `#x` is null and printed as `~`, `'text'` loses its quotes, `[`
throws.
In a log line, what follows a NUL inside a `std::string` is decoded as type ids and values, as the code
does, up to the end of the buffer, beyond which the program may read on.

## 3. What is checked

| run | question | bounds |
|---|---|---|
| `async_logging` | no assert fails; each line in one place and in order; cuts announced; `stop` returns; `LogChannel` implemented; the queue drains | 6 appends, buffers of 2 lines, backlog of 3 |
| `thread_pool` | tasks once and in order; sleepers have nothing to do; tasks run; `start` and `stop` return | 2 workers, 3 clients, no bound and a bound of 2, 5 calls |
| `event_loop` | functors in order; no sleep over work; functors run; `quit` ends the loop | 2 other threads, 4 calls, 2 `loop()`s |
| `timer_queue` | sets agree and nothing of the loop's dangles; cancel stops; timerfd armed for the first timer | 2 timers, 2 cancels, 7 ticks |
| `timer_wakes` | (violated) the loop is woken in time under the true clock | 2 timers |
| `channels` | asserts of `Channel` and `EventLoop`; the spare descriptor is the Acceptor's; the backlog drains | 2 connections, 3 descriptors, 2 opened by others |
| `data` | `Buffer` implements `ByteStream` and finds room; size, day and flush of a `LogFile`, with the clock moving and names that come again; calendar and UTC; local time; numbers; log lines; values of variables | 6 bytes, 3 at a time, a vector of 4; 5 lines, days of 4 seconds, 6 seconds; 1880 to 2105; zones with and without summer time; integers to 9.9e8 either way; 3 arguments, strings with a NUL; containers nested twice, 11 strings that YAML keeps, changes, takes for null or throws on |
| `config_var` | keys name listeners; calls return; deleted listeners stay quiet; listeners are told each change before it is made; a load takes effect | 2 threads, 1 variable, 3 calls, 1 file, 1 edit, 2 loads |
| `listener_keys` | (violated) keys name listeners with two variables | 2 threads, 4 calls |
| `nano_log` | slots come back; lines read once in the order of their slots; lines get written | 3 producers, 4 lines, Buffers and a ring of 2 |
| `nano_log_end` | (violated) the remaining lines are logged at the end | as `nano_log` |
| `ring_wraps` | (violated) a ring that is not full gives its lines in order | 1 producer, a ring of 3, an index modulo 4 |

The types are not an invariant of a run: `TypeCorrect` and the inductive invariants of the
proofs say more about them.

Why the bounds are enough: each is the least at which every branch of the code
is taken, and the interesting ones more than once. Six appends fill three
buffers and start a fourth, so the batch passes the backlog limit and both spares
are in use. Five calls fill a queue of two while three clients wait. Four calls
let a functor queue another while both other threads are between push and
`wakeup` and a `quit` comes. Five lines let a file grow long, roll, fail to roll
in the same second, cross midnight and be flushed. Two timers are enough for one
to cancel the other, or itself, in a batch; seven ticks let a timer repeat. Two
connections let a callback remove itself or the other, with and without events, and fill
the table together with the others' descriptors and the spare one. One edit and two loads let the
edit fall before, into and after a load. Four lines fill two Buffers, so that one is deleted while
the next is written, with a producer waiting for it, and wrap the ring's indices around; a ring of
three does not divide its modulus of four, as 40960 does not divide 2^32. Log lines
go around the limits of the stack buffer and of the least heap buffer. The
calendar crosses 1900, 2000 and 2100. The 32-bit integers of TLC bound the UTC
times to 1901-2038 and the printed quantities to those below 1e9; the theorems
have no such bounds.

**Fairness.** Threads that are scheduled go on: the logging thread, the workers,
the loop thread, the popping thread and whoever is between two steps of a call (`WF`).
`wait_for` has a time limit, so `waitReturns` is fair; a plain wait is not: a waiter of the pool
needs its notification, and no spurious wake-up is assumed. The time-out of `poll`
is not assumed either, so that what `EventLoop` shows does not lean on it. Nobody
has to call anything: `append`, `run`, `quit`, `stop`, `LOG`, `LoadFromConfDir` have no
fairness. `Acceptor::handleRead` tests `errno` after it has logged; the log line may have
changed it, and the spare descriptor is then not used, but not for ever (`SF` on
`releaseSpare`).

`CHECK_DEADLOCK FALSE` is said where the system may rest: an owner that has
stopped the object, or a bound that has been reached.

## 4. What is proved

All theorems hold for every value of the constants under the named assumptions
of the modules (sizes are naturals, the sets of threads are finite and disjoint). Every
invariant and action property of a passing run is the subject of a theorem.

* `AsyncLoggingProofs`: `TypeCorrect`, `AssertionsHold`, `LinesAccountedFor`,
  `CutsAnnounced`, `IsLogChannel`. The assertions need to know, at every place of the logging
  thread, which spare buffers are null and how many buffers the batch holds; in
  particular that when `nextBuffer_` was used up, at least one full buffer lies
  in `buffers_`. The accounting adds to that the order of the places and that
  every line is in `1 .. appended`. `IsLogChannel` is the safety part of the refinement:
  the queue is the lines of the batch, of the full buffers and of the current one, joined
  (`FlattenSeq`); each step of `append` or of the logging thread is shown to add, take or cut
  at one end of it, or to leave it as it is. What the fold gives for a longer sequence is
  proved in `DataLemmas`.
* `BaseProofs`, the pool: `TypeCorrect`, `TasksExecutedOnceInOrder`,
  `EveryTaskHasTaker`, `EveryPlaceHasRunner`. The last two are inductive once the
  type is known: each `notify_one` moves one thread from the waiters to those on
  their way, which is a fact on cardinalities of finite sets. `ThreadsImplementPool`
  shows that `PoolThreads`, with latches and joins, takes only steps of `ThreadPool`: `stop`
  is past its last join only when every worker has ended. So the three properties hold
  of the pool with its threads (`PoolTasksOnceInOrder`, `PoolTasksHaveTakers`,
  `PoolRoomHasRunners`).
* `NetProofs`, the loop: `LoopInvariant`, `TypeCorrect`, `NoLostWakeup`,
  `FunctorsCalledInOrder`. The invariant is stronger than "no sleep in poll": at
  *every* place from which the loop can reach `poll` without `swap`, a queued
  functor has a wake-up coming, and `callingPendingFunctors_` agrees with the place.
* `BaseProofs`, the log files: `FileInvariant`, `FileTypeCorrect`, `WrittenIsFileSize`,
  `RollsInTime`, `OneDayPerFile`, `FlushesInTime`. The invariant orders the times
  of the lines, relates the last name to `lastRoll_`, says that no file has the name of a time
  after `lastRoll_` while names are of UTC, and bounds what the last
  `count_` lines may do that the others may not. The clock set back breaks the
  order, and only names and sizes survive it: hence `~setBack` in the others. With local names
  (`zoned`) the size counted is only a lower bound of the file's.
* `BaseProofs`, dates and times: `CalendarIsWalked`, `LocalTimeReturns`. That the day after a
  date has the next Julian number is shown by cases: within the month, at its end (`NextMonth`),
  at the end of the year (`NextYear`). That the number gives the date back (`DateFound`) goes
  the way of the formulas: the century is found from the days in 400 years (`CenturyFound`),
  the year from those in four (`YearFound`), the month from those in five months
  (`MonthFound`), each with the rest that is left over; all years from 0 on are covered, by
  arithmetic and not by enumeration. `toUtcTime` and `fromUtcTime` follow with
  the quotient that truncates (`DayAndSecond`). For the zones, the transitions of a
  well-formed file increase by either of the times they are compared by (`TurningIncreases`), so that
  `lower_bound` finds the last that is not later (`LookedUp`); the local time then finds the same
  transition again, or, in the last hour of summer time, the next one, and only there does
  `fromLocalTime` go back an hour (`HourThatComesTwice`). `SummerTurns` is the assumption: summer
  time is one hour, it takes turns with standard time, and each lasts for more than an hour.
* `BaseProofs`, numbers: `NumbersAlwaysPrinted`. The digits that come out from the least significant
  one are reversed and read from the most significant one, so the proof goes by induction over the
  integer divided by ten, or by sixteen (`DecimalDigits`, `HexDigits`): the text of a quotient is read
  as the quotient, and one more digit adds the remainder, with the sign of C++'s `%` (`DigitAdded`).
  For the quantities, each branch rounds to at most three digits, and the limit between two
  branches lies where the fourth would come (`ThreeDigitsSuffice`, `QuantitiesFit`).
* `TimerQueueProofs`: `TypeCorrect`, `SetsAlwaysAgree`, `CancelledTimersStop`,
  `TimersAlwaysArmed`. The invariant says that there is a batch only while callbacks are called
  (`Resting`), that the two sets agree and share no timer with the batch (`SetsAgree`), that a timer which another thread asked
  to add is not yet seen by the loop and is asked for once (`AddsAreNew`), and that a cancelled timer not
  deleted yet is in the batch and in `cancelingTimers_`, so that `reset` deletes it
  (`CancelledLeave`). For the arming (`ArmedWhenNeeded`): outside the callbacks the timerfd is armed for a
  time not after that of any timer; among them it need be so only if a timer in the sets is due already,
  because `reset` arms it again but only for a time that is still `valid()`. That it then fires in time
  is not claimed, and is false (section 5).
* `NetProofs`, the buffer: `BufferTypeCorrect`, `RoomIsFound`, and `IsByteStream`, which is the safety part of
  the refinement: initial states map to initial states, and every call to a step of
  `ByteStream` or to none. What `makeSpace` moves is shown equal by its places in the vector.
* `ConfigVarProofs`: `ConfigInvariant`, `DeletedQuiet`, `KeysCorrect`. The
  invariant says that whoever adds a listener has the variable alone, and that
  what a `setValue` has still to call is in the map. `KeysCorrect` assumes a single
  variable of its type, since its lock then protects the counter as well: it adds that the
  keys in use are at most `func_id` and differ. Without that assumption it is
  false (section 5). `LoadsUseVariables` shows that the loading of files takes only steps of
  `ConfigVar`, hence `DeletedQuietWhileLoading`. `ListenersAreTold` follows from `HeardInv`: of a
  variable that one call sets, each listener that it found is either still to be called or was told last
  of the change from the value in force to the one about to be written (`Heard`); for that no
  listener is in two maps, one that is still to be inserted is in none, and one that was found is not
  inserted again (`Known`). A listener added after the look is in `func` and not in `there`, and
  nothing is said of it (section 5).
  `LoadsTakeEffect` follows from `ForceInv`: between an edit and the end of a load that it does
  not overlap, the value in force is that of the file, or will be: the recorded time differs, or a
  load has still to read the file, or has read it and has nodes left that give the value
  (`ToBeRead`, `Settled`). The variable must be named by that file alone, and set by nobody else;
  the ghost variables that say so were too weak for more than one file, which the
  proof showed and the run, with its one file, could not.
* `NanoLogProofs`: `Invariance`, `SlotsAlwaysComeBack`, `AlwaysReadAsClaimed`. Of a queue,
  the claimed slots of the current Buffer are those counted and those owed, by producers between claim and
  count; whoever counts the last one, and nobody else, sets up the next; a slot is empty or
  holds the line that claimed it, and the Buffers in the queue are consecutive. Of a ring that was never
  overrun, the items between reader and last claim are distinct, each empty and owed by one producer
  or holding its line. The files hold what was read, but for one line in hand. A ring needs
  `IndexModulus % RingSize = 0` in `AlwaysReadAsClaimed`, which the code does not
  ensure (section 5).
* `NanoLogProofs`, the lines: `LinesReadBack`, for any arguments, any number of them and strings of any
  length. `LineInv` says that the buffer has room for what it holds, that the header is in its first 33
  bytes, and that it is *readable*: whatever bytes follow, what is read from the header on is the text of the
  arguments and then what is read from the end on. Each `operator<<` keeps it (`ReadableStays`), since
  decoding what it has added gives the argument and goes on right after it (`LoggedReads`),
  for a string because no NUL is in it before the one added. Without "whatever bytes follow"
  the invariant is not inductive. A string that has a NUL is read up to it (`CutString`); from
  then on only the beginning of the message is known, and it stays, whatever is added and however
  that is read (`CutStays`).
* `ConfigVarProofs`, the conversions: `EveryTypeFaithful`, `ValuesReadBack`, by induction over the containers
  around a scalar. A value is *plain* if YAML prints all its strings as it reads them. Of the elements it
  is shown that plain ones have a text of which they are read back, also after YAML has parsed and
  printed it, and that whatever was parsed and printed is read as a plain one (`Faithful`); then so is it
  of the container. So what is plain is read back, and what is not is either not printed, or not read
  back, or read back as another value. A set is read back in whatever order it was printed
  (`SetInOrder`). Of YAML only `YamlAssumption` is used, that it reads back what it prints, and that a
  numeral is printed as it is read (`CastAssumption`).
* `AcceptorProofs`: `ChannelAssertionsHold`, `SpareDescriptorIsOwn`. The invariant:
  the Poller knows only channels that are alive and kept, under their own descriptors; the
  channels with events left are alive and not the current one; a channel the program has
  dropped is alive only while it is the current one, and is then not registered; a
  connection is in the backlog at most once and has had no channel before. A connection
  is tied, and only `handleEvent`'s guard makes the third part true: with `guards_not` in
  its place the run `channels` finds the assertions violated.

`DataLemmas` has no theorem of its own. Induction over the naturals is there for a set of numbers
(`SetInduction`, from the well-foundedness of strict inclusion among finite sets), because the
library's own theorem takes an operator as a parameter. It gives `FlattenSeq` of a longer sequence,
least elements, and remainders in rings. A recursive function is a `CHOOSE`, of which
nothing is known before one is shown to exist: `UnrollingExists` does that for those that print and
read, `MadeSoFar` and `MadeOnce` of `ConfigVarProofs` for the conversions.

Only model-checked: liveness (`StopReturns`, `QueueDrains`, `OwnerReturns`, `TaskEventuallyRun`,
`FunctorsRun`, `QuitEndsLoop`, `BacklogDrains`, `CallsReturn`, `LinesGetWritten`) and `ENABLED`,
which are out of this prover's reach.

## 5. What was found

`timer_wakes`: with the clock where it is, `Timer`'s constructor cuts the time to
16 bits (`net/Timer.h:23`), the unsigned difference in `howMuchTimeFromNow`
wraps around, and the timerfd is armed for a time no program lives to see; a timer
asked for in the future never fires. The wrap-around comes without the cut, too, when a timer
falls due before it is armed. Besides, times are nanoseconds (`README.md:28`), and `howMuchTimeFromNow`
takes their difference as microseconds (`TimerQueue.cpp:44-47`): a delay is a thousand times too
long, which `runAfter` and `runEvery` make up for by adding microseconds. `timer_queue` therefore
takes times that fit, and asks what the timerfd was armed for, not when it fires, so that
everything else of the queue can be looked at.

`listener_keys`: `addListener` numbers listeners by a static counter of all
variables of a type, under the lock of one (`config.cpp:84-88`); with calls on two
variables at once the key returned need not be that of the listener, which
`config.h:436` calls its unique id.

`ring_wraps`: the ring's reader counts in an `unsigned int`, its writers in a `size_t`
(`example/log/Log.cpp:672-676`), both modulo the number of items, which need not divide 2^32
(`Log.cpp:758`). Once the reader's index has wrapped around, the two look at different items, and
lines come late or are overwritten in a ring that was never full. The proof of
`AlwaysReadAsClaimed` could not do without the divisibility; the run shows why.

`nano_log_end`: `~Logger` stores `SHUTDOWN` and destroys its members
(`example/log/Log.cpp:780`), and `~Thread` detaches the popping thread
(`Thread.cpp:126-130`). The remaining lines, which `Log.cpp:810-811` says are popped and
logged, are lost, and the thread may go on in what was the Logger.

Limits of the code that a reader should know, and that no property contradicts:

* `ThreadPool::stop` leaves queued tasks unexecuted and does not wake callers of
  `run` that wait for room; tasks that call `run` on a full bounded pool can wait
  for each other.
* A functor queued by the loop thread before `loop()` may wait for the 10 s
  time-out of `poll`; a `quit` before `loop()` is lost.
* A `cancel` in the loop may overtake the queued `addTimer` of another thread and
  is then lost.
* `addTime` adds microseconds to a clock of nanoseconds (`Timestamp.h:71`).
* `addTimer` reads `timer->sequence()` when the loop may have called and deleted the timer
  (`TimerQueue.cpp:100`): what a later `cancel` of the `TimerId` cancels is then any timer or none.
* When other threads take the descriptor that the Acceptor has released, `idleFd_` may end
  as -1, and later connections at the limit stay in the backlog: the loop spins
  (`robbed` in `BacklogDrains`).
* A callback that removes another channel that has an event of the same poll breaks the assert of
  `removeChannel` (`EventLoop.cpp:191`); those of the model do not.
* Lines are flushed to the log file by later lines only.
* With a zone set, log files are named by the local time (`LogFile.cpp:99-103`): in the hour after the
  end of summer time a file of the hour before may be opened again, and its size is counted
  from zero.
* Two `setValue`s of one variable at once may call its listeners in one order and write in
  the other (`config.cpp:64-75`): `ListenersTold` speaks of changes that no other call overlaps.
* A listener added between the two locks of `setValue` (`config.cpp:72-73`) is registered when the
  value changes and is not told, although `config.h:424-425` says that registered functions are
  notified: `ListenersTold` speaks of the listeners that the call found, `HasTold` says which.
* `ConfigVar::fromString` returns false even when it has set the value
  (`config.cpp:53`). Names with a capital or a `9` are refused: the `tolower` after the
  test has nothing to do.
* A variable that is looked up first after a file was loaded keeps its default until the
  file changes; an edit that keeps the recorded time is not seen; of two threads that load
  at once, one may leave the older values in force. A load that fails is not tried again.
* The elements of a container are parsed as YAML before they are printed (`config.h:81`, 172 and 265):
  `""`, `"null"` and `"#x"` come back as `"~"`, a quoted text without its quotes, and `"["` throws;
  `ValueReadsBack` says which are read back. The vector cast uses
  `ss.str` without calling it, and `getValue` locks a const mutex: neither compiles when used.
* In `example/log`, a Buffer may be read to its end and deleted before the last producer has
  counted its line (`Log.cpp:454`), and `_current_read_buffer` is read before it is ever set:
  the models stop at both. The ring drops the newer lines when it is overrun, and the order
  with them.
* A `std::string` with a NUL in it is logged up to the NUL; what follows, of the arguments after it too, is
  decoded as type ids and values (`Log.cpp:357`, 266-275, 328-355), also beyond the end of the
  buffer, for `start == end` may be jumped over.
* Above 2^53 the conversion to `double` rounds before `formatSI` prints: 99949999999999999, in the branch
  below 99.95P, prints "100.0P", six characters, where `LogStream.h:171` says "atmost 5".
  The model stops below.
* A number is dropped from a `LogStream` when fewer than 32 characters are free.
* `findCRLF()` and `findEOL(start)` of `Buffer` have no return statement.
* `readTimeZoneFile` returns true even if the file is missing; the zone is then
  valid and empty. Summer time of other than an hour breaks `fromLocalTime`.

## 6. The plan

The most important behaviour came first: `AsyncLogging`, `ThreadPool`, `EventLoop`, `LogFile`
and `ConfigVar` with their proofs, then `TimerQueue`, `Buffer` and the conversions; then threads
that start and join, the loading of files, channels and the Acceptor, the logger of
`example/log`, and the proofs about `TimerQueue`, `Buffer`, `PoolThreads`, `ConfigLoad` and
`Acceptor`; then those about `NanoLog`, the loads and the listeners, the refinement of
`LogChannel`, the calendar and local time; last, those about the texts of numbers, log lines and the
containers of `config`. In the proof about numbers, branches that had been written as a `CASE` with
overlapping guards, of which TLA+ may take any and TLC takes the first, had to become the
chain of `if`s that the code has.

Left open: the liveness properties stay with TLC.

## 7. What is not modelled

* `coroutine`: `coroutine_create` (`schedule.cpp:31`) makes a coroutine and lets go
  of it; none is registered, and resume and yield have nothing to act on.
* `BlockingQueue`, `BoundedBlockingQueue`: the library does not use them, and their `put` and
  `take` have the form of `run` and `take` of `ThreadPool`.
* Destructors of `EventLoop` and `TimerQueue`: what other threads do to a loop that is being
  destroyed is left to their owner.
* `Logger`'s layout of a line, `Timestamp::convert` with its static buffer (a data race
  whose outcome is any text), the layout of times in `example/log`, `InetAddress`,
  `ProcessInfo`, `Exception` and the rest of `Socket`: wrappers of system calls and formatting.
* The bytes of zone files, the grammar of YAML (which string is which scalar is a constant), floating
  point.
* Weaker memory orders than sequential consistency, in `example/log` and for `running_`
  and `quit_`.
* `Singleton*`, `ThreadLocal*`, `WeakCallback`, `Types`: one pthread or library
  call each, with no protocol between calls.
* `environment`: a header without an implementation. `src/test` and the rest of `src/example`:
  trials, third-party loggers and generated code that the library does not use.
