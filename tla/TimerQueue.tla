----------------------------- MODULE TimerQueue -----------------------------
(***************************************************************************)
(* mengSen/net/TimerQueue and Timer: the timers of one EventLoop, which    *)
(* learns of due ones through a timerfd.                                   *)
(*                                                                         *)
(* Other threads add and cancel timers through runInLoop, that is, through *)
(* the loop's queue of functors, which is called in order (EventLoop); in  *)
(* the loop thread both act at once.  A timer is its sequence_ number: the *)
(* address that orders timers due at the same time is left open.  All times *)
(* are nanoseconds since the epoch, but howMuchTimeFromNow takes their     *)
(* differences as microseconds, and Timer::restart adds microseconds.      *)
(* A definition named <x>_<variant> is x with a plausible slip in it.      *)
(***************************************************************************)
EXTENDS Integers, Sequences, FiniteSets

CONSTANTS
    ShortRange,       \* 2^16: the values of uint16_t, the type of Timer's parameter when
    WideRange,        \* 2^64: the values of uint64_t
    MinDelay,         \* the 100 of howMuchTimeFromNow
    NanosPerMicro,    \* 1000
    MicrosPerSecond,  \* kMicroSecondsPerSecond
    Whens,            \* the times given to addTimer
    Intervals,        \* the intervals given to it, in seconds; 0 for a timer that runs once
    Garbage,          \* what the uninitialized nextExpire of reset may hold
    StartTimes,       \* the clock when the queue is created
    MaxTime,          \* bound: the latest time
    MaxTimers,        \* bound: calls of addTimer
    MaxCancels        \* bound: calls of cancel

ASSUME UnitsAssumption ==
    /\ ShortRange \in Nat \ {0} /\ WideRange \in Nat \ {0}
    /\ MinDelay \in Nat \ {0} /\ NanosPerMicro \in Nat \ {0} /\ MicrosPerSecond \in Nat \ {0}

ASSUME InputsAssumption ==
    /\ Whens \subseteq Nat /\ Intervals \subseteq Nat /\ Garbage \subseteq Nat
    /\ StartTimes \subseteq Nat /\ MaxTime \in Nat /\ MaxTimers \in Nat /\ MaxCancels \in Nat

VARIABLES
    clock,              \* Timestamp::now()
    place,              \* where the loop thread is
    expiration,         \* expiration_ of each timer created so far
    interval,           \* interval_ of each of them
    alive,              \* those not deleted
    timers_,            \* the list of timers: pairs of a time and a timer
    activeTimers_,      \* the timers in it
    cancelingTimers_,   \* those cancelled while callbacks are called
    now, expired, todo, \* handleRead's now, the batch, and the part of it still to be called
    requests,           \* the functors queued by other threads
    returning,          \* the timers handed to the loop by an addTimer that has not returned
    ids,                \* the timers of which somebody holds the TimerId
    alarm,              \* when the timerfd becomes readable, or Never
    armedAt,            \* when it was last armed
    armedFor,           \* the time it was armed for
    cancels,            \* calls of cancel
    cancelled           \* the timers that cancelInLoop found in the queue, or in the batch

queueVars == <<timers_, activeTimers_>>
batchVars == <<cancelingTimers_, now, expired, todo>>
alarmVars == <<alarm, armedAt, armedFor>>
idVars == <<returning, ids>>
timerVars == <<expiration, interval, alive>>
vars == <<clock, place, timerVars, queueVars, batchVars, requests, idVars, alarmVars, cancels,
          cancelled>>

Never == -1

Created == DOMAIN expiration

-----------------------------------------------------------------------------
(* The timerfd *)

\* The unsigned difference, at least MinDelay; a time that is past gives almost WideRange.
howMuchTimeFromNow(when) ==
    LET microseconds == (when - clock) % WideRange
    IN  NanosPerMicro * (IF microseconds < MinDelay THEN MinDelay ELSE microseconds)

resetTimerfd(when) ==
    /\ alarm' = clock + howMuchTimeFromNow(when)
    /\ armedAt' = clock
    /\ armedFor' = when

readable == alarm # Never /\ alarm <= clock

\* Reading resets the timerfd, unless it has been armed again since poll returned:
\* then the read fails, and handleRead goes on all the same.
readTimerfd == alarm' = IF readable THEN Never ELSE alarm

-----------------------------------------------------------------------------
(* The queue *)

\* insert's test.  The variant: only an empty list counts.
earliestChanged_if_empty(when) == timers_ = {}

earliestChanged(when) == \A e \in timers_ : when < e[1]

addTimerInLoop(timer, when) ==
    /\ timers_' = timers_ \cup {<<when, timer>>}
    /\ activeTimers_' = activeTimers_ \cup {timer}
    /\ IF earliestChanged(when) THEN resetTimerfd(when) ELSE UNCHANGED alarmVars

calling == place \in {"calling", "callback"}

\* Which of a timer in the batch cancel remembers.  The variant: none.
remembered_never(timer) == {}

remembered(timer) == IF calling THEN {timer} ELSE {}

\* Which timers cancel deletes.  The variant: one in the batch, too.
deleted_in_batch(timer) ==
    IF timer \in activeTimers_ \cup {e[2] : e \in expired} THEN {timer} ELSE {}

deleted(timer) == IF timer \in activeTimers_ THEN {timer} ELSE {}

cancelInLoop(timer) ==
    /\ timers_' = IF timer \in activeTimers_
                  THEN timers_ \ {<<expiration[timer], timer>>}
                  ELSE timers_
    /\ activeTimers_' = activeTimers_ \ {timer}
    /\ alive' = alive \ deleted(timer)
    /\ cancelingTimers_' = IF timer \in activeTimers_
                           THEN cancelingTimers_
                           ELSE cancelingTimers_ \cup remembered(timer)
    /\ cancelled' = IF timer \in activeTimers_ \cup {e[2] : e \in expired}
                    THEN cancelled \cup {timer}
                    ELSE cancelled

-----------------------------------------------------------------------------
(* addTimer and cancel *)

newTimer(when, ivl) ==
    /\ Len(expiration) < MaxTimers
    /\ expiration' = Append(expiration, when % ShortRange)
    /\ interval' = Append(interval, ivl)
    /\ alive' = alive \cup {Len(expiration) + 1}

addTimer(when, ivl) ==
    /\ newTimer(when, ivl)
    /\ requests' = Append(requests, [op |-> "add", timer |-> Len(expiration) + 1])
    /\ returning' = returning \cup {Len(expiration) + 1}
    /\ UNCHANGED <<clock, place, queueVars, batchVars, ids, alarmVars, cancels, cancelled>>

\* timer->sequence().  The memory of a timer deleted by now may hold anything: another
\* timer made at its address, or the sequence number of none.
idsRead(timer) == IF timer \in alive THEN {{timer}} ELSE {{}} \cup {{other} : other \in Created}

\* The return, which reads the timer that the loop has had since.
addReturns(timer) ==
    /\ returning' = returning \ {timer}
    /\ \E read \in idsRead(timer) : ids' = ids \cup read
    /\ UNCHANGED <<clock, place, timerVars, queueVars, batchVars, requests, alarmVars, cancels,
                   cancelled>>

\* In the loop thread: in a callback of a timer, of a channel, or in a functor.
InLoopThread == {"loop", "polled", "callback"}

addTimerFromLoop(when, ivl) ==
    /\ place \in InLoopThread
    /\ newTimer(when, ivl)
    /\ addTimerInLoop(Len(expiration) + 1, when % ShortRange)
    /\ ids' = ids \cup {Len(expiration) + 1}
    /\ UNCHANGED <<clock, place, batchVars, requests, returning, cancels, cancelled>>

cancel(timer) ==
    /\ cancels < MaxCancels
    /\ cancels' = cancels + 1
    /\ requests' = Append(requests, [op |-> "cancel", timer |-> timer])
    /\ UNCHANGED <<clock, place, timerVars, queueVars, batchVars, idVars, alarmVars, cancelled>>

cancelFromLoop(timer) ==
    /\ place \in InLoopThread
    /\ cancels < MaxCancels
    /\ cancels' = cancels + 1
    /\ cancelInLoop(timer)
    /\ UNCHANGED <<clock, place, expiration, interval, now, expired, todo, requests, idVars,
                   alarmVars>>

\* The loop calls the oldest functor queued.
callRequest ==
    /\ place = "loop" /\ requests # <<>>
    /\ requests' = Tail(requests)
    /\ LET r == Head(requests)
       IN  \/ /\ r.op = "add"
              /\ addTimerInLoop(r.timer, expiration[r.timer])
              /\ UNCHANGED <<alive, cancelingTimers_, cancelled>>
           \/ /\ r.op = "cancel"
              /\ cancelInLoop(r.timer)
              /\ UNCHANGED alarmVars
    /\ UNCHANGED <<clock, place, expiration, interval, now, expired, todo, idVars, cancels>>

-----------------------------------------------------------------------------
(* handleRead *)

\* poll finds the timerfd readable; the callbacks of other channels may come first.
pollReturns ==
    /\ place = "loop" /\ readable
    /\ place' = "polled"
    /\ UNCHANGED <<clock, timerVars, queueVars, batchVars, requests, idVars, alarmVars, cancels,
                   cancelled>>

\* The variant: the timers stay in activeTimers_.
activeAfter_all(batch) == activeTimers_

activeAfter(batch) == activeTimers_ \ {e[2] : e \in batch}

\* Up to the loop over the callbacks, with getExpired.
handleRead ==
    /\ place = "polled"
    /\ place' = "calling"
    /\ now' = clock
    /\ readTimerfd
    /\ expired' = {e \in timers_ : e[1] <= clock}
    /\ todo' = expired'
    /\ timers_' = timers_ \ expired'
    /\ activeTimers_' = activeAfter(expired')
    /\ cancelingTimers_' = {}
    /\ UNCHANGED <<clock, timerVars, requests, idVars, armedAt, armedFor, cancels, cancelled>>

run ==
    /\ place = "calling"
    /\ \E e \in todo :
          /\ \A f \in todo : e[1] <= f[1]
          /\ todo' = todo \ {e}
    /\ place' = "callback"
    /\ UNCHANGED <<clock, timerVars, queueVars, cancelingTimers_, now, expired, requests, idVars,
                   alarmVars, cancels, cancelled>>

callbackReturns ==
    /\ place = "callback"
    /\ place' = "calling"
    /\ UNCHANGED <<clock, timerVars, queueVars, batchVars, requests, idVars, alarmVars, cancels,
                   cancelled>>

restart(timer) == now + interval[timer] * MicrosPerSecond

\* The time that reset arms the timerfd for.  The variant: only a timer started
\* again counts.
nextExpire_of_batch(list, again) == {restart(timer) : timer \in again}

nextExpire(list, again) ==
    IF list = {} THEN Garbage
    ELSE {when \in {e[1] : e \in list} : \A e \in list : when <= e[1]}

reset ==
    /\ place = "calling" /\ todo = {}
    /\ LET batch == {e[2] : e \in expired}
           again == {timer \in batch : interval[timer] > 0 /\ timer \notin cancelingTimers_}
           list  == timers_ \cup {<<restart(timer), timer>> : timer \in again}
       IN  /\ expiration' = [t \in Created |-> IF t \in again THEN restart(t) ELSE expiration[t]]
           /\ timers_' = list
           /\ activeTimers_' = activeTimers_ \cup again
           /\ alive' = alive \ (batch \ again)
           /\ \/ 0 \in nextExpire(list, again) /\ UNCHANGED alarmVars
              \/ nextExpire(list, again) = {} /\ UNCHANGED alarmVars
              \/ \E when \in nextExpire(list, again) \ {0} : resetTimerfd(when)
    /\ place' = "loop"
    /\ expired' = {} /\ now' = 0
    /\ UNCHANGED <<clock, interval, cancelingTimers_, todo, requests, idVars, cancels, cancelled>>

tick ==
    /\ clock < MaxTime
    /\ clock' = clock + 1
    /\ UNCHANGED <<place, timerVars, queueVars, batchVars, requests, idVars, alarmVars, cancels,
                   cancelled>>

-----------------------------------------------------------------------------
Init ==
    /\ clock \in StartTimes /\ place = "loop"
    /\ expiration = <<>> /\ interval = <<>> /\ alive = {}
    /\ timers_ = {} /\ activeTimers_ = {} /\ cancelingTimers_ = {}
    /\ now = 0 /\ expired = {} /\ todo = {}
    /\ requests = <<>> /\ returning = {} /\ ids = {}
    /\ alarm = Never /\ armedAt = 0 /\ armedFor = 0
    /\ cancels = 0 /\ cancelled = {}

Next ==
    \/ \E when \in Whens, ivl \in Intervals : addTimer(when, ivl) \/ addTimerFromLoop(when, ivl)
    \/ \E timer \in returning : addReturns(timer)
    \/ \E timer \in ids : cancel(timer) \/ cancelFromLoop(timer)
    \/ callRequest \/ pollReturns \/ handleRead \/ run \/ callbackReturns \/ reset
    \/ tick

Spec == Init /\ [][Next]_vars

-----------------------------------------------------------------------------
(* Properties *)

Batch == {e[2] : e \in expired}

\* Types, and that no pointer of the loop dangles: the timers in the sets, in the batch
\* being called, and in the requests to add one, have not been deleted.
TypeOK ==
    /\ clock \in Nat /\ place \in {"loop", "polled", "calling", "callback"}
    /\ expiration \in Seq(Nat) /\ interval \in Seq(Nat) /\ Len(interval) = Len(expiration)
    /\ alive \subseteq Created
    /\ timers_ \subseteq Nat \X alive /\ activeTimers_ \subseteq alive
    /\ cancelingTimers_ \subseteq Created
    /\ now \in Nat /\ expired \subseteq Nat \X alive /\ todo \subseteq expired
    /\ requests \in Seq([op : {"add", "cancel"}, timer : Created])
    /\ \A i \in DOMAIN requests : requests[i].op = "add" => requests[i].timer \in alive
    /\ returning \subseteq Created /\ ids \subseteq Created
    /\ alarm \in Nat \cup {Never} /\ armedAt \in Nat /\ armedFor \in Nat
    /\ cancels \in Nat /\ cancelled \subseteq Created

\* The two sets hold the same timers, each under its expiration_: this is what the
\* asserts of cancelInLoop, getExpired and insert rely on.
SetsAgree ==
    /\ activeTimers_ = {e[2] : e \in timers_}
    /\ \A e \in timers_ \cup expired : e[1] = expiration[e[2]]
    /\ activeTimers_ \cap Batch = {}

\* A timer that was cancelled while it was in the queue, or in the batch being called,
\* be it by its own callback, is never in the queue again, and is deleted.
CancelStops ==
    /\ cancelled \cap activeTimers_ = {}
    /\ ~calling => cancelled \cap alive = {}

\* README.md:28, all times are nanoseconds: the timerfd wakes the loop no later than the
\* first timer is due, or after the least delay.
WakesInTime ==
    place = "loop" /\ timers_ # {} =>
        /\ alarm # Never
        /\ \A e \in timers_ : \/ alarm <= e[1]
                              \/ alarm <= armedAt + NanosPerMicro * MinDelay

\* TimerQueue.cpp:107-114, 202-225: while timers wait for the loop to poll, the timerfd is
\* armed, and the time it was armed for is not after any of theirs, whichever were
\* added, cancelled or started again, by whom and in whichever order.  When it fires is
\* another matter (WakesInTime).
TimersArmed ==
    place = "loop" /\ timers_ # {} =>
        alarm # Never /\ \A e \in timers_ : armedFor <= e[1]

=============================================================================
