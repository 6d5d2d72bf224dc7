------------------------------ MODULE EventLoop ------------------------------
(***************************************************************************)
(* mengSen/net/EventLoop: the loop of one thread around Poller::poll, and  *)
(* the functors that this thread and others hand to it.                    *)
(*                                                                         *)
(* The loop thread waits in poll for wakeupFd_, an eventfd whose counter   *)
(* wakeup() raises and handleRead() clears, or for another channel or the  *)
(* time-out.  A critical section, an access to quit_ and a system call are *)
(* a step each.  What the loop thread does to itself (push and wakeup() in *)
(* queueInLoop) is one step: the steps of other threads commute with it.   *)
(* The callbacks of other channels, and the functors, may call queueInLoop *)
(* and quit().  A functor is its number in the order of the pushes.        *)
(* A definition named <x>_<variant> is x with a plausible slip in it.      *)
(***************************************************************************)
EXTENDS Integers, Sequences, FiniteSets

CONSTANTS
    Others,     \* the threads, other than the loop's, that use the loop
    MaxCalls,   \* bound: calls of queueInLoop and quit in a behaviour
    MaxLoops    \* bound: calls of loop() in a behaviour

ASSUME BoundsAssumption == MaxCalls \in Nat /\ MaxLoops \in Nat

LoopThread == "loop thread"

ASSUME OthersAssumption == LoopThread \notin Others

VARIABLES
    place,      \* where the loop thread is
    quit_,      \* quit_
    calling,    \* callingPendingFunctors_
    pending,    \* pendingFunctors_
    functors,   \* the vector of doPendingFunctors: what it has still to call
    eventfd,    \* the counter of wakeupFd_
    active,     \* whether wakeupChannel_ has still to be handled in this iteration
    pc,         \* what each other thread is in the middle of
    calls,      \* calls of queueInLoop and quit
    loops,      \* calls of loop()
    pushed,     \* functors pushed
    ran,        \* functors that have returned, in this order
    quiet       \* functors the loop thread queued while it was not in loop()

vars == <<place, quit_, calling, pending, functors, eventfd, active, pc, calls,
          loops, pushed, ran, quiet>>

queueVars == <<pending, pushed, quiet>>
loopVars == <<place, calling, functors, active, loops, ran>>

-----------------------------------------------------------------------------
(* queueInLoop() and quit() *)

\* Who pushes must also wake the loop.  The variants: only other threads do, and
\* only when no functor is being called.
mustWake_others_only(t) == t \in Others

mustWake_idle_only(t) == t \in Others /\ ~calling

mustWake(t) == t \in Others \/ calling

push(t) ==
    /\ calls < MaxCalls
    /\ calls' = calls + 1
    /\ pushed' = pushed + 1
    /\ pending' = Append(pending, pushed')

queueInLoop(t) ==
    /\ pc[t] = "idle"
    /\ push(t)
    /\ pc' = [pc EXCEPT ![t] = IF mustWake(t) THEN "wakeup" ELSE "idle"]
    /\ UNCHANGED <<loopVars, quit_, eventfd, quiet>>

\* The loop thread runs user code here.
InUserCode == place \in {"outside", "handle"} \/ (place = "run" /\ functors # <<>>)

queueInOwnLoop ==
    /\ InUserCode
    /\ push(LoopThread)
    /\ eventfd' = IF mustWake(LoopThread) THEN eventfd + 1 ELSE eventfd
    /\ quiet' = IF place = "outside" THEN quiet \cup {pushed'} ELSE quiet
    /\ UNCHANGED <<loopVars, quit_, pc>>

afterQuit_no_wakeup == "idle"

afterQuit == "wakeup"

quit(t) ==
    /\ pc[t] = "idle" /\ calls < MaxCalls
    /\ calls' = calls + 1
    /\ quit_' = TRUE
    /\ pc' = [pc EXCEPT ![t] = afterQuit]
    /\ UNCHANGED <<loopVars, queueVars, eventfd>>

quitOwnLoop ==
    /\ InUserCode /\ calls < MaxCalls
    /\ calls' = calls + 1
    /\ quit_' = TRUE
    /\ UNCHANGED <<loopVars, queueVars, eventfd, pc>>

wakeup(t) ==
    /\ pc[t] = "wakeup"
    /\ pc' = [pc EXCEPT ![t] = "idle"]
    /\ eventfd' = eventfd + 1
    /\ UNCHANGED <<loopVars, queueVars, quit_, calls>>

-----------------------------------------------------------------------------
(* loop() *)

loop ==
    /\ place = "outside" /\ loops < MaxLoops
    /\ loops' = loops + 1
    /\ place' = "enter"
    /\ UNCHANGED <<queueVars, quit_, calling, functors, eventfd, active, pc, calls, ran>>

\* A quit() that came before this is forgotten.
resetQuit ==
    /\ place = "enter"
    /\ quit_' = FALSE
    /\ place' = "test"
    /\ UNCHANGED <<queueVars, calling, functors, eventfd, active, pc, calls, loops, ran>>

testQuit ==
    /\ place = "test"
    /\ place' = IF quit_ THEN "outside" ELSE "poll"
    /\ UNCHANGED <<queueVars, quit_, calling, functors, eventfd, active, pc, calls, loops, ran>>

\* poll returns with wakeupChannel_ among the active channels.
pollReturns ==
    /\ place = "poll" /\ eventfd > 0
    /\ place' = "handle"
    /\ active' = TRUE
    /\ UNCHANGED <<queueVars, quit_, calling, functors, eventfd, pc, calls, loops, ran>>

\* poll returns for another channel only, or because of its time-out.
pollReturnsOtherwise ==
    /\ place = "poll" /\ eventfd = 0
    /\ place' = "handle"
    /\ UNCHANGED <<queueVars, quit_, calling, functors, eventfd, active, pc, calls, loops, ran>>

handleRead ==
    /\ place = "handle" /\ active
    /\ active' = FALSE
    /\ eventfd' = 0
    /\ UNCHANGED <<queueVars, place, quit_, calling, functors, pc, calls, loops, ran>>

\* Whether the handlers of this iteration are done.  The variant: not waited for.
handled_any == TRUE

handled == ~active

\* Every active channel is handled: doPendingFunctors begins.
handlersReturn ==
    /\ place = "handle" /\ handled
    /\ place' = "swap"
    /\ calling' = TRUE
    /\ UNCHANGED <<queueVars, quit_, functors, eventfd, active, pc, calls, loops, ran>>

\* The critical section of doPendingFunctors.
swap ==
    /\ place = "swap"
    /\ functors' = pending
    /\ pending' = <<>>
    /\ place' = "run"
    /\ UNCHANGED <<quit_, calling, eventfd, active, pc, calls, loops, pushed, ran, quiet>>

\* Which functor is called next, and what is left.  The variant: as from a stack.
next_lifo == <<functors[Len(functors)], SubSeq(functors, 1, Len(functors) - 1)>>

next == <<Head(functors), Tail(functors)>>

functorReturns ==
    /\ place = "run" /\ functors # <<>>
    /\ ran' = Append(ran, next[1])
    /\ functors' = next[2]
    /\ UNCHANGED <<queueVars, place, quit_, calling, eventfd, active, pc, calls, loops>>

\* doPendingFunctors ends.
batchEnds ==
    /\ place = "run" /\ functors = <<>>
    /\ place' = "test"
    /\ calling' = FALSE
    /\ UNCHANGED <<queueVars, quit_, functors, eventfd, active, pc, calls, loops, ran>>

-----------------------------------------------------------------------------
Init ==
    /\ place = "outside" /\ quit_ = FALSE /\ calling = FALSE
    /\ pending = <<>> /\ functors = <<>>
    /\ eventfd = 0 /\ active = FALSE
    /\ pc = [t \in Others |-> "idle"]
    /\ calls = 0 /\ loops = 0 /\ pushed = 0 /\ ran = <<>> /\ quiet = {}

\* What the loop thread does of itself once loop() is called.
loopStep ==
    \/ resetQuit \/ testQuit \/ pollReturns \/ handleRead \/ handlersReturn
    \/ swap \/ functorReturns \/ batchEnds

Next ==
    \/ loopStep \/ loop \/ pollReturnsOtherwise \/ queueInOwnLoop \/ quitOwnLoop
    \/ \E t \in Others : queueInLoop(t) \/ quit(t) \/ wakeup(t)

\* The loop thread and a thread about to write to the eventfd are scheduled, and
\* functors return.  Nothing is asked of the time-out of poll or of other channels.
Fairness == WF_vars(loopStep) /\ \A t \in Others : WF_vars(wakeup(t))

Spec == Init /\ [][Next]_vars /\ Fairness

-----------------------------------------------------------------------------
(* Properties *)

\* Types, and that handleRead never finds the counter at zero: it is called only when
\* wakeup() has been, and nobody else reads.
TypeOK ==
    /\ place \in {"outside", "enter", "test", "poll", "handle", "swap", "run"}
    /\ quit_ \in BOOLEAN /\ calling \in BOOLEAN /\ active \in BOOLEAN
    /\ pending \in Seq(Nat) /\ functors \in Seq(Nat) /\ ran \in Seq(Nat)
    /\ eventfd \in Nat
    /\ active => place = "handle" /\ eventfd > 0
    /\ pc \in [Others -> {"idle", "wakeup"}]
    /\ calls \in Nat /\ loops \in Nat /\ pushed \in Nat
    /\ quiet \subseteq Nat

\* Functors are called once each and in the order in which they were queued, whatever
\* is queued, from any thread, while others are called.
FunctorsInOrder ==
    LET all == ran \o functors \o pending
    IN  Len(all) = pushed /\ \A n \in 1 .. pushed : all[n] = n

WakeupComing == eventfd > 0 \/ \E t \in Others : pc[t] = "wakeup"

\* The loop never sleeps in poll over a queued functor: the counter is raised, or a
\* thread is about to raise it.  Not so for a functor that the loop thread queued
\* before it called loop(): that one may wait for the time-out of poll.
NoSleepOverWork ==
    place = "poll" => WakeupComing \/ \A i \in DOMAIN pending : pending[i] \in quiet

\* A queued functor is called, without help of the time-out, unless loop() returns.
FunctorsRun ==
    \A n \in 1 .. MaxCalls :
        (\E i \in DOMAIN pending : pending[i] = n /\ n \notin quiet) /\ place # "outside"
            ~> place = "outside" \/ \E i \in DOMAIN ran : ran[i] = n

\* quit() ends loop(), without help of the time-out, if loop() has reset quit_ already.
QuitEndsLoop == quit_ /\ place \notin {"outside", "enter"} ~> place = "outside"

=============================================================================
