----------------------------- MODULE ThreadPool -----------------------------
(***************************************************************************)
(* mengSen/base/ThreadPool: worker threads that take tasks from a queue,   *)
(* bounded or not, guarded by mutex_ and the condition variables notEmpty_ *)
(* and notFull_.                                                           *)
(*                                                                         *)
(* A critical section is one step.  Waiting on a condition variable is a   *)
(* value of pc; notify_one sends one waiter, any of them, back to the head *)
(* of its while loop, and a waiter may also wake without being notified.   *)
(* A task is its number in the order in which run() put it in the queue;   *)
(* it returns normally, perhaps after calling run() itself.  A definition  *)
(* named <x>_<variant> is x with a plausible slip in it.                   *)
(***************************************************************************)
EXTENDS Integers, Sequences, FiniteSets

CONSTANTS
    Workers,            \* the threads start() creates
    Clients,            \* the other threads that call run()
    QueueSizes,         \* the arguments of setMaxQueueSize; 0 is no bound
    MaxCalls,           \* bound: calls of run() in a behaviour
    NestWhenBounded     \* whether tasks call run() on a pool with a bounded queue

Threads == Workers \cup Clients

ASSUME ThreadsAssumption ==
    /\ IsFiniteSet(Workers) /\ IsFiniteSet(Clients)
    /\ Workers \cap Clients = {}

ASSUME BoundsAssumption ==
    QueueSizes \subseteq Nat /\ MaxCalls \in Nat /\ NestWhenBounded \in BOOLEAN

VARIABLES
    owner,          \* where the thread that calls start() and stop() is
    running,        \* running_
    maxQueueSize,   \* maxQueueSize_
    queue,          \* queue_
    pc,             \* where each worker and client is
    task,           \* this_take of each worker; NoTask is the empty function
    calls,          \* calls of run()
    accepted,       \* tasks put in the queue so far
    done            \* tasks that have returned

vars == <<owner, running, maxQueueSize, queue, pc, task, calls, accepted, done>>

NoTask == 0
Task   == Nat \ {NoTask}

WaitingForTask == {t \in Threads : pc[t] = "notEmpty"}
WaitingForRoom == {t \in Threads : pc[t] = "notFull"}
Takers         == {t \in Threads : pc[t] = "take"}
Runners        == {t \in Threads : pc[t] = "run"}

Goto(self, label) == pc' = [pc EXCEPT ![self] = label]

\* self goes to label and one of the waiters, if there is one, goes to retry.
GotoAndNotifyOne(self, label, waiters, retry) ==
    \/ waiters = {} /\ Goto(self, label)
    \/ \E t \in waiters : pc' = [pc EXCEPT ![self] = label, ![t] = retry]

-----------------------------------------------------------------------------
(* run() *)

isFull_late == maxQueueSize > 0 /\ Len(queue) > maxQueueSize

isFull == maxQueueSize > 0 /\ Len(queue) >= maxQueueSize

\* Before start(), and after start(0), run() calls the task itself.
threads_empty == owner = "fresh" \/ Workers = {}

callRun(c) ==
    /\ pc[c] = "idle" /\ calls < MaxCalls /\ owner # "starting"
    /\ calls' = calls + 1
    /\ IF threads_empty THEN UNCHANGED pc ELSE Goto(c, "run")
    /\ UNCHANGED <<owner, running, maxQueueSize, queue, task, accepted, done>>

\* A task that calls run().
nestedRun(w) ==
    /\ pc[w] = "task" /\ calls < MaxCalls
    /\ maxQueueSize > 0 => NestWhenBounded
    /\ calls' = calls + 1
    /\ Goto(w, "run")
    /\ UNCHANGED <<owner, running, maxQueueSize, queue, task, accepted, done>>

\* Whom run() may notify.  The variants: only when the queue was empty, and nobody.
takersToWake_if_empty == IF queue = <<>> THEN WaitingForTask ELSE {}

takersToWake_none == {}

takersToWake == WaitingForTask

afterRun(t) == IF t \in Workers THEN "task" ELSE "idle"

enqueue(t) ==
    /\ pc[t] = "run"
    /\ IF isFull
       THEN Goto(t, "notFull") /\ UNCHANGED <<queue, accepted>>
       ELSE /\ accepted' = accepted + 1
            /\ queue' = Append(queue, accepted')
            /\ GotoAndNotifyOne(t, afterRun(t), takersToWake, "take")
    /\ UNCHANGED <<owner, running, maxQueueSize, task, calls, done>>

-----------------------------------------------------------------------------
(* The workers: runInThread() and take() *)

\* while (running_): running_ is a plain bool, read here without the mutex.
checkRunning(w) ==
    /\ pc[w] = "check"
    /\ Goto(w, IF running THEN "take" ELSE "exit")
    /\ UNCHANGED <<owner, running, maxQueueSize, queue, task, calls, accepted, done>>

\* Whom take() may notify.  The variant: only when the queue was full.
runnersToWake_if_full == IF isFull THEN WaitingForRoom ELSE {}

runnersToWake == IF maxQueueSize > 0 THEN WaitingForRoom ELSE {}

front_lifo == queue[Len(queue)]

front == Head(queue)

take(w) ==
    /\ pc[w] = "take"
    /\ \/ /\ queue = <<>> /\ running
          /\ Goto(w, "notEmpty")
          /\ UNCHANGED <<queue, task>>
       \/ /\ queue # <<>>
          /\ task' = [task EXCEPT ![w] = front]
          /\ queue' = Tail(queue)
          /\ GotoAndNotifyOne(w, "task", runnersToWake, "run")
       \/ /\ queue = <<>> /\ ~running
          /\ Goto(w, "check")
          /\ UNCHANGED <<queue, task>>
    /\ UNCHANGED <<owner, running, maxQueueSize, calls, accepted, done>>

taskReturns(w) ==
    /\ pc[w] = "task"
    /\ done' = done \cup {task[w]}
    /\ task' = [task EXCEPT ![w] = NoTask]
    /\ Goto(w, "check")
    /\ UNCHANGED <<owner, running, maxQueueSize, queue, calls, accepted>>

\* A condition variable may wake a waiter for no reason.
spuriousWakeup(t) ==
    /\ \/ pc[t] = "notEmpty" /\ Goto(t, "take")
       \/ pc[t] = "notFull" /\ Goto(t, "run")
    /\ UNCHANGED <<owner, running, maxQueueSize, queue, task, calls, accepted, done>>

-----------------------------------------------------------------------------
(* The owner: start() and stop() *)

start ==
    /\ owner = "fresh"
    /\ owner' = "starting" /\ running' = TRUE
    /\ UNCHANGED <<maxQueueSize, queue, pc, task, calls, accepted, done>>

startThread(w) ==
    /\ owner = "starting" /\ pc[w] = "none"
    /\ Goto(w, "check")
    /\ UNCHANGED <<owner, running, maxQueueSize, queue, task, calls, accepted, done>>

startReturns ==
    /\ owner = "starting" /\ \A w \in Workers : pc[w] # "none"
    /\ owner' = "started"
    /\ UNCHANGED <<running, maxQueueSize, queue, pc, task, calls, accepted, done>>

\* Whom stop() notifies.  The variant: one waiter only.
wokenByStop_one ==
    IF WaitingForTask = {} THEN {} ELSE {CHOOSE t \in WaitingForTask : TRUE}

wokenByStop == WaitingForTask

\* The critical section of stop(), called or from the destructor.  Threads that
\* wait for room are not notified.
stop ==
    /\ owner = "started"
    /\ owner' = "joining" /\ running' = FALSE
    /\ pc' = [t \in Threads |-> IF t \in wokenByStop THEN "take" ELSE pc[t]]
    /\ UNCHANGED <<maxQueueSize, queue, task, calls, accepted, done>>

\* Every thread is joined.
stopReturns ==
    /\ owner = "joining" /\ \A w \in Workers : pc[w] = "exit"
    /\ owner' = "stopped"
    /\ UNCHANGED <<running, maxQueueSize, queue, pc, task, calls, accepted, done>>

-----------------------------------------------------------------------------
Init ==
    /\ owner = "fresh" /\ running = FALSE
    /\ maxQueueSize \in QueueSizes
    /\ queue = <<>>
    /\ pc = [t \in Threads |-> IF t \in Workers THEN "none" ELSE "idle"]
    /\ task = [w \in Workers |-> NoTask]
    /\ calls = 0 /\ accepted = 0 /\ done = {}

workerStep(w) == checkRunning(w) \/ take(w) \/ taskReturns(w) \/ enqueue(w)

ownerStep == start \/ (\E w \in Workers : startThread(w)) \/ startReturns \/ stop \/ stopReturns

Next ==
    \/ ownerStep
    \/ \E w \in Workers : workerStep(w) \/ nestedRun(w)
    \/ \E c \in Clients : callRun(c) \/ enqueue(c)
    \/ \E t \in Threads : spuriousWakeup(t)

\* The threads are scheduled, tasks return, and start() and stop() go on once called.
\* Nobody has to call run() or stop(), and no wake-up is spurious for sure.
Fairness ==
    /\ \A w \in Workers : WF_vars(workerStep(w)) /\ WF_vars(startThread(w))
    /\ \A c \in Clients : WF_vars(enqueue(c))
    /\ WF_vars(startReturns) /\ WF_vars(stopReturns)

\* What may happen, whoever is scheduled.
Steps == Init /\ [][Next]_vars

Spec == Steps /\ Fairness

-----------------------------------------------------------------------------
(* Properties *)

Labels == {"none", "idle", "run", "notFull", "check", "take", "notEmpty", "task", "exit"}

\* Types, and the bound of the queue.
TypeOK ==
    /\ owner \in {"fresh", "starting", "started", "joining", "stopped"}
    /\ running \in BOOLEAN
    /\ maxQueueSize \in QueueSizes
    /\ queue \in Seq(Task)
    /\ maxQueueSize > 0 => Len(queue) <= maxQueueSize
    /\ pc \in [Threads -> Labels]
    /\ task \in [Workers -> Task \cup {NoTask}]
    /\ calls \in Nat /\ accepted \in Nat
    /\ done \subseteq Task

Taken == accepted - Len(queue)

\* Tasks leave the queue in the order in which they entered it, and each one taken
\* is with exactly one worker, which still runs it, or has returned.
TasksOnceInOrder ==
    /\ \A i \in 1 .. Len(queue) : queue[i] = Taken + i
    /\ \A w \in Workers : task[w] # NoTask => task[w] \in (1 .. Taken) \ done
    /\ \A v, w \in Workers : v # w /\ task[v] # NoTask => task[v] # task[w]
    /\ \A n \in 1 .. Taken : n \in done \/ \E w \in Workers : task[w] = n
    /\ done \subseteq 1 .. Taken

\* One notify_one per task is enough: while a worker sleeps on notEmpty_, as many
\* workers as there are tasks in the queue are on their way to take one.
TasksHaveTakers ==
    WaitingForTask # {} =>
        Len(queue) <= Cardinality(Takers)

\* One notify_one per task taken is enough: while a caller of run() sleeps on
\* notFull_, as many callers as there are free places are on their way to use one.
RoomHasRunners ==
    WaitingForRoom # {} =>
        maxQueueSize - Len(queue) <= Cardinality(Runners)

\* A task accepted by a pool that is not stopped is eventually executed.
TaskEventuallyRun ==
    \A n \in 1 .. MaxCalls : (\E i \in DOMAIN queue : queue[i] = n) ~> n \in done \/ ~running

=============================================================================
