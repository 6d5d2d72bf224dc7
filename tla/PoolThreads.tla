------------------------------ MODULE PoolThreads ------------------------------
(***************************************************************************)
(* mengSen/base/Thread and CountDownLatch, as ThreadPool uses them: start  *)
(* creates a thread and sleeps on a latch until the thread has told its    *)
(* tid, and stop joins one thread after the other.                         *)
(*                                                                         *)
(* The steps of ThreadPool are taken over; its startThread is the last     *)
(* thing that a thread does to its latch, from where on it is on its own.  *)
(* An exception ends the process and is left out.                          *)
(***************************************************************************)
EXTENDS ThreadPool

VARIABLES
    started,    \* the threads with started_
    joined,     \* the threads with joined_
    known,      \* the threads whose tid_ is set
    latch,      \* count_ of the latch of each
    ownerAt     \* the thread whose latch the owner waits for, awake or asleep

threadVars == <<started, joined, known, latch, ownerAt>>
poolVars   == <<vars, threadVars>>

Nowhere == [at |-> "none"]

-----------------------------------------------------------------------------
(* Thread::start, in the pool's owner *)

poolStarts == start /\ UNCHANGED threadVars

create(w) ==
    /\ owner = "starting" /\ ownerAt = Nowhere /\ w \notin started
    /\ started' = started \cup {w}
    /\ ownerAt' = [at |-> "latch", thread |-> w]
    /\ UNCHANGED <<vars, joined, known, latch>>

\* CountDownLatch::wait, and assert(tid_ > 0).
latchWait ==
    /\ ownerAt.at = "latch"
    /\ ownerAt' = IF latch[ownerAt.thread] > 0 THEN [ownerAt EXCEPT !.at = "asleep"] ELSE Nowhere
    /\ UNCHANGED <<vars, started, joined, known, latch>>

spuriousLatch ==
    /\ ownerAt.at = "asleep"
    /\ ownerAt' = [ownerAt EXCEPT !.at = "latch"]
    /\ UNCHANGED <<vars, started, joined, known, latch>>

allStarted ==
    /\ started = Workers /\ ownerAt = Nowhere
    /\ startReturns
    /\ UNCHANGED threadVars

-----------------------------------------------------------------------------
(* ThreadData::runInThread, in the new thread *)

tellTid(w) ==
    /\ w \in started /\ w \notin known
    /\ known' = known \cup {w}
    /\ UNCHANGED <<vars, started, joined, latch, ownerAt>>

\* The variant: the count of one wakes nobody.
wokenByCount_not(w) == ownerAt

\* notify_all, on a latch that nobody but the owner waits for.
wokenByCount(w) ==
    IF ownerAt = [at |-> "asleep", thread |-> w] THEN [ownerAt EXCEPT !.at = "latch"] ELSE ownerAt

countDown(w) ==
    /\ w \in known /\ startThread(w)
    /\ latch' = [latch EXCEPT ![w] = @ - 1]
    /\ ownerAt' = IF latch'[w] = 0 THEN wokenByCount(w) ELSE ownerAt
    /\ UNCHANGED <<started, joined, known>>

-----------------------------------------------------------------------------
(* Thread::join *)

join(w) ==
    /\ owner = "joining" /\ w \in Workers \ joined /\ pc[w] = "exit"
    /\ joined' = joined \cup {w}
    /\ UNCHANGED <<vars, started, known, latch, ownerAt>>

\* ThreadPool has the owner go on once every thread has ended.
allJoined ==
    /\ owner = "joining" /\ joined = Workers
    /\ owner' = "stopped"
    /\ UNCHANGED <<running, maxQueueSize, queue, pc, task, calls, accepted, done, threadVars>>

-----------------------------------------------------------------------------
PoolInit ==
    /\ Init
    /\ started = {} /\ joined = {} /\ known = {}
    /\ latch = [w \in Workers |-> 1]
    /\ ownerAt = Nowhere

ownerGoesOn ==
    latchWait \/ allStarted \/ allJoined \/ \E w \in Workers : create(w) \/ join(w)

poolUsed ==
    /\ \/ stop
       \/ \E w \in Workers : nestedRun(w)
       \/ \E c \in Clients : callRun(c)
       \/ \E t \in Threads : spuriousWakeup(t)
    /\ UNCHANGED threadVars

workerGoesOn(w) == tellTid(w) \/ countDown(w) \/ (workerStep(w) /\ UNCHANGED threadVars)

clientGoesOn(c) == enqueue(c) /\ UNCHANGED threadVars

PoolNext ==
    \/ poolStarts \/ ownerGoesOn \/ spuriousLatch \/ poolUsed
    \/ \E w \in Workers : workerGoesOn(w)
    \/ \E c \in Clients : clientGoesOn(c)

\* As in ThreadPool: whoever is in a function goes on.
PoolFairness ==
    /\ \A w \in Workers : WF_poolVars(workerGoesOn(w))
    /\ \A c \in Clients : WF_poolVars(clientGoesOn(c))
    /\ WF_poolVars(ownerGoesOn)

PoolSpec == PoolInit /\ [][PoolNext]_poolVars /\ PoolFairness

-----------------------------------------------------------------------------
(* Properties *)

\* Thread.cpp:148-150 and ThreadPool.cpp:49-58: ThreadPool::start returns, for no count of a
\* latch comes while its owner is about to sleep, and it returns with every thread running
\* and its tid known; stop returns, for no worker sleeps through it.
OwnerReturns ==
    /\ owner = "starting" ~> (owner = "started" /\ known = Workers)
    /\ owner = "joining" ~> owner = "stopped"

=============================================================================
