----------------------------- MODULE BaseProofs ------------------------------
(***************************************************************************)
(* Theorems about mengSen/base: the pool, the log in files, dates and      *)
(* times.                                                                  *)
(*                                                                         *)
(* ThreadPool is for any finite sets of workers and clients, any queue     *)
(* bound, and tasks that do or do not call run() themselves.  The theorems *)
(* are about Steps, without fairness, and so hold of Spec, and of the pool *)
(* with its threads (PoolThreads), which is shown to take only such steps. *)
(*                                                                         *)
(* LogFile is for any limits, lengths and times.                           *)
(*                                                                         *)
(* Times: the formulas of Date and TimeZone are the Gregorian calendar for *)
(* every day of the walk, however long, and the zone files may hold any    *)
(* number of transitions.                                                  *)
(*                                                                         *)
(* Numbers: the texts are right for every integer.                         *)
(***************************************************************************)
EXTENDS PoolThreads, LogFile, Times, Numbers, DataLemmas

\* A worker holds a task exactly while it executes one, perhaps inside a nested
\* run(); clients only call run().
WhereTasksAre ==
    /\ \A w \in Workers :
          /\ pc[w] # "idle"
          /\ task[w] # NoTask <=> pc[w] \in {"task", "run", "notFull"}
    /\ \A c \in Clients : pc[c] \in {"idle", "run", "notFull"}
    /\ owner = "fresh" => queue = <<>> /\ \A t \in Threads : pc[t] \in {"none", "idle"}
    /\ Len(queue) <= accepted

PoolInv == TypeOK /\ WhereTasksAre

-----------------------------------------------------------------------------
LEMMA Goto_type ==
    ASSUME pc \in [Threads -> Labels], NEW self \in Threads, NEW label \in Labels,
           Goto(self, label)
    PROVE  /\ pc' \in [Threads -> Labels] /\ pc'[self] = label
           /\ \A t \in Threads : t # self => pc'[t] = pc[t]
BY DEF Goto

\* What a notification does to the program counters.
LEMMA Notify_effect ==
    ASSUME pc \in [Threads -> Labels], NEW self \in Threads, NEW label \in Labels,
           NEW waiters, waiters \subseteq Threads, self \notin waiters, NEW retry \in Labels,
           GotoAndNotifyOne(self, label, waiters, retry)
    PROVE  /\ pc' \in [Threads -> Labels] /\ pc'[self] = label
           /\ \/ waiters = {} /\ \A t \in Threads : t # self => pc'[t] = pc[t]
              \/ \E n \in waiters : /\ pc'[n] = retry
                                    /\ \A t \in Threads : t \notin {self, n} => pc'[t] = pc[t]
<1>1. CASE waiters = {} /\ Goto(self, label)
  BY <1>1 DEF Goto
<1>2. CASE \E t \in waiters : pc' = [pc EXCEPT ![self] = label, ![t] = retry]
  <2>1. PICK n \in waiters : pc' = [pc EXCEPT ![self] = label, ![n] = retry]
    BY <1>2
  <2>2. n \in Threads /\ n # self
    OBVIOUS
  <2>3. /\ pc' \in [Threads -> Labels] /\ pc'[self] = label /\ pc'[n] = retry
        /\ \A t \in Threads : t \notin {self, n} => pc'[t] = pc[t]
    BY <2>1, <2>2
  <2>4. QED BY <2>3
<1>3. QED BY <1>1, <1>2 DEF GotoAndNotifyOne

LEMMA InitPoolInv == Init => PoolInv
<1> SUFFICES ASSUME Init PROVE PoolInv
  OBVIOUS
<1>1. /\ queue = <<>> /\ queue \in Seq(Task) /\ Len(queue) = 0 /\ done = {}
      /\ maxQueueSize \in QueueSizes /\ calls = 0 /\ accepted = 0
      /\ owner = "fresh" /\ running = FALSE
  BY DEF Init
<1>2. pc \in [Threads -> Labels] /\ task \in [Workers -> Task \cup {NoTask}]
  BY DEF Init, Labels, NoTask
<1>. maxQueueSize \in Nat /\ (maxQueueSize > 0 => Len(queue) <= maxQueueSize)
  BY <1>1, BoundsAssumption
<1>. done \subseteq Task /\ calls \in Nat /\ accepted \in Nat /\ running \in BOOLEAN
  BY <1>1
<1>3. TypeOK
  BY <1>1, <1>2 DEF TypeOK
<1>4. WhereTasksAre
  BY <1>1, ThreadsAssumption DEF Init, WhereTasksAre, Threads, NoTask
<1>5. QED BY <1>3, <1>4 DEF PoolInv

LEMMA EnqueueKeeps ==
    ASSUME PoolInv, NEW t \in Threads, enqueue(t)
    PROVE  PoolInv'
<1> USE DEF PoolInv
<1>1. afterRun(t) \in Labels /\ "take" \in Labels /\ "notFull" \in Labels
  BY DEF afterRun, Labels
<1>2. CASE isFull
  <2>1. /\ pc' \in [Threads -> Labels] /\ pc'[t] = "notFull" /\ pc[t] = "run"
        /\ \A u \in Threads : u # t => pc'[u] = pc[u]
    BY <1>1, <1>2, Goto_type DEF enqueue, TypeOK
  <2>2. UNCHANGED <<owner, running, maxQueueSize, queue, task, calls, accepted, done>>
    BY <1>2 DEF enqueue
  <2>3. TypeOK'
    BY <2>1, <2>2 DEF TypeOK
  <2>4. WhereTasksAre'
    BY <2>1, <2>2 DEF WhereTasksAre, Threads
  <2>5. QED BY <2>3, <2>4
<1>3. CASE ~isFull
  <2>1. /\ accepted' = accepted + 1 /\ queue' = Append(queue, accepted + 1)
        /\ UNCHANGED <<owner, running, maxQueueSize, task, calls, done>>
        /\ pc[t] = "run"
    BY <1>3 DEF enqueue
  <2>2. /\ pc' \in [Threads -> Labels] /\ pc'[t] = afterRun(t)
        /\ \A u \in Threads : u # t => pc'[u] = pc[u] \/ (pc[u] = "notEmpty" /\ pc'[u] = "take")
    <3>1. t \notin takersToWake /\ takersToWake \subseteq Threads
      BY <2>1 DEF takersToWake, WaitingForTask
    <3>2. GotoAndNotifyOne(t, afterRun(t), takersToWake, "take")
      BY <1>3 DEF enqueue
    <3>3. \A n \in takersToWake : pc[n] = "notEmpty"
      BY DEF takersToWake, WaitingForTask
    <3>4. QED BY <1>1, <3>1, <3>2, <3>3, Notify_effect DEF TypeOK
  <2>3. /\ queue' \in Seq(Task) /\ Len(queue') = Len(queue) + 1 /\ Len(queue) \in Nat
        /\ accepted' \in Nat
    <3>1. accepted + 1 \in Task
      BY DEF TypeOK, Task, NoTask
    <3>2. QED BY <2>1, <3>1, AppendProperties DEF TypeOK
  <2>4. TypeOK'
    BY <1>3, <2>1, <2>2, <2>3, BoundsAssumption DEF TypeOK, isFull
  <2>5. owner # "fresh"
    BY <2>1 DEF WhereTasksAre
  <2>6. WhereTasksAre'
    BY <2>1, <2>2, <2>3, <2>5, ThreadsAssumption, SMTT(30) DEF WhereTasksAre, Threads, afterRun, TypeOK
  <2>7. QED BY <2>4, <2>6
<1>4. QED BY <1>2, <1>3

LEMMA TakeKeeps ==
    ASSUME PoolInv, NEW w \in Workers, take(w)
    PROVE  PoolInv'
<1> USE DEF PoolInv
<1>1. {"take", "notEmpty", "task", "check", "run"} \subseteq Labels /\ w \in Threads
  BY DEF Labels, Threads
<1>2. UNCHANGED <<owner, running, maxQueueSize, calls, accepted, done>> /\ pc[w] = "take"
  BY DEF take
<1>3. CASE queue = <<>>
  <2>1. PICK label \in {"notEmpty", "check"} : Goto(w, label)
    BY <1>3 DEF take
  <2>2. /\ pc' \in [Threads -> Labels] /\ pc'[w] \in {"notEmpty", "check"}
        /\ \A u \in Threads : u # w => pc'[u] = pc[u]
    BY <1>1, <2>1, Goto_type DEF TypeOK
  <2>3. UNCHANGED <<queue, task>>
    BY <1>3 DEF take
  <2>4. TypeOK'
    BY <1>2, <2>2, <2>3 DEF TypeOK
  <2>5. WhereTasksAre'
    BY <1>1, <1>2, <2>2, <2>3, ThreadsAssumption DEF WhereTasksAre, Threads
  <2>6. QED BY <2>4, <2>5
<1>4. CASE queue # <<>>
  <2>1. task' = [task EXCEPT ![w] = Head(queue)] /\ queue' = Tail(queue)
    BY <1>4 DEF take, front
  <2>2. /\ pc' \in [Threads -> Labels] /\ pc'[w] = "task"
        /\ \A u \in Threads : u # w => pc'[u] = pc[u] \/ (pc[u] = "notFull" /\ pc'[u] = "run")
    <3>1. w \notin runnersToWake /\ runnersToWake \subseteq Threads
      BY <1>2 DEF runnersToWake, WaitingForRoom
    <3>2. GotoAndNotifyOne(w, "task", runnersToWake, "run")
      BY <1>4 DEF take
    <3>3. \A n \in runnersToWake : pc[n] = "notFull"
      BY DEF runnersToWake, WaitingForRoom
    <3>4. QED BY <1>1, <3>1, <3>2, <3>3, Notify_effect DEF TypeOK
  <2>3. /\ Head(queue) \in Task /\ queue' \in Seq(Task) /\ Len(queue') = Len(queue) - 1
        /\ Len(queue) \in Nat
    BY <1>4, <2>1, HeadTailProperties DEF TypeOK
  <2>4. TypeOK'
    BY <1>2, <2>1, <2>2, <2>3, BoundsAssumption DEF TypeOK
  <2>5. \A v \in Workers : /\ pc'[v] # "idle"
                           /\ task'[v] # NoTask <=> pc'[v] \in {"task", "run", "notFull"}
    <3>1. task'[w] # NoTask /\ \A v \in Workers : v # w => task'[v] = task[v]
      BY <2>1, <2>3 DEF TypeOK, Task
    <3>2. QED BY <2>2, <3>1 DEF WhereTasksAre, Threads
  <2>6. \A c \in Clients : pc'[c] \in {"idle", "run", "notFull"}
    BY <1>1, <2>2, ThreadsAssumption DEF WhereTasksAre, Threads
  <2>7. owner' # "fresh"
    BY <1>1, <1>2 DEF WhereTasksAre
  <2>8. Len(queue') <= accepted'
    BY <1>2, <2>3 DEF WhereTasksAre, TypeOK
  <2>9. WhereTasksAre'
    BY <2>5, <2>6, <2>7, <2>8 DEF WhereTasksAre
  <2>10. QED BY <2>4, <2>9
<1>5. QED BY <1>3, <1>4

LEMMA WorkerStepsKeep ==
    ASSUME PoolInv, NEW w \in Workers, checkRunning(w) \/ taskReturns(w) \/ nestedRun(w)
    PROVE  PoolInv'
<1> USE DEF PoolInv
<1>1. w \in Threads /\ {"take", "exit", "check", "run"} \subseteq Labels
  BY DEF Threads, Labels
<1>2. CASE checkRunning(w) \/ nestedRun(w)
  <2>1. PICK label \in {"take", "exit", "run"} :
          /\ Goto(w, label)
          /\ label = "run" <=> pc[w] = "task"
          /\ pc[w] \in {"check", "task"}
    BY <1>2 DEF checkRunning, nestedRun
  <2>2. /\ pc' \in [Threads -> Labels] /\ pc'[w] = label
        /\ \A u \in Threads : u # w => pc'[u] = pc[u]
    BY <1>1, <2>1, Goto_type DEF TypeOK
  <2>3. /\ UNCHANGED <<owner, running, maxQueueSize, queue, task, accepted, done>>
        /\ calls' \in Nat
    BY <1>2 DEF checkRunning, nestedRun, TypeOK
  <2>4. TypeOK'
    BY <2>2, <2>3 DEF TypeOK
  <2>5. WhereTasksAre'
    BY <1>1, <2>1, <2>2, <2>3, ThreadsAssumption DEF WhereTasksAre, Threads
  <2>6. QED BY <2>4, <2>5
<1>3. CASE taskReturns(w)
  <2>1. /\ pc' \in [Threads -> Labels] /\ pc'[w] = "check" /\ pc[w] = "task"
        /\ \A u \in Threads : u # w => pc'[u] = pc[u]
    BY <1>1, <1>3, Goto_type DEF TypeOK, taskReturns
  <2>2. /\ UNCHANGED <<owner, running, maxQueueSize, queue, calls, accepted>>
        /\ done' = done \cup {task[w]} /\ task' = [task EXCEPT ![w] = NoTask]
    BY <1>3 DEF taskReturns
  <2>3. task[w] \in Task
    BY <2>1 DEF TypeOK, WhereTasksAre
  <2>4. TypeOK'
    BY <2>1, <2>2, <2>3 DEF TypeOK
  <2>5. /\ task'[w] = NoTask /\ \A v \in Workers : v # w => task'[v] = task[v]
    BY <2>2 DEF TypeOK
  <2>6. WhereTasksAre'
    BY <1>1, <2>1, <2>2, <2>5, ThreadsAssumption DEF WhereTasksAre, Threads
  <2>7. QED BY <2>4, <2>6
<1>4. QED BY <1>2, <1>3

LEMMA OtherStepsKeep ==
    ASSUME PoolInv,
           ownerStep \/ (\E c \in Clients : callRun(c)) \/ (\E t \in Threads : spuriousWakeup(t))
    PROVE  PoolInv'
<1> USE DEF PoolInv
<1>0. {"none", "idle", "run", "check", "take"} \subseteq Labels
  BY DEF Labels
<1>1. CASE start
  BY <1>1 DEF start, TypeOK, WhereTasksAre
<1>2. ASSUME NEW w \in Workers, startThread(w) PROVE PoolInv'
  <2>1. /\ pc' \in [Threads -> Labels] /\ pc'[w] = "check" /\ pc[w] = "none"
        /\ \A u \in Threads : u # w => pc'[u] = pc[u]
    BY <1>0, <1>2, Goto_type DEF TypeOK, startThread, Threads
  <2>2. /\ UNCHANGED <<owner, running, maxQueueSize, queue, task, calls, accepted, done>>
        /\ owner = "starting"
    BY <1>2 DEF startThread
  <2>3. TypeOK'
    BY <2>1, <2>2 DEF TypeOK
  <2>4. WhereTasksAre'
    BY <2>1, <2>2, ThreadsAssumption DEF WhereTasksAre, Threads
  <2>5. QED BY <2>3, <2>4
<1>3. CASE startReturns \/ stopReturns
  BY <1>3 DEF startReturns, stopReturns, TypeOK, WhereTasksAre
<1>4. CASE stop
  <2>1. /\ pc' \in [Threads -> Labels]
        /\ \A u \in Threads : pc'[u] = pc[u] \/ (pc[u] = "notEmpty" /\ pc'[u] = "take")
    BY <1>0, <1>4 DEF stop, wokenByStop, WaitingForTask, TypeOK
  <2>2. /\ UNCHANGED <<maxQueueSize, queue, task, calls, accepted, done>>
        /\ owner' = "joining" /\ running' = FALSE
    BY <1>4 DEF stop
  <2>3. TypeOK'
    BY <2>1, <2>2 DEF TypeOK
  <2>4. WhereTasksAre'
    BY <2>1, <2>2, ThreadsAssumption DEF WhereTasksAre, Threads
  <2>5. QED BY <2>3, <2>4
<1>5. ASSUME NEW c \in Clients, callRun(c) PROVE PoolInv'
  <2>1. /\ UNCHANGED <<owner, running, maxQueueSize, queue, task, accepted, done>>
        /\ calls' \in Nat /\ pc[c] = "idle" /\ c \in Threads
    BY <1>5 DEF callRun, TypeOK, Threads
  <2>2. CASE threads_empty
    BY <1>5, <2>1, <2>2 DEF callRun, TypeOK, WhereTasksAre
  <2>3. CASE ~threads_empty
    <3>1. /\ pc' \in [Threads -> Labels] /\ pc'[c] = "run"
          /\ \A u \in Threads : u # c => pc'[u] = pc[u]
      BY <1>0, <1>5, <2>1, <2>3, Goto_type DEF TypeOK, callRun
    <3>2. TypeOK'
      BY <2>1, <3>1 DEF TypeOK
    <3>3. WhereTasksAre'
      BY <2>1, <2>3, <3>1, ThreadsAssumption DEF WhereTasksAre, Threads, threads_empty
    <3>4. QED BY <3>2, <3>3
  <2>4. QED BY <2>2, <2>3
<1>6. ASSUME NEW t \in Threads, spuriousWakeup(t) PROVE PoolInv'
  <2>1. UNCHANGED <<owner, running, maxQueueSize, queue, task, calls, accepted, done>>
    BY <1>6 DEF spuriousWakeup
  <2>2. /\ pc' \in [Threads -> Labels]
        /\ \/ pc[t] = "notEmpty" /\ pc'[t] = "take"
           \/ pc[t] = "notFull" /\ pc'[t] = "run"
        /\ \A u \in Threads : u # t => pc'[u] = pc[u]
    BY <1>0, <1>6, Goto_type DEF TypeOK, spuriousWakeup
  <2>3. TypeOK'
    BY <2>1, <2>2 DEF TypeOK
  <2>4. WhereTasksAre'
    BY <2>1, <2>2, ThreadsAssumption DEF WhereTasksAre, Threads
  <2>5. QED BY <2>3, <2>4
<1>7. QED BY <1>1, <1>2, <1>3, <1>4, <1>5, <1>6 DEF ownerStep

LEMMA NextKeepsPoolInv == PoolInv /\ [Next]_vars => PoolInv'
<1> SUFFICES ASSUME PoolInv, [Next]_vars PROVE PoolInv'
  OBVIOUS
<1>1. CASE UNCHANGED vars
  BY <1>1 DEF vars, PoolInv, TypeOK, WhereTasksAre
<1>2. CASE Next
  <2>1. Workers \subseteq Threads /\ Clients \subseteq Threads
    BY DEF Threads
  <2>2. QED
    BY <1>2, <2>1, OtherStepsKeep, WorkerStepsKeep, TakeKeeps, EnqueueKeeps
       DEF Next, workerStep
<1>3. QED BY <1>1, <1>2

\* PoolInv is inductive.
THEOREM PoolInvariant == Steps => []PoolInv
BY InitPoolInv, NextKeepsPoolInv, PTL DEF Steps

\* Types, and the queue never exceeds the bound given to setMaxQueueSize.
THEOREM TypeCorrect == Steps => []TypeOK
<1>1. PoolInv => TypeOK
  BY DEF PoolInv
<1>2. QED BY <1>1, PoolInvariant, PTL

-----------------------------------------------------------------------------
(* First in, first out, and exactly once *)

LEMMA EnqueueInOrder ==
    ASSUME PoolInv, TasksOnceInOrder, NEW t \in Threads, enqueue(t)
    PROVE  TasksOnceInOrder'
<1> USE DEF PoolInv
<1>1. CASE isFull
  BY <1>1 DEF enqueue, TasksOnceInOrder, Taken
<1>2. CASE ~isFull
  <2>1. /\ accepted' = accepted + 1 /\ queue' = Append(queue, accepted + 1)
        /\ UNCHANGED <<task, done>>
    BY <1>2 DEF enqueue
  <2>2. /\ Len(queue') = Len(queue) + 1 /\ Len(queue) \in Nat
        /\ \A i \in 1 .. Len(queue) : queue'[i] = queue[i]
        /\ queue'[Len(queue) + 1] = accepted + 1
    BY <2>1, AppendProperties DEF TypeOK, Task, NoTask
  <2>3. Taken' = Taken
    BY <2>1, <2>2 DEF Taken, TypeOK
  <2>4. \A i \in 1 .. Len(queue') : queue'[i] = Taken + i
    <3>1. accepted + 1 = Taken + (Len(queue) + 1)
      BY <2>2 DEF Taken, TypeOK
    <3>2. \A i \in 1 .. Len(queue') : i = Len(queue) + 1 \/ i \in 1 .. Len(queue)
      BY <2>2
    <3>3. QED BY <2>2, <3>1, <3>2 DEF TasksOnceInOrder
  <2>5. QED BY <2>1, <2>3, <2>4 DEF TasksOnceInOrder
<1>3. QED BY <1>1, <1>2

LEMMA TakeInOrder ==
    ASSUME PoolInv, TasksOnceInOrder, NEW w \in Workers, take(w)
    PROVE  TasksOnceInOrder'
<1> USE DEF PoolInv
<1>1. CASE queue = <<>>
  BY <1>1 DEF take, TasksOnceInOrder, Taken
<1>2. CASE queue # <<>>
  <2>1. /\ task' = [task EXCEPT ![w] = Head(queue)] /\ queue' = Tail(queue)
        /\ UNCHANGED <<accepted, done>> /\ pc[w] = "take"
    BY <1>2 DEF take, front
  <2>2. /\ Len(queue') = Len(queue) - 1 /\ Len(queue) \in Nat \ {0}
        /\ \A i \in 1 .. Len(queue') : queue'[i] = queue[i + 1]
        /\ Head(queue) = queue[1]
    BY <1>2, <2>1, HeadTailProperties, EmptySeq DEF TypeOK
  <2>3. Taken \in Nat /\ Taken' = Taken + 1 /\ Head(queue) = Taken + 1
    BY <2>1, <2>2 DEF Taken, TypeOK, TasksOnceInOrder, WhereTasksAre
  <2>4. \A i \in 1 .. Len(queue') : queue'[i] = Taken' + i
    <3>1. \A i \in 1 .. Len(queue') : i + 1 \in 1 .. Len(queue) /\ queue'[i] = Taken + (i + 1)
      BY <2>2 DEF TasksOnceInOrder
    <3>2. QED BY <2>2, <2>3, <3>1
  <2>5. /\ task[w] = NoTask /\ task'[w] = Taken + 1
        /\ \A v \in Workers : v # w => task'[v] = task[v]
    BY <2>1, <2>3 DEF TypeOK, WhereTasksAre
  <2>6. 1 .. Taken' = (1 .. Taken) \cup {Taken + 1} /\ Taken + 1 \notin 1 .. Taken
    BY <2>3
  <2>7. \A v \in Workers : task'[v] # NoTask => task'[v] \in (1 .. Taken') \ done'
    BY <2>1, <2>5, <2>6 DEF TasksOnceInOrder
  <2>8. \A u, v \in Workers : u # v /\ task'[u] # NoTask => task'[u] # task'[v]
    <3>1. \A v \in Workers : v # w => task'[v] # Taken + 1
      BY <2>3, <2>5, <2>6 DEF TasksOnceInOrder, NoTask
    <3>2. QED BY <2>5, <3>1 DEF TasksOnceInOrder
  <2>9. \A n \in 1 .. Taken' : n \in done' \/ \E v \in Workers : task'[v] = n
    <3>1. \A n \in 1 .. Taken : n # NoTask
      BY <2>3 DEF NoTask
    <3>2. QED BY <2>1, <2>5, <2>6, <3>1 DEF TasksOnceInOrder
  <2>10. done' \subseteq 1 .. Taken'
    BY <2>1, <2>6 DEF TasksOnceInOrder
  <2>11. QED BY <2>4, <2>7, <2>8, <2>9, <2>10 DEF TasksOnceInOrder
<1>3. QED BY <1>1, <1>2

LEMMA ReturnInOrder ==
    ASSUME PoolInv, TasksOnceInOrder, NEW w \in Workers, taskReturns(w)
    PROVE  TasksOnceInOrder'
<1> USE DEF PoolInv
<1>1. /\ done' = done \cup {task[w]} /\ pc[w] = "task"
      /\ task'[w] = NoTask /\ \A v \in Workers : v # w => task'[v] = task[v]
      /\ UNCHANGED <<queue, accepted>>
  BY DEF taskReturns, TypeOK
<1>2. task[w] # NoTask
  BY <1>1 DEF WhereTasksAre
<1>3. Taken' = Taken
  BY <1>1 DEF Taken
<1>4. \A v \in Workers : task'[v] # NoTask => v # w /\ task'[v] = task[v]
  BY <1>1
<1>5. \A v \in Workers : task'[v] # NoTask => task'[v] \in (1 .. Taken) \ done'
  BY <1>1, <1>2, <1>4 DEF TasksOnceInOrder
<1>6. \A u, v \in Workers : u # v /\ task'[u] # NoTask => task'[u] # task'[v]
  BY <1>1, <1>4 DEF TasksOnceInOrder
<1>7. \A n \in 1 .. Taken : n \in done' \/ \E v \in Workers : task'[v] = n
  BY <1>1 DEF TasksOnceInOrder
<1>8. done' \subseteq 1 .. Taken
  BY <1>1, <1>2 DEF TasksOnceInOrder
<1>9. QED BY <1>1, <1>3, <1>5, <1>6, <1>7, <1>8 DEF TasksOnceInOrder

\* Tasks are executed in the order of the calls of run(), each by one worker, once.
THEOREM TasksExecutedOnceInOrder == Steps => []TasksOnceInOrder
<1>1. Init => TasksOnceInOrder
  BY DEF Init, TasksOnceInOrder, Taken, NoTask
<1>2. PoolInv /\ TasksOnceInOrder /\ [Next]_vars => TasksOnceInOrder'
  <2> SUFFICES ASSUME PoolInv, TasksOnceInOrder, [Next]_vars PROVE TasksOnceInOrder'
    OBVIOUS
  <2>1. CASE UNCHANGED <<queue, task, done, accepted>>
    BY <2>1 DEF TasksOnceInOrder, Taken
  <2>2. ASSUME NEW t \in Threads, enqueue(t) PROVE TasksOnceInOrder'
    BY <2>2, EnqueueInOrder
  <2>3. ASSUME NEW w \in Workers, take(w) \/ taskReturns(w) PROVE TasksOnceInOrder'
    BY <2>3, TakeInOrder, ReturnInOrder
  <2>4. CASE ownerStep
    BY <2>1, <2>4 DEF ownerStep, start, startThread, startReturns, stop, stopReturns
  <2>5. ASSUME NEW w \in Workers, checkRunning(w) \/ nestedRun(w) PROVE TasksOnceInOrder'
    BY <2>1, <2>5 DEF checkRunning, nestedRun
  <2>6. ASSUME NEW c \in Clients, callRun(c) PROVE TasksOnceInOrder'
    BY <2>1, <2>6 DEF callRun
  <2>7. ASSUME NEW t \in Threads, spuriousWakeup(t) PROVE TasksOnceInOrder'
    BY <2>1, <2>7 DEF spuriousWakeup
  <2>8. CASE UNCHANGED vars
    BY <2>1, <2>8 DEF vars
  <2>9. QED
    BY <2>2, <2>3, <2>4, <2>5, <2>6, <2>7, <2>8 DEF Next, workerStep, Threads
<1>3. QED BY <1>1, <1>2, PoolInvariant, PTL DEF Steps

-----------------------------------------------------------------------------
(* No wake-up is missing *)

LEMMA TakersFinite ==
    /\ IsFiniteSet(Threads)
    /\ IsFiniteSet(Takers) /\ Cardinality(Takers) \in Nat
    /\ IsFiniteSet(Runners) /\ Cardinality(Runners) \in Nat
    /\ IsFiniteSet(Takers)' /\ Cardinality(Takers)' \in Nat
    /\ IsFiniteSet(Runners)' /\ Cardinality(Runners)' \in Nat
<1>1. IsFiniteSet(Threads)
  BY ThreadsAssumption, FS_Union DEF Threads
<1>2. \A S : S \subseteq Threads => IsFiniteSet(S) /\ Cardinality(S) \in Nat
  BY <1>1, FS_Subset, FS_CardinalityType
<1>3. Takers \subseteq Threads /\ Runners \subseteq Threads
  BY DEF Takers, Runners
<1>4. Takers' \subseteq Threads /\ Runners' \subseteq Threads
  BY DEF Takers, Runners
<1>5. QED BY <1>1, <1>2, <1>3, <1>4

\* One element more, or less.
LEMMA OneMore ==
    ASSUME NEW S, IsFiniteSet(S), NEW x, x \notin S, NEW T, S \cup {x} \subseteq T, IsFiniteSet(T)
    PROVE  Cardinality(T) >= Cardinality(S) + 1
<1>1. Cardinality(S \cup {x}) = Cardinality(S) + 1
  BY FS_AddElement
<1>2. Cardinality(S \cup {x}) <= Cardinality(T)
  BY FS_Subset
<1>3. QED BY <1>1, <1>2, FS_CardinalityType

LEMMA OneLess ==
    ASSUME NEW S, IsFiniteSet(S), NEW x \in S, NEW T, S \ {x} \subseteq T, IsFiniteSet(T)
    PROVE  Cardinality(T) >= Cardinality(S) - 1
<1>1. Cardinality(S \ {x}) = Cardinality(S) - 1 /\ IsFiniteSet(S \ {x})
  BY FS_RemoveElement
<1>2. Cardinality(S \ {x}) <= Cardinality(T)
  BY <1>1, FS_Subset
<1>3. QED BY <1>1, <1>2, FS_CardinalityType

LEMMA NoFewer ==
    ASSUME NEW T, IsFiniteSet(T), NEW S, S \subseteq T
    PROVE  Cardinality(T) >= Cardinality(S) /\ Cardinality(S) \in Nat
BY FS_Subset, FS_CardinalityType

\* A wait for a task begins with the queue empty, every task queued during it sends
\* a sleeper to take(), and every task taken uses up one of those on their way.
THEOREM EveryTaskHasTaker == Steps => []TasksHaveTakers
<1>1. Init => TasksHaveTakers
  BY DEF Init, TasksHaveTakers, WaitingForTask
<1>2. PoolInv /\ TasksHaveTakers /\ [Next]_vars => TasksHaveTakers'
  <2> SUFFICES ASSUME PoolInv, TasksHaveTakers, [Next]_vars PROVE TasksHaveTakers'
    OBVIOUS
  <2> USE DEF PoolInv
  <2>0. Len(queue) \in Nat /\ pc \in [Threads -> Labels]
    BY DEF TypeOK
  <2>1. ASSUME WaitingForTask' \subseteq WaitingForTask, Takers \subseteq Takers', queue' = queue
        PROVE  TasksHaveTakers'
    BY <2>0, <2>1, TakersFinite, NoFewer DEF TasksHaveTakers
  <2>2. ASSUME NEW t \in Threads, enqueue(t) PROVE TasksHaveTakers'
    <3>1. CASE isFull
      <4>1. pc' = [pc EXCEPT ![t] = "notFull"] /\ queue' = queue /\ pc[t] = "run"
        BY <2>2, <3>1 DEF enqueue, Goto
      <4>2. WaitingForTask' \subseteq WaitingForTask /\ Takers \subseteq Takers'
        BY <2>0, <4>1 DEF WaitingForTask, Takers
      <4>3. QED BY <2>1, <4>1, <4>2
    <3>2. CASE ~isFull
      <4>1. /\ GotoAndNotifyOne(t, afterRun(t), WaitingForTask, "take") /\ pc[t] = "run"
            /\ Len(queue') = Len(queue) + 1
        BY <2>2, <3>2 DEF enqueue, takersToWake, TypeOK
      <4>2. CASE WaitingForTask = {}
        <5>1. Goto(t, afterRun(t))
          BY <4>1, <4>2 DEF GotoAndNotifyOne
        <5>2. WaitingForTask' = {}
          BY <2>0, <4>2, <5>1 DEF Goto, WaitingForTask, afterRun
        <5>3. QED BY <5>2 DEF TasksHaveTakers
      <4>3. CASE WaitingForTask # {}
        <5>1. PICK n \in WaitingForTask : pc' = [pc EXCEPT ![t] = afterRun(t), ![n] = "take"]
          BY <4>1, <4>3 DEF GotoAndNotifyOne
        <5>2. n \notin Takers /\ Takers \cup {n} \subseteq Takers'
          BY <2>0, <4>1, <5>1 DEF WaitingForTask, Takers, afterRun
        <5>3. Cardinality(Takers') >= Cardinality(Takers) + 1
          BY <5>2, TakersFinite, OneMore
        <5>4. QED BY <2>0, <4>1, <4>3, <5>3, TakersFinite DEF TasksHaveTakers
      <4>4. QED BY <4>2, <4>3
    <3>3. QED BY <3>1, <3>2
  <2>3. ASSUME NEW w \in Workers, take(w) PROVE TasksHaveTakers'
    <3>1. CASE queue = <<>>
      <4>1. Len(queue') = 0
        BY <2>3, <3>1 DEF take
      <4>2. QED BY <4>1, TakersFinite DEF TasksHaveTakers
    <3>2. CASE queue # <<>>
      <4>1. /\ GotoAndNotifyOne(w, "task", runnersToWake, "run") /\ pc[w] = "take"
            /\ queue' = Tail(queue) /\ w \in Threads
        BY <2>3, <3>2 DEF take, Threads
      <4>2. Len(queue') = Len(queue) - 1
        BY <3>2, <4>1, HeadTailProperties DEF TypeOK
      <4>3. /\ pc' \in [Threads -> Labels] /\ pc'[w] = "task"
            /\ \A u \in Threads : u # w => pc'[u] = pc[u] \/ (pc[u] = "notFull" /\ pc'[u] = "run")
        <5>1. /\ w \notin runnersToWake /\ runnersToWake \subseteq Threads
              /\ \A n \in runnersToWake : pc[n] = "notFull"
          BY <4>1 DEF runnersToWake, WaitingForRoom
        <5>2. {"task", "run"} \subseteq Labels
          BY DEF Labels
        <5>3. QED BY <2>0, <4>1, <5>1, <5>2, Notify_effect
      <4>4. w \in Takers /\ Takers \ {w} \subseteq Takers' /\ WaitingForTask' \subseteq WaitingForTask
        BY <4>1, <4>3 DEF Takers, WaitingForTask
      <4>5. Cardinality(Takers') >= Cardinality(Takers) - 1
        BY <4>4, TakersFinite, OneLess
      <4>6. QED BY <2>0, <4>2, <4>4, <4>5, TakersFinite DEF TasksHaveTakers
    <3>3. QED BY <3>1, <3>2
  <2>4. CASE stop
    <3>1. WaitingForTask' = {}
      BY <2>4 DEF stop, wokenByStop, WaitingForTask
    <3>2. QED BY <3>1 DEF TasksHaveTakers
  <2>5. ASSUME NEW t \in Threads, NEW label \in {"run", "take", "check", "exit"},
               pc[t] # "take", Goto(t, label), queue' = queue
        PROVE  TasksHaveTakers'
    <3>1. WaitingForTask' \subseteq WaitingForTask /\ Takers \subseteq Takers'
      BY <2>0, <2>5 DEF Goto, WaitingForTask, Takers
    <3>2. QED BY <2>1, <2>5, <3>1
  <2>6. CASE UNCHANGED <<pc, queue>>
    BY <2>1, <2>6 DEF WaitingForTask, Takers
  <2>7. ASSUME NEW w \in Workers, checkRunning(w) \/ taskReturns(w) \/ nestedRun(w) \/ startThread(w)
        PROVE  TasksHaveTakers'
    BY <2>5, <2>7 DEF checkRunning, taskReturns, nestedRun, startThread, Threads
  <2>8. ASSUME NEW c \in Clients, callRun(c) PROVE TasksHaveTakers'
    BY <2>5, <2>6, <2>8 DEF callRun, Threads
  <2>9. ASSUME NEW t \in Threads, spuriousWakeup(t) PROVE TasksHaveTakers'
    BY <2>5, <2>9 DEF spuriousWakeup
  <2>10. CASE start \/ startReturns \/ stopReturns \/ UNCHANGED vars
    BY <2>6, <2>10 DEF start, startReturns, stopReturns, vars
  <2>11. QED
    BY <2>2, <2>3, <2>4, <2>7, <2>8, <2>9, <2>10 DEF Next, ownerStep, workerStep, Threads
<1>3. QED BY <1>1, <1>2, PoolInvariant, PTL DEF Steps

\* A wait for room begins with no place free, every task taken during it sends a
\* sleeper back to run(), and every task queued uses up one of those on their way.
THEOREM EveryPlaceHasRunner == Steps => []RoomHasRunners
<1>1. Init => RoomHasRunners
  BY DEF Init, RoomHasRunners, WaitingForRoom
<1>2. PoolInv /\ RoomHasRunners /\ [Next]_vars => RoomHasRunners'
  <2> SUFFICES ASSUME PoolInv, RoomHasRunners, [Next]_vars PROVE RoomHasRunners'
    OBVIOUS
  <2> USE DEF PoolInv
  <2>0. /\ Len(queue) \in Nat /\ maxQueueSize \in Nat /\ maxQueueSize' = maxQueueSize
        /\ pc \in [Threads -> Labels]
    <3>1. maxQueueSize' = maxQueueSize
      BY DEF vars, Next, ownerStep, workerStep, start, startThread, startReturns, stop, stopReturns,
             checkRunning, take, taskReturns, nestedRun, enqueue, callRun, spuriousWakeup
    <3>2. QED BY <3>1, BoundsAssumption DEF TypeOK
  <2>1. ASSUME WaitingForRoom' \subseteq WaitingForRoom, Runners \subseteq Runners', queue' = queue
        PROVE  RoomHasRunners'
    BY <2>0, <2>1, TakersFinite, NoFewer DEF RoomHasRunners
  <2>2. ASSUME NEW t \in Threads, enqueue(t) PROVE RoomHasRunners'
    <3>1. CASE isFull
      <4>1. queue' = queue
        BY <2>2, <3>1 DEF enqueue
      <4>2. maxQueueSize - Len(queue) <= 0
        BY <2>0, <3>1 DEF isFull
      <4>3. QED BY <2>0, <4>1, <4>2, TakersFinite DEF RoomHasRunners
    <3>2. CASE ~isFull
      <4>1. /\ GotoAndNotifyOne(t, afterRun(t), takersToWake, "take") /\ pc[t] = "run"
            /\ Len(queue') = Len(queue) + 1
        BY <2>2, <3>2 DEF enqueue, TypeOK
      <4>2. /\ pc' \in [Threads -> Labels] /\ pc'[t] \in {"task", "idle"}
            /\ \A u \in Threads : u # t => pc'[u] = pc[u] \/ (pc[u] = "notEmpty" /\ pc'[u] = "take")
        <5>1. /\ t \notin takersToWake /\ takersToWake \subseteq Threads
              /\ \A n \in takersToWake : pc[n] = "notEmpty"
          BY <4>1 DEF takersToWake, WaitingForTask
        <5>2. afterRun(t) \in {"task", "idle"} /\ {"task", "idle", "take"} \subseteq Labels
          BY DEF Labels, afterRun
        <5>3. QED BY <2>0, <4>1, <5>1, <5>2, Notify_effect
      <4>3. t \in Runners /\ Runners \ {t} \subseteq Runners' /\ WaitingForRoom' \subseteq WaitingForRoom
        BY <4>1, <4>2 DEF Runners, WaitingForRoom
      <4>4. Cardinality(Runners') >= Cardinality(Runners) - 1
        BY <4>3, TakersFinite, OneLess
      <4>5. QED BY <2>0, <4>1, <4>3, <4>4, TakersFinite DEF RoomHasRunners
    <3>3. QED BY <3>1, <3>2
  <2>3. ASSUME NEW w \in Workers, take(w) PROVE RoomHasRunners'
    <3>1. CASE queue = <<>>
      <4>1. queue' = queue
        BY <2>3, <3>1 DEF take
      <4>2. WaitingForRoom' \subseteq WaitingForRoom /\ Runners \subseteq Runners'
        BY <2>0, <2>3, <3>1 DEF take, Goto, WaitingForRoom, Runners, Threads
      <4>3. QED BY <2>1, <4>1, <4>2
    <3>2. CASE queue # <<>>
      <4>1. /\ GotoAndNotifyOne(w, "task", runnersToWake, "run") /\ pc[w] = "take"
            /\ queue' = Tail(queue) /\ w \in Threads
        BY <2>3, <3>2 DEF take, Threads
      <4>2. Len(queue') = Len(queue) - 1 /\ Len(queue') \in Nat
        BY <3>2, <4>1, HeadTailProperties DEF TypeOK
      <4>3. CASE maxQueueSize = 0
        BY <2>0, <4>2, <4>3, TakersFinite DEF RoomHasRunners
      <4>4. CASE maxQueueSize # 0 /\ WaitingForRoom = {}
        <5>1. Goto(w, "task")
          BY <2>0, <4>1, <4>4 DEF GotoAndNotifyOne, runnersToWake
        <5>2. WaitingForRoom' = {}
          BY <2>0, <4>1, <4>4, <5>1 DEF Goto, WaitingForRoom
        <5>3. QED BY <5>2 DEF RoomHasRunners
      <4>5. CASE maxQueueSize # 0 /\ WaitingForRoom # {}
        <5>1. PICK n \in WaitingForRoom : pc' = [pc EXCEPT ![w] = "task", ![n] = "run"]
          BY <2>0, <4>1, <4>5 DEF GotoAndNotifyOne, runnersToWake
        <5>2. n \notin Runners /\ Runners \cup {n} \subseteq Runners'
          BY <2>0, <4>1, <5>1 DEF WaitingForRoom, Runners
        <5>3. Cardinality(Runners') >= Cardinality(Runners) + 1
          BY <5>2, TakersFinite, OneMore
        <5>4. QED BY <2>0, <4>2, <4>5, <5>3, TakersFinite DEF RoomHasRunners
      <4>6. QED BY <4>3, <4>4, <4>5
    <3>3. QED BY <3>1, <3>2
  <2>4. CASE stop
    <3>1. WaitingForRoom' \subseteq WaitingForRoom /\ Runners \subseteq Runners' /\ queue' = queue
      BY <2>4 DEF stop, wokenByStop, WaitingForTask, WaitingForRoom, Runners
    <3>2. QED BY <2>1, <3>1
  <2>5. ASSUME NEW t \in Threads, NEW label \in {"run", "take", "check", "exit"},
               pc[t] # "run", Goto(t, label), queue' = queue
        PROVE  RoomHasRunners'
    <3>1. WaitingForRoom' \subseteq WaitingForRoom /\ Runners \subseteq Runners'
      BY <2>0, <2>5 DEF Goto, WaitingForRoom, Runners
    <3>2. QED BY <2>1, <2>5, <3>1
  <2>6. CASE UNCHANGED <<pc, queue>>
    BY <2>1, <2>6 DEF WaitingForRoom, Runners
  <2>7. ASSUME NEW w \in Workers, checkRunning(w) \/ taskReturns(w) \/ nestedRun(w) \/ startThread(w)
        PROVE  RoomHasRunners'
    BY <2>5, <2>7 DEF checkRunning, taskReturns, nestedRun, startThread, Threads
  <2>8. ASSUME NEW c \in Clients, callRun(c) PROVE RoomHasRunners'
    BY <2>5, <2>6, <2>8 DEF callRun, Threads
  <2>9. ASSUME NEW t \in Threads, spuriousWakeup(t) PROVE RoomHasRunners'
    BY <2>5, <2>9 DEF spuriousWakeup
  <2>10. CASE start \/ startReturns \/ stopReturns \/ UNCHANGED vars
    BY <2>6, <2>10 DEF start, startReturns, stopReturns, vars
  <2>11. QED
    BY <2>2, <2>3, <2>4, <2>7, <2>8, <2>9, <2>10 DEF Next, ownerStep, workerStep, Threads
<1>3. QED BY <1>1, <1>2, PoolInvariant, PTL DEF Steps

-----------------------------------------------------------------------------
(* The pool with its threads, their latches and joins, implements          *)
(* ThreadPool, where stop() goes on once every thread has ended.           *)

\* Only a thread that has ended is joined.
JoinedHaveEnded == \A w \in joined : w \in Workers /\ pc[w] = "exit"

LEMMA ThreadStepKeeps ==
    ASSUME PoolInv, NEW w \in Workers, pc[w] = "exit", NEW t \in Threads,
           \/ enqueue(t) \/ spuriousWakeup(t)
           \/ t \in Workers /\ (workerStep(t) \/ nestedRun(t) \/ startThread(t))
           \/ t \in Clients /\ callRun(t)
    PROVE  pc'[w] = "exit"
<1>0. w \in Threads /\ t \in Threads /\ pc \in [Threads -> Labels]
  BY DEF PoolInv, TypeOK, Threads
<1>1. ASSUME NEW label \in Labels, pc[t] # "exit", Goto(t, label) PROVE pc'[w] = "exit"
  BY <1>0, <1>1 DEF Goto
<1>2. ASSUME NEW label \in Labels, NEW retry \in Labels, NEW waiters, pc[t] # "exit",
             waiters \subseteq {u \in Threads : pc[u] \in {"notEmpty", "notFull"}}, t \notin waiters,
             GotoAndNotifyOne(t, label, waiters, retry)
      PROVE  pc'[w] = "exit"
  <2>1. w \notin waiters /\ w # t
    BY <1>2
  <2>2. waiters \subseteq Threads
    BY <1>2
  <2>3. QED BY <1>0, <1>2, <2>1, <2>2, Notify_effect
<1>3. {"take", "notFull", "run", "check", "task", "idle", "notEmpty", "exit"} \subseteq Labels
  BY DEF Labels
<1>4. CASE enqueue(t)
  <2>1. takersToWake \subseteq {u \in Threads : pc[u] \in {"notEmpty", "notFull"}}
        /\ t \notin takersToWake /\ afterRun(t) \in Labels
    BY <1>3, <1>4 DEF enqueue, takersToWake, WaitingForTask, Threads, afterRun
  <2>2. pc[t] # "exit"
    BY <1>4 DEF enqueue
  <2>3. QED BY <1>1, <1>2, <1>3, <1>4, <2>1, <2>2 DEF enqueue
<1>5. CASE t \in Workers /\ take(t)
  <2>1. runnersToWake \subseteq {u \in Threads : pc[u] \in {"notEmpty", "notFull"}}
        /\ t \notin runnersToWake
    BY <1>5 DEF take, runnersToWake, WaitingForRoom, Threads
  <2>2. pc[t] # "exit"
    BY <1>5 DEF take
  <2>3. QED BY <1>1, <1>2, <1>3, <1>5, <2>1, <2>2 DEF take
<1>6. CASE checkRunning(t) \/ taskReturns(t) \/ nestedRun(t) \/ startThread(t) \/ spuriousWakeup(t)
  BY <1>1, <1>3, <1>6 DEF checkRunning, taskReturns, nestedRun, startThread, spuriousWakeup
<1>7. CASE callRun(t)
  BY <1>1, <1>3, <1>7 DEF callRun
<1>8. QED BY <1>4, <1>5, <1>6, <1>7 DEF workerStep

\* A thread that has ended stays so: it waits for nothing that could be notified.
LEMMA EndedStays ==
    ASSUME PoolInv, [Next]_vars, NEW w \in Workers, pc[w] = "exit"
    PROVE  pc'[w] = "exit"
<1>1. CASE start \/ startReturns \/ stopReturns \/ UNCHANGED vars
  BY <1>1 DEF start, startReturns, stopReturns, vars
<1>2. CASE stop
  BY <1>2 DEF stop, wokenByStop, WaitingForTask, Threads
<1>3. QED
  BY <1>1, <1>2, ThreadStepKeeps DEF Next, ownerStep, Threads

\* One step of the pool with its threads is a step of ThreadPool, or none.
LEMMA StepIsOfPool ==
    ASSUME JoinedHaveEnded, [PoolNext]_poolVars
    PROVE  [Next]_vars
<1>1. CASE UNCHANGED poolVars
  BY <1>1 DEF poolVars
<1>2. CASE poolStarts
  BY <1>2 DEF poolStarts, Next, ownerStep
<1>3. CASE ownerGoesOn
  <2>1. CASE latchWait \/ \E w \in Workers : create(w) \/ join(w)
    BY <2>1 DEF latchWait, create, join
  <2>2. CASE allStarted
    BY <2>2 DEF allStarted, Next, ownerStep
  <2>3. CASE allJoined
    <3>1. \A w \in Workers : pc[w] = "exit"
      BY <2>3 DEF allJoined, JoinedHaveEnded
    <3>2. stopReturns
      BY <2>3, <3>1 DEF allJoined, stopReturns
    <3>3. QED BY <3>2 DEF Next, ownerStep
  <2>4. QED BY <1>3, <2>1, <2>2, <2>3 DEF ownerGoesOn
<1>4. CASE spuriousLatch
  BY <1>4 DEF spuriousLatch
<1>5. CASE poolUsed
  BY <1>5 DEF poolUsed, Next, ownerStep
<1>6. ASSUME NEW w \in Workers, workerGoesOn(w) PROVE [Next]_vars
  BY <1>6 DEF workerGoesOn, tellTid, countDown, Next, ownerStep
<1>7. ASSUME NEW c \in Clients, clientGoesOn(c) PROVE [Next]_vars
  BY <1>7 DEF clientGoesOn, Next
<1>8. QED BY <1>1, <1>2, <1>3, <1>4, <1>5, <1>6, <1>7 DEF PoolNext

LEMMA JoinedStep ==
    ASSUME PoolInv, JoinedHaveEnded, [PoolNext]_poolVars
    PROVE  JoinedHaveEnded'
<1>1. [Next]_vars
  BY StepIsOfPool
<1>2. \A w \in joined : w \in Workers /\ pc'[w] = "exit"
  BY <1>1, EndedStays DEF JoinedHaveEnded
<1>3. \/ joined' = joined
      \/ \E w \in Workers : joined' = joined \cup {w} /\ pc[w] = "exit" /\ pc' = pc
  BY DEF PoolNext, poolVars, threadVars, vars, poolStarts, ownerGoesOn, latchWait, create, join,
         allStarted, allJoined, spuriousLatch, poolUsed, workerGoesOn, tellTid, countDown,
         clientGoesOn
<1>4. QED BY <1>2, <1>3 DEF JoinedHaveEnded

-----------------------------------------------------------------------------
\* Thread.cpp:141-171, ThreadPool.cpp:30-57: started and joined one by one, with latches
\* and spurious wake-ups, the threads of the pool do only what ThreadPool allows; in
\* particular stop() is past its joins only when every worker has ended.
THEOREM ThreadsImplementPool == PoolSpec => Steps
<1>1. PoolInit => Init /\ PoolInv /\ JoinedHaveEnded
  BY InitPoolInv DEF PoolInit, JoinedHaveEnded
<1>2. PoolInv /\ JoinedHaveEnded /\ [PoolNext]_poolVars
        => [Next]_vars /\ PoolInv' /\ JoinedHaveEnded'
  BY StepIsOfPool, JoinedStep, NextKeepsPoolInv
<1>3. QED BY <1>1, <1>2, PTL DEF PoolSpec, Steps

\* ThreadPool.cpp:59-90, with the threads as they are: tasks leave the queue once each
\* and in order, for any number of workers and callers.
THEOREM PoolTasksOnceInOrder == PoolSpec => []TasksOnceInOrder
BY ThreadsImplementPool, TasksExecutedOnceInOrder, PTL

\* ThreadPool.cpp:67, one notify_one per task: no task is left to sleeping workers.
THEOREM PoolTasksHaveTakers == PoolSpec => []TasksHaveTakers
BY ThreadsImplementPool, EveryTaskHasTaker, PTL

\* ThreadPool.cpp:82, one notify_one per task taken: no place is left to sleeping callers.
THEOREM PoolRoomHasRunners == PoolSpec => []RoomHasRunners
BY ThreadsImplementPool, EveryPlaceHasRunner, PTL

-----------------------------------------------------------------------------
(* LogFile *)

\* The file was opened at the last roll.  Named by UTC it is the latest name there is.
Files ==
    /\ opened = lastRoll /\ startOfPeriod = PeriodOf(lastRoll)
    /\ ~zoned => name = lastRoll /\ \A n \in Names : n > lastRoll => sizes[n] = 0
    /\ WrittenIsSize

\* While the clock only moves forward, the lines of the file are later than the
\* roll, and those in the buffer later than the last flush.
Clock ==
    ~setBack =>
        /\ lastRoll <= lastFlush /\ lastFlush <= now
        /\ \A i \in DOMAIN lines : lastRoll <= lines[i] /\ lines[i] <= now
        /\ \A i \in DOMAIN lines : Len(lines) - unflushed < i => lastFlush <= lines[i]

FileInv ==
    FileTypeOK /\ Files /\ Clock /\ LongOnlyInItsSecond /\ FileOfOneDay /\ FlushedInTime

-----------------------------------------------------------------------------
(* Days *)

LEMMA DivMonotone ==
    ASSUME NEW a \in Nat, NEW b \in Nat, a <= b
    PROVE  a \div Day <= b \div Day /\ a \div Day \in Nat /\ b \div Day \in Nat
<1> DEFINE qa == a \div Day
           qb == b \div Day
<1>1. Day \in Nat /\ Day > 0
  BY LimitsAssumption
<1>2. /\ qa \in Nat /\ a % Day \in 0 .. Day - 1 /\ a = Day * qa + (a % Day)
      /\ qb \in Nat /\ b % Day \in 0 .. Day - 1 /\ b = Day * qb + (b % Day)
  BY <1>1
<1>3. SUFFICES ASSUME qa > qb PROVE FALSE
  BY <1>2
<1> HIDE DEF qa, qb
<1>4. PICK k \in Nat : qa = qb + 1 + k
  <2>1. qa - qb - 1 \in Nat
    BY <1>2, <1>3
  <2>2. QED BY <1>2, <2>1
<1>5. Day * qa = Day * qb + Day + Day * k
  BY <1>1, <1>2, <1>4
<1>6. Day * k \in Nat /\ Day * qb \in Nat
  BY <1>1, <1>2, <1>4
<1>7. QED BY <1>1, <1>2, <1>5, <1>6

LEMMA PeriodType == \A t \in Nat : PeriodOf(t) \in Nat
<1> TAKE t \in Nat
<1>1. t \div Day \in Nat /\ Day \in Nat
  BY DivMonotone, LimitsAssumption
<1>2. QED BY <1>1 DEF PeriodOf

\* A moment between two of the same day is of that day.
LEMMA PeriodBetween ==
    ASSUME NEW a \in Nat, NEW b \in Nat, NEW c \in Nat, a <= b, b <= c,
           PeriodOf(a) = PeriodOf(c)
    PROVE  PeriodOf(b) = PeriodOf(a)
<1> DEFINE qa == a \div Day
           qb == b \div Day
           qc == c \div Day
<1>1. qa \in Nat /\ qb \in Nat /\ qc \in Nat /\ qa <= qb /\ qb <= qc
  BY DivMonotone
<1>2. Day \in Nat /\ Day > 0
  BY LimitsAssumption
<1>3. qa * Day = qc * Day
  BY DEF PeriodOf
<1> HIDE DEF qa, qb, qc
<1>4. PICK k \in Nat : qc = qa + k
  <2>1. qc - qa \in Nat
    BY <1>1
  <2>2. QED BY <1>1, <2>1
<1>5. k * Day = 0
  BY <1>1, <1>2, <1>3, <1>4
<1>6. k = 0
  BY <1>2, <1>5
<1>7. qb = qa
  BY <1>1, <1>4, <1>6
<1>8. QED BY <1>7 DEF PeriodOf, qa, qb

-----------------------------------------------------------------------------
\* No line of an empty file is checked, nor is one of the last ones to be flushed
\* when there is none.
LEMMA NothingBetween == \A n, c \in Nat : n = 0 => \A i \in 1 .. (n - c) : FALSE
  OBVIOUS

LEMMA Rearranged == \A n, u \in Nat : (n + 1) - u = n + 1 - u
  OBVIOUS

LEMMA NamesType ==
    /\ Time \subseteq Nat \ {0} /\ Time \subseteq Names /\ Names \subseteq Nat
    /\ \A t \in Time : NameOf(t) \in Names
<1>1. LocalTime \in [1 .. MaxTime -> Nat] /\ MaxTime \in Nat
  BY InputsAssumption
<1>2. \A t \in Time : LocalTime[t] \in Names /\ LocalTime[t] \in Nat
  BY <1>1 DEF Time, Names
<1>3. Time \subseteq Nat \ {0} /\ Time \subseteq Names
  BY <1>1 DEF Time, Names
<1>4. Names \subseteq Nat
  BY <1>1 DEF Names
<1>5. QED BY <1>2, <1>3, <1>4 DEF NameOf

LEMMA InitFileInv == FileInit => FileInv
<1> SUFFICES ASSUME FileInit PROVE FileInv
  OBVIOUS
<1>1. now \in Time /\ now \in Nat \ {0} /\ PeriodOf(now) \in Nat
  BY InputsAssumption, PeriodType DEF FileInit, Time
<1>2. /\ opened = now /\ opened \in Time /\ name = NameOf(now) /\ name \in Names
      /\ sizes = [n \in Names |-> 0] /\ sizes \in [Names -> Nat]
      /\ g_logTimeZone \in BOOLEAN /\ zoned \in BOOLEAN /\ (zoned <=> g_logTimeZone)
  BY <1>1, NamesType DEF FileInit
<1>3. lines = <<>> /\ lines \in Seq(Time) /\ Len(lines) = 0 /\ DOMAIN lines = {}
  BY EmptySeq DEF FileInit
<1>4. FileTypeOK
  <2>1. 0 \in 0 .. CheckEveryN - 1
    BY LimitsAssumption
  <2>2. /\ setBack = FALSE /\ count = 0 /\ appends = 0 /\ tried = 0 /\ writtenBytes = 0
        /\ unflushed = 0 /\ lastRoll = now /\ lastFlush = now /\ startOfPeriod = PeriodOf(now)
    BY DEF FileInit
  <2>3. setBack \in BOOLEAN
    BY <2>2
  <2>4. /\ startOfPeriod \in Nat /\ lastRoll \in Time /\ lastFlush \in Time /\ tried \in Nat
        /\ writtenBytes \in Nat /\ unflushed \in Nat /\ appends \in Nat
        /\ count \in 0 .. CheckEveryN - 1 /\ unflushed <= Len(lines)
    BY <1>1, <1>3, <2>1, <2>2
  <2>5. QED BY <1>1, <1>2, <1>3, <2>3, <2>4 DEF FileTypeOK
<1>5. Files /\ Clock /\ LongOnlyInItsSecond
  <2>1. /\ writtenBytes = 0 /\ unflushed = 0 /\ lastRoll = now /\ lastFlush = now
        /\ startOfPeriod = PeriodOf(now)
    BY DEF FileInit
  <2>2. sizes[name] = 0 /\ \A n \in Names : sizes[n] = 0
    BY <1>2
  <2>3. Files
    BY <1>2, <2>1, <2>2 DEF Files, WrittenIsSize, NameOf
  <2>4. QED
    BY <1>1, <1>3, <2>1, <2>3, LimitsAssumption DEF Clock, LongOnlyInItsSecond
<1>6. FileOfOneDay /\ FlushedInTime
  BY <1>3 DEF FileInit, FileOfOneDay, FlushedInTime, Checked
<1>7. QED BY <1>4, <1>5, <1>6 DEF FileInv

\* What a line more makes of the invariant, before anything is rolled or flushed.
LEMMA LineAdded ==
    ASSUME FileInv, NEW after, after = Append(lines, now)
    PROVE  /\ after \in Seq(Time) /\ Len(after) = Len(lines) + 1 /\ Len(lines) \in Nat
           /\ DOMAIN after = 1 .. Len(lines) + 1
           /\ \A i \in 1 .. Len(lines) : after[i] = lines[i] /\ lines[i] \in Time
           /\ after[Len(lines) + 1] = now
           /\ ~setBack => \A i \in 1 .. Len(lines) + 1 : lastRoll <= after[i] /\ after[i] <= now
           /\ ~setBack => \A i \in 1 .. Len(lines) + 1 :
                              Len(lines) + 1 - (unflushed + 1) < i => lastFlush <= after[i]
<1>1. FileTypeOK /\ Clock
  BY DEF FileInv
<1>2. /\ lines \in Seq(Time) /\ now \in Time /\ Len(lines) \in Nat
      /\ DOMAIN lines = 1 .. Len(lines)
  BY <1>1, LenProperties DEF FileTypeOK
<1>3. /\ after \in Seq(Time) /\ Len(after) = Len(lines) + 1
      /\ \A i \in 1 .. Len(lines) : after[i] = lines[i]
      /\ after[Len(lines) + 1] = now
  BY <1>2, AppendProperties
<1>4. DOMAIN after = 1 .. Len(lines) + 1
  BY <1>2, <1>3, LenProperties
<1>5. \A i \in 1 .. Len(lines) : lines[i] \in Time
  BY <1>2, ElementOfSeq
<1>6. ~setBack => \A i \in 1 .. Len(lines) + 1 : lastRoll <= after[i] /\ after[i] <= now
  <2> SUFFICES ASSUME ~setBack, NEW i \in 1 .. Len(lines) + 1
               PROVE  lastRoll <= after[i] /\ after[i] <= now
    OBVIOUS
  <2>1. CASE i <= Len(lines)
    BY <1>1, <1>2, <1>3, <2>1 DEF Clock
  <2>2. CASE i = Len(lines) + 1
    BY <1>1, <1>2, <1>3, <2>2 DEF Clock, FileTypeOK, Time
  <2>3. QED BY <1>2, <2>1, <2>2
<1>7. ~setBack => \A i \in 1 .. Len(lines) + 1 :
                      Len(lines) + 1 - (unflushed + 1) < i => lastFlush <= after[i]
  <2> SUFFICES ASSUME ~setBack, NEW i \in 1 .. Len(lines) + 1,
                      Len(lines) + 1 - (unflushed + 1) < i
               PROVE  lastFlush <= after[i]
    OBVIOUS
  <2>0. unflushed \in Nat
    BY <1>1 DEF FileTypeOK
  <2>1. CASE i <= Len(lines)
    BY <1>1, <1>2, <1>3, <2>0, <2>1 DEF Clock
  <2>2. CASE i = Len(lines) + 1
    BY <1>1, <1>2, <1>3, <2>2 DEF Clock
  <2>3. QED BY <1>2, <2>1, <2>2
<1>8. QED BY <1>2, <1>3, <1>4, <1>5, <1>6, <1>7

\* The bytes of a line go to the open file.
LEMMA SizesGrow ==
    ASSUME FileTypeOK, NEW len \in Lengths, append_unlocked(len)
    PROVE  /\ sizes' \in [Names -> Nat] /\ sizes'[name] = sizes[name] + len
           /\ \A n \in Names : n # name => sizes'[n] = sizes[n]
           /\ len \in Nat /\ sizes[name] \in Nat
<1>1. len \in Nat /\ name \in Names /\ sizes \in [Names -> Nat]
  BY InputsAssumption DEF FileTypeOK
<1>2. sizes' = [sizes EXCEPT ![name] = sizes[name] + len]
  BY DEF append_unlocked
<1>3. QED BY <1>1, <1>2

\* The file is replaced.
LEMMA RollKeeps ==
    ASSUME FileInv, NEW len \in Lengths, append_unlocked(len), lastRoll' = now', mayRoll(now'),
           lastFlush' = now', startOfPeriod' = PeriodOf(now'), opened' = now',
           name' = NameOf(now'), zoned' = (zoned \/ g_logTimeZone),
           writtenBytes' = 0, lines' = <<>>, unflushed' = 0, count' \in {count, nextCount},
           tried' \in {tried, now'}
    PROVE  FileInv'
<1>1. FileTypeOK /\ Files
  BY DEF FileInv
<1>2. now' \in Time /\ appends' = appends + 1 /\ setBack' = setBack /\ now' > lastRoll
  BY <1>1 DEF append_unlocked, Moments, FileTypeOK, Time, mayRoll
<1>3. /\ name' \in Names /\ sizes' \in [Names -> Nat] /\ name \in Names
      /\ \A n \in Names : n # name => sizes'[n] = sizes[n]
      /\ zoned' \in BOOLEAN /\ g_logTimeZone' \in BOOLEAN /\ g_logTimeZone' = g_logTimeZone
  <2>1. name' \in Names
    BY <1>2, NamesType
  <2>2. QED BY <1>1, <2>1, SizesGrow DEF FileTypeOK, append_unlocked
<1>4. <<>> \in Seq(Time) /\ Len(<<>>) = 0 /\ DOMAIN <<>> = {}
  BY EmptySeq
<1>5. FileTypeOK'
  <2>1. count' \in 0 .. CheckEveryN - 1
    BY <1>1, LimitsAssumption DEF FileTypeOK, nextCount
  <2>2. startOfPeriod' \in Nat
    BY <1>2, PeriodType DEF Time
  <2>3. /\ tried' \in Nat /\ appends' \in Nat /\ setBack' \in BOOLEAN
        /\ lastRoll' \in Time /\ lastFlush' \in Time /\ opened' \in Time
        /\ writtenBytes' \in Nat /\ unflushed' \in Nat
    BY <1>1, <1>2 DEF FileTypeOK, Time
  <2>4. lines' \in Seq(Time) /\ Len(lines') = 0 /\ unflushed' <= Len(lines')
    BY <1>4
  <2>5. QED BY <1>2, <1>3, <2>1, <2>2, <2>3, <2>4 DEF FileTypeOK
<1>6. Files'
  <2>1. sizes'[name'] \in Nat
    BY <1>3
  <2>2. ASSUME ~zoned' PROVE name' = now' /\ \A n \in Names : n > lastRoll => sizes'[n] = 0
    <3>1. ~zoned /\ ~g_logTimeZone
      BY <2>2
    <3>2. name = lastRoll /\ \A n \in Names : n > lastRoll => sizes[n] = 0
      BY <1>1, <3>1 DEF Files
    <3>3. lastRoll \in Nat
      BY <1>1 DEF FileTypeOK, Time
    <3>4. \A n \in Names : n > lastRoll => n # name
      BY <3>2, <3>3
    <3>5. QED BY <1>3, <3>1, <3>2, <3>4 DEF NameOf
  <2>3. ~zoned' => sizes'[name'] = 0
    BY <1>2, <1>3, <2>2
  <2>4. \A n \in Names : n > now' => n > lastRoll
    <3>1. Names \subseteq Nat /\ lastRoll \in Nat /\ now' \in Nat
      BY <1>1, <1>2, NamesType DEF FileTypeOK
    <3>2. QED BY <1>2, <3>1
  <2>5. WrittenIsSize'
    BY <2>1, <2>3 DEF WrittenIsSize
  <2>6. QED BY <2>2, <2>4, <2>5 DEF Files
<1>7. Clock'
  BY <1>2, <1>4 DEF Clock, Time
<1>8. LongOnlyInItsSecond'
  BY LimitsAssumption DEF LongOnlyInItsSecond
<1>9. count' \in Nat
  BY <1>5 DEF FileTypeOK
<1>10. FileOfOneDay' /\ FlushedInTime'
  <2>1. Len(lines') = 0
    BY <1>4
  <2>2. \A i \in Checked' : FALSE
    <3> SUFFICES ASSUME NEW i \in Checked' PROVE FALSE
      OBVIOUS
    <3>1. i \in 1 .. (Len(lines') - count')
      BY DEF Checked
    <3>2. Len(lines') \in Nat
      BY <2>1
    <3>3. QED BY <1>9, <2>1, <3>1, <3>2, NothingBetween
  <2>3. QED BY <2>2 DEF FileOfOneDay, FlushedInTime
<1>11. QED BY <1>5, <1>6, <1>7, <1>8, <1>10 DEF FileInv

\* A line is added to the same file, flushed or not.
LEMMA SameFile ==
    ASSUME FileInv, NEW len \in Lengths, append_unlocked(len), lines' = Append(lines, now),
           UNCHANGED openVars, writtenBytes' = writtenBytes + len,
           \/ lastFlush' = lastFlush /\ unflushed' = unflushed + 1
           \/ lastFlush' = now /\ unflushed' = 0,
           count' \in {count, nextCount}, tried' \in {tried, now'}
    PROVE  FileTypeOK' /\ Files' /\ Clock'
<1>1. FileTypeOK /\ Files /\ Clock
  BY DEF FileInv
<1>2. /\ now' \in Time /\ now' >= now /\ appends' = appends + 1 /\ setBack' = setBack
      /\ len \in Nat
  BY <1>1, InputsAssumption DEF append_unlocked, Moments, FileTypeOK, Time
<1>3. /\ lines' \in Seq(Time) /\ Len(lines') = Len(lines) + 1 /\ Len(lines) \in Nat
      /\ DOMAIN lines' = 1 .. Len(lines) + 1
      /\ ~setBack => \A i \in 1 .. Len(lines) + 1 : lastRoll <= lines'[i] /\ lines'[i] <= now
      /\ ~setBack => \A i \in 1 .. Len(lines) + 1 :
                         Len(lines) + 1 - (unflushed + 1) < i => lastFlush <= lines'[i]
      /\ \A i \in 1 .. Len(lines) : lines'[i] = lines[i] /\ lines[i] \in Time
      /\ lines'[Len(lines) + 1] = now
  BY LineAdded
<1>4. FileTypeOK'
  <2>1. count' \in 0 .. CheckEveryN - 1
    BY <1>1, LimitsAssumption DEF FileTypeOK, nextCount
  <2>2. /\ tried' \in Nat /\ appends' \in Nat /\ setBack' \in BOOLEAN /\ writtenBytes' \in Nat
        /\ lastFlush' \in Time /\ unflushed' \in Nat /\ unflushed' <= Len(lines')
    <3>1. /\ tried \in Nat /\ appends \in Nat /\ setBack \in BOOLEAN /\ now \in Time
          /\ writtenBytes \in Nat /\ lastFlush \in Time
      BY <1>1 DEF FileTypeOK
    <3>2. tried' \in Nat /\ appends' \in Nat /\ setBack' \in BOOLEAN /\ writtenBytes' \in Nat
      BY <1>2, <3>1 DEF Time
    <3>3. unflushed \in Nat /\ unflushed <= Len(lines)
      BY <1>1 DEF FileTypeOK
    <3>4. lastFlush' \in Time /\ unflushed' \in Nat /\ unflushed' <= Len(lines')
      BY <1>3, <3>1, <3>3
    <3>5. QED BY <3>2, <3>4
  <2>3. /\ startOfPeriod' \in Nat /\ lastRoll' \in Time /\ opened' \in Time /\ name' \in Names
        /\ zoned' \in BOOLEAN /\ g_logTimeZone' \in BOOLEAN /\ sizes' \in [Names -> Nat]
    BY <1>1, SizesGrow DEF FileTypeOK, openVars, append_unlocked
  <2>4. QED BY <1>2, <1>3, <2>1, <2>2, <2>3 DEF FileTypeOK
<1>5. Files'
  <2>1. /\ lastRoll' = lastRoll /\ opened' = opened /\ startOfPeriod' = startOfPeriod
        /\ name' = name /\ zoned' = zoned
    BY DEF openVars
  <2>2. sizes'[name] = sizes[name] + len /\ sizes[name] \in Nat /\ writtenBytes \in Nat
    BY <1>1, SizesGrow DEF FileTypeOK
  <2>3. WrittenIsSize'
    BY <1>1, <1>2, <2>1, <2>2 DEF Files, WrittenIsSize
  <2>4. ASSUME ~zoned PROVE \A n \in Names : n > lastRoll => sizes'[n] = 0
    <3>1. name = lastRoll /\ lastRoll \in Nat
      BY <1>1, <2>4 DEF Files, FileTypeOK, Time
    <3>2. \A n \in Names : n > lastRoll => n # name
      BY <3>1
    <3>3. QED BY <1>1, <2>4, <3>2, SizesGrow DEF Files
  <2>5. QED BY <1>1, <2>1, <2>3, <2>4 DEF Files
<1>6. Clock'
  <2> SUFFICES ASSUME ~setBack PROVE Clock'
    BY <1>2 DEF Clock
  <2>1. lastRoll <= lastFlush' /\ lastFlush' <= now'
    BY <1>1, <1>2 DEF Clock, FileTypeOK, Time
  <2>2. ASSUME NEW i \in 1 .. Len(lines) + 1
        PROVE  lastRoll <= lines'[i] /\ lines'[i] <= now'
    <3>1. lines'[i] \in Time
      BY <1>3, ElementOfSeq
    <3>2. QED BY <1>1, <1>2, <1>3, <3>1 DEF FileTypeOK, Time
  <2>3. ASSUME NEW i \in 1 .. Len(lines) + 1, Len(lines) + 1 - unflushed' < i
        PROVE  lastFlush' <= lines'[i]
    <3>1. CASE unflushed' = 0
      BY <1>3, <2>3, <3>1
    <3>2. CASE lastFlush' = lastFlush /\ unflushed' = unflushed + 1
      BY <1>3, <2>3, <3>2
    <3>3. QED BY <3>1, <3>2
  <2>4. DOMAIN lines' = 1 .. Len(lines) + 1 /\ Len(lines') = Len(lines) + 1 /\ lastRoll' = lastRoll
    BY <1>3 DEF openVars
  <2>5. \A i \in DOMAIN lines' : lastRoll' <= lines'[i] /\ lines'[i] <= now'
    BY <2>2, <2>4
  <2>6. \A i \in DOMAIN lines' : Len(lines') - unflushed' < i => lastFlush' <= lines'[i]
    <3> SUFFICES ASSUME NEW i \in DOMAIN lines', Len(lines') - unflushed' < i
                 PROVE  lastFlush' <= lines'[i]
      OBVIOUS
    <3>1. i \in 1 .. Len(lines) + 1
      BY <2>4
    <3>2. Len(lines) + 1 - unflushed' < i
      <4>1. unflushed' \in Nat /\ Len(lines) \in Nat
        BY <1>3, <1>4 DEF FileTypeOK
      <4>2. (Len(lines) + 1) - unflushed' < i
        BY <2>4
      <4>3. QED BY <4>1, <4>2, Rearranged
    <3>3. QED BY <2>3, <3>1, <3>2
  <2>7. lastRoll' <= lastFlush'
    BY <2>1, <2>4
  <2>8. QED BY <2>1, <2>5, <2>6, <2>7 DEF Clock
<1>7. QED BY <1>4, <1>5, <1>6

\* The file should have been replaced, but the clock has not moved on: all its
\* lines are of the second in which it was opened.
LEMMA NoRollKeeps ==
    ASSUME FileInv, NEW len \in Lengths, append_unlocked(len), lines' = Append(lines, now),
           UNCHANGED <<lastFlush, openVars>>, ~mayRoll(now'),
           writtenBytes' = writtenBytes + len, unflushed' = unflushed + 1,
           \/ tried' = now' /\ count' = count
           \/ tried' = tried /\ count' = nextCount /\ ~(writtenBytes' > RollSize)
    PROVE  FileInv'
<1>1. FileTypeOK /\ Files /\ Clock
  BY DEF FileInv
<1>2. FileTypeOK' /\ Files' /\ Clock'
  BY SameFile
<1>3. now' \in Time /\ lastRoll \in Time /\ now' <= lastRoll /\ setBack' = setBack
  BY <1>1, <1>2 DEF FileTypeOK, mayRoll, append_unlocked, Time
<1>4. LongOnlyInItsSecond'
  BY <1>3 DEF LongOnlyInItsSecond, Time, openVars
<1>5. /\ Len(lines') = Len(lines) + 1 /\ Len(lines) \in Nat
      /\ DOMAIN lines' = 1 .. Len(lines')
      /\ \A i \in 1 .. Len(lines') : lines'[i] \in Time
  BY <1>2, LineAdded, ElementOfSeq DEF FileTypeOK
<1>6. ~setBack => \A i \in 1 .. Len(lines') : lines'[i] = lastRoll
  <2> SUFFICES ASSUME ~setBack, NEW i \in 1 .. Len(lines')
               PROVE  lines'[i] = lastRoll
    OBVIOUS
  <2>1. lastRoll' <= lines'[i] /\ lines'[i] <= now'
    BY <1>2, <1>3, <1>5 DEF Clock
  <2>2. QED BY <1>3, <1>5, <2>1 DEF Time, openVars
<1>7. \A i \in Checked' : i \in 1 .. Len(lines')
  <2>1. count' \in Nat /\ Len(lines') \in Nat
    BY <1>2, <1>5 DEF FileTypeOK
  <2>2. QED BY <2>1 DEF Checked
<1>8. FileOfOneDay'
  <2>1. opened' = lastRoll
    BY <1>2 DEF Files, openVars
  <2>2. QED BY <1>3, <1>6, <1>7, <2>1 DEF FileOfOneDay
<1>9. FlushedInTime'
  <2>1. \A i, j \in Checked' : ~setBack => lines'[j] - lines'[i] <= FlushInterval
    BY <1>3, <1>6, <1>7, LimitsAssumption DEF Time
  <2>2. QED BY <1>3, <2>1 DEF FlushedInTime
<1>10. QED BY <1>2, <1>4, <1>8, <1>9 DEF FileInv

\* No check is due: the new line is one more that is not checked.
LEMMA UncheckedKeeps ==
    ASSUME FileInv, NEW len \in Lengths, append_unlocked(len), lines' = Append(lines, now),
           UNCHANGED <<lastFlush, tried, openVars>>,
           writtenBytes' = writtenBytes + len, ~(writtenBytes' > RollSize),
           unflushed' = unflushed + 1, count' = nextCount, count' = count + 1
    PROVE  FileInv'
<1>1. FileTypeOK /\ FileOfOneDay /\ FlushedInTime
  BY DEF FileInv
<1>2. FileTypeOK' /\ Files' /\ Clock'
  BY SameFile
<1>3. /\ Len(lines') = Len(lines) + 1 /\ Len(lines) \in Nat
      /\ \A i \in 1 .. Len(lines) : lines'[i] = lines[i]
  BY LineAdded
<1>4. count \in Nat /\ unflushed \in Nat /\ setBack' = setBack
  BY <1>1 DEF FileTypeOK, append_unlocked
<1>5. /\ Checked' = Checked /\ \A i \in Checked : i \in 1 .. Len(lines)
      /\ Len(lines') - unflushed' = Len(lines) - unflushed
  BY <1>3, <1>4 DEF Checked
<1>6. FileOfOneDay' /\ FlushedInTime'
  BY <1>1, <1>3, <1>4, <1>5 DEF FileOfOneDay, FlushedInTime, openVars
<1>7. LongOnlyInItsSecond'
  BY DEF LongOnlyInItsSecond
<1>8. QED BY <1>2, <1>6, <1>7 DEF FileInv

\* The check finds the file of today, and flushes it if that is due.
LEMMA CheckedKeeps ==
    ASSUME FileInv, NEW len \in Lengths, append_unlocked(len), lines' = Append(lines, now),
           UNCHANGED <<tried, openVars>>,
           writtenBytes' = writtenBytes + len, ~(writtenBytes' > RollSize),
           count' = nextCount, count' = 0, PeriodOf(now) = startOfPeriod,
           \/ now - lastFlush > FlushInterval /\ lastFlush' = now /\ unflushed' = 0
           \/ /\ ~(now - lastFlush > FlushInterval)
              /\ lastFlush' = lastFlush /\ unflushed' = unflushed + 1
    PROVE  FileInv'
<1>1. FileTypeOK /\ Files /\ Clock
  BY DEF FileInv
<1>2. FileTypeOK' /\ Files' /\ Clock'
  BY SameFile
<1>3. /\ Len(lines') = Len(lines) + 1 /\ Len(lines) \in Nat
      /\ \A i \in 1 .. Len(lines') : lines'[i] \in Time
      /\ ~setBack => \A i \in 1 .. Len(lines') : lastRoll <= lines'[i] /\ lines'[i] <= now
      /\ ~setBack => \A i \in 1 .. Len(lines') :
                         Len(lines) + 1 - (unflushed + 1) < i => lastFlush <= lines'[i]
  BY <1>2, LineAdded, ElementOfSeq DEF FileTypeOK
<1>4. setBack' = setBack /\ Checked' = 1 .. Len(lines')
  BY <1>3 DEF append_unlocked, Checked
<1>5. /\ now \in Nat /\ lastRoll \in Nat /\ lastFlush \in Nat /\ unflushed \in Nat
      /\ FlushInterval \in Nat
  BY <1>1, LimitsAssumption DEF FileTypeOK, Time
<1>6. FileOfOneDay'
  <2>1. PeriodOf(now) = PeriodOf(lastRoll) /\ opened' = lastRoll
    BY <1>1, <1>2 DEF Files, openVars
  <2>2. ASSUME ~setBack, NEW i \in 1 .. Len(lines')
        PROVE  PeriodOf(lines'[i]) = PeriodOf(lastRoll)
    <3>1. lastRoll <= lines'[i] /\ lines'[i] <= now /\ lines'[i] \in Nat
      BY <1>3, <2>2 DEF Time
    <3>2. QED BY <1>5, <2>1, <3>1, PeriodBetween
  <2>3. QED BY <1>4, <2>1, <2>2 DEF FileOfOneDay
<1>7. FlushedInTime'
  <2> SUFFICES ASSUME ~setBack, NEW i \in 1 .. Len(lines'), NEW j \in 1 .. Len(lines'),
                      Len(lines') - unflushed' < i, i < j
               PROVE  lines'[j] - lines'[i] <= FlushInterval
    BY <1>4 DEF FlushedInTime
  <2>1. unflushed' # 0
    BY <1>3
  <2>2. ~(now - lastFlush > FlushInterval) /\ unflushed' = unflushed + 1
    BY <2>1
  <2>3. lines'[j] <= now /\ lastFlush <= lines'[i]
    <3>1. lines'[j] <= now
      BY <1>3
    <3>2. Len(lines) + 1 - (unflushed + 1) < i
      BY <1>3, <1>5, <2>2
    <3>3. QED BY <1>3, <3>1, <3>2
  <2>4. lines'[i] \in Nat /\ lines'[j] \in Nat
    BY <1>3 DEF Time
  <2>5. QED BY <1>5, <2>2, <2>3, <2>4
<1>8. LongOnlyInItsSecond'
  BY DEF LongOnlyInItsSecond
<1>9. QED BY <1>2, <1>6, <1>7, <1>8 DEF FileInv

LEMMA AppendKeeps ==
    ASSUME FileInv, NEW len \in Lengths, append_unlocked(len)
    PROVE  FileInv'
<1> DEFINE bytes == writtenBytes + len
           after == Append(lines, now)
           pending == unflushed + 1
<1>1. CASE tooLong(bytes)
  <2>1. rollFile(now', bytes, after, pending) /\ tried' = now' /\ count' = count
    BY <1>1 DEF append_unlocked
  <2>2. CASE mayRoll(now')
    BY <2>1, <2>2, RollKeeps DEF rollFile
  <2>3. CASE ~mayRoll(now')
    BY <2>1, <2>3, NoRollKeeps DEF rollFile
  <2>4. QED BY <2>2, <2>3
<1>2. CASE ~tooLong(bytes) /\ ~(count + 1 >= CheckEveryN)
  BY <1>2, UncheckedKeeps DEF append_unlocked, nextCount, tooLong
<1>3. CASE ~tooLong(bytes) /\ count + 1 >= CheckEveryN
  <2>1. everyN(now', bytes, after, pending) /\ tried' = tried /\ count' = nextCount /\ count' = 0
    BY <1>3 DEF append_unlocked, nextCount
  <2>2. CASE PeriodOf(now) = startOfPeriod
    BY <1>3, <2>1, <2>2, CheckedKeeps DEF everyN, tooLong
  <2>3. CASE PeriodOf(now) # startOfPeriod
    <3>1. rollFile(now', bytes, after, pending)
      BY <2>1, <2>3 DEF everyN
    <3>2. CASE mayRoll(now')
      BY <2>1, <3>1, <3>2, RollKeeps DEF rollFile
    <3>3. CASE ~mayRoll(now')
      BY <1>3, <2>1, <3>1, <3>3, NoRollKeeps DEF rollFile, tooLong
    <3>4. QED BY <3>2, <3>3
  <2>4. QED BY <2>2, <2>3
<1>4. QED BY <1>1, <1>2, <1>3

LEMMA NextKeepsFileInv == FileInv /\ [FileNext]_fileVars => FileInv'
<1> SUFFICES ASSUME FileInv, [FileNext]_fileVars PROVE FileInv'
  OBVIOUS
<1>1. FileTypeOK /\ Files /\ Clock
  BY DEF FileInv
<1>2. CASE flush
  <2>1. FileTypeOK'
    BY <1>1, <1>2, LenProperties DEF flush, FileTypeOK, openVars
  <2>2. Len(lines) \in Nat /\ count \in Nat /\ DOMAIN lines = 1 .. Len(lines)
    BY <1>1, LenProperties DEF FileTypeOK
  <2>3. Clock'
    BY <1>1, <1>2, <2>2 DEF flush, Clock, openVars
  <2>4. FlushedInTime'
    BY <1>2, <2>2 DEF flush, FlushedInTime, Checked
  <2>5. Files' /\ LongOnlyInItsSecond' /\ FileOfOneDay'
    BY <1>2 DEF FileInv, flush, Files, WrittenIsSize, LongOnlyInItsSecond, FileOfOneDay, Checked,
                 openVars
  <2>6. QED BY <2>1, <2>3, <2>4, <2>5 DEF FileInv
<1>3. CASE tick \/ setClockBack \/ setTimeZone
  <2>1. /\ UNCHANGED <<count, startOfPeriod, lastRoll, lastFlush, writtenBytes, lines,
                       unflushed, opened, name, sizes, zoned, appends, tried>>
        /\ now' \in Time /\ setBack' \in BOOLEAN /\ g_logTimeZone' \in BOOLEAN
        /\ ~setBack' => ~setBack /\ now' \in {now, now + 1}
    <3>1. CASE tick
      BY <1>1, <3>1, InputsAssumption DEF tick, FileTypeOK, Time, openVars, contentVars
    <3>2. CASE setClockBack
      <4>1. now' \in Time
        BY <1>1, <3>2, InputsAssumption DEF setClockBack, FileTypeOK, Time
      <4>2. QED BY <1>1, <3>2, <4>1 DEF setClockBack, FileTypeOK, openVars, contentVars
    <3>3. CASE setTimeZone
      BY <1>1, <3>3 DEF setTimeZone, FileTypeOK, openVars, contentVars
    <3>4. QED BY <1>3, <3>1, <3>2, <3>3
  <2>2. FileTypeOK'
    BY <1>1, <2>1 DEF FileTypeOK
  <2>3. Clock'
    <3> SUFFICES ASSUME ~setBack' PROVE Clock'
      BY DEF Clock
    <3>1. now \in Nat /\ lastFlush \in Nat /\ now' \in {now, now + 1} /\ ~setBack
      BY <1>1, <2>1 DEF FileTypeOK, Time
    <3>2. \A i \in DOMAIN lines : lines[i] \in Nat
      <4>1. lines \in Seq(Time) /\ DOMAIN lines = 1 .. Len(lines) /\ Time \subseteq Nat
        BY <1>1, LenProperties, NamesType DEF FileTypeOK
      <4>2. QED BY <4>1, ElementOfSeq
    <3>3. QED BY <1>1, <2>1, <3>1, <3>2 DEF Clock
  <2>4. Files' /\ LongOnlyInItsSecond'
    BY <2>1 DEF FileInv, Files, WrittenIsSize, LongOnlyInItsSecond
  <2>5. FileOfOneDay' /\ FlushedInTime'
    BY <2>1 DEF FileInv, FileOfOneDay, FlushedInTime, Checked
  <2>6. QED BY <2>2, <2>3, <2>4, <2>5 DEF FileInv
<1>4. CASE UNCHANGED fileVars
  BY <1>4 DEF FileInv, FileTypeOK, Files, WrittenIsSize, Clock, LongOnlyInItsSecond, FileOfOneDay,
     FlushedInTime, Checked, fileVars, openVars, contentVars
<1>5. QED BY <1>2, <1>3, <1>4, AppendKeeps DEF FileNext

\* The inductive invariant: types, times and what the lines not checked yet may be.
THEOREM FileInvariant == FileSpec => []FileInv
<1>1. QED BY InitFileInv, NextKeepsFileInv, PTL DEF FileSpec

\* Types, and that the count of lines stays below CheckEveryN.
THEOREM FileTypeCorrect == FileSpec => []FileTypeOK
<1>1. FileInv => FileTypeOK
  BY DEF FileInv
<1>2. QED BY FileInvariant, <1>1, PTL

\* LogFile.cpp:58 and 81: the count of bytes that is tested against RollSize is the size
\* of the file, whatever the clock does, as long as files are named by UTC.
THEOREM WrittenIsFileSize == FileSpec => []WrittenIsSize
<1>1. FileInv => WrittenIsSize
  BY DEF FileInv, Files
<1>2. QED BY FileInvariant, <1>1, PTL

\* More than RollSize is written to a file only while the clock has not moved on.
THEOREM RollsInTime == FileSpec => []LongOnlyInItsSecond
<1>1. FileInv => LongOnlyInItsSecond
  BY DEF FileInv
<1>2. QED BY FileInvariant, <1>1, PTL

\* Of the lines written since the file was opened at most CheckEveryN - 1 are of another day.
THEOREM OneDayPerFile == FileSpec => []FileOfOneDay
<1>1. FileInv => FileOfOneDay
  BY DEF FileInv
<1>2. QED BY FileInvariant, <1>1, PTL

\* Checked lines wait in the buffer no longer than FlushInterval.
THEOREM FlushesInTime == FileSpec => []FlushedInTime
<1>1. FileInv => FlushedInTime
  BY DEF FileInv
<1>2. QED BY FileInvariant, <1>1, PTL

-----------------------------------------------------------------------------
(* The calendar *)

LEMMA OnlyQuotient ==
    ASSUME NEW R \in Nat \ {0}, NEW a \in Nat, NEW q \in Int, NEW r \in Nat, r < R,
           a = R * q + r
    PROVE  a \div R = q
<1> DEFINE e == a \div R
<1>1. e \in Nat /\ a % R \in 0 .. R - 1 /\ a = R * e + (a % R)
  BY Division
<1>2. a % R = r
  <2>1. r \in 0 .. R - 1
    OBVIOUS
  <2>2. QED BY <2>1, OnlyRemainder
<1> HIDE DEF e
<1>3. R * (e - q) = 0 /\ e - q \in Int
  BY <1>1, <1>2
<1>4. e - q = 0
  BY <1>3, Multiples
<1>5. QED BY <1>1, <1>4 DEF e

Year  == Nat
Month == 1 .. 12
IsDate(y, m, d) == y \in Nat /\ m \in Month /\ d \in 1 .. DaysIn(y, m)

\* The years of getJulianDayNumber begin in March: the year, and the days before the month.
MarchYear(y, m) == IF m <= 2 THEN y + 4799 ELSE y + 4800
MarchMonth(m)   == IF m <= 2 THEN m + 9 ELSE m - 3
DaysBeforeMonth(m) == <<306, 337, 0, 31, 61, 92, 122, 153, 184, 214, 245, 275>>[m]
DaysBeforeYear(y)  == y * 365 + y \div 4 - (y \div 100) + y \div 400

LEMMA DayNumber ==
    ASSUME NEW y \in Nat, NEW m \in Month, NEW d \in Int
    PROVE  getJulianDayNumber(y, m, d) =
               d + DaysBeforeMonth(m) + DaysBeforeYear(MarchYear(y, m)) - 32045
<1>1. /\ m <= 2 => (14 - m) \div 12 = 1
      /\ m > 2 => (14 - m) \div 12 = 0
  BY DEF Month
<1>2. ASSUME NEW k \in 0 .. 1, k = (14 - m) \div 12
      PROVE  /\ y + 4800 - k = MarchYear(y, m)
             /\ m + 12 * k - 3 = MarchMonth(m)
  BY <1>1, <1>2 DEF MarchYear, MarchMonth, Month
<1>3. (153 * MarchMonth(m) + 2) \div 5 = DaysBeforeMonth(m)
  <2>1. m \in {1, 2, 3, 4, 5, 6, 7, 8, 9, 10, 11, 12}
    BY DEF Month
  <2>2. QED BY <2>1 DEF MarchMonth, DaysBeforeMonth
<1> DEFINE a == (14 - m) \div 12
<1>4. a \in 0 .. 1 /\ y + 4800 - a = MarchYear(y, m) /\ m + 12 * a - 3 = MarchMonth(m)
  BY <1>1, <1>2 DEF Month
<1>5. getJulianDayNumber(y, m, d) =
          d + (153 * (m + 12 * a - 3) + 2) \div 5 + (y + 4800 - a) * 365
            + (y + 4800 - a) \div 4 - ((y + 4800 - a) \div 100) + (y + 4800 - a) \div 400 - 32045
  BY DEF getJulianDayNumber
<1> HIDE DEF a
<1>6. DaysBeforeMonth(m) \in Int /\ MarchYear(y, m) \in Nat
  <2>1. m \in {1, 2, 3, 4, 5, 6, 7, 8, 9, 10, 11, 12}
    BY DEF Month
  <2>2. QED BY <2>1 DEF MarchYear, DaysBeforeMonth
<1>7. getJulianDayNumber(y, m, d) =
          d + DaysBeforeMonth(m) + MarchYear(y, m) * 365 + MarchYear(y, m) \div 4
            - (MarchYear(y, m) \div 100) + MarchYear(y, m) \div 400 - 32045
  BY <1>3, <1>4, <1>5
<1>8. QED BY <1>6, <1>7 DEF DaysBeforeYear

\* One year of March to February later.
LEMMA NextMarch ==
    ASSUME NEW y \in Nat
    PROVE  DaysBeforeYear(y + 4800) = DaysBeforeYear(y + 4799) + DaysInYear(y)
<1>1. (y + 4800) \div 4 = (y + 4799) \div 4 + (IF y % 4 = 0 THEN 1 ELSE 0)
  OBVIOUS
<1>2. (y + 4800) \div 100 = (y + 4799) \div 100 + (IF y % 100 = 0 THEN 1 ELSE 0)
  OBVIOUS
<1>3. (y + 4800) \div 400 = (y + 4799) \div 400 + (IF y % 400 = 0 THEN 1 ELSE 0)
  OBVIOUS
<1>4. (y % 400 = 0 => y % 100 = 0) /\ (y % 100 = 0 => y % 4 = 0)
  OBVIOUS
<1>5. QED BY <1>1, <1>2, <1>3, <1>4 DEF DaysBeforeYear, DaysInYear, IsLeap

\* The days of a month, of a year, and of all years, one after the other.
LEMMA NextMonth ==
    ASSUME NEW y \in Nat, NEW m \in Month, m < 12
    PROVE  /\ DaysIn(y, m) \in 28 .. 31
           /\ getJulianDayNumber(y, m + 1, 1) = getJulianDayNumber(y, m, DaysIn(y, m)) + 1
<1>1. m \in {1, 2, 3, 4, 5, 6, 7, 8, 9, 10, 11} /\ m + 1 \in Month
  BY DEF Month
<1>2. DaysIn(y, m) \in 28 .. 31
  BY <1>1 DEF DaysIn
<1>3. /\ getJulianDayNumber(y, m + 1, 1) =
             1 + DaysBeforeMonth(m + 1) + DaysBeforeYear(MarchYear(y, m + 1)) - 32045
      /\ getJulianDayNumber(y, m, DaysIn(y, m)) =
             DaysIn(y, m) + DaysBeforeMonth(m) + DaysBeforeYear(MarchYear(y, m)) - 32045
  BY <1>1, <1>2, DayNumber
<1>4. DaysBeforeYear(y + 4800) \in Int /\ DaysBeforeYear(y + 4799) \in Int
  BY DEF DaysBeforeYear
<1>5. CASE m = 2
  BY <1>3, <1>4, <1>5, NextMarch DEF DaysIn, DaysInYear, MarchYear, DaysBeforeMonth
<1>6. CASE m # 2
  <2>1. /\ MarchYear(y, m + 1) = MarchYear(y, m)
        /\ MarchYear(y, m) \in {y + 4800, y + 4799}
    BY <1>1, <1>6 DEF MarchYear
  <2>2. DaysBeforeMonth(m + 1) = DaysBeforeMonth(m) + DaysIn(y, m) /\ DaysBeforeMonth(m) \in Int
    BY <1>1, <1>6 DEF DaysBeforeMonth, DaysIn
  <2>3. QED BY <1>2, <1>3, <1>4, <2>1, <2>2
<1>7. QED BY <1>2, <1>5, <1>6

LEMMA NextYear ==
    ASSUME NEW y \in Nat
    PROVE  /\ getJulianDayNumber(y + 1, 1, 1) = getJulianDayNumber(y, 12, 31) + 1
           /\ getJulianDayNumber(y + 1, 1, 1) = getJulianDayNumber(y, 1, 1) + DaysInYear(y)
<1>1. 1 \in Month /\ 12 \in Month /\ y + 1 \in Nat
  BY DEF Month
<1>2. /\ getJulianDayNumber(y + 1, 1, 1) = 1 + 306 + DaysBeforeYear(y + 4800) - 32045
      /\ getJulianDayNumber(y, 1, 1) = 1 + 306 + DaysBeforeYear(y + 4799) - 32045
      /\ getJulianDayNumber(y, 12, 31) = 31 + 275 + DaysBeforeYear(y + 4800) - 32045
  <2>1. /\ MarchYear(y + 1, 1) = y + 4800 /\ MarchYear(y, 1) = y + 4799
        /\ MarchYear(y, 12) = y + 4800
        /\ DaysBeforeMonth(1) = 306 /\ DaysBeforeMonth(12) = 275
    BY SMT DEF MarchYear, DaysBeforeMonth
  <2>2. getJulianDayNumber(y + 1, 1, 1) =
            1 + DaysBeforeMonth(1) + DaysBeforeYear(MarchYear(y + 1, 1)) - 32045
    BY <1>1, DayNumber, SMT
  <2>3. getJulianDayNumber(y, 1, 1) =
            1 + DaysBeforeMonth(1) + DaysBeforeYear(MarchYear(y, 1)) - 32045
    BY <1>1, DayNumber, SMT
  <2>4. getJulianDayNumber(y, 12, 31) =
            31 + DaysBeforeMonth(12) + DaysBeforeYear(MarchYear(y, 12)) - 32045
    BY <1>1, DayNumber, SMT
  <2>5. QED BY <2>1, <2>2, <2>3, <2>4, SMT
<1>3. DaysBeforeYear(y + 4800) \in Int /\ DaysBeforeYear(y + 4799) \in Int
  BY SMT DEF DaysBeforeYear
<1>4. DaysInYear(y) \in Int
  BY SMT DEF DaysInYear
<1>5. QED BY <1>2, <1>3, <1>4, NextMarch, SMT

\* The fields of a date are found again in its number: the century, the year in it, the
\* month and the day.
LEMMA CenturyRest ==
    ASSUME NEW j \in 0 .. 3, NEW r \in 0 .. 99, NEW e \in Nat, e <= 365, NEW q \in 0 .. 24,
           e = 365 => r <= 95 \/ j = 3
    PROVE  /\ 4 * (365 * r + q + e) + 3 - j \in Nat
           /\ 4 * (365 * r + q + e) + 3 - j < 146097
<1>1. r <= 98 \/ r = 99
  BY SMT
<1>2. CASE r <= 98
  BY <1>2, SMT
<1>3. CASE r = 99
  <2>1. CASE e = 365
    <3>1. ~(r <= 95)
      BY <1>3
    <3>2. j = 3
      BY <2>1, <3>1
    <3>3. QED BY <1>3, <2>1, <3>2, SMT
  <2>2. CASE e # 365
    BY <1>3, <2>2, SMT
  <2>3. QED BY <2>1, <2>2
<1>4. QED BY <1>1, <1>2, <1>3

LEMMA CenturyQuotient ==
    ASSUME NEW b \in Nat, NEW f \in Nat, f < 146097
    PROVE  (146097 * b + f) \div 146097 = b
<1> DEFINE R == 146097  a == R * b + f
<1>1. R \in Nat \ {0} /\ a \in Nat /\ b \in Int /\ f \in Nat /\ f < R /\ a = R * b + f
  BY SMT
<1> HIDE DEF R, a
<1>2. a \div R = b
  BY <1>1, OnlyQuotient
<1>3. QED BY <1>2 DEF R, a

\* Year r of century j of the k-th four centuries, and day e of the year.
Parts(k, j, r, e) ==
    /\ k \in Nat /\ j \in 0 .. 3 /\ r \in 0 .. 99
    /\ e \in Nat /\ e <= 365
    /\ e = 365 => r % 4 = 3 /\ (r = 99 => j = 3)

DaysOfYears(r, e)   == 365 * r + r \div 4 + e
DaysOf(k, j, r, e)  == 146097 * k + 36524 * j + DaysOfYears(r, e)
CenturyOf(a)        == (4 * a + 3) \div 146097
DayInCentury(a)     == a - ((CenturyOf(a) * 146097) \div 4)
YearOf(c)           == (4 * c + 3) \div 1461
DayInYear(c)        == c - ((1461 * YearOf(c)) \div 4)

LEMMA CenturyFound ==
    ASSUME NEW k, NEW j, NEW r, NEW e, Parts(k, j, r, e)
    PROVE  /\ CenturyOf(DaysOf(k, j, r, e)) = 4 * k + j
           /\ DayInCentury(DaysOf(k, j, r, e)) = DaysOfYears(r, e)
<1>p. /\ k \in Nat /\ j \in 0 .. 3 /\ r \in 0 .. 99
      /\ e \in Nat /\ e <= 365
      /\ e = 365 => r % 4 = 3 /\ (r = 99 => j = 3)
  BY DEF Parts
<1> DEFINE q == r \div 4
           a == DaysOf(k, j, r, e)
           f == 4 * (365 * r + q + e) + 3 - j
<1>1. q \in 0 .. 24 /\ (e = 365 => r <= 95 \/ j = 3)
  BY <1>p, SMT
<1>0. a = 146097 * k + 36524 * j + 365 * r + q + e
  BY <1>p, SMT DEF DaysOf, DaysOfYears
<1> HIDE DEF q, a
<1>2. f \in Nat /\ f < 146097 /\ 4 * k + j \in Nat
  <2>1. f \in Nat /\ f < 146097
    <3>1. j \in 0 .. 3 /\ r \in 0 .. 99 /\ e \in Nat /\ e <= 365
      BY <1>p
    <3>2. QED BY <1>1, <3>1, CenturyRest, SMTT(60)
  <2>2. 4 * k + j \in Nat
    BY <1>p, SMT
  <2>3. QED BY <2>1, <2>2
<1>3. 4 * a + 3 = 146097 * (4 * k + j) + f
  BY <1>p, <1>0, <1>1, SMT
<1> HIDE DEF f
<1>4. (4 * a + 3) \div 146097 = 4 * k + j
  BY <1>2, <1>3, CenturyQuotient
<1>5. ((4 * k + j) * 146097) \div 4 = 146097 * k + 36524 * j
  BY <1>p, SMT
<1>6. a - (146097 * k + 36524 * j) = 365 * r + q + e
  BY <1>p, <1>0, <1>1, SMT
<1>7. CenturyOf(a) = 4 * k + j /\ DayInCentury(a) = 365 * r + q + e
  BY <1>4, <1>5, <1>6 DEF CenturyOf, DayInCentury
<1>8. QED BY <1>7 DEF q, a, DaysOfYears

LEMMA YearFound ==
    ASSUME NEW k, NEW j, NEW r, NEW e, Parts(k, j, r, e)
    PROVE  YearOf(DaysOfYears(r, e)) = r /\ DayInYear(DaysOfYears(r, e)) = e
<1>p. r \in 0 .. 99 /\ e \in Nat /\ e <= 365 /\ (e = 365 => r % 4 = 3)
  BY DEF Parts
<1> DEFINE q == r \div 4  i == r % 4  c == DaysOfYears(r, e)
<1>1. q \in 0 .. 24 /\ i \in 0 .. 3 /\ r = 4 * q + i
  BY <1>p, SMT
<1>2. c = 1461 * q + 365 * i + e
  BY <1>p, <1>1, SMT DEF DaysOfYears
<1>3. e = 365 => i = 3
  BY <1>p, SMT
<1> HIDE DEF q, i, c
<1>4. (4 * c + 3) \div 1461 = 4 * q + i
  BY <1>p, <1>1, <1>2, <1>3, SMT
<1>5. (1461 * (4 * q + i)) \div 4 = 1461 * q + 365 * i
  BY <1>1, SMT
<1>6. YearOf(c) = r /\ DayInYear(c) = c - (1461 * q + 365 * i)
  BY <1>1, <1>4, <1>5 DEF YearOf, DayInYear
<1>7. c - (1461 * q + 365 * i) = e
  BY <1>p, <1>1, <1>2, SMT
<1>8. QED BY <1>6, <1>7 DEF c

LEMMA MonthFound ==
    ASSUME NEW y \in Nat, NEW m \in Month, NEW d \in 1 .. DaysIn(y, m),
           NEW e, e = d - 1 + DaysBeforeMonth(m)
    PROVE  LET k == (5 * e + 2) \div 153
           IN  /\ e \in Nat /\ e <= 365 /\ (e = 365 => IsLeap(y) /\ m = 2)
               /\ e - ((153 * k + 2) \div 5) + 1 = d
               /\ k + 3 - (12 * (k \div 10)) = m
               /\ k \div 10 = IF m <= 2 THEN 1 ELSE 0
<1>1. m \in {1, 2, 3, 4, 5, 6, 7, 8, 9, 10, 11, 12}
  BY DEF Month
<1>2. d \in 1 .. 31 /\ (m = 2 => d <= 29 /\ (d = 29 => IsLeap(y)))
      /\ (m \in {4, 6, 9, 11} => d <= 30)
  BY <1>1, SMT DEF DaysIn
<1>3. (5 * e + 2) \div 153 = MarchMonth(m)
  BY <1>1, <1>2, SMT DEF MarchMonth, DaysBeforeMonth
<1>4. (153 * MarchMonth(m) + 2) \div 5 = DaysBeforeMonth(m)
  BY <1>1, SMT DEF MarchMonth, DaysBeforeMonth
<1>5. /\ MarchMonth(m) + 3 - (12 * (MarchMonth(m) \div 10)) = m
      /\ MarchMonth(m) \div 10 = IF m <= 2 THEN 1 ELSE 0
  BY <1>1, SMT DEF MarchMonth
<1>6. /\ e \in Nat /\ e <= 365 /\ (e = 365 => IsLeap(y) /\ m = 2)
      /\ e - DaysBeforeMonth(m) + 1 = d
  BY <1>1, <1>2, SMT DEF DaysBeforeMonth
<1>7. QED BY <1>3, <1>4, <1>5, <1>6, SMT

LEMMA DateFound ==
    ASSUME NEW y \in Nat, NEW m \in Month, NEW d \in 1 .. DaysIn(y, m)
    PROVE  /\ getJulianDayNumber(y, m, d) \in Int
           /\ getYearMonthDay(getJulianDayNumber(y, m, d)) = [year |-> y, month |-> m, day |-> d]
<1> DEFINE n == getJulianDayNumber(y, m, d)
           Y == MarchYear(y, m)
           e == d - 1 + DaysBeforeMonth(m)
           k == Y \div 400
           j == (Y \div 100) % 4
           r == Y % 100
<1>1. /\ Y \in Nat /\ (m > 2 => Y = y + 4800) /\ (m <= 2 => Y = y + 4799)
      /\ DaysIn(y, m) \in 28 .. 31
  BY DEF MarchYear, Month, DaysIn
<1>2. /\ e \in Nat /\ e <= 365 /\ (e = 365 => IsLeap(y) /\ m = 2)
      /\ e - ((153 * ((5 * e + 2) \div 153) + 2) \div 5) + 1 = d
      /\ ((5 * e + 2) \div 153) + 3 - (12 * (((5 * e + 2) \div 153) \div 10)) = m
      /\ ((5 * e + 2) \div 153) \div 10 = IF m <= 2 THEN 1 ELSE 0
  BY MonthFound
<1>3. n = d + DaysBeforeMonth(m) + DaysBeforeYear(Y) - 32045
  BY <1>1, DayNumber
<1>4. d \in Int /\ DaysBeforeMonth(m) \in Int
  <2>1. m \in {1, 2, 3, 4, 5, 6, 7, 8, 9, 10, 11, 12}
    BY DEF Month
  <2>2. QED BY <1>1, <2>1 DEF DaysBeforeMonth
<1> HIDE DEF n, Y
<1>5. /\ k \in Nat /\ j \in 0 .. 3 /\ r \in 0 .. 99
      /\ Y = 400 * k + 100 * j + r /\ Y \div 100 = 4 * k + j
      /\ Y \div 4 = 100 * k + 25 * j + r \div 4 /\ r % 4 = Y % 4
  BY <1>1, SMT
<1>6. IsLeap(y) /\ m = 2 => r % 4 = 3 /\ (r = 99 => j = 3)
  <2>1. SUFFICES ASSUME IsLeap(y), m = 2 PROVE r % 4 = 3 /\ (r = 99 => j = 3)
    OBVIOUS
  <2>2. y % 4 = 0 /\ (y % 100 = 0 => y % 400 = 0) /\ Y = y + 4799
    BY <1>1, <2>1 DEF IsLeap
  <2>3. Y % 4 = 3
    BY <2>2, SMT
  <2>4. Y % 100 = 99 => y % 100 = 0
    BY <2>2, SMT
  <2>5. y % 400 = 0 => (Y \div 100) % 4 = 3
    BY <2>2, SMT
  <2>6. QED BY <1>5, <2>2, <2>3, <2>4, <2>5
<1> HIDE DEF e, k, j, r
<1>7. Parts(k, j, r, e)
  <2>1. e = 365 => r % 4 = 3 /\ (r = 99 => j = 3)
    BY <1>2, <1>6 DEF e
  <2>2. e \in Nat /\ e <= 365
    BY <1>2 DEF e
  <2>3. QED BY <1>5, <2>1, <2>2 DEF Parts
<1> DEFINE a == DaysOf(k, j, r, e)
<1>8. n + 32044 = a /\ n \in Int
  <2>1. DaysBeforeYear(Y) = 365 * Y + (100 * k + 25 * j + r \div 4) - (4 * k + j) + k
    BY <1>5, SMT DEF DaysBeforeYear, k
  <2>2. e = d - 1 + DaysBeforeMonth(m) /\ r \div 4 \in Int
    BY <1>5, SMT DEF e
  <2>3. a = 146097 * k + 36524 * j + 365 * r + r \div 4 + e
    BY <1>4, <1>5, <2>2, SMT DEF DaysOf, DaysOfYears
  <2>4. QED BY <1>3, <1>4, <1>5, <2>1, <2>2, <2>3, SMT
<1> DEFINE v == (5 * e + 2) \div 153
<1>9. /\ CenturyOf(a) = 4 * k + j /\ YearOf(DayInCentury(a)) = r
      /\ DayInYear(DayInCentury(a)) = e
  BY <1>7, CenturyFound, YearFound
<1>10. getYearMonthDay(n) =
          [day |-> e - ((153 * v + 2) \div 5) + 1, month |-> v + 3 - (12 * (v \div 10)),
           year |-> (4 * k + j) * 100 + r - 4800 + v \div 10]
  <2>1. n + 32044 = a
    BY <1>8
  <2> HIDE DEF a
  <2>2. getYearMonthDay(n) =
          [day |-> DayInYear(DayInCentury(a)) - ((153 * ((5 * DayInYear(DayInCentury(a)) + 2) \div 153) + 2) \div 5) + 1,
           month |-> ((5 * DayInYear(DayInCentury(a)) + 2) \div 153) + 3 - (12 * (((5 * DayInYear(DayInCentury(a)) + 2) \div 153) \div 10)),
           year |-> CenturyOf(a) * 100 + YearOf(DayInCentury(a)) - 4800 + ((5 * DayInYear(DayInCentury(a)) + 2) \div 153) \div 10]
    BY <2>1 DEF getYearMonthDay, CenturyOf, DayInCentury, YearOf, DayInYear
  <2>3. QED BY <1>9, <2>2
<1>11. /\ e - ((153 * v + 2) \div 5) + 1 = d /\ v + 3 - (12 * (v \div 10)) = m
       /\ v \div 10 = IF m <= 2 THEN 1 ELSE 0
  BY <1>2 DEF e
<1> HIDE DEF v
<1>12. (4 * k + j) * 100 + r - 4800 + v \div 10 = y
  <2>1. m <= 2 \/ m > 2
    BY SMT DEF Month
  <2>2. CASE m <= 2
    BY <1>1, <1>5, <1>11, <2>2, SMT
  <2>3. CASE m > 2
    <3>1. v \div 10 = 0 /\ Y = y + 4800
      BY <1>1, <1>11, <2>3, SMT DEF Month
    <3>2. QED BY <1>5, <3>1, SMT
  <2>4. QED BY <2>1, <2>2, <2>3
<1>13. QED BY <1>8, <1>10, <1>11, <1>12 DEF n

-----------------------------------------------------------------------------
(* Times in UTC *)

LEMMA EpochNumber == kJulianDayOf1970_01_01 = Epoch /\ weekDay(Epoch) = 4
<1>1. kJulianDayOf1970_01_01 = 1 + DaysBeforeMonth(1) + DaysBeforeYear(MarchYear(1970, 1)) - 32045
  BY DayNumber, SMT DEF kJulianDayOf1970_01_01, Month
<1>2. DaysBeforeMonth(1) = 306 /\ MarchYear(1970, 1) = 6769
  BY SMT DEF DaysBeforeMonth, MarchYear
<1>3. DaysBeforeYear(6769) = 2472326
  BY SMT DEF DaysBeforeYear
<1>4. QED BY <1>1, <1>2, <1>3, SMT DEF Epoch, weekDay

\* Before the epoch too, where division and remainder are of another sign.
LEMMA DayAndSecond ==
    ASSUME NEW D \in Int, NEW s \in Nat, s < 86400
    PROVE  dayAndSecond(D * 86400 + s) = [day |-> D, second |-> s]
<1> DEFINE t == D * 86400 + s
<1>1. t \in Int /\ t \div 86400 = D /\ t % 86400 = s
  BY SMT
<1>2. CASE t < 0 /\ s # 0
  <2>1. Quotient(t, 86400) = D + 1 /\ Remainder(t, 86400) = s - 86400
    BY <1>1, <1>2, SMT DEF Quotient, Remainder
  <2>2. QED BY <2>1, SMT DEF dayAndSecond, kSecondsPerDay
<1>3. CASE ~(t < 0 /\ s # 0)
  <2>1. Quotient(t, 86400) = D /\ Remainder(t, 86400) = s
    BY <1>1, <1>3, SMT DEF Quotient, Remainder
  <2>2. QED BY <2>1, SMT DEF dayAndSecond, kSecondsPerDay
<1>4. QED BY <1>2, <1>3

ClockAgrees(h, m, s) ==
    LET t == h * 3600 + m * 60 + s
    IN  t \in Nat /\ t < 86400 /\ fillHMS(t) = [sec |-> s, min |-> m, hour |-> h]

LEMMA ClockFound ==
    ASSUME NEW h \in 0 .. 23, NEW m \in 0 .. 59, NEW s \in 0 .. 59
    PROVE  ClockAgrees(h, m, s)
<1> DEFINE t == h * 3600 + m * 60 + s
<1>1. t \in Nat /\ t < 86400 /\ t % 60 = s /\ t \div 60 = h * 60 + m
  BY SMT
<1>2. (h * 60 + m) % 60 = m /\ (h * 60 + m) \div 60 = h
  BY SMT
<1> HIDE DEF t
<1>3. fillHMS(t) = [sec |-> s, min |-> m, hour |-> h]
  BY <1>1, <1>2 DEF fillHMS
<1>4. QED BY <1>1, <1>3 DEF t, ClockAgrees

-----------------------------------------------------------------------------
(* The calendar walked *)

Dates == [year : Nat, month : Month, day : Nat, yday : Int, wday : Int]

\* What a walk through the calendar keeps.
Dated(date, n) ==
    /\ date \in Dates /\ date.day \in 1 .. DaysIn(date.year, date.month)
    /\ n = getJulianDayNumber(date.year, date.month, date.day)
    /\ date.wday = weekDay(n)
    /\ date.yday = n - getJulianDayNumber(date.year, 1, 1)

LEMMA WeekGoesOn ==
    ASSUME NEW n \in Int
    PROVE  /\ weekDay(n + 1) = (weekDay(n) + 1) % 7
           /\ weekDay(n - 1) = (weekDay(n) + 6) % 7
           /\ weekDay(n) \in Int
BY SMT DEF weekDay

\* The same month, a day later.
LEMMA NextInMonth ==
    ASSUME NEW y \in Nat, NEW m \in Month, NEW d \in Int
    PROVE  /\ getJulianDayNumber(y, m, d) \in Int
           /\ getJulianDayNumber(y, m, d + 1) = getJulianDayNumber(y, m, d) + 1
           /\ getJulianDayNumber(y, m, d - 1) = getJulianDayNumber(y, m, d) - 1
<1>1. MarchYear(y, m) \in Nat
  BY SMT DEF MarchYear, Month
<1>2. DaysBeforeYear(MarchYear(y, m)) \in Int
  BY <1>1, SMT DEF DaysBeforeYear
<1>3. DaysBeforeMonth(m) \in Int
  <2>1. m \in {1, 2, 3, 4, 5, 6, 7, 8, 9, 10, 11, 12}
    BY DEF Month
  <2>2. QED BY <2>1 DEF DaysBeforeMonth
<1>4. /\ getJulianDayNumber(y, m, d) =
             d + DaysBeforeMonth(m) + DaysBeforeYear(MarchYear(y, m)) - 32045
      /\ getJulianDayNumber(y, m, d + 1) =
             d + 1 + DaysBeforeMonth(m) + DaysBeforeYear(MarchYear(y, m)) - 32045
      /\ getJulianDayNumber(y, m, d - 1) =
             d - 1 + DaysBeforeMonth(m) + DaysBeforeYear(MarchYear(y, m)) - 32045
  BY DayNumber, d + 1 \in Int, d - 1 \in Int
<1>5. QED BY <1>2, <1>3, <1>4, SMT

LEMMA DayAfterDated ==
    ASSUME NEW date, NEW n, Dated(date, n)
    PROVE  Dated(DayAfter(date), n + 1)
<1> DEFINE y == date.year  m == date.month  d == date.day
           w == (date.wday + 1) % 7
<1>1. /\ date \in Dates /\ y \in Nat /\ m \in Month /\ d \in 1 .. DaysIn(y, m)
      /\ n = getJulianDayNumber(y, m, d) /\ date.wday = weekDay(n)
      /\ date.yday = n - getJulianDayNumber(y, 1, 1)
  BY DEF Dated, Dates
<1>2. DaysIn(y, m) \in 28 .. 31 /\ (m = 12 => DaysIn(y, m) = 31)
  BY <1>1, SMT DEF DaysIn
<1>3. /\ n \in Int /\ getJulianDayNumber(y, 1, 1) \in Int
      /\ getJulianDayNumber(y, m, d + 1) = n + 1
  <2>1. 1 \in Month /\ 1 \in Int /\ d \in Int
    BY <1>1, <1>2, SMT DEF Month
  <2>2. getJulianDayNumber(y, 1, 1) \in Int
    BY <1>1, <2>1, NextInMonth
  <2>3. /\ getJulianDayNumber(y, m, d) \in Int
        /\ getJulianDayNumber(y, m, d + 1) = getJulianDayNumber(y, m, d) + 1
    BY <1>1, <2>1, NextInMonth
  <2>4. QED BY <1>1, <2>2, <2>3
<1>4. w = weekDay(n + 1) /\ w \in Int
  BY <1>1, <1>3, WeekGoesOn
<1>5. CASE d < DaysIn(y, m)
  <2> DEFINE next == [date EXCEPT !.day = @ + 1, !.yday = @ + 1, !.wday = w]
  <2>1. DayAfter(date) = next
    BY <1>5 DEF DayAfter
  <2>2. /\ next \in Dates /\ next.year = y /\ next.month = m /\ next.day = d + 1
        /\ next.yday = date.yday + 1 /\ next.wday = w
    <3>1. d + 1 \in Nat /\ date.yday + 1 \in Int /\ w \in Int
      BY <1>1, <1>2, <1>4, SMT DEF Dates
    <3>2. QED BY <1>1, <3>1 DEF Dates
  <2> HIDE DEF next
  <2>3. d + 1 \in 1 .. DaysIn(y, m) /\ date.yday + 1 = (n + 1) - getJulianDayNumber(y, 1, 1)
    BY <1>1, <1>2, <1>3, <1>5, SMT
  <2>4. QED BY <1>3, <1>4, <2>1, <2>2, <2>3 DEF Dated
<1>6. CASE d = DaysIn(y, m) /\ m < 12
  <2> DEFINE next == [date EXCEPT !.day = 1, !.month = @ + 1, !.yday = @ + 1, !.wday = w]
  <2>1. DayAfter(date) = next
    BY <1>2, <1>6, SMT DEF DayAfter
  <2>2. /\ next \in Dates /\ next.year = y /\ next.month = m + 1 /\ next.day = 1
        /\ next.yday = date.yday + 1 /\ next.wday = w /\ m + 1 \in Month
    <3>1. m + 1 \in Month /\ date.yday + 1 \in Int /\ w \in Int /\ 1 \in Nat
      BY <1>1, <1>4, <1>6, SMT DEF Dates, Month
    <3>2. QED BY <1>1, <3>1 DEF Dates
  <2> HIDE DEF next
  <2>3. date.yday + 1 = (n + 1) - getJulianDayNumber(y, 1, 1)
    BY <1>1, <1>3, SMT
  <2>4. getJulianDayNumber(y, m + 1, 1) = n + 1
    BY <1>1, <1>6, NextMonth
  <2>5. 1 \in 1 .. DaysIn(y, m + 1)
    BY <1>1, <2>2, SMT DEF DaysIn
  <2>6. QED BY <1>3, <1>4, <2>1, <2>2, <2>3, <2>4, <2>5 DEF Dated
<1>7. CASE d = DaysIn(y, m) /\ ~(m < 12)
  <2> DEFINE next == [year |-> y + 1, month |-> 1, day |-> 1, yday |-> 0, wday |-> w]
  <2>1. DayAfter(date) = next
    BY <1>2, <1>7, SMT DEF DayAfter
  <2>2. /\ next \in Dates /\ next.year = y + 1 /\ next.month = 1 /\ next.day = 1
        /\ next.yday = 0 /\ next.wday = w /\ m = 12 /\ d = 31 /\ y + 1 \in Nat
    BY <1>1, <1>2, <1>4, <1>7 DEF Dates, Month
  <2> HIDE DEF next
  <2>3. getJulianDayNumber(y + 1, 1, 1) = n + 1
    BY <1>1, <2>2, NextYear
  <2>4. 0 = (n + 1) - getJulianDayNumber(y + 1, 1, 1)
    BY <1>3, <2>3
  <2>5. 1 \in 1 .. DaysIn(y + 1, 1)
    BY SMT DEF DaysIn
  <2>6. QED BY <1>3, <1>4, <2>1, <2>2, <2>3, <2>4, <2>5 DEF Dated
<1>8. d < DaysIn(y, m) \/ d = DaysIn(y, m)
  BY <1>1, <1>2, SMT
<1>9. QED BY <1>5, <1>6, <1>7, <1>8

LEMMA DayBeforeDated ==
    ASSUME NEW date, NEW n, Dated(date, n), date.year >= 1
    PROVE  Dated(DayBefore(date), n - 1)
<1> DEFINE y == date.year  m == date.month  d == date.day
           w == (date.wday + 6) % 7
<1>1. /\ date \in Dates /\ y \in Nat /\ m \in Month /\ d \in 1 .. DaysIn(y, m)
      /\ n = getJulianDayNumber(y, m, d) /\ date.wday = weekDay(n)
      /\ date.yday = n - getJulianDayNumber(y, 1, 1)
  BY DEF Dated, Dates
<1>2. DaysIn(y, m) \in 28 .. 31
  BY <1>1, SMT DEF DaysIn
<1>3. /\ n \in Int /\ getJulianDayNumber(y, 1, 1) \in Int
      /\ getJulianDayNumber(y, m, d - 1) = n - 1
  <2>1. 1 \in Month /\ 1 \in Int /\ d \in Int
    BY <1>1, <1>2, SMT DEF Month
  <2>2. getJulianDayNumber(y, 1, 1) \in Int
    BY <1>1, <2>1, NextInMonth
  <2>3. /\ getJulianDayNumber(y, m, d) \in Int
        /\ getJulianDayNumber(y, m, d - 1) = getJulianDayNumber(y, m, d) - 1
    BY <1>1, <2>1, NextInMonth
  <2>4. QED BY <1>1, <2>2, <2>3
<1>4. w = weekDay(n - 1) /\ w \in Int
  <2>1. weekDay(n - 1) = (weekDay(n) + 6) % 7 /\ weekDay(n) \in Int
    BY <1>3, WeekGoesOn
  <2>2. QED BY <1>1, <2>1
<1>5. CASE d > 1
  <2> DEFINE next == [date EXCEPT !.day = @ - 1, !.yday = @ - 1, !.wday = w]
  <2>1. DayBefore(date) = next
    BY <1>5 DEF DayBefore
  <2>2. /\ next \in Dates /\ next.year = y /\ next.month = m /\ next.day = d - 1
        /\ next.yday = date.yday - 1 /\ next.wday = w
    <3>1. d - 1 \in Nat /\ date.yday - 1 \in Int /\ w \in Int
      BY <1>1, <1>2, <1>4, <1>5, SMT DEF Dates
    <3>2. QED BY <1>1, <3>1 DEF Dates
  <2> HIDE DEF next
  <2>3. d - 1 \in 1 .. DaysIn(y, m) /\ date.yday - 1 = (n - 1) - getJulianDayNumber(y, 1, 1)
    BY <1>1, <1>2, <1>3, <1>5, SMT
  <2>4. QED BY <1>3, <1>4, <2>1, <2>2, <2>3 DEF Dated
<1>6. CASE d = 1 /\ m > 1
  <2> DEFINE last == DaysIn(y, m - 1)
             next == [date EXCEPT !.day = last, !.month = @ - 1, !.yday = @ - 1, !.wday = w]
  <2>1. DayBefore(date) = next
    BY <1>6, SMT DEF DayBefore
  <2>2. m - 1 \in Month /\ m - 1 < 12 /\ (m - 1) + 1 = m
    BY <1>1, <1>6, SMT DEF Month
  <2>3. last \in Int /\ last \in 28 .. 31 /\ getJulianDayNumber(y, m, 1) = getJulianDayNumber(y, m - 1, last) + 1
    BY <1>1, <2>2, NextMonth
  <2>4. /\ next \in Dates /\ next.year = y /\ next.month = m - 1 /\ next.day = last
        /\ next.yday = date.yday - 1 /\ next.wday = w
    <3>1. last \in Nat /\ date.yday - 1 \in Int /\ w \in Int
      BY <1>1, <1>4, <2>3, SMT DEF Dates
    <3>2. QED BY <1>1, <2>2, <3>1 DEF Dates
  <2> HIDE DEF next
  <2>5. date.yday - 1 = (n - 1) - getJulianDayNumber(y, 1, 1)
    BY <1>1, <1>3, SMT
  <2>6. getJulianDayNumber(y, m - 1, last) = n - 1
    <3>1. getJulianDayNumber(y, m - 1, last) \in Int
      <4> HIDE DEF last
      <4>1. QED BY <1>1, <2>2, <2>3, NextInMonth
    <3>2. n = getJulianDayNumber(y, m - 1, last) + 1
      BY <1>1, <1>6, <2>3
    <3>3. QED BY <3>1, <3>2, SMT
  <2>7. last \in 1 .. DaysIn(y, m - 1)
    BY <2>3, SMT
  <2>8. QED BY <1>3, <1>4, <2>1, <2>4, <2>5, <2>6, <2>7 DEF Dated
<1>7. CASE d = 1 /\ ~(m > 1)
  <2> DEFINE next == [year |-> y - 1, month |-> 12, day |-> 31, yday |-> DaysInYear(y - 1) - 1,
                      wday |-> w]
  <2>1. DayBefore(date) = next
    BY <1>7, SMT DEF DayBefore
  <2>2. m = 1 /\ y - 1 \in Nat /\ (y - 1) + 1 = y /\ 12 \in Month /\ 1 \in Month
    BY <1>1, <1>7, SMT DEF Month
  <2>3. DaysInYear(y - 1) \in Int
    BY SMT DEF DaysInYear
  <2>4. /\ next \in Dates /\ next.year = y - 1 /\ next.month = 12 /\ next.day = 31
        /\ next.yday = DaysInYear(y - 1) - 1 /\ next.wday = w
    BY <1>4, <2>2, <2>3 DEF Dates
  <2> HIDE DEF next
  <2>5. /\ n = getJulianDayNumber(y - 1, 12, 31) + 1
        /\ n = getJulianDayNumber(y - 1, 1, 1) + DaysInYear(y - 1)
    <3>1. n = getJulianDayNumber(y, 1, 1)
      BY <1>1, <1>7, <2>2
    <3>2. QED BY <2>2, <3>1, NextYear
  <2>6. getJulianDayNumber(y - 1, 12, 31) \in Int /\ getJulianDayNumber(y - 1, 1, 1) \in Int
    <3>1. 31 \in Int /\ 1 \in Int
      OBVIOUS
    <3>2. getJulianDayNumber(y - 1, 12, 31) \in Int
      BY <2>2, <3>1, NextInMonth
    <3>3. getJulianDayNumber(y - 1, 1, 1) \in Int
      BY <2>2, <3>1, NextInMonth
    <3>4. QED BY <3>2, <3>3
  <2>7. /\ getJulianDayNumber(y - 1, 12, 31) = n - 1
        /\ DaysInYear(y - 1) - 1 = (n - 1) - getJulianDayNumber(y - 1, 1, 1)
    BY <1>3, <2>3, <2>5, <2>6, SMT
  <2>8. 31 \in 1 .. DaysIn(y - 1, 12)
    BY SMT DEF DaysIn
  <2>9. QED BY <1>3, <1>4, <2>1, <2>4, <2>7, <2>8 DEF Dated
<1>8. d > 1 \/ d = 1
  BY <1>1, <1>2, SMT
<1>9. QED BY <1>5, <1>6, <1>7, <1>8

\* What the formulas give for a day of the walk.
LEMMA DatedAgrees ==
    ASSUME NEW date, NEW n, Dated(date, n)
    PROVE  /\ n \in Int
           /\ getYearMonthDay(n) = [year |-> date.year, month |-> date.month, day |-> date.day]
           /\ \A at \in [hour : 0 .. 23, min : 0 .. 59, sec : 0 .. 59] : TimeAgrees(date, n, at)
<1> DEFINE y == date.year  m == date.month  d == date.day
<1>1. /\ y \in Nat /\ m \in Month /\ d \in 1 .. DaysIn(y, m)
      /\ n = getJulianDayNumber(y, m, d) /\ date.wday = weekDay(n)
      /\ date.yday = n - getJulianDayNumber(y, 1, 1)
  BY DEF Dated, Dates
<1> HIDE DEF y, m, d
<1>2. n \in Int /\ getYearMonthDay(n) = [year |-> y, month |-> m, day |-> d]
  BY <1>1, DateFound
<1>3. ASSUME NEW at \in [hour : 0 .. 23, min : 0 .. 59, sec : 0 .. 59]
      PROVE  TimeAgrees(date, n, at)
  <2> DEFINE h == at.hour  min == at.min  sec == at.sec
             D == n - Epoch
             s == h * 3600 + min * 60 + sec
             t == D * 86400 + s
             tm == [year |-> y, month |-> m, day |-> d, hour |-> h, min |-> min,
                    sec |-> sec, wday |-> date.wday, yday |-> date.yday]
  <2>0. h \in 0 .. 23 /\ min \in 0 .. 59 /\ sec \in 0 .. 59
    OBVIOUS
  <2> HIDE DEF h, min, sec
  <2>1. D \in Int /\ D + Epoch = n
    BY <1>2, SMT DEF Epoch
  <2>2. s \in Nat /\ s < 86400 /\ fillHMS(s) = [sec |-> sec, min |-> min, hour |-> h]
    <3>1. ClockAgrees(h, min, sec)
      BY <2>0, ClockFound
    <3>2. QED BY <3>1 DEF ClockAgrees
  <2>3. (n - Epoch) * 86400 + h * 3600 + min * 60 + sec = t
    BY <1>2, <2>0, <2>1, SMT DEF Epoch
  <2>4. dayAndSecond(t) = [day |-> D, second |-> s]
    <3> HIDE DEF D, s
    <3>1. QED BY <2>1, <2>2, DayAndSecond
  <2>5. fromUtcTime(tm) = D * 86400 + s
    <3>1. fromUtcTime(tm) =
              (getJulianDayNumber(y, m, d) - kJulianDayOf1970_01_01) * kSecondsPerDay + s
      BY DEF fromUtcTime
    <3>2. kSecondsPerDay = 86400
      BY SMT DEF kSecondsPerDay
    <3>3. QED BY <1>1, <3>1, <3>2, EpochNumber
  <2>6. toUtcTime(t) = tm
    <3> HIDE DEF t, s, D
    <3>1. /\ dayAndSecond(t).day + kJulianDayOf1970_01_01 = n
          /\ dayAndSecond(t).second = s
      BY <2>1, <2>4, EpochNumber
    <3>2. toUtcTime(t) =
             [year |-> getYearMonthDay(n).year, month |-> getYearMonthDay(n).month,
              day |-> getYearMonthDay(n).day, hour |-> fillHMS(s).hour, min |-> fillHMS(s).min,
              sec |-> fillHMS(s).sec, wday |-> weekDay(n),
              yday |-> n - getJulianDayNumber(getYearMonthDay(n).year, 1, 1)]
      BY <3>1 DEF toUtcTime
    <3>3. QED BY <1>1, <1>2, <2>2, <3>2
  <2>7. QED BY <2>3, <2>5, <2>6 DEF TimeAgrees, y, m, d, h, min, sec
<1>4. QED BY <1>2, <1>3 DEF y, m, d

-----------------------------------------------------------------------------
(* Zones *)

LEMMA LastNotLater ==
    ASSUME NEW L \in Nat, NEW P \in SUBSET (1 .. L), \A i, j \in 1 .. L : i < j /\ j \in P => i \in P
    PROVE  P = {} \/ \E k \in 1 .. L : P = 1 .. k
<1> DEFINE Out == {i \in 1 .. L : i \notin P}
<1>1. CASE Out = {}
  <2>1. P = 1 .. L
    BY <1>1
  <2>2. QED BY <2>1
<1>2. CASE Out # {}
  <2>0. Out \in SUBSET Nat
    OBVIOUS
  <2>1. PICK n \in Out : \A i \in Out : n <= i
    <3> HIDE DEF Out
    <3>1. QED BY <1>2, <2>0, LeastElement
  <2>2. P = 1 .. n - 1
    <3>1. n \in 1 .. L /\ n \notin P
      BY <2>1
    <3>2. ASSUME NEW i \in P PROVE i \in 1 .. n - 1
      <4>1. i \in 1 .. L
        OBVIOUS
      <4>2. i # n
        BY <3>1
      <4>3. ~(n < i)
        BY <3>1, <4>1
      <4>4. QED BY <3>1, <4>1, <4>2, <4>3
    <3>3. ASSUME NEW i \in 1 .. n - 1 PROVE i \in P
      BY <2>1, <3>1
    <3>4. QED BY <3>2, <3>3
  <2>3. CASE n = 1
    BY <2>2, <2>3
  <2>4. CASE n # 1
    <3>1. n - 1 \in 1 .. L
      BY <2>1, <2>4
    <3>2. QED BY <2>2, <3>1
  <2>5. QED BY <2>3, <2>4
<1>3. QED BY <1>1, <1>2

\* The keys by which transitions are compared increase.
Increasing(ts, compareGmt) ==
    /\ Len(ts) \in Nat
    /\ \A i \in 1 .. Len(ts) : Key(ts[i], compareGmt) \in Int
    /\ \A i, j \in 1 .. Len(ts) : i < j => Key(ts[i], compareGmt) < Key(ts[j], compareGmt)

\* The transition k is the last that is not later.
LastOne(ts, at, compareGmt, k) ==
    /\ k \in 1 .. Len(ts) /\ Key(ts[k], compareGmt) <= at
    /\ k + 1 \in 1 .. Len(ts) => at < Key(ts[k + 1], compareGmt)

LEMMA LookedUp ==
    ASSUME NEW data, NEW at \in Int, NEW gmt, Increasing(data.transitions, gmt),
           NEW k, LastOne(data.transitions, at, gmt, k)
    PROVE  findLocaltime(data, at, gmt) = data.localtimes[data.transitions[k].localtimeIdx]
<1> DEFINE ts == data.transitions
           n  == IF Key(ts[k], gmt) = at THEN k ELSE k + 1
           Bound(i) == /\ \A j \in 1 .. i - 1 : Key(ts[j], gmt) < at
                       /\ i <= Len(ts) => at <= Key(ts[i], gmt)
<1>1. /\ Len(ts) \in Nat /\ k \in 1 .. Len(ts) /\ Key(ts[k], gmt) <= at
      /\ \A i \in 1 .. Len(ts) : Key(ts[i], gmt) \in Int
      /\ \A i, j \in 1 .. Len(ts) : i < j => Key(ts[i], gmt) < Key(ts[j], gmt)
      /\ k + 1 <= Len(ts) => at < Key(ts[k + 1], gmt)
  BY DEF Increasing, LastOne
<1>2. n \in 1 .. Len(ts) + 1 /\ Bound(n)
  <2>1. n \in 1 .. Len(ts) + 1
    BY <1>1
  <2>2. ASSUME NEW j \in 1 .. n - 1 PROVE Key(ts[j], gmt) < at
    <3>1. (j = k /\ Key(ts[k], gmt) # at) \/ j < k
      BY <1>1
    <3>2. j \in 1 .. Len(ts)
      BY <1>1, <3>1
    <3>3. QED BY <1>1, <3>1, <3>2
  <2>3. n <= Len(ts) => at <= Key(ts[n], gmt)
    <3>1. CASE Key(ts[k], gmt) = at
      BY <1>1, <3>1
    <3>2. CASE Key(ts[k], gmt) # at
      <4>1. n = k + 1 /\ k + 1 \in Int /\ (k + 1 <= Len(ts) => k + 1 \in 1 .. Len(ts))
        BY <1>1, <3>2
      <4>2. QED BY <1>1, <4>1
    <3>3. QED BY <3>1, <3>2
  <2>4. QED BY <2>1, <2>2, <2>3
<1>3. ASSUME NEW i \in 1 .. Len(ts) + 1, Bound(i) PROVE i = n
  <2>1. i <= k \/ i = k + 1 \/ i > k + 1
    BY <1>1
  <2>2. CASE i <= k
    <3>1. i \in 1 .. Len(ts) /\ at <= Key(ts[i], gmt)
      BY <1>1, <1>3, <2>2
    <3>2. i = k
      BY <1>1, <2>2, <3>1
    <3>3. Key(ts[k], gmt) = at
      BY <1>1, <3>1, <3>2
    <3>4. QED BY <3>2, <3>3
  <2>3. CASE i = k + 1
    <3>1. k \in 1 .. i - 1
      BY <1>1, <2>3
    <3>2. Key(ts[k], gmt) < at
      BY <1>3, <3>1
    <3>3. Key(ts[k], gmt) # at
      BY <1>1, <3>2
    <3>4. QED BY <2>3, <3>3
  <2>4. CASE i > k + 1
    <3>1. k + 1 \in 1 .. i - 1 /\ k + 1 \in 1 .. Len(ts)
      BY <1>1, <2>4
    <3>2. Key(ts[k + 1], gmt) < at /\ at < Key(ts[k + 1], gmt) /\ Key(ts[k + 1], gmt) \in Int
      BY <1>1, <1>3, <3>1
    <3>3. QED BY <3>2
  <2>5. QED BY <2>1, <2>2, <2>3, <2>4
<1>4. LowerBound(ts, at, gmt) = n
  <2>1. LowerBound(ts, at, gmt) = CHOOSE i \in 1 .. Len(ts) + 1 : Bound(i)
    BY DEF LowerBound
  <2> HIDE DEF n, Bound
  <2>2. QED BY <1>2, <1>3, <2>1
<1>5. ~(ts = <<>> \/ at < Key(ts[1], gmt))
  <2>1. ts # <<>>
    <3>1. Len(ts) # 0
      BY <1>1
    <3>2. Len(<<>>) = 0
      OBVIOUS
    <3>3. QED BY <3>1, <3>2
  <2>2. Key(ts[1], gmt) <= Key(ts[k], gmt)
    <3>1. k = 1 \/ 1 < k
      BY <1>1
    <3>2. 1 \in 1 .. Len(ts)
      BY <1>1
    <3>3. QED BY <1>1, <3>1, <3>2
  <2>3. 1 \in 1 .. Len(ts)
    BY <1>1
  <2>4. QED BY <1>1, <2>1, <2>2, <2>3
<1>6. findLocaltime(data, at, gmt) =
          data.localtimes[IF n <= Len(ts) /\ Key(ts[n], gmt) = at
                          THEN ts[n].localtimeIdx ELSE ts[n - 1].localtimeIdx]
  <2> HIDE DEF n
  <2>1. QED BY <1>4, <1>5 DEF findLocaltime
<1>7. CASE Key(ts[k], gmt) = at
  <2>1. n = k /\ n <= Len(ts)
    BY <1>1, <1>7
  <2>2. QED BY <1>6, <1>7, <2>1
<1>8. CASE Key(ts[k], gmt) # at
  <2>1. n = k + 1 /\ n - 1 = k
    BY <1>1, <1>8
  <2>2. ~(n <= Len(ts) /\ Key(ts[n], gmt) = at)
    <3>1. SUFFICES ASSUME n <= Len(ts), Key(ts[n], gmt) = at PROVE FALSE
      OBVIOUS
    <3>2. k + 1 \in 1 .. Len(ts) /\ Key(ts[k + 1], gmt) = at
      BY <1>1, <2>1, <3>1
    <3>3. QED BY <1>1, <3>2
  <2> HIDE DEF n
  <2>3. QED BY <1>6, <2>1, <2>2
<1>9. QED BY <1>7, <1>8

\* A zone whose transitions, numbered from 1 to n, go to summer time when they are odd and
\* back to standard time, of the offset o, when they are even.
TurnsTo(transition, i, o) ==
    /\ transition.gmttime \in Int
    /\ \/ /\ i % 2 = 1 /\ transition.localtimeIdx = 2
          /\ transition.localtime = transition.gmttime + (o + 3600)
       \/ /\ i % 2 = 0 /\ transition.localtimeIdx = 1
          /\ transition.localtime = transition.gmttime + o

Apart(ts, n) == \A i, j \in 1 .. n : i < j => ts[j].gmttime - ts[i].gmttime > 3600

TwoTimes(localtimes, o) ==
    /\ localtimes[1].gmtOffset = o /\ ~localtimes[1].isDst
    /\ localtimes[2].gmtOffset = o + 3600 /\ localtimes[2].isDst

Turning(data, n, o) ==
    /\ n \in Nat /\ o \in Int /\ Len(data.transitions) = n /\ (n = 0 => data.transitions = <<>>)
    /\ TwoTimes(data.localtimes, o) /\ Apart(data.transitions, n)
    /\ \A i \in 1 .. n : TurnsTo(data.transitions[i], i, o)

LEMMA OfSummerTurns ==
    ASSUME NEW zoneFile, SummerTurns(zoneFile)
    PROVE  \E n, o : Turning(Data(zoneFile), n, o)
<1>1. PICK lt, trans, idx : lt = zoneFile.localtimes /\ trans = zoneFile.trans /\ idx = zoneFile.idx
  OBVIOUS
<1>2. /\ lt \in Seq([gmtOffset : Int, isDst : BOOLEAN]) /\ Len(lt) = 2
      /\ ~lt[1].isDst /\ lt[2].isDst /\ lt[2].gmtOffset = lt[1].gmtOffset + 3600
      /\ trans \in Seq(Int)
      /\ idx = [i \in DOMAIN trans |-> IF i % 2 = 1 THEN 2 ELSE 1]
      /\ \A i, j \in DOMAIN trans : i < j => trans[j] - trans[i] > 3600
  BY <1>1 DEF SummerTurns
<1> DEFINE n == Len(trans)  o == lt[1].gmtOffset  data == Data(zoneFile)
           ts == data.transitions
<1>3. n \in Nat /\ DOMAIN trans = 1 .. n /\ \A i \in 1 .. n : trans[i] \in Int
  BY <1>2
<1>4. o \in Int
  <2>1. 1 \in 1 .. Len(lt)
    BY <1>2
  <2>2. lt[1] \in [gmtOffset : Int, isDst : BOOLEAN]
    <3> DEFINE TimeType == [gmtOffset : Int, isDst : BOOLEAN]
    <3>1. lt \in Seq(TimeType)
      BY <1>2
    <3> HIDE DEF TimeType
    <3>2. lt[1] \in TimeType
      BY <2>1, <3>1
    <3>3. QED BY <3>2 DEF TimeType
  <2>3. QED BY <2>2
<1>5. /\ data.localtimes = lt
      /\ ts = [i \in 1 .. n |-> [gmttime      |-> trans[i],
                                 localtime    |-> trans[i] + lt[idx[i]].gmtOffset,
                                 localtimeIdx |-> idx[i]]]
  BY <1>1, <1>3 DEF Data
<1> HIDE DEF data, n
<1>6. /\ \A i \in 1 .. n : idx[i] = IF i % 2 = 1 THEN 2 ELSE 1
      /\ \A i, j \in 1 .. n : i < j => trans[j] - trans[i] > 3600
  <2>1. DOMAIN trans = 1 .. n
    BY <1>3
  <2>2. idx = [i \in DOMAIN trans |-> IF i % 2 = 1 THEN 2 ELSE 1]
    BY <1>2
  <2>3. \A i, j \in DOMAIN trans : i < j => trans[j] - trans[i] > 3600
    BY <1>2
  <2>4. \A i \in 1 .. n : idx[i] = IF i % 2 = 1 THEN 2 ELSE 1
    BY <2>1, <2>2
  <2>5. ASSUME NEW i \in 1 .. n, NEW j \in 1 .. n, i < j PROVE trans[j] - trans[i] > 3600
    <3>1. i \in DOMAIN trans /\ j \in DOMAIN trans
      BY <2>1
    <3>2. QED BY <2>3, <2>5, <3>1
  <2>6. QED BY <2>4, <2>5
<1>7. Len(ts) = n /\ (n = 0 => ts = <<>>)
  BY <1>3, <1>5
<1>8. ASSUME NEW i \in 1 .. n PROVE TurnsTo(ts[i], i, o) /\ ts[i].gmttime = trans[i]
  <2>1. /\ ts[i].gmttime = trans[i] /\ ts[i].localtimeIdx = idx[i] /\ trans[i] \in Int
        /\ ts[i].localtime = trans[i] + lt[idx[i]].gmtOffset
    BY <1>3, <1>5
  <2>2. (i % 2 = 1 /\ idx[i] = 2) \/ (i % 2 = 0 /\ idx[i] = 1)
    <3>1. idx[i] = IF i % 2 = 1 THEN 2 ELSE 1
      BY <1>6
    <3>2. i % 2 = 0 \/ i % 2 = 1
      BY <1>3
    <3>3. QED BY <3>1, <3>2
  <2> HIDE DEF ts
  <2>3. QED BY <1>2, <1>4, <2>1, <2>2 DEF TurnsTo
<1>9. Apart(ts, n)
  <2>1. \A i, j \in 1 .. n : i < j => trans[j] - trans[i] > 3600
    BY <1>6
  <2> HIDE DEF ts
  <2>2. QED BY <1>8, <2>1 DEF Apart
<1>10. TwoTimes(lt, o)
  BY <1>2 DEF TwoTimes
<1>11. Turning(data, n, o)
  <2> HIDE DEF o
  <2>1. QED BY <1>3, <1>4, <1>5, <1>7, <1>8, <1>9, <1>10 DEF Turning
<1>12. QED BY <1>11 DEF data

LEMMA TurningIncreases ==
    ASSUME NEW data, NEW n, NEW o, Turning(data, n, o), NEW gmt \in BOOLEAN
    PROVE  Increasing(data.transitions, gmt)
<1> DEFINE ts == data.transitions
<1>1. n \in Nat /\ o \in Int /\ Len(ts) = n /\ Apart(ts, n) /\ \A i \in 1 .. n : TurnsTo(ts[i], i, o)
  BY DEF Turning
<1> HIDE DEF ts
<1>2. ASSUME NEW i \in 1 .. n
      PROVE  /\ ts[i].gmttime \in Int /\ ts[i].localtime \in Int
             /\ ts[i].localtime - ts[i].gmttime \in o .. o + 3600
  <2>1. TurnsTo(ts[i], i, o)
    BY <1>1
  <2>2. QED BY <1>1, <2>1 DEF TurnsTo
<1>3. ASSUME NEW i \in 1 .. n, NEW j \in 1 .. n, i < j
      PROVE  ts[i].gmttime < ts[j].gmttime /\ ts[i].localtime < ts[j].localtime
  <2>1. ts[j].gmttime - ts[i].gmttime > 3600
    BY <1>1, <1>3 DEF Apart
  <2>2. /\ ts[i].gmttime \in Int /\ ts[i].localtime \in Int
        /\ ts[i].localtime - ts[i].gmttime \in o .. o + 3600
    BY <1>2
  <2>3. /\ ts[j].gmttime \in Int /\ ts[j].localtime \in Int
        /\ ts[j].localtime - ts[j].gmttime \in o .. o + 3600
    BY <1>2
  <2> DEFINE g == ts[i].gmttime  l == ts[i].localtime
             h == ts[j].gmttime  m == ts[j].localtime
  <2>4. /\ g \in Int /\ l \in Int /\ l - g \in o .. o + 3600
        /\ h \in Int /\ m \in Int /\ m - h \in o .. o + 3600
        /\ h - g > 3600 /\ o \in Int
    BY <1>1, <2>1, <2>2, <2>3
  <2> HIDE DEF g, l, h, m
  <2>5. g < h /\ l < m
    BY <2>4
  <2>6. QED BY <2>5 DEF g, l, h, m
<1>4. ASSUME NEW i \in 1 .. n
      PROVE  Key(ts[i], gmt) = IF gmt THEN ts[i].gmttime ELSE ts[i].localtime
  BY DEF Key
<1>5. \A i \in 1 .. n : Key(ts[i], gmt) \in Int
  BY <1>2, <1>4
<1>6. ASSUME NEW i \in 1 .. n, NEW j \in 1 .. n, i < j PROVE Key(ts[i], gmt) < Key(ts[j], gmt)
  BY <1>3, <1>4, <1>6
<1>7. Increasing(ts, gmt)
  BY <1>1, <1>5, <1>6 DEF Increasing
<1>8. QED BY <1>7 DEF ts

LastByGmt(ts, n, at, k) ==
    /\ k \in 1 .. n /\ ts[k].gmttime <= at
    /\ k + 1 \in 1 .. n => at < ts[k + 1].gmttime

\* The time is before the first transition, or there is a last one that is not later.
LEMMA BeforeOrAfter ==
    ASSUME NEW data, NEW n, NEW o, Turning(data, n, o), NEW t \in Int
    PROVE  \/ n = 0
           \/ n > 0 /\ t < data.transitions[1].gmttime
           \/ \E k \in 1 .. n : LastByGmt(data.transitions, n, t, k)
<1> DEFINE ts == data.transitions
           P == {i \in 1 .. n : ts[i].gmttime <= t}
<1>1. /\ n \in Nat /\ Len(ts) = n /\ \A i \in 1 .. n : ts[i].gmttime \in Int
      /\ \A i, j \in 1 .. n : i < j => ts[j].gmttime - ts[i].gmttime > 3600
  BY DEF Turning, TurnsTo, Apart
<1> HIDE DEF ts
<1>2. P \in SUBSET (1 .. n) /\ \A i, j \in 1 .. n : i < j /\ j \in P => i \in P
  BY <1>1
<1>3. P = {} \/ \E k \in 1 .. n : P = 1 .. k
  <2>1. n \in Nat
    BY <1>1
  <2> HIDE DEF P
  <2>2. QED BY <1>2, <2>1, LastNotLater
<1>4. CASE P = {}
  <2>1. CASE n = 0
    BY <2>1
  <2>2. CASE n > 0
    <3>1. 1 \in 1 .. n /\ 1 \notin P
      BY <1>1, <1>4, <2>2
    <3>2. t < ts[1].gmttime
      BY <1>1, <3>1
    <3>3. QED BY <2>2, <3>2 DEF ts
  <2>3. n = 0 \/ n > 0
    BY <1>1
  <2>4. QED BY <2>1, <2>2, <2>3
<1>5. ASSUME NEW k \in 1 .. n, P = 1 .. k PROVE LastByGmt(ts, n, t, k)
  <2>1. k \in P /\ (k + 1 \in 1 .. n => k + 1 \notin P)
    <3> HIDE DEF P
    <3>1. QED BY <1>1, <1>5
  <2>2. QED BY <1>1, <2>1 DEF LastByGmt
<1>6. QED BY <1>3, <1>4, <1>5 DEF ts

LEMMA LookedUpFirst ==
    ASSUME NEW data, NEW at, NEW gmt,
           data.transitions = <<>> \/ at < Key(data.transitions[1], gmt)
    PROVE  findLocaltime(data, at, gmt) = data.localtimes[1]
BY DEF findLocaltime

\* A local time, as it is found by a time in UTC and by a local time.
AtGmt(data, at) == findLocaltime(data, at, TRUE)
AtLocal(data, at) == findLocaltime(data, at, FALSE)

LastByLocal(ts, n, at, k) ==
    /\ k \in 1 .. n /\ ts[k].localtime <= at
    /\ k + 1 \in 1 .. n => at < ts[k + 1].localtime

LEMMA FoundByGmt ==
    ASSUME NEW data, NEW n, NEW o, Turning(data, n, o), NEW at \in Int, NEW k,
           LastByGmt(data.transitions, n, at, k)
    PROVE  AtGmt(data, at) = data.localtimes[data.transitions[k].localtimeIdx]
<1> DEFINE ts == data.transitions
<1>1. Len(ts) = n
  BY DEF Turning
<1>2. \A i : Key(ts[i], TRUE) = ts[i].gmttime
  BY DEF Key
<1>3. LastOne(ts, at, TRUE, k)
  BY <1>1, <1>2, Zenon DEF LastOne, LastByGmt
<1>4. Increasing(ts, TRUE)
  BY TurningIncreases, Zenon
<1>5. QED BY <1>3, <1>4, LookedUp, Zenon DEF AtGmt

LEMMA FoundByLocal ==
    ASSUME NEW data, NEW n, NEW o, Turning(data, n, o), NEW at \in Int, NEW k,
           LastByLocal(data.transitions, n, at, k)
    PROVE  AtLocal(data, at) = data.localtimes[data.transitions[k].localtimeIdx]
<1> DEFINE ts == data.transitions
<1>1. Len(ts) = n
  BY DEF Turning
<1>2. \A i : Key(ts[i], FALSE) = ts[i].localtime
  BY DEF Key
<1>3. LastOne(ts, at, FALSE, k)
  BY <1>1, <1>2, Zenon DEF LastOne, LastByLocal
<1>4. Increasing(ts, FALSE)
  BY TurningIncreases, Zenon
<1>5. QED BY <1>3, <1>4, LookedUp, Zenon DEF AtLocal

LEMMA FoundFirst ==
    ASSUME NEW data, NEW at
    PROVE  /\ (data.transitions = <<>> \/ at < data.transitions[1].gmttime)
                => AtGmt(data, at) = data.localtimes[1]
           /\ (data.transitions = <<>> \/ at < data.transitions[1].localtime)
                => AtLocal(data, at) = data.localtimes[1]
<1>1. /\ Key(data.transitions[1], TRUE) = data.transitions[1].gmttime
      /\ Key(data.transitions[1], FALSE) = data.transitions[1].localtime
  BY DEF Key
<1>2. QED BY <1>1, LookedUpFirst, Zenon DEF AtGmt, AtLocal

\* The fields of a local time, and the time they are turned into.
LEMMA LocalFields ==
    ASSUME NEW data, NEW t \in Int
    PROVE  /\ toLocalTime(data, t).seconds = t + AtGmt(data, t).gmtOffset
           /\ toLocalTime(data, t).isDst = AtGmt(data, t).isDst
BY DEF toLocalTime, AtGmt

\* Whether a local time is taken for the first of an hour that comes twice.
Comes(data, tm, local) ==
    LET try == toLocalTime(data, tm.seconds - local.gmtOffset)
    IN  tm.isDst /\ ~try.isDst
           /\ (try.seconds \div 60) % (24 * 60) = (tm.seconds \div 60) % (24 * 60)

LEMMA UtcOfFields ==
    ASSUME NEW data, NEW tm
    PROVE  LET local == AtLocal(data, tm.seconds)
           IN  fromLocalTime(data, tm) =
                  IF Comes(data, tm, local) THEN tm.seconds - 3600 - local.gmtOffset
                                            ELSE tm.seconds - local.gmtOffset
BY DEF fromLocalTime, Comes, AtLocal

\* The seconds of a time in summer time, and the time an hour later.
Summer(t, o) == t + (o + 3600)
Later(t) == t + 3600

\* Standard time, where the local time finds it again.
LEMMA StandardTime ==
    ASSUME NEW data, NEW o \in Int, TwoTimes(data.localtimes, o), NEW t \in Int,
           AtGmt(data, t) = data.localtimes[1], AtLocal(data, t + o) = data.localtimes[1]
    PROVE  fromLocalTime(data, toLocalTime(data, t)) = t
<1> DEFINE tm == toLocalTime(data, t)  local == data.localtimes[1]
<1>1. local.gmtOffset = o /\ ~local.isDst
  BY DEF TwoTimes
<1> HIDE DEF local
<1>2. tm.seconds = t + o /\ tm.isDst = local.isDst
  BY <1>1, LocalFields DEF local
<1> HIDE DEF tm
<1>3. ~Comes(data, tm, local)
  BY <1>1, <1>2, Zenon DEF Comes
<1>4. AtLocal(data, tm.seconds) = local
  BY <1>2 DEF local
<1>5. fromLocalTime(data, tm) = tm.seconds - local.gmtOffset
  BY <1>3, <1>4, UtcOfFields
<1>6. fromLocalTime(data, tm) = t
  BY <1>1, <1>2, <1>5
<1>7. QED BY <1>6 DEF tm

\* Summer time, where the local time finds it again.
LEMMA SummerTime ==
    ASSUME NEW data, NEW o \in Int, TwoTimes(data.localtimes, o), NEW t \in Int,
           AtGmt(data, t) = data.localtimes[2], AtLocal(data, Summer(t, o)) = data.localtimes[2]
    PROVE  fromLocalTime(data, toLocalTime(data, t)) = t
<1> DEFINE tm == toLocalTime(data, t)  local == data.localtimes[2]
<1>1. local.gmtOffset = o + 3600 /\ local.isDst
  BY DEF TwoTimes
<1> HIDE DEF local
<1>2. tm.seconds = Summer(t, o) /\ tm.isDst = local.isDst
  <2>1. tm.seconds = t + local.gmtOffset /\ tm.isDst = local.isDst
    BY LocalFields DEF local
  <2> HIDE DEF tm
  <2>2. QED BY <1>1, <2>1 DEF Summer
<1>3. tm.seconds - local.gmtOffset = t
  <2> HIDE DEF tm
  <2>1. QED BY <1>1, <1>2 DEF Summer
<1>4. toLocalTime(data, tm.seconds - local.gmtOffset) = tm
  <2>1. PICK u : u = tm.seconds - local.gmtOffset
    OBVIOUS
  <2>2. QED BY <1>3, <2>1
<1> HIDE DEF tm
<1>5. ~Comes(data, tm, local)
  <2>1. PICK u : u = tm.seconds - local.gmtOffset
    OBVIOUS
  <2>2. toLocalTime(data, u).isDst
    <3>1. toLocalTime(data, u) = tm /\ tm.isDst
      BY <1>1, <1>2, <1>4, <2>1
    <3>2. QED BY <3>1, Zenon
  <2>3. QED BY <2>1, <2>2 DEF Comes
<1>6. AtLocal(data, tm.seconds) = local
  BY <1>2 DEF local
<1>7. fromLocalTime(data, tm) = tm.seconds - local.gmtOffset
  BY <1>5, <1>6, UtcOfFields
<1>8. fromLocalTime(data, tm) = t
  BY <1>3, <1>7
<1>9. QED BY <1>8 DEF tm

\* The last hour of summer time, whose local time finds the standard time that follows.
LEMMA HourThatComesTwice ==
    ASSUME NEW data, NEW o \in Int, TwoTimes(data.localtimes, o), NEW t \in Int,
           AtGmt(data, t) = data.localtimes[2],
           AtLocal(data, Summer(t, o)) = data.localtimes[1],
           AtGmt(data, Later(t)) = data.localtimes[1]
    PROVE  fromLocalTime(data, toLocalTime(data, t)) = t
<1> DEFINE tm   == toLocalTime(data, t)          summer   == data.localtimes[2]
           next == toLocalTime(data, Later(t))   standard == data.localtimes[1]
<1>1. /\ summer.gmtOffset = o + 3600 /\ summer.isDst
      /\ standard.gmtOffset = o /\ ~standard.isDst
  BY DEF TwoTimes
<1> HIDE DEF summer, standard
<1>2. tm.seconds = Summer(t, o) /\ tm.isDst = summer.isDst
  <2>1. tm.seconds = t + summer.gmtOffset /\ tm.isDst = summer.isDst
    BY LocalFields DEF summer
  <2> HIDE DEF tm
  <2>2. QED BY <1>1, <2>1 DEF Summer
<1>3. Later(t) \in Int /\ Later(t) + o = Summer(t, o)
  BY DEF Later, Summer
<1>4. next.seconds = Summer(t, o) /\ next.isDst = standard.isDst
  BY <1>1, <1>3, LocalFields DEF standard
<1> HIDE DEF tm, next
<1>5. tm.seconds - standard.gmtOffset = Later(t)
  BY <1>1, <1>2 DEF Later, Summer
<1>6. toLocalTime(data, tm.seconds - standard.gmtOffset) = next
  BY <1>5 DEF next
<1>7. Comes(data, tm, standard)
  <2>1. tm.isDst
    BY <1>1, <1>2
  <2>2. ~next.isDst
    BY <1>1, <1>4
  <2>3. PICK u : u = tm.seconds - standard.gmtOffset
    OBVIOUS
  <2>4. toLocalTime(data, u) = next
    BY <1>6, <2>3
  <2>5. PICK sec : sec = tm.seconds /\ sec = next.seconds
    BY <1>2, <1>4
  <2>6. QED BY <2>1, <2>2, <2>3, <2>4, <2>5 DEF Comes
<1>8. AtLocal(data, tm.seconds) = standard
  BY <1>2 DEF standard
<1>9. fromLocalTime(data, tm) = tm.seconds - 3600 - standard.gmtOffset
  BY <1>7, <1>8, UtcOfFields
<1>10. fromLocalTime(data, tm) = t
  BY <1>1, <1>2, <1>9 DEF Summer
<1>11. QED BY <1>10 DEF tm

LEMMA ZoneReturns ==
    ASSUME NEW data, NEW n, NEW o, Turning(data, n, o), NEW t \in Int
    PROVE  fromLocalTime(data, toLocalTime(data, t)) = t
<1> DEFINE ts == data.transitions  lt == data.localtimes
<1>1. /\ n \in Nat /\ o \in Int /\ (n = 0 => ts = <<>>) /\ Apart(ts, n) /\ TwoTimes(lt, o)
      /\ \A i \in 1 .. n : TurnsTo(ts[i], i, o)
  BY DEF Turning
<1> HIDE DEF ts, lt
<1>2. ASSUME NEW i \in 1 .. n
      PROVE  /\ ts[i].gmttime \in Int /\ i % 2 \in {0, 1}
             /\ i % 2 = 1 => /\ ts[i].localtimeIdx = 2
                             /\ ts[i].localtime = ts[i].gmttime + (o + 3600)
             /\ i % 2 = 0 => ts[i].localtimeIdx = 1 /\ ts[i].localtime = ts[i].gmttime + o
  <2>1. TurnsTo(ts[i], i, o)
    BY <1>1
  <2>2. QED BY <1>1, <2>1 DEF TurnsTo
<1>3. CASE n = 0
  <2>1. ts = <<>>
    BY <1>1, <1>3
  <2>2. AtGmt(data, t) = lt[1] /\ AtLocal(data, t + o) = lt[1]
    BY <2>1, FoundFirst DEF ts, lt
  <2>3. QED BY <1>1, <2>2, StandardTime DEF lt
<1>4. CASE n > 0 /\ t < ts[1].gmttime
  <2>1. 1 \in 1 .. n /\ 1 % 2 = 1
    BY <1>1, <1>4
  <2>2. t + o < ts[1].localtime
    BY <1>1, <1>2, <1>4, <2>1
  <2>3. AtGmt(data, t) = lt[1]
    BY <1>4, FoundFirst DEF ts, lt
  <2>4. AtLocal(data, t + o) = lt[1]
    BY <2>2, FoundFirst DEF ts, lt
  <2>5. QED BY <1>1, <2>3, <2>4, StandardTime DEF lt
<1>5. ASSUME NEW k \in 1 .. n, LastByGmt(ts, n, t, k)
      PROVE  fromLocalTime(data, toLocalTime(data, t)) = t
  <2>1. ts[k].gmttime \in Int /\ ts[k].gmttime <= t
    BY <1>2, <1>5 DEF LastByGmt
  <2>2. AtGmt(data, t) = lt[ts[k].localtimeIdx]
    BY <1>5, FoundByGmt DEF ts, lt
  <2>3. ASSUME k + 1 \in 1 .. n
        PROVE  ts[k + 1].gmttime \in Int /\ t < ts[k + 1].gmttime
    BY <1>2, <1>5, <2>3 DEF LastByGmt
  <2>4. CASE k % 2 = 1
    <3>1. ts[k].localtimeIdx = 2 /\ ts[k].localtime = ts[k].gmttime + (o + 3600)
      BY <1>2, <2>4
    <3>2. /\ Summer(t, o) \in Int /\ Summer(t, o) = t + (o + 3600)
          /\ Later(t) \in Int /\ Later(t) = t + 3600
          /\ (k + 1) % 2 = 0 /\ (k + 2) % 2 = 1
      BY <1>1, <2>4 DEF Summer, Later
    <3>3. ASSUME k + 1 \in 1 .. n
          PROVE  ts[k + 1].localtimeIdx = 1 /\ ts[k + 1].localtime = ts[k + 1].gmttime + o
      BY <1>2, <3>2, <3>3
    <3>4. CASE k + 1 \notin 1 .. n \/ Later(t) < ts[k + 1].gmttime
      <4>1. ts[k].localtime <= Summer(t, o)
        BY <1>1, <2>1, <3>1, <3>2
      <4>2. ASSUME k + 1 \in 1 .. n PROVE Summer(t, o) < ts[k + 1].localtime
        BY <1>1, <2>3, <3>2, <3>3, <3>4, <4>2
      <4>3. LastByLocal(ts, n, Summer(t, o), k)
        BY <4>1, <4>2 DEF LastByLocal
      <4>4. AtLocal(data, Summer(t, o)) = lt[2]
        <5>1. AtLocal(data, Summer(t, o)) = lt[ts[k].localtimeIdx]
          <6>1. Summer(t, o) \in Int
            BY <3>2
          <6>2. QED BY <4>3, <6>1, FoundByLocal DEF ts, lt
        <5>2. QED BY <3>1, <5>1
      <4>5. AtGmt(data, t) = lt[2]
        BY <2>2, <3>1
      <4>6. QED BY <1>1, <4>4, <4>5, SummerTime DEF lt
    <3>5. CASE k + 1 \in 1 .. n /\ ts[k + 1].gmttime <= Later(t)
      <4>1. PICK m \in 1 .. n : m = k + 1 /\ m + 1 = k + 2
        BY <1>1, <3>5
      <4>2. /\ ts[m].gmttime \in Int /\ t < ts[m].gmttime /\ ts[m].gmttime <= Later(t)
            /\ ts[m].localtimeIdx = 1 /\ ts[m].localtime = ts[m].gmttime + o
        BY <2>3, <3>3, <3>5, <4>1
      <4>3. ASSUME m + 1 \in 1 .. n
            PROVE  /\ ts[m + 1].gmttime \in Int /\ ts[m + 1].gmttime - ts[m].gmttime > 3600
                   /\ ts[m + 1].localtime = ts[m + 1].gmttime + (o + 3600)
        <5>1. m < m + 1
          OBVIOUS
        <5>2. ts[m + 1].gmttime - ts[m].gmttime > 3600
          BY <1>1, <4>3, <5>1 DEF Apart
        <5>3. (m + 1) % 2 = 1
          BY <3>2, <4>1
        <5>4. /\ ts[m + 1].gmttime \in Int
              /\ ts[m + 1].localtime = ts[m + 1].gmttime + (o + 3600)
          BY <1>2, <4>3, <5>3
        <5>5. QED BY <5>2, <5>4
      <4>4. LastByGmt(ts, n, Later(t), m)
        <5>1. ASSUME m + 1 \in 1 .. n PROVE Later(t) < ts[m + 1].gmttime
          BY <3>2, <4>2, <4>3, <5>1
        <5>2. QED BY <4>2, <5>1 DEF LastByGmt
      <4>5. LastByLocal(ts, n, Summer(t, o), m)
        <5>1. ts[m].localtime <= Summer(t, o)
          BY <1>1, <3>2, <4>2
        <5>2. ASSUME m + 1 \in 1 .. n PROVE Summer(t, o) < ts[m + 1].localtime
          BY <1>1, <3>2, <4>2, <4>3, <5>2
        <5>3. QED BY <5>1, <5>2 DEF LastByLocal
      <4>6. AtGmt(data, Later(t)) = lt[1]
        <5>1. AtGmt(data, Later(t)) = lt[ts[m].localtimeIdx]
          BY <3>2, <4>4, FoundByGmt DEF ts, lt
        <5>2. QED BY <4>2, <5>1
      <4>7. AtLocal(data, Summer(t, o)) = lt[1]
        <5>1. AtLocal(data, Summer(t, o)) = lt[ts[m].localtimeIdx]
          <6>1. Summer(t, o) \in Int
            BY <3>2
          <6>2. QED BY <4>5, <6>1, FoundByLocal DEF ts, lt
        <5>2. QED BY <4>2, <5>1
      <4>8. AtGmt(data, t) = lt[2]
        BY <2>2, <3>1
      <4>9. QED BY <1>1, <4>6, <4>7, <4>8, HourThatComesTwice DEF lt
    <3>6. k + 1 \in 1 .. n => ts[k + 1].gmttime \in Int
      BY <2>3
    <3>7. QED BY <3>2, <3>4, <3>5, <3>6
  <2>5. CASE k % 2 = 0
    <3>1. ts[k].localtimeIdx = 1 /\ ts[k].localtime = ts[k].gmttime + o
      BY <1>2, <2>5
    <3>2. t + o \in Int /\ (k + 1) % 2 = 1
      BY <1>1, <2>5
    <3>3. ts[k].localtime <= t + o
      BY <1>1, <2>1, <3>1
    <3>4. ASSUME k + 1 \in 1 .. n PROVE t + o < ts[k + 1].localtime
      <4>1. ts[k + 1].localtime = ts[k + 1].gmttime + (o + 3600)
        BY <1>2, <3>2, <3>4
      <4>2. QED BY <1>1, <2>3, <3>4, <4>1
    <3>5. LastByLocal(ts, n, t + o, k)
      BY <3>3, <3>4 DEF LastByLocal
    <3>6. AtLocal(data, t + o) = lt[1]
      <4>1. AtLocal(data, t + o) = lt[ts[k].localtimeIdx]
        BY <3>2, <3>5, FoundByLocal DEF ts, lt
      <4>2. QED BY <3>1, <4>1
    <3>7. AtGmt(data, t) = lt[1]
      BY <2>2, <3>1
    <3>8. QED BY <1>1, <3>6, <3>7, StandardTime DEF lt
  <2>6. QED BY <1>2, <2>4, <2>5
<1>6. n = 0 \/ (n > 0 /\ t < ts[1].gmttime) \/ \E k \in 1 .. n : LastByGmt(ts, n, t, k)
  BY BeforeOrAfter DEF ts
<1>7. QED BY <1>3, <1>4, <1>5, <1>6

LEMMA FixedReturns ==
    ASSUME NEW east \in Int, NEW t \in Int
    PROVE  fromLocalTime(Fixed(east), toLocalTime(Fixed(east), t)) = t
<1> DEFINE data == Fixed(east)  tm == toLocalTime(data, t)  local == data.localtimes[1]
<1>1. data.transitions = <<>> /\ local.gmtOffset = east /\ ~local.isDst
  BY DEF Fixed
<1> HIDE DEF data
<1>2. AtGmt(data, t) = local /\ AtLocal(data, t + east) = local
  BY <1>1, FoundFirst
<1> HIDE DEF local
<1>3. tm.seconds = t + east /\ tm.isDst = local.isDst
  BY <1>1, <1>2, LocalFields
<1> HIDE DEF tm
<1>4. ~Comes(data, tm, local)
  BY <1>1, <1>3, Zenon DEF Comes
<1>5. fromLocalTime(data, tm) = tm.seconds - local.gmtOffset
  BY <1>2, <1>3, <1>4, UtcOfFields
<1>6. fromLocalTime(data, tm) = t
  BY <1>1, <1>3, <1>5
<1>7. QED BY <1>6 DEF data, tm

-----------------------------------------------------------------------------
(* The walks *)

\* A walked date is the date of the number walked with it; a zone is one of those given.
WalkInv ==
    /\ walk \in {"calendar", "zone"}
    /\ walk = "calendar" => Dated(original, input)
    /\ walk = "zone" => input \in ZoneTimes /\ original \in Zones

LEMMA WalkInvInit == TimesInit => WalkInv
<1>1. CASE walk = "calendar" /\ input = Epoch /\ original = EpochDay
  <2>1. /\ original.year = 1970 /\ original.month = 1 /\ original.day = 1
        /\ original.yday = 0 /\ original.wday = 4 /\ original \in Dates
    BY <1>1 DEF EpochDay, Dates, Month
  <2>2. getJulianDayNumber(1970, 1, 1) = Epoch /\ weekDay(Epoch) = 4
    BY EpochNumber DEF kJulianDayOf1970_01_01
  <2>3. 1 \in 1 .. DaysIn(1970, 1) /\ 0 = Epoch - Epoch
    BY SMT DEF DaysIn, Epoch
  <2>4. Dated(original, input)
    BY <1>1, <2>1, <2>2, <2>3 DEF Dated
  <2>5. QED BY <1>1, <2>4 DEF WalkInv
<1>2. CASE walk = "zone" /\ input \in ZoneTimes /\ original \in Zones
  BY <1>2 DEF WalkInv
<1>3. QED BY <1>1, <1>2 DEF TimesInit

LEMMA WalkInvNext == WalkInv /\ [TimesNext]_walkVars => WalkInv'
<1> SUFFICES ASSUME WalkInv, [TimesNext]_walkVars PROVE WalkInv'
  OBVIOUS
<1>1. CASE NextDay
  <2>1. /\ walk = "calendar" /\ walk' = walk /\ input' = input + 1
        /\ original' = DayAfter(original)
    BY <1>1 DEF NextDay
  <2>2. Dated(original', input')
    BY <2>1, DayAfterDated DEF WalkInv
  <2>3. QED BY <2>1, <2>2 DEF WalkInv
<1>2. CASE PreviousDay
  <2>1. /\ walk = "calendar" /\ walk' = walk /\ input' = input - 1
        /\ original' = DayBefore(original) /\ original.year >= FirstYear
    BY <1>2 DEF PreviousDay
  <2>2. Dated(original, input)
    BY <2>1 DEF WalkInv
  <2>3. original.year >= 1
    <3>1. original.year \in Nat
      BY <2>2 DEF Dated, Dates
    <3>2. QED BY <2>1, <3>1, TimesAssumption
  <2>4. Dated(original', input')
    BY <2>1, <2>2, <2>3, DayBeforeDated
  <2>5. QED BY <2>1, <2>4 DEF WalkInv
<1>3. CASE UNCHANGED walkVars
  BY <1>3 DEF walkVars, WalkInv, Dated
<1>4. QED BY <1>1, <1>2, <1>3 DEF TimesNext

LEMMA WalkInvAlways == TimesSpec => []WalkInv
<1>1. QED BY WalkInvInit, WalkInvNext, PTL DEF TimesSpec

\* The Julian day numbers of Date (Date.cpp:23-43) number the days of the Gregorian calendar
\* as it is walked, whatever the years of the walk, and give them back; and every second of
\* every day is a time whose fields TimeZone (TimeZone.cpp:268-304) finds and undoes.
THEOREM CalendarIsWalked == TimesSpec => []CalendarAgrees
<1>1. WalkInv => CalendarAgrees
  <2> SUFFICES ASSUME WalkInv, walk = "calendar" PROVE CalendarAgrees
    BY DEF CalendarAgrees
  <2>1. Dated(original, input)
    BY DEF WalkInv
  <2>2. /\ getJulianDayNumber(original.year, original.month, original.day) = input
        /\ weekDay(input) = original.wday
    BY <2>1 DEF Dated
  <2>3. /\ getYearMonthDay(input) =
             [year |-> original.year, month |-> original.month, day |-> original.day]
        /\ \A at \in [hour : 0 .. 23, min : 0 .. 59, sec : 0 .. 59] :
              TimeAgrees(original, input, at)
    BY <2>1, DatedAgrees
  <2>4. \A at \in ClockTimes : TimeAgrees(original, input, at)
    BY <2>3, TimesAssumption
  <2>5. QED BY <2>2, <2>3, <2>4 DEF CalendarAgrees
<1>2. QED BY <1>1, WalkInvAlways, PTL

\* In every zone whose summer time of an hour and standard time take turns and last for more
\* than an hour each, and in every zone without transitions, going to local time and back
\* (TimeZone.cpp:187-266) returns the time: in the hour that comes twice and at the
\* transitions too, whatever their number and the offset.
THEOREM LocalTimeReturns == TimesSpec => []LocalTimeRoundTrips
<1>1. WalkInv => LocalTimeRoundTrips
  <2> SUFFICES ASSUME WalkInv, walk = "zone"
               PROVE  fromLocalTime(original, toLocalTime(original, input)) = input
    BY DEF LocalTimeRoundTrips
  <2>1. input \in Int /\ original \in Zones
    BY TimesAssumption DEF WalkInv
  <2>2. ASSUME NEW east \in Offsets, original = Fixed(east)
        PROVE  fromLocalTime(original, toLocalTime(original, input)) = input
    <3>1. east \in Int
      BY TimesAssumption
    <3>2. QED BY <2>1, <2>2, <3>1, FixedReturns
  <2>3. ASSUME NEW zoneFile \in ZoneFiles, original = Data(zoneFile)
        PROVE  fromLocalTime(original, toLocalTime(original, input)) = input
    <3>1. SummerTurns(zoneFile)
      BY TimesAssumption
    <3>2. PICK n, o : Turning(original, n, o)
      BY <2>3, <3>1, OfSummerTurns
    <3>3. QED BY <2>1, <3>2, ZoneReturns
  <2>4. QED BY <2>1, <2>2, <2>3 DEF Zones
<1>2. QED BY <1>1, WalkInvAlways, PTL

-----------------------------------------------------------------------------
(* The texts of integers and of quantities *)

\* The first digit goes first, and what is left is closer to zero.
LEMMA DigitsUpIs ==
    ASSUME NEW i \in Int
    PROVE  DigitsUp[i] = <<zero(Remainder(i, 10))>> \o
                             (IF Quotient(i, 10) = 0 THEN <<>> ELSE DigitsUp[Quotient(i, 10)])
<1> DEFINE head  == [j \in Int |-> <<zero(Remainder(j, 10))>>]
           next  == [j \in Int |-> Quotient(j, 10)]
           stops == {j \in Int : Quotient(j, 10) = 0}
           size  == [j \in Int |-> IF j < 0 THEN -j ELSE j]
           Is(f) == f = [j \in Int |-> <<zero(Remainder(j, 10))>> \o
                                 (IF Quotient(j, 10) = 0 THEN <<>> ELSE f[Quotient(j, 10)])]
<1>1. Shrinks(Int, next, stops, size)
  <2>1. ASSUME NEW j \in Int
        PROVE  /\ size[j] \in Nat /\ next[j] \in Int
               /\ Quotient(j, 10) # 0 => size[Quotient(j, 10)] < size[j]
    BY SMT DEF Quotient
  <2> HIDE DEF size
  <2>2. QED BY <2>1 DEF Shrinks
<1>2. \E f : Is(f)
  <2>1. PICK f : IsUnrolled(f, Int, head, next, stops)
    <3> HIDE DEF head, next, stops, size
    <3>1. QED BY <1>1, UnrollingExists
  <2>2. Is(f)
    BY <2>1 DEF IsUnrolled
  <2> HIDE DEF Is
  <2>3. QED BY <2>2
<1>3. DigitsUp = CHOOSE f : Is(f)
  BY DEF DigitsUp
<1>4. Is(DigitsUp)
  <2> HIDE DEF Is
  <2>1. QED BY <1>2, <1>3
<1>5. QED BY <1>4

LEMMA HexDigitsUpIs ==
    ASSUME NEW i \in Nat
    PROVE  HexDigitsUp[i] = <<i % 16>> \o
                             (IF i \div 16 = 0 THEN <<>> ELSE HexDigitsUp[i \div 16])
<1> DEFINE head  == [j \in Nat |-> <<j % 16>>]
           next  == [j \in Nat |-> j \div 16]
           stops == {j \in Nat : j \div 16 = 0}
           size  == [j \in Nat |-> j]
           Is(f) == f = [j \in Nat |-> <<j % 16>> \o
                                 (IF j \div 16 = 0 THEN <<>> ELSE f[j \div 16])]
<1>1. Shrinks(Nat, next, stops, size)
  <2>1. ASSUME NEW j \in Nat
        PROVE  /\ size[j] \in Nat /\ next[j] \in Nat
               /\ j \div 16 # 0 => size[j \div 16] < size[j]
    BY SMT
  <2> HIDE DEF size
  <2>2. QED BY <2>1 DEF Shrinks
<1>2. \E f : Is(f)
  <2>1. PICK f : IsUnrolled(f, Nat, head, next, stops)
    <3> HIDE DEF head, next, stops, size
    <3>1. QED BY <1>1, UnrollingExists
  <2>2. Is(f)
    BY <2>1 DEF IsUnrolled
  <2> HIDE DEF Is
  <2>3. QED BY <2>2
<1>3. HexDigitsUp = CHOOSE f : Is(f)
  BY DEF HexDigitsUp
<1>4. Is(HexDigitsUp)
  <2> HIDE DEF Is
  <2>1. QED BY <1>2, <1>3
<1>5. QED BY <1>4

-----------------------------------------------------------------------------
(* Reading digits *)

IsReading(r, ds, n, base, negative) ==
    r = [i \in 0 .. n |->
            IF i = 0 THEN 0
            ELSE IF negative THEN base * r[i - 1] - ds[i] ELSE base * r[i - 1] + ds[i]]

LEMMA ReadingExists ==
    ASSUME NEW ds, NEW base, NEW negative, NEW n \in Nat
    PROVE  \E r : IsReading(r, ds, n, base, negative)
<1> DEFINE P == {i \in Nat : \E r : IsReading(r, ds, i, base, negative)}
<1>1. 0 \in P
  <2>1. IsReading([i \in 0 .. 0 |-> 0], ds, 0, base, negative)
    BY DEF IsReading
  <2>2. QED BY <2>1
<1>2. ASSUME NEW m \in Nat, m \in P PROVE m + 1 \in P
  <2>1. PICK r : IsReading(r, ds, m, base, negative)
    BY <1>2
  <2> DEFINE at(i) == IF i = 0 THEN 0
                      ELSE IF negative THEN base * r[i - 1] - ds[i] ELSE base * r[i - 1] + ds[i]
             q == [i \in 0 .. m + 1 |-> at(i)]
  <2>2. \A i \in 0 .. m : r[i] = at(i)
    <3> HIDE DEF at
    <3>1. r = [i \in 0 .. m |-> at(i)]
      BY <2>1 DEF IsReading, at
    <3>2. QED BY <3>1
  <2>3. \A i \in 0 .. m + 1 : i # 0 => i - 1 \in 0 .. m /\ i - 1 \in 0 .. m + 1
    OBVIOUS
  <2>4. \A i \in 0 .. m + 1 : i # 0 => q[i - 1] = r[i - 1]
    <3> HIDE DEF at
    <3>1. QED BY <2>2, <2>3
  <2>5. q = [i \in 0 .. m + 1 |->
                IF i = 0 THEN 0
                ELSE IF negative THEN base * q[i - 1] - ds[i] ELSE base * q[i - 1] + ds[i]]
    <3>1. \A i \in 0 .. m + 1 :
             at(i) = IF i = 0 THEN 0
                     ELSE IF negative THEN base * q[i - 1] - ds[i] ELSE base * q[i - 1] + ds[i]
      <4> HIDE DEF q
      <4>1. QED BY <2>4
    <3>2. QED BY <3>1
  <2> HIDE DEF q
  <2>6. IsReading(q, ds, m + 1, base, negative)
    BY <2>5 DEF IsReading
  <2>7. m + 1 \in Nat
    OBVIOUS
  <2>8. QED BY <2>6, <2>7
<1>3. QED
  <2> HIDE DEF P
  <2>1. n \in P
    BY <1>1, <1>2, SetInduction
  <2>2. QED BY <2>1 DEF P

\* One more digit.
LEMMA ReadingAppended ==
    ASSUME NEW ds \in Seq(Int), NEW d \in Int, NEW base \in Int, NEW negative \in BOOLEAN,
           NEW r, IsReading(r, ds, Len(ds), base, negative),
           NEW q, IsReading(q, Append(ds, d), Len(ds) + 1, base, negative)
    PROVE  q[Len(ds)] = r[Len(ds)]
<1> DEFINE n == Len(ds)
           t == Append(ds, d)
           P == {i \in Nat : i <= n => q[i] = r[i]}
<1>1. n \in Nat /\ \A i \in 1 .. n : t[i] = ds[i]
  OBVIOUS
<1> HIDE DEF t
<1>2. \A i \in 0 .. n : r[i] =
          IF i = 0 THEN 0
          ELSE IF negative THEN base * r[i - 1] - ds[i] ELSE base * r[i - 1] + ds[i]
  BY DEF IsReading
<1>3. \A i \in 0 .. n + 1 : q[i] =
          IF i = 0 THEN 0
          ELSE IF negative THEN base * q[i - 1] - t[i] ELSE base * q[i - 1] + t[i]
  BY DEF IsReading, t
<1> HIDE DEF n
<1>4. 0 \in P
  BY <1>1, <1>2, <1>3
<1>5. ASSUME NEW i \in Nat, i \in P PROVE i + 1 \in P
  <2>1. SUFFICES ASSUME i + 1 <= n PROVE q[i + 1] = r[i + 1]
    OBVIOUS
  <2>2. /\ i + 1 \in 0 .. n /\ i + 1 \in 0 .. n + 1 /\ i + 1 # 0 /\ (i + 1) - 1 = i
        /\ i + 1 \in 1 .. n
    BY <1>1, <2>1
  <2>3. q[i] = r[i]
    BY <1>1, <1>5, <2>1
  <2>4. t[i + 1] = ds[i + 1]
    BY <1>1, <2>2
  <2>5. r[i + 1] = IF negative THEN base * r[i] - ds[i + 1] ELSE base * r[i] + ds[i + 1]
    BY <1>2, <2>2
  <2>6. q[i + 1] = IF negative THEN base * q[i] - t[i + 1] ELSE base * q[i] + t[i + 1]
    BY <1>3, <2>2
  <2>7. QED BY <2>3, <2>4, <2>5, <2>6
<1>6. n \in P
  <2> HIDE DEF P
  <2>1. QED BY <1>1, <1>4, <1>5, SetInduction
<1>7. QED BY <1>1, <1>6 DEF n

LEMMA ReadAppend ==
    ASSUME NEW ds \in Seq(Int), NEW d \in Int, NEW base \in Int, NEW negative \in BOOLEAN
    PROVE  /\ ReadDigits(Append(ds, d), base, negative) =
                 IF negative THEN base * ReadDigits(ds, base, negative) - d
                 ELSE base * ReadDigits(ds, base, negative) + d
           /\ ReadDigits(<<>>, base, negative) = 0
<1>1. ASSUME NEW t, Len(t) \in Nat
      PROVE  \E r : IsReading(r, t, Len(t), base, negative)
                    /\ ReadDigits(t, base, negative) = r[Len(t)]
  <2>1. PICK h : h = CHOOSE r : IsReading(r, t, Len(t), base, negative)
    OBVIOUS
  <2>2. IsReading(h, t, Len(t), base, negative)
    BY <1>1, <2>1, ReadingExists
  <2>3. ReadDigits(t, base, negative) = h[Len(t)]
    BY <2>1 DEF ReadDigits, IsReading
  <2>4. QED BY <2>2, <2>3
<1> DEFINE t == Append(ds, d)
           n == Len(ds)
<1>2. n \in Nat /\ Len(t) = n + 1 /\ t[n + 1] = d
  OBVIOUS
<1>3. PICK r : IsReading(r, ds, n, base, negative) /\ ReadDigits(ds, base, negative) = r[n]
  BY <1>1, <1>2
<1>4. PICK q : IsReading(q, t, n + 1, base, negative) /\ ReadDigits(t, base, negative) = q[n + 1]
  <2> HIDE DEF t
  <2>1. n + 1 \in Nat
    BY <1>2
  <2>2. QED BY <1>1, <1>2, <2>1
<1>5. q[n] = r[n]
  BY <1>3, <1>4, ReadingAppended
<1>6. q[n + 1] = IF negative THEN base * q[n] - d ELSE base * q[n] + d
  <2>1. n + 1 \in 0 .. n + 1 /\ n + 1 # 0 /\ (n + 1) - 1 = n
    BY <1>2
  <2> HIDE DEF n, t
  <2>2. \A i \in 0 .. n + 1 : q[i] =
            IF i = 0 THEN 0
            ELSE IF negative THEN base * q[i - 1] - t[i] ELSE base * q[i - 1] + t[i]
    BY <1>4 DEF IsReading
  <2>3. QED BY <1>2, <2>1, <2>2
<1>7. ReadDigits(<<>>, base, negative) = 0
  <2>1. PICK z : IsReading(z, <<>>, 0, base, negative)
                 /\ ReadDigits(<<>>, base, negative) = z[0]
    <3>1. Len(<<>>) = 0
      OBVIOUS
    <3>2. QED BY <1>1, <3>1
  <2>2. z[0] = 0
    BY <2>1 DEF IsReading
  <2>3. QED BY <2>1, <2>2
<1>8. QED BY <1>3, <1>4, <1>5, <1>6, <1>7

-----------------------------------------------------------------------------
(* The texts of integers *)

LEMMA AsManyBackwards ==
    ASSUME NEW T, NEW s \in Seq(T)
    PROVE  Reverse(s) \in Seq(T) /\ Len(Reverse(s)) = Len(s) /\ Len(s) \in Nat
<1> DEFINE n == Len(s)
<1>1. n \in Nat /\ s \in [1 .. n -> T]
  OBVIOUS
<1>2. \A i \in 1 .. n : (n - i) + 1 \in 1 .. n
  BY <1>1
<1>3. QED BY <1>1, <1>2 DEF Reverse

\* Digits in the order they are found become digits in the order they are written.
LEMMA FoundBackwards ==
    ASSUME NEW T, NEW d \in T, NEW s \in Seq(T)
    PROVE  /\ Reverse(<<d>> \o s) = Append(Reverse(s), d)
           /\ Reverse(s \o <<d>>) = <<d>> \o Reverse(s)
           /\ Reverse(s) \in Seq(T) /\ Len(Reverse(s)) = Len(s)
<1> DEFINE n == Len(s)
           r == Reverse(s)
           a == <<d>> \o s
           z == s \o <<d>>
<1>1. /\ n \in Nat /\ s \in [1 .. n -> T]
      /\ a \in Seq(T) /\ Len(a) = n + 1 /\ a[1] = d /\ \A i \in 1 .. n : a[i + 1] = s[i]
      /\ z \in Seq(T) /\ Len(z) = n + 1 /\ z[n + 1] = d /\ \A i \in 1 .. n : z[i] = s[i]
  OBVIOUS
<1>2. /\ r \in Seq(T) /\ Len(r) = n /\ \A i \in 1 .. n : r[i] = s[(n - i) + 1]
  BY DEF Reverse
<1> HIDE DEF n, r, a, z
<1>3. /\ Reverse(a) \in Seq(T) /\ Len(Reverse(a)) = n + 1
      /\ \A i \in 1 .. n + 1 : Reverse(a)[i] = a[((n + 1) - i) + 1]
  BY <1>1 DEF Reverse
<1>4. /\ Reverse(z) \in Seq(T) /\ Len(Reverse(z)) = n + 1
      /\ \A i \in 1 .. n + 1 : Reverse(z)[i] = z[((n + 1) - i) + 1]
  BY <1>1 DEF Reverse
<1>5. ASSUME NEW i \in 1 .. n + 1 PROVE Reverse(a)[i] = Append(r, d)[i]
  <2>1. CASE i = n + 1
    BY <1>1, <1>2, <1>3, <2>1
  <2>2. CASE i # n + 1
    <3>0. i \in 1 .. n
      BY <1>1, <2>2
    <3>1. (n - i) + 1 \in 1 .. n /\ ((n + 1) - i) + 1 = ((n - i) + 1) + 1
      BY <1>1, <3>0
    <3>2. Reverse(a)[i] = s[(n - i) + 1]
      BY <1>1, <1>3, <3>1
    <3>3. Append(r, d)[i] = r[i]
      BY <1>2, <3>0
    <3>4. QED BY <1>2, <3>0, <3>2, <3>3
  <2>3. QED BY <2>1, <2>2
<1>6. ASSUME NEW i \in 1 .. n + 1 PROVE Reverse(z)[i] = (<<d>> \o r)[i]
  <2>1. CASE i = 1
    BY <1>1, <1>2, <1>4, <2>1
  <2>2. CASE i # 1
    <3>1. i - 1 \in 1 .. n /\ (n - (i - 1)) + 1 \in 1 .. n
          /\ ((n + 1) - i) + 1 = (n - (i - 1)) + 1
      BY <1>1, <2>2
    <3>2. Reverse(z)[i] = s[(n - (i - 1)) + 1]
      BY <1>1, <1>4, <3>1
    <3>3. (<<d>> \o r)[i] = r[i - 1]
      BY <1>1, <1>2, <2>2
    <3>4. QED BY <1>2, <3>1, <3>2, <3>3
  <2>3. QED BY <2>1, <2>2
<1>7. Reverse(a) = Append(r, d)
  <2>1. Append(r, d) \in Seq(T) /\ Len(Append(r, d)) = n + 1
    BY <1>2
  <2>2. QED BY <1>3, <1>5, <2>1, SeqEqual
<1>8. Reverse(z) = <<d>> \o r
  <2>1. <<d>> \o r \in Seq(T) /\ Len(<<d>> \o r) = n + 1
    BY <1>1, <1>2
  <2>2. QED BY <1>4, <1>6, <2>1, SeqEqual
<1>9. QED BY <1>2, <1>7, <1>8 DEF a, z, r, n

\* What Notation says of digits.
Digits(ds, v, base) ==
    /\ ds \in Seq(0 .. base - 1) /\ ds # <<>>
    /\ Head(ds) = 0 => Len(ds) = 1
    /\ ReadDigits(ds, base, v < 0) = v

LEMMA ReadOne ==
    ASSUME NEW d \in Int, NEW base \in Int, NEW negative \in BOOLEAN
    PROVE  ReadDigits(<<d>>, base, negative) = IF negative THEN -d ELSE d
<1>1. ReadDigits(<<>>, base, negative) = 0
  <2>1. <<>> \in Seq(Int)
    OBVIOUS
  <2>2. QED BY <2>1, ReadAppend
<1>2. ReadDigits(Append(<<>>, d), base, negative) =
          IF negative THEN base * ReadDigits(<<>>, base, negative) - d
          ELSE base * ReadDigits(<<>>, base, negative) + d
  <2>1. <<>> \in Seq(Int)
    OBVIOUS
  <2>2. QED BY <2>1, ReadAppend
<1>3. base * 0 = 0 /\ Append(<<>>, d) = <<d>>
  OBVIOUS
<1>4. QED BY <1>1, <1>2, <1>3

LEMMA OneDigit ==
    ASSUME NEW base \in {10, 16}, NEW d \in 0 .. base - 1, NEW v \in Int,
           v = IF v < 0 THEN -d ELSE d
    PROVE  Digits(<<d>>, v, base)
<1>1. (v < 0) \in BOOLEAN /\ base \in Int /\ d \in Int
  OBVIOUS
<1>2. ReadDigits(<<d>>, base, v < 0) = v
  BY <1>1, ReadOne
<1>3. QED BY <1>2 DEF Digits

LEMMA DigitAdded ==
    ASSUME NEW base \in {10, 16}, NEW d \in 0 .. base - 1, NEW v \in Int, NEW r \in Int, r # 0,
           v < 0 <=> r < 0, v = IF v < 0 THEN base * r - d ELSE base * r + d,
           NEW ds, Digits(ds, r, base)
    PROVE  Digits(Append(ds, d), v, base)
<1> DEFINE neg == v < 0
<1>1. /\ neg \in BOOLEAN /\ (neg <=> r < 0) /\ base \in Int /\ d \in Int
      /\ ds \in Seq(0 .. base - 1) /\ ds \in Seq(Int) /\ ds # <<>> /\ ReadDigits(ds, base, neg) = r
  BY DEF Digits
<1>2. v = IF neg THEN base * r - d ELSE base * r + d
  OBVIOUS
<1> HIDE DEF neg
<1>3. ReadDigits(Append(ds, d), base, neg) = v
  BY <1>1, <1>2, ReadAppend
<1>4. Head(ds) # 0
  <2>1. SUFFICES ASSUME Head(ds) = 0 PROVE FALSE
    OBVIOUS
  <2>2. Len(ds) = 1
    BY <2>1 DEF Digits
  <2>3. ds = <<0>> /\ 0 \in Int
    BY <1>1, <2>1, <2>2
  <2>4. ReadDigits(<<0>>, base, neg) = 0
    BY <1>1, <2>3, ReadOne
  <2>5. QED BY <1>1, <2>3, <2>4
<1>5. Append(ds, d) \in Seq(0 .. base - 1) /\ Append(ds, d) # <<>> /\ Head(Append(ds, d)) = Head(ds)
  BY <1>1
<1>6. QED BY <1>3, <1>4, <1>5 DEF Digits, neg

\* A number has so many digits at most.
Short(ds, v) ==
    /\ v \in 0 .. 9    => Len(ds) <= 1
    /\ v \in 0 .. 99   => Len(ds) <= 2
    /\ v \in 0 .. 999  => Len(ds) <= 3
    /\ v \in 0 .. 9999 => Len(ds) <= 4

\* LogStream.cpp:43-61: the digits convert finds, put in their order.
LEMMA DecimalDigits ==
    ASSUME NEW v \in Int
    PROVE  /\ DigitsUp[v] \in Seq(0 .. 9) /\ Digits(Reverse(DigitsUp[v]), v, 10)
           /\ Short(DigitsUp[v], v)
<1> DEFINE Good(i) == /\ DigitsUp[i] \in Seq(0 .. 9) /\ Digits(Reverse(DigitsUp[i]), i, 10)
                      /\ Short(DigitsUp[i], i)
           P == {n \in Nat : \A i \in Int : i <= n /\ -i <= n => Good(i)}
<1>1. ASSUME NEW i \in Int, Quotient(i, 10) # 0 => Good(Quotient(i, 10)) PROVE Good(i)
  <2> DEFINE q == Quotient(i, 10)
             d == zero(Remainder(i, 10))
             up == DigitsUp[q]
  <2>1. /\ q \in Int /\ d \in 0 .. 9 /\ (q # 0 => (i < 0 <=> q < 0))
        /\ i = IF i < 0 THEN 10 * q - d ELSE 10 * q + d
        /\ q = 0 => i \in -9 .. 9
    <3>1. /\ q \in Int /\ Remainder(i, 10) \in -9 .. 9 /\ i = 10 * q + Remainder(i, 10)
          /\ i < 0 => Remainder(i, 10) <= 0 /\ q <= 0
          /\ ~(i < 0) => Remainder(i, 10) >= 0 /\ q >= 0
      BY SMT DEF Quotient, Remainder
    <3> DEFINE m == Remainder(i, 10)
    <3> HIDE DEF m, q
    <3>2. zero(m) = IF m < 0 THEN -m ELSE m
      BY <3>1 DEF zero, m
    <3>3. d = zero(m)
      BY DEF m
    <3>4. QED BY <3>1, <3>2, <3>3 DEF m
  <2>2. DigitsUp[i] = <<d>> \o (IF q = 0 THEN <<>> ELSE up)
    BY DigitsUpIs
  <2> HIDE DEF q, d, up
  <2>3. CASE q = 0
    <3>1. DigitsUp[i] = <<d>>
      BY <2>2, <2>3
    <3>2. Reverse(<<d>>) = <<d>>
      BY DEF Reverse
    <3>3. i = IF i < 0 THEN -d ELSE d
      BY <2>1, <2>3
    <3>4. Digits(<<d>>, i, 10)
      BY <2>1, <3>3, OneDigit
    <3>5. <<d>> \in Seq(0 .. 9) /\ Len(<<d>>) = 1
      BY <2>1
    <3>6. QED BY <3>1, <3>2, <3>4, <3>5 DEF Short
  <2>4. CASE q # 0
    <3>1. up \in Seq(0 .. 9) /\ Digits(Reverse(up), q, 10) /\ Short(up, q)
      BY <1>1, <2>4 DEF up, q
    <3>2. DigitsUp[i] = <<d>> \o up
      BY <2>2, <2>4
    <3>3. Reverse(<<d>> \o up) = Append(Reverse(up), d)
      BY <2>1, <3>1, FoundBackwards
    <3>4. Digits(Append(Reverse(up), d), i, 10)
      BY <2>1, <2>4, <3>1, DigitAdded
    <3>5. <<d>> \o up \in Seq(0 .. 9) /\ Len(<<d>> \o up) = 1 + Len(up) /\ Len(up) \in Nat
      BY <2>1, <3>1
    <3>6. Short(<<d>> \o up, i)
      <4>1. CASE i < 0
        <5>1. \A top \in {9, 99, 999, 9999} : i \notin 0 .. top
          <6>1. SUFFICES ASSUME NEW top \in {9, 99, 999, 9999}, i \in 0 .. top PROVE FALSE
            OBVIOUS
          <6>2. i >= 0
            BY <6>1
          <6>3. QED BY <4>1, <6>2
        <5>2. QED BY <5>1 DEF Short
      <4>2. CASE ~(i < 0)
        <5>1. q >= 1 /\ d >= 0 /\ i = 10 * q + d /\ q \in Int /\ d \in Int
          BY <2>1, <2>4, <4>2
        <5>2. ~(i \in 0 .. 9)
          BY <5>1
        <5>3. i \in 0 .. 99 => q \in 0 .. 9
          BY <5>1
        <5>4. i \in 0 .. 999 => q \in 0 .. 99
          BY <5>1
        <5>5. i \in 0 .. 9999 => q \in 0 .. 999
          BY <5>1
        <5> DEFINE n == Len(<<d>> \o up)
                   m == Len(up)
        <5>6. /\ q \in 0 .. 9 => m <= 1
              /\ q \in 0 .. 99 => m <= 2
              /\ q \in 0 .. 999 => m <= 3
              /\ n = 1 + m /\ m \in Nat
          BY <3>1, <3>5 DEF Short
        <5> HIDE DEF n, m
        <5>7. /\ i \in 0 .. 99 => n <= 2
              /\ i \in 0 .. 999 => n <= 3
              /\ i \in 0 .. 9999 => n <= 4
          BY <5>3, <5>4, <5>5, <5>6
        <5>8. QED BY <5>2, <5>7 DEF Short, n
      <4>3. QED BY <4>1, <4>2
    <3>7. QED BY <3>2, <3>3, <3>4, <3>5, <3>6
  <2>5. QED BY <2>3, <2>4
<1> HIDE DEF Good
<1>2. ASSUME NEW i \in Int, Quotient(i, 10) # 0
      PROVE  /\ Quotient(i, 10) \in Int
             /\ i < 0 => Quotient(i, 10) <= 0 /\ -Quotient(i, 10) < -i
             /\ ~(i < 0) => Quotient(i, 10) >= 0 /\ Quotient(i, 10) < i
  BY <1>2, SMT DEF Quotient
<1>3. Quotient(0, 10) = 0
  BY SMT DEF Quotient
<1>4. 0 \in P
  <2>1. \A i \in Int : i <= 0 /\ -i <= 0 => i = 0
    OBVIOUS
  <2>2. Good(0)
    BY <1>1, <1>3
  <2>3. QED BY <2>1, <2>2
<1>5. ASSUME NEW n \in Nat, n \in P PROVE n + 1 \in P
  <2>1. SUFFICES ASSUME NEW i \in Int, i <= n + 1, -i <= n + 1 PROVE Good(i)
    OBVIOUS
  <2>2. Quotient(i, 10) # 0 => Good(Quotient(i, 10))
    <3>1. Quotient(i, 10) # 0 => /\ Quotient(i, 10) \in Int
                                 /\ Quotient(i, 10) <= n /\ -Quotient(i, 10) <= n
      BY <1>2, <2>1
    <3>2. QED BY <1>5, <3>1
  <2>3. QED BY <1>1, <2>2
<1>6. Good(v)
  <2> DEFINE n == IF v < 0 THEN -v ELSE v
  <2>1. n \in Nat /\ v <= n /\ -v <= n
    OBVIOUS
  <2> HIDE DEF P, n
  <2>2. n \in P
    BY <1>4, <1>5, <2>1, SetInduction
  <2>3. QED BY <2>1, <2>2 DEF P
<1>7. QED BY <1>6 DEF Good

\* LogStream.cpp:63-77: and so are the hexadecimal ones of a pointer.
LEMMA HexDigits ==
    ASSUME NEW v \in Nat
    PROVE  HexDigitsUp[v] \in Seq(0 .. 15) /\ Digits(Reverse(HexDigitsUp[v]), v, 16)
<1> DEFINE Good(i) == HexDigitsUp[i] \in Seq(0 .. 15) /\ Digits(Reverse(HexDigitsUp[i]), i, 16)
           P == {n \in Nat : \A i \in Nat : i <= n => Good(i)}
<1>1. ASSUME NEW i \in Nat, i \div 16 # 0 => Good(i \div 16) PROVE Good(i)
  <2> DEFINE q == i \div 16
             d == i % 16
             up == HexDigitsUp[q]
  <2>1. q \in Nat /\ q \in Int /\ d \in 0 .. 15 /\ i = 16 * q + d /\ ~(i < 0) /\ ~(q < 0)
    BY SMT
  <2>2. HexDigitsUp[i] = <<d>> \o (IF q = 0 THEN <<>> ELSE up)
    BY HexDigitsUpIs
  <2>3. q # 0 => up \in Seq(0 .. 15) /\ Digits(Reverse(up), q, 16)
    BY <1>1
  <2> HIDE DEF q, d, up
  <2>4. CASE q = 0
    <3>1. HexDigitsUp[i] = <<d>>
      BY <2>1, <2>2, <2>4
    <3>2. Reverse(<<d>>) = <<d>>
      BY DEF Reverse
    <3>3. i = IF i < 0 THEN -d ELSE d
      BY <2>1, <2>4
    <3>4. d \in 0 .. 16 - 1 /\ i \in Int
      BY <2>1
    <3>5. Digits(<<d>>, i, 16)
      BY <3>3, <3>4, OneDigit
    <3>6. <<d>> \in Seq(0 .. 15)
      BY <2>1
    <3>7. QED BY <3>1, <3>2, <3>5, <3>6
  <2>5. CASE q # 0
    <3>1. up \in Seq(0 .. 15) /\ Digits(Reverse(up), q, 16)
      BY <2>3, <2>5
    <3>2. HexDigitsUp[i] = <<d>> \o up
      BY <2>2, <2>5
    <3>3. Reverse(<<d>> \o up) = Append(Reverse(up), d)
      BY <2>1, <3>1, FoundBackwards
    <3>4. /\ d \in 0 .. 16 - 1 /\ i \in Int /\ (i < 0 <=> q < 0)
          /\ i = IF i < 0 THEN 16 * q - d ELSE 16 * q + d
      BY <2>1
    <3>5. Digits(Append(Reverse(up), d), i, 16)
      BY <2>1, <2>5, <3>1, <3>4, DigitAdded
    <3>6. <<d>> \o up \in Seq(0 .. 15)
      BY <2>1, <3>1
    <3>7. QED BY <3>2, <3>3, <3>5, <3>6
  <2>6. QED BY <2>4, <2>5
<1> HIDE DEF Good
<1>2. 0 \in P
  <2>1. 0 \div 16 = 0 /\ \A i \in Nat : i <= 0 => i = 0
    BY SMT
  <2>2. Good(0)
    BY <1>1, <2>1
  <2>3. QED BY <2>1, <2>2
<1>3. ASSUME NEW n \in Nat, n \in P PROVE n + 1 \in P
  <2>1. SUFFICES ASSUME NEW i \in Nat, i <= n + 1 PROVE Good(i)
    OBVIOUS
  <2>2. i \div 16 \in Nat /\ (i \div 16 # 0 => i \div 16 <= n)
    BY <2>1, SMT
  <2>3. QED BY <1>1, <1>3, <2>2
<1>4. v \in P
  <2> HIDE DEF P
  <2>1. QED BY <1>2, <1>3, SetInduction
<1>5. QED BY <1>4 DEF Good

\* LogStream.cpp:224-282: a text goes into a line whole, or not at all.
LEMMA IntegerPrinted ==
    ASSUME NEW avail \in Nat, NEW v \in Int
    PROVE  PrintedIn(avail, v)
<1>1. CASE avail < kMaxNumericSize
  <2>1. ~(avail >= kMaxNumericSize)
    BY <1>1 DEF kMaxNumericSize
  <2>2. QED BY <1>1, <2>1 DEF PrintedIn, formatInteger, formatPointer
<1>2. CASE ~(avail < kMaxNumericSize)
  <2>1. avail >= kMaxNumericSize
    BY <1>2 DEF kMaxNumericSize
  <2> DEFINE found == DigitsUp[v]
             ds == Reverse(found)
  <2>2. /\ found \in Seq(0 .. 9) /\ found \in Seq((0 .. 9) \union {"-"})
        /\ Digits(ds, v, 10) /\ ds \in Seq(0 .. 9)
    <3>1. found \in Seq(0 .. 9) /\ Digits(ds, v, 10)
      BY DecimalDigits
    <3>2. found \in Seq((0 .. 9) \union {"-"})
      BY <3>1
    <3>3. ds \in Seq(0 .. 9)
      <4>1. 0 \in 0 .. 9
        OBVIOUS
      <4>2. QED BY <3>1, <4>1, FoundBackwards
    <3>4. QED BY <3>1, <3>2, <3>3
  <2>3. Notation(formatInteger(avail, v), v, 10)
    <3>1. formatInteger(avail, v) = convert(v)
      BY <2>1 DEF formatInteger
    <3>2. CASE v < 0
      <4>1. convert(v) = Reverse(found \o <<"-">>)
        BY <3>2 DEF convert
      <4>2. Reverse(found \o <<"-">>) = <<"-">> \o ds
        <5> DEFINE T == (0 .. 9) \union {"-"}
        <5>1. "-" \in T /\ found \in Seq(T)
          BY <2>2
        <5> HIDE DEF T, found
        <5>2. QED BY <5>1, FoundBackwards DEF ds
      <4>3. Head(<<"-">> \o ds) = "-" /\ Tail(<<"-">> \o ds) = ds
        <5> HIDE DEF ds
        <5>1. <<"-">> \in Seq({"-"}) /\ ds \in Seq((0 .. 9) \union {"-"})
          BY <2>2
        <5>2. QED BY <2>2, <5>1
      <4> HIDE DEF ds, found
      <4>4. QED BY <2>2, <3>1, <3>2, <4>1, <4>2, <4>3 DEF Notation, Digits
    <3>3. CASE ~(v < 0)
      <4>1. convert(v) = ds
        <5>1. convert(v) = Reverse(found \o <<>>)
          BY <3>3 DEF convert
        <5>2. found \o <<>> = found
          BY <2>2, ConcatEmptySeq
        <5>3. QED BY <5>1, <5>2
      <4> HIDE DEF ds, found
      <4>2. QED BY <2>2, <3>1, <3>3, <4>1 DEF Notation, Digits
    <3>4. QED BY <3>2, <3>3
  <2>4. ASSUME v >= 0
        PROVE  /\ SubSeq(formatPointer(avail, v), 1, 2) = <<"0", "x">>
               /\ Notation(SubSeq(formatPointer(avail, v), 3, Len(formatPointer(avail, v))), v, 16)
    <3> DEFINE hex == Reverse(HexDigitsUp[v])
    <3>1. v \in Nat /\ ~(v < 0)
      BY <2>4
    <3>2. formatPointer(avail, v) = <<"0", "x">> \o hex
      BY <2>1 DEF formatPointer, convertHex
    <3>3. Digits(hex, v, 16) /\ hex \in Seq(0 .. 15)
      BY <3>1, HexDigits DEF Digits
    <3> HIDE DEF hex
    <3>4. /\ SubSeq(<<"0", "x">> \o hex, 1, 2) = <<"0", "x">>
          /\ SubSeq(<<"0", "x">> \o hex, 3, Len(<<"0", "x">> \o hex)) = hex
      <4> DEFINE T == (0 .. 15) \union {"0", "x"}
      <4>1. hex \in Seq(T) /\ <<"0", "x">> \in Seq(T)
        BY <3>3
      <4>2. Len(<<"0", "x">>) = 2
        OBVIOUS
      <4> DEFINE mark == <<"0", "x">>
      <4> HIDE DEF T, mark
      <4>3. /\ SubSeq(mark \o hex, 1, Len(mark)) = mark
            /\ SubSeq(mark \o hex, Len(mark) + 1, Len(mark \o hex)) = hex
        <5>1. hex \in Seq(T) /\ mark \in Seq(T)
          BY <4>1 DEF mark
        <5>2. QED BY <5>1, ConcatParts
      <4>4. QED BY <4>2, <4>3 DEF mark
    <3>5. QED BY <3>1, <3>2, <3>3, <3>4 DEF Notation, Digits
  <2>5. QED BY <1>2, <2>3, <2>4 DEF PrintedIn
<1>3. QED BY <1>1, <1>2

-----------------------------------------------------------------------------
(* The texts of quantities *)

LEMMA PartIs ==
    ASSUME NEW unit \in Nat, NEW thousandths \in Nat, NEW s \in Nat
    PROVE  s < Part(unit, thousandths) <=> 1000 * s < unit * thousandths
<1> DEFINE a == thousandths \div 1000
           b == thousandths % 1000
           c == unit * b
           up == (c + 999) \div 1000
           w == unit * a
<1>1. a \in Nat /\ b \in Nat /\ thousandths = 1000 * a + b
  BY SMT
<1>2. c \in Nat /\ w \in Nat
  BY <1>1
<1>3. unit * thousandths = 1000 * w + c
  <2> HIDE DEF a, b
  <2>1. unit * (1000 * a + b) = 1000 * (unit * a) + unit * b
    BY <1>1, SMT
  <2>2. QED BY <1>1, <2>1
<1>4. Part(unit, thousandths) = w + up
  BY DEF Part
<1> HIDE DEF a, b, c, w
<1>5. up \in Nat /\ c <= 1000 * up /\ 1000 * up <= c + 999
  BY <1>2, SMT
<1> HIDE DEF up
<1>6. QED BY <1>2, <1>3, <1>4, <1>5

Tenfold(decimals) == IF decimals = 0 THEN 1 ELSE IF decimals = 1 THEN 10 ELSE 100

\* The number printed is the nearest one.
LEMMA NearestPrinted ==
    ASSUME NEW s \in Nat, NEW unit \in Nat \ {0}, NEW decimals \in 0 .. 2,
           NEW t, t = Tenfold(decimals), NEW number, number = Printed(s, unit, decimals).number
    PROVE  /\ number \in Nat
           /\ 2 * (unit * number) <= 2 * (s * t) + unit
           /\ 2 * (s * t) + unit < 2 * (unit * number) + 2 * unit
<1> DEFINE q == s \div unit
           r == s % unit
           c == 2 * r * t + unit
           f == c \div (2 * unit)
<1>1. t \in {1, 10, 100} /\ t = <<1, 10, 100>>[decimals + 1]
  <2>1. /\ <<1, 10, 100>>[0 + 1] = 1 /\ <<1, 10, 100>>[1 + 1] = 10 /\ <<1, 10, 100>>[2 + 1] = 100
    OBVIOUS
  <2>2. CASE decimals = 0
    BY <2>1, <2>2 DEF Tenfold
  <2>3. CASE decimals = 1
    BY <2>1, <2>3 DEF Tenfold
  <2>4. CASE decimals = 2
    BY <2>1, <2>4 DEF Tenfold
  <2>5. QED BY <2>2, <2>3, <2>4
<1>2. number = q * t + f
  BY <1>1 DEF Printed
<1>3. q \in Nat /\ r \in Nat /\ s = unit * q + r
  BY Division
<1> HIDE DEF q, r
<1>4. c \in Nat /\ 2 * unit \in Nat \ {0}
  BY <1>1, <1>3
<1>5. f \in Nat /\ 2 * unit * f <= c /\ c < 2 * unit * f + 2 * unit
  <2> DEFINE R == 2 * unit
  <2> HIDE DEF R, c
  <2>1. c \div R \in Nat /\ c % R \in 0 .. R - 1 /\ c = R * (c \div R) + (c % R)
    BY <1>4, Division DEF R
  <2> DEFINE g == c \div R
             p == R * g
  <2>2. p \in Nat
    BY <1>4, <2>1 DEF R
  <2> HIDE DEF p
  <2>3. p <= c /\ c < p + R
    BY <1>4, <2>1, <2>2 DEF p, R
  <2>4. QED BY <2>1, <2>3 DEF p, R
<1>6. c = 2 * r * t + unit
  OBVIOUS
<1> HIDE DEF f, c
<1> DEFINE uf == unit * f
           uq == unit * q
<1>7. number \in Nat /\ uf \in Nat /\ uq \in Nat
  BY <1>1, <1>2, <1>3, <1>5
<1>8. unit * number = uq * t + uf /\ 2 * unit * f = 2 * uf
  BY <1>1, <1>2, <1>3, <1>5, SMT
<1>9. s = uq + r
  BY <1>3
<1> HIDE DEF uf, uq
<1>10. /\ 2 * (unit * number) <= 2 * (s * t) + unit
       /\ 2 * (s * t) + unit < 2 * (unit * number) + 2 * unit
  BY <1>1, <1>3, <1>5, <1>6, <1>7, <1>8, <1>9, SMT
<1>11. QED BY <1>7, <1>10

LEMMA Fewer ==
    ASSUME NEW unit \in Nat \ {0}, NEW a \in Nat, NEW b \in Nat, unit * a < unit * b
    PROVE  a < b
<1>1. SUFFICES ASSUME b <= a PROVE FALSE
  OBVIOUS
<1>2. unit * b <= unit * a
  BY <1>1, SMT
<1>3. QED BY <1>2

\* A number for which the branches of formatSI and formatIEC take the unit.
Suits(unit, s, most) ==
    most \in {999500, 1023500} /\ 1000 * s < unit * most /\ 995 * unit <= 1000 * s

\* LogStream.cpp:103-132: from the unit on, there are three digits, or four without decimals.
LEMMA ThreeDigitsSuffice ==
    ASSUME NEW s \in Nat, NEW unit \in Nat \ {0}, NEW most, Suits(unit, s, most)
    PROVE  LET p == ThreeDigits(s, unit)
           IN  /\ p.decimals \in 0 .. 2 /\ p.number \in Nat /\ p.number >= 100
               /\ p.number <= 1023
               /\ p.number <= 999 \/ (most = 1023500 /\ p.decimals = 0)
<1> DEFINE decimals == IF s < Part(unit, 9995) THEN 2 ELSE IF s < Part(unit, 99950) THEN 1 ELSE 0
           t == Tenfold(decimals)
           number == Printed(s, unit, decimals).number
<1>1. /\ s < Part(unit, 9995) <=> 1000 * s < unit * 9995
      /\ s < Part(unit, 99950) <=> 1000 * s < unit * 99950
  BY PartIs, SMTT(30)
<1>2. decimals \in 0 .. 2
  BY SMTT(30)
<1>3. /\ decimals = 2 => t = 100 /\ 1000 * s < 9995 * unit
      /\ decimals = 1 => t = 10 /\ 1000 * s < 99950 * unit /\ 9995 * unit <= 1000 * s
      /\ decimals = 0 => t = 1 /\ 99950 * unit <= 1000 * s
  <2> HIDE DEF t
  <2>1. /\ decimals = 2 => 1000 * s < 9995 * unit
        /\ decimals = 1 => 1000 * s < 99950 * unit /\ 9995 * unit <= 1000 * s
        /\ decimals = 0 => 99950 * unit <= 1000 * s
    BY <1>1, SMTT(30)
  <2> HIDE DEF decimals
  <2>2. /\ decimals = 2 => t = 100
        /\ decimals = 1 => t = 10
        /\ decimals = 0 => t = 1
    BY SMTT(30) DEF t, Tenfold
  <2>3. QED BY <2>1, <2>2, SMTT(30)
<1>4. ThreeDigits(s, unit).number = number /\ ThreeDigits(s, unit).decimals = decimals
  <2> HIDE DEF decimals
  <2>1. /\ Printed(s, unit, decimals).decimals = decimals
    BY SMTT(30) DEF Printed
  <2>2. ThreeDigits(s, unit) = Printed(s, unit, decimals)
    BY SMTT(30) DEF ThreeDigits, decimals
  <2>3. QED BY <2>1, <2>2, SMTT(30)
<1> HIDE DEF decimals
<1>5. t = Tenfold(decimals) /\ number = Printed(s, unit, decimals).number
  BY SMTT(30)
<1> HIDE DEF t, number
<1>6. /\ number \in Nat
       /\ 2 * (unit * number) <= 2 * (s * t) + unit
       /\ 2 * (s * t) + unit < 2 * (unit * number) + 2 * unit
  BY <1>2, <1>5, NearestPrinted
<1> DEFINE un == unit * number
<1>7. un \in Nat /\ unit * 100 \in Nat /\ unit * 1000 \in Nat /\ unit * 1024 \in Nat
      /\ most \in {999500, 1023500} /\ 1000 * s < most * unit /\ 995 * unit <= 1000 * s
  BY <1>6, SMTT(30) DEF Suits
<1>8. /\ 2 * un <= 2 * (s * t) + unit
      /\ 2 * (s * t) + unit < 2 * un + 2 * unit
  BY <1>6, SMTT(30)
<1> HIDE DEF un
<1>9. unit * 99 < un
  <2>1. CASE decimals = 2
    BY <1>3, <1>7, <1>8, <2>1, SMTT(30)
  <2>2. CASE decimals = 1
    BY <1>3, <1>7, <1>8, <2>2, SMTT(30)
  <2>3. CASE decimals = 0
    BY <1>3, <1>7, <1>8, <2>3, SMTT(30)
  <2>4. QED BY <1>2, <2>1, <2>2, <2>3, SMTT(30)
<1>10. un < unit * 1024 /\ (un < unit * 1000 \/ (most = 1023500 /\ decimals = 0))
  <2>1. CASE decimals = 2
    BY <1>3, <1>7, <1>8, <2>1, SMTT(30)
  <2>2. CASE decimals = 1
    BY <1>3, <1>7, <1>8, <2>2, SMTT(30)
  <2>3. CASE decimals = 0
    <3>1. CASE most = 999500
      BY <1>3, <1>7, <1>8, <2>3, <3>1, SMTT(30)
    <3>2. CASE most = 1023500
      BY <1>3, <1>7, <1>8, <2>3, <3>2, SMTT(30)
    <3>3. QED BY <1>7, <3>1, <3>2, SMTT(30)
  <2>4. QED BY <1>2, <2>1, <2>2, <2>3, SMTT(30)
<1>11. /\ 99 < number /\ number < 1024
       /\ number < 1000 \/ (most = 1023500 /\ decimals = 0)
  <2>1. 99 \in Nat /\ 1024 \in Nat /\ 1000 \in Nat
    BY SMTT(30)
  <2>2. QED BY <1>6, <1>9, <1>10, <2>1, Fewer, SMTT(30) DEF un
<1>12. QED BY <1>2, <1>4, <1>6, <1>11, SMTT(30)

\* LogStream.cpp:96-135 and 137-222: the unit of a quantity.
LEMMA UnitOfSI ==
    ASSUME NEW s \in Nat, s \div Mega < Part(Mega, 999500)
    PROVE  IF s < Kilo THEN formatSI(s) = Printed(s, 1, 0)
           ELSE \E unit \in Nat \ {0} : formatSI(s) = ThreeDigits(s, unit) /\ Suits(unit, s, 999500)
<1>1. /\ Kilo = 1000 /\ Mega = 1000000 /\ Giga = 1000000000 /\ 1000 * Giga = 1000000000000
  BY SMTT(30) DEF Kilo, Mega, Giga
<1>2. s \div Mega \in Nat
  BY <1>1, SMTT(30)
<1>3. /\ s < Part(Kilo, 999500) <=> 1000 * s < 999500000
      /\ s < Part(Mega, 999500) <=> 1000 * s < 999500000000
      /\ s < Part(Giga, 999500) <=> 1000 * s < 999500000000000
      /\ 1000 * (s \div Mega) < 999500000000
  <2>1. Kilo \in Nat /\ Mega \in Nat /\ Giga \in Nat /\ 999500 \in Nat
    BY <1>1, SMTT(30)
  <2>2. /\ s < Part(Kilo, 999500) <=> 1000 * s < Kilo * 999500
        /\ s < Part(Mega, 999500) <=> 1000 * s < Mega * 999500
        /\ s < Part(Giga, 999500) <=> 1000 * s < Giga * 999500
        /\ 1000 * (s \div Mega) < Mega * 999500
    BY <1>2, <2>1, PartIs, SMTT(30)
  <2>3. QED BY <1>1, <2>2, SMTT(30)
<1>4. 1000 * s < 999500000000000000
  <2>1. s < 1000000 * (s \div Mega) + 1000000
    BY <1>1, SMTT(30)
  <2>2. QED BY <1>2, <1>3, <2>1, SMTT(30)
<1>5. CASE s < Kilo
  BY <1>5, SMTT(30) DEF formatSI
<1>6. CASE ~(s < Kilo) /\ 1000 * s < 999500000
  <2>1. formatSI(s) = ThreeDigits(s, Kilo)
    BY <1>3, <1>6, SMTT(30) DEF formatSI
  <2>2. Suits(Kilo, s, 999500) /\ Kilo \in Nat \ {0}
    BY <1>1, <1>6, SMTT(30) DEF Suits
  <2>3. QED BY <1>6, <2>1, <2>2, SMTT(30)
<1>7. CASE ~(s < Kilo) /\ ~(1000 * s < 999500000) /\ 1000 * s < 999500000000
  <2>1. formatSI(s) = ThreeDigits(s, Mega)
    BY <1>3, <1>7, SMTT(30) DEF formatSI
  <2>2. Suits(Mega, s, 999500) /\ Mega \in Nat \ {0}
    BY <1>1, <1>7, SMTT(30) DEF Suits
  <2>3. QED BY <1>7, <2>1, <2>2, SMTT(30)
<1>8. CASE ~(s < Kilo) /\ ~(1000 * s < 999500000000) /\ 1000 * s < 999500000000000
  <2>1. formatSI(s) = ThreeDigits(s, Giga)
    BY <1>3, <1>8, SMTT(30) DEF formatSI
  <2>2. Suits(Giga, s, 999500) /\ Giga \in Nat \ {0}
    BY <1>1, <1>8, SMTT(30) DEF Suits
  <2>3. QED BY <1>8, <2>1, <2>2, SMTT(30)
<1>9. CASE ~(s < Kilo) /\ ~(1000 * s < 999500000000000)
  <2>1. formatSI(s) = ThreeDigits(s, 1000 * Giga)
    BY <1>3, <1>9, SMTT(30) DEF formatSI
  <2>2. Suits(1000 * Giga, s, 999500) /\ 1000 * Giga \in Nat \ {0}
    BY <1>1, <1>4, <1>9, SMTT(30) DEF Suits
  <2>3. QED BY <1>9, <2>1, <2>2, SMTT(30)
<1>10. QED BY <1>5, <1>6, <1>7, <1>8, <1>9, SMTT(30)

LEMMA UnitOfIEC ==
    ASSUME NEW s \in Nat, s \div Mi < Part(Mi, 1023500)
    PROVE  IF s < Ki THEN formatIEC(s) = Printed(s, 1, 0)
           ELSE \E unit \in Nat \ {0} : formatIEC(s) = ThreeDigits(s, unit) /\ Suits(unit, s, 1023500)
<1>1. /\ Ki = 1024 /\ Mi = 1048576 /\ Gi = 1073741824 /\ 1024 * Gi = 1099511627776
  BY SMTT(30) DEF Ki, Mi, Gi
<1>2. s \div Mi \in Nat
  BY <1>1, SMTT(30)
<1>3. /\ s < Part(Ki, 1023500) <=> 1000 * s < 1024 * 1023500
      /\ s < Part(Mi, 1023500) <=> 1000 * s < 1048576 * 1023500
      /\ s < Part(Gi, 1023500) <=> 1000 * s < 1073741824 * 1023500
      /\ 1000 * (s \div Mi) < 1048576 * 1023500
  <2>1. Ki \in Nat /\ Mi \in Nat /\ Gi \in Nat /\ 1023500 \in Nat
    BY <1>1, SMTT(30)
  <2>2. /\ s < Part(Ki, 1023500) <=> 1000 * s < Ki * 1023500
        /\ s < Part(Mi, 1023500) <=> 1000 * s < Mi * 1023500
        /\ s < Part(Gi, 1023500) <=> 1000 * s < Gi * 1023500
        /\ 1000 * (s \div Mi) < Mi * 1023500
    BY <1>2, <2>1, PartIs, SMTT(30)
  <2>3. QED BY <1>1, <2>2, SMTT(30)
<1>4. 1000 * s < 1099511627776 * 1023500
  <2>1. s < 1048576 * (s \div Mi) + 1048576
    BY <1>1, SMTT(30)
  <2>2. QED BY <1>2, <1>3, <2>1, SMTT(30)
<1>5. CASE s < Ki
  BY <1>5, SMTT(30) DEF formatIEC
<1>6. CASE ~(s < Ki) /\ s < Part(Ki, 1023500)
  <2>1. formatIEC(s) = ThreeDigits(s, Ki)
    BY <1>6, SMTT(30) DEF formatIEC
  <2>2. Suits(Ki, s, 1023500) /\ Ki \in Nat \ {0}
    BY <1>1, <1>3, <1>6, SMTT(30) DEF Suits
  <2>3. QED BY <1>6, <2>1, <2>2, SMTT(30)
<1>7. CASE ~(s < Ki) /\ ~(s < Part(Ki, 1023500)) /\ s < Part(Mi, 1023500)
  <2>1. formatIEC(s) = ThreeDigits(s, Mi)
    BY <1>7, SMTT(30) DEF formatIEC
  <2>2. Suits(Mi, s, 1023500) /\ Mi \in Nat \ {0}
    BY <1>1, <1>3, <1>7, SMTT(30) DEF Suits
  <2>3. QED BY <1>7, <2>1, <2>2, SMTT(30)
<1>8. CASE ~(s < Ki) /\ ~(s < Part(Mi, 1023500)) /\ s < Part(Gi, 1023500)
  <2>1. ~(s < Part(Ki, 1023500))
    BY <1>3, <1>8, SMTT(30)
  <2>2. formatIEC(s) = ThreeDigits(s, Gi)
    BY <1>8, <2>1, SMTT(30) DEF formatIEC
  <2>3. Suits(Gi, s, 1023500) /\ Gi \in Nat \ {0}
    BY <1>1, <1>3, <1>8, SMTT(30) DEF Suits
  <2>4. QED BY <1>8, <2>2, <2>3, SMTT(30)
<1>9. CASE ~(s < Ki) /\ ~(s < Part(Gi, 1023500))
  <2>1. ~(s < Part(Ki, 1023500)) /\ ~(s < Part(Mi, 1023500))
    BY <1>3, <1>9, SMTT(30)
  <2>2. formatIEC(s) = ThreeDigits(s, 1024 * Gi)
    BY <1>9, <2>1, SMTT(30) DEF formatIEC
  <2>3. Suits(1024 * Gi, s, 1023500) /\ 1024 * Gi \in Nat \ {0}
    BY <1>1, <1>3, <1>4, <1>9, SMTT(30) DEF Suits
  <2>4. QED BY <1>9, <2>2, <2>3, SMTT(30)
<1>10. QED
  <2>1. \/ s < Part(Ki, 1023500)
        \/ ~(s < Part(Ki, 1023500)) /\ s < Part(Mi, 1023500)
        \/ ~(s < Part(Mi, 1023500)) /\ s < Part(Gi, 1023500)
        \/ ~(s < Part(Gi, 1023500))
    BY SMTT(30)
  <2>2. QED BY <1>5, <1>6, <1>7, <1>8, <1>9, <2>1, SMTT(30)

LEMMA FewDigits ==
    ASSUME NEW found, NEW n \in Nat, Short(found, n)
    PROVE  (n <= 999 => Len(found) <= 3) /\ (n <= 1023 => Len(found) <= 4)
<1> DEFINE few == Len(found)
<1>1. (n \in 0 .. 999 => few <= 3) /\ (n \in 0 .. 9999 => few <= 4)
  BY SMTT(30) DEF Short
<1> HIDE DEF few
<1>2. (n <= 999 => n \in 0 .. 999) /\ (n <= 1023 => n \in 0 .. 9999)
  BY SMTT(30)
<1>3. QED BY <1>1, <1>2, SMTT(30) DEF few

LEMMA CharactersOf ==
    ASSUME NEW p, p.number \in Nat, p.decimals \in 0 .. 2, NEW letters \in Nat
    PROVE  /\ p.number <= 999 => Width(p, letters) <= 4 + letters
           /\ p.number <= 1023 /\ p.decimals = 0 => Width(p, letters) <= 4 + letters
           /\ p.number <= 999 /\ p.decimals = 0 => Width(p, letters) <= 3 + letters
<1> DEFINE found == DigitsUp[p.number]
           digits == Len(convert(p.number))
<1>1. found \in Seq(0 .. 9) /\ Short(found, p.number)
  BY DecimalDigits
<1>2. convert(p.number) = Reverse(found)
  <2>1. ~(p.number < 0)
    OBVIOUS
  <2>2. convert(p.number) = Reverse(found \o <<>>)
    BY <2>1 DEF convert
  <2>3. found \o <<>> = found
    BY <1>1, ConcatEmptySeq
  <2>4. QED BY <2>2, <2>3
<1>3. digits = Len(found) /\ Len(found) \in Nat
  <2> DEFINE T == 0 .. 9
  <2> HIDE DEF found
  <2>1. found \in Seq(T)
    BY <1>1
  <2> HIDE DEF T
  <2>2. Len(Reverse(found)) = Len(found) /\ Len(found) \in Nat
    BY <2>1, AsManyBackwards
  <2>3. QED BY <1>2, <2>2
<1> HIDE DEF found
<1>4. /\ p.number <= 999 => digits <= 3
      /\ p.number <= 1023 => digits <= 4
  BY <1>1, <1>3, FewDigits
<1>5. Width(p, letters) =
          (IF digits < p.decimals + 1 THEN p.decimals + 1 ELSE digits)
              + (IF p.decimals > 0 THEN 1 ELSE 0) + (IF p.unit > 1 THEN letters ELSE 0)
  BY DEF Width
<1>6. digits \in Nat
  BY <1>3
<1> HIDE DEF digits
<1> DEFINE long == IF digits < p.decimals + 1 THEN p.decimals + 1 ELSE digits
           dot == IF p.decimals > 0 THEN 1 ELSE 0
           unit == IF p.unit > 1 THEN letters ELSE 0
<1>7. /\ unit \in Nat /\ unit <= letters /\ dot \in 0 .. 1 /\ long \in Nat
      /\ p.number <= 999 => long <= 3
      /\ p.decimals = 0 => dot = 0
      /\ p.decimals = 0 /\ p.number <= 1023 => long <= 4
  BY <1>4, <1>6
<1>8. Width(p, letters) = long + dot + unit
  BY <1>5
<1> HIDE DEF long, dot, unit
<1>9. QED BY <1>7, <1>8

LEMMA PrintedOnes ==
    ASSUME NEW s \in Nat
    PROVE  Printed(s, 1, 0).number = s /\ Printed(s, 1, 0).decimals = 0 /\ ~(Printed(s, 1, 0).unit > 1)
<1>1. /\ <<1, 10, 100>>[0 + 1] = 1 /\ s \div 1 = s /\ s % 1 = 0
      /\ (2 * 0 * 1 + 1) \div (2 * 1) = 0 /\ s * 1 + 0 = s /\ ~(1 > 1)
  BY SMT
<1>2. QED BY <1>1 DEF Printed

\* Bytes are printed with no unit.
LEMMA FewOfAUnit ==
    ASSUME NEW s \in Nat, NEW letters \in Nat
    PROVE  s <= 9999 => Width(Printed(s, 1, 0), letters) \in 0 .. 4
<1>1. SUFFICES ASSUME s <= 9999 PROVE Width(Printed(s, 1, 0), letters) \in 0 .. 4
  OBVIOUS
<1> DEFINE p == Printed(s, 1, 0)
<1>2. p.number = s /\ p.decimals = 0 /\ ~(p.unit > 1)
  BY PrintedOnes
<1> HIDE DEF p
<1>3. convert(s) = Reverse(DigitsUp[s]) /\ DigitsUp[s] \in Seq(0 .. 9) /\ Short(DigitsUp[s], s)
  <2>1. DigitsUp[s] \in Seq(0 .. 9) /\ Short(DigitsUp[s], s)
    BY DecimalDigits
  <2>2. convert(s) = Reverse(DigitsUp[s] \o <<>>)
    <3>1. ~(s < 0)
      OBVIOUS
    <3>2. QED BY <3>1 DEF convert
  <2>3. QED BY <2>1, <2>2, ConcatEmptySeq
<1>4. Len(convert(s)) \in Nat /\ Len(convert(s)) <= 4
  <2> DEFINE found == DigitsUp[s]
  <2>1. found \in Seq(0 .. 9) /\ Short(found, s) /\ 0 \in 0 .. 9 /\ convert(s) = Reverse(found)
    BY <1>3
  <2> HIDE DEF found
  <2>2. Len(Reverse(found)) = Len(found) /\ Len(found) \in Nat
    <3> DEFINE T == 0 .. 9
    <3>1. found \in Seq(T)
      BY <2>1
    <3> HIDE DEF T
    <3>2. QED BY <3>1, AsManyBackwards
  <2>3. s \in 0 .. 9999
    BY <1>1, SMT
  <2>4. Len(found) <= 4
    BY <2>1, <2>3 DEF Short
  <2>5. QED BY <2>1, <2>2, <2>4
<1>5. Width(p, letters) = (IF Len(convert(s)) < 1 THEN 1 ELSE Len(convert(s))) + 0 + 0
  <2> DEFINE digits == Len(convert(s))
  <2>1. Len(convert(p.number)) = digits
    BY <1>2
  <2> HIDE DEF digits
  <2>2. Width(p, letters) = (IF digits < 0 + 1 THEN 0 + 1 ELSE digits) + (IF 0 > 0 THEN 1 ELSE 0) + 0
    BY <1>2, <2>1 DEF Width
  <2>3. 0 + 1 = 1 /\ ~(0 > 0)
    OBVIOUS
  <2>4. QED BY <2>2, <2>3 DEF digits
<1>6. QED BY <1>4, <1>5 DEF p

LEMMA QuantitiesFit ==
    ASSUME NEW s \in Nat
    PROVE  /\ s \div Mega < Part(Mega, 999500) =>
                 /\ Width(formatSI(s), 1) <= 5
                 /\ s >= Kilo => formatSI(s).number >= 100
           /\ s \div Mi < Part(Mi, 1023500) =>
                 /\ Width(formatIEC(s), 2) <= 6
                 /\ s >= Ki => formatIEC(s).number >= 100
<1>1. ASSUME s \div Mega < Part(Mega, 999500)
      PROVE  Width(formatSI(s), 1) <= 5 /\ (s >= Kilo => formatSI(s).number >= 100)
  <2>1. CASE s < Kilo
    <3>1. formatSI(s) = Printed(s, 1, 0) /\ s <= 9999 /\ ~(s >= Kilo)
      <4>1. formatSI(s) = Printed(s, 1, 0)
        BY <1>1, <2>1, UnitOfSI
      <4>2. s <= 9999 /\ ~(s >= Kilo)
        BY <2>1, SMT DEF Kilo
      <4>3. QED BY <4>1, <4>2
    <3>2. /\ 1 \in Nat /\ \A w \in 0 .. 4 : w <= 5
      OBVIOUS
    <3>3. Width(Printed(s, 1, 0), 1) \in 0 .. 4
      BY <3>1, FewOfAUnit
    <3>4. QED BY <3>1, <3>2, <3>3
  <2>2. CASE ~(s < Kilo)
    <3>1. PICK unit \in Nat \ {0} : formatSI(s) = ThreeDigits(s, unit) /\ Suits(unit, s, 999500)
      BY <1>1, <2>2, UnitOfSI
    <3> DEFINE p == ThreeDigits(s, unit)
    <3>2. p.decimals \in 0 .. 2 /\ p.number \in Nat /\ p.number >= 100 /\ p.number <= 999
      BY <3>1, ThreeDigitsSuffice, SMTT(30)
    <3> HIDE DEF p
    <3>3. Width(p, 1) <= 4 + 1
      BY <3>2, CharactersOf
    <3>4. 4 + 1 = 5
      OBVIOUS
    <3>5. QED BY <3>1, <3>2, <3>3, <3>4 DEF p
  <2>3. QED BY <2>1, <2>2
<1>2. ASSUME s \div Mi < Part(Mi, 1023500)
      PROVE  Width(formatIEC(s), 2) <= 6 /\ (s >= Ki => formatIEC(s).number >= 100)
  <2>1. CASE s < Ki
    <3>1. formatIEC(s) = Printed(s, 1, 0) /\ s <= 9999 /\ ~(s >= Ki)
      <4>1. formatIEC(s) = Printed(s, 1, 0)
        BY <1>2, <2>1, UnitOfIEC
      <4>2. s <= 9999 /\ ~(s >= Ki)
        BY <2>1, SMT DEF Ki
      <4>3. QED BY <4>1, <4>2
    <3>2. /\ 2 \in Nat /\ \A w \in 0 .. 4 : w <= 6
      OBVIOUS
    <3>3. Width(Printed(s, 1, 0), 2) \in 0 .. 4
      BY <3>1, FewOfAUnit
    <3>4. QED BY <3>1, <3>2, <3>3
  <2>2. CASE ~(s < Ki)
    <3>1. PICK unit \in Nat \ {0} : formatIEC(s) = ThreeDigits(s, unit) /\ Suits(unit, s, 1023500)
      BY <1>2, <2>2, UnitOfIEC
    <3> DEFINE p == ThreeDigits(s, unit)
    <3>2. /\ p.decimals \in 0 .. 2 /\ p.number \in Nat /\ p.number >= 100 /\ p.number <= 1023
          /\ p.number <= 999 \/ p.decimals = 0
      BY <3>1, ThreeDigitsSuffice, SMTT(30)
    <3> HIDE DEF p
    <3>3. Width(p, 2) <= 4 + 2
      BY <3>2, CharactersOf
    <3>4. 4 + 2 = 6
      OBVIOUS
    <3>5. QED BY <3>1, <3>2, <3>3, <3>4 DEF p
  <2>3. QED BY <2>1, <2>2
<1>3. QED BY <1>1, <1>2

LEMMA StaysInteger ==
    ASSUME NextNumber, input \in Int
    PROVE  input' \in Int
BY SMTT(30) DEF NextNumber

NumberInv == walk = "number" /\ input \in Int

\* LogStream.cpp:43-77, 86-90, 96-222 and 224-282: however far a walk goes, its number is
\* printed as it should.
THEOREM NumbersAlwaysPrinted == NumberSpec => []NumbersPrinted
<1>1. NumberInit => NumberInv
  BY NumbersAssumption DEF NumberInit, NumberInv
<1>2. NumberInv /\ [NextNumber]_walkVars => NumberInv'
  <2>1. SUFFICES ASSUME NumberInv, [NextNumber]_walkVars PROVE NumberInv'
    OBVIOUS
  <2>2. CASE NextNumber
    <3>1. input \in Int
      BY <2>1 DEF NumberInv
    <3>2. input' \in Int
      BY <2>2, <3>1, StaysInteger
    <3>3. walk' = walk
      BY <2>2 DEF NextNumber
    <3>4. QED BY <2>1, <3>2, <3>3 DEF NumberInv
  <2>3. CASE UNCHANGED walkVars
    BY <2>1, <2>3 DEF NumberInv, walkVars
  <2>4. QED BY <2>1, <2>2, <2>3
<1>3. NumberInv => NumbersPrinted
  <2>1. SUFFICES ASSUME NumberInv PROVE NumbersPrinted
    OBVIOUS
  <2>2. \A avail \in {kMaxNumericSize - 1, kMaxNumericSize} : PrintedIn(avail, input)
    <3>1. \A avail \in {kMaxNumericSize - 1, kMaxNumericSize} : avail \in Nat
      BY DEF kMaxNumericSize
    <3>2. input \in Int
      BY <2>1 DEF NumberInv
    <3>3. QED BY <3>1, <3>2, IntegerPrinted
  <2>3. input >= 0 => input \in Nat
    BY <2>1 DEF NumberInv
  <2>4. QED BY <2>2, <2>3, QuantitiesFit DEF NumbersPrinted
<1>4. QED BY <1>1, <1>2, <1>3, PTL DEF NumberSpec
=============================================================================
