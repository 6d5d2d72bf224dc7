----------------------------- MODULE MCThreadPool -----------------------------
(***************************************************************************)
(* PoolThreads for TLC: two workers and three clients, an unbounded queue  *)
(* and a queue of two, and five calls of run(): enough to fill that queue  *)
(* with every client waiting for room, and to have both workers asleep     *)
(* when tasks come.  Tasks call run() only when the queue is unbounded.    *)
(***************************************************************************)
EXTENDS PoolThreads

CONSTANTS w1, w2, c1, c2, c3

MCWorkers         == {w1, w2}
MCClients         == {c1, c2, c3}
MCQueueSizes      == {0, 2}
MCMaxCalls        == 5
MCNestWhenBounded == FALSE
=============================================================================
