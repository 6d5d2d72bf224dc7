----------------------------- MODULE MCEventLoop -----------------------------
(***************************************************************************)
(* EventLoop for TLC: two other threads, four calls of queueInLoop or quit *)
(* and two calls of loop().  Four calls let a functor queue another while  *)
(* both other threads are between their push and their wakeup(), and quit  *)
(* arrive at any point; the second loop() finds what the first one left.   *)
(***************************************************************************)
EXTENDS EventLoop

CONSTANTS t1, t2

MCOthers   == {t1, t2}
MCMaxCalls == 4
MCMaxLoops == 2
=============================================================================
