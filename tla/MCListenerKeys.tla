---------------------------- MODULE MCListenerKeys ----------------------------
(***************************************************************************)
(* ConfigVar with two variables of one type: their listeners are numbered  *)
(* by one counter, which the lock of neither protects.                     *)
(***************************************************************************)
EXTENDS ConfigVar

CONSTANTS t1, t2, width, height, small, large

MCThreads == {t1, t2}
MCVars    == {width, height}
MCValues  == {small, large}
=============================================================================
