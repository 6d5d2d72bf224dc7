---------------------------- MODULE MCTimerQueue ----------------------------
(***************************************************************************)
(* TimerQueue for TLC: two timers and two calls of cancel, from the loop   *)
(* or elsewhere.  A clock of seven ticks lets a timer fire, run again, and *)
(* fall due while callbacks run; 9 does not fit ShortRange and becomes 1.  *)
(* Most times fit it, and the clock does, so that timers fire at all: with *)
(* the true clock none does, see MCTimerWakes.                             *)
(***************************************************************************)
EXTENDS TimerQueue

MCShortRange == 8
MCWideRange  == 32
MCWhens      == {2, 5, 9}
MCIntervals  == {0, 2}
MCGarbage    == {0, 1, 20}
MCStartTimes == {1}
MCMaxTime    == 7
MCMaxTimers  == 2
MCMaxCancels == 2
=============================================================================
