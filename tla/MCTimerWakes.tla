---------------------------- MODULE MCTimerWakes ----------------------------
(***************************************************************************)
(* TimerQueue with the clock where it is in the program: nanoseconds since *)
(* the epoch are far beyond the range of uint16_t.  Both times asked for   *)
(* are in the future.                                                      *)
(***************************************************************************)
EXTENDS TimerQueue

MCShortRange == 8
MCWideRange  == 32
MCWhens      == {12, 17}
MCIntervals  == {0}
MCGarbage    == {0}
MCStartTimes == {10}
MCMaxTime    == 14
MCMaxTimers  == 2
MCMaxCancels == 1
=============================================================================
