--------------------------- MODULE MCAsyncLogging ---------------------------
(***************************************************************************)
(* AsyncLogging for TLC.  A buffer of 3 bytes holds two lines of length 1  *)
(* (avail() must stay above the length), and a line of length 3 fits no    *)
(* buffer.  Six appends can fill three buffers and start a fourth, so a      *)
(* batch can exceed MaxBacklog = 3 and be cut.                             *)
(***************************************************************************)
EXTENDS AsyncLogging

MCBufferSize == 3
MCLengths    == {1, 3}
MCMaxBacklog == 3
MCMaxAppends == 6
=============================================================================
