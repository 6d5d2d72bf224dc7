-------------------------------- MODULE Walk --------------------------------
(***************************************************************************)
(* What the walks through the inputs of functions have in common: a walk   *)
(* carries along with the input what the functions are compared with.      *)
(***************************************************************************)
VARIABLES
    walk,       \* what is walked: "calendar", "zone", "number", "line", "cast", or what MCData
                \* adds
    input,      \* the number of a day, the time, the integer, or what was logged
    original    \* the date, the zone, or the line

walkVars == <<walk, input, original>>
=============================================================================
