------------------------------- MODULE MCConfig -------------------------------
(***************************************************************************)
(* ConfigLoad for TLC: two threads, one variable of three values under a   *)
(* key of another one, and one file.  Three calls let one thread set the   *)
(* value, with a listener to call, while the other one sets it too; one    *)
(* edit and two loads let the edit fall before, into and after a load.     *)
(***************************************************************************)
EXTENDS ConfigLoad

CONSTANTS t1, t2, f1, view, size, Sized, small, large, huge

MCThreads == {t1, t2}
MCVars    == {<<view, size>>}
MCValues  == {small, large, huge}
MCLoaders == {t1}
MCFiles   == {f1}

\* The map over the variable is a node as well; its lines convert to no value.
nested(entries) == <<[at |-> <<view>>, holds |-> Unfit]>> \o entries

sized(val)   == [at |-> <<view, size>>, holds |-> val]
invalid(val) == [at |-> <<view, Sized>>, holds |-> val]

MCDocuments ==
    {nested(<<sized(large)>>), nested(<<sized(huge), invalid(small), sized(Unfit)>>)}
MCTimes     == {1, 2}
MCValidKeys == {view, size}
=============================================================================
