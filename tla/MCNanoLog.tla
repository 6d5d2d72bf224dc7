------------------------------ MODULE MCNanoLog ------------------------------
(***************************************************************************)
(* NanoLog for TLC: three producers and Buffers of two slots, so that      *)
(* Buffers are filled, waited for, set up and deleted several times; a     *)
(* ring of two items whose read index wraps around.  A file is rolled at   *)
(* its second or third line.                                               *)
(***************************************************************************)
EXTENDS NanoLog

CONSTANTS p1, p2, p3

MCProducers == {p1, p2, p3}

\* For a ring of three items, a size that does not divide the modulus of the read index.
OneProducer == {p1}

SmallRolls == {0}
OneLength  == {1}
TwoLevels  == {0, 1}
=============================================================================
