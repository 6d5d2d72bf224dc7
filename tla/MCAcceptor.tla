------------------------------ MODULE MCAcceptor ------------------------------
(***************************************************************************)
(* Acceptor for TLC: two connections, three descriptors and two that other *)
(* threads open: the limit is met by connections, by the others, and by    *)
(* both, and the others may take the spare descriptor while it is released.*)
(***************************************************************************)
EXTENDS Acceptor

CONSTANTS c1, c2

MCConnections == {c1, c2}
MCChannels    == MCConnections \cup {acceptChannel_}
=============================================================================
