------------------------------ MODULE RingBuffer ------------------------------
(***************************************************************************)
(* example/log/Log.cpp: RingBuffer, in which a line that comes when no     *)
(* slot is free takes the place of another.  The claim of a slot and a     *)
(* critical section under the flag of an item are a step each.  The index  *)
(* of the reader is an unsigned int and wraps around.                      *)
(***************************************************************************)
EXTENDS Integers

CONSTANTS
    RingSize,       \* _size
    IndexModulus,   \* 2^32, for unsigned int
    Unwritten       \* the line of an item that is not written

ASSUME RingAssumption == RingSize \in Nat \ {0} /\ IndexModulus \in Nat \ {0}

VARIABLES
    ring,           \* the items of _ring: a line, Unwritten where written is 0
    ringWriteIndex, \* _write_index
    ringReadIndex   \* _read_index

ringVars == <<ring, ringWriteIndex, ringReadIndex>>

claimItem ==
    /\ ringWriteIndex' = ringWriteIndex + 1
    /\ UNCHANGED <<ring, ringReadIndex>>

\* The rest of push, by the one who claimed item number claim.
writeItem(claim, newLine) ==
    /\ ring' = [ring EXCEPT ![claim % RingSize] = newLine]
    /\ UNCHANGED <<ringWriteIndex, ringReadIndex>>

NextItem == ring[ringReadIndex % RingSize]

\* try_pop with success.
readItem ==
    /\ NextItem # Unwritten
    /\ ring' = [ring EXCEPT ![ringReadIndex % RingSize] = Unwritten]
    /\ ringReadIndex' = (ringReadIndex + 1) % IndexModulus
    /\ UNCHANGED ringWriteIndex

InitRing ==
    /\ ring = [i \in 0 .. RingSize - 1 |-> Unwritten]
    /\ ringWriteIndex = 0 /\ ringReadIndex = 0
=============================================================================
