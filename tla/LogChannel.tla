----------------------------- MODULE LogChannel -----------------------------
(***************************************************************************)
(* What the asynchronous logger promises its callers: a first-in first-out *)
(* queue of lines drained into a file.  The only lines it may lose are a   *)
(* run of queued ones cut out because the writer fell behind, and those    *)
(* still queued when it was told to stop.  AsyncLogging implements it.     *)
(***************************************************************************)
EXTENDS Naturals, Sequences

CONSTANT Lines

VARIABLES queue, file, open

vars == <<queue, file, open>>

Init == queue = <<>> /\ file = <<>> /\ open = FALSE

\* Lines can be queued before the logger is opened and after it is closed.
Put == /\ \E m \in Lines : queue' = Append(queue, m)
       /\ UNCHANGED <<file, open>>

\* Some of the oldest lines go to the file.
Write == /\ \E n \in 1 .. Len(queue) :
              /\ file' = file \o SubSeq(queue, 1, n)
              /\ queue' = SubSeq(queue, n + 1, Len(queue))
         /\ UNCHANGED open

\* Lines i+1 .. j of the queue are discarded.
Cut == /\ \E i, j \in 0 .. Len(queue) :
            i < j /\ queue' = SubSeq(queue, 1, i) \o SubSeq(queue, j + 1, Len(queue))
       /\ UNCHANGED <<file, open>>

Open  == ~open /\ open' = TRUE /\ UNCHANGED <<queue, file>>
Close == open /\ open' = FALSE /\ UNCHANGED <<queue, file>>

Next == Put \/ Write \/ Cut \/ Open \/ Close

\* An open logger never leaves queued lines where they are for good.
Drain == open /\ (Write \/ Cut)

Liveness == WF_vars(Drain)

Spec == Init /\ [][Next]_vars /\ Liveness
=============================================================================
