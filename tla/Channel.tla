------------------------------ MODULE Channel ------------------------------
(***************************************************************************)
(* What a pipe promises: a bounded first-in first-out queue of bytes with  *)
(* two ends that close for good, and an end of file that is reported only  *)
(* when no byte can come any more.                                         *)
(***************************************************************************)
EXTENDS Naturals, Sequences

CONSTANT Capacity

VARIABLES queue, read_open, write_open, eof

vars == <<queue, read_open, write_open, eof>>

Init == queue = <<>> /\ read_open = TRUE /\ write_open = TRUE /\ eof = FALSE

Put ==
    /\ read_open /\ write_open /\ Len(queue) < Capacity
    /\ Len(queue') = Len(queue) + 1 /\ SubSeq(queue', 1, Len(queue)) = queue
    /\ UNCHANGED <<read_open, write_open, eof>>

Take ==
    /\ read_open
    /\ \E k \in 1..Len(queue) : queue' = SubSeq(queue, k + 1, Len(queue))
    /\ UNCHANGED <<read_open, write_open, eof>>

Close ==
    /\ read_open' => read_open
    /\ write_open' => write_open
    /\ UNCHANGED <<queue, eof>>

EndOfFile == read_open /\ ~write_open /\ queue = <<>> /\ eof' = TRUE /\ UNCHANGED <<queue, read_open, write_open>>

Next == Put \/ Take \/ Close \/ EndOfFile

Spec == Init /\ [][Next]_vars
=============================================================================
