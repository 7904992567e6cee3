------------------------------ MODULE Terminal ------------------------------
(***************************************************************************)
(* What the console's line discipline promises: a line that can be edited  *)
(* until it is entered, and input that no key changes once entered.        *)
(***************************************************************************)
EXTENDS Naturals, Sequences

CONSTANT Capacity

VARIABLES line, input

vars == <<line, input>>

Init == line = <<>> /\ input = <<>>

(* A newline or an end of file enters the line, and so does running out of room. *)
Completes(c) == c \in {"newline", "eof"} \/ Len(line) + Len(input) + 1 = Capacity

Type(c) ==
    /\ Len(line) + Len(input) < Capacity /\ ~Completes(c)
    /\ line' = Append(line, c) /\ UNCHANGED input

(* Backspace takes one character, control-U the line. *)
Erase == line # <<>> /\ line' \in {<<>>, SubSeq(line, 1, Len(line) - 1)} /\ UNCHANGED input

Enter(c) ==
    /\ Len(line) + Len(input) < Capacity /\ Completes(c)
    /\ input' = input \o Append(line, c) /\ line' = <<>>

Take == input # <<>> /\ input' = Tail(input) /\ UNCHANGED line

Next == Erase \/ Take \/ \E c \in {"a", "newline", "eof"} : Type(c) \/ Enter(c)

Spec == Init /\ [][Next]_vars
=============================================================================
