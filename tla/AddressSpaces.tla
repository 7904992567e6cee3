--------------------------- MODULE AddressSpaces ---------------------------
(***************************************************************************)
(* What page tables and the page allocator promise the processes: each     *)
(* process has a memory of its own, a sequence of pages that only it       *)
(* changes, that starts as a copy of its parent's and ends when it exits.  *)
(* A page has a value, its last writer or where it came from, and may be   *)
(* closed to the user.                                                     *)
(***************************************************************************)
EXTENDS Naturals, Sequences

CONSTANTS
    Procs,
    First,      \* init
    Absent      \* a memory that no process has: that of a slot without a process

VARIABLE mem

Zero == [val |-> "zero", user |-> TRUE]
Guard == [val |-> "zero", user |-> FALSE]
Page(p) == [val |-> p, user |-> TRUE]

Init == mem = [p \in Procs |-> IF p = First THEN <<[val |-> "code", user |-> TRUE]>> ELSE Absent]

(* Its memory may change in the pages that the user may access. *)
Write(p) ==
    /\ mem[p] # Absent
    /\ \E S \in SUBSET {i \in DOMAIN mem[p] : mem[p][i].user} :
         mem' = [mem EXCEPT ![p] = [i \in DOMAIN @ |-> IF i \in S THEN Page(p) ELSE @[i]]]

Grow(p, size) ==
    /\ mem[p] # Absent /\ size >= Len(mem[p])
    /\ mem' = [mem EXCEPT ![p] = [i \in 1..size |-> IF i <= Len(@) THEN @[i] ELSE Zero]]

Shrink(p, size) ==
    /\ mem[p] # Absent /\ size <= Len(mem[p])
    /\ mem' = [mem EXCEPT ![p] = SubSeq(@, 1, size)]

Fork(p, c) == mem[p] # Absent /\ mem[c] = Absent /\ mem' = [mem EXCEPT ![c] = mem[p]]

(* A program image, a page that the user may not access, and a stack. *)
Exec(p) ==
    /\ mem[p] # Absent
    /\ mem' = [mem EXCEPT ![p] = mem'[p]]
    /\ mem'[p] # Absent /\ Len(mem'[p]) >= 2
    /\ LET top == Len(mem'[p])
       IN  /\ mem'[p][top] = Page(p) /\ mem'[p][top - 1] = Guard
           /\ \A i \in 1..(top - 2) : mem'[p][i].user /\ mem'[p][i].val \in {"zero", "code"}

Exit(p) == p # First /\ mem' = [mem EXCEPT ![p] = Absent]

Next ==
    \E p \in Procs :
        \/ Write(p) \/ Exec(p) \/ Exit(p)
        \/ mem[p] # Absent /\ mem'[p] # Absent /\ (Grow(p, Len(mem'[p])) \/ Shrink(p, Len(mem'[p])))
        \/ \E c \in Procs : Fork(p, c)

Spec == Init /\ [][Next]_mem
=============================================================================
