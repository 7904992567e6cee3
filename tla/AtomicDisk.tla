----------------------------- MODULE AtomicDisk -----------------------------
(***************************************************************************)
(* What the log promises the file system: operations write to memory, all  *)
(* they wrote becomes durable in one step while no operation is in         *)
(* progress, and a crash falls back to the last such step.  So a crash     *)
(* leaves all the writes of an operation on the disk or none of them.      *)
(***************************************************************************)
CONSTANTS Procs, Blocks, Vals, InitVal

VARIABLES
    durable,    \* the blocks as the next boot would find them
    mem,        \* the blocks as running operations see them
    active      \* the operations in progress

vars == <<durable, mem, active>>

Init ==
    /\ durable = [b \in Blocks |-> InitVal]
    /\ mem = durable
    /\ active = {}

Begin(p) ==
    /\ active' = active \cup {p}
    /\ UNCHANGED <<durable, mem>>

Write(p, b, v) ==
    /\ p \in active
    /\ mem' = [mem EXCEPT ![b] = v]
    /\ UNCHANGED <<durable, active>>

End(p) ==
    /\ active' = active \ {p}
    /\ UNCHANGED <<durable, mem>>

Commit ==
    /\ active = {}
    /\ durable' = mem
    /\ UNCHANGED <<mem, active>>

Crash ==
    /\ mem' = durable
    /\ active' = {}
    /\ UNCHANGED durable

Next ==
    \/ \E p \in Procs : Begin(p) \/ End(p)
    \/ \E p \in Procs, b \in Blocks, v \in Vals : Write(p, b, v)
    \/ Commit
    \/ Crash

Spec == Init /\ [][Next]_vars
=============================================================================
