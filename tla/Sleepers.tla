------------------------------ MODULE Sleepers ------------------------------
(***************************************************************************)
(* Processes in system calls that sleep for one another: what Pipe,        *)
(* Console and Files share.  A call holds a spin lock between its check of *)
(* a condition and its sleep, sleep gives the lock up and puts the process *)
(* on a channel in one step (Process.tla shows that no wakeup falls in     *)
(* between), and kill wakes a sleeper.  kill does not take the lock, so it *)
(* can fall between the check of killed and the sleep.                     *)
(***************************************************************************)
EXTENDS Integers, Sequences

CONSTANTS
    Procs,
    None

Locks == {"pipe", "console", "ticks"}

VARIABLES
    call,           \* the call that each process is in, and how far
    chan,           \* the channel that it sleeps on
    killed,         \* Process.killed
    lock,           \* the holders of the spin locks
    halted          \* the kernel has panicked

(* A call: n bytes or ticks asked for, i done, from where on, and in this round. *)
Asked(op, n, at) == [op |-> op, pc |-> "check", n |-> n, i |-> 0, at |-> at, m |-> 0]
InUser == Asked("user", 0, 0)
Gone == Asked("gone", 0, 0)

(* table::wakeup *)
Woken(c, t) == [p \in Procs |-> IF c[p] = t THEN None ELSE c[p]]

(* A process that is awake is at a point of a call, and has the lock or can take it. *)
In(p, op, pc) == ~halted /\ chan[p] = None /\ call[p].op = op /\ call[p].pc = pc
Has(p, l) == lock[l] \in {None, p}

Keeps(p, l, pc) == lock' = [lock EXCEPT ![l] = p] /\ call' = [call EXCEPT ![p].pc = pc]
Returns(p, l) == lock' = [lock EXCEPT ![l] = None] /\ call' = [call EXCEPT ![p] = InUser]
Sleeps(p, l, t, c) ==
    /\ lock' = [lock EXCEPT ![l] = None]
    /\ call' = [call EXCEPT ![p].pc = "check"]
    /\ chan' = [c EXCEPT ![p] = t]

(* sleep(token, guard), after the check. *)
Sleep(p, op, l, t) == In(p, op, "sleep") /\ Sleeps(p, l, t, chan) /\ UNCHANGED <<killed, halted>>

(* table::kill *)
Kill(p) ==
    /\ ~halted /\ ~killed[p] /\ call[p].op # "gone"
    /\ killed' = [killed EXCEPT ![p] = TRUE]
    /\ chan' = [chan EXCEPT ![p] = None]
    /\ UNCHANGED <<call, lock, halted>>
=============================================================================
