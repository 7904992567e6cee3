---------------------------- MODULE AbstractLock ----------------------------
(***************************************************************************)
(* What a spin lock promises its callers: a lock has at most one owner,    *)
(* it is taken only while it is free and given back only by its owner.     *)
(* SpinLock (the test-and-set loop of spinlock.rs) implements this.        *)
(***************************************************************************)
CONSTANTS CPUs, Locks, NoCpu

VARIABLE owner

Init == owner = [l \in Locks |-> NoCpu]

Acquire(c, l) ==
    /\ owner[l] = NoCpu
    /\ owner' = [owner EXCEPT ![l] = c]

Release(c, l) ==
    /\ owner[l] = c
    /\ owner' = [owner EXCEPT ![l] = NoCpu]

Next == \E c \in CPUs, l \in Locks : Acquire(c, l) \/ Release(c, l)

Spec == Init /\ [][Next]_owner
=============================================================================
