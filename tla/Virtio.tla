------------------------------- MODULE Virtio -------------------------------
(***************************************************************************)
(* The virtio disk driver (virtio/disk.rs): rw() and interrupt_handler(),  *)
(* against a device that completes requests in any order.                  *)
(*                                                                         *)
(* A step is what happens under the disk's spin lock between taking it and *)
(* releasing it, by sleeping or by returning; only the interrupt handler's *)
(* loop is stepped through, because the device writes the used ring while  *)
(* it runs.  A process transfers a buffer whose sleep lock it holds, so    *)
(* the buffer address that a request carries stands for its process.       *)
(*                                                                         *)
(* Operators named Mut... are wrong variants of the definition after them; *)
(* each shows that some property notices that mistake.                     *)
(***************************************************************************)
EXTENDS Integers, FiniteSets

CONSTANTS
    Procs,      \* processes that read or write blocks
    NoProc,     \* the address in an info entry that was never written
    D,          \* DESCRIPTOR_NUM
    W,          \* the ring indices are modulo W (u16: 2^16 in the code)
    Start,      \* requests served before the behaviour begins
    MaxReq      \* bound: calls that may be made after them

ASSUME ProcAssumption == NoProc \notin Procs
ASSUME DescAssumption == D \in Nat /\ D >= 3
ASSUME WrapAssumption == W \in Nat /\ W >= D /\ W % D = 0
ASSUME StartAssumption == Start \in 0..(W - 1)
ASSUME BoundAssumption == MaxReq \in 0..(W - 1)

Desc == 0..(D - 1)

VARIABLES
    taken,      \* Disk.free, as the set of bits that are set
    mine,       \* rw's idx: the descriptors each process has allocated...
    head,       \* ...and the first of them
    at,         \* where each process is
    info,       \* Disk.info[d].addr: who waits for the request headed by d...
    in_use,     \* ...and Disk.info[d].in_use
    chain,      \* Disk.descriptor: the descriptors chained from d
    ring, avail_idx,    \* the avail ring
    used_index,         \* Disk.used_index
    handling,           \* is a CPU inside interrupt_handler's loop?
    uring, used_idx,    \* the used ring, written by the device
    seen,       \* device: how far it has read the avail ring
    work,       \* device: heads of the requests it is processing
    irq         \* device: is its interrupt pending?

procs == <<taken, mine, head, at>>
requests == <<info, in_use, chain, ring, avail_idx>>
device == <<uring, used_idx, seen, work>>
vars == <<procs, requests, used_index, handling, device, irq>>

(* Either the disk has just been initialised, or a process has made Start
   requests, one after another: all of them used the descriptors 0, 1 and 2. *)
Init ==
    /\ taken = {}
    /\ mine = [p \in Procs |-> {}]
    /\ head = [p \in Procs |-> 0]
    /\ at = [p \in Procs |-> "idle"]
    /\ \E p \in Procs :
        info = [d \in Desc |-> IF d = 0 /\ Start > 0 THEN p ELSE NoProc]
    /\ in_use = [d \in Desc |-> FALSE]
    /\ chain = [d \in Desc |-> IF d = 0 /\ Start > 0 THEN 0..2 ELSE {}]
    /\ ring = [d \in Desc |-> 0]
    /\ avail_idx = Start
    /\ used_index = Start
    /\ handling = FALSE
    /\ uring = [d \in Desc |-> 0]
    /\ used_idx = Start
    /\ seen = Start
    /\ work = {}
    /\ irq = FALSE

(* How many requests the index has gone from a to b. *)
Distance(a, b) == (b + W - a) % W

(* rw() is called. *)
Unpublished == {p \in Procs : at[p] \in {"alloc", "asleep"}}

Call(p) ==
    /\ at[p] = "idle"
    /\ Distance(Start, avail_idx) + Cardinality(Unpublished) < MaxReq
    /\ at' = [at EXCEPT ![p] = "alloc"]
    /\ UNCHANGED <<taken, mine, head, requests, used_index, handling, device,
                   irq>>

Available == Desc \ taken
Needed(p) == 3 - Cardinality(mine[p])

(* T is what the loop over Bitmap::allocate takes: the lowest clear bits. *)
Lowest(T) == T \subseteq Available /\ \A x \in T, y \in Available \ T : x < y

(* p takes T; idx[0] is the first descriptor it ever took. *)
Take(p, T) ==
    /\ Lowest(T)
    /\ taken' = taken \cup T
    /\ mine' = [mine EXCEPT ![p] = @ \cup T]
    /\ IF mine[p] = {} /\ T # {}
         THEN \E h \in T : /\ \A x \in T : h <= x
                           /\ head' = [head EXCEPT ![p] = h]
         ELSE UNCHANGED head

(* must_allocate_descriptor, when fewer are free than needed: take all of them
   and sleep, holding them, until some are freed. *)
AllocWait(p) ==
    /\ at[p] = "alloc" /\ ~handling
    /\ Cardinality(Available) < Needed(p)
    /\ Take(p, Available)
    /\ at' = [at EXCEPT ![p] = "asleep"]
    /\ UNCHANGED <<requests, used_index, handling, device, irq>>

MutPublish(p) ==            \* the index does not wrap around
    LET h == head'[p] IN
    /\ info' = [info EXCEPT ![h] = p]
    /\ in_use' = [in_use EXCEPT ![h] = TRUE]
    /\ chain' = [chain EXCEPT ![h] = mine'[p]]
    /\ ring' = [ring EXCEPT ![avail_idx % D] = h]
    /\ avail_idx' = avail_idx + 1

(* Fill in the chain and the info entry, publish the head, notify the device. *)
Publish(p) ==
    LET h == head'[p] IN
    /\ info' = [info EXCEPT ![h] = p]
    /\ in_use' = [in_use EXCEPT ![h] = TRUE]
    /\ chain' = [chain EXCEPT ![h] = mine'[p]]
    /\ ring' = [ring EXCEPT ![avail_idx % D] = h]
    /\ avail_idx' = (avail_idx + 1) % W

(* When enough are free, the rest of rw() runs up to the wait for the answer. *)
Submit(p) ==
    /\ at[p] = "alloc" /\ ~handling
    /\ \E T \in SUBSET Available : Cardinality(T) = Needed(p) /\ Take(p, T)
    /\ Publish(p)
    /\ at' = [at EXCEPT ![p] = "io"]
    /\ UNCHANGED <<used_index, handling, device, irq>>

(* The loop around sleep(addr): a wakeup that was not for the answer. *)
Recheck(p) ==
    /\ at[p] = "woken" /\ ~handling
    /\ in_use[head[p]]
    /\ at' = [at EXCEPT ![p] = "io"]
    /\ UNCHANGED <<taken, mine, head, requests, used_index, handling, device,
                   irq>>

MutFinishSilent(p) ==       \* nobody is woken for the freed descriptors
    /\ at[p] = "woken" /\ ~handling
    /\ ~in_use[head[p]]
    /\ taken' = taken \ mine[p]
    /\ mine' = [mine EXCEPT ![p] = {}]
    /\ head' = [head EXCEPT ![p] = 0]
    /\ at' = [at EXCEPT ![p] = "idle"]
    /\ UNCHANGED <<requests, used_index, handling, device, irq>>

(* The answer is there: deallocate_descriptor, three times, and its wakeups. *)
Finish(p) ==
    /\ at[p] = "woken" /\ ~handling
    /\ ~in_use[head[p]]
    /\ taken' = taken \ mine[p]
    /\ mine' = [mine EXCEPT ![p] = {}]
    /\ head' = [head EXCEPT ![p] = 0]
    /\ at' = [q \in Procs |-> IF q = p THEN "idle"
                              ELSE IF at[q] = "asleep" THEN "alloc" ELSE at[q]]
    /\ UNCHANGED <<requests, used_index, handling, device, irq>>

(* ProcessTable::kill wakes a process out of either sleep. *)
Kill(p) ==
    /\ at[p] \in {"asleep", "io"}
    /\ at' = [at EXCEPT ![p] = IF @ = "io" THEN "woken" ELSE "alloc"]
    /\ UNCHANGED <<taken, mine, head, requests, used_index, handling, device,
                   irq>>
-----------------------------------------------------------------------------
(* interrupt_handler: take the lock and acknowledge... *)
IntrEnter ==
    /\ irq /\ ~handling
    /\ irq' = FALSE
    /\ handling' = TRUE
    /\ UNCHANGED <<procs, requests, used_index, device>>

(* ...then complete the requests found in the used ring, one by one... *)
IntrStep ==
    LET d == uring[used_index % D] IN
    /\ handling /\ used_index # used_idx
    /\ in_use' = [in_use EXCEPT ![d] = FALSE]
    /\ at' = [at EXCEPT ![info[d]] = IF @ = "io" THEN "woken" ELSE @]
    /\ used_index' = (used_index + 1) % W
    /\ UNCHANGED <<taken, mine, head, info, chain, ring, avail_idx, handling,
                   device, irq>>

MutIntrExit ==              \* leaves entries in the used ring
    /\ handling
    /\ handling' = FALSE
    /\ UNCHANGED <<procs, requests, used_index, device, irq>>

(* ...until it has caught up with the device. *)
IntrExit ==
    /\ handling /\ used_index = used_idx
    /\ handling' = FALSE
    /\ UNCHANGED <<procs, requests, used_index, device, irq>>
-----------------------------------------------------------------------------
(* The device takes the next request from the avail ring... *)
DeviceTake ==
    /\ seen # avail_idx
    /\ work' = work \cup {ring[seen % D]}
    /\ seen' = (seen + 1) % W
    /\ UNCHANGED <<procs, requests, used_index, handling, uring, used_idx, irq>>

(* ...and completes any of those it has taken. *)
DeviceComplete(d) ==
    /\ d \in work
    /\ work' = work \ {d}
    /\ uring' = [uring EXCEPT ![used_idx % D] = d]
    /\ used_idx' = (used_idx + 1) % W
    /\ irq' = TRUE
    /\ UNCHANGED <<procs, requests, used_index, handling, seen>>

Proc(p) == AllocWait(p) \/ Submit(p) \/ Recheck(p) \/ Finish(p)
Handler == IntrEnter \/ IntrStep \/ IntrExit

Next ==
    \/ \E p \in Procs : Call(p) \/ Proc(p) \/ Kill(p)
    \/ Handler
    \/ DeviceTake
    \/ \E d \in Desc : DeviceComplete(d)

Spec == Init /\ [][Next]_vars

(* Processes and the handler run on; the device answers every request. *)
Fairness ==
    /\ \A p \in Procs : WF_vars(Recheck(p) \/ Finish(p))
    /\ WF_vars(Handler)
    /\ WF_vars(DeviceTake)
    /\ \A d \in Desc : WF_vars(DeviceComplete(d))

FairSpec == Spec /\ Fairness
-----------------------------------------------------------------------------
(* The heads on their way: in the avail ring, in the device, in the used ring. *)
Between(a, b) == {(a + k) % W : k \in 0..(Distance(a, b) - 1)}
Offered == {ring[k % D] : k \in Between(seen, avail_idx)}
Answered == {uring[k % D] : k \in Between(used_index, used_idx)}
Pending == Offered \cup work \cup Answered

(* No request is lost, duplicated, overwritten in a ring or recycled: the heads
   on their way are exactly those of the processes that still wait for an
   answer, each is there once, and its chain is what that process set up. *)
RequestsIntact ==
    /\ Pending = {d \in Desc : in_use[d]}
    /\ Cardinality(Pending) = Distance(seen, avail_idx) + Cardinality(work)
                                + Distance(used_index, used_idx)
    /\ \A d \in Pending :
        /\ info[d] \in Procs
        /\ at[info[d]] \in {"io", "woken"}
        /\ head[info[d]] = d
        /\ chain[d] = mine[info[d]] /\ Cardinality(chain[d]) = 3

(* No descriptor is allocated twice and none is lost. *)
DescriptorsPartitioned ==
    /\ taken = UNION {mine[p] : p \in Procs}
    /\ \A p, q \in Procs : p # q => mine[p] \cap mine[q] = {}

(* Processes keep the descriptors they have while they sleep for more, yet they
   never all wait for each other: whenever one sleeps for descriptors, another
   has a complete request whose end will free three. *)
NoDescriptorDeadlock ==
    \A p \in Procs : at[p] = "asleep" =>
        \E q \in Procs : at[q] \in {"io", "woken"}

(* What makes that so: at most one process holds a part of a request, and as long
   as it does the number of free descriptors is a multiple of three; and no one
   sleeps beside a free descriptor. *)
Partial(p) == at[p] \in {"alloc", "asleep"} /\ mine[p] # {}

OnePartial ==
    /\ \A p, q \in Procs : Partial(p) /\ Partial(q) => p = q
    /\ \A p \in Procs : Partial(p) => Cardinality(Available) % 3 = 0
    /\ \A p \in Procs : at[p] = "asleep" => Available = {}

(* How many descriptors a process has at each point of rw(). *)
Holdings ==
    \A p \in Procs :
        /\ at[p] = "idle" => mine[p] = {}
        /\ at[p] \in {"alloc", "asleep"} => Cardinality(mine[p]) < 3
        /\ at[p] \in {"io", "woken"} => Cardinality(mine[p]) = 3

(* rw() keeps account of the descriptors: they are partitioned, a process has as
   many as its place in rw() says, and at most one process has a part of a request
   (the inductive invariant). *)
DescriptorInv ==
    /\ taken \subseteq Desc
    /\ mine \in [Procs -> SUBSET Desc]
    /\ at \in [Procs -> {"idle", "alloc", "asleep", "io", "woken"}]
    /\ DescriptorsPartitioned
    /\ Holdings
    /\ OnePartial

(* Every request that was submitted is answered and its process returns. *)
RequestsFinish ==
    \A p \in Procs : at[p] = "io" ~> at[p] = "idle"
=============================================================================
