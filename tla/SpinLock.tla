------------------------------ MODULE SpinLock ------------------------------
(***************************************************************************)
(* SpinLock::lock / unlock (spinlock.rs) on top of the nested disabling    *)
(* of interrupts (interrupt.rs: push_off, pop_off, off), on a set of CPUs, *)
(* and what a context switch (process.rs) does to the interrupt state.     *)
(*                                                                         *)
(* A CPU runs its scheduler or a kernel thread; an interrupt may arrive    *)
(* whenever sstatus.SIE is set, and its handler takes and releases locks   *)
(* too.  A thread may be switched out, in a handler as well, with one lock *)
(* held, and go on later on another CPU.  The memory operations that other *)
(* CPUs can see (the CAS, the store of cpuid, the two loads of             *)
(* is_held_by_current_cpu, the store of locked) are one step each.  What a *)
(* CPU does to its own InterruptState while its interrupts are off is seen *)
(* by nobody else and joins a neighbouring step.                           *)
(*                                                                         *)
(* Callers take locks in increasing order; the code leaves that discipline *)
(* to them.                                                                *)
(*                                                                         *)
(* Operators named Mut... are wrong variants of the definition after them; *)
(* each shows that some property notices that mistake.                     *)
(***************************************************************************)
EXTENDS Integers, FiniteSets

CONSTANTS
    CPUs,       \* the harts
    Locks,      \* SpinLock values, numbered along the callers' lock order
    ProcessLocks,   \* those of processes, with which threads are switched
    NoCpu,      \* usize::MAX, the cpuid of a lock nobody holds
    Threads,    \* the kernel threads of processes
    Scheduler,  \* what a CPU runs when it runs none of them
    MaxOff      \* bound on nested interrupt::off sections on one CPU

ASSUME CpuAssumption == NoCpu \notin CPUs
ASSUME ThreadAssumption == Scheduler \notin Threads
ASSUME LockAssumption == Locks \subseteq Nat /\ IsFiniteSet(Locks)
ASSUME ProcessAssumption == ProcessLocks \subseteq Locks
ASSUME MaxOffAssumption == MaxOff \in Nat

VARIABLES
    locked,     \* SpinLock.locked
    cpuid,      \* SpinLock.cpuid
    enabled,    \* sstatus.SIE of each CPU
    depth,      \* InterruptState.depth_of_disable
    before,     \* InterruptState.is_enabled_before
    pc,         \* where the running code of each CPU is
    lk,         \* the lock it is operating on; NoLock in a plain interrupt::off
    was,        \* push_off's local is_enabled, FALSE once it is out of scope
    held,       \* the live SpinLockGuards of the CPU
    offs,       \* the interrupt::off sections the CPU is inside
    saved,      \* the frame an interrupt handler returns to
    irq,        \* is the CPU in an interrupt handler?
    thread,     \* what each CPU runs
    context,    \* what waits on the stack of a thread that runs nowhere
    base        \* history: SIE as the running code left it outside all locks

vars == <<locked, cpuid, enabled, depth, before, pc, lk, was, held, offs,
          saved, irq, thread, context, base>>
lockVars == <<locked, cpuid>>
intrVars == <<enabled, depth, before>>
irqVars  == <<saved, irq, base>>
switchVars == <<thread, context>>

NoLock == -1
EmptyFrame == [pc |-> "run", lk |-> NoLock, was |-> FALSE]

(* The stack of a thread that has not run yet, and of one that has been switched out
   with return_to_scheduler's local intena. *)
NewContext == [new |-> TRUE, saved |-> EmptyFrame, irq |-> FALSE, base |-> FALSE,
               intena |-> FALSE]

PC == {"run",       \* between two operations
       "push",      \* push_off has read is_enabled
       "check",     \* about to load `locked` for the assertion of lock()
       "check2",    \* `locked` was true: about to load `cpuid`
       "cas",       \* in the compare_exchange loop
       "store",     \* won the CAS, about to store cpuid
       "free"}      \* unlock_raw has cleared cpuid, about to clear locked

Init ==
    /\ locked = [l \in Locks |-> FALSE]
    /\ cpuid = [l \in Locks |-> NoCpu]
    /\ enabled = [c \in CPUs |-> FALSE]
    /\ depth = [c \in CPUs |-> 0]
    /\ before = [c \in CPUs |-> FALSE]
    /\ pc = [c \in CPUs |-> "run"]
    /\ lk = [c \in CPUs |-> NoLock]
    /\ was = [c \in CPUs |-> FALSE]
    /\ held = [c \in CPUs |-> {}]
    /\ offs = [c \in CPUs |-> 0]
    /\ saved = [c \in CPUs |-> EmptyFrame]
    /\ irq = [c \in CPUs |-> FALSE]
    /\ thread = [c \in CPUs |-> Scheduler]
    /\ context = [t \in Threads |-> NewContext]
    /\ base = [c \in CPUs |-> FALSE]

Goto(c, to) == pc' = [pc EXCEPT ![c] = to]

(* lock() and off() start with push_off, whose first act is to read SIE. *)
PushRead(c, l) ==
    /\ pc[c] = "run"
    /\ was' = [was EXCEPT ![c] = enabled[c]]
    /\ lk' = [lk EXCEPT ![c] = l]
    /\ Goto(c, "push")
    /\ UNCHANGED <<lockVars, intrVars, held, offs, irqVars, switchVars>>

(* The loop of scheduler(), outside interrupt handlers: it takes the lock of one
   process at a time, and calls map_assigned_mut (an off section) with it. *)
InScheduler(c) == thread[c] = Scheduler /\ ~irq[c]

LockBegin(c, l) ==
    /\ \A m \in held[c] : m < l
    /\ InScheduler(c) => held[c] = {} /\ l \in ProcessLocks
    /\ PushRead(c, l)

OffBegin(c) ==
    /\ offs[c] < MaxOff
    /\ InScheduler(c) => held[c] # {}
    /\ PushRead(c, NoLock)

(* The rest of push_off: disable, then update the per-CPU state. *)
PushOff(c) ==
    /\ enabled' = [enabled EXCEPT ![c] = FALSE]
    /\ before' = [before EXCEPT ![c] = IF depth[c] = 0 THEN was[c] ELSE @]
    /\ depth' = [depth EXCEPT ![c] = @ + 1]

Push(c) ==
    /\ pc[c] = "push"
    /\ PushOff(c)
    /\ was' = [was EXCEPT ![c] = FALSE]
    /\ IF lk[c] = NoLock
         THEN Goto(c, "run") /\ offs' = [offs EXCEPT ![c] = @ + 1]
         ELSE Goto(c, "check") /\ UNCHANGED offs
    /\ UNCHANGED <<lockVars, lk, held, irqVars, switchVars>>

(* is_held_by_current_cpu loads `locked`, and `cpuid` only if it was true. *)
CheckLocked(c) ==
    /\ pc[c] = "check"
    /\ Goto(c, IF locked[lk[c]] THEN "check2" ELSE "cas")
    /\ UNCHANGED <<lockVars, intrVars, lk, was, held, offs, irqVars, switchVars>>

CheckCpuid(c) ==
    /\ pc[c] = "check2"
    /\ cpuid[lk[c]] # c
    /\ Goto(c, "cas")
    /\ UNCHANGED <<lockVars, intrVars, lk, was, held, offs, irqVars, switchVars>>

MutCompareExchange(c) ==        \* a plain store instead of compare_exchange
    /\ pc[c] = "cas"
    /\ locked' = [locked EXCEPT ![lk[c]] = TRUE]
    /\ Goto(c, "store")
    /\ UNCHANGED <<cpuid, intrVars, lk, was, held, offs, irqVars, switchVars>>

CompareExchange(c) ==
    /\ pc[c] = "cas"
    /\ ~locked[lk[c]]
    /\ locked' = [locked EXCEPT ![lk[c]] = TRUE]
    /\ Goto(c, "store")
    /\ UNCHANGED <<cpuid, intrVars, lk, was, held, offs, irqVars, switchVars>>

MutStoreCpuid(c) ==             \* the winner does not record itself
    /\ pc[c] = "store"
    /\ held' = [held EXCEPT ![c] = @ \cup {lk[c]}]
    /\ lk' = [lk EXCEPT ![c] = NoLock]
    /\ Goto(c, "run")
    /\ UNCHANGED <<lockVars, intrVars, was, offs, irqVars, switchVars>>

StoreCpuid(c) ==
    /\ pc[c] = "store"
    /\ cpuid' = [cpuid EXCEPT ![lk[c]] = c]
    /\ held' = [held EXCEPT ![c] = @ \cup {lk[c]}]
    /\ lk' = [lk EXCEPT ![c] = NoLock]
    /\ Goto(c, "run")
    /\ UNCHANGED <<locked, intrVars, was, offs, irqVars, switchVars>>

(* unlock_raw: guards are dropped in any order. *)
UnlockBegin(c, l) ==
    /\ pc[c] = "run"
    /\ l \in held[c]
    /\ cpuid' = [cpuid EXCEPT ![l] = NoCpu]
    /\ held' = [held EXCEPT ![c] = @ \ {l}]
    /\ lk' = [lk EXCEPT ![c] = l]
    /\ Goto(c, "free")
    /\ UNCHANGED <<locked, intrVars, was, offs, irqVars, switchVars>>

MutPopOffNested(c) ==           \* enables before the outermost pop_off
    /\ depth' = [depth EXCEPT ![c] = @ - 1]
    /\ enabled' = [enabled EXCEPT ![c] = @ \/ before[c]]
    /\ UNCHANGED before

PopOff(c) ==
    /\ depth' = [depth EXCEPT ![c] = @ - 1]
    /\ enabled' = [enabled EXCEPT ![c] = @ \/ (depth[c] = 1 /\ before[c])]
    /\ UNCHANGED before

MutUnlockEnd(c) ==              \* `locked` is never cleared
    /\ pc[c] = "free"
    /\ PopOff(c)
    /\ lk' = [lk EXCEPT ![c] = NoLock]
    /\ Goto(c, "run")
    /\ UNCHANGED <<lockVars, was, held, offs, irqVars, switchVars>>

UnlockEnd(c) ==
    /\ pc[c] = "free"
    /\ locked' = [locked EXCEPT ![lk[c]] = FALSE]
    /\ PopOff(c)
    /\ lk' = [lk EXCEPT ![c] = NoLock]
    /\ Goto(c, "run")
    /\ UNCHANGED <<cpuid, was, held, offs, irqVars, switchVars>>

OffEnd(c) ==
    /\ pc[c] = "run"
    /\ offs[c] > 0
    /\ offs' = [offs EXCEPT ![c] = @ - 1]
    /\ PopOff(c)
    /\ UNCHANGED <<lockVars, pc, lk, was, held, irqVars, switchVars>>

(* riscv::enable_interrupt in scheduler and usertrap, riscv::disable_interrupt
   in usertrapret: the running code holds no lock there. *)
SetInterrupt(c, on) ==
    /\ pc[c] = "run" /\ depth[c] = 0 /\ ~irq[c]
    /\ enabled[c] # on
    /\ thread[c] = Scheduler => on
    /\ enabled' = [enabled EXCEPT ![c] = on]
    /\ base' = [base EXCEPT ![c] = on]
    /\ UNCHANGED <<lockVars, depth, before, pc, lk, was, held, offs, saved, irq,
                   switchVars>>

(* The hardware clears SIE and enters kernelvec; sret restores it. *)
TakeInterrupt(c) ==
    /\ enabled[c]
    /\ enabled' = [enabled EXCEPT ![c] = FALSE]
    /\ saved' = [saved EXCEPT ![c] = [pc |-> pc[c], lk |-> lk[c], was |-> was[c]]]
    /\ irq' = [irq EXCEPT ![c] = TRUE]
    /\ base' = [base EXCEPT ![c] = FALSE]
    /\ lk' = [lk EXCEPT ![c] = NoLock]
    /\ was' = [was EXCEPT ![c] = FALSE]
    /\ Goto(c, "run")
    /\ UNCHANGED <<lockVars, depth, before, held, offs, switchVars>>

ReturnFromInterrupt(c) ==
    /\ irq[c]
    /\ pc[c] = "run" /\ held[c] = {} /\ offs[c] = 0
    /\ enabled' = [enabled EXCEPT ![c] = TRUE]
    /\ irq' = [irq EXCEPT ![c] = FALSE]
    /\ base' = [base EXCEPT ![c] = TRUE]
    /\ Goto(c, saved[c].pc)
    /\ lk' = [lk EXCEPT ![c] = saved[c].lk]
    /\ was' = [was EXCEPT ![c] = saved[c].was]
    /\ saved' = [saved EXCEPT ![c] = EmptyFrame]
    /\ UNCHANGED <<lockVars, depth, before, held, offs, switchVars>>

(* A context switch is made with one lock held, the process's: its guard travels in
   ASSIGNED[cpu], and whoever is switched to drops it. *)
CanSwitch(c) ==
    /\ pc[c] = "run" /\ offs[c] = 0
    /\ \E l \in ProcessLocks : held[c] = {l}

MutSwitchOut(c) ==              \* intena is not saved
    /\ thread[c] # Scheduler /\ CanSwitch(c)
    /\ context' = [context EXCEPT ![thread[c]] =
           [new |-> FALSE, saved |-> saved[c], irq |-> irq[c], base |-> base[c],
            intena |-> FALSE]]
    /\ thread' = [thread EXCEPT ![c] = Scheduler]
    /\ saved' = [saved EXCEPT ![c] = EmptyFrame]
    /\ irq' = [irq EXCEPT ![c] = FALSE]
    /\ base' = [base EXCEPT ![c] = before[c]]
    /\ UNCHANGED <<lockVars, intrVars, pc, lk, was, held, offs>>

(* return_to_scheduler, from sleep, exit and pause (which a timer interrupt calls in
   the handler too).  The scheduler drops the guard with the is_enabled_before that
   the thread leaves behind. *)
SwitchOut(c) ==
    /\ thread[c] # Scheduler /\ CanSwitch(c)
    /\ context' = [context EXCEPT ![thread[c]] =
           [new |-> FALSE, saved |-> saved[c], irq |-> irq[c], base |-> base[c],
            intena |-> before[c]]]
    /\ thread' = [thread EXCEPT ![c] = Scheduler]
    /\ saved' = [saved EXCEPT ![c] = EmptyFrame]
    /\ irq' = [irq EXCEPT ![c] = FALSE]
    /\ base' = [base EXCEPT ![c] = before[c]]
    /\ UNCHANGED <<lockVars, intrVars, pc, lk, was, held, offs>>

(* cpu::dispatch in scheduler(): a thread goes on behind its cpu::preemption, where
   it sets is_enabled_before; a new one starts in finish_dispatch, which does not. *)
Dispatch(c, t) ==
    LET x == context[t] IN
    /\ InScheduler(c) /\ CanSwitch(c)
    /\ \A d \in CPUs : thread[d] # t
    /\ before' = [before EXCEPT ![c] = IF x.new THEN @ ELSE x.intena]
    /\ base' = [base EXCEPT ![c] = IF x.new THEN before[c] ELSE x.base]
    /\ saved' = [saved EXCEPT ![c] = x.saved]
    /\ irq' = [irq EXCEPT ![c] = x.irq]
    /\ thread' = [thread EXCEPT ![c] = t]
    /\ context' = [context EXCEPT ![t] = NewContext]
    /\ UNCHANGED <<lockVars, enabled, depth, pc, lk, was, held, offs>>

CpuStep(c) ==
    \/ \E l \in Locks : LockBegin(c, l)
    \/ OffBegin(c)
    \/ Push(c)
    \/ CheckLocked(c)
    \/ CheckCpuid(c)
    \/ CompareExchange(c)
    \/ StoreCpuid(c)
    \/ \E l \in Locks : UnlockBegin(c, l)
    \/ UnlockEnd(c)
    \/ OffEnd(c)
    \/ \E on \in BOOLEAN : SetInterrupt(c, on)
    \/ TakeInterrupt(c)
    \/ ReturnFromInterrupt(c)
    \/ SwitchOut(c)
    \/ \E t \in Threads : Dispatch(c, t)

Next == \E c \in CPUs : CpuStep(c)

Spec == Init /\ [][Next]_vars

(* A hart keeps executing the instructions of lock and unlock, and every
   critical section of the kernel ends: guards are dropped, whatever other
   locks and off sections the code enters before (hence SF).  Nothing is
   assumed about which CPU wins the compare_exchange. *)
Fairness ==
    \A c \in CPUs :
        /\ WF_vars(Push(c)) /\ WF_vars(CheckLocked(c)) /\ WF_vars(CheckCpuid(c))
        /\ WF_vars(CompareExchange(c)) /\ WF_vars(StoreCpuid(c))
        /\ WF_vars(UnlockEnd(c))
        /\ SF_vars(\E l \in Locks : UnlockBegin(c, l))

FairSpec == Spec /\ Fairness
-----------------------------------------------------------------------------
(* CPU c owns lock l from its successful CAS to its store of locked. *)
Owns(c, l) == l \in held[c] \/ (lk[c] = l /\ pc[c] \in {"store", "free"})

Frame == [pc : PC, lk : Locks \cup {NoLock}, was : BOOLEAN]
Context == [new : BOOLEAN, saved : Frame, irq : BOOLEAN, base : BOOLEAN,
            intena : BOOLEAN]

(* Every variable stays in its type. *)
TypeOK ==
    /\ locked \in [Locks -> BOOLEAN]
    /\ cpuid \in [Locks -> CPUs \cup {NoCpu}]
    /\ enabled \in [CPUs -> BOOLEAN]
    /\ depth \in [CPUs -> Nat]
    /\ before \in [CPUs -> BOOLEAN]
    /\ pc \in [CPUs -> PC]
    /\ lk \in [CPUs -> Locks \cup {NoLock}]
    /\ was \in [CPUs -> BOOLEAN]
    /\ held \in [CPUs -> SUBSET Locks]
    /\ offs \in [CPUs -> Nat]
    /\ saved \in [CPUs -> Frame]
    /\ irq \in [CPUs -> BOOLEAN]
    /\ thread \in [CPUs -> Threads \cup {Scheduler}]
    /\ context \in [Threads -> Context]
    /\ base \in [CPUs -> BOOLEAN]

(* The data behind a SpinLock is touched by one CPU at a time: no two CPUs
   are between a successful compare_exchange and the store of `locked`. *)
MutualExclusion ==
    \A c, d \in CPUs, l \in Locks : Owns(c, l) /\ Owns(d, l) => c = d

(* The assertions of spinlock.rs never fire on a correct caller: lock() never
   takes another CPU's half-finished acquisition or release for its own (the
   two loads of is_held_by_current_cpu are not atomic), in particular not in
   an interrupt handler, and unlock_raw always finds its own cpuid.  And whoever
   switches contexts with one guard left has interrupts off at depth 1, as
   return_to_scheduler asserts. *)
AssertionsHold ==
    \A c \in CPUs :
        /\ pc[c] = "check2" => cpuid[lk[c]] # c
        /\ \A l \in held[c] : locked[l] /\ cpuid[l] = c
        /\ CanSwitch(c) => ~enabled[c] /\ depth[c] = 1

(* No interrupt is taken on a CPU that holds a lock or is about to: this is
   what keeps a handler from spinning on a lock of the code it interrupted. *)
NoInterruptInCriticalSection ==
    \A c \in CPUs :
        enabled[c] => held[c] = {} /\ offs[c] = 0 /\ pc[c] \in {"run", "push"}

(* When a kernel thread has released its outermost lock, SIE is what it was before
   the thread took the first one, however locks and off sections were nested,
   whatever interrupts came, and even if the thread was switched out with the lock
   held and goes on on another CPU.  Of the scheduler this is not true, and nothing
   is claimed: it takes a process's lock with its own SIE and releases it with that
   of the thread that ran in between. *)
InterruptsRestored ==
    \A c \in CPUs :
        thread[c] # Scheduler /\ pc[c] = "run" /\ held[c] = {} /\ offs[c] = 0
            => enabled[c] = base[c]

(* The inductive strengthening behind the properties above.  DepthCounts ties
   depth_of_disable to the guards and off sections it stands for. *)
Busy == {"check", "check2", "cas", "store", "free"}

DepthCounts ==
    \A c \in CPUs :
        depth[c] = Cardinality(held[c]) + offs[c]
                     + (IF pc[c] \in Busy THEN 1 ELSE 0)

InterruptState ==
    \A c \in CPUs :
        /\ depth[c] = 0 => enabled[c] = base[c]
        /\ depth[c] > 0 => ~enabled[c] /\ before[c] = base[c]
        /\ pc[c] = "push" => was[c] = enabled[c]
        /\ irq[c] => /\ ~base[c]
                     /\ saved[c].pc \in {"run", "push"}
                     /\ saved[c].pc = "push" => saved[c].was

ContextState ==
    \A t \in Threads :
        /\ ~context[t].new => context[t].intena = context[t].base
        /\ context[t].irq => /\ ~context[t].new
                             /\ ~context[t].base
                             /\ context[t].saved.pc \in {"run", "push"}
                             /\ context[t].saved.pc = "push" => context[t].saved.was

LockState ==
    \A c \in CPUs :
        /\ pc[c] \in Busy => lk[c] # NoLock
        /\ pc[c] \in Busy \cup {"push"} => lk[c] \notin held[c]
        /\ \A l \in Locks : /\ Owns(c, l) => locked[l]
                            /\ cpuid[l] = c <=> l \in held[c]

IInv ==
    TypeOK /\ DepthCounts /\ InterruptState /\ ContextState /\ LockState
        /\ MutualExclusion

(* Whenever some CPU spins, some CPU eventually acquires a lock: the kernel
   as a whole does not livelock in compare_exchange loops. *)
SomeoneAcquires ==
    (\E c \in CPUs : pc[c] = "cas") ~> (\E c \in CPUs : pc[c] = "store")

(* The test-and-set lock with its separate cpuid word implements an abstract
   lock with one owner. *)
Owner == [l \in Locks |->
            IF \E c \in CPUs : Owns(c, l)
              THEN CHOOSE c \in CPUs : Owns(c, l) ELSE NoCpu]
Abstract == INSTANCE AbstractLock WITH owner <- Owner
ImplementsAbstractLock == Abstract!Spec
=============================================================================
