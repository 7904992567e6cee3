------------------------------- MODULE Process -------------------------------
(***************************************************************************)
(* The process table, the per-CPU schedulers and fork, exit, wait, kill    *)
(* and pause (process.rs, process/process.rs, process/table.rs, and the    *)
(* killed checks of trap.rs).                                              *)
(*                                                                         *)
(* A CPU executes either its scheduler or the kernel thread of one slot of *)
(* the table.  Every loop over the table is stepped through entry by       *)
(* entry, because each iteration takes and releases that entry's lock; an  *)
(* iteration is one step, guarded by the lock being free, unless the code  *)
(* keeps the lock for longer.  Spin locks are AbstractLock's: owned by the *)
(* CPU that took them (cf. SpinLock).  A timer interrupt may preempt a     *)
(* kernel thread wherever it holds no lock.                                *)
(*                                                                         *)
(* In this module a process sleeps only in wait(), on its own address, so  *)
(* a sleep token is the slot that sleeps on it.                            *)
(*                                                                         *)
(* Operators named Mut... are wrong variants of the definition after them; *)
(* each shows that some property notices that mistake.                     *)
(***************************************************************************)
EXTENDS Integers, FiniteSets

CONSTANTS
    N,          \* NPROC, the number of slots (and of kernel stacks)
    CPUs,       \* the harts
    NoCpu,      \* the owner of a free lock
    MaxPid,     \* bound: the last pid that allocate_pid hands out here
    KillPids,   \* the arguments user programs pass to kill
    FaultPids,  \* the processes whose programs fault
    FilePids,   \* the processes that call the file system
    MaxFail     \* bound: how often try_clone may run out of memory

ASSUME NAssumption == N \in Nat \ {0}
ASSUME CpuAssumption == NoCpu \notin CPUs
ASSUME BoundAssumption ==
    MaxPid \in Nat \ {0} /\ MaxFail \in Nat /\ (KillPids \cup FaultPids \cup FilePids) \subseteq Nat

Procs == 1..N
NoProc == 0         \* the scheduler; a null parent
InitProc == 1       \* the slot whose pid is 1

VARIABLES
    state, pid, killed, parent,     \* Process, slot by slot
    kstack,     \* stack of the slot's context (or of the one being built)
    used,       \* KSTACK_USED, as the set of bits that are set
    plock,      \* the CPU holding each slot's lock
    wlock,      \* the CPU holding wait_lock
    ilock,      \* the CPU holding the spin lock of the inode cache
    next_pid,
    assigned,   \* ASSIGNED[cpu]
    cur,        \* the thread executing on each CPU
    si,         \* the scheduler's position in the table
    at,         \* where each kernel thread is
    i, j,       \* its loop index, and that of a wakeup inside the loop
    arg,        \* fork: the new slot; kill: the pid; wait: havekids; wakeup: token
    ret,        \* where it continues after a wakeup loop or a context switch
    fails,      \* failed clones so far
    victims     \* history: the pids that kill was called with or that faulted

table == <<state, pid, killed, parent, kstack, used, next_pid, fails, victims>>
locks == <<plock, wlock, ilock>>
cpus == <<assigned, cur, si>>
threads == <<at, i, j, arg, ret>>
vars == <<table, locks, cpus, threads>>

States == {"Unused", "Used", "Sleeping", "Runnable", "Running", "Zombie"}
None == [kind |-> "None", proc |-> NoProc]
Switching(p) == [kind |-> "Switching", proc |-> p]
Assigned(p) == [kind |-> "Assigned", proc |-> p]

(* setup_init_process has run; every CPU is about to enter its scheduler. *)
Init ==
    /\ state = [p \in Procs |-> IF p = InitProc THEN "Runnable" ELSE "Unused"]
    /\ pid = [p \in Procs |-> IF p = InitProc THEN 1 ELSE 0]
    /\ killed = [p \in Procs |-> FALSE]
    /\ parent = [p \in Procs |-> NoProc]
    /\ kstack = [p \in Procs |-> IF p = InitProc THEN 1 ELSE 0]
    /\ used = {1}
    /\ plock = [p \in Procs |-> NoCpu]
    /\ wlock = NoCpu
    /\ ilock = NoCpu
    /\ next_pid = 2
    /\ assigned = [c \in CPUs |-> None]
    /\ cur = [c \in CPUs |-> NoProc]
    /\ si = [c \in CPUs |-> 1]
    /\ at = [p \in Procs |-> IF p = InitProc THEN "switched" ELSE "none"]
    /\ i = [p \in Procs |-> 0]
    /\ j = [p \in Procs |-> 0]
    /\ arg = [p \in Procs |-> 0]
    /\ ret = [p \in Procs |-> IF p = InitProc THEN "user" ELSE "none"]
    /\ fails = 0
    /\ victims = {}
-----------------------------------------------------------------------------
(* The thread on CPU c is at l; it goes to l. *)
At(c, l) == cur[c] # NoProc /\ at[cur[c]] = l
Goto(c, l) == at' = [at EXCEPT ![cur[c]] = l]

(* SpinLock::lock and the drop of its guard, on the lock of slot p. *)
Free(p) == plock[p] = NoCpu
Lock(c, p) == Free(p) /\ plock' = [plock EXCEPT ![p] = c]
Unlock(p) == plock' = [plock EXCEPT ![p] = NoCpu]

(* Return to user space; the locals of the system call are gone. *)
Return(c) ==
    LET p == cur[c] IN
    /\ Goto(c, "user")
    /\ i' = [i EXCEPT ![p] = 0]
    /\ arg' = [arg EXCEPT ![p] = 0]
    /\ UNCHANGED <<j, ret>>

(* scheduler(): one entry of the table.  A runnable process is dispatched
   with its lock held; the guard travels in ASSIGNED[c]. *)
SchedSkip(c) ==
    /\ cur[c] = NoProc /\ assigned[c].kind = "None"
    /\ Free(si[c]) /\ state[si[c]] # "Runnable"
    /\ si' = [si EXCEPT ![c] = IF @ = N THEN 1 ELSE @ + 1]
    /\ UNCHANGED <<table, locks, assigned, cur, threads>>

SchedRun(c) ==
    LET p == si[c] IN
    /\ cur[c] = NoProc /\ assigned[c].kind = "None"
    /\ state[p] = "Runnable"
    /\ Lock(c, p)
    /\ state' = [state EXCEPT ![p] = "Running"]
    /\ assigned' = [assigned EXCEPT ![c] = Switching(p)]
    /\ cur' = [cur EXCEPT ![c] = p]
    /\ UNCHANGED <<pid, killed, parent, kstack, used, next_pid, fails, victims,
                   wlock, ilock, si, threads>>

(* Assigned::assign, in return_to_scheduler and finish_dispatch: the resumed
   thread releases the lock the scheduler took. *)
Resume(c) ==
    LET p == cur[c] IN
    /\ At(c, "switched")
    /\ assigned[c].kind = "Switching"
    /\ Unlock(assigned[c].proc)
    /\ assigned' = [assigned EXCEPT ![c] = Assigned(@.proc)]
    /\ Goto(c, ret[p])
    /\ ret' = [ret EXCEPT ![p] = "none"]
    /\ UNCHANGED <<table, wlock, ilock, cur, si, i, j, arg>>

(* return_to_scheduler: hand the guard over and switch stacks...  What becomes of the
   interrupt state is SpinLock's subject. *)
Switch(c) ==
    /\ At(c, "swtch")
    /\ assigned' = [assigned EXCEPT ![c] = Switching(cur[c])]
    /\ cur' = [cur EXCEPT ![c] = NoProc]
    /\ Goto(c, "switched")
    /\ UNCHANGED <<table, locks, si, i, j, arg, ret>>

MutSchedRelease(c) ==       \* the scan starts over after every dispatch
    /\ cur[c] = NoProc /\ assigned[c].kind = "Switching"
    /\ Unlock(assigned[c].proc)
    /\ assigned' = [assigned EXCEPT ![c] = None]
    /\ si' = [si EXCEPT ![c] = 1]
    /\ UNCHANGED <<table, wlock, ilock, cur, threads>>

(* ...and Assigned::release in the scheduler drops it. *)
SchedRelease(c) ==
    /\ cur[c] = NoProc /\ assigned[c].kind = "Switching"
    /\ Unlock(assigned[c].proc)
    /\ assigned' = [assigned EXCEPT ![c] = None]
    /\ si' = [si EXCEPT ![c] = IF @ = N THEN 1 ELSE @ + 1]
    /\ UNCHANGED <<table, wlock, ilock, cur, threads>>

(* pause(), from usertrap or from kerneltrap wherever no lock is held. *)
Preemptible == {"user", "fork", "fork_parent", "fork_setup", "exit", "wait",
                "wait_relock", "kill"}
Pause(c) ==
    LET p == cur[c] IN
    /\ cur[c] # NoProc /\ at[p] \in Preemptible
    /\ Lock(c, p)
    /\ state' = [state EXCEPT ![p] = "Runnable"]
    /\ ret' = [ret EXCEPT ![p] = at[p]]
    /\ Goto(c, "swtch")
    /\ UNCHANGED <<pid, killed, parent, kstack, used, next_pid, fails, victims,
                   wlock, ilock, cpus, i, j, arg>>
-----------------------------------------------------------------------------
(* usertrap, for a system call: the killed flag is tested, under the lock, on the way
   in and on the way out; only a process that is not killed goes on. *)
Trap(c) == At(c, "user") /\ Free(cur[c]) /\ ~killed[cur[c]]

Enter(c, l, a) ==
    /\ Goto(c, l)
    /\ i' = [i EXCEPT ![cur[c]] = 1]
    /\ arg' = [arg EXCEPT ![cur[c]] = a]
    /\ UNCHANGED <<table, locks, cpus, j, ret>>

(* Threads looking for a slot; each of them may take one more pid. *)
Allocating == {p \in Procs : at[p] = "fork" \/ ret[p] = "fork"}

ForkCall(c) ==
    /\ Trap(c)
    /\ next_pid + Cardinality(Allocating) <= MaxPid
    /\ Enter(c, "fork", 0)

(* allocate_process: the first unused slot, kept locked. *)
AllocSkip(c) ==
    LET p == cur[c] IN
    /\ At(c, "fork") /\ i[p] <= N
    /\ Free(i[p]) /\ state[i[p]] # "Unused"
    /\ i' = [i EXCEPT ![p] = @ + 1]
    /\ UNCHANGED <<table, locks, cpus, at, j, arg, ret>>

AllocTake(c) ==
    LET p == cur[c] IN
    /\ At(c, "fork") /\ i[p] <= N
    /\ state[i[p]] = "Unused"
    /\ Lock(c, i[p])
    /\ state' = [state EXCEPT ![i[p]] = "Used"]
    /\ pid' = [pid EXCEPT ![i[p]] = next_pid]
    /\ next_pid' = next_pid + 1
    /\ arg' = [arg EXCEPT ![p] = i[p]]
    /\ Goto(c, "fork_clone")
    /\ UNCHANGED <<killed, parent, kstack, used, fails, victims, wlock, ilock, cpus,
                   i, j, ret>>

AllocNone(c) ==
    /\ At(c, "fork") /\ i[cur[c]] > N
    /\ Return(c)
    /\ UNCHANGED <<table, locks, cpus>>

MutCloneUnmarked(c) ==      \* the stack's bit is not set
    LET q == arg[cur[c]] IN
    /\ At(c, "fork_clone")
    /\ ilock = NoCpu
    /\ \E s \in Procs \ used :
        /\ \A t \in Procs \ used : s <= t
        /\ kstack' = [kstack EXCEPT ![q] = s]
    /\ Unlock(q)
    /\ Goto(c, "fork_parent")
    /\ UNCHANGED <<state, pid, killed, parent, used, next_pid, fails, victims,
                   wlock, ilock, cpus, i, j, arg, ret>>

MutCloneLocked(c) ==        \* the new slot stays locked while wait_lock is taken
    LET q == arg[cur[c]] IN
    /\ At(c, "fork_clone")
    /\ ilock = NoCpu
    /\ \E s \in Procs \ used :
        /\ \A t \in Procs \ used : s <= t
        /\ used' = used \cup {s}
        /\ kstack' = [kstack EXCEPT ![q] = s]
    /\ Goto(c, "fork_parent")
    /\ UNCHANGED <<state, pid, killed, parent, next_pid, fails, victims, locks,
                   cpus, i, j, arg, ret>>

(* try_clone, then the release of the new slot's lock by unlock_temporarily.  The
   copy of cwd takes and releases the lock of the inode cache in between. *)
Clone(c) ==
    LET q == arg[cur[c]] IN
    /\ At(c, "fork_clone")
    /\ ilock = NoCpu
    /\ \E s \in Procs \ used :
        /\ \A t \in Procs \ used : s <= t
        /\ used' = used \cup {s}
        /\ kstack' = [kstack EXCEPT ![q] = s]
    /\ Unlock(q)
    /\ Goto(c, "fork_parent")
    /\ UNCHANGED <<state, pid, killed, parent, next_pid, fails, victims, wlock, ilock,
                   cpus, i, j, arg, ret>>

(* The trap frame or the page table cannot be allocated: try_clone fails after
   it took the stack, fork returns None and drops the guard of the new slot. *)
CloneFail(c) ==
    LET q == arg[cur[c]] IN
    /\ At(c, "fork_clone")
    /\ fails < MaxFail
    /\ fails' = fails + 1
    /\ \E s \in Procs \ used :
        /\ \A t \in Procs \ used : s <= t
        /\ used' = used \cup {s}
    /\ Unlock(q)
    /\ Return(c)
    /\ UNCHANGED <<state, pid, killed, parent, kstack, next_pid, victims, wlock, ilock,
                   cpus>>

(* The parent pointer is written under wait_lock alone... *)
ForkParent(c) ==
    LET p == cur[c] IN
    /\ At(c, "fork_parent")
    /\ wlock = NoCpu
    /\ parent' = [parent EXCEPT ![arg[p]] = p]
    /\ Goto(c, "fork_setup")
    /\ UNCHANGED <<state, pid, killed, kstack, used, next_pid, fails, victims,
                   locks, cpus, i, j, arg, ret>>

(* ...and ProcessState::setup runs under the new slot's lock again. *)
ForkSetup(c) ==
    LET p == cur[c]
        q == arg[p] IN
    /\ At(c, "fork_setup")
    /\ Free(q)
    /\ state' = [state EXCEPT ![q] = "Runnable"]
    /\ at' = [at EXCEPT ![p] = "user", ![q] = "switched"]
    /\ ret' = [ret EXCEPT ![q] = "user"]
    /\ i' = [i EXCEPT ![p] = 0]
    /\ arg' = [arg EXCEPT ![p] = 0]
    /\ UNCHANGED <<pid, killed, parent, kstack, used, next_pid, fails, victims,
                   locks, cpus, j>>
-----------------------------------------------------------------------------
(* exit: by system call, or from usertrap when killed.  It asserts that init does not
   exit: user/init.c does not, and the instances neither kill it nor let it fault.
   The files and the directory that exit drops are the subject of Files; here they
   are file calls. *)
ExitCall(c) ==
    /\ At(c, "user") /\ Free(cur[c]) /\ pid[cur[c]] # 1
    /\ Enter(c, "exit", 0)

(* usertrap, for a trap that is neither a system call nor a device's: the process is
   marked killed and, in the same handler, exits. *)
Fault(c) ==
    LET p == cur[c] IN
    /\ At(c, "user") /\ Free(p) /\ pid[p] \in FaultPids \ {1}
    /\ killed' = [killed EXCEPT ![p] = TRUE]
    /\ victims' = victims \cup {pid[p]}
    /\ Goto(c, "exit")
    /\ i' = [i EXCEPT ![p] = 1]
    /\ arg' = [arg EXCEPT ![p] = 0]
    /\ UNCHANGED <<state, pid, parent, kstack, used, next_pid, fails, locks, cpus,
                   j, ret>>

ExitLock(c) ==
    /\ At(c, "exit")
    /\ wlock = NoCpu
    /\ wlock' = c
    /\ Goto(c, "exit_scan")
    /\ UNCHANGED <<table, plock, ilock, cpus, i, j, arg, ret>>

(* Start the wakeup(token) loop; the thread continues at l after it. *)
CallWakeup(c, token, l) ==
    LET p == cur[c] IN
    /\ Goto(c, "wakeup")
    /\ arg' = [arg EXCEPT ![p] = token]
    /\ j' = [j EXCEPT ![p] = 1]
    /\ ret' = [ret EXCEPT ![p] = l]

ReparentSkip(c) ==
    LET p == cur[c] IN
    /\ At(c, "exit_scan") /\ i[p] <= N
    /\ parent[i[p]] # p
    /\ i' = [i EXCEPT ![p] = @ + 1]
    /\ UNCHANGED <<table, locks, cpus, at, j, arg, ret>>

MutReparentNobody(c) ==     \* init is woken but does not become the parent
    LET p == cur[c] IN
    /\ At(c, "exit_scan") /\ i[p] <= N
    /\ parent[i[p]] = p
    /\ i' = [i EXCEPT ![p] = @ + 1]
    /\ CallWakeup(c, InitProc, "exit_scan")
    /\ UNCHANGED <<table, locks, cpus>>

Reparent(c) ==
    LET p == cur[c] IN
    /\ At(c, "exit_scan") /\ i[p] <= N
    /\ parent[i[p]] = p
    /\ parent' = [parent EXCEPT ![i[p]] = InitProc]
    /\ i' = [i EXCEPT ![p] = @ + 1]
    /\ CallWakeup(c, InitProc, "exit_scan")
    /\ UNCHANGED <<state, pid, killed, kstack, used, next_pid, fails, victims,
                   locks, cpus>>

MutReparentDone(c) ==       \* init is woken instead of the parent
    LET p == cur[c] IN
    /\ At(c, "exit_scan") /\ i[p] > N
    /\ CallWakeup(c, InitProc, "exit_die")
    /\ UNCHANGED <<table, locks, cpus, i>>

ReparentDone(c) ==
    LET p == cur[c] IN
    /\ At(c, "exit_scan") /\ i[p] > N
    /\ CallWakeup(c, parent[p], "exit_die")
    /\ UNCHANGED <<table, locks, cpus, i>>

(* ProcessTable::wakeup: one entry; the current process is skipped. *)
Wakeup(c) ==
    LET p == cur[c]
        q == j[p] IN
    /\ At(c, "wakeup") /\ q <= N
    /\ q # p => Free(q)
    /\ state' = IF q # p /\ state[q] = "Sleeping" /\ q = arg[p]
                  THEN [state EXCEPT ![q] = "Runnable"] ELSE state
    /\ j' = [j EXCEPT ![p] = @ + 1]
    /\ UNCHANGED <<pid, killed, parent, kstack, used, next_pid, fails, victims,
                   locks, cpus, at, i, arg, ret>>

WakeupDone(c) ==
    LET p == cur[c] IN
    /\ At(c, "wakeup") /\ j[p] > N
    /\ Goto(c, ret[p])
    /\ j' = [j EXCEPT ![p] = 0]
    /\ ret' = [ret EXCEPT ![p] = "none"]
    /\ UNCHANGED <<table, locks, cpus, i, arg>>

Die(c) ==
    LET p == cur[c] IN
    /\ At(c, "exit_die")
    /\ Lock(c, p)
    /\ state' = [state EXCEPT ![p] = "Zombie"]
    /\ wlock' = NoCpu
    /\ Goto(c, "swtch")
    /\ i' = [i EXCEPT ![p] = 0]
    /\ arg' = [arg EXCEPT ![p] = 0]
    /\ UNCHANGED <<pid, killed, parent, kstack, used, next_pid, fails, victims,
                   ilock, cpus, j, ret>>
-----------------------------------------------------------------------------
WaitCall(c) == Trap(c) /\ Enter(c, "wait", 0)

(* wait_lock is taken at the start and again after every sleep. *)
WaitLock(c) ==
    LET p == cur[c] IN
    /\ At(c, "wait") \/ At(c, "wait_relock")
    /\ wlock = NoCpu
    /\ wlock' = c
    /\ Goto(c, "wait_scan")
    /\ i' = [i EXCEPT ![p] = 1]
    /\ arg' = [arg EXCEPT ![p] = 0]
    /\ UNCHANGED <<table, plock, ilock, cpus, j, ret>>

WaitSkip(c) ==
    LET p == cur[c] IN
    /\ At(c, "wait_scan") /\ i[p] <= N
    /\ parent[i[p]] # p
    /\ i' = [i EXCEPT ![p] = @ + 1]
    /\ UNCHANGED <<table, locks, cpus, at, j, arg, ret>>

WaitChild(c) ==
    LET p == cur[c] IN
    /\ At(c, "wait_scan") /\ i[p] <= N
    /\ parent[i[p]] = p /\ Free(i[p])
    /\ state[i[p]] # "Zombie"
    /\ i' = [i EXCEPT ![p] = @ + 1]
    /\ arg' = [arg EXCEPT ![p] = 1]
    /\ UNCHANGED <<table, locks, cpus, at, j, ret>>

MutDeallocateKilled(q) ==   \* the killed flag stays with the slot
    /\ pid' = [pid EXCEPT ![q] = 0]
    /\ parent' = [parent EXCEPT ![q] = NoProc]
    /\ state' = [state EXCEPT ![q] = "Unused"]
    /\ used' = used \ {kstack[q]}
    /\ kstack' = [kstack EXCEPT ![q] = 0]
    /\ UNCHANGED killed

MutDeallocateStack(q) ==    \* the context is not dropped
    /\ pid' = [pid EXCEPT ![q] = 0]
    /\ parent' = [parent EXCEPT ![q] = NoProc]
    /\ killed' = [killed EXCEPT ![q] = FALSE]
    /\ state' = [state EXCEPT ![q] = "Unused"]
    /\ kstack' = [kstack EXCEPT ![q] = 0]
    /\ UNCHANGED used

(* Process::deallocate drops the context, and with it the kernel stack. *)
Deallocate(q) ==
    /\ pid' = [pid EXCEPT ![q] = 0]
    /\ parent' = [parent EXCEPT ![q] = NoProc]
    /\ killed' = [killed EXCEPT ![q] = FALSE]
    /\ state' = [state EXCEPT ![q] = "Unused"]
    /\ used' = used \ {kstack[q]}
    /\ kstack' = [kstack EXCEPT ![q] = 0]

WaitReap(c) ==
    LET p == cur[c]
        q == i[p] IN
    /\ At(c, "wait_scan") /\ q <= N
    /\ parent[q] = p /\ Free(q)
    /\ state[q] = "Zombie"
    /\ Deallocate(q)
    /\ at' = [at EXCEPT ![p] = "user", ![q] = "none"]
    /\ wlock' = NoCpu
    /\ i' = [i EXCEPT ![p] = 0]
    /\ arg' = [arg EXCEPT ![p] = 0]
    /\ UNCHANGED <<next_pid, fails, victims, plock, ilock, cpus, j, ret>>

(* The exit status cannot be stored at the address given: the child stays. *)
WaitBadAddress(c) ==
    LET q == i[cur[c]] IN
    /\ At(c, "wait_scan") /\ q <= N
    /\ parent[q] = cur[c] /\ Free(q)
    /\ state[q] = "Zombie"
    /\ wlock' = NoCpu
    /\ Return(c)
    /\ UNCHANGED <<table, plock, ilock, cpus>>

(* `killed` is read here without the lock; the process sleeps a step later. *)
WaitNone(c) ==
    LET p == cur[c] IN
    /\ At(c, "wait_scan") /\ i[p] > N
    /\ arg[p] = 0 \/ killed[p]
    /\ wlock' = NoCpu
    /\ Return(c)
    /\ UNCHANGED <<table, plock, ilock, cpus>>

MutWaitBlock(c) ==          \* wait_lock is released before the process lock is taken
    LET p == cur[c] IN
    /\ At(c, "wait_scan") /\ i[p] > N
    /\ arg[p] # 0 /\ ~killed[p]
    /\ wlock' = NoCpu
    /\ Goto(c, "wait_sleep")
    /\ i' = [i EXCEPT ![p] = 0]
    /\ arg' = [arg EXCEPT ![p] = 0]
    /\ UNCHANGED <<table, plock, ilock, cpus, j, ret>>

WaitBlock(c) ==
    LET p == cur[c] IN
    /\ At(c, "wait_scan") /\ i[p] > N
    /\ arg[p] # 0 /\ ~killed[p]
    /\ Goto(c, "wait_sleep")
    /\ i' = [i EXCEPT ![p] = 0]
    /\ arg' = [arg EXCEPT ![p] = 0]
    /\ UNCHANGED <<table, locks, cpus, j, ret>>

(* sleep(): the process lock is taken before wait_lock is released. *)
Sleep(c) ==
    LET p == cur[c] IN
    /\ At(c, "wait_sleep")
    /\ Lock(c, p)
    /\ wlock' = NoCpu
    /\ state' = [state EXCEPT ![p] = "Sleeping"]
    /\ ret' = [ret EXCEPT ![p] = "wait_relock"]
    /\ Goto(c, "swtch")
    /\ UNCHANGED <<pid, killed, parent, kstack, used, next_pid, fails, victims,
                   ilock, cpus, i, j, arg>>
-----------------------------------------------------------------------------
KillCall(c, k) == Trap(c) /\ Enter(c, "kill", k)

KillMiss(c) ==
    LET p == cur[c] IN
    /\ At(c, "kill") /\ i[p] <= N
    /\ Free(i[p]) /\ pid[i[p]] # arg[p]
    /\ i' = [i EXCEPT ![p] = @ + 1]
    /\ UNCHANGED <<table, locks, cpus, at, j, arg, ret>>

MutKillHit(c) ==            \* wakes the process whatever it is doing
    LET p == cur[c]
        q == i[p] IN
    /\ At(c, "kill") /\ q <= N
    /\ Free(q) /\ pid[q] = arg[p]
    /\ killed' = [killed EXCEPT ![q] = TRUE]
    /\ state' = IF state[q] = "Unused" THEN state
                ELSE [state EXCEPT ![q] = "Runnable"]
    /\ victims' = victims \cup {arg[p]}
    /\ Return(c)
    /\ UNCHANGED <<pid, parent, kstack, used, next_pid, fails, locks, cpus>>

KillHit(c) ==
    LET p == cur[c]
        q == i[p] IN
    /\ At(c, "kill") /\ q <= N
    /\ Free(q) /\ pid[q] = arg[p]
    /\ killed' = [killed EXCEPT ![q] = TRUE]
    /\ state' = IF state[q] = "Sleeping"
                  THEN [state EXCEPT ![q] = "Runnable"] ELSE state
    /\ victims' = victims \cup {arg[p]}
    /\ Return(c)
    /\ UNCHANGED <<pid, parent, kstack, used, next_pid, fails, locks, cpus>>

KillNone(c) ==
    /\ At(c, "kill") /\ i[cur[c]] > N
    /\ Return(c)
    /\ UNCHANGED <<table, locks, cpus>>
-----------------------------------------------------------------------------
(* A file call, as far as processes go: InodeCache::get and release drop the sleep
   lock of an inode while they hold the spin lock of the cache, and that wakes up
   whoever sleeps for the inode, in a loop over all processes. *)
FileCall(c) ==
    /\ Trap(c) /\ pid[cur[c]] \in FilePids
    /\ ilock = NoCpu
    /\ ilock' = c
    /\ CallWakeup(c, NoProc, "file_done")
    /\ UNCHANGED <<table, plock, wlock, cpus, i>>

FileDone(c) ==
    /\ At(c, "file_done")
    /\ ilock' = NoCpu
    /\ Return(c)
    /\ UNCHANGED <<table, plock, wlock, cpus>>
-----------------------------------------------------------------------------
Scheduler(c) ==
    SchedSkip(c) \/ SchedRun(c) \/ SchedRelease(c) \/ Resume(c) \/ Switch(c)
Fork(c) ==
    AllocSkip(c) \/ AllocTake(c) \/ AllocNone(c) \/ Clone(c) \/ CloneFail(c)
        \/ ForkParent(c) \/ ForkSetup(c)
Exit(c) ==
    ExitLock(c) \/ ReparentSkip(c) \/ Reparent(c) \/ ReparentDone(c)
        \/ Wakeup(c) \/ WakeupDone(c) \/ Die(c)
WaitGood(c) ==
    WaitLock(c) \/ WaitSkip(c) \/ WaitChild(c) \/ WaitReap(c)
        \/ WaitNone(c) \/ WaitBlock(c) \/ Sleep(c)
Wait(c) == WaitGood(c) \/ WaitBadAddress(c)
Kill(c) == KillMiss(c) \/ KillHit(c) \/ KillNone(c)

(* The thread on CPU c is inside a system call and not switching away. *)
InCall(c) == cur[c] # NoProc /\ at[cur[c]] \notin {"user", "swtch", "switched"}

Kernel(c) == Scheduler(c) \/ (InCall(c) /\ (Fork(c) \/ Exit(c) \/ Wait(c) \/ Kill(c) \/ FileDone(c)))
User(c) ==
    \/ ForkCall(c) \/ ExitCall(c) \/ WaitCall(c) \/ FileCall(c) \/ Fault(c)
    \/ \E k \in KillPids : KillCall(c, k)

Next == \E c \in CPUs : Kernel(c) \/ User(c) \/ Pause(c)

Spec == Init /\ [][Next]_vars
-----------------------------------------------------------------------------
(* No kernel stack is used by two CPUs, belongs to two processes or is free
   while a CPU still executes on it: wait() may free the stack of a zombie only
   after the scheduler, on its own stack, has released the zombie's lock. *)
StacksNotShared ==
    /\ \A c, d \in CPUs : cur[c] = cur[d] /\ cur[c] # NoProc => c = d
    /\ \A c \in CPUs : cur[c] # NoProc => kstack[cur[c]] \in used
    /\ \A p, q \in Procs : kstack[p] = kstack[q] /\ kstack[p] # 0 => p = q

(* What return_to_scheduler and Assigned::assign assert: a thread switches away
   holding its own lock and no other, no longer Running, and a thread that is
   switched to finds its own guard in ASSIGNED. *)
SwitchAsserts(c) ==
    /\ at[cur[c]] = "swtch" =>
        /\ {q \in Procs : plock[q] = c} = {cur[c]}
        /\ wlock # c /\ ilock # c
        /\ state[cur[c]] # "Running"
        /\ assigned[c] = Assigned(cur[c])
    /\ at[cur[c]] = "switched" =>
        /\ assigned[c] = Switching(cur[c])
        /\ plock[cur[c]] = c

(* Every unwrap of a state transition succeeds: an executing thread is Running
   until it gives the CPU up (pause, sleep, die), the slot fork sets up is
   still Used, and try_clone always finds a free stack for it. *)
TransitionsSucceed(c) ==
    /\ at[cur[c]] # "swtch" => state[cur[c]] = "Running"
    /\ at[cur[c]] \in {"fork_clone", "fork_parent", "fork_setup"} =>
            state[arg[cur[c]]] = "Used"
    /\ at[cur[c]] = "fork_clone" => used # Procs

(* No CPU panics in the process code: the assertions of a context switch hold and
   the unwraps of the state transitions succeed, whoever wakes, kills, reaps or
   preempts the process meanwhile.  (That init does not exit, which exit asserts too,
   is up to user programs: kill(1) would do it.) *)
AssertionsHold ==
    \A c \in CPUs :
        cur[c] # NoProc => SwitchAsserts(c) /\ TransitionsSucceed(c)

(* The locks CPU c must find free for its next step. *)
WantsProc(c, q) ==
    LET p == cur[c] IN
    \/ cur[c] = NoProc /\ assigned[c].kind = "None" /\ q = si[c]
    \/ At(c, "user") /\ q = p
    \/ (At(c, "fork") \/ At(c, "kill") \/ At(c, "wait_scan")) /\ q = i[p]
    \/ At(c, "fork_setup") /\ q = arg[p]
    \/ At(c, "wakeup") /\ q = j[p] /\ q # p
    \/ (At(c, "exit_die") \/ At(c, "wait_sleep")) /\ q = p
WantsWait(c) ==
    \E l \in {"exit", "wait", "wait_relock", "fork_parent"} : At(c, l)
WantsInode(c) == At(c, "fork_clone")

(* CPU c spins for a lock that CPU d has. *)
WaitsFor(c, d) ==
    \/ \E q \in Procs : plock[q] = d /\ WantsProc(c, q)
    \/ wlock = d /\ WantsWait(c)
    \/ ilock = d /\ WantsInode(c)

(* The lock order: a CPU that spins for a process lock holds no process lock, and a
   CPU that spins for wait_lock holds nothing.  So exit, wait, kill, the schedulers
   and file calls never make a circle of CPUs that wait for each other.  Only fork
   can: try_clone takes the inode cache's lock with the new slot's lock held, and if
   a file call has the cache's lock at that moment, its wakeup comes to that slot and
   both CPUs spin for ever. *)
LockOrder ==
    /\ \A c \in CPUs :
         LET holds == \E r \in Procs : plock[r] = c
         IN  /\ holds => \A q \in Procs : ~WantsProc(c, q)
             /\ holds \/ wlock = c \/ ilock = c => ~WantsWait(c)
    /\ \A Q \in SUBSET {c \in CPUs : \E d \in CPUs : WaitsFor(c, d)} \ {{}} :
         (\A c \in Q : \E d \in Q : WaitsFor(c, d))
             => \E c, d \in Q : At(c, "fork_clone") /\ At(d, "wakeup") /\ ilock = d

(* No lost wakeup between exit and wait: once wait_lock is free, no process
   sleeps in wait() beside a child that is already a zombie. *)
NoLostWakeup ==
    wlock = NoCpu =>
        \A p, q \in Procs :
            state[p] = "Sleeping" /\ parent[q] = p => state[q] # "Zombie"

(* Reparenting: once wait_lock is free, every process but init has a parent that
   is alive, so some wait() can reap it. *)
ParentsAlive ==
    wlock = NoCpu =>
        \A q \in Procs \ {InitProc} :
            /\ parent[q] # NoProc =>
                    state[parent[q]] \in {"Runnable", "Running", "Sleeping"}
            /\ state[q] \notin {"Unused", "Used"} => parent[q] # NoProc

(* A process is marked killed only if kill was called with its pid or it faulted
   itself: the flag of an earlier user of the slot is never inherited.  The exception
   is kill(0), which matches the pid of an unused slot and leaves its flag set for
   the next process that gets the slot. *)
KilledByKill ==
    \A q \in Procs :
        state[q] # "Unused" /\ killed[q] => pid[q] \in victims \/ 0 \in victims

=============================================================================
