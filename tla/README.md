# A TLA+ verification of xv6-riscv-rs

This directory holds TLA+ models of the kernel in `src/kernel/src`, the TLC
configurations that check them on small instances, and TLAPS proofs for four
of them. Every definition that models code is listed in `PROJECT.json` with the
lines it translates, every property with the run that checks it and a mistake
that it notices.

## The system

The kernel is xv6 for RISC-V rewritten in Rust. Several harts (CPUs) run one
scheduler each; processes enter the kernel by traps; devices interrupt. All
sharing goes through spin locks, sleep locks and `sleep`/`wakeup`.

| Part | State | Operations | What is hard about it |
| --- | --- | --- | --- |
| Spin lock, interrupts (`spinlock.rs`, `interrupt.rs`, `cpu.rs`) | flag, owner's cpuid; per CPU SIE, nesting depth, saved state | `lock`, `unlock_raw`, `unlock_temporarily`, `off`, `push_off`, `pop_off` | separate loads and stores of flag and cpuid; interrupts between any two instructions; threads that change CPUs inside a critical section |
| Processes (`process.rs`, `process/*.rs`, `trap.rs`) | table of slots, kernel stacks, per CPU `Assigned`, wait lock | scheduler, `fork`, `exit`, `wait`, `kill`, `pause`, `sleep`, `wakeup` | a lock taken by one thread and released by another; lost wakeups; orphans; slot reuse |
| Redo log (`filesystem/log.rs`) | header, outstanding count, committing flag; the on-disk log | `with`, `write`, `commit`, `initialize` | crashes between block writes; group commit; room for every admitted operation |
| Disk driver (`virtio/disk.rs`, `bitmap.rs`) | descriptors, avail and used ring, info entries | `rw`, `interrupt_handler` | completion in any order; hold-and-wait for descriptors; wrapping indices |
| Buffer cache (`filesystem/buffer.rs`, `cache.rs`, `sleeplock.rs`) | keys, counts, ring of slots, sleep locks, contents | `get`, `with_read`, `with_write`, `pin`, `unpin`, `flush`, drop | filling a buffer after the cache lock is released; recycling |
| Inode cache, file system (`fs.rs`, `filesystem/*.rs`) | cached inodes, bitmap, directories | lock, release, `create`, `link`, `unlink`, path search | unlinked inodes freed with the last reference; locking order; failure in mid-operation |
| Files, system calls (`file.rs`, `syscall.rs`) | descriptors, shared offsets, cwd | read, write, open, close, dup, chdir, pipe | shared offsets; objects closed by destructors |
| Pipes (`pipe.rs`) | ring buffer, read/write counters, open flags | read, write, close | sleeping on both sides; killed and closed partners |
| Console, clock (`console.rs`, `uart.rs`, `clock.rs`) | line buffer with three indices, ticks | interrupt handlers, read, sleep | handlers against sleeping readers |
| Memory (`allocator.rs`, `riscv/paging.rs`, `exec.rs`) | free pages, page tables | map, unmap, grow, shrink, copy, drop; sbrk, fork, exec, exit, wait | page ownership when one step of several fails |
| Boot, assembly, constants | | | sequential, hardware interface |

## Modules

| Module | Models | Abstract specification |
| --- | --- | --- |
| `SpinLock` | lock, unlock and nested interrupt disabling, one action per visible instruction, with interrupts and thread switches | `AbstractLock`: each lock has at most one owner |
| `Process` | process table, schedulers, context switch, fork, exit, wait, kill, pause, sleep, wakeup | |
| `Log` | redo log with crash and recovery | `AtomicDisk`: operations become durable all together or not at all |
| `Virtio` | disk driver and device | |
| `BufferCache` | buffer cache, reference-counted key cache, sleep locks | |
| `FileSystem` | inodes, directories, block and inode allocation, inode cache, the system calls on paths | |
| `Memory` | page allocator, user page tables, the calls that change an address space | `AddressSpaces`: a private memory for each process |
| `Sleepers` | what calls that sleep and are killed have in common | |
| `Pipe` (over `Sleepers`) | pipes | `Channel`: a bounded queue with two ends |
| `Console` (over `Sleepers`) | console input | `Terminal`: a line that is edited until it is entered |
| `Files` (over `Pipe`, `Console`) | descriptors, file offsets, fork and exit as they concern files, the clock | |
| `SpinLockProofs`, `VirtioProofs` | theorems about `SpinLock` and `Virtio` | |
| `LogSteps`, `LogProofs` | theorems about `Log`: what each step keeps; what is counted | |
| `BufferInvariant` | the inductive invariant of `BufferCache` | |
| `BufferRing`, `BufferCacheSteps`, `BufferContents`, `BufferCacheProofs` | theorems about `BufferCache`: the ring; keys, locks and callers; contents; counts and the results | |
| `MC*` | symmetry sets, paths and the programs or fairness that one run needs | |

The modules are layered like the code. `SpinLock` shows that code under a spin
lock runs alone, with interrupts off; so in `Process` a step is what happens
between two lock operations. `Process` shows that `sleep` gives up a lock and
falls asleep without losing a wakeup; so in the other modules a step is what is
done under the component's own lock up to a sleep or a release, and waking sets
the sleepers' program points. `Log` sees the cache as "what a read through the
cache returns", which the conjunct `Cached = buf` of `ImplementsAtomicDisk`
makes independent of which buffers are recycled; `BufferCache` sees the log as
the environment that installs pinned blocks only when no operation is running.
A process in `Virtio` transfers a buffer whose sleep lock it holds, which
`SleepLockExcludes` gives. `FileSystem` runs inside transactions of `Log`, so
that its disk does not crash between two steps of a call. `Files` composes
`Pipe`, `Console`, the clock and descriptor tables; `Memory` composes the
allocator, the page tables and the system calls over them.

Operators named `Mut...` are deliberate mistakes, each a variant of the
definition that follows it: put in its place, it makes some property fail.
They show that the properties notice such mistakes.

### SpinLock

State: the words `locked` and `cpuid` of each lock; per CPU `enabled` (SIE),
`depth` (`depth_of_disable`), `before` (the saved state), a program counter,
the guards `held`, the open `off` sections, and the frame `saved` while an
interrupt handler runs. `base` is a history variable: the SIE value the running
code chose outside all critical sections. `LockBegin`, `PushOff`, `CheckLocked`,
`CheckCpuid`, `CompareExchange`, `StoreCpuid`, `UnlockBegin`, `UnlockEnd` are the
instructions of `lock` and `unlock_raw`; `OffBegin` and `OffEnd` are
`interrupt::off`; `SetInterrupt`, `TakeInterrupt`, `ReturnFromInterrupt` are the
traps. `SwitchOut` is `return_to_scheduler`, which a timer interrupt reaches through
`pause` in the handler too: the thread's `context` keeps its interrupt frame and the
local `intena`, and `Dispatch` brings it back on any CPU. Callers take locks in
increasing order and never one they hold; the code leaves that to them, and so does
`LockBegin`. Whether the kernel keeps to an order is what `LockOrder` of `Process`
and `NoLockCycle` of `FileSystem` are about.

### Process

State: the fields of each slot (`state`, `pid`, `parent`, `killed`, `kstack`),
process locks, the wait lock and the inode cache's lock with the CPU that holds
them, each CPU's `Assigned` value and loop index, each thread's program point and
locals.
Actions are named for the functions: `Sched*`, `Resume`, `Switch`, `Alloc*`,
`Clone`, `Fork*`, `Exit*`, `Reparent*`, `Wakeup*`, `Wait*`, `Kill*`, `Sleep`,
`Pause`; `Fault` is the trap of a program that does what it may not, which sets the
killed flag. `FileCall` and `FileDone` are what a file system call adds here: a wakeup
made with the inode cache's lock held, as `InodeCache::release` does when it unlocks an
inode. Channels other than the one of `wait()` are in the other modules.

### Log

State: the disk (`home`, `logdata`, `dhdr`), the memory (`buf`, `header`,
`outstanding`), the progress of commit or recovery (`phase`, `tail`), and where
each process is. A block write is one step; `Crash` may happen before and after
each, and loses all memory. `Nest` is the transaction that `File::drop` opens
inside the one of `sys_open`. `Panic` is a failed assertion of `Log::write`: it keeps
the lock of the log, and from then on only a crash goes on (`Stopped`).

### Virtio

State: the free bitmap, what each process holds, the info entries, the chains,
both rings and their indices modulo `W`, the device's position and the requests
it works on. The handler's loop is stepped through because the device writes the
used ring meanwhile. The device (external) takes requests in order and completes
them in any order.

### BufferCache

State: keys, links and counts of `RcCache`; `locked` and contents of each
buffer; users with their program points. Contents are abstracted to what the
properties tell apart: the block of whose last version a buffer is a copy, or
something else; and the set of blocks whose last version is on the disk.
`Shared` are the blocks that no inode lock protects (inode and bitmap blocks),
which several processes may ask for at once.

### FileSystem

State: the disk (`dinode`, the entries `dir` of each directory, the block bitmap
`used`), the inode cache (`slot`: key, count, sleep lock, cached copy), and for
each process its call (`st`), `cwd` and open `file`. A call searches its path
one component per step (`Walk`) and then takes the steps of `Open`, `Chdir`,
`Link*`, `Create*`, `Unlink*` or `Write`; references are dropped one by one
(`Drop`) in the order in which Rust drops them, and dropping the last reference
to an unlinked inode goes through `Reclaim*`, as `InodeCache::release` does
with the cache's lock dropped and taken again on the way. File contents are left out; a file is
the sequence of its blocks.

### Memory

State: the pages of the machine, the free list, what each page holds, and per
process its state, parent, size, trapframe page and page tables, `own` and the
one a call is building or taking down (`new`). A step is one call of the
allocator. `Map` and `NextPage` are the loops of `map`, `grow` and `copy`, with
the intermediate tables that `map` allocates; `Unmap`, `Unmapped` and
`FreePagetable` the loops of `shrink` and of the destructors; the others are the
system calls. An assertion that fails sets `halted` to its name.

### Sleepers, Pipe, Console, Files

State: each process's call with its program point, the channel it sleeps on, its
killed flag, the spin locks; the pipe's ring with its two counters; the console's
ring with its three indices; descriptor tables, the shared offset, the file's size
and the clock. `moved` and `written` are history variables: the bytes that reads and
writes have moved, and those that writes have stored.
A call checks its condition and sleeps in two steps with the lock held, so that a
`kill`, which does not take that lock, can fall between them. `Key` is the
UART's interrupt handler, `Tick` the clock's. A behaviour works on one object (a
pipe, a file, the console, or the clock), since they share nothing but the
descriptor tables.

## Runs

| Run | Instance | What it shows |
| --- | --- | --- |
| `spinlock` | 2 CPUs, 2 locks (one of them of a process), one `off` level, one thread besides the schedulers | assertions, no handler inside a critical section, SIE restored across locks, interrupts and thread switches, no livelock, refinement of `AbstractLock` |
| `process` | 2 CPUs, 3 slots, 2 forks, `kill` of pids 0 and 2, faults and file calls of pid 2, preemption wherever no lock is held | private stacks, the switch protocol and its assertions, lock order with its one cycle, no lost wakeup, reparenting, killed flags |
| `process_live` | 2 CPUs, 3 slots, 3 forks, one failing allocation | every runnable process runs; every forked process is reaped |
| `log` | 2 processes, 2 blocks, 2 crashes, nesting, room for three operations | refinement of `AtomicDisk`, durability on return; what `is_full` reserves is enough for the header, and when `Log::write` panics all the same; sleepers are woken unless the operations are stuck |
| `virtio` | 3 processes, 7 descriptors, 4 requests, indices modulo 14 from 12 | no deadlock over descriptors, requests intact, every submitted request returns |
| `bufcache` | 2 users, 3 buffers, 3 blocks, one of them shared | exact references, intact ring, sleep locks, protected blocks current |
| `bufcache_race` | violation | a shared block can be seen before it is read from the disk |
| `filesystem` | 2 processes, 3 calls besides close, 4 inodes, 3 blocks, 3 cache slots | entries name live inodes, no inode is recycled while referred to, cache and disk agree, blocks have one owner, assertions, no cycle of inode locks |
| `memory` | 2 processes, 3 calls, machines of 7 to 21 pages | pages are neither lost nor shared, assertions, refinement of `AddressSpaces` |
| `memory_fork` | violation | a fork that runs out of memory panics |
| `files` | 2 processes, 4 calls, 3 descriptors, rings of 2 | refinement of `Channel` and `Terminal`, nobody sleeps on what has come true, ends close with their last descriptor, no advance of a shared offset is lost, readers are released |
| `files_shared` | violation | of two writes that overlap in time one is lost |

All passing runs together take about seven minutes on two cores; the largest
(`process`, `bufcache`) have 0.8 million distinct states each.

Bounds. Two CPUs give every pairwise race on a lock; three slots give init, a
parent and a child, or two children; `MaxPid` bounds the forks and is large
enough that a slot is reused (`process`) and that the table fills up
(`process_live`). Two blocks and two processes give a transaction with a block
both write and one that only one of them writes; two crashes give a crash during
the recovery from a crash. `LogSize` is three operations of `MaxOpBlocks`, as in
config.rs, and `NLog` equals it, as mkfs has it; an operation writes one block, which is
enough for the header to fill up, for `Log::write` to panic, and for two processes to
wait inside nested operations. With operations of two blocks and `LogSize` 7, where
neither happens, `log` was checked once too; in that instance also with three blocks
(1.6 million states, six and a half minutes), and `bufcache` with three users (10.5
million states, ten minutes). Seven descriptors are two requests in flight and one
spare that a third process holds while it waits; the ring indices start at 12 of 14,
so that they wrap after two of the four requests (with five, 0.6 million states, it
was checked once). Three buffers are the least for which removal from the ring has a
middle case.

`filesystem` has four inodes, the root's included, three blocks, and three cache
slots for two processes that may each want two besides their directories, so that
each of these runs out; `PerBlock` is three entries, so a directory grows into its
second block at the second name; files have one direct and one indirect block. The
names are `a` and `ab`, one a prefix of the other, and the paths `a`, `ab` and
`a/a`. The root is as mkfs leaves it, or has a file or an empty directory from an
earlier boot, so that three calls are enough to remove a file or a directory that
another process has open or is searching, and for its inode to be used again; a
process may also close what it has open, which is not counted. (With the empty
disk, or one file on it, four calls were checked once, 0.8 million states.) `memory` runs on
each of nine machine sizes, chosen so that every allocation of fork, exec and sbrk
is the one that fails in some behaviour; tables have two entries, so that a
process of four bytes (two pages) needs more than one of them. In `files` rings
of two with requests of one and three bytes make writers sleep in mid-request and
counters go round; three descriptors hold a pipe and one duplicate; four calls are
open, fork and two reads, for instance, or pipe, fork, a read and a write; exits
are not counted. The bound on
calls ends a behaviour: `FileSystem` and `Memory` have an action `Rest` for it, so
deadlock is still checked there.

Deadlock is not checked in five runs: in `virtio`, whose requests are bounded (its
`NoDescriptorDeadlock` and `RequestsFinish` say what a check for deadlock would); in
`files` and `files_shared`, where a process that reads a pipe to which it alone could
write sleeps for ever, as it does in the kernel; and in `process` and `log`, because
the kernel really stops there (see the findings). What may stop them is then said by
a property: `LockOrder` allows one cycle of CPUs that spin, `SleepersWoken` with
`Stuck` two ends of the log.

Fairness. `spinlock`: a CPU executes its next instruction, and a guard that is
held is dropped in the end, whatever other locks are used before (strong
fairness of `UnlockBegin`, since nested sections interrupt its enabledness);
nothing is assumed of who wins a compare_exchange. `process_live`: the CPUs keep
running kernel code. A time slice is far longer than a system call, so this run
preempts only user code (`process` preempts anywhere). That the timer ends every
time slice (`TimerTicks`: its interrupt stays pending) is a premise of
`RunnableRuns`, which holds among programs that loop for ever; that programs end,
and that init keeps calling `wait`, is a premise of `EveryProcessReaped`, which
needs no timer. `log`: disk writes complete, and until a panic a process in
`Log::start` runs on and operations end. `virtio`: the handler and processes run on, and the device
answers what it was given. `files`: a process in the kernel that does not sleep
runs on, and programs exit.

## Findings

Three runs show a disagreement between the code and what the repository says of
it; `PROJECT.json` quotes both sides.

* `bufcache_race`: `BufferCache::get` (buffer.rs:94-107) lets a second user of a
  block lock the buffer before the first has read the block.
* `memory_fork`: a fork whose copy of the memory runs out of pages drops a page
  table that still maps the trampoline and the trapframe, and `PageTable::drop`
  panics (riscv/paging.rs:438).
* `files_shared`: a write through a shared descriptor advances the offset after it has
  given up the inode's lock (file.rs:135), so that another process writes to the same
  place, although sharedfd (usertests.c:1240-1301) counts every byte. That the offset
  itself is exact, and that writes which do not overlap in time are kept, is
  `OffsetExact`.

The models have more behaviour that the repository does not want. It has no run of its
own; the properties of the passing runs state it, as the one exception to what they
say, so that any other way to go wrong is still noticed:

* Fork and the file system take two locks in opposite orders. `try_clone` duplicates
  cwd, which takes the inode cache's lock, with the new slot's lock held
  (process/process.rs:224, process.rs:299); `InodeCache::release` unlocks an inode with
  the cache's lock held, and the wakeup visits every slot (fs.rs:517-539). Two CPUs then
  spin for ever; the usertests createdelete and fourfiles fork while their children use
  files. `LockOrder` says that every cycle of waiting CPUs is this one.
* `Log::write` asserts `n < size - 1` (log.rs:111), where mkfs makes `size` equal to
  LOGSIZE (mkfs.c:25): one block less than `is_full` reserves. It takes operations
  that use all of MAXOPBLOCKS to get there. `ReservationSuffices` says that only the
  size of the log on the disk can be the reason, and the theorem `NoPanic` that a log of
  one block more is enough.
* `sys_open` drops a file inside its transaction when no descriptor is free
  (syscall.rs:247), and `File::drop` opens another, which can wait for room that only the
  end of the outer one would make. The head of log.rs (lines 12-13) says that a call
  "sleeps until the last outstanding end_op() commits"; `SleepersWoken` says that it is
  woken, or everybody inside `log::with` sleeps in this way, or the kernel has panicked.
* `chdir` overwrites cwd without dropping the old reference (syscall.rs:286). Its cache
  slot stays in use, and a directory that was removed is not freed; iputtest
  (usertests.c:461, "does chdir() call iput(p->cwd) in a transaction?") and iref
  (usertests.c:2235) are about this reference. `ReferencesCovered` allows a count above
  the references that processes hold for directories only.
* A name matches entries that begin with it: `DirectoryEntry::is`
  (directory_entry.rs:36) compares only as many bytes as the name looked up has, and
  usertests.c:1831-1835 expects that `dd/dd/ff` is not found beside `dd/dd/ffff`. The
  model's lookup does the same, and the properties of `filesystem` hold with it.
* `exec` with as many arguments as MAXARG panics (exec.rs:166), although "max exec
  arguments" (config.rs:22) and the test before it (exec.rs:138) allow them: an exception
  in `AssertionsHold` of `Memory`, like the fork of `memory_fork`.
* Control-P prints the process list with the console's lock held, and printing takes
  that lock (console.rs:80), while console.rs:9 promises "control-p -- print process
  list". The model halts, and `ImplementsTerminal` is about what comes before.

Of the following the repository says nothing:

* `kill(0)` matches unused slots and leaves their flag set for the next process
  (the exception in `KilledByKill`).
* A fork that fails early leaves its slot `Used` and its kernel stack taken
  (process.rs:299; `CloneFail`), and when it fails after `try_clone` has
  duplicated cwd, that reference.
* Blocks allocated by a write or a directory entry that then fails are known only
  to the cached inode (fs.rs:257); if its slot is released before the next update
  they are lost. `create` that finds the inode cache full loses an inode in the
  same way, and a lookup that finds it full says that there is no such entry.
* A writer to a pipe that is killed in mid-request returns without waking the
  readers of what it has written (pipe.rs:81); they are woken when the end closes
  (`torn` in `PipeSleepersJustified`).
* The scheduler takes a process's lock with its own interrupt state and releases it with
  that of the thread that ran in between; `InterruptsRestored` is about threads.

## Proofs

The theorems hold for every value of the constants that satisfies the named
assumptions; the runs evaluate those on their instances. Each proof has a lemma
per action and part of the invariant, and the temporal step comes last.

**Spin lock** (`SpinLockProofs`), for any set of CPUs, any set of threads, any finite
set of locks and any depth of `off` sections. `IInv` is an invariant (`Inductive`), and from it
`MutualExclusion` (`Exclusion`), `AssertionsHold` (`Assertions`),
`NoInterruptInCriticalSection` (`NoInterrupt`) and `InterruptsRestored`
(`Restored`). None of the four is inductive alone. `IInv` adds `DepthCounts` (the
nesting depth is the number of guards, `off` sections and unfinished lock
operations), `InterruptState` (with a positive depth SIE is off and the saved
state is the one of the running code), `ContextState` (a thread that is switched out
has kept the state it will need: `intena` is what it had chosen outside its critical
sections, and the frame of a handler that was left is one that an interrupt can be
taken at) and `LockState` (who is past the
compare_exchange has the flag set, and cpuid names exactly the CPU that holds the
guard). `Refinement` maps every instruction to a step of `AbstractLock` or to
none: the compare_exchange that succeeds is the acquisition, the store that clears
the flag the release. Assumptions: `NoCpu` is no CPU, locks are natural numbers
and finitely many, some of them those of processes, `Scheduler` is no thread, `MaxOff`
is a natural number.

**Disk driver** (`VirtioProofs`), for any set of processes, any number of
descriptors from three up, any index width and any bound on requests.
`DescriptorInv` is an invariant (`Descriptors`), and from it
`DescriptorsPartitioned` (`Partitioned`) and `NoDescriptorDeadlock`
(`NoDeadlock`). `rw` keeps the descriptors it has while it sleeps for more, so the
absence of deadlock needs an argument: descriptors are freed three at a time and a
process with the lock takes as many as it needs and there are, so at most one
process is left with a part of a request, and while one is, the free descriptors
are a multiple of three. If a process sleeps there is no free descriptor, and since
there are at least three and at most two are in a part, some process has a complete
request. Each action that moves descriptors has a lemma; the others only move a
process from one point of `rw` to another, which `Moves` states and `StepMoves`
shows to be harmless.

**Redo log** (`LogSteps`, `LogProofs`), for any finite set of processes, any set of
blocks and contents, any sizes and any number of crashes.
`Refinement` is `Spec => ImplementsAtomicDisk`, `Durability` says that everything
written is on the disk once nobody is inside `log::with`, `Reservation` is
`ReservationSuffices`: what `is_full` reserves is enough for the array in the header,
and only the size of the log on the disk can make `Log::write` panic. `NoPanic` draws
the conclusion for a disk whose log has more than LOGSIZE blocks. The abstract disk is `Durable`,
the log replayed over the home blocks, and the abstract memory is the cache while
the system is up and `Durable` while it recovers. The write of the header maps to
the abstract commit. That a commit includes no half of an operation needs
`Operations` (nobody is inside while a commit runs), and that it includes every
block written, and installing it changes nothing, needs `Contents`: in each phase,
which of the home blocks, the cache and the log's blocks agree. `LInv` is the
conjunction of the two with the types (a header names each block at most once).
The steps of `LogSteps` need of the count `outstanding` only what it tells
`Log::end` (`CountMeans`); `LogProofs` shows that it counts the open operations
(`Counted`) and that this tells as much. The reservation is a bound on a set, the
writes still to come (`Outlook`): it is contained in a product of the open
operations with `1..MaxOpBlocks`, a start adds to it what `is_full` has checked
there is room for, and a write takes one element from it and adds at most one to
the header. A process about to call `Log::write` still has an element in it, so the
header has room, and a panic is the other assertion's. Assumptions: finitely many processes, the initial contents are
contents, sizes are natural numbers.

**Buffer cache** (`BufferInvariant`, `BufferRing`, `BufferCacheSteps`,
`BufferContents`, `BufferCacheProofs`), for any number of buffers, any finite set
of users, any blocks and any choice of the shared ones. `BInv` is an invariant
(`Inductive`), and from it all four properties of the run: `RingIntact`
(`RingWhole`), `ReferencesExact` (`References`), `SleepLockExcludes`
(`LockExcludes`) and `ProtectedBlocksCurrent` (`BlocksProtected`).

* The ring. `RingIntact` walks along `next` and says nothing of where a walk is
  after `k` steps, so it is not inductive. `RingOK` says that the slots can be
  numbered in the order of the ring; moving the head, the tail or a slot between
  them to the end of the ring is then a new numbering, and a walk follows it.
  Hence `Cache::get` finds the slot of a key if there is one (`Finds`).
* The counts. `Counted` says that a count is the number of users and the pin; the
  steps need only that a count of one is the caller's own reference
  (`CountTells`).
* The contents. A buffer is filled after the cache's lock has been released, so
  "the buffer has its block's contents" is false in between. `Contents` says that
  it has them unless somebody is about to fill it, that whoever is about to read
  it from the disk finds the block there (`Backed`), and that a protected block is
  on the disk unless it is pinned or being flushed. `Callers` is what the log and
  the inode locks guarantee of the users, and it is kept by the guard `Allowed`.

Assumptions: finitely many users, at least one buffer, `NoBlock` is no block.

`LInv` and `BInv` were model-checked on the instances of their runs before they
were proved. The proofs of the log and of the buffer cache are split into modules
by what the steps need to know, which keeps the obligations small.

Only model-checked:

* liveness (`SomeoneAcquires`, `RunnableRuns`, `EveryProcessReaped`,
  `SleepersWoken`, `RequestsFinish`, `ReadersReleased`), which needs fairness and
  ENABLED;
* the rings of `Virtio` (`RequestsIntact`), whose proof needs an account of two
  queues modulo the index width;
* `Process`, `FileSystem`, `Memory` and `Files` with the refinements of
  `Channel`, `Terminal` and `AddressSpaces`. Their invariants range over some
  thirty program points each; the runs check them, and no theorem does.

## Not modelled

* Assembly, boot, register setup and the handshake of `Disk::init`: the hardware
  interface, run once.
* Memory ordering weaker than sequential consistency. The lock flag is taken and
  released with acquire/release ordering, which orders what the locks protect.
* The contents of files and of user memory (a page has one value, a file none),
  the copying of arguments, ELF parsing (a header is good or bad), formatting and
  printing.
* Device inodes: `mknod` differs from `create` only in the kind it stores. `fstat`,
  `getpid` and `uptime` read state and change none.
* Paths with `.` and `..`: the entries exist and are counted, but no path of the
  run uses them. With `..` a process whose directory was removed can reach the
  assertion of `CachedInode::initialize` (fs.rs:110).
* The kernel heap (small `Box` and `Arc` allocations) and the kernel's own page
  table, built once.
* Output to the UART: it is polled and changes no state. The transmit buffer of
  uart.rs is never filled, since nothing calls `UART::putc`.
