--------------------------------- MODULE Log ---------------------------------
(***************************************************************************)
(* The redo log (filesystem/log.rs): log::with around every file system    *)
(* operation, group commit, crash at any point and recovery at boot.       *)
(*                                                                         *)
(* A step is what happens under LOG's spin lock between two releases, or   *)
(* one synchronous block write, done with the lock released.  A block      *)
(* write is atomic.  The buffer cache appears as `buf`, what a read        *)
(* through the cache returns for a home block; blocks in the header are    *)
(* pinned in the cache until they are installed.                           *)
(*                                                                         *)
(* Operators named Mut... are wrong variants of the definition after them; *)
(* each shows that some property notices that mistake.                     *)
(***************************************************************************)
EXTENDS Integers, Sequences, FiniteSets, Functions

CONSTANTS
    Procs,          \* processes that use the file system
    Blocks,         \* home blocks
    Vals, InitVal,  \* block contents, and what mkfs wrote
    MaxOpBlocks,    \* MAXOPBLOCKS: how many log::write calls one operation makes
    LogSize,        \* LOGSIZE
    NLog,           \* sb.nlog: the blocks of the on-disk log, header included
    Nesting,        \* processes whose operation may open another one inside
    MaxCrash        \* bound on crashes

ASSUME ProcAssumption == IsFiniteSet(Procs)
ASSUME ValAssumption == InitVal \in Vals
ASSUME SizeAssumption == MaxOpBlocks \in Nat /\ LogSize \in Nat /\ NLog \in Nat
ASSUME NestAssumption == Nesting \subseteq Procs
ASSUME CrashAssumption == MaxCrash \in Nat

VARIABLES
    home,           \* disk: the home blocks
    logdata,        \* disk: the data blocks of the log
    dhdr,           \* disk: the header, as the sequence of its n block numbers
    buf,            \* the home blocks as the buffer cache returns them
    header,         \* Log.header
    outstanding,    \* Log.outstanding
    phase, tail,    \* progress of commit or of recovery; loop index
    up,             \* has fs::initialize finished since the last boot?
    at,             \* where each process is
    depth,          \* how many log::with each process is inside
    writes,         \* its log::write calls since it was last outside log::with
    crashes

disk == <<home, logdata, dhdr>>
ops == <<at, depth, writes>>
vars == <<disk, buf, header, outstanding, phase, tail, up, ops, crashes>>

(* Boot from a fresh file system; initialize is about to read the header. *)
Init ==
    /\ home = [b \in Blocks |-> InitVal]
    /\ logdata = [k \in 1..LogSize |-> InitVal]
    /\ dhdr = <<>>
    /\ buf = home
    /\ header = <<>>
    /\ outstanding = 0
    /\ phase = "read" /\ tail = 1
    /\ up = FALSE
    /\ at = [p \in Procs |-> "idle"]
    /\ depth = [p \in Procs |-> 0]
    /\ writes = [p \in Procs |-> 0]
    /\ crashes = 0

(* Log.committing; during recovery no process runs file system calls. *)
Committing == up /\ phase # "none"

MutIsFull == Len(header) + outstanding * MaxOpBlocks > LogSize

IsFull == Len(header) + (outstanding + 1) * MaxOpBlocks > LogSize

(* process::wakeup(&LOG), as a function of the threads' places. *)
Woken(a) == [p \in Procs |-> IF a[p] = "asleep" THEN "start" ELSE a[p]]

(* A process enters log::with. *)
Call(p) ==
    /\ up /\ at[p] = "idle"
    /\ at' = [at EXCEPT ![p] = "start"]
    /\ UNCHANGED <<disk, buf, header, outstanding, phase, tail, up, depth,
                   writes, crashes>>

(* sys_open drops the file inside log::with when fdalloc fails, and File::drop
   enters log::with again. *)
Nest(p) ==
    /\ p \in Nesting /\ at[p] = "op" /\ depth[p] = 1
    /\ at' = [at EXCEPT ![p] = "start"]
    /\ UNCHANGED <<disk, buf, header, outstanding, phase, tail, up, depth,
                   writes, crashes>>

(* Log::start *)
StartSleep(p) ==
    /\ at[p] = "start"
    /\ Committing \/ IsFull
    /\ at' = [at EXCEPT ![p] = "asleep"]
    /\ UNCHANGED <<disk, buf, header, outstanding, phase, tail, up, depth,
                   writes, crashes>>

Start(p) ==
    /\ at[p] = "start"
    /\ ~Committing /\ ~IsFull
    /\ outstanding' = outstanding + 1
    /\ at' = [at EXCEPT ![p] = "op"]
    /\ depth' = [depth EXCEPT ![p] = @ + 1]
    /\ UNCHANGED <<disk, buf, header, phase, tail, up, writes, crashes>>

(* The blocks that a process may still write: MAXOPBLOCKS for each operation that
   it is inside. *)
Remaining(p) ==
    IF writes[p] < depth[p] * MaxOpBlocks THEN depth[p] * MaxOpBlocks - writes[p]
                                          ELSE 0

(* What Log::write asserts of the room in the log. *)
Fits == Len(header) < LogSize /\ Len(header) < NLog - 1

MutWrite(p, b, v) ==        \* only the first block of a transaction is recorded
    /\ at[p] = "op" /\ Remaining(p) > 0
    /\ Fits
    /\ buf' = [buf EXCEPT ![b] = v]
    /\ header' = IF header = <<>> THEN <<b>> ELSE header
    /\ writes' = [writes EXCEPT ![p] = @ + 1]
    /\ UNCHANGED <<disk, outstanding, phase, tail, up, at, depth, crashes>>

(* An operation changes a buffer it holds and calls Log::write on it. *)
Write(p, b, v) ==
    /\ at[p] = "op" /\ Remaining(p) > 0
    /\ Fits
    /\ buf' = [buf EXCEPT ![b] = v]
    /\ header' = IF b \in Range(header) THEN header ELSE Append(header, b)
    /\ writes' = [writes EXCEPT ![p] = @ + 1]
    /\ UNCHANGED <<disk, outstanding, phase, tail, up, at, depth, crashes>>

(* An assertion of Log::write fails: the kernel panics with LOG's lock held, so that
   from then on nobody gets into or out of log::with. *)
Panic(p) ==
    /\ at[p] = "op" /\ Remaining(p) > 0
    /\ ~Fits
    /\ at' = [at EXCEPT ![p] = "panic"]
    /\ UNCHANGED <<disk, buf, header, outstanding, phase, tail, up, depth, writes,
                   crashes>>

Stopped == \E p \in Procs : at[p] = "panic"

MutEndNoCommit(p) ==        \* the last operation may return without a commit
    /\ at[p] = "op"
    /\ outstanding' = outstanding - 1
    /\ depth' = [depth EXCEPT ![p] = @ - 1]
    /\ at' = Woken([at EXCEPT ![p] = IF depth[p] = 1 THEN "idle" ELSE "op"])
    /\ writes' = [writes EXCEPT ![p] = IF depth[p] = 1 THEN 0 ELSE @]
    /\ UNCHANGED <<disk, buf, header, phase, tail, up, crashes>>

(* Log::end, when this is not the last operation or nothing was written. *)
End(p) ==
    /\ at[p] = "op"
    /\ outstanding > 1 \/ header = <<>>
    /\ outstanding' = outstanding - 1
    /\ depth' = [depth EXCEPT ![p] = @ - 1]
    /\ at' = Woken([at EXCEPT ![p] = IF depth[p] = 1 THEN "idle" ELSE "op"])
    /\ writes' = [writes EXCEPT ![p] = IF depth[p] = 1 THEN 0 ELSE @]
    /\ UNCHANGED <<disk, buf, header, phase, tail, up, crashes>>

(* Log::end of the last operation: commit starts. *)
EndLast(p) ==
    /\ at[p] = "op"
    /\ outstanding = 1 /\ header # <<>>
    /\ outstanding' = 0
    /\ depth' = [depth EXCEPT ![p] = @ - 1]
    /\ at' = [at EXCEPT ![p] = "commit"]
    /\ writes' = [writes EXCEPT ![p] = 0]
    /\ phase' = "log" /\ tail' = 1
    /\ UNCHANGED <<disk, buf, header, up, crashes>>
-----------------------------------------------------------------------------
(* write_log: one block. *)
WriteLog ==
    /\ phase = "log"
    /\ logdata' = [logdata EXCEPT ![tail] = buf[header[tail]]]
    /\ IF tail < Len(header) THEN tail' = tail + 1 /\ UNCHANGED phase
                             ELSE tail' = 1 /\ phase' = "header"
    /\ UNCHANGED <<home, dhdr, buf, header, outstanding, up, ops, crashes>>

(* write_header: the commit point. *)
WriteHeader ==
    /\ phase = "header"
    /\ dhdr' = header
    /\ phase' = "install"
    /\ UNCHANGED <<home, logdata, buf, header, outstanding, tail, up, ops,
                   crashes>>

(* The rest of the loop of install_blocks, after block k. *)
InstallNext(k) ==
    IF k < Len(header)
      THEN tail' = k + 1 /\ UNCHANGED <<header, phase>>
      ELSE tail' = 1 /\ header' = <<>> /\ phase' = "clear"

(* install_blocks: one block, through the cache and to its home. *)
Install ==
    /\ phase = "install" /\ header # <<>>
    /\ home' = [home EXCEPT ![header[tail]] = logdata[tail]]
    /\ buf' = [buf EXCEPT ![header[tail]] = logdata[tail]]
    /\ InstallNext(tail)
    /\ UNCHANGED <<logdata, dhdr, outstanding, up, ops, crashes>>

MutClear ==                 \* end does not wake the waiting processes
    /\ phase = "clear"
    /\ dhdr' = header
    /\ phase' = "none"
    /\ up' = TRUE
    /\ at' = [p \in Procs |-> IF at[p] = "commit" THEN "idle" ELSE at[p]]
    /\ UNCHANGED <<home, logdata, buf, header, outstanding, tail, depth, writes,
                   crashes>>

(* The second write_header erases the log; commit or initialize is done. *)
Clear ==
    /\ phase = "clear"
    /\ dhdr' = header
    /\ phase' = "none"
    /\ up' = TRUE
    /\ at' = Woken([p \in Procs |-> IF at[p] = "commit" THEN "idle" ELSE at[p]])
    /\ UNCHANGED <<home, logdata, buf, header, outstanding, tail, depth, writes,
                   crashes>>

(* initialize: read_header; with an empty log install_blocks does nothing. *)
ReadHeader ==
    /\ phase = "read"
    /\ header' = dhdr
    /\ phase' = IF dhdr = <<>> THEN "clear" ELSE "install"
    /\ UNCHANGED <<disk, buf, outstanding, tail, up, ops, crashes>>

(* Power is lost; the machine boots with an empty memory. *)
Crash ==
    /\ crashes < MaxCrash
    /\ crashes' = crashes + 1
    /\ buf' = home
    /\ header' = <<>>
    /\ outstanding' = 0
    /\ phase' = "read" /\ tail' = 1
    /\ up' = FALSE
    /\ at' = [p \in Procs |-> "idle"]
    /\ depth' = [p \in Procs |-> 0]
    /\ writes' = [p \in Procs |-> 0]
    /\ UNCHANGED disk
-----------------------------------------------------------------------------
Op(p) ==
    \/ Nest(p) \/ StartSleep(p) \/ Start(p) \/ End(p) \/ EndLast(p)
    \/ Panic(p) \/ \E b \in Blocks, v \in Vals : Write(p, b, v)

LogStep == WriteLog \/ WriteHeader \/ Install \/ Clear \/ ReadHeader

Next == LogStep \/ Crash \/ (~Stopped /\ \E p \in Procs : Call(p) \/ Op(p))

Spec == Init /\ [][Next]_vars

(* Disk writes complete, and unless the kernel has panicked a process in Log::start
   runs on and every operation ends. *)
Fairness ==
    /\ WF_vars(LogStep)
    /\ \A p \in Procs :
        /\ WF_vars(~Stopped /\ (StartSleep(p) \/ Start(p)))
        /\ WF_vars(~Stopped /\ (End(p) \/ EndLast(p)))

FairSpec == Spec /\ Fairness
-----------------------------------------------------------------------------
(* The blocks as recovery would leave them: the log replayed over home. *)
Durable ==
    [b \in Blocks |->
        IF b \in Range(dhdr)
          THEN logdata[CHOOSE k \in 1..Len(dhdr) : dhdr[k] = b]
          ELSE home[b]]

(* The blocks as the buffer cache may show them: it recycles a buffer that the log
   does not pin at any time and reads the block from its home again. *)
Pinned ==
    IF phase = "install" THEN {header[k] : k \in tail..Len(header)}
                         ELSE Range(header)
Cached == [b \in Blocks |-> IF b \in Pinned THEN buf[b] ELSE home[b]]

Abstract == INSTANCE AtomicDisk WITH
    durable <- Durable,
    mem <- IF up THEN buf ELSE Durable,
    active <- {p \in Procs : depth[p] > 0}

(* The redo log implements AtomicDisk: whatever the interleaving of operations,
   group commit, crashes and crashes during recovery, an operation is on the
   disk entirely or not at all, and a commit never includes half of one.  And it
   does so whichever buffers are recycled: Log::write and install_blocks pin what
   home does not have yet. *)
ImplementsAtomicDisk == Abstract!Spec /\ [](up => Cached = buf)

(* Once the last log::with has returned, everything written is on the disk. *)
DurableOnReturn ==
    up /\ phase = "none" /\ (\A p \in Procs : depth[p] = 0) => Durable = buf

(* The log::write calls that the operations inside log::with may still make,
   numbered for each process. *)
Outlook == UNION {{p} \X (1..Remaining(p)) : p \in Procs}

(* What is_full reserves is enough for the array in the header: it has room for every
   block that the operations inside log::with may still write, so the assertion against
   LOGSIZE never fails.  The one against the size of the log on the disk needs one
   block more than is reserved, for the header.  It holds if nlog > LOGSIZE; but
   mkfs.c makes a log of nlog = LOGSIZE blocks, and there operations that use all they
   may write do panic. *)
ReservationSuffices ==
    /\ Len(header) + Cardinality(Outlook) <= LogSize
    /\ Stopped => NLog - 1 <= Len(header) /\ Len(header) < LogSize

(* Nobody is left to end an operation: the kernel has panicked, or every process
   inside log::with sleeps in a nested one, for room that only they can make. *)
Stuck ==
    \/ Stopped
    \/ outstanding > 0 /\ \A p \in Procs : depth[p] > 0 => at[p] = "asleep"

(* A process that sleeps in Log::start is woken when the last operation ends and
   commits, as the head of log.rs says, and the only thing that can prevent this end is
   that the operations are stuck. *)
SleepersWoken ==
    \A p \in Procs : at[p] = "asleep" ~> at[p] # "asleep" \/ Stuck
=============================================================================
