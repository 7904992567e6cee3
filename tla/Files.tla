------------------------------- MODULE Files -------------------------------
(***************************************************************************)
(* Open files (file.rs) and the calls on descriptors (syscall.rs): two     *)
(* processes that share pipes, the console or a file through fork and dup, *)
(* read, write, close, sleep, are killed and exit.  It composes Pipe and   *)
(* Console, and adds descriptor tables, the clock (clock.rs) and the       *)
(* offset of a file that is shared.                                        *)
(*                                                                         *)
(* A behaviour makes one object: a pipe ("r" and "w" are its ends), a file *)
(* on the disk ("i"), the console ("c"), or none and sleeps; what these do *)
(* to one another is nothing.  A file is dropped with its last descriptor. *)
(***************************************************************************)
EXTENDS Pipe, Console, FiniteSetsExt

CONSTANTS
    First,          \* the process that exists at the start
    NOFILE,         \* descriptors of a process
    Amounts,        \* bound: bytes that one read or write asks for
    MaxChunk,       \* bytes that write puts in one transaction
    MaxTicks,       \* bound: ticks of the clock
    MaxCalls,       \* bound: calls made in a behaviour
    MaxConsoleCalls \* bound: the same, if it works on the console

VARIABLES
    ofile,          \* ProcessContext.ofile
    made,           \* the object of this behaviour
    offset,         \* File::Inode.offset
    size,           \* of that file
    moved,          \* history: bytes that reads and writes have moved
    written,        \* history: bytes that writes have stored
    ticks,          \* TICKS
    calls

histVars == <<moved, written>>
fileVars == <<made, offset, size, histVars>>
vars == <<call, chan, killed, lock, halted, pipeVars, consoleVars, ofile, fileVars, ticks, calls>>

Fds == 1..NOFILE
NoFiles == [d \in Fds |-> "none"]
Holders(f) == {p \in Procs : \E d \in Fds : ofile[p][d] = f}

Init ==
    /\ call = [p \in Procs |-> IF p = First THEN InUser ELSE Gone]
    /\ chan = [p \in Procs |-> None]
    /\ killed = [p \in Procs |-> FALSE]
    /\ lock = [l \in Locks |-> None]
    /\ halted = FALSE
    /\ pipe = NewPipe /\ eof = FALSE /\ torn = FALSE
    /\ cons = NewConsole /\ keys = 0
    /\ ofile = [p \in Procs |-> NoFiles]
    /\ made = "none" /\ offset = 0 /\ size = 0 /\ moved = 0 /\ written = 0
    /\ ticks = 0 /\ calls = 0

(* A process in user mode makes a call; one that was killed does not come back. *)
Enter(p) ==
    /\ In(p, "user", "check") /\ ~killed[p]
    /\ calls < (IF made = "c" THEN MaxConsoleCalls ELSE MaxCalls) /\ calls' = calls + 1
Asks(p, op, n, at) == call' = [call EXCEPT ![p] = Asked(op, n, at)]

(* fdalloc: the first descriptor that is free. *)
FreeFds(t) == {d \in Fds : t[d] = "none"}
Lowest(t) == CHOOSE d \in FreeFds(t) : \A e \in FreeFds(t) : d <= e
fdalloc(t, f) == [t EXCEPT ![Lowest(t)] = f]

(* sys_open, of a file or of the console. *)
Open(p) ==
    /\ Enter(p) /\ made = "none"
    /\ \E f \in {"i", "c"} : made' = f /\ ofile' = [ofile EXCEPT ![p] = fdalloc(@, f)]
    /\ UNCHANGED <<call, chan, killed, lock, halted, pipeVars, consoleVars, offset, size, histVars, ticks>>

(* sys_pipe: two descriptors, or none and both ends closed again when there is no
   second one or their numbers cannot be written to the caller's memory. *)
MakePipe(p) ==
    /\ Enter(p) /\ made = "none" /\ made' = "pipe"
    /\ \/ /\ Cardinality(FreeFds(ofile[p])) >= 2
          /\ ofile' = [ofile EXCEPT ![p] = fdalloc(fdalloc(@, "r"), "w")]
          /\ UNCHANGED pipe
       \/ /\ pipe' = [pipe EXCEPT !.read_open = FALSE, !.write_open = FALSE]
          /\ UNCHANGED ofile
    /\ UNCHANGED <<call, chan, killed, lock, halted, eof, torn, consoleVars, offset, size, histVars, ticks>>

(* sys_dup *)
Dup(p) ==
    /\ Enter(p) /\ FreeFds(ofile[p]) # {}
    /\ \E d \in Fds : ofile[p][d] # "none" /\ ofile' = [ofile EXCEPT ![p] = fdalloc(@, ofile[p][d])]
    /\ UNCHANGED <<call, chan, killed, lock, halted, pipeVars, consoleVars, fileVars, ticks>>

(* fork, as far as files go: try_clone clones every Arc of the table. *)
Fork(p) ==
    /\ Enter(p)
    /\ \E c \in Procs :
         /\ call[c].op = "gone"
         /\ call' = [call EXCEPT ![c] = InUser]
         /\ ofile' = [ofile EXCEPT ![c] = ofile[p]]
         /\ killed' = [killed EXCEPT ![c] = FALSE]
    /\ UNCHANGED <<chan, lock, halted, pipeVars, consoleVars, fileVars, ticks>>

(* sys_read and sys_write: the end of the pipe or the kind of file decides. *)
ReadWrite(p) ==
    /\ Enter(p)
    /\ \E d \in Fds : \E n \in Amounts :
         \/ ofile[p][d] = "r" /\ Asks(p, "pread", n, 0)
         \/ ofile[p][d] = "w" /\ Asks(p, "pwrite", n, 0)
         \/ ofile[p][d] = "c" /\ Asks(p, "cread", n, 0)
         \/ ofile[p][d] = "i" /\ \E op \in {"fread", "fwrite"} : Asks(p, op, n, 0)
    /\ UNCHANGED <<chan, killed, lock, halted, pipeVars, consoleVars, ofile, fileVars, ticks>>

-----------------------------------------------------------------------------
(* A file on the disk.  The offset is loaded while the inode is locked, and the
   bytes are added to it after the lock has been dropped. *)

(* InodeGuard::copy_to, what a read of n bytes at off may move: what there is, or
   nothing when it cannot be written to the caller's memory. *)
copy_to(off, n) == IF off > size THEN {0} ELSE {0, IF size - off < n THEN size - off ELSE n}

(* InodeGuard::copy_from: a write stops at the first block whose bytes cannot be read
   from the caller, and fails as a whole past the end or for want of a block. *)
copy_from(off, n) == IF off > size THEN {0} ELSE 0..n

(* One chunk, which for a read is all of it. *)
Transfer(p) ==
    LET write == call[p].op = "fwrite"
        rest == call[p].n - call[p].i
        n == IF write /\ rest > MaxChunk THEN MaxChunk ELSE rest
    IN  /\ In(p, "fread", "check") \/ In(p, "fwrite", "check")
        /\ \E m \in IF write THEN copy_from(offset, n) ELSE copy_to(offset, n) :
             /\ size' = IF write /\ offset + m > size THEN offset + m ELSE size
             /\ moved' = moved + m
             /\ written' = IF write THEN written + m ELSE written
             /\ call' = [call EXCEPT ![p].pc = IF m = n THEN "add" ELSE "short",
                                     ![p].at = offset, ![p].m = m]
        /\ UNCHANGED <<chan, killed, lock, halted, pipeVars, consoleVars, ofile, made, offset, ticks, calls>>

(* offset.fetch_add *)
MutAdvanced(at, n) == at + n
Advanced(at, n) == offset + n

(* write goes on with the next chunk, unless this one was short. *)
Advance(p) ==
    LET c == call[p]
    IN  /\ \E op \in {"fread", "fwrite"}, pc \in {"add", "short"} : In(p, op, pc)
        /\ offset' = Advanced(c.at, c.m)
        /\ call' = [call EXCEPT ![p] = IF c.op = "fwrite" /\ c.pc = "add" /\ c.i + c.m < c.n
                                       THEN [@ EXCEPT !.pc = "check", !.i = c.i + c.m] ELSE InUser]
        /\ UNCHANGED <<chan, killed, lock, halted, pipeVars, consoleVars, ofile, made, size, histVars, ticks, calls>>

-----------------------------------------------------------------------------
(* The clock *)

(* clock::sleep *)
ClockSleep(p) ==
    /\ Enter(p) /\ made \in {"none", "clock"} /\ made' = "clock"
    /\ lock["ticks"] = None
    /\ \E n \in 1..MaxTicks : Asks(p, "sleep", n, ticks)
    /\ UNCHANGED <<chan, killed, lock, halted, pipeVars, consoleVars, ofile, offset, size, histVars, ticks>>

Early(p) == ticks - call[p].at < call[p].n

ClockCheck(p) ==
    /\ In(p, "sleep", "check") /\ Has(p, "ticks")
    /\ IF Early(p) /\ ~killed[p] THEN Keeps(p, "ticks", "sleep") ELSE Returns(p, "ticks")
    /\ UNCHANGED <<chan, killed, halted>>

ClockStep(p) ==
    /\ ClockCheck(p) \/ Sleep(p, "sleep", "ticks", "tick")
    /\ UNCHANGED ticks

(* clock::tick, in the timer interrupt *)
Tick ==
    /\ made = "clock" /\ lock["ticks"] = None /\ ticks < MaxTicks
    /\ ticks' = ticks + 1
    /\ chan' = Woken(chan, "tick")
    /\ UNCHANGED <<call, killed, lock, halted, pipeVars, consoleVars, ofile, fileVars, calls>>

-----------------------------------------------------------------------------
(* The end of a file *)

(* Descriptor d of p is emptied.  The file that was in it is dropped if no other
   descriptor has it, which for an end of a pipe takes the pipe's lock. *)
MutLast(p, d) == \A e \in Fds \ {d} : ofile[p][e] # ofile[p][d]
Last(p, d) == \A q \in Procs, e \in Fds : ofile[q][e] = ofile[p][d] => q = p /\ e = d

Emptied(p, d, after) ==
    /\ ofile' = [ofile EXCEPT ![p][d] = "none"]
    /\ call' = [call EXCEPT ![p] =
           IF Last(p, d) /\ ofile[p][d] \in {"r", "w"}
           THEN [after EXCEPT !.pc = ofile[p][d], !.op = IF @ = "user" THEN "close" ELSE @]
           ELSE after]

(* sys_close *)
Close(p) ==
    /\ Enter(p)
    /\ \E d \in Fds : ofile[p][d] # "none" /\ Emptied(p, d, InUser)
    /\ UNCHANGED <<chan, killed, lock, halted, pipeVars, consoleVars, fileVars, ticks>>

(* Pipe::drop *)
DropEnd(p) ==
    /\ \E op \in {"close", "exit"}, end \in {"r", "w"} :
         /\ In(p, op, end)
         /\ CloseEnd(end)
         /\ call' = [call EXCEPT ![p] = IF op = "close" THEN InUser ELSE [@ EXCEPT !.pc = "check"]]
    /\ UNCHANGED <<killed, lock, halted, eof, consoleVars, ofile, fileVars, ticks, calls>>

(* exit, called by the program or on the way back to it if it was killed. *)
Exit(p) ==
    /\ In(p, "user", "check")
    /\ Asks(p, "exit", 0, 0)
    /\ UNCHANGED <<chan, killed, lock, halted, pipeVars, consoleVars, ofile, fileVars, ticks, calls>>

(* exit takes the files from the table in order. *)
ExitStep(p) ==
    LET open == Fds \ FreeFds(ofile[p]) IN
    /\ In(p, "exit", "check")
    /\ IF open # {}
       THEN Emptied(p, CHOOSE d \in open : \A e \in open : d <= e, call[p])
       ELSE call' = [call EXCEPT ![p] = Gone] /\ UNCHANGED ofile
    /\ UNCHANGED <<chan, killed, lock, halted, pipeVars, consoleVars, fileVars, ticks, calls>>

-----------------------------------------------------------------------------
Others == <<ofile, fileVars, calls>>

(* The next step of the system call that p is in. *)
Proceed(p) ==
    LET op == call[p].op IN
    /\ ~halted /\ chan[p] = None
    /\ \/ op \in {"fread", "fwrite"} /\ (Transfer(p) \/ Advance(p))
       \/ op \in {"close", "exit"} /\ (DropEnd(p) \/ ExitStep(p))
       \/ op \in {"pread", "pwrite"} /\ PipeStep(p) /\ UNCHANGED <<consoleVars, Others, ticks>>
       \/ op = "cread" /\ ConsoleStep(p) /\ UNCHANGED <<pipeVars, Others, ticks>>
       \/ op = "sleep" /\ ClockStep(p) /\ UNCHANGED <<pipeVars, consoleVars, Others>>

Calls(p) ==
    Open(p) \/ MakePipe(p) \/ Dup(p) \/ Fork(p) \/ ReadWrite(p) \/ ClockSleep(p) \/ Close(p)

(* sys_kill by some other process, once in a behaviour. *)
Killed ==
    /\ \A p \in Procs : ~killed[p]
    /\ \E p \in Procs : Kill(p)
    /\ UNCHANGED <<pipeVars, consoleVars, Others, ticks>>

Next ==
    \/ \E p \in Procs : Calls(p) \/ Exit(p) \/ Proceed(p)
    \/ Killed
    \/ Tick
    \/ made = "c" /\ Key /\ UNCHANGED <<pipeVars, Others, ticks>>

(* A process in the kernel gets on unless it sleeps, and programs end. *)
Fairness == \A p \in Procs : WF_vars(Proceed(p)) /\ WF_vars(Exit(p))

Spec == Init /\ [][Next]_vars /\ Fairness

-----------------------------------------------------------------------------
(* Nobody sleeps on a condition that has come true: for bytes or room in a pipe, a
   line from the console, or a time that has passed.  Wakeups are given away in
   pipe.rs, console.rs and clock.rs, and each covers every way the condition can
   change. *)
SleepersJustified ==
    /\ PipeSleepersJustified
    /\ ConsoleSleepersJustified
    /\ \A p \in Procs : chan[p] = "tick" => Early(p)

(* An end of the pipe is open exactly as long as some descriptor of some process
   refers to it, up to the moment in which the process that emptied the last one
   closes it; then it is still open, as close_read and close_write assert. *)
EndsMatch ==
    made = "pipe" =>
        \A end \in {"r", "w"} :
            LET open == IF end = "r" THEN pipe.read_open ELSE pipe.write_open
                dropping == {p \in Procs : call[p].pc = end}
            IN  /\ open <=> Holders(end) # {} \/ dropping # {}
                /\ dropping # {} => Cardinality(dropping) = 1 /\ Holders(end) = {}

(* Processes that share a file share its offset, and no call's advance is lost when
   calls overlap: together with the transfers that have yet to be added it is the
   number of bytes moved, so once they are all added it is at or past the end of what
   was written, and a later write does not overwrite it. *)
OffsetExact ==
    LET pending == MapThenSumSet(LAMBDA p : call[p].m,
                                 {p \in Procs : call[p].pc \in {"add", "short"}})
    IN  offset + pending = moved /\ size <= offset + pending

(* What two processes write through one descriptor all ends up in the file, also when
   the writes overlap: sharedfd in usertests.c counts every byte.  The code does not
   do this, since the offset is advanced after the inode's lock has been dropped. *)
SharedWritesKept == size = written

(* A sleeping reader is released, by bytes or by end of file, when the other programs
   end: the last close of a write end wakes it.  The exception is of the programs'
   making, a process that reads a pipe while it has a write end of it itself. *)
ReadersReleased ==
    \A p \in Procs :
        chan[p] = "read" ~> chan[p] # "read" \/ \E q \in Holders("w") : call[q].op = "pread"
=============================================================================
