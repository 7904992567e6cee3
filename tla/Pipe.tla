-------------------------------- MODULE Pipe --------------------------------
(***************************************************************************)
(* Pipes (pipe.rs): PipeInner's ring with its two counters, written byte   *)
(* by byte and read in one go, both under the pipe's lock.  A byte is the  *)
(* number it has in the order of writing.                                  *)
(*                                                                         *)
(* Operators named Mut... are wrong variants of the definition after them; *)
(* each shows that some property notices that mistake.                     *)
(***************************************************************************)
EXTENDS Sleepers

CONSTANT SIZE

ASSUME SizeAssumption == SIZE > 0

VARIABLES
    pipe,           \* PipeInner
    eof,            \* a read has returned 0 at the end of the file
    torn            \* a write has failed after its first byte and woken nobody since

pipeVars == <<pipe, eof, torn>>

(* PipeInner::new *)
NewPipe == [data |-> [k \in 0..(SIZE - 1) |-> 0], read |-> 0, write |-> 0,
            read_open |-> TRUE, write_open |-> TRUE]

Available == pipe.write - pipe.read

(* close_read and close_write wake those who sleep at the other end. *)
MutClosed(end) == chan
Closed(end) == Woken(chan, IF end = "r" THEN "write" ELSE "read")

CloseEnd(end) ==
    /\ lock["pipe"] = None
    /\ pipe' = IF end = "r" THEN [pipe EXCEPT !.read_open = FALSE] ELSE [pipe EXCEPT !.write_open = FALSE]
    /\ chan' = Closed(end)
    /\ torn' = (torn /\ end = "r")

(* The end of write: the readers are woken. *)
MutWrote(p) == UNCHANGED <<chan, torn>> /\ Returns(p, "pipe")
Wrote(p) == chan' = Woken(chan, "read") /\ torn' = FALSE /\ Returns(p, "pipe")

(* write, the top of its loop: done, or no reader is left or the process is killed,
   or there is a byte to write. *)
PipeWriteCheck(p) ==
    /\ In(p, "pwrite", "check") /\ Has(p, "pipe")
    /\ \/ call[p].i = call[p].n /\ Wrote(p)
       \/ /\ call[p].i < call[p].n /\ (~pipe.read_open \/ killed[p])
          /\ Returns(p, "pipe")
          /\ torn' = (torn \/ call[p].i > 0)
          /\ UNCHANGED chan
       \/ /\ call[p].i < call[p].n /\ pipe.read_open /\ ~killed[p]
          /\ Keeps(p, "pipe", "act")
          /\ UNCHANGED <<chan, torn>>
    /\ UNCHANGED <<pipe, eof, killed, halted>>

MutFull == pipe.write > pipe.read + SIZE
Full == pipe.write = pipe.read + SIZE

(* The rest of the loop: sleep while the ring is full, or store a byte, unless it
   cannot be read from the caller's memory. *)
PipeWriteAct(p) ==
    /\ In(p, "pwrite", "act")
    /\ \/ /\ Full
          /\ Sleeps(p, "pipe", "write", Woken(chan, "read"))
          /\ torn' = FALSE
          /\ UNCHANGED pipe
       \/ /\ ~Full
          /\ pipe' = [pipe EXCEPT !.data[pipe.write % SIZE] = pipe.write, !.write = @ + 1]
          /\ call' = [call EXCEPT ![p].i = @ + 1, ![p].pc = "check"]
          /\ UNCHANGED <<chan, lock, torn>>
       \/ ~Full /\ Wrote(p) /\ UNCHANGED pipe
    /\ UNCHANGED <<eof, killed, halted>>

(* read, while there is nothing to read: a killed process gives up. *)
PipeReadCheck(p) ==
    /\ In(p, "pread", "check") /\ Has(p, "pipe")
    /\ Available = 0 /\ pipe.write_open
    /\ IF killed[p] THEN Returns(p, "pipe") ELSE Keeps(p, "pipe", "sleep")
    /\ UNCHANGED <<pipeVars, chan, killed, halted>>

(* read, once there is: up to n bytes, or fewer and one that could not be written
   to the caller's memory.  The writers are woken. *)
PipeRead(p) ==
    LET all == IF Available < call[p].n THEN Available ELSE call[p].n IN
    /\ In(p, "pread", "check") /\ Has(p, "pipe")
    /\ Available > 0 \/ ~pipe.write_open
    /\ \E k \in {0, 1, all} :
         /\ k <= all /\ (all > 0 => k > 0)
         /\ pipe' = [pipe EXCEPT !.read = @ + k]
         /\ eof' = (eof \/ all = 0)
    /\ chan' = Woken(chan, "write")
    /\ Returns(p, "pipe")
    /\ UNCHANGED <<torn, killed, halted>>

PipeSleep(p) == Sleep(p, "pread", "pipe", "read") /\ UNCHANGED pipeVars

PipeStep(p) == PipeWriteCheck(p) \/ PipeWriteAct(p) \/ PipeReadCheck(p) \/ PipeRead(p) \/ PipeSleep(p)

-----------------------------------------------------------------------------
Bytes == [k \in 1..Available |-> pipe.data[(pipe.read + k - 1) % SIZE]]

Pipes == INSTANCE Channel WITH queue <- Bytes, read_open <- pipe.read_open,
                               write_open <- pipe.write_open, Capacity <- SIZE

(* The ring and its counters, with sleeping readers and writers, implement a bounded
   queue: bytes come out in the order they went in, none twice and none overwritten,
   and end of file is reported only when the ring is empty and no writer is left. *)
ImplementsChannel == Pipes!Spec

(* A reader sleeps only while the pipe is empty and has a writer, and a writer only
   while it is full and has a reader; or somebody who will wake them holds the lock.
   The exception is a writer that was killed after its first byte: PipeInner::write
   returns without the wakeup, and the readers of what it wrote sleep on. *)
PipeSleepersJustified ==
    lock["pipe"] = None =>
        \A p \in Procs :
            /\ chan[p] = "read" => (Available = 0 /\ pipe.write_open) \/ torn
            /\ chan[p] = "write" => Full /\ pipe.read_open
=============================================================================
