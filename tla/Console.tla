------------------------------ MODULE Console ------------------------------
(***************************************************************************)
(* The console's input (console.rs): a ring with three indices, filled and *)
(* edited by the interrupt handler of the UART (uart.rs) and read by       *)
(* processes.  A character is "a", "newline" or "eof" (control-D).  What   *)
(* is echoed and what processes write goes to the UART at once and is left *)
(* out.                                                                    *)
(*                                                                         *)
(* Operators named Mut... are wrong variants of the definition after them; *)
(* each shows that some property notices that mistake.                     *)
(***************************************************************************)
EXTENDS Sleepers

CONSTANTS
    INPUT_BUF_LEN,
    MaxKeys         \* bound: keys pressed in a behaviour

VARIABLES
    cons,           \* CONSOLE
    keys            \* keys pressed so far

consoleVars == <<cons, keys>>

NewConsole == [buf |-> [k \in 0..(INPUT_BUF_LEN - 1) |-> "a"],
               read_index |-> 0, write_index |-> 0, edit_index |-> 0]

CharAt(i) == cons.buf[i % INPUT_BUF_LEN]

(* Control-U: back to the last newline or to what has been entered. *)
KillLine ==
    LET stop == {i \in cons.write_index..cons.edit_index :
                    i = cons.write_index \/ CharAt(i - 1) = "newline"}
    IN  [cons EXCEPT !.edit_index = CHOOSE i \in stop : \A j \in stop : j <= i]

(* Backspace and delete. *)
EraseChar == IF cons.edit_index = cons.write_index THEN cons ELSE [cons EXCEPT !.edit_index = @ - 1]

(* A character to be stored, if there is room, and whether it completes a line. *)
Room == cons.edit_index - cons.read_index < INPUT_BUF_LEN
Entered(c) == c \in {"newline", "eof"} \/ cons.edit_index + 1 = cons.read_index + INPUT_BUF_LEN

MutTyped(c) ==                  \* a full ring does not enter the line
    [cons EXCEPT !.buf[cons.edit_index % INPUT_BUF_LEN] = c, !.edit_index = @ + 1,
                 !.write_index = IF c # "a" THEN cons.edit_index + 1 ELSE @]
Typed(c) ==
    [cons EXCEPT !.buf[cons.edit_index % INPUT_BUF_LEN] = c, !.edit_index = @ + 1,
                 !.write_index = IF Entered(c) THEN cons.edit_index + 1 ELSE @]

(* The interrupt handler, for one character: it spins until no process has the
   console's lock.  Control-P prints the process list with the lock held, and
   printing takes the lock: the kernel panics. *)
Key ==
    /\ ~halted /\ lock["console"] = None /\ keys < MaxKeys
    /\ keys' = keys + 1
    /\ \/ halted' = TRUE /\ UNCHANGED <<cons, chan>>
       \/ cons' = KillLine /\ UNCHANGED <<chan, halted>>
       \/ cons' = EraseChar /\ UNCHANGED <<chan, halted>>
       \/ \E c \in {"a", "newline", "eof"} :
            /\ Room
            /\ cons' = Typed(c)
            /\ chan' = IF Entered(c) THEN Woken(chan, "input") ELSE chan
            /\ UNCHANGED halted
    /\ UNCHANGED <<call, killed, lock>>

(* read, while no line has been entered. *)
ConsoleReadCheck(p) ==
    /\ In(p, "cread", "check") /\ Has(p, "console")
    /\ cons.read_index = cons.write_index
    /\ IF killed[p] THEN Returns(p, "console") ELSE Keeps(p, "console", "sleep")
    /\ UNCHANGED <<consoleVars, chan, killed, halted>>

(* read, one character: an end of file after other characters stays for the next
   read; it, a newline, the last of n, or one that cannot be written to the caller's
   memory end the call. *)
ConsoleRead(p) ==
    LET c == CharAt(cons.read_index)
        saved == c = "eof" /\ call[p].i > 0
    IN  /\ In(p, "cread", "check") /\ Has(p, "console")
        /\ cons.read_index # cons.write_index
        /\ cons' = IF saved THEN cons ELSE [cons EXCEPT !.read_index = @ + 1]
        /\ \/ Returns(p, "console")
           \/ /\ c = "a" /\ call[p].i + 1 < call[p].n
              /\ call' = [call EXCEPT ![p].i = @ + 1]
              /\ lock' = [lock EXCEPT !["console"] = p]
        /\ UNCHANGED <<keys, chan, killed, halted>>

ConsoleSleep(p) == Sleep(p, "cread", "console", "input") /\ UNCHANGED consoleVars

ConsoleStep(p) == ConsoleReadCheck(p) \/ ConsoleRead(p) \/ ConsoleSleep(p)

-----------------------------------------------------------------------------
Chars(a, b) == [k \in 1..(b - a) |-> CharAt(a + k - 1)]

Terminals == INSTANCE Terminal WITH line <- Chars(cons.write_index, cons.edit_index),
                                    input <- Chars(cons.read_index, cons.write_index),
                                    Capacity <- INPUT_BUF_LEN

(* The ring with its three free-running indices implements a terminal: editing never
   reaches what has been entered, a newline, an end of file or the last free place
   always enters the line, no character is stored beyond the room there is, and
   characters are read once, in order.  That is as long as the kernel runs: after
   control-P, for which console.rs promises the process list, it does not, and the
   terminal takes no more steps. *)
ImplementsTerminal == Terminals!Spec

(* A process sleeps for input only while none has been entered. *)
ConsoleSleepersJustified ==
    \A p \in Procs : chan[p] = "input" => cons.read_index = cons.write_index
=============================================================================
