------------------------------ MODULE MCProcess ------------------------------
(***************************************************************************)
(* Model-checking instances of Process, and its liveness properties.       *)
(***************************************************************************)
EXTENDS Process, TLC

Symmetry == Permutations(CPUs)

(* The behaviours the liveness properties are about: the timer ends the time
   slice of a process while it computes (a slice is far longer than a system call,
   so a call is not preempted again and again), and wait() is given addresses that
   the status can be stored at. *)
Preempted(c) == At(c, "user") /\ Pause(c)
KernelGood(c) ==
    Scheduler(c) \/ (InCall(c) /\ (Fork(c) \/ Exit(c) \/ WaitGood(c) \/ Kill(c)))

(* A CPU in the kernel keeps executing. *)
TimerSpec ==
    /\ Init
    /\ [][\E c \in CPUs : KernelGood(c) \/ User(c) \/ Preempted(c)]_vars
    /\ \A c \in CPUs : WF_vars(KernelGood(c))

(* The timer interrupt stays pending while interrupts are off, so a process that
   can be preempted again and again is. *)
TimerTicks == \A c \in CPUs : SF_vars(Preempted(c))

(* Round robin: if the timer ends every time slice, a process that is ready to run
   gets a CPU, even if the others never give theirs up: scheduler() resumes its scan
   behind the process it ran. *)
RunnableRuns ==
    TimerTicks => \A p \in Procs : state[p] = "Runnable" ~> state[p] = "Running"

(* Programs that end: a process that comes back to user mode again and again
   exits at last, and init comes back to wait() for ever, as user/init.c does. *)
ProgramsEnd ==
    /\ \A p \in Procs \ {InitProc} :
            SF_vars(\E c \in CPUs : cur[c] = p /\ ExitCall(c))
    /\ SF_vars(\E c \in CPUs : cur[c] = InitProc /\ WaitCall(c))

(* No process is lost: if programs end then, whoever dies first, parent or child,
   every process that fork() made is reaped in the end, by its parent or, as an
   orphan, by init. *)
EveryProcessReaped ==
    ProgramsEnd =>
        \A q \in Procs \ {InitProc} :
            state[q] \notin {"Unused", "Used"} ~> state[q] = "Unused"
=============================================================================
