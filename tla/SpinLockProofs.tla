--------------------------- MODULE SpinLockProofs ---------------------------
(***************************************************************************)
(* Proofs about SpinLock for any set of CPUs and any finite set of locks:  *)
(* IInv is inductive, and the four safety properties and the refinement of *)
(* AbstractLock follow from it.                                            *)
(***************************************************************************)
EXTENDS SpinLock, FiniteSetTheorems, TLAPS

(* Most leaves take far less than a second; one that a busy machine interrupts is tried again. *)
USE SMTT(60), Z3T(60), SMTT(90), Z3T(90)

(* The guards a CPU holds are finitely many, and taking or dropping one
   changes their number by one. *)
LEMMA HeldCardinality ==
    ASSUME NEW S \in SUBSET Locks, NEW l \in Locks
    PROVE  /\ IsFiniteSet(S)
           /\ Cardinality(S) \in Nat
           /\ Cardinality(S) = 0 <=> S = {}
           /\ l \notin S => Cardinality(S \cup {l}) = Cardinality(S) + 1
           /\ l \in S => Cardinality(S \ {l}) = Cardinality(S) - 1
<1>1. IsFiniteSet(S)
  BY LockAssumption, FS_Subset, ZenonT(60)
<1> QED
  BY <1>1, FS_CardinalityType, FS_EmptySet, FS_AddElement, FS_RemoveElement, ZenonT(60)

(* The number of guards a CPU holds is a natural number. *)
LEMMA HeldNat ==
    ASSUME NEW S \in SUBSET Locks
    PROVE  Cardinality(S) \in Nat
  BY LockAssumption, FS_Subset, FS_CardinalityType, ZenonT(60)

(* An interrupt is taken only while no lock operation of the CPU is under way. *)
LEMMA InterruptedIdle ==
    ASSUME TypeOK, DepthCounts, InterruptState, NEW c \in CPUs, TakeInterrupt(c)
    PROVE  depth[c] = 0 /\ pc[c] \notin Busy
<1>1. depth[c] = 0
  BY DEF TakeInterrupt, InterruptState, TypeOK
<1>2. Cardinality(held[c]) \in Nat /\ offs[c] \in Nat
  BY HeldNat DEF TypeOK
<1>3. depth[c] = Cardinality(held[c]) + offs[c] + (IF pc[c] \in Busy THEN 1 ELSE 0)
  BY ZenonT(60) DEF DepthCounts
<1> QED
  BY <1>1, <1>2, <1>3

(* A context switch is made at depth 1. *)
LEMMA SwitchDepth ==
    ASSUME TypeOK, DepthCounts, NEW c \in CPUs, CanSwitch(c)
    PROVE  depth[c] = 1
<1>1. PICK l \in ProcessLocks : held[c] = {l}
  BY DEF CanSwitch
<1>2. Cardinality(held[c]) = 1
  BY <1>1, FS_Singleton, ZenonT(60)
<1>3. depth[c] = Cardinality(held[c]) + offs[c] + (IF pc[c] \in Busy THEN 1 ELSE 0)
  BY ZenonT(60) DEF DepthCounts
<1> QED
  BY <1>2, <1>3 DEF CanSwitch, Busy

(* The empty set has no members. *)
LEMMA EmptyCardinality == Cardinality({}) = 0
  BY FS_EmptySet

(* The invariant holds at boot, before any lock is taken. *)
LEMMA InitIInv == Init => IInv
<1> SUFFICES ASSUME Init PROVE IInv
  OBVIOUS
<1>1. TypeOK
  BY CpuAssumption DEF Init, TypeOK, PC, EmptyFrame, Frame, NoLock, Context, NewContext
<1>2. DepthCounts
  BY EmptyCardinality DEF Init, DepthCounts, Busy
<1>3. InterruptState /\ ContextState
  BY DEF Init, InterruptState, ContextState, EmptyFrame, NewContext
<1>4. LockState /\ MutualExclusion
  BY CpuAssumption DEF Init, LockState, MutualExclusion, Owns, Busy
<1> QED
  BY <1>1, <1>2, <1>3, <1>4 DEF IInv

(* Every step of lock, unlock, push_off and pop_off keeps the types. *)
LEMMA StepTypeOK ==
    TypeOK /\ DepthCounts /\ InterruptState /\ LockState /\ [Next]_vars => TypeOK'
<1> SUFFICES ASSUME TypeOK, DepthCounts, InterruptState, LockState, [Next]_vars
             PROVE  TypeOK'
  OBVIOUS
<1> USE DEF TypeOK, Goto, lockVars, intrVars, irqVars, switchVars
<1>1. ASSUME NEW c \in CPUs, NEW l \in Locks, LockBegin(c, l) PROVE TypeOK'
  BY <1>1 DEF LockBegin, PushRead, PC
<1>2. ASSUME NEW c \in CPUs, OffBegin(c) PROVE TypeOK'
  BY <1>2 DEF OffBegin, PushRead, PC
<1>3. ASSUME NEW c \in CPUs, Push(c) PROVE TypeOK'
  BY <1>3 DEF Push, PushOff, PC
<1>4. ASSUME NEW c \in CPUs, CheckLocked(c) PROVE TypeOK'
  BY <1>4 DEF CheckLocked, PC
<1>5. ASSUME NEW c \in CPUs, CheckCpuid(c) PROVE TypeOK'
  BY <1>5 DEF CheckCpuid, PC
<1>6. ASSUME NEW c \in CPUs, CompareExchange(c) PROVE TypeOK'
  BY <1>6, ZenonT(60) DEF CompareExchange, PC
<1>7. ASSUME NEW c \in CPUs, StoreCpuid(c) PROVE TypeOK'
  <2>1. lk[c] \in Locks
    BY <1>7 DEF StoreCpuid, LockState, Busy
  <2> QED
    BY <1>7, <2>1 DEF StoreCpuid, PC
<1>8. ASSUME NEW c \in CPUs, NEW l \in Locks, UnlockBegin(c, l) PROVE TypeOK'
  BY <1>8 DEF UnlockBegin, PC
<1>9. ASSUME NEW c \in CPUs, UnlockEnd(c) PROVE TypeOK'
  <2>1. Cardinality(held[c]) \in Nat
    BY HeldNat
  <2>2. depth[c] - 1 \in Nat
    BY <1>9, <2>1 DEF UnlockEnd, DepthCounts, Busy
  <2> QED
    BY <1>9, <2>2, ZenonT(60) DEF UnlockEnd, PopOff, PC
<1>10. ASSUME NEW c \in CPUs, OffEnd(c) PROVE TypeOK'
  <2>1. Cardinality(held[c]) \in Nat
    BY HeldNat
  <2>2. depth[c] - 1 \in Nat /\ offs[c] - 1 \in Nat
    BY <1>10, <2>1 DEF OffEnd, DepthCounts, Busy
  <2> QED
    BY <1>10, <2>2 DEF OffEnd, PopOff
<1>11. ASSUME NEW c \in CPUs, NEW on \in BOOLEAN, SetInterrupt(c, on) PROVE TypeOK'
  BY <1>11 DEF SetInterrupt
<1>12. ASSUME NEW c \in CPUs, TakeInterrupt(c) PROVE TypeOK'
  BY <1>12 DEF TakeInterrupt, Frame, PC
<1>13. ASSUME NEW c \in CPUs, ReturnFromInterrupt(c) PROVE TypeOK'
  BY <1>13 DEF ReturnFromInterrupt, Frame, PC, EmptyFrame
<1>14. ASSUME NEW c \in CPUs, SwitchOut(c) PROVE TypeOK'
  <2>1. thread[c] \in Threads
    BY <1>14 DEF SwitchOut
  <2>2. [new |-> FALSE, saved |-> saved[c], irq |-> irq[c], base |-> base[c],
         intena |-> before[c]] \in Context
    BY DEF Context
  <2>3. EmptyFrame \in Frame
    BY DEF EmptyFrame, Frame, PC
  <2> QED
    BY <1>14, <2>1, <2>2, <2>3 DEF SwitchOut
<1>15. ASSUME NEW c \in CPUs, NEW t \in Threads, Dispatch(c, t) PROVE TypeOK'
  <2>1. NewContext \in Context
    BY DEF NewContext, Context, EmptyFrame, Frame, PC
  <2>2. /\ context[t].saved \in Frame /\ context[t].irq \in BOOLEAN
        /\ context[t].base \in BOOLEAN /\ context[t].intena \in BOOLEAN
    BY DEF Context
  <2> QED
    BY <1>15, <2>1, <2>2 DEF Dispatch
<1>16. CASE UNCHANGED vars
  BY <1>16 DEF vars
<1> QED
  BY <1>1, <1>2, <1>3, <1>4, <1>5, <1>6, <1>7, <1>8, <1>9, <1>10, <1>11, <1>12,
     <1>13, <1>14, <1>15, <1>16, ZenonT(60) DEF Next, CpuStep

(* depth_of_disable counts the guards and the off sections of the CPU. *)
LEMMA StepDepthCounts ==
    TypeOK /\ DepthCounts /\ InterruptState /\ LockState /\ [Next]_vars
        => DepthCounts'
<1> SUFFICES ASSUME TypeOK, DepthCounts, InterruptState, LockState, [Next]_vars,
                    NEW d \in CPUs
             PROVE  depth'[d] = Cardinality(held'[d]) + offs'[d]
                                  + (IF pc'[d] \in Busy THEN 1 ELSE 0)
  BY DEF DepthCounts
<1> DEFINE Goal == depth'[d] = Cardinality(held'[d]) + offs'[d]
                                  + (IF pc'[d] \in Busy THEN 1 ELSE 0)
<1>0. /\ depth[d] = Cardinality(held[d]) + offs[d]
                      + (IF pc[d] \in Busy THEN 1 ELSE 0)
      /\ Cardinality(held[d]) \in Nat /\ offs[d] \in Nat /\ depth[d] \in Nat
  BY HeldNat DEF DepthCounts, TypeOK
<1> USE DEF Goto, lockVars, intrVars, irqVars, switchVars, Busy
<1>1. ASSUME NEW c \in CPUs, NEW l \in Locks, LockBegin(c, l) PROVE Goal
  BY <1>0, <1>1 DEF LockBegin, PushRead, TypeOK
<1>2. ASSUME NEW c \in CPUs, OffBegin(c) PROVE Goal
  BY <1>0, <1>2 DEF OffBegin, PushRead, TypeOK
<1>3. ASSUME NEW c \in CPUs, Push(c) PROVE Goal
  <2>1. CASE c # d
    BY <1>0, <1>3, <2>1 DEF Push, PushOff, TypeOK
  <2>2. CASE c = d /\ lk[c] = NoLock
    <3>1. offs'[d] = offs[d] + 1 /\ pc'[d] = "run" /\ pc[d] = "push"
      BY <1>3, <2>2 DEF Push, TypeOK
    <3> QED
      BY <1>0, <1>3, <2>2, <3>1 DEF Push, PushOff, TypeOK
  <2>3. CASE c = d /\ lk[c] # NoLock
    <3>1. offs'[d] = offs[d] /\ pc'[d] = "check" /\ pc[d] = "push"
      BY <1>3, <2>3 DEF Push, TypeOK
    <3> QED
      BY <1>0, <1>3, <2>3, <3>1 DEF Push, PushOff, TypeOK
  <2> QED
    BY <2>1, <2>2, <2>3
<1>4. ASSUME NEW c \in CPUs, CheckLocked(c) PROVE Goal
  BY <1>0, <1>4 DEF CheckLocked, TypeOK
<1>5. ASSUME NEW c \in CPUs, CheckCpuid(c) PROVE Goal
  BY <1>0, <1>5 DEF CheckCpuid, TypeOK
<1>6. ASSUME NEW c \in CPUs, CompareExchange(c) PROVE Goal
  BY <1>0, <1>6 DEF CompareExchange, TypeOK
<1>7. ASSUME NEW c \in CPUs, StoreCpuid(c) PROVE Goal
  <2>1. lk[c] \in Locks /\ lk[c] \notin held[c]
    BY <1>7 DEF StoreCpuid, LockState, TypeOK
  <2>2. Cardinality(held[c] \cup {lk[c]}) = Cardinality(held[c]) + 1
    BY <2>1, HeldCardinality DEF TypeOK
  <2> QED
    BY <1>0, <1>7, <2>2 DEF StoreCpuid, TypeOK
<1>8. ASSUME NEW c \in CPUs, NEW l \in Locks, UnlockBegin(c, l) PROVE Goal
  <2>1. Cardinality(held[c] \ {l}) = Cardinality(held[c]) - 1
    BY <1>8, HeldCardinality DEF TypeOK, UnlockBegin
  <2> QED
    BY <1>0, <1>8, <2>1 DEF UnlockBegin, TypeOK
<1>9. ASSUME NEW c \in CPUs, UnlockEnd(c) PROVE Goal
  BY <1>0, <1>9 DEF UnlockEnd, PopOff, TypeOK
<1>10. ASSUME NEW c \in CPUs, OffEnd(c) PROVE Goal
  BY <1>0, <1>10 DEF OffEnd, PopOff, TypeOK
<1>11. ASSUME NEW c \in CPUs, NEW on \in BOOLEAN, SetInterrupt(c, on) PROVE Goal
  BY <1>0, <1>11 DEF SetInterrupt, TypeOK
<1>12. ASSUME NEW c \in CPUs, TakeInterrupt(c) PROVE Goal
  <2>1. depth[c] = 0
    BY <1>12 DEF TakeInterrupt, InterruptState, TypeOK
  <2> QED
    BY <1>0, <1>12, <2>1 DEF TakeInterrupt, TypeOK
<1>13. ASSUME NEW c \in CPUs, ReturnFromInterrupt(c) PROVE Goal
  <2>1. saved[c].pc \in {"run", "push"}
    BY <1>13 DEF ReturnFromInterrupt, InterruptState
  <2> QED
    BY <1>0, <1>13, <2>1 DEF ReturnFromInterrupt, TypeOK
<1>14. ASSUME NEW c \in CPUs, SwitchOut(c) PROVE Goal
  BY <1>0, <1>14 DEF SwitchOut, TypeOK
<1>15. ASSUME NEW c \in CPUs, NEW t \in Threads, Dispatch(c, t) PROVE Goal
  BY <1>0, <1>15 DEF Dispatch, TypeOK
<1>16. CASE UNCHANGED vars
  BY <1>0, <1>16 DEF vars
<1> QED
  BY <1>1, <1>2, <1>3, <1>4, <1>5, <1>6, <1>7, <1>8, <1>9, <1>10, <1>11, <1>12,
     <1>13, <1>14, <1>15, <1>16 DEF Next, CpuStep

(* SIE, is_enabled_before and the interrupted frame agree with `base`. *)
LEMMA StepInterruptState ==
    TypeOK /\ DepthCounts /\ InterruptState /\ ContextState /\ [Next]_vars
        => InterruptState'
<1> DEFINE Good(d) == /\ depth[d] = 0 => enabled[d] = base[d]
                      /\ depth[d] > 0 => ~enabled[d] /\ before[d] = base[d]
                      /\ pc[d] = "push" => was[d] = enabled[d]
                      /\ irq[d] => /\ ~base[d]
                                   /\ saved[d].pc \in {"run", "push"}
                                   /\ saved[d].pc = "push" => saved[d].was
<1> SUFFICES ASSUME TypeOK, DepthCounts, InterruptState, ContextState, [Next]_vars,
                    NEW d \in CPUs
             PROVE  Good(d)'
  BY DEF InterruptState
<1>0. /\ depth[d] = 0 => enabled[d] = base[d]
      /\ depth[d] > 0 => ~enabled[d] /\ before[d] = base[d]
      /\ pc[d] = "push" => was[d] = enabled[d]
      /\ irq[d] => /\ ~base[d]
                   /\ saved[d].pc \in {"run", "push"}
                   /\ saved[d].pc = "push" => saved[d].was
  BY DEF InterruptState
<1> USE DEF Goto, lockVars, intrVars, irqVars, switchVars
<1>1. ASSUME NEW c \in CPUs, NEW l \in Locks, LockBegin(c, l) PROVE Good(d)'
  BY <1>0, <1>1 DEF LockBegin, PushRead, TypeOK
<1>2. ASSUME NEW c \in CPUs, OffBegin(c) PROVE Good(d)'
  BY <1>0, <1>2 DEF OffBegin, PushRead, TypeOK
<1>3. ASSUME NEW c \in CPUs, Push(c) PROVE Good(d)'
  <2>1. CASE c # d
    <3>1. pc'[d] = pc[d]
      BY <1>3, <2>1 DEF Push, TypeOK
    <3> QED
      BY <1>0, <1>3, <2>1, <3>1, ZenonT(60) DEF Push, PushOff, TypeOK
  <2>2. CASE c = d
    <3>1. pc'[d] # "push" /\ pc[d] = "push"
      BY <1>3, <2>2 DEF Push, TypeOK
    <3>2. depth'[d] > 0 /\ ~enabled'[d]
      BY <1>3, <2>2 DEF Push, PushOff, TypeOK
    <3>3. before'[d] = base'[d]
      BY <1>0, <1>3, <2>2 DEF Push, PushOff, TypeOK
    <3>4. irq'[d] = irq[d] /\ saved'[d] = saved[d] /\ base'[d] = base[d]
      BY <1>3, <2>2 DEF Push, TypeOK
    <3> QED
      BY <1>0, <3>1, <3>2, <3>3, <3>4
  <2> QED
    BY <2>1, <2>2
<1>4. ASSUME NEW c \in CPUs, CheckLocked(c) PROVE Good(d)'
  BY <1>0, <1>4 DEF CheckLocked, TypeOK
<1>5. ASSUME NEW c \in CPUs, CheckCpuid(c) PROVE Good(d)'
  BY <1>0, <1>5 DEF CheckCpuid, TypeOK
<1>6. ASSUME NEW c \in CPUs, CompareExchange(c) PROVE Good(d)'
  BY <1>0, <1>6 DEF CompareExchange, TypeOK
<1>7. ASSUME NEW c \in CPUs, StoreCpuid(c) PROVE Good(d)'
  BY <1>0, <1>7 DEF StoreCpuid, TypeOK
<1>8. ASSUME NEW c \in CPUs, NEW l \in Locks, UnlockBegin(c, l) PROVE Good(d)'
  BY <1>0, <1>8 DEF UnlockBegin, TypeOK
<1>9. ASSUME NEW c \in CPUs, UnlockEnd(c) PROVE Good(d)'
  <2>1. depth[c] > 0
    BY <1>9, HeldNat DEF UnlockEnd, DepthCounts, Busy, TypeOK
  <2> QED
    BY <1>0, <1>9, <2>1 DEF UnlockEnd, PopOff, TypeOK
<1>10. ASSUME NEW c \in CPUs, OffEnd(c) PROVE Good(d)'
  <2>1. depth[c] > 0 /\ pc[c] = "run"
    BY <1>10, HeldNat DEF OffEnd, DepthCounts, Busy, TypeOK
  <2> QED
    BY <1>0, <1>10, <2>1 DEF OffEnd, PopOff, TypeOK
<1>11. ASSUME NEW c \in CPUs, NEW on \in BOOLEAN, SetInterrupt(c, on) PROVE Good(d)'
  BY <1>0, <1>11 DEF SetInterrupt, TypeOK
<1>12. ASSUME NEW c \in CPUs, TakeInterrupt(c) PROVE Good(d)'
  <2>1. depth[c] = 0 /\ pc[c] \in {"run", "push"} /\ (pc[c] = "push" => was[c])
    <3>1. depth[c] = 0 /\ (pc[c] = "push" => was[c])
      BY <1>12 DEF TakeInterrupt, InterruptState, TypeOK
    <3>2. pc[c] \notin Busy
      BY <3>1, HeldNat DEF DepthCounts, TypeOK
    <3> QED
      BY <3>1, <3>2 DEF Busy, TypeOK, PC
  <2> QED
    BY <1>0, <1>12, <2>1, ZenonT(60) DEF TakeInterrupt, TypeOK
<1>13. ASSUME NEW c \in CPUs, ReturnFromInterrupt(c) PROVE Good(d)'
  <2>1. Cardinality(held[c]) = 0 /\ offs[c] = 0 /\ pc[c] \notin Busy
    BY <1>13, EmptyCardinality DEF ReturnFromInterrupt, Busy
  <2>2. depth[c] = 0
    BY <2>1 DEF DepthCounts
  <2>3. CASE c # d
    BY <1>0, <1>13, <2>3, ZenonT(60) DEF ReturnFromInterrupt, TypeOK
  <2>4. CASE c = d
    <3>1. ~irq'[d] /\ ~(depth'[d] > 0)
      BY <1>13, <2>2, <2>4 DEF ReturnFromInterrupt, TypeOK
    <3>2. pc'[d] = saved[d].pc /\ was'[d] = saved[d].was
      BY <1>13, <2>4 DEF ReturnFromInterrupt, TypeOK
    <3>3. saved[d].pc = "push" => saved[d].was = TRUE
      BY <1>0, <1>13, <2>4 DEF ReturnFromInterrupt, TypeOK, Frame
    <3>4. enabled'[d] = TRUE /\ base'[d] = TRUE
      BY <1>13, <2>4 DEF ReturnFromInterrupt, TypeOK
    <3> QED
      BY <3>1, <3>2, <3>3, <3>4, ZenonT(60)
  <2> QED
    BY <2>3, <2>4
<1>14. ASSUME NEW c \in CPUs, SwitchOut(c) PROVE Good(d)'
  <2>1. depth[c] = 1 /\ pc[c] = "run"
    BY <1>14, SwitchDepth, ZenonT(60) DEF SwitchOut, CanSwitch
  <2> QED
    BY <1>0, <1>14, <2>1 DEF SwitchOut, TypeOK
<1>15. ASSUME NEW c \in CPUs, NEW t \in Threads, Dispatch(c, t) PROVE Good(d)'
  <2>1. depth[c] = 1 /\ pc[c] = "run"
    BY <1>15, SwitchDepth, ZenonT(60) DEF Dispatch, CanSwitch
  <2>2. CASE c # d
    BY <1>0, <1>15, <2>2 DEF Dispatch, TypeOK
  <2>3. CASE c = d
    <3>1. depth'[d] = 1 /\ pc'[d] = "run" /\ enabled'[d] = enabled[d]
      BY <1>15, <2>1, <2>3 DEF Dispatch
    <3>2. before'[d] = base'[d]
      BY <1>15, <2>3 DEF Dispatch, TypeOK, ContextState
    <3>3. irq'[d] => /\ ~base'[d]
                     /\ saved'[d].pc \in {"run", "push"}
                     /\ saved'[d].pc = "push" => saved'[d].was
      <4>1. irq'[d] = context[t].irq /\ saved'[d] = context[t].saved
        BY <1>15, <2>3 DEF Dispatch, TypeOK
      <4>2. ~context[t].new => base'[d] = context[t].base
        BY <1>15, <2>3 DEF Dispatch, TypeOK
      <4> QED
        BY <4>1, <4>2, ZenonT(60) DEF ContextState
    <3> QED
      BY <1>0, <2>1, <2>3, <3>1, <3>2, <3>3
  <2> QED
    BY <2>2, <2>3
<1>16. CASE UNCHANGED vars
  BY <1>0, <1>16 DEF vars
<1> QED
  BY <1>1, <1>2, <1>3, <1>4, <1>5, <1>6, <1>7, <1>8, <1>9, <1>10, <1>11, <1>12,
     <1>13, <1>14, <1>15, <1>16, ZenonT(60) DEF Next, CpuStep

(* A switched-out thread's intena is its own interrupt state, and only a thread
   that was interrupted with SIE set resumes in a handler. *)
LEMMA StepContextState ==
    TypeOK /\ DepthCounts /\ InterruptState /\ ContextState /\ [Next]_vars
        => ContextState'
<1> SUFFICES ASSUME TypeOK, DepthCounts, InterruptState, ContextState, [Next]_vars
             PROVE  ContextState'
  OBVIOUS
<1>1. ASSUME NEW c \in CPUs, SwitchOut(c) PROVE ContextState'
  <2>1. depth[c] = 1 /\ thread[c] \in Threads
    BY <1>1, SwitchDepth, ZenonT(60) DEF SwitchOut, TypeOK
  <2>2. before[c] = base[c]
    BY <2>1 DEF InterruptState
  <2>3. irq[c] => /\ ~base[c]
                  /\ saved[c].pc \in {"run", "push"}
                  /\ saved[c].pc = "push" => saved[c].was
    BY DEF InterruptState
  <2> QED
    BY <1>1, <2>1, <2>2, <2>3 DEF SwitchOut, TypeOK, ContextState
<1>2. ASSUME NEW c \in CPUs, NEW t \in Threads, Dispatch(c, t) PROVE ContextState'
  BY <1>2 DEF Dispatch, TypeOK, ContextState, NewContext
<1>3. CASE UNCHANGED context
  BY <1>3, ZenonT(60) DEF ContextState
<1>4. ASSUME NEW c \in CPUs, CpuStep(c)
      PROVE  \/ SwitchOut(c) \/ \E t \in Threads : Dispatch(c, t)
             \/ UNCHANGED context
  BY <1>4, ZenonT(60) DEF CpuStep, LockBegin, OffBegin, PushRead, Push, CheckLocked, CheckCpuid,
     CompareExchange, StoreCpuid, UnlockBegin, UnlockEnd, OffEnd, SetInterrupt,
     TakeInterrupt, ReturnFromInterrupt, switchVars
<1>5. CASE UNCHANGED vars
  BY <1>3, <1>5 DEF vars
<1> QED
  BY <1>1, <1>2, <1>3, <1>4, <1>5, ZenonT(60) DEF Next

(* The owner of a lock has won its CAS; cpuid names the holder and no other. *)
LEMMA StepLockState ==
    TypeOK /\ DepthCounts /\ InterruptState /\ LockState /\ MutualExclusion
        /\ [Next]_vars => LockState' /\ MutualExclusion'
<1> SUFFICES ASSUME TypeOK, DepthCounts, InterruptState, LockState,
                    MutualExclusion, [Next]_vars
             PROVE  LockState' /\ MutualExclusion'
  OBVIOUS
<1> USE CpuAssumption, LockAssumption
    DEF Goto, lockVars, intrVars, irqVars, switchVars, LockState, MutualExclusion, Owns,
        Busy, NoLock
<1>1. ASSUME NEW c \in CPUs, NEW l \in Locks, LockBegin(c, l)
      PROVE  LockState' /\ MutualExclusion'
  <2>1. l \notin held[c]
    BY <1>1 DEF LockBegin
  <2> QED
    BY <1>1, <2>1 DEF LockBegin, PushRead, TypeOK
<1>2. ASSUME NEW c \in CPUs, OffBegin(c) PROVE LockState' /\ MutualExclusion'
  BY <1>2 DEF OffBegin, PushRead, TypeOK
<1>3. ASSUME NEW c \in CPUs, Push(c) PROVE LockState' /\ MutualExclusion'
  BY <1>3 DEF Push, TypeOK
<1>4. ASSUME NEW c \in CPUs, CheckLocked(c) PROVE LockState' /\ MutualExclusion'
  BY <1>4 DEF CheckLocked, TypeOK
<1>5. ASSUME NEW c \in CPUs, CheckCpuid(c) PROVE LockState' /\ MutualExclusion'
  BY <1>5 DEF CheckCpuid, TypeOK
<1>6. ASSUME NEW c \in CPUs, CompareExchange(c)
      PROVE  LockState' /\ MutualExclusion'
  BY <1>6 DEF CompareExchange, TypeOK
<1>7. ASSUME NEW c \in CPUs, StoreCpuid(c) PROVE LockState' /\ MutualExclusion'
  BY <1>7 DEF StoreCpuid, TypeOK
<1>8. ASSUME NEW c \in CPUs, NEW l \in Locks, UnlockBegin(c, l)
      PROVE  LockState' /\ MutualExclusion'
  BY <1>8 DEF UnlockBegin, TypeOK
<1>9. ASSUME NEW c \in CPUs, UnlockEnd(c) PROVE LockState' /\ MutualExclusion'
  BY <1>9 DEF UnlockEnd, TypeOK
<1>10. ASSUME NEW c \in CPUs, OffEnd(c) PROVE LockState' /\ MutualExclusion'
  BY <1>10 DEF OffEnd, TypeOK
<1>11. ASSUME NEW c \in CPUs, NEW on \in BOOLEAN, SetInterrupt(c, on)
       PROVE  LockState' /\ MutualExclusion'
  BY <1>11 DEF SetInterrupt, TypeOK
<1>12. ASSUME NEW c \in CPUs, TakeInterrupt(c)
       PROVE  LockState' /\ MutualExclusion'
  <2>1. depth[c] = 0 /\ pc[c] \notin Busy
    BY <1>12, InterruptedIdle, ZenonT(60)
  <2> QED
    BY <1>12, <2>1 DEF TakeInterrupt, TypeOK
<1>13. ASSUME NEW c \in CPUs, ReturnFromInterrupt(c)
       PROVE  LockState' /\ MutualExclusion'
  <2>1. saved[c].pc \in {"run", "push"} /\ held[c] = {}
    BY <1>13 DEF ReturnFromInterrupt, InterruptState
  <2> QED
    BY <1>13, <2>1 DEF ReturnFromInterrupt, TypeOK
<1>14. ASSUME NEW c \in CPUs, SwitchOut(c) PROVE LockState' /\ MutualExclusion'
  BY <1>14 DEF SwitchOut, TypeOK
<1>15. ASSUME NEW c \in CPUs, NEW t \in Threads, Dispatch(c, t)
       PROVE  LockState' /\ MutualExclusion'
  BY <1>15 DEF Dispatch, TypeOK
<1>16. CASE UNCHANGED vars
  BY <1>16 DEF vars
<1> QED
  BY <1>1, <1>2, <1>3, <1>4, <1>5, <1>6, <1>7, <1>8, <1>9, <1>10, <1>11, <1>12,
     <1>13, <1>14, <1>15, <1>16, ZenonT(60) DEF Next, CpuStep

(* IInv is an invariant of the lock and interrupt code. *)
THEOREM Inductive == Spec => []IInv
<1>1. IInv /\ [Next]_vars => IInv'
  BY StepTypeOK, StepDepthCounts, StepInterruptState, StepContextState, StepLockState
     DEF IInv
<1> QED
  BY InitIInv, <1>1, PTL DEF Spec

(* At most one CPU is inside the critical section of a SpinLock, for any
   number of CPUs and locks: compare_exchange and the store of `locked` suffice
   although cpuid is written by separate stores. *)
THEOREM Exclusion == Spec => []MutualExclusion
<1>1. IInv => MutualExclusion
  BY DEF IInv
<1> QED
  BY Inductive, <1>1, PTL

(* The assertions in lock(), unlock_raw() and return_to_scheduler() never fire. *)
THEOREM Assertions == Spec => []AssertionsHold
<1>1. IInv => AssertionsHold
  <2> SUFFICES ASSUME IInv, NEW c \in CPUs
               PROVE  /\ pc[c] = "check2" => cpuid[lk[c]] # c
                      /\ \A l \in held[c] : locked[l] /\ cpuid[l] = c
                      /\ CanSwitch(c) => ~enabled[c] /\ depth[c] = 1
    BY DEF AssertionsHold
  <2>1. /\ pc[c] = "check2" => cpuid[lk[c]] # c
        /\ \A l \in held[c] : locked[l] /\ cpuid[l] = c
    BY DEF IInv, TypeOK, LockState, Owns, Busy
  <2>2. CanSwitch(c) => depth[c] = 1
    BY SwitchDepth, ZenonT(60) DEF IInv
  <2>3. depth[c] = 1 => ~enabled[c]
    BY DEF IInv, InterruptState
  <2> QED
    BY <2>1, <2>2, <2>3
<1> QED
  BY Inductive, <1>1, PTL

(* Interrupts stay off from push_off to the matching pop_off. *)
THEOREM NoInterrupt == Spec => []NoInterruptInCriticalSection
<1>1. IInv => NoInterruptInCriticalSection
  <2> SUFFICES ASSUME IInv, NEW c \in CPUs, enabled[c]
               PROVE  held[c] = {} /\ offs[c] = 0 /\ pc[c] \in {"run", "push"}
    BY DEF NoInterruptInCriticalSection
  <2>1. depth[c] = 0
    BY DEF IInv, TypeOK, InterruptState
  <2>2. Cardinality(held[c]) = 0 /\ offs[c] = 0 /\ pc[c] \notin Busy
    BY <2>1, HeldNat DEF IInv, TypeOK, DepthCounts
  <2>3. held[c] = {}
    BY <2>2, LockAssumption, FS_Subset, FS_EmptySet DEF IInv, TypeOK
  <2> QED
    BY <2>2, <2>3 DEF IInv, TypeOK, PC, Busy
<1> QED
  BY Inductive, <1>1, PTL

(* The outermost pop_off of a kernel thread restores its interrupt state, also when
   the thread was switched out in between and goes on on another CPU. *)
THEOREM Restored == Spec => []InterruptsRestored
<1>1. IInv => InterruptsRestored
  <2> SUFFICES ASSUME IInv, NEW c \in CPUs, pc[c] = "run",
                      held[c] = {}, offs[c] = 0
               PROVE  enabled[c] = base[c]
    BY DEF InterruptsRestored
  <2>1. Cardinality(held[c]) = 0
    BY EmptyCardinality
  <2>2. depth[c] = 0
    BY <2>1 DEF IInv, DepthCounts, Busy
  <2> QED
    BY <2>2 DEF IInv, InterruptState
<1> QED
  BY Inductive, <1>1, PTL

(* Under mutual exclusion, Owner names the one CPU that owns a lock. *)
OwnerExact ==
    /\ Owner = [l \in Locks |-> Owner[l]]
    /\ \A l \in Locks : /\ Owner[l] \in CPUs \cup {NoCpu}
                        /\ \A c \in CPUs : Owner[l] = c <=> Owns(c, l)

(* The CHOOSE of the refinement mapping picks the only candidate. *)
LEMMA OwnerIsExact == MutualExclusion => OwnerExact
<1> SUFFICES ASSUME MutualExclusion PROVE OwnerExact
  OBVIOUS
<1>1. Owner = [l \in Locks |-> Owner[l]]
  BY DEF Owner
<1>2. ASSUME NEW l \in Locks
      PROVE  /\ Owner[l] \in CPUs \cup {NoCpu}
             /\ \A c \in CPUs : Owner[l] = c <=> Owns(c, l)
  <2>1. CASE \E c \in CPUs : Owns(c, l)
    <3>1. Owner[l] = CHOOSE c \in CPUs : Owns(c, l)
      BY <2>1 DEF Owner
    <3>2. Owner[l] \in CPUs /\ Owns(Owner[l], l)
      BY <2>1, <3>1, ZenonT(60)
    <3> QED
      BY <3>2, ZenonT(60) DEF MutualExclusion
  <2>2. CASE ~\E c \in CPUs : Owns(c, l)
    <3>1. Owner[l] = NoCpu
      BY <2>2 DEF Owner
    <3> QED
      BY <2>2, <3>1, CpuAssumption, ZenonT(60)
  <2> QED
    BY <2>1, <2>2
<1> QED
  BY <1>1, <1>2 DEF OwnerExact

(* The same in the state after a step. *)
LEMMA OwnerIsExactNext == MutualExclusion' => OwnerExact'
  BY OwnerIsExact, PTL

(* A step that changes nobody's ownership does not change the abstract lock. *)
LEMMA SameOwners ==
    ASSUME OwnerExact, OwnerExact',
           \A c \in CPUs, l \in Locks : Owns(c, l)' <=> Owns(c, l)
    PROVE  Owner' = Owner
<1>1. ASSUME NEW l \in Locks PROVE Owner'[l] = Owner[l]
  BY CpuAssumption, ZenonT(60) DEF OwnerExact
<1>2. Owner = [l \in Locks |-> Owner[l]] /\ Owner' = [l \in Locks |-> Owner'[l]]
  BY DEF OwnerExact
<1> QED
  BY <1>1, <1>2, ZenonT(60)

(* The abstract acquisition: a lock nobody owned gets one owner. *)
LEMMA Acquired ==
    ASSUME OwnerExact, OwnerExact', NEW c \in CPUs, NEW l \in Locks,
           \A d \in CPUs : ~Owns(d, l),
           \A d \in CPUs, m \in Locks :
               Owns(d, m)' <=> (Owns(d, m) \/ (d = c /\ m = l))
    PROVE  Abstract!Next
<1>1. Owner[l] = NoCpu /\ Owner'[l] = c
  BY ZenonT(60) DEF OwnerExact
<1>2. \A m \in Locks : m # l => Owner'[m] = Owner[m]
  BY CpuAssumption, ZenonT(60) DEF OwnerExact
<1>3. Owner = [m \in Locks |-> Owner[m]] /\ Owner' = [m \in Locks |-> Owner'[m]]
  BY DEF OwnerExact
<1>4. Owner' = [Owner EXCEPT ![l] = c]
  BY <1>1, <1>2, <1>3
<1>5. Abstract!Acquire(c, l)
  BY <1>1, <1>4 DEF Abstract!Acquire
<1> QED
  BY <1>5, ZenonT(60) DEF Abstract!Next

(* The abstract release: the owner gives the lock up, and nobody else owns it. *)
LEMMA Released ==
    ASSUME OwnerExact, OwnerExact', NEW c \in CPUs, NEW l \in Locks, Owns(c, l),
           \A d \in CPUs, m \in Locks :
               Owns(d, m)' <=> (Owns(d, m) /\ ~(d = c /\ m = l))
    PROVE  Abstract!Next
<1>1. Owner[l] = c
  BY ZenonT(60) DEF OwnerExact
<1>2. \A d \in CPUs : ~Owns(d, l)'
  BY <1>1, ZenonT(60) DEF OwnerExact
<1>3. Owner'[l] = NoCpu
  BY <1>2, ZenonT(60) DEF OwnerExact
<1>4. \A m \in Locks : m # l => Owner'[m] = Owner[m]
  BY CpuAssumption, ZenonT(60) DEF OwnerExact
<1>5. Owner = [m \in Locks |-> Owner[m]] /\ Owner' = [m \in Locks |-> Owner'[m]]
  BY DEF OwnerExact
<1>6. Owner' = [Owner EXCEPT ![l] = NoCpu]
  BY <1>3, <1>4, <1>5
<1>7. Abstract!Release(c, l)
  BY <1>1, <1>6 DEF Abstract!Release
<1> QED
  BY <1>7, ZenonT(60) DEF Abstract!Next

(* At boot every lock is free. *)
LEMMA InitRefines == Init => Abstract!Init
  BY CpuAssumption DEF Init, Abstract!Init, Owner, Owns

(* The successful compare_exchange is the abstract acquisition, the store of
   `locked` the abstract release, and every other instruction, cpuid and
   interrupt bookkeeping included, leaves the abstract lock alone. *)
LEMMA StepRefines == IInv /\ IInv' /\ [Next]_vars => [Abstract!Next]_Owner
<1> SUFFICES ASSUME IInv, IInv', [Next]_vars PROVE Abstract!Next \/ Owner' = Owner
  OBVIOUS
<1> DEFINE Refined == Abstract!Next \/ Owner' = Owner
           Same == \A d \in CPUs, m \in Locks : Owns(d, m)' <=> Owns(d, m)
<1>a. OwnerExact /\ OwnerExact'
  BY OwnerIsExact, OwnerIsExactNext DEF IInv
<1>b. Same => Refined
  BY <1>a, SameOwners, ZenonT(60)
<1>c. TypeOK /\ DepthCounts /\ LockState /\ InterruptState
  BY DEF IInv
<1> HIDE DEF Refined
<1> USE <1>c DEF Goto, lockVars, intrVars, irqVars, switchVars, Busy
<1>1. ASSUME NEW c \in CPUs, NEW l \in Locks, LockBegin(c, l) PROVE Refined
  <2>1. Same
    BY <1>1 DEF LockBegin, PushRead, TypeOK, Owns
  <2> QED
    BY <1>b, <2>1
<1>2. ASSUME NEW c \in CPUs, OffBegin(c) PROVE Refined
  <2>1. Same
    BY <1>2 DEF OffBegin, PushRead, TypeOK, Owns
  <2> QED
    BY <1>b, <2>1
<1>3. ASSUME NEW c \in CPUs, Push(c) PROVE Refined
  <2>1. Same
    BY <1>3 DEF Push, TypeOK, Owns
  <2> QED
    BY <1>b, <2>1
<1>4. ASSUME NEW c \in CPUs, CheckLocked(c) PROVE Refined
  <2>1. Same
    BY <1>4 DEF CheckLocked, TypeOK, Owns
  <2> QED
    BY <1>b, <2>1
<1>5. ASSUME NEW c \in CPUs, CheckCpuid(c) PROVE Refined
  <2>1. Same
    BY <1>5 DEF CheckCpuid, TypeOK, Owns
  <2> QED
    BY <1>b, <2>1
<1>6. ASSUME NEW c \in CPUs, CompareExchange(c) PROVE Refined
  <2>1. lk[c] \in Locks /\ \A d \in CPUs : ~Owns(d, lk[c])
    BY <1>6 DEF CompareExchange, LockState, TypeOK, Owns
  <2>2. \A d \in CPUs, m \in Locks :
          Owns(d, m)' <=> (Owns(d, m) \/ (d = c /\ m = lk[c]))
    BY <1>6 DEF CompareExchange, TypeOK, Owns
  <2>3. Abstract!Next
    BY <1>a, <2>1, <2>2, Acquired, ZenonT(60)
  <2> QED
    BY <2>3 DEF Refined
<1>7. ASSUME NEW c \in CPUs, StoreCpuid(c) PROVE Refined
  <2>1. Same
    BY <1>7 DEF StoreCpuid, TypeOK, LockState, Owns
  <2> QED
    BY <1>b, <2>1
<1>8. ASSUME NEW c \in CPUs, NEW l \in Locks, UnlockBegin(c, l) PROVE Refined
  <2>1. Same
    BY <1>8 DEF UnlockBegin, TypeOK, Owns
  <2> QED
    BY <1>b, <2>1
<1>9. ASSUME NEW c \in CPUs, UnlockEnd(c) PROVE Refined
  <2>1. lk[c] \in Locks /\ Owns(c, lk[c])
    BY <1>9 DEF UnlockEnd, LockState, TypeOK, Owns
  <2>2. \A d \in CPUs, m \in Locks :
          Owns(d, m)' <=> (Owns(d, m) /\ ~(d = c /\ m = lk[c]))
    BY <1>9 DEF UnlockEnd, TypeOK, LockState, Owns
  <2>3. Abstract!Next
    BY <1>a, <2>1, <2>2, Released, ZenonT(60)
  <2> QED
    BY <2>3 DEF Refined
<1>10. ASSUME NEW c \in CPUs, OffEnd(c) PROVE Refined
  <2>1. Same
    BY <1>10 DEF OffEnd, TypeOK, Owns
  <2> QED
    BY <1>b, <2>1
<1>11. ASSUME NEW c \in CPUs, NEW on \in BOOLEAN, SetInterrupt(c, on) PROVE Refined
  <2>1. Same
    BY <1>11 DEF SetInterrupt, TypeOK, Owns
  <2> QED
    BY <1>b, <2>1
<1>12. ASSUME NEW c \in CPUs, TakeInterrupt(c) PROVE Refined
  <2>1. pc[c] \notin Busy
    BY <1>c, <1>12, InterruptedIdle, ZenonT(60)
  <2>2. Same
    BY <1>12, <2>1 DEF TakeInterrupt, TypeOK, Owns
  <2> QED
    BY <1>b, <2>2
<1>13. ASSUME NEW c \in CPUs, ReturnFromInterrupt(c) PROVE Refined
  <2>1. saved[c].pc \in {"run", "push"}
    BY <1>13 DEF ReturnFromInterrupt, InterruptState
  <2>2. Same
    BY <1>13, <2>1 DEF ReturnFromInterrupt, TypeOK, Owns
  <2> QED
    BY <1>b, <2>2
<1>14. ASSUME NEW c \in CPUs, SwitchOut(c) PROVE Refined
  <2>1. Same
    BY <1>14 DEF SwitchOut, Owns
  <2> QED
    BY <1>b, <2>1
<1>15. ASSUME NEW c \in CPUs, NEW t \in Threads, Dispatch(c, t) PROVE Refined
  <2>1. Same
    BY <1>15 DEF Dispatch, Owns
  <2> QED
    BY <1>b, <2>1
<1>16. ASSUME UNCHANGED vars PROVE Refined
  <2>1. Same
    BY <1>16 DEF vars, Owns
  <2> QED
    BY <1>b, <2>1
<1>17. Refined
  BY <1>1, <1>2, <1>3, <1>4, <1>5, <1>6, <1>7, <1>8, <1>9, <1>10, <1>11, <1>12,
     <1>13, <1>14, <1>15, <1>16, ZenonT(60) DEF Next, CpuStep
<1> QED
  BY <1>17 DEF Refined

(* The lock built from compare_exchange, a separate cpuid word and two stores
   is an atomic lock with one owner, for any number of CPUs and locks. *)
THEOREM Refinement == Spec => ImplementsAbstractLock
<1>1. IInv /\ IInv' /\ [Next]_vars => [Abstract!Next]_Owner
  BY StepRefines
<1> QED
  BY Inductive, InitRefines, <1>1, PTL
     DEF Spec, ImplementsAbstractLock, Abstract!Spec
=============================================================================
