----------------------------- MODULE LogProofs ------------------------------
(***************************************************************************)
(* The theorems about the redo log.  LogSteps has what each step keeps;    *)
(* this module adds what is counted: the operations that are open, and     *)
(* the blocks that they may still write.                                   *)
(***************************************************************************)
EXTENDS LogSteps, FiniteSetTheorems

(* Most leaves take far less than a second; one that a busy machine interrupts is tried again. *)
USE SMTT(60), Z3T(60), SMTT(90), Z3T(90)
-----------------------------------------------------------------------------
(* Counting *)

(* The two sets that Log.outstanding counts are finite. *)
LEMMA InsideFinite ==
    /\ IsFiniteSet(Inside) /\ IsFiniteSet(Nested)
    /\ Cardinality(Inside) \in Nat /\ Cardinality(Nested) \in Nat
    /\ Cardinality(Inside) = 0 <=> Inside = {}
    /\ Cardinality(Nested) = 0 <=> Nested = {}
  <1>1. Inside \subseteq Procs /\ Nested \subseteq Procs
    BY DEF Inside, Nested
  <1> QED
    BY <1>1, ProcAssumption, FS_Subset, FS_CardinalityType, FS_EmptySet

(* Log::end learns from the count whether an operation is open, and whether its own is
   the last one. *)
LEMMA CountTells == Counted => CountMeans
  <1> SUFFICES ASSUME Counted PROVE CountMeans
    OBVIOUS
  <1>1. outstanding = 0 <=> Inside = {}
    <2>1. Nested \subseteq Inside
      BY DEF Nested, Inside
    <2> QED
      BY <2>1, InsideFinite DEF Counted
  <1>2. ASSUME outstanding = 1, NEW p \in Inside PROVE Inside = {p} /\ Nested = {}
    <2>1. Cardinality(Inside) # 0
      BY <1>2, InsideFinite
    <2>2. Cardinality(Inside) = 1 /\ Cardinality(Nested) = 0
      BY <1>2, <2>1, InsideFinite DEF Counted
    <2>3. PICK q : Inside = {q}
      BY <2>2, InsideFinite, FS_Singleton
    <2> QED
      BY <1>2, <2>2, <2>3, InsideFinite
  <1> QED
    BY <1>1, <1>2 DEF CountMeans

(* The same after a step. *)
LEMMA CountTellsNext == Counted' => CountMeans'
  BY CountTells, PTL

(* A process that opens an operation, or ends one, changes the count by one. *)
LEMMA Enters ==
    ASSUME Types, Counted,
           NEW p \in Procs, depth[p] < 2, depth' = [depth EXCEPT ![p] = @ + 1]
    PROVE  Cardinality(Inside') + Cardinality(Nested') = outstanding + 1
  <1>1. CASE depth[p] = 0
    <2>1. Inside' = Inside \cup {p} /\ p \notin Inside /\ Nested' = Nested
      BY <1>1 DEF Inside, Nested, Types, OpTypes
    <2>2. Cardinality(Inside') = Cardinality(Inside) + 1
      BY <2>1, InsideFinite, FS_AddElement, ZenonT(60)
    <2> QED
      BY <2>1, <2>2, InsideFinite DEF Counted
  <1>2. CASE depth[p] = 1
    <2>1. Nested' = Nested \cup {p} /\ p \notin Nested /\ Inside' = Inside
      BY <1>2 DEF Inside, Nested, Types, OpTypes
    <2>2. Cardinality(Nested') = Cardinality(Nested) + 1
      BY <2>1, InsideFinite, FS_AddElement, ZenonT(60)
    <2> QED
      BY <2>1, <2>2, InsideFinite DEF Counted
  <1> QED
    BY <1>1, <1>2 DEF Types, OpTypes

(* Log::end: the count goes down by one. *)
LEMMA Leaves ==
    ASSUME Types, Counted,
           NEW p \in Procs, depth[p] > 0, depth' = [depth EXCEPT ![p] = @ - 1]
    PROVE  Cardinality(Inside') + Cardinality(Nested') = outstanding - 1
  <1>1. CASE depth[p] = 1
    <2>1. Inside' = Inside \ {p} /\ p \in Inside /\ Nested' = Nested
      BY <1>1 DEF Inside, Nested, Types, OpTypes
    <2>2. Cardinality(Inside') = Cardinality(Inside) - 1
      BY <2>1, InsideFinite, FS_RemoveElement, ZenonT(60)
    <2> QED
      BY <2>1, <2>2, InsideFinite DEF Counted
  <1>2. CASE depth[p] = 2
    <2>1. Nested' = Nested \ {p} /\ p \in Nested /\ Inside' = Inside
      BY <1>2 DEF Inside, Nested, Types, OpTypes
    <2>2. Cardinality(Nested') = Cardinality(Nested) - 1
      BY <2>1, InsideFinite, FS_RemoveElement, ZenonT(60)
    <2> QED
      BY <2>1, <2>2, InsideFinite DEF Counted
  <1> QED
    BY <1>1, <1>2 DEF Types, OpTypes

(* Only log::with and a crash change the count, and they keep it exact. *)
LEMMA StepCounted == LInv /\ Counted /\ [Next]_vars => Counted'
  <1> SUFFICES ASSUME LInv, Counted, [Next]_vars PROVE Counted'
    OBVIOUS
  <1>1. Types /\ Operations /\ outstanding \in Nat
    BY DEF LInv, Types, OpTypes
  <1>2. ASSUME UNCHANGED <<depth, outstanding>> PROVE Counted'
    BY <1>2 DEF Counted, Inside, Nested
  <1>3. ASSUME NEW p \in Procs, Start(p) PROVE Counted'
    <2>1. depth[p] < 2
      BY <1>1, <1>3 DEF Start, Operations, Types, OpTypes
    <2>2. depth' = [depth EXCEPT ![p] = @ + 1] /\ outstanding' = outstanding + 1
      BY <1>3 DEF Start
    <2>3. Cardinality(Inside') + Cardinality(Nested') = outstanding + 1
      BY <1>1, <2>1, <2>2, Enters, ZenonT(60)
    <2> QED
      BY <2>2, <2>3 DEF Counted
  <1>4. ASSUME NEW p \in Procs, End(p) \/ EndLast(p) PROVE Counted'
    <2>1. depth[p] > 0
      BY <1>1, <1>4 DEF End, EndLast, Operations
    <2>2. depth' = [depth EXCEPT ![p] = @ - 1] /\ outstanding' = outstanding - 1
      BY <1>1, <1>4 DEF End, EndLast
    <2>3. Cardinality(Inside') + Cardinality(Nested') = outstanding - 1
      BY <1>1, <2>1, <2>2, Leaves, ZenonT(60)
    <2> QED
      BY <2>2, <2>3 DEF Counted
  <1>5. CASE Crash
    <2>1. Inside' = {} /\ Nested' = {} /\ outstanding' = 0
      BY <1>5 DEF Crash, Inside, Nested
    <2> QED
      BY <2>1, FS_EmptySet DEF Counted
  <1>6. ASSUME NEW p \in Procs, Call(p) \/ Op(p) PROVE Counted'
    <2>1. ASSUME Call(p) \/ Nest(p) \/ StartSleep(p) \/ Panic(p) PROVE Counted'
      BY <1>2, <2>1 DEF Call, Nest, StartSleep, Panic
    <2>2. ASSUME NEW b \in Blocks, NEW v \in Vals, Write(p, b, v) PROVE Counted'
      BY <1>2, <2>2 DEF Write
    <2> QED
      BY <1>3, <1>4, <1>6, <2>1, <2>2, ZenonT(60) DEF Op
  <1>7. CASE LogStep
    BY <1>2, <1>7 DEF LogStep, WriteLog, WriteHeader, Install, Clear, ReadHeader, ops
  <1>8. CASE UNCHANGED vars
    BY <1>2, <1>8 DEF vars, ops
  <1> QED
    BY <1>5, <1>6, <1>7, <1>8, ZenonT(60) DEF Next

(* At boot no operation is open. *)
LEMMA InitCounted == Init => Counted
  <1> SUFFICES ASSUME Init PROVE Counted
    OBVIOUS
  <1>1. Inside = {} /\ Nested = {} /\ outstanding = 0
    BY DEF Init, Inside, Nested
  <1> QED
    BY <1>1, FS_EmptySet DEF Counted

(* The invariant is inductive. *)
LEMMA StepInv == LInv /\ Counted /\ [Next]_vars => LInv' /\ Counted'
  <1> SUFFICES ASSUME LInv, Counted, [Next]_vars PROVE LInv' /\ Counted'
    OBVIOUS
  <1>1. Counted'
    BY StepCounted
  <1>2. CountMeans
    BY CountTells
  <1>3. CountMeans'
    BY <1>1, CountTellsNext
  <1> QED
    BY <1>1, <1>2, <1>3, NextInv

(* The invariant behind the other theorems. *)
THEOREM Inductive == Spec => [](LInv /\ Counted)
  BY InitInv, InitCounted, StepInv, PTL DEF Spec

(* log.rs: however operations, group commits, crashes and recoveries interleave, with
   any number of processes and blocks, the log implements an atomic disk, and does so
   whichever unpinned buffers are recycled. *)
THEOREM Refinement == Spec => ImplementsAtomicDisk
  <1>1. Spec => Abstract!Spec
    BY Inductive, InitRefines, StepRefines, PTL DEF Spec, Abstract!Spec
  <1>2. Spec => [](up => Cached = buf)
    BY Inductive, CachedIsBuf, PTL
  <1> QED
    BY <1>1, <1>2, PTL DEF ImplementsAtomicDisk

(* Once nobody is inside log::with, all that was written is on the disk. *)
THEOREM Durability == Spec => []DurableOnReturn
  BY Inductive, Returned, PTL
-----------------------------------------------------------------------------
(* The reservation *)

(* The open operations reserve MAXOPBLOCKS each: Log.outstanding times that many. *)
Reserved ==
    /\ IsFiniteSet(Outlook) /\ Cardinality(Outlook) \in Nat
    /\ Cardinality(Outlook) <= outstanding * MaxOpBlocks

(* A ticket of the first or of the second operation covers every call to come. *)
LEMMA Tickets == Types /\ Calls /\ Counted => Reserved
  <1> SUFFICES ASSUME Types, Calls, Counted PROVE Reserved
    OBVIOUS
  <1> DEFINE I == 1..MaxOpBlocks
             J == (MaxOpBlocks + 1)..(MaxOpBlocks + MaxOpBlocks)
             A == Inside \X I
             B == Nested \X J
  <1>0. MaxOpBlocks \in Nat
    BY SizeAssumption
  <1> USE <1>0
  <1>1. /\ IsFiniteSet(I) /\ Cardinality(I) = MaxOpBlocks
        /\ IsFiniteSet(J) /\ Cardinality(J) = MaxOpBlocks
    BY FS_Interval
  <1>2. IsFiniteSet(A) /\ Cardinality(A) = Cardinality(Inside) * MaxOpBlocks
    <2> HIDE DEF I
    <2> QED
      BY <1>1, InsideFinite, FS_Product, ZenonT(60)
  <1>3. IsFiniteSet(B) /\ Cardinality(B) = Cardinality(Nested) * MaxOpBlocks
    <2> HIDE DEF J
    <2> QED
      BY <1>1, InsideFinite, FS_Product, ZenonT(60)
  <1>4. A \cap B = {}
    OBVIOUS
  <1>5. Cardinality(A \cap B) = 0
    BY <1>4, FS_EmptySet, ZenonT(60)
  <1>6. Outlook \subseteq A \cup B
    <2> SUFFICES ASSUME NEW p \in Procs, NEW k \in 1..Remaining(p)
                 PROVE  <<p, k>> \in A \cup B
      <3> HIDE DEF A, B
      <3> QED
        BY InOutlook
    <2>1. Remaining(p) \in Nat /\ k \in Nat /\ k >= 1
      BY RemainingBound DEF Bounded
    <2>2. k <= depth[p] * MaxOpBlocks /\ depth[p] # 0
      <3>1. Remaining(p) <= depth[p] * MaxOpBlocks /\ (depth[p] = 0 => Remaining(p) = 0)
        BY RemainingBound DEF Bounded
      <3>2. depth[p] \in Nat
        BY DEF Types, OpTypes
      <3>3. depth[p] * MaxOpBlocks \in Nat
        BY <3>2
      <3> QED
        BY <2>1, <3>1, <3>3
    <2> USE <2>2
    <2>3. CASE depth[p] = 1
      <3>1. k \in 1..MaxOpBlocks /\ p \in Inside
        BY <2>3 DEF Inside
      <3> QED
        BY <3>1
    <2>4. CASE depth[p] = 2
      <3> USE <2>4
      <3>1. k <= MaxOpBlocks + MaxOpBlocks
        OBVIOUS
      <3>2. p \in Inside /\ p \in Nested
        BY DEF Inside, Nested
      <3> QED
        BY <3>1, <3>2
    <2> QED
      BY <2>3, <2>4 DEF Types, OpTypes
  <1> HIDE DEF A, B
  <1>7. IsFiniteSet(A \cup B) /\ Cardinality(A \cup B) = Cardinality(A) + Cardinality(B) - 0
    BY <1>2, <1>3, <1>5, FS_Union
  <1>8. /\ IsFiniteSet(Outlook) /\ Cardinality(Outlook) \in Nat
        /\ Cardinality(Outlook) <= Cardinality(A \cup B)
    BY <1>6, <1>7, FS_Subset, FS_CardinalityType
  <1>9. outstanding * MaxOpBlocks
          = Cardinality(Inside) * MaxOpBlocks + Cardinality(Nested) * MaxOpBlocks
    BY InsideFinite DEF Counted
  <1> QED
    BY <1>2, <1>3, <1>7, <1>8, <1>9, InsideFinite DEF Reserved

(* The same after a step. *)
LEMMA TicketsNext == Types' /\ Calls' /\ Counted' => Reserved'
  BY Tickets, PTL

(* The product of two sizes is a size. *)
LEMMA Product ==
    ASSUME NEW m \in Nat, NEW n \in Nat
    PROVE  m * n \in Nat
  OBVIOUS

(* When Log::write panics the log on the disk is full, and the header's array is not. *)
DiskFull == NLog - 1 <= Len(header) /\ Len(header) < LogSize

(* A call that is yet to come has a ticket, so there is room for it in the header; and
   then it is the log on the disk that makes Log::write panic. *)
LEMMA PanicFull ==
    ASSUME LInv, Calls, Reserved, Len(header) + Cardinality(Outlook) <= LogSize,
           NEW p \in Procs, Panic(p)
    PROVE  DiskFull
  <1>1. Remaining(p) > 0 /\ ~Fits
    BY DEF Panic
  <1>2. Remaining(p) \in Nat
    BY RemainingBound DEF LInv, Bounded
  <1>3. 1 \in 1..Remaining(p)
    BY <1>1, <1>2
  <1>4. <<p, 1>> \in Outlook
    BY <1>3, InOutlook, ZenonT(60)
  <1>5. Cardinality(Outlook) # 0 /\ Cardinality(Outlook) \in Nat
    BY <1>4, FS_EmptySet DEF Reserved
  <1>6. Len(header) \in Nat /\ LogSize \in Nat /\ NLog \in Nat
    BY SizeAssumption DEF LInv, Types, HeaderTypes
  <1> QED
    BY <1>1, <1>5, <1>6 DEF DiskFull, Fits

(* Every other step of a process that is not in a panic leaves it so. *)
LEMMA StepStopped ==
    ASSUME LInv, NEW p \in Procs, Call(p) \/ Op(p), ~Panic(p), ~Stopped
    PROVE  ~Stopped'
  <1>1. at \in [Procs -> Points]
    BY DEF LInv, Types, OpTypes
  <1>2. CASE Call(p) \/ Nest(p) \/ StartSleep(p) \/ Start(p) \/ EndLast(p)
    <2>1. \E pt \in Points \ {"panic"} : at' = [at EXCEPT ![p] = pt]
      BY <1>2 DEF Call, Nest, StartSleep, Start, EndLast, Points
    <2> QED
      BY <1>1, <2>1 DEF Stopped
  <1>3. CASE End(p)
    BY <1>1, <1>3 DEF End, Woken, Stopped
  <1>4. CASE \E b \in Blocks, v \in Vals : Write(p, b, v)
    <2>1. at' = at
      BY <1>4 DEF Write
    <2> QED
      BY <2>1 DEF Stopped
  <1> QED
    BY <1>2, <1>3, <1>4, ZenonT(60) DEF Op

(* A panic happens with an operation open, and then neither a commit nor a recovery runs. *)
LEMMA StoppedResting == LInv /\ Stopped => phase = "none"
  BY DEF LInv, Operations, Inside, Stopped

(* So after every step: what panics does so on a full log, a crash ends the panic, and
   nothing else goes on. *)
LEMMA StepDiskFull ==
    ASSUME LInv, Calls, Reserved, ReservationSuffices, [Next]_vars
    PROVE  Stopped' => DiskFull'
  <1>1. ASSUME ~Stopped, NEW p \in Procs, Call(p) \/ Op(p) PROVE Stopped' => DiskFull'
    <2>1. CASE Panic(p)
      <3>1. DiskFull
        BY <2>1, PanicFull, ZenonT(60) DEF ReservationSuffices
      <3>2. header' = header
        BY <2>1 DEF Panic
      <3> QED
        BY <3>1, <3>2 DEF DiskFull
    <2> QED
      BY <1>1, <2>1, StepStopped, ZenonT(60)
  <1>2. CASE LogStep
    <2>1. phase # "none"
      BY <1>2 DEF LogStep, WriteLog, WriteHeader, Install, Clear, ReadHeader
    <2>2. ~Stopped
      BY <2>1, StoppedResting
    <2>3. at' = at \/ Clear
      BY <1>2 DEF LogStep, WriteLog, WriteHeader, Install, ReadHeader, ops
    <2>4. CASE at' = at
      BY <2>2, <2>4 DEF Stopped
    <2>5. CASE Clear
      BY <2>2, <2>5 DEF Clear, Woken, Stopped
    <2> QED
      BY <2>3, <2>4, <2>5
  <1>3. CASE Crash
    BY <1>3 DEF Crash, Stopped
  <1>4. CASE UNCHANGED vars
    <2>1. UNCHANGED <<at, header>>
      BY <1>4 DEF vars, ops
    <2> QED
      BY <2>1 DEF ReservationSuffices, DiskFull, Stopped
  <1> QED
    BY <1>1, <1>2, <1>3, <1>4, ZenonT(60) DEF Next

(* The reservation as an inductive invariant. *)
RInv == LInv /\ Counted /\ Calls /\ ReservationSuffices

(* Every step leaves room for what the open operations may still write. *)
LEMMA StepRoom == RInv /\ [Next]_vars => RInv'
  <1> SUFFICES ASSUME RInv, [Next]_vars PROVE RInv'
    OBVIOUS
  <1>1. LInv /\ Counted /\ Calls /\ ReservationSuffices
    BY DEF RInv
  <1>2. LInv' /\ Counted'
    BY <1>1, StepInv
  <1>3. Calls' /\ CountMeans
    BY <1>1, StepCalls, CountTells DEF LInv
  <1>4. Reserved
    BY <1>1, Tickets DEF LInv
  <1>5. Reserved'
    BY <1>2, <1>3, TicketsNext DEF LInv
  <1>6. /\ Cardinality(Outlook) \in Nat /\ Cardinality(Outlook') \in Nat
        /\ IsFiniteSet(Outlook) /\ Cardinality(Outlook') <= outstanding' * MaxOpBlocks
    BY <1>4, <1>5 DEF Reserved
  <1>7. Len(header) \in Nat /\ Len(header') \in Nat /\ Len(header') <= LogSize
    BY <1>1, <1>2 DEF LInv, Types, HeaderTypes
  <1>8. outstanding' * MaxOpBlocks \in Nat /\ LogSize \in Nat
    <2>1. outstanding' \in Nat /\ MaxOpBlocks \in Nat /\ LogSize \in Nat
      BY <1>2, SizeAssumption DEF LInv, Types, OpTypes
    <2> QED
      BY <2>1, Product, ZenonT(60)
  <1>9. Len(header) + Cardinality(Outlook) <= LogSize
    BY <1>1 DEF ReservationSuffices
  <1> DEFINE Room == Len(header') + Cardinality(Outlook') <= LogSize
  <1>10. ASSUME Shrinks PROVE Room
    <2>1. Outlook' \subseteq Outlook /\ Len(header') <= Len(header)
      BY <1>10 DEF Shrinks
    <2>2. Cardinality(Outlook') <= Cardinality(Outlook)
      BY <1>6, <2>1, FS_Subset, ZenonT(60)
    <2> QED
      BY <1>6, <1>7, <1>8, <1>9, <2>1, <2>2
  <1>11. ASSUME Ceases PROVE Room
    <2>1. Cardinality(Outlook') = 0
      BY <1>11, FS_EmptySet DEF Ceases
    <2> QED
      BY <1>7, <2>1
  <1>12. ASSUME Spends PROVE Room
    <2>1. PICK t \in Outlook : Outlook' = Outlook \ {t} /\ Len(header') <= Len(header) + 1
      BY <1>12 DEF Spends
    <2>2. Cardinality(Outlook') = Cardinality(Outlook) - 1
      BY <1>6, <2>1, FS_RemoveElement, ZenonT(60)
    <2> QED
      BY <1>6, <1>7, <1>8, <1>9, <2>1, <2>2
  <1>13. ASSUME Admits PROVE Room
    BY <1>6, <1>7, <1>8, <1>13 DEF Admits
  <1>14. Shrinks \/ Ceases \/ Spends \/ Admits
    BY <1>1, <1>2, <1>3, StepReserves, ZenonT(60)
  <1>15. Room
    BY <1>10, <1>11, <1>12, <1>13, <1>14, ZenonT(60)
  <1>16. Stopped' => DiskFull'
    BY <1>1, <1>4, StepDiskFull
  <1> QED
    BY <1>2, <1>3, <1>15, <1>16 DEF RInv, ReservationSuffices, DiskFull

(* Log::is_full reserves enough for the header's array, for any MAXOPBLOCKS, LOGSIZE and
   nlog: it has room for all that the operations inside log::with may still write, nested
   ones included.  What it does not account for is the header's own block on the disk: if
   Log::write panics at all, then because the log on the disk is full. *)
THEOREM Reservation == Spec => []ReservationSuffices
  <1>1. Init => RInv
    <2> SUFFICES ASSUME Init PROVE Calls /\ ReservationSuffices
      BY InitInv, InitCounted DEF RInv
    <2>1. Types /\ Calls /\ \A q \in Procs : depth[q] = 0
      BY InitInv DEF Init, LInv, Calls
    <2>2. Outlook = {}
      BY <2>1, RemainingBound DEF Outlook, Bounded
    <2>3. Cardinality(Outlook) = 0
      BY <2>2, FS_EmptySet
    <2>4. Len(header) = 0 /\ LogSize \in Nat
      BY SizeAssumption DEF Init
    <2>5. ~Stopped
      BY DEF Init, Stopped
    <2> QED
      BY <2>1, <2>3, <2>4, <2>5 DEF ReservationSuffices
  <1>2. RInv => ReservationSuffices
    BY DEF RInv
  <1> QED
    BY <1>1, <1>2, StepRoom, PTL DEF Spec

(* On a disk whose log has more blocks than LOGSIZE, one for the header and one for each
   block that it can list, neither assertion of Log::write ever fails.  mkfs.c makes one
   block less. *)
THEOREM NoPanic ==
    ASSUME NLog > LogSize
    PROVE  Spec => []~Stopped
  <1>1. ReservationSuffices => ~Stopped
    <2> SUFFICES ASSUME NLog - 1 <= Len(header), Len(header) < LogSize PROVE FALSE
      BY DEF ReservationSuffices
    <2>1. Len(header) \in Int
      OBVIOUS
    <2> QED
      BY <2>1, SizeAssumption
  <1> QED
    BY <1>1, Reservation, PTL
=============================================================================
