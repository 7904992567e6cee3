---------------------------- MODULE VirtioProofs ----------------------------
(***************************************************************************)
(* Why the disk driver cannot deadlock over its descriptors, for every     *)
(* number of processes and of descriptors.                                 *)
(***************************************************************************)
EXTENDS Virtio, FiniteSetTheorems, TLAPS

(* Most leaves take far less than a second; one that a busy machine interrupts is tried again. *)
USE SMTT(60), Z3T(60), SMTT(90), Z3T(90)

(* What the argument needs of remainders. *)
LEMMA Remainders ==
    ASSUME NEW n \in Nat, n % 3 = 0
    PROVE  /\ (n + 3) % 3 = 0
           /\ n >= 3 => (n - 3) % 3 = 0
           /\ n < 3 => n = 0
  OBVIOUS

(* There are D descriptors. *)
LEMMA DescFinite == IsFiniteSet(Desc) /\ Cardinality(Desc) = D
  BY FS_Interval, DescAssumption DEF Desc

(* Sets of descriptors are finite and have a size. *)
LEMMA SubsetsFinite ==
    ASSUME NEW S \in SUBSET Desc
    PROVE  /\ IsFiniteSet(S) /\ Cardinality(S) \in Nat
           /\ Cardinality(S) = 0 <=> S = {}
  BY DescFinite, FS_Subset, FS_CardinalityType, FS_EmptySet

(* The size of the union of two disjoint sets of descriptors. *)
LEMMA DisjointUnion ==
    ASSUME NEW S \in SUBSET Desc, NEW T \in SUBSET Desc, S \cap T = {}
    PROVE  Cardinality(S \cup T) = Cardinality(S) + Cardinality(T)
  <1>1. Cardinality(S \cup T)
            = Cardinality(S) + Cardinality(T) - Cardinality(S \cap T)
    BY SubsetsFinite, FS_Union
  <1> QED
    BY <1>1, SubsetsFinite, FS_EmptySet

(* A step that leaves the descriptors alone and only moves processes between
   the points at which they may have what they have. *)
Moves ==
    /\ UNCHANGED <<taken, mine>>
    /\ at' \in [Procs -> {"idle", "alloc", "asleep", "io", "woken"}]
    /\ \A p \in Procs :
        \/ at'[p] = at[p]
        \/ at[p] \in {"idle", "asleep"} /\ at'[p] = "alloc"
        \/ at[p] \in {"io", "woken"} /\ at'[p] \in {"io", "woken"}

(* A step that only moves a process within rw() keeps the account. *)
LEMMA StepMoves ==
    ASSUME DescriptorInv, Moves
    PROVE  DescriptorInv'
  <1> USE DEF Moves
  <1>1. DescriptorsPartitioned'
    BY DEF DescriptorInv, DescriptorsPartitioned
  <1>2. Holdings'
    <2> SUFFICES ASSUME NEW p \in Procs
                 PROVE  /\ at'[p] = "idle" => mine[p] = {}
                        /\ at'[p] \in {"alloc", "asleep"} => Cardinality(mine[p]) < 3
                        /\ at'[p] \in {"io", "woken"} => Cardinality(mine[p]) = 3
      BY DEF Holdings
    <2> QED
      BY FS_EmptySet DEF DescriptorInv, Holdings
  <1>3. \A p \in Procs : Partial(p)' => Partial(p)
    BY DEF DescriptorInv, Holdings, Partial
  <1>4. OnePartial'
    <2>1. Available' = Available
      BY DEF Available
    <2> QED
      BY <1>3, <2>1 DEF DescriptorInv, OnePartial
  <1> QED
    BY <1>1, <1>2, <1>4 DEF DescriptorInv

(* must_allocate_descriptor goes to sleep with all that was free: if another
   process had a part of a request, nothing was free. *)
LEMMA StepAllocWait ==
    ASSUME DescriptorInv, NEW p \in Procs, AllocWait(p)
    PROVE  DescriptorInv'
  <1> DEFINE A == Available
  <1>1. /\ taken' = Desc
        /\ mine' = [mine EXCEPT ![p] = mine[p] \cup A]
        /\ at' = [at EXCEPT ![p] = "asleep"]
        /\ at[p] = "alloc"
    BY DEF AllocWait, Take, Available, DescriptorInv
  <1>2. A \in SUBSET Desc /\ mine[p] \in SUBSET Desc /\ mine[p] \cap A = {}
    BY DEF DescriptorInv, DescriptorsPartitioned, Available
  <1>3. /\ Cardinality(A) \in Nat /\ Cardinality(mine[p]) \in Nat
        /\ Cardinality(A) < 3 - Cardinality(mine[p])
    BY <1>2, SubsetsFinite DEF AllocWait, Needed
  <1>4. Available' = {}
    BY <1>1 DEF Available
  <1>5. DescriptorsPartitioned'
    BY <1>1, <1>2 DEF DescriptorInv, DescriptorsPartitioned, Available
  <1>6. Holdings'
    <2>1. Cardinality(mine'[p]) < 3
      BY <1>1, <1>2, <1>3, DisjointUnion DEF DescriptorInv
    <2> QED
      BY <1>1, <2>1 DEF DescriptorInv, Holdings
  <1>7. ASSUME NEW q \in Procs, q # p, Partial(q)'
        PROVE  ~Partial(p)'
    <2>1. Partial(q)
      BY <1>1, <1>7 DEF Partial, DescriptorInv
    <2>2. A = {}
      BY <2>1, <1>2, <1>3, Remainders, SubsetsFinite DEF DescriptorInv, OnePartial
    <2>3. mine[p] = {}
      BY <2>1, <1>1, <1>7 DEF DescriptorInv, OnePartial, Partial
    <2> QED
      BY <2>2, <2>3, <1>1 DEF Partial, DescriptorInv
  <1>8. \A q, r \in Procs : Partial(q)' /\ Partial(r)' => q = r
    <2>1. \A q \in Procs \ {p} : Partial(q)' => Partial(q)
      BY <1>1 DEF Partial, DescriptorInv
    <2> QED
      BY <1>7, <2>1 DEF DescriptorInv, OnePartial
  <1>9. OnePartial'
    BY <1>4, <1>8, FS_EmptySet DEF OnePartial
  <1>10. /\ taken' \subseteq Desc
         /\ mine' \in [Procs -> SUBSET Desc]
         /\ at' \in [Procs -> {"idle", "alloc", "asleep", "io", "woken"}]
    BY <1>1, <1>2 DEF DescriptorInv
  <1> QED
    BY <1>5, <1>6, <1>9, <1>10 DEF DescriptorInv

(* A request that gets its descriptors takes three, or the rest of three. *)
LEMMA StepSubmit ==
    ASSUME DescriptorInv, NEW p \in Procs, Submit(p)
    PROVE  DescriptorInv'
  <1>1. PICK T \in SUBSET Available :
            Cardinality(T) = Needed(p) /\ Take(p, T)
    BY DEF Submit
  <1>2. /\ taken' = taken \cup T
        /\ mine' = [mine EXCEPT ![p] = mine[p] \cup T]
        /\ at' = [at EXCEPT ![p] = "io"]
        /\ at[p] = "alloc"
    BY <1>1, ZenonT(60) DEF Submit, Take, DescriptorInv
  <1>3. /\ T \in SUBSET Desc /\ Available \in SUBSET Desc
        /\ mine[p] \in SUBSET Desc /\ mine[p] \cap T = {}
        /\ Available' = Available \ T
    BY <1>2 DEF DescriptorInv, DescriptorsPartitioned, Available
  <1>4. /\ Cardinality(T) \in Nat /\ Cardinality(mine[p]) \in Nat
        /\ Cardinality(T) = 3 - Cardinality(mine[p])
        /\ Cardinality(mine[p]) < 3
    BY <1>1, <1>2, <1>3, SubsetsFinite DEF Needed, DescriptorInv, Holdings
  <1>5. Cardinality(Available') = Cardinality(Available) - Cardinality(T)
    <2>1. Available = Available' \cup T /\ Available' \cap T = {}
      BY <1>3
    <2> QED
      BY <2>1, <1>3, DisjointUnion, SubsetsFinite
  <1>6. DescriptorsPartitioned'
    BY <1>2, <1>3 DEF DescriptorInv, DescriptorsPartitioned, Available
  <1>7. Holdings'
    <2>1. Cardinality(mine'[p]) = 3
      BY <1>2, <1>3, <1>4, DisjointUnion DEF DescriptorInv
    <2> QED
      BY <1>2, <2>1 DEF DescriptorInv, Holdings
  <1>8. ASSUME NEW q \in Procs PROVE at'[q] # "asleep"
    <2>1. Available # {}
      BY <1>3, <1>4, SubsetsFinite
    <2> QED
      BY <1>2, <2>1 DEF DescriptorInv, OnePartial
  <1>9. ASSUME NEW q \in Procs, Partial(q)'
        PROVE  Partial(q) /\ mine[p] = {}
    BY <1>2, <1>9 DEF Partial, DescriptorInv, OnePartial
  <1>10. ASSUME NEW q \in Procs, Partial(q)'
         PROVE  Cardinality(Available') % 3 = 0
    <2>1. Cardinality(Available) % 3 = 0 /\ Cardinality(T) = 3
      BY <1>9, <1>10, <1>4, SubsetsFinite DEF DescriptorInv, OnePartial
    <2>2. /\ Cardinality(Available) \in Nat
          /\ Cardinality(Available') \in Nat
      BY <1>3, SubsetsFinite
    <2> QED
      BY <2>1, <2>2, <1>5, Remainders
  <1>11. OnePartial'
    BY <1>8, <1>9, <1>10 DEF DescriptorInv, OnePartial
  <1>12. /\ taken' \subseteq Desc
         /\ mine' \in [Procs -> SUBSET Desc]
         /\ at' \in [Procs -> {"idle", "alloc", "asleep", "io", "woken"}]
    BY <1>2, <1>3 DEF DescriptorInv
  <1> QED
    BY <1>6, <1>7, <1>11, <1>12 DEF DescriptorInv

(* A finished request frees three descriptors and wakes every sleeper. *)
LEMMA StepFinish ==
    ASSUME DescriptorInv, NEW p \in Procs, Finish(p)
    PROVE  DescriptorInv'
  <1>1. /\ taken' = taken \ mine[p]
        /\ mine' = [mine EXCEPT ![p] = {}]
        /\ at[p] = "woken" /\ at'[p] = "idle"
        /\ at' \in [Procs -> {"idle", "alloc", "asleep", "io", "woken"}]
    BY DEF Finish, DescriptorInv
  <1>2. ASSUME NEW q \in Procs, q # p
        PROVE  /\ mine'[q] = mine[q]
               /\ at'[q] = IF at[q] = "asleep" THEN "alloc" ELSE at[q]
    BY <1>2 DEF Finish, DescriptorInv
  <1>3. /\ Available' = Available \cup mine[p] /\ Available \cap mine[p] = {}
        /\ Available \in SUBSET Desc /\ mine[p] \in SUBSET Desc
    BY <1>1 DEF DescriptorInv, DescriptorsPartitioned, Available
  <1>4. Cardinality(Available') = Cardinality(Available) + 3
    BY <1>1, <1>3, DisjointUnion DEF DescriptorInv, Holdings
  <1>5. DescriptorsPartitioned'
    <2>1. \A q, r \in Procs : q # r => mine'[q] \cap mine'[r] = {}
      BY <1>1, <1>2 DEF DescriptorInv, DescriptorsPartitioned
    <2>2. taken' = UNION {mine'[q] : q \in Procs}
      BY <1>1, <1>2 DEF DescriptorInv, DescriptorsPartitioned
    <2> QED
      BY <2>1, <2>2 DEF DescriptorsPartitioned
  <1>6. Holdings'
    BY <1>1, <1>2 DEF DescriptorInv, Holdings
  <1>7. ASSUME NEW q \in Procs, Partial(q)'
        PROVE  Partial(q)
    BY <1>1, <1>2, <1>7 DEF Partial, DescriptorInv
  <1>8. ASSUME NEW q \in Procs, Partial(q)'
        PROVE  Cardinality(Available') % 3 = 0
    BY <1>3, <1>4, <1>7, <1>8, Remainders, SubsetsFinite
       DEF DescriptorInv, OnePartial
  <1>9. \A q \in Procs : at'[q] # "asleep"
    BY <1>1, <1>2
  <1>10. OnePartial'
    BY <1>7, <1>8, <1>9 DEF DescriptorInv, OnePartial
  <1>11. taken' \subseteq Desc /\ mine' \in [Procs -> SUBSET Desc]
    BY <1>1 DEF DescriptorInv
  <1> QED
    BY <1>1, <1>5, <1>6, <1>10, <1>11 DEF DescriptorInv

(* The other steps of a process, and those of the handler and the device, leave
   the descriptors with the processes that have them. *)
LEMMA StepOthers ==
    ASSUME DescriptorInv,
           \/ \E p \in Procs : Call(p) \/ Recheck(p) \/ Kill(p)
           \/ Handler \/ DeviceTake \/ \E d \in Desc : DeviceComplete(d)
    PROVE  DescriptorInv'
  <1> SUFFICES Moves
    BY StepMoves
  <1>0. at \in [Procs -> {"idle", "alloc", "asleep", "io", "woken"}]
    BY DEF DescriptorInv
  <1>1. ASSUME NEW p \in Procs, Call(p) \/ Recheck(p) \/ Kill(p)
        PROVE  Moves
    BY <1>0, <1>1 DEF Moves, Call, Recheck, Kill
  <1>2. CASE IntrStep
    BY <1>0, <1>2, ZenonT(60) DEF Moves, IntrStep
  <1>3. CASE IntrEnter \/ IntrExit
    BY <1>0, <1>3 DEF Moves, IntrEnter, IntrExit, procs
  <1>4. CASE DeviceTake
    BY <1>0, <1>4 DEF Moves, DeviceTake, procs
  <1>5. ASSUME NEW d \in Desc, DeviceComplete(d)
        PROVE  Moves
    BY <1>0, <1>5 DEF Moves, DeviceComplete, procs
  <1> QED
    BY <1>1, <1>2, <1>3, <1>4, <1>5 DEF Handler

(* rw() keeps account of its descriptors: none is lost or shared, and at most one
   process has a part of what it needs. *)
THEOREM Descriptors == Spec => []DescriptorInv
<1>1. Init => DescriptorInv
  BY FS_EmptySet
     DEF Init, DescriptorInv, DescriptorsPartitioned, Holdings, OnePartial,
         Partial, Desc
<1>2. DescriptorInv /\ [Next]_vars => DescriptorInv'
  <2> SUFFICES ASSUME DescriptorInv, [Next]_vars PROVE DescriptorInv'
    OBVIOUS
  <2>1. CASE Next
    BY <2>1, StepAllocWait, StepSubmit, StepFinish, StepOthers DEF Next, Proc
  <2>2. CASE UNCHANGED vars
    <3>1. Moves
      BY <2>2 DEF Moves, vars, procs, DescriptorInv
    <3> QED
      BY <3>1, StepMoves
  <2> QED
    BY <2>1, <2>2
<1> QED
  BY <1>1, <1>2, PTL DEF Spec

(* No descriptor of the disk is allocated twice, and none is lost. *)
THEOREM Partitioned == Spec => []DescriptorsPartitioned
<1>1. DescriptorInv => DescriptorsPartitioned
  BY DEF DescriptorInv
<1> QED
  BY Descriptors, <1>1, PTL

(* Processes that keep descriptors while they sleep in rw() for more never all
   wait for each other, whatever the number of processes and of descriptors. *)
THEOREM NoDeadlock == Spec => []NoDescriptorDeadlock
<1>1. DescriptorInv => NoDescriptorDeadlock
  <2> SUFFICES ASSUME DescriptorInv, NEW p \in Procs, at[p] = "asleep",
                      \A q \in Procs : at[q] \notin {"io", "woken"}
               PROVE  FALSE
    BY DEF NoDescriptorDeadlock
  <2>1. taken = Desc
    BY DEF DescriptorInv, OnePartial, Available
  <2>2. PICK q \in Procs : mine[q] # {}
    <3>1. 0 \in Desc
      BY DescAssumption DEF Desc
    <3> QED
      BY <2>1, <3>1 DEF DescriptorInv, DescriptorsPartitioned
  <2>3. at[q] \in {"alloc", "asleep"}
    BY <2>2 DEF DescriptorInv, Holdings
  <2>4. \A r \in Procs : mine[r] # {} => r = q
    BY <2>2, <2>3 DEF DescriptorInv, Holdings, OnePartial, Partial
  <2>5. mine[q] = Desc
    BY <2>1, <2>4 DEF DescriptorInv, DescriptorsPartitioned
  <2>6. Cardinality(Desc) < 3
    BY <2>3, <2>5 DEF DescriptorInv, Holdings
  <2> QED
    BY <2>6, DescFinite, DescAssumption
<1> QED
  BY Descriptors, <1>1, PTL
=============================================================================
