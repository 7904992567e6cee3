------------------------- MODULE BufferCacheProofs -------------------------
(***************************************************************************)
(* The theorems about the buffer cache.  BufferRing, BufferCacheSteps and  *)
(* BufferContents have what each step keeps; this module adds the          *)
(* reference counts.                                                       *)
(***************************************************************************)
EXTENDS BufferRing, BufferContents, FiniteSetTheorems

(* Most leaves take far less than a second; one that a busy machine interrupts is tried again. *)
USE SMTT(60), Z3T(60), SMTT(90), Z3T(90)

(* The references *)

(* The users of a buffer are finitely many. *)
LEMMA ReferringFinite ==
    ASSUME NEW i
    PROVE  /\ IsFiniteSet(Referring(i)) /\ Cardinality(Referring(i)) \in Nat
           /\ Referring(i) # {} => Cardinality(Referring(i)) > 0
<1>1. IsFiniteSet(Referring(i))
  BY UsersAssumption, FS_Subset, ZenonT(60) DEF Referring
<1>2. Cardinality(Referring(i)) \in Nat
  BY <1>1, FS_CardinalityType, ZenonT(60)
<1>3. Referring(i) # {} => Cardinality(Referring(i)) # 0
  BY <1>1, FS_EmptySet, ZenonT(60)
<1> QED
  BY <1>1, <1>2, <1>3

(* A count tells whether the buffer is in use and whether a reference is the last one. *)
LEMMA CountedTells == Types /\ Counted => CountTells
<1> SUFFICES ASSUME Types, Counted PROVE CountTells
  OBVIOUS
<1>1. \A i \in Slots : key[i] = NoBlock <=> counts[i] = 0
  BY DEF Counted
<1>2. ASSUME NEW u \in Users, Refers(u), counts[idx[u]] = 1
      PROVE  key[idx[u]] \notin pinned /\ \A v \in Users : Refers(v) /\ idx[v] = idx[u] => v = u
  <2>i. PICK i \in Slots : i = idx[u]
    BY DEF Types
  <2>1. u \in Referring(i)
    BY <1>2, <2>i DEF Referring, Refers
  <2>2. Cardinality(Referring(i)) \in Nat /\ Cardinality(Referring(i)) > 0
    BY <2>1, ReferringFinite
  <2>3. Cardinality(Referring(i)) = 1 /\ key[i] \notin pinned
    BY <1>2, <2>2, <2>i DEF Counted, Pinned
  <2>4. PICK w : Referring(i) = {w}
    BY <2>3, ReferringFinite, FS_Singleton, ZenonT(60)
  <2> QED
    BY <2>1, <2>3, <2>4, <2>i DEF Referring, Refers
<1> QED
  BY <1>1, <1>2 DEF CountTells

(* A step in which nobody gains or loses a reference. *)
LEMMA ReferringSame ==
    ASSUME \A v \in Users : (Refers(v)' <=> Refers(v)) /\ (Refers(v) => idx'[v] = idx[v]), NEW i
    PROVE  Referring(i)' = Referring(i)
  BY DEF Referring, Refers

(* A step that changes neither references nor keys nor pins. *)
LEMMA CountedSame ==
    ASSUME Counted, UNCHANGED <<key, counts, pinned>>,
           \A v \in Users : (Refers(v)' <=> Refers(v)) /\ (Refers(v) => idx'[v] = idx[v])
    PROVE  Counted'
<1>1. \A i \in Slots : Referring(i)' = Referring(i)
  BY ReferringSame, ZenonT(60)
<1>2. \A i \in Slots : Pinned(i)' = Pinned(i)
  BY DEF Pinned
<1> QED
  BY <1>1, <1>2 DEF Counted

(* A buffer that nothing happens to. *)
LEMMA SlotCounted ==
    ASSUME Counted, NEW i \in Slots, key'[i] = key[i], counts'[i] = counts[i],
           key[i] \in pinned' <=> key[i] \in pinned, Referring(i)' = Referring(i)
    PROVE  /\ counts'[i] = Cardinality(Referring(i))' + Pinned(i)'
           /\ key'[i] = NoBlock <=> counts'[i] = 0
<1>1. Pinned(i)' = Pinned(i)
  BY DEF Pinned
<1> QED
  BY <1>1 DEF Counted

(* Every step keeps the counts exact. *)
LEMMA StepCounted ==
    ASSUME Types, Finds, Keyed, Counted, Callers, Next
    PROVE  Counted'
<1> DEFINE C(i) == /\ counts'[i] = Cardinality(Referring(i))' + Pinned(i)'
                   /\ key'[i] = NoBlock <=> counts'[i] = 0
<1>0. NoBlock \notin Blocks /\ NoBlock \notin pinned /\ pinned \subseteq Blocks
  BY BlockAssumption DEF Types
<1>q. ASSUME \A i \in Slots : C(i) PROVE Counted'
  BY <1>q DEF Counted
<1>1. PICK u \in Users : Step(u) \/ \E b \in Blocks, m \in Modes : Get(u, b, m)
  BY ZenonT(60) DEF Next
<1>2. ASSUME NEW b \in Blocks, NEW m \in Modes, Get(u, b, m) PROVE Counted'
  <2>1. /\ at[u] = "idle" /\ at'[u] = "lock" /\ blk'[u] = b /\ pinned' = pinned /\ Only(u) /\ Taken(u, b)
    BY <1>2, GetEffect, ZenonT(60)
  <2>i. PICK i \in Slots : i = idx'[u]
    BY <2>1, ZenonT(60) DEF Taken
  <2>2. /\ i \in Slots /\ key'[i] = b /\ counts'[i] = counts[i] + 1
        /\ \A j \in Slots : j # i => key'[j] = key[j] /\ counts'[j] = counts[j]
        /\ key[i] = b \/ (key[i] = NoBlock /\ \A j \in Slots : key[j] # b)
    BY <2>1, <2>i DEF Taken, Types
  <2>3. u \notin Referring(i) /\ Referring(i)' = Referring(i) \cup {u}
    BY <2>1, <2>i DEF Referring, Only
  <2>4. \A j \in Slots : j # i => Referring(j)' = Referring(j)
    BY <2>1, <2>i DEF Referring, Only
  <2>5. Cardinality(Referring(i))' = Cardinality(Referring(i)) + 1
    <3>1. Cardinality(Referring(i) \cup {u}) = Cardinality(Referring(i)) + 1
      BY <2>3, ReferringFinite, FS_AddElement, ZenonT(60)
    <3> QED
      BY <2>3, <3>1
  <2>6. Pinned(i)' = Pinned(i)
    <3>1. key'[i] \in pinned' <=> key[i] \in pinned
      BY <1>0, <2>1, <2>2 DEF Keyed
    <3> QED
      BY <3>1 DEF Pinned
  <2>7. Cardinality(Referring(i)) \in Nat /\ counts[i] = Cardinality(Referring(i)) + Pinned(i) /\ Pinned(i) \in Nat
    BY <2>2, ReferringFinite DEF Counted, Pinned
  <2>8. C(i)
    BY <1>0, <2>2, <2>5, <2>6, <2>7
  <2> HIDE DEF C
  <2>9. \A j \in Slots : j # i => C(j)
    BY <2>1, <2>2, <2>4, SlotCounted DEF C
  <2> QED
    BY <1>q, <2>8, <2>9, ZenonT(60)
<1>3. CASE Acquire(u) \/ SleepForLock(u) \/ Fill(u) \/ Flush(u)
  <2>1. UNCHANGED <<key, counts, pinned>> /\ \E x, y \in {"lock", "asleep", "got", "hold", "flush", "drop"} : Goes(u, x, y)
    <3>1. CASE Acquire(u) \/ SleepForLock(u)
      BY <3>1, AcquireEffect, SleepEffect, ZenonT(60) DEF cache
    <3>2. CASE Fill(u) \/ Flush(u)
      BY <3>2, FillEffect, FlushEffect, ZenonT(60) DEF cache
    <3> QED
      BY <1>3, <3>1, <3>2, ZenonT(60)
  <2>2. \A v \in Users : (Refers(v)' <=> Refers(v)) /\ (Refers(v) => idx'[v] = idx[v])
    BY <2>1 DEF Refers, Goes, user
  <2> QED
    BY <2>1, <2>2, CountedSame, ZenonT(60)
<1>4. CASE LogWrite(u)
  <2>1. /\ Goes(u, "hold", "drop") /\ key' = key /\ pinned' = pinned \cup {blk[u]} /\ blk[u] \in Blocks
        /\ counts' = [counts EXCEPT ![idx[u]] = IF blk[u] \in pinned THEN counts[idx[u]] ELSE counts[idx[u]] + 1]
    BY <1>4, LogWriteEffect, ZenonT(60)
  <2>i. PICK i \in Slots : i = idx[u]
    BY DEF Types
  <2>2. i \in Slots /\ key[i] = blk[u] /\ u \in Referring(i)
    BY <2>1, <2>i DEF Goes, Keyed, Refers, Types, Referring
  <2>3. \A v \in Users : (Refers(v)' <=> Refers(v)) /\ (Refers(v) => idx'[v] = idx[v])
    BY <2>1 DEF Refers, Goes, user
  <2>4. \A j \in Slots : Referring(j)' = Referring(j)
    BY <2>3, ReferringSame, ZenonT(60)
  <2>5. /\ counts'[i] = IF blk[u] \in pinned THEN counts[i] ELSE counts[i] + 1
        /\ \A j \in Slots : j # i => counts'[j] = counts[j] /\ key[j] # blk[u]
    BY <1>0, <2>1, <2>2, <2>i DEF Types, Keyed
  <2>6. /\ Cardinality(Referring(i)) \in Nat /\ Cardinality(Referring(i)) > 0
        /\ counts[i] = Cardinality(Referring(i)) + Pinned(i)
    BY <2>2, ReferringFinite DEF Counted
  <2>7. C(i)
    BY <1>0, <2>1, <2>2, <2>4, <2>5, <2>6 DEF Pinned
  <2> HIDE DEF C
  <2>8. \A j \in Slots : j # i => C(j)
    BY <2>1, <2>4, <2>5, SlotCounted DEF C
  <2> QED
    BY <1>q, <2>7, <2>8, ZenonT(60)
<1>5. CASE Unpin(u)
  <2>1. /\ Goes(u, "hold", "flush") /\ key' = key /\ pinned' = pinned \ {blk[u]} /\ mode[u] = "install"
        /\ counts' = [counts EXCEPT ![idx[u]] = counts[idx[u]] - 1]
    BY <1>5, UnpinEffect, ZenonT(60)
  <2>i. PICK i \in Slots : i = idx[u]
    BY DEF Types
  <2>2. i \in Slots /\ key[i] = blk[u] /\ u \in Referring(i) /\ blk[u] \in pinned
    BY <2>1, <2>i DEF Goes, Keyed, Refers, Types, Referring, Callers, Installs
  <2>3. \A v \in Users : (Refers(v)' <=> Refers(v)) /\ (Refers(v) => idx'[v] = idx[v])
    BY <2>1 DEF Refers, Goes, user
  <2>4. \A j \in Slots : Referring(j)' = Referring(j)
    BY <2>3, ReferringSame, ZenonT(60)
  <2>5. /\ counts'[i] = counts[i] - 1
        /\ \A j \in Slots : j # i => counts'[j] = counts[j] /\ key[j] # blk[u]
    BY <1>0, <2>1, <2>2, <2>i DEF Types, Keyed
  <2>6. /\ Cardinality(Referring(i)) \in Nat /\ Cardinality(Referring(i)) > 0
        /\ counts[i] = Cardinality(Referring(i)) + Pinned(i)
    BY <2>2, ReferringFinite DEF Counted
  <2>7. C(i)
    BY <1>0, <2>1, <2>2, <2>4, <2>5, <2>6 DEF Pinned
  <2> HIDE DEF C
  <2>8. \A j \in Slots : j # i => C(j)
    BY <2>1, <2>4, <2>5, SlotCounted DEF C
  <2> QED
    BY <1>q, <2>7, <2>8, ZenonT(60)
<1>6. CASE Release(u)
  <2>1. /\ Goes(u, at[u], "unlock") /\ pinned' = pinned /\ (at[u] = "drop" \/ at[u] = "hold")
        /\ counts' = [counts EXCEPT ![idx[u]] = counts[idx[u]] - 1]
        /\ counts[idx[u]] = 1 => key' = [key EXCEPT ![idx[u]] = NoBlock]
        /\ counts[idx[u]] # 1 => key' = key
    BY <1>6, ReleaseEffect, ZenonT(60)
  <2>i. PICK i \in Slots : i = idx[u]
    BY DEF Types
  <2>2. i \in Slots /\ key[i] = blk[u] /\ blk[u] \in Blocks /\ u \in Referring(i)
    BY <2>1, <2>i DEF Keyed, Refers, Types, Referring
  <2>3. Referring(i)' = Referring(i) \ {u} /\ \A j \in Slots : j # i => Referring(j)' = Referring(j)
    BY <2>1, <2>i DEF Referring, Goes, user
  <2>4. Cardinality(Referring(i))' = Cardinality(Referring(i)) - 1
    <3>1. Cardinality(Referring(i) \ {u}) = Cardinality(Referring(i)) - 1
      BY <2>2, ReferringFinite, FS_RemoveElement, ZenonT(60)
    <3> QED
      BY <2>3, <3>1
  <2>5. /\ Cardinality(Referring(i)) \in Nat /\ Cardinality(Referring(i)) > 0
        /\ counts[i] = Cardinality(Referring(i)) + Pinned(i) /\ Pinned(i) \in {0, 1}
    BY <2>2, ReferringFinite DEF Counted, Pinned
  <2>6. /\ counts'[i] = counts[i] - 1 /\ \A j \in Slots : j # i => counts'[j] = counts[j] /\ key'[j] = key[j]
        /\ key'[i] = IF counts[i] = 1 THEN NoBlock ELSE key[i]
    BY <2>1, <2>2, <2>i DEF Types
  <2>7. Pinned(i)' = IF counts[i] = 1 THEN 0 ELSE Pinned(i)
    BY <1>0, <2>1, <2>6 DEF Pinned
  <2>8. C(i)
    BY <1>0, <2>2, <2>4, <2>5, <2>6, <2>7
  <2> HIDE DEF C
  <2>9. \A j \in Slots : j # i => C(j)
    BY <2>1, <2>3, <2>6, SlotCounted DEF C
  <2> QED
    BY <1>q, <2>8, <2>9, ZenonT(60)
<1>7. CASE Unlock(u)
  <2>1. /\ at[u] = "unlock" /\ at'[u] = "idle" /\ UNCHANGED <<cache, pinned>>
        /\ \A v \in Users : v # u => /\ at'[v] = IF at[v] = "asleep" /\ idx[v] = idx[u] THEN "lock" ELSE at[v]
                                     /\ idx'[v] = idx[v]
    BY <1>7, UnlockEffect, ZenonT(60)
  <2>2. \A v \in Users : (Refers(v)' <=> Refers(v)) /\ (Refers(v) => idx'[v] = idx[v])
    BY <2>1 DEF Refers
  <2>3. UNCHANGED <<key, counts, pinned>>
    BY <2>1, ZenonT(60) DEF cache
  <2> QED
    BY <2>2, <2>3, CountedSame, ZenonT(60)
<1> QED
  BY <1>1, <1>2, <1>3, <1>4, <1>5, <1>6, <1>7, ZenonT(60) DEF Step
-----------------------------------------------------------------------------
(* The theorems *)

(* At the start nobody uses a buffer, and the disk has every block. *)
LEMMA InitInv == Init => Keyed /\ Counted /\ Excluded /\ Callers /\ Contents
<1> SUFFICES ASSUME Init PROVE Keyed /\ Counted /\ Excluded /\ Callers /\ Contents
  OBVIOUS
<1>1. /\ \A u \in Users : at[u] = "idle" /\ ~Reads(u) /\ ~Writes(u)
      /\ \A i \in Slots : key[i] = NoBlock /\ counts[i] = 0 /\ ~locked[i]
      /\ pinned = {} /\ disk = Blocks
  BY DEF Init, Reads, Writes
<1>2. Keyed
  BY <1>1 DEF Keyed, Refers
<1>3. Counted
  <2>1. ASSUME NEW i \in Slots PROVE Cardinality(Referring(i)) = 0
    <3>1. Referring(i) = {}
      BY <1>1 DEF Referring
    <3> QED
      BY <3>1, FS_EmptySet, ZenonT(60)
  <2> QED
    BY <1>1, <2>1 DEF Counted, Pinned
<1>4. Excluded /\ Callers
  BY <1>1 DEF Excluded, Holds, Callers, Installs
<1>5. Contents
  BY <1>1, BlockAssumption DEF Contents, Filled, Protected
<1> QED
  BY <1>2, <1>3, <1>4, <1>5

(* A step that changes nothing keeps the invariant. *)
LEMMA Stutter == BInv /\ UNCHANGED vars => BInv'
<1> SUFFICES ASSUME BInv, UNCHANGED vars PROVE BInv'
  OBVIOUS
<1>1. Types' /\ RingOK'
  BY ZenonT(60) DEF BInv, vars, cache, user, ring, Types, RingOK, Order, Linked
<1>2. UNCHANGED <<key, counts, locked, data, disk, pinned, at, mode, blk, idx, is_new>>
  BY ZenonT(60) DEF vars, cache, user
<1>3. Keyed' /\ Excluded'
  BY <1>2, ZenonT(60) DEF BInv, Keyed, Refers, Excluded, Holds
<1>4. Callers'
  BY <1>2, ZenonT(60) DEF BInv, Callers, Installs, Operates
<1>5. Counted'
  BY <1>2, ZenonT(60) DEF BInv, Counted, Referring, Pinned
<1>6. Contents'
  BY <1>2, ZenonT(60) DEF BInv, Contents, Filled, Unfilled, Reads, Writes, Backed, Flushes
<1> QED
  BY <1>1, <1>3, <1>4, <1>5, <1>6 DEF BInv

(* The references, the sleep locks, the callers' guarantees and the contents, with the
   types and the ring: an invariant that every step of every user keeps. *)
THEOREM Inductive == Spec => []BInv
<1>1. Init => BInv
  BY InitTypes, InitRing, InitInv DEF BInv
<1>2. ASSUME BInv, Next PROVE BInv'
  <2>1. Types /\ RingOK /\ Keyed /\ Counted /\ Excluded /\ Callers /\ Contents
    BY <1>2 DEF BInv
  <2>0. Finds /\ CountTells
    BY <2>1, RingFinds, CountedTells, ZenonT(60)
  <2>2. Types' /\ RingOK'
    BY <1>2, <2>0, <2>1, StepTypes, StepRing, ZenonT(60)
  <2>3. Keyed' /\ Counted'
    BY <1>2, <2>0, <2>1, StepKeyed, StepCounted, ZenonT(60)
  <2>4. Excluded' /\ Callers' /\ Contents'
    BY <1>2, <2>0, <2>1, StepExcluded, StepCallers, StepContents, ZenonT(60)
  <2> QED
    BY <2>2, <2>3, <2>4 DEF BInv
<1>3. BInv /\ [Next]_vars => BInv'
  BY <1>2, Stutter
<1> QED
  BY <1>1, <1>3, PTL DEF Spec

(* After any sequence of gets and releases the links of the cache still form one ring
   through all slots, in which prev undoes next and the tail is followed by the head. *)
THEOREM RingWhole == Spec => []RingIntact
<1>1. BInv => RingIntact
  BY RingWalked DEF BInv
<1> QED
  BY <1>1, Inductive, PTL

(* A buffer counts its users and its pin. *)
LEMMA CountsExact == BInv => ReferencesExact
<1> SUFFICES ASSUME BInv PROVE ReferencesExact
  OBVIOUS
<1>1. ASSUME NEW i \in Slots
      PROVE  /\ counts[i] = Cardinality(Referring(i)) + (IF key[i] \in pinned THEN 1 ELSE 0)
             /\ key[i] = NoBlock <=> counts[i] = 0
  BY DEF BInv, Counted, Pinned
<1>2. ASSUME NEW i \in Slots, NEW u \in Referring(i) PROVE blk[u] = key[i]
  BY DEF BInv, Keyed, Refers, Referring
<1>3. \A i, j \in Slots : key[i] = key[j] /\ key[i] # NoBlock => i = j
  BY DEF BInv, Keyed
<1>4. pinned \subseteq {key[i] : i \in Slots}
  BY DEF BInv, Keyed
<1> QED
  BY <1>1, <1>2, <1>3, <1>4 DEF ReferencesExact

(* RcCache::get and RcCache::release count exactly the users of a buffer and its pin, the
   buffer keeps its key as long as there is one, and no block is in two buffers. *)
THEOREM References == Spec => []ReferencesExact
  BY Inductive, CountsExact, PTL

(* A lock that is held has one holder. *)
LEMMA OneHolder == BInv => SleepLockExcludes
<1> SUFFICES ASSUME BInv PROVE SleepLockExcludes
  OBVIOUS
<1>1. ASSUME NEW i \in Slots, ~locked[i] PROVE Cardinality(Holding(i)) = 0
  <2>1. Holding(i) = {}
    BY <1>1 DEF BInv, Excluded, Holds, Holding
  <2> QED
    BY <2>1, FS_EmptySet, ZenonT(60)
<1>2. ASSUME NEW i \in Slots, locked[i] PROVE Cardinality(Holding(i)) = 1
  <2>1. PICK u \in Users : Holds(u) /\ idx[u] = i
    BY <1>2 DEF BInv, Excluded
  <2>2. Holding(i) = {u}
    BY <2>1 DEF BInv, Excluded, Holds, Holding
  <2> QED
    BY <2>2, FS_Singleton, ZenonT(60)
<1>3. \A u \in Users : at[u] = "asleep" => locked[idx[u]]
  BY DEF BInv, Excluded
<1> QED
  BY <1>1, <1>2, <1>3 DEF SleepLockExcludes

(* SleepLock::lock gives a buffer to one user at a time, also when the buffer is reused before
   its last user has unlocked it, and a user sleeps only for a lock that is held. *)
THEOREM LockExcludes == Spec => []SleepLockExcludes
  BY Inductive, OneHolder, PTL

(* Who has the lock of a protected block's buffer has its contents. *)
LEMMA HolderCurrent == BInv => ProtectedBlocksCurrent
<1> SUFFICES ASSUME BInv PROVE ProtectedBlocksCurrent
  OBVIOUS
<1>1. Types /\ Keyed /\ Callers /\ Contents
  BY DEF BInv
<1>2. ASSUME NEW u \in Users, at[u] = "hold", blk[u] \in Protected, mode[u] # "write"
      PROVE  data[idx[u]] = blk[u]
  <2>1. idx[u] \in Slots /\ key[idx[u]] = blk[u]
    BY <1>1, <1>2 DEF Types, Keyed, Refers
  <2>2. ASSUME NEW v \in Users, blk[v] = blk[u], Reads(v) \/ Writes(v) PROVE FALSE
    <3>1. at[v] # "idle" /\ mode[v] # "install" /\ v # u
      BY <1>2, <2>2 DEF Reads, Writes
    <3>2. mode[u] = "install"
      BY <1>1, <1>2, <2>2, <3>1 DEF Callers, Protected
    <3>3. Installs(u) /\ blk[u] \in pinned
      BY <1>1, <1>2, <3>2 DEF Callers, Installs
    <3>4. ~Reads(v)
      BY <1>1, <1>2, <2>2, <3>3 DEF Contents, Backed
    <3>5. Writes(v) => Operates(v)
      BY <3>1 DEF Writes, Operates
    <3> QED
      BY <1>1, <2>2, <3>3, <3>4, <3>5 DEF Callers
  <2> QED
    BY <1>1, <1>2, <2>1, <2>2 DEF Contents, Filled, Unfilled
<1>3. ASSUME NEW b \in Protected, b \notin pinned, \A u \in Users : at[u] = "flush" => blk[u] # b
      PROVE  b \in disk
  BY <1>1, <1>3 DEF Contents, Flushes
<1> QED
  BY <1>2, <1>3 DEF ProtectedBlocksCurrent, Current, Protected

(* Whoever has a buffer of a block that an inode lock protects has its current contents, and
   such a block is on the disk unless it is pinned or being flushed, although buffers are
   recycled and install_blocks runs beside the readers. *)
THEOREM BlocksProtected == Spec => []ProtectedBlocksCurrent
  BY Inductive, HolderCurrent, PTL
=============================================================================
