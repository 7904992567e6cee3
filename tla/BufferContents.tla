--------------------------- MODULE BufferContents ---------------------------
(***************************************************************************)
(* What every step of the buffer cache keeps of the contents: a buffer     *)
(* that is filled or pinned has its block's, and a block the callers       *)
(* protect is never read stale.                                            *)
(***************************************************************************)
EXTENDS BufferCacheSteps

(* Most leaves take far less than a second; one that a busy machine interrupts is tried again. *)
USE SMTT(60), Z3T(60), SMTT(90), Z3T(90)

(* What the contents depend on, of a user: whether it fills or flushes, and which block. *)
Kept(v) ==
    /\ (Reads(v)' <=> Reads(v)) /\ (Writes(v)' <=> Writes(v))
    /\ (at'[v] = "flush" <=> at[v] = "flush") /\ blk'[v] = blk[v]
Rests(v) == ~Reads(v) /\ ~Writes(v) /\ at[v] # "flush"

(* A step of u keeps it for the others. *)
LEMMA OthersKept ==
    ASSUME NEW u \in Users, Only(u)
    PROVE  \A v \in Users : v # u => Kept(v)
  BY DEF Only, Kept, Reads, Writes

(* A step that starts and ends no filling and no flush, and changes no block. *)
LEMMA ContentsSame ==
    ASSUME Contents, UNCHANGED <<data, disk, pinned>>,
           \A v \in Users : Kept(v) \/ (Rests(v) /\ Rests(v)'),
           \A i \in Slots : key'[i] = key[i] \/ key'[i] = NoBlock
    PROVE  Contents'
<1>1. \A b : (Flushes(b)' <=> Flushes(b)) /\ (Unfilled(b)' <=> Unfilled(b))
  BY DEF Flushes, Unfilled, Kept, Rests
<1>2. ASSUME NEW i \in Slots PROVE Filled(i)'
  <2>1. CASE key'[i] = key[i]
    BY <1>1, <2>1 DEF Contents, Filled, Protected
  <2>2. CASE key'[i] = NoBlock
    BY <2>2, BlockAssumption DEF Filled, Protected
  <2> QED
    BY <2>1, <2>2
<1>3. ASSUME NEW v \in Users, blk'[v] \in Protected, Reads(v)' PROVE Backed(blk[v])'
  <2>1. Reads(v) /\ blk'[v] = blk[v]
    BY <1>3 DEF Kept, Rests
  <2> QED
    BY <1>1, <1>3, <2>1 DEF Contents, Backed
<1>4. \A b \in Protected : b \notin pinned' /\ ~Flushes(b)' => b \in disk'
  BY <1>1 DEF Contents
<1> QED
  BY <1>2, <1>3, <1>4 DEF Contents, Protected

(* A step of u leaves the other blocks alone. *)
LEMMA Elsewhere ==
    ASSUME NEW u \in Users, Only(u), blk'[u] = blk[u], NEW b, b # blk[u]
    PROVE  (Unfilled(b)' <=> Unfilled(b)) /\ (Flushes(b)' <=> Flushes(b))
<1>1. \A v \in Users : v # u => Kept(v)
  BY OthersKept
<1> QED
  BY <1>1 DEF Unfilled, Flushes, Kept

(* Get: a new buffer is one to be filled, from the disk or by its user. *)
LEMMA GetContents ==
    ASSUME Types, Finds, Keyed, Contents, NEW u \in Users, NEW b \in Blocks, NEW m \in Modes, Get(u, b, m)
    PROVE  Contents'
<1>1. /\ at[u] = "idle" /\ at'[u] = "lock" /\ blk'[u] = b /\ mode'[u] = m /\ Allowed(b, m)
      /\ Only(u) /\ UNCHANGED <<data, disk, pinned>> /\ Taken(u, b)
  BY GetEffect, ZenonT(60)
<1>2. \A v \in Users : v # u => Kept(v)
  BY <1>1, OthersKept
<1>3. Rests(u) /\ at'[u] # "flush"
  BY <1>1 DEF Rests, Reads, Writes
<1>4. \A c : (Flushes(c)' <=> Flushes(c)) /\ (Unfilled(c) => Unfilled(c)')
  BY <1>2, <1>3 DEF Flushes, Unfilled, Kept, Rests
<1>i. PICK i \in Slots : i = idx'[u]
  BY <1>1, ZenonT(60) DEF Taken
<1>5. /\ key'[i] = b /\ \A j \in Slots : j # i => key'[j] = key[j]
      /\ (key[i] = b /\ ~is_new'[u]) \/ (is_new'[u] /\ \A j \in Slots : key[j] # b)
  BY <1>1, <1>i DEF Taken, Types
<1>6. is_new'[u] => b \notin pinned /\ ~Flushes(b)
  BY <1>5 DEF Keyed, Flushes, Refers, Types
<1>7. ASSUME NEW j \in Slots PROVE Filled(j)'
  <2>1. CASE key'[j] = key[j]
    BY <1>1, <1>4, <2>1 DEF Contents, Filled, Protected
  <2>2. CASE j = i /\ is_new'[u]
    <3>1. m # "install"
      BY <1>1, <1>6, <2>2 DEF Allowed
    <3>2. Reads(u)' \/ Writes(u)'
      BY <1>1, <2>2, <3>1 DEF Reads, Writes, Modes
    <3>3. Unfilled(key[j])'
      BY <1>1, <1>5, <2>2, <3>2 DEF Unfilled
    <3> QED
      BY <3>3 DEF Filled
  <2> QED
    BY <1>5, <2>1, <2>2
<1>8. ASSUME NEW v \in Users, blk'[v] \in Protected, Reads(v)' PROVE Backed(blk[v])'
  <2>1. CASE v # u
    BY <1>1, <1>2, <1>4, <1>8, <2>1 DEF Contents, Backed, Kept
  <2>2. CASE v = u
    <3>1. is_new'[u]
      BY <1>8, <2>2 DEF Reads
    <3> QED
      BY <1>1, <1>4, <1>6, <1>8, <2>2, <3>1 DEF Contents, Backed
  <2> QED
    BY <2>1, <2>2
<1>9. \A c \in Protected : c \notin pinned' /\ ~Flushes(c)' => c \in disk'
  BY <1>1, <1>4 DEF Contents
<1> QED
  BY <1>7, <1>8, <1>9 DEF Contents, Protected

(* with_read and with_write: the buffer that is read has the block, because the disk has it. *)
LEMMA FillContents ==
    ASSUME Types, Keyed, Contents, NEW u \in Users, Fill(u)
    PROVE  Contents'
<1>0. Goes(u, "got", "hold")
  BY FillEffect, ZenonT(60)
<1>1. /\ UNCHANGED <<cache, disk, pinned>>
      /\ \A i \in Slots : i # idx[u] => data'[i] = data[i]
      /\ mode[u] \in {"read", "op"} /\ is_new[u] /\ blk[u] \in disk => data'[idx[u]] = blk[u]
      /\ mode[u] = "install" \/ (mode[u] # "write" /\ ~is_new[u]) => data'[idx[u]] = data[idx[u]]
  BY FillEffect, ZenonT(60)
<1>2. /\ Only(u) /\ at[u] = "got" /\ at'[u] = "hold" /\ blk'[u] = blk[u] /\ mode'[u] = mode[u]
  BY <1>0 DEF Goes, Only, user
<1>3. key' = key /\ idx[u] \in Slots /\ key[idx[u]] = blk[u] /\ blk[u] \in Blocks /\ mode[u] \in Modes
  BY <1>1, <1>2 DEF cache, Types, Keyed, Refers
<1>4. \A v \in Users : v # u => Kept(v)
  BY <1>2, OthersKept
<1>5. ~Reads(u)' /\ (Writes(u)' <=> mode[u] = "write") /\ at[u] # "flush" /\ at'[u] # "flush"
  BY <1>2 DEF Reads, Writes
<1>6. \A c : Flushes(c)' <=> Flushes(c)
  BY <1>4, <1>5 DEF Flushes, Kept
<1>i. PICK i \in Slots : i = idx[u]
  BY <1>3
<1>b. PICK b \in Blocks : b = blk[u]
  BY <1>3
<1>7. ASSUME NEW j \in Slots, j # i PROVE Filled(j)'
  <2>1. key[j] \in Blocks => key[j] # blk[u]
    BY <1>3, <1>7, <1>i, BlockAssumption DEF Keyed
  <2>2. key[j] # blk[u] => (Unfilled(key[j])' <=> Unfilled(key[j]))
    BY <1>2, <1>3, Elsewhere
  <2> QED
    BY <1>1, <1>3, <1>7, <1>i, <2>1, <2>2 DEF Contents, Filled, Protected
<1>8. ASSUME b \in Protected, ~Unfilled(b)' PROVE data'[i] = b
  <2>1. mode[u] # "write"
    BY <1>2, <1>5, <1>8, <1>b DEF Unfilled
  <2>2. CASE mode[u] # "install" /\ is_new[u]
    <3>1. mode[u] \in {"read", "op"}
      BY <1>3, <2>1, <2>2 DEF Modes
    <3>2. Reads(u)
      BY <1>2, <2>2, <3>1 DEF Reads
    <3>3. b \in disk
      BY <1>8, <1>b, <3>2 DEF Contents, Backed
    <3> QED
      BY <1>1, <1>b, <1>i, <2>2, <3>1, <3>3
  <2>3. CASE mode[u] = "install" \/ ~is_new[u]
    <3>1. ~Reads(u) /\ ~Writes(u)
      BY <1>2, <2>1, <2>3 DEF Reads, Writes
    <3>2. ~Unfilled(b)
      BY <1>4, <1>8, <3>1 DEF Unfilled, Kept
    <3>3. data[i] = b
      BY <1>3, <1>8, <1>b, <1>i, <3>2 DEF Contents, Filled
    <3> QED
      BY <1>1, <1>i, <2>1, <2>3, <3>3
  <2> QED
    BY <2>2, <2>3
<1>9. ASSUME NEW v \in Users, blk'[v] \in Protected, Reads(v)' PROVE Backed(blk[v])'
  <2>1. v # u /\ Reads(v) /\ blk'[v] = blk[v]
    BY <1>4, <1>5, <1>9 DEF Kept
  <2> QED
    BY <1>1, <1>6, <1>9, <2>1 DEF Contents, Backed
<1>10. \A c \in Protected : c \notin pinned' /\ ~Flushes(c)' => c \in disk'
  BY <1>1, <1>6 DEF Contents
<1>11. Filled(i)'
  BY <1>3, <1>8, <1>b, <1>i DEF Filled, Protected
<1>12. \A j \in Slots : Filled(j)'
  BY <1>7, <1>11
<1> QED
  BY <1>9, <1>10, <1>12 DEF Contents, Protected

(* Log::write: the buffer has the new version, and nobody else is reading a protected block. *)
LEMMA LogWriteContents ==
    ASSUME Types, Keyed, Callers, Contents, NEW u \in Users, LogWrite(u)
    PROVE  Contents'
<1>0. Goes(u, "hold", "drop")
  BY LogWriteEffect, ZenonT(60)
<1>1. /\ key' = key
      /\ mode[u] \in {"op", "write"} /\ blk[u] \in Blocks
      /\ data'[idx[u]] = blk[u]
      /\ \A i \in Slots : data[i] # blk[u] => data'[i] \in {data[i], blk[u]} /\ (i # idx[u] => data'[i] = data[i])
      /\ disk' = disk \ {blk[u]} /\ pinned' = pinned \cup {blk[u]}
  BY LogWriteEffect, ZenonT(60)
<1>2. Only(u) /\ at[u] = "hold" /\ at'[u] = "drop" /\ blk'[u] = blk[u]
  BY <1>0 DEF Goes, Only, user
<1>3. idx[u] \in Slots /\ key[idx[u]] = blk[u]
  BY <1>2 DEF Types, Keyed, Refers
<1>4. \A v \in Users : v # u => Kept(v)
  BY <1>2, OthersKept
<1>5. ~Reads(u)' /\ at[u] # "flush" /\ at'[u] # "flush"
  BY <1>2 DEF Reads
<1>6. \A b : Flushes(b)' <=> Flushes(b)
  BY <1>4, <1>5 DEF Flushes, Kept
<1>7. ASSUME NEW i \in Slots PROVE Filled(i)'
  <2>1. CASE i = idx[u]
    BY <1>1, <1>3, <2>1 DEF Filled
  <2>2. CASE i # idx[u]
    <3>1. key[i] \in Blocks => key[i] # blk[u]
      BY <1>3, <2>2, BlockAssumption DEF Keyed
    <3>2. key[i] # blk[u] => (Unfilled(key[i])' <=> Unfilled(key[i]))
      BY <1>1, <1>2, Elsewhere
    <3> QED
      BY <1>1, <2>2, <3>1, <3>2 DEF Contents, Filled, Protected
  <2> QED
    BY <2>1, <2>2
<1>8. ASSUME NEW v \in Users, blk'[v] \in Protected, Reads(v)' PROVE Backed(blk[v])'
  <2>1. v # u /\ Reads(v) /\ blk'[v] = blk[v]
    BY <1>4, <1>5, <1>8 DEF Kept
  <2>2. at[v] # "idle" /\ mode[v] # "install" /\ at[u] # "idle" /\ mode[u] # "install"
    BY <1>1, <1>2, <2>1 DEF Reads
  <2>3. blk[v] # blk[u]
    BY <1>8, <2>1, <2>2 DEF Callers, Protected
  <2> QED
    BY <1>1, <1>6, <1>8, <2>1, <2>3 DEF Contents, Backed
<1>9. \A b \in Protected : b \notin pinned' /\ ~Flushes(b)' => b \in disk'
  BY <1>1, <1>6 DEF Contents
<1> QED
  BY <1>7, <1>8, <1>9 DEF Contents, Protected

(* A step that starts or ends a flush of u's block: nobody fills another buffer because of it. *)
LEMMA FillingSame ==
    ASSUME NEW u \in Users, Only(u), blk'[u] = blk[u], Reads(u)' <=> Reads(u), Writes(u)' <=> Writes(u)
    PROVE  /\ \A v \in Users : (Reads(v)' <=> Reads(v)) /\ blk'[v] = blk[v]
           /\ \A b : Unfilled(b)' <=> Unfilled(b)
<1>1. \A v \in Users : v # u => Kept(v)
  BY OthersKept
<1> QED
  BY <1>1 DEF Unfilled, Kept

(* Buffer::unpin: the block is being flushed now. *)
LEMMA UnpinContents ==
    ASSUME Types, Keyed, Callers, Contents, NEW u \in Users, Unpin(u)
    PROVE  Contents'
<1>1. /\ Goes(u, "hold", "flush") /\ UNCHANGED <<key, data, disk>>
      /\ mode[u] = "install" /\ pinned' = pinned \ {blk[u]}
  BY UnpinEffect, ZenonT(60)
<1>2. Only(u) /\ at[u] = "hold" /\ at'[u] = "flush" /\ blk'[u] = blk[u] /\ mode'[u] = mode[u]
  BY <1>1 DEF Goes, Only, user
<1>m. mode[u] = "install"
  BY <1>1, ZenonT(60)
<1>3. (Reads(u)' <=> Reads(u)) /\ (Writes(u)' <=> Writes(u)) /\ Installs(u)
  BY <1>2, <1>m DEF Reads, Writes, Installs
<1>4. /\ \A v \in Users : (Reads(v)' <=> Reads(v)) /\ blk'[v] = blk[v]
      /\ \A b : Unfilled(b)' <=> Unfilled(b)
  BY <1>2, <1>3, FillingSame, ZenonT(60)
<1>5. \A b : Flushes(b)' <=> Flushes(b) \/ b = blk[u]
  BY <1>2 DEF Flushes, Only
<1>6. blk[u] \in pinned
  BY <1>2, <1>3 DEF Callers
<1>7. ASSUME NEW i \in Slots PROVE Filled(i)'
  BY <1>1, <1>4 DEF Contents, Filled, Protected
<1>8. ASSUME NEW v \in Users, blk'[v] \in Protected, Reads(v)' PROVE Backed(blk[v])'
  <2>1. Backed(blk[v]) /\ blk'[v] = blk[v]
    BY <1>4, <1>8 DEF Contents
  <2> QED
    BY <1>1, <1>5, <1>6, <2>1 DEF Backed
<1>9. \A b \in Protected : b \notin pinned' /\ ~Flushes(b)' => b \in disk'
  BY <1>1, <1>5 DEF Contents
<1> QED
  BY <1>7, <1>8, <1>9 DEF Contents, Protected

(* Buffer::flush: the pinned buffer had the contents, so the disk has them. *)
LEMMA FlushContents ==
    ASSUME Types, Keyed, Callers, Contents, NEW u \in Users, Flush(u)
    PROVE  Contents'
<1>1. /\ Goes(u, "flush", "drop") /\ UNCHANGED <<cache, data, pinned>>
      /\ \A b \in Blocks : b # blk[u] => (b \in disk' <=> b \in disk)
      /\ data[idx[u]] = blk[u] => blk[u] \in disk'
  BY FlushEffect, ZenonT(60)
<1>2. Only(u) /\ at[u] = "flush" /\ at'[u] = "drop" /\ blk'[u] = blk[u] /\ mode'[u] = mode[u]
  BY <1>1 DEF Goes, Only, user
<1>3. key' = key /\ idx[u] \in Slots /\ key[idx[u]] = blk[u] /\ Installs(u) /\ Flushes(blk[u])
  <2>1. idx[u] \in Slots /\ key' = key
    BY <1>1, ZenonT(60) DEF Types, cache
  <2>2. key[idx[u]] = blk[u] /\ Flushes(blk[u])
    BY <1>2 DEF Keyed, Refers, Flushes
  <2>3. Installs(u)
    BY <1>2 DEF Callers, Installs
  <2> QED
    BY <2>1, <2>2, <2>3, ZenonT(60)
<1>4. (Reads(u)' <=> Reads(u)) /\ (Writes(u)' <=> Writes(u))
  BY <1>2 DEF Reads, Writes
<1>5. /\ \A v \in Users : (Reads(v)' <=> Reads(v)) /\ blk'[v] = blk[v]
      /\ \A b : Unfilled(b)' <=> Unfilled(b)
  BY <1>2, <1>4, FillingSame, ZenonT(60)
<1>6. \A b : Flushes(b) <=> Flushes(b)' \/ b = blk[u]
  <2>1. \A b : Flushes(b) => Flushes(b)' \/ b = blk[u]
    BY <1>2 DEF Flushes, Only
  <2>2. \A b : Flushes(b)' => Flushes(b)
    BY <1>2 DEF Flushes, Only
  <2> QED
    BY <1>3, <2>1, <2>2, ZenonT(60)
<1>7. ASSUME NEW i \in Slots PROVE Filled(i)'
  BY <1>1, <1>3, <1>5 DEF Contents, Filled, Protected
<1>8. ASSUME NEW v \in Users, blk'[v] \in Protected, Reads(v)' PROVE Backed(blk[v])'
  <2>1. Backed(blk[v]) /\ blk'[v] = blk[v] /\ blk[v] \in Blocks
    BY <1>5, <1>8 DEF Contents, Protected
  <2>2. blk[v] # blk[u]
    BY <1>3, <2>1 DEF Backed
  <2> QED
    BY <1>1, <1>6, <2>1, <2>2 DEF Backed
<1>9. ASSUME NEW b \in Protected, b \notin pinned', ~Flushes(b)' PROVE b \in disk'
  <2>1. CASE b # blk[u]
    BY <1>1, <1>6, <1>9, <2>1 DEF Contents, Protected
  <2>2. CASE b = blk[u]
    <3>1. ASSUME NEW v \in Users, blk[v] = b, Reads(v) PROVE FALSE
      BY <1>3, <2>2, <3>1 DEF Contents, Backed
    <3>2. ASSUME NEW v \in Users, Writes(v) PROVE FALSE
      <4>1. Operates(v)
        BY <3>2 DEF Writes, Operates
      <4> QED
        BY <1>3, <4>1 DEF Callers
    <3>3. ~Unfilled(b)
      BY <3>1, <3>2 DEF Unfilled
    <3>4. data[idx[u]] = b
      BY <1>3, <2>2, <3>3 DEF Contents, Filled
    <3> QED
      BY <1>1, <2>2, <3>4
  <2> QED
    BY <2>1, <2>2
<1> QED
  BY <1>7, <1>8, <1>9 DEF Contents, Protected

(* Every step keeps the contents. *)
LEMMA StepContents ==
    ASSUME Types, Finds, Keyed, Callers, Contents, Next
    PROVE  Contents'
<1>1. PICK u \in Users : Step(u) \/ \E b \in Blocks, m \in Modes : Get(u, b, m)
  BY ZenonT(60) DEF Next
<1>2. CASE \E b \in Blocks, m \in Modes : Get(u, b, m)
  BY <1>2, GetContents, ZenonT(60)
<1>3. CASE Fill(u) \/ LogWrite(u) \/ Unpin(u) \/ Flush(u)
  BY <1>3, FillContents, LogWriteContents, UnpinContents, FlushContents, ZenonT(60)
<1>4. CASE Acquire(u) \/ SleepForLock(u)
  <2>1. /\ Goes(u, "lock", "got") \/ Goes(u, "lock", "asleep")
        /\ UNCHANGED <<cache, data, disk, pinned>>
    BY <1>4, AcquireEffect, SleepEffect, ZenonT(60)
  <2>2. \A v \in Users : Kept(v)
    BY <2>1 DEF Goes, user, Kept, Reads, Writes
  <2> QED
    BY <2>1, <2>2, ContentsSame DEF cache
<1>5. CASE Release(u)
  <2>1. /\ Goes(u, at[u], "unlock") /\ UNCHANGED <<data, disk, pinned>>
        /\ at[u] = "drop" \/ (at[u] = "hold" /\ mode[u] \in {"read", "op"})
    BY <1>5, ReleaseEffect, ZenonT(60)
  <2>2. \A i \in Slots : key'[i] = key[i] \/ key'[i] = NoBlock
    <3>1. key' = key \/ key' = [key EXCEPT ![idx[u]] = NoBlock]
      BY <1>5, ReleaseEffect, ZenonT(60)
    <3> QED
      BY <3>1 DEF Types
  <2>3. \A v \in Users : Kept(v)
    BY <2>1 DEF Goes, user, Kept, Reads, Writes
  <2> QED
    BY <2>1, <2>2, <2>3, ContentsSame
<1>6. CASE Unlock(u)
  <2>1. /\ at[u] = "unlock" /\ at'[u] = "idle" /\ UNCHANGED <<cache, data, disk, pinned>>
        /\ \A v \in Users : v # u => /\ at'[v] = IF at[v] = "asleep" /\ idx[v] = idx[u] THEN "lock" ELSE at[v]
                                     /\ blk'[v] = blk[v] /\ mode'[v] = mode[v] /\ is_new'[v] = is_new[v]
    BY <1>6, UnlockEffect, ZenonT(60)
  <2>2. \A v \in Users : v # u => Kept(v)
    BY <2>1 DEF Kept, Reads, Writes
  <2>3. Rests(u) /\ Rests(u)'
    BY <2>1 DEF Rests, Reads, Writes
  <2> QED
    BY <2>1, <2>2, <2>3, ContentsSame DEF cache
<1> QED
  BY <1>1, <1>2, <1>3, <1>4, <1>5, <1>6, ZenonT(60) DEF Step
=============================================================================
