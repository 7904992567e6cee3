-------------------------- MODULE BufferCacheSteps --------------------------
(***************************************************************************)
(* What every step of the buffer cache does and keeps, for any number of   *)
(* buffers, users and blocks: the keys, the sleep locks and the callers'   *)
(* guarantees.  What Cache::get finds in the ring and what a reference     *)
(* count tells are hypotheses here (Finds, CountTells).                    *)
(***************************************************************************)
EXTENDS BufferInvariant, TLAPS

(* Most leaves take far less than a second; one that a busy machine interrupts is tried again. *)
USE SMTT(60), Z3T(60), SMTT(90), Z3T(90)
-----------------------------------------------------------------------------
(* What the steps do *)

(* Only the place of u changes, and nothing that belongs to users. *)
Goes(u, x, y) ==
    /\ at[u] = x /\ at'[u] = y
    /\ \A v \in Users : v # u => at'[v] = at[v]
    /\ UNCHANGED user

(* Nothing that belongs to another user changes. *)
Only(u) ==
    \A v \in Users : v # u =>
        /\ at'[v] = at[v] /\ blk'[v] = blk[v] /\ mode'[v] = mode[v]
        /\ idx'[v] = idx[v] /\ is_new'[v] = is_new[v]

(* A slot that has the key, or an unused one if none has, gets a reference. *)
Taken(u, b) ==
    /\ idx'[u] \in Slots /\ key' = [key EXCEPT ![idx'[u]] = b]
    /\ counts' = [counts EXCEPT ![idx'[u]] = counts[idx'[u]] + 1]
    /\ \/ key[idx'[u]] = b /\ ~is_new'[u]
       \/ key[idx'[u]] = NoBlock /\ is_new'[u] /\ \A i \in Slots : key[i] # b

(* BufferCache::get takes such a slot. *)
LEMMA GetEffect ==
    ASSUME Types, Finds, NEW u \in Users, NEW b \in Blocks, NEW m \in Modes, Get(u, b, m)
    PROVE  /\ at[u] = "idle" /\ at'[u] = "lock" /\ blk'[u] = b /\ mode'[u] = m /\ Allowed(b, m)
           /\ Only(u) /\ UNCHANGED <<locked, data, disk, pinned>> /\ Types' /\ Taken(u, b)
<1>1. PICK i \in Lookup(b) :
        /\ key' = [key EXCEPT ![i] = b]
        /\ counts' = [counts EXCEPT ![i] = @ + 1]
        /\ idx' = [idx EXCEPT ![u] = i]
  BY ZenonT(60) DEF Get, RcGet
<1>2. i \in Slots /\ ((key[i] = b /\ Find(b) # {}) \/ (key[i] = NoBlock /\ Find(b) = {}))
  BY ZenonT(60) DEF Finds
<1>3. /\ at[u] = "idle" /\ Allowed(b, m)
      /\ is_new' = [is_new EXCEPT ![u] = (Find(b) = {})]
      /\ blk' = [blk EXCEPT ![u] = b]
      /\ mode' = [mode EXCEPT ![u] = m]
      /\ at' = [at EXCEPT ![u] = "lock"]
      /\ UNCHANGED <<locked, data, disk, pinned>>
  BY ZenonT(60) DEF Get, RcGet
<1>4. idx'[u] = i /\ at'[u] = "lock" /\ blk'[u] = b /\ mode'[u] = m /\ is_new'[u] = (Find(b) = {})
  BY <1>1, <1>3, ZenonT(60) DEF Types
<1>5. Only(u)
  BY <1>1, <1>3, ZenonT(60) DEF Types, Only
<1>6. key' \in [Slots -> Blocks \cup {NoBlock}] /\ counts' \in [Slots -> Int]
  BY <1>1, <1>2 DEF Types
<1>7. Types'
  <2>1. at' \in [Users -> Places] /\ mode' \in [Users -> Modes] /\ blk' \in [Users -> Blocks \cup {NoBlock}]
    BY <1>3 DEF Types, Places
  <2>2. idx' \in [Users -> Slots]
    BY <1>1, <1>2 DEF Types
  <2>3. is_new' \in [Users -> BOOLEAN]
    BY <1>3, ZenonT(60) DEF Types
  <2> QED
    BY <1>3, <1>6, <2>1, <2>2, <2>3, ZenonT(60) DEF Types
<1>8. Find(b) = {} => \A j \in Slots : key[j] # b
  BY DEF Find
<1> QED
  BY <1>1, <1>2, <1>3, <1>4, <1>5, <1>7, <1>8, ZenonT(60) DEF Taken

(* SleepLock::lock, when it succeeds *)
LEMMA AcquireEffect ==
    ASSUME Types, NEW u \in Users, Acquire(u)
    PROVE  /\ Goes(u, "lock", "got") /\ UNCHANGED <<cache, data, disk, pinned>> /\ Types'
           /\ ~locked[idx[u]] /\ locked' = [locked EXCEPT ![idx[u]] = TRUE]
  BY DEF Types, Acquire, Goes, Places, cache, user

(* and when it does not. *)
LEMMA SleepEffect ==
    ASSUME Types, NEW u \in Users, SleepForLock(u)
    PROVE  /\ Goes(u, "lock", "asleep") /\ UNCHANGED <<cache, locked, data, disk, pinned>> /\ Types'
           /\ locked[idx[u]]
  BY DEF Types, SleepForLock, Goes, Places, cache, user

(* with_read and with_write fill the buffer. *)
LEMMA FillEffect ==
    ASSUME Types, NEW u \in Users, Fill(u)
    PROVE  /\ Goes(u, "got", "hold") /\ UNCHANGED <<cache, locked, disk, pinned>> /\ Types'
           /\ \A i \in Slots : i # idx[u] => data'[i] = data[i]
           /\ mode[u] \in {"read", "op"} /\ is_new[u] /\ blk[u] \in disk => data'[idx[u]] = blk[u]
           /\ mode[u] = "install" \/ (mode[u] # "write" /\ ~is_new[u]) => data'[idx[u]] = data[idx[u]]
<1> DEFINE x == IF mode[u] = "write" THEN NoBlock
                ELSE IF mode[u] # "install" /\ is_new[u]
                  THEN IF blk[u] \in disk THEN blk[u] ELSE NoBlock
                ELSE data[idx[u]]
<1>1. /\ at[u] = "got" /\ data' = [data EXCEPT ![idx[u]] = x] /\ at' = [at EXCEPT ![u] = "hold"]
      /\ UNCHANGED <<cache, locked, disk, pinned, user>>
  BY ZenonT(60) DEF Fill
<1>2. /\ x \in Blocks \cup {NoBlock}
      /\ mode[u] \in {"read", "op"} /\ is_new[u] /\ blk[u] \in disk => x = blk[u]
      /\ mode[u] = "install" \/ (mode[u] # "write" /\ ~is_new[u]) => x = data[idx[u]]
  BY DEF Types
<1> HIDE DEF x
<1> QED
  BY <1>1, <1>2 DEF Types, Goes, Places, cache, user

(* Log::write *)
LEMMA LogWriteEffect ==
    ASSUME Types, NEW u \in Users, LogWrite(u)
    PROVE  /\ Goes(u, "hold", "drop") /\ UNCHANGED <<key, ring, locked>> /\ Types'
           /\ mode[u] \in {"op", "write"} /\ blk[u] \in Blocks
           /\ data'[idx[u]] = blk[u]
           /\ \A i \in Slots : data[i] # blk[u] => data'[i] \in {data[i], blk[u]} /\ (i # idx[u] => data'[i] = data[i])
           /\ disk' = disk \ {blk[u]} /\ pinned' = pinned \cup {blk[u]}
           /\ counts' = [counts EXCEPT ![idx[u]] = IF blk[u] \in pinned THEN counts[idx[u]] ELSE counts[idx[u]] + 1]
<1>1. /\ at[u] = "hold" /\ mode[u] \in {"op", "write"} /\ at' = [at EXCEPT ![u] = "drop"]
      /\ UNCHANGED <<key, ring, locked, user>>
  BY ZenonT(60) DEF LogWrite
<1>2. blk[u] \in Blocks /\ idx[u] \in Slots
  BY <1>1 DEF Types
<1>3. /\ data' = [i \in Slots |->
                IF i = idx[u] THEN blk[u]
                ELSE IF data[i] = blk[u] THEN NoBlock ELSE data[i]]
      /\ disk' = disk \ {blk[u]} /\ pinned' = pinned \cup {blk[u]}
      /\ counts' = [counts EXCEPT ![idx[u]] = IF blk[u] \in pinned THEN counts[idx[u]] ELSE counts[idx[u]] + 1]
  BY ZenonT(60) DEF LogWrite, NewVersion, Pin
<1>4. /\ data'[idx[u]] = blk[u]
      /\ \A i \in Slots : data[i] # blk[u] => data'[i] \in {data[i], blk[u]} /\ (i # idx[u] => data'[i] = data[i])
  BY <1>2, <1>3
<1>5. data' \in [Slots -> Blocks \cup {NoBlock}] /\ counts' \in [Slots -> Int]
  BY <1>2, <1>3 DEF Types
<1>6. Goes(u, "hold", "drop") /\ at' \in [Users -> Places]
  BY <1>1 DEF Types, Goes, Places, user
<1> QED
  BY <1>1, <1>2, <1>3, <1>4, <1>5, <1>6 DEF Types, user

(* install_blocks unpins the block *)
LEMMA UnpinEffect ==
    ASSUME Types, NEW u \in Users, Unpin(u)
    PROVE  /\ Goes(u, "hold", "flush") /\ UNCHANGED <<key, ring, locked, data, disk>> /\ Types'
           /\ mode[u] = "install" /\ pinned' = pinned \ {blk[u]}
           /\ counts' = [counts EXCEPT ![idx[u]] = counts[idx[u]] - 1]
  BY DEF Types, Unpin, Goes, Places, cache, user

(* and flushes the buffer. *)
LEMMA FlushEffect ==
    ASSUME Types, NEW u \in Users, Flush(u)
    PROVE  /\ Goes(u, "flush", "drop") /\ UNCHANGED <<cache, locked, data, pinned>> /\ Types'
           /\ \A b \in Blocks : b # blk[u] => (b \in disk' <=> b \in disk)
           /\ data[idx[u]] = blk[u] => blk[u] \in disk'
<1>1. /\ at[u] = "flush" /\ at' = [at EXCEPT ![u] = "drop"]
      /\ disk' = (IF data[idx[u]] = blk[u] THEN disk \cup {blk[u]} ELSE disk \ {blk[u]})
      /\ UNCHANGED <<cache, locked, data, pinned, user>>
  BY ZenonT(60) DEF Flush
<1>2. blk[u] \in Blocks
  BY <1>1 DEF Types
<1>3. /\ disk' \subseteq Blocks
      /\ \A b \in Blocks : b # blk[u] => (b \in disk' <=> b \in disk)
      /\ data[idx[u]] = blk[u] => blk[u] \in disk'
  BY <1>1, <1>2 DEF Types
<1> QED
  BY <1>1, <1>3 DEF Types, Goes, Places, cache, user

(* RcCache::release gives back the reference, and the last one frees the slot. *)
LEMMA ReleaseEffect ==
    ASSUME Types, NEW u \in Users, Release(u)
    PROVE  /\ Goes(u, at[u], "unlock") /\ UNCHANGED <<locked, data, disk, pinned>> /\ Types'
           /\ at[u] = "drop" \/ (at[u] = "hold" /\ mode[u] \in {"read", "op"})
           /\ counts' = [counts EXCEPT ![idx[u]] = counts[idx[u]] - 1]
           /\ counts[idx[u]] = 1 => key' = [key EXCEPT ![idx[u]] = NoBlock]
           /\ counts[idx[u]] # 1 => key' = key
<1>1. /\ Done(u) /\ at' = [at EXCEPT ![u] = "unlock"]
      /\ counts' = [counts EXCEPT ![idx[u]] = counts[idx[u]] - 1]
      /\ UNCHANGED <<locked, data, disk, pinned, user>>
  BY ZenonT(60) DEF Release, RcRelease
<1>2. /\ counts[idx[u]] = 1 => key' = [key EXCEPT ![idx[u]] = NoBlock]
      /\ counts[idx[u]] # 1 => key' = key
  BY ZenonT(60) DEF Release, RcRelease, Remove
<1>3. key' \in [Slots -> Blocks \cup {NoBlock}]
  BY <1>2 DEF Types
<1>4. at[u] = "drop" \/ (at[u] = "hold" /\ mode[u] \in {"read", "op"})
  BY <1>1 DEF Done
<1>5. Goes(u, at[u], "unlock") /\ at' \in [Users -> Places]
  BY <1>1 DEF Types, Goes, Places
<1>6. counts' \in [Slots -> Int]
  BY <1>1 DEF Types
<1>7. Types'
  <2>1. \A v \in Users : at'[v] # "idle" => blk'[v] \in Blocks
    BY <1>1, <1>4 DEF Types, user
  <2> QED
    BY <1>1, <1>3, <1>5, <1>6, <2>1, ZenonT(60) DEF Types, user
<1> QED
  BY <1>1, <1>2, <1>4, <1>5, <1>7, ZenonT(60)

(* The guard is dropped and wakes those who sleep for the lock. *)
LEMMA UnlockEffect ==
    ASSUME Types, NEW u \in Users, Unlock(u)
    PROVE  /\ at[u] = "unlock" /\ at'[u] = "idle" /\ blk'[u] = NoBlock /\ mode'[u] = "read"
           /\ \A v \in Users : v # u => /\ at'[v] = IF at[v] = "asleep" /\ idx[v] = idx[u] THEN "lock" ELSE at[v]
                                        /\ blk'[v] = blk[v] /\ mode'[v] = mode[v]
                                        /\ idx'[v] = idx[v] /\ is_new'[v] = is_new[v]
           /\ UNCHANGED <<cache, data, disk, pinned>> /\ Types'
           /\ locked' = [locked EXCEPT ![idx[u]] = FALSE]
<1>1. /\ at[u] = "unlock" /\ locked' = [locked EXCEPT ![idx[u]] = FALSE]
      /\ at' = [w \in Users |->
                  IF w = u THEN "idle"
                  ELSE IF at[w] = "asleep" /\ idx[w] = idx[u] THEN "lock" ELSE at[w]]
      /\ mode' = [mode EXCEPT ![u] = "read"]
      /\ blk' = [blk EXCEPT ![u] = NoBlock]
      /\ idx' = [idx EXCEPT ![u] = 0]
      /\ is_new' = [is_new EXCEPT ![u] = FALSE]
      /\ UNCHANGED <<cache, data, disk, pinned>>
  BY ZenonT(60) DEF Unlock, Forget
<1>2. 0 \in Slots
  BY SizeAssumption DEF Slots
<1>3. at' \in [Users -> Places]
  BY <1>1 DEF Types, Places
<1>4. /\ mode' \in [Users -> Modes] /\ blk' \in [Users -> Blocks \cup {NoBlock}]
      /\ idx' \in [Users -> Slots] /\ is_new' \in [Users -> BOOLEAN]
  BY <1>1, <1>2 DEF Types, Modes
<1>5. Types'
  BY <1>1, <1>3, <1>4 DEF Types, cache
<1> QED
  BY <1>1, <1>5 DEF Types
-----------------------------------------------------------------------------
(* The keys *)

(* A buffer keeps its key as long as somebody refers to it, and pinned blocks stay. *)
LEMMA StepKeyed ==
    ASSUME Types, Finds, Keyed, CountTells, Next
    PROVE  Keyed'
<1>0. NoBlock \notin Blocks /\ \A i \in Slots : key[i] = NoBlock <=> counts[i] = 0
  BY BlockAssumption DEF CountTells
<1>1. PICK u \in Users : Step(u) \/ \E b \in Blocks, m \in Modes : Get(u, b, m)
  BY ZenonT(60) DEF Next
<1>2. ASSUME NEW b \in Blocks, NEW m \in Modes, Get(u, b, m) PROVE Keyed'
  <2>1. /\ at[u] = "idle" /\ at'[u] = "lock" /\ blk'[u] = b /\ pinned' = pinned /\ Only(u) /\ Taken(u, b)
    BY <1>2, GetEffect, ZenonT(60)
  <2>i. PICK i \in Slots : i = idx'[u]
    BY <2>1, ZenonT(60) DEF Taken
  <2>2. /\ i \in Slots /\ key'[i] = b /\ \A j \in Slots : j # i => key'[j] = key[j]
        /\ key[i] = b \/ (key[i] = NoBlock /\ \A j \in Slots : key[j] # b)
    BY <2>1, <2>i DEF Taken, Types
  <2>3. ASSUME NEW v \in Users, v # u, Refers(v)' PROVE key'[idx'[v]] = blk'[v]
    <3>1. at'[v] = at[v] /\ idx'[v] = idx[v] /\ blk'[v] = blk[v]
      BY <2>1, <2>3, ZenonT(60) DEF Only
    <3>2. key[idx[v]] = blk[v] /\ blk[v] \in Blocks /\ idx[v] \in Slots
      BY <2>3, <3>1 DEF Keyed, Refers, Types
    <3> QED
      BY <1>0, <2>2, <3>1, <3>2
  <2>4. \A j, k \in Slots : key'[j] = key'[k] /\ key'[j] # NoBlock => j = k
    BY <1>0, <2>2 DEF Keyed
  <2>5. \A c \in pinned' : \E j \in Slots : key'[j] = c
    BY <1>0, <2>1, <2>2 DEF Keyed, Types
  <2>6. key'[idx'[u]] = blk'[u]
    BY <2>1, <2>2, <2>i
  <2> QED
    BY <2>3, <2>4, <2>5, <2>6, ZenonT(60) DEF Keyed
<1>3. CASE Acquire(u) \/ SleepForLock(u) \/ Fill(u) \/ Flush(u) \/ Unpin(u)
  <2>1. key' = key /\ pinned' \subseteq pinned /\ \E x, y \in Places \ {"idle", "unlock"} : Goes(u, x, y)
    <3>1. {"lock", "asleep", "got", "hold", "flush", "drop"} \subseteq Places \ {"idle", "unlock"}
      BY DEF Places
    <3>2. CASE Acquire(u) \/ SleepForLock(u)
      BY <3>1, <3>2, AcquireEffect, SleepEffect, ZenonT(60) DEF cache
    <3>3. CASE Fill(u) \/ Flush(u)
      BY <3>1, <3>3, FillEffect, FlushEffect, ZenonT(60) DEF cache
    <3>4. CASE Unpin(u)
      BY <3>1, <3>4, UnpinEffect, ZenonT(60)
    <3> QED
      BY <1>3, <3>2, <3>3, <3>4, ZenonT(60)
  <2> QED
    BY <2>1 DEF Keyed, Refers, Goes, user
<1>4. CASE LogWrite(u)
  <2>1. Goes(u, "hold", "drop") /\ key' = key /\ pinned' = pinned \cup {blk[u]}
    BY <1>4, LogWriteEffect, ZenonT(60)
  <2>2. key[idx[u]] = blk[u] /\ idx[u] \in Slots
    BY <2>1 DEF Goes, Keyed, Refers, Types
  <2> QED
    BY <2>1, <2>2 DEF Keyed, Refers, Goes, user
<1>5. CASE Release(u)
  <2>1. /\ Goes(u, at[u], "unlock") /\ pinned' = pinned /\ (at[u] = "drop" \/ at[u] = "hold")
        /\ counts[idx[u]] = 1 => key' = [key EXCEPT ![idx[u]] = NoBlock]
        /\ counts[idx[u]] # 1 => key' = key
    BY <1>5, ReleaseEffect, ZenonT(60)
  <2>2. CASE counts[idx[u]] # 1
    BY <2>1, <2>2 DEF Keyed, Refers, Goes, user
  <2>3. CASE counts[idx[u]] = 1
    <3> DEFINE i == idx[u]
    <3>1. i \in Slots /\ Refers(u)
      BY <2>1 DEF Types, Refers
    <3>4. key[i] \notin pinned /\ \A v \in Users : Refers(v) /\ idx[v] = i => v = u
      BY <2>3, <3>1, ZenonT(60) DEF CountTells
    <3>6. key'[i] = NoBlock /\ \A j \in Slots : j # i => key'[j] = key[j]
      BY <2>1, <2>3, <3>1 DEF Types
    <3>7. ASSUME NEW v \in Users, Refers(v)' PROVE key'[idx'[v]] = blk'[v]
      <4>1. v # u /\ Refers(v) /\ idx'[v] = idx[v] /\ blk'[v] = blk[v]
        BY <2>1, <3>7 DEF Refers, Goes, user
      <4>2. idx[v] \in Slots /\ idx[v] # i /\ key[idx[v]] = blk[v]
        BY <3>4, <4>1 DEF Types, Keyed
      <4> QED
        BY <3>6, <4>1, <4>2
    <3>8. \A j, k \in Slots : key'[j] = key'[k] /\ key'[j] # NoBlock => j = k
      BY <3>6 DEF Keyed
    <3>9. \A c \in pinned' : \E j \in Slots : key'[j] = c
      BY <2>1, <3>4, <3>6 DEF Keyed
    <3> QED
      BY <3>7, <3>8, <3>9, ZenonT(60) DEF Keyed
  <2> QED
    BY <2>2, <2>3, ZenonT(60)
<1>6. CASE Unlock(u)
  <2>1. /\ at[u] = "unlock" /\ at'[u] = "idle" /\ UNCHANGED <<cache, pinned>>
        /\ \A v \in Users : v # u => /\ at'[v] = IF at[v] = "asleep" /\ idx[v] = idx[u] THEN "lock" ELSE at[v]
                                     /\ blk'[v] = blk[v] /\ idx'[v] = idx[v]
    BY <1>6, UnlockEffect, ZenonT(60)
  <2>2. ASSUME NEW v \in Users, v # u
        PROVE  /\ (at'[v] # "idle" <=> at[v] # "idle") /\ (Refers(v)' <=> Refers(v))
               /\ blk'[v] = blk[v] /\ idx'[v] = idx[v]
    BY <2>1, <2>2 DEF Refers
  <2>3. ~Refers(u)'
    BY <2>1 DEF Refers
  <2> HIDE DEF Refers
  <2> QED
    BY <2>1, <2>2, <2>3 DEF Keyed, cache
<1> QED
  BY <1>1, <1>2, <1>3, <1>4, <1>5, <1>6, ZenonT(60) DEF Step
-----------------------------------------------------------------------------
(* The sleep locks *)

(* Every step keeps the sleep locks exclusive. *)
LEMMA StepExcluded ==
    ASSUME Types, Finds, Keyed, Excluded, Next
    PROVE  Excluded'
<1>1. PICK u \in Users : Step(u) \/ \E b \in Blocks, m \in Modes : Get(u, b, m)
  BY ZenonT(60) DEF Next
<1>2. ASSUME NEW b \in Blocks, NEW m \in Modes, Get(u, b, m) PROVE Excluded'
  <2>1. at[u] = "idle" /\ at'[u] = "lock" /\ locked' = locked /\ Only(u)
    BY <1>2, GetEffect, ZenonT(60)
  <2> QED
    BY <2>1 DEF Excluded, Holds, Only
<1>3. CASE Acquire(u)
  <2>1. /\ Goes(u, "lock", "got") /\ ~locked[idx[u]] /\ locked' = [locked EXCEPT ![idx[u]] = TRUE]
    BY <1>3, AcquireEffect, ZenonT(60)
  <2> QED
    BY <2>1 DEF Excluded, Holds, Goes, user, Types
<1>4. CASE SleepForLock(u)
  <2>1. /\ Goes(u, "lock", "asleep") /\ locked[idx[u]] /\ locked' = locked
    BY <1>4, SleepEffect, ZenonT(60)
  <2> QED
    BY <2>1 DEF Excluded, Holds, Goes, user
<1>5. CASE Fill(u) \/ LogWrite(u) \/ Unpin(u) \/ Flush(u) \/ Release(u)
  <2>1. locked' = locked /\ \E x, y \in {"got", "hold", "flush", "drop", "unlock"} : Goes(u, x, y)
    <3>1. CASE Fill(u) \/ LogWrite(u) \/ Unpin(u) \/ Flush(u)
      BY <3>1, FillEffect, LogWriteEffect, UnpinEffect, FlushEffect, ZenonT(60)
    <3>2. CASE Release(u)
      <4>1. Goes(u, at[u], "unlock") /\ locked' = locked /\ (at[u] = "drop" \/ at[u] = "hold")
        BY <3>2, ReleaseEffect, ZenonT(60)
      <4> QED
        BY <4>1, ZenonT(60)
    <3> QED
      BY <1>5, <3>1, <3>2, ZenonT(60)
  <2> QED
    BY <2>1 DEF Excluded, Holds, Goes, user
<1>6. CASE Unlock(u)
  <2>1. /\ at[u] = "unlock" /\ at'[u] = "idle" /\ locked' = [locked EXCEPT ![idx[u]] = FALSE]
        /\ \A v \in Users : v # u => /\ at'[v] = IF at[v] = "asleep" /\ idx[v] = idx[u] THEN "lock" ELSE at[v]
                                     /\ idx'[v] = idx[v]
    BY <1>6, UnlockEffect, ZenonT(60)
  <2>2. ASSUME NEW v \in Users, v # u
        PROVE  /\ idx'[v] = idx[v] /\ (Holds(v)' <=> Holds(v)) /\ (at'[v] = "asleep" => at[v] = "asleep" /\ idx[v] # idx[u])
    BY <2>1, <2>2 DEF Holds
  <2>3. ~Holds(u)' /\ at'[u] # "asleep" /\ Holds(u)
    BY <2>1 DEF Holds
  <2>4. /\ ~locked'[idx[u]] /\ \A i \in Slots : i # idx[u] => locked'[i] = locked[i]
    BY <2>1 DEF Types
  <2>5. \A v \in Users : idx[v] \in Slots
    BY DEF Types
  <2> HIDE DEF Holds
  <2> QED
    BY <2>2, <2>3, <2>4, <2>5 DEF Excluded
<1> QED
  BY <1>1, <1>2, <1>3, <1>4, <1>5, <1>6, ZenonT(60) DEF Step
-----------------------------------------------------------------------------
(* The callers *)

(* Every step keeps what the callers guarantee. *)
LEMMA StepCallers ==
    ASSUME Types, Finds, Keyed, Callers, Next
    PROVE  Callers'
<1>1. PICK u \in Users : Step(u) \/ \E b \in Blocks, m \in Modes : Get(u, b, m)
  BY ZenonT(60) DEF Next
<1>2. ASSUME NEW b \in Blocks, NEW m \in Modes, Get(u, b, m) PROVE Callers'
  <2>0. /\ at[u] = "idle" /\ at'[u] = "lock" /\ blk'[u] = b /\ mode'[u] = m /\ Allowed(b, m) /\ pinned' = pinned
        /\ Only(u)
    BY <1>2, GetEffect, ZenonT(60)
  <2>1. /\ at[u] = "idle" /\ at'[u] = "lock" /\ blk'[u] = b /\ mode'[u] = m /\ Allowed(b, m) /\ pinned' = pinned
        /\ \A v \in Users : v # u => at'[v] = at[v] /\ blk'[v] = blk[v] /\ mode'[v] = mode[v]
    BY <2>0, ZenonT(60) DEF Only
  <2>2. /\ m \in {"op", "write"} => \A v \in Users : ~Installs(v)
        /\ m = "install" => b \in pinned /\ \A v \in Users : ~Operates(v)
        /\ m = "install" => \A v \in Users : Installs(v) => blk[v] # b
        /\ m # "install" /\ b \notin Shared =>
             \A v \in Users : at[v] # "idle" /\ mode[v] # "install" => blk[v] # b
    BY <2>1 DEF Allowed, Active, Installs, Operates, Types, Modes
  <2> HIDE DEF Modes
  <2>3. (\A v, w \in Users : Installs(v) => ~Operates(w))'
    BY <2>1, <2>2 DEF Callers, Installs, Operates
  <2>4. (\A v, w \in Users : Installs(v) /\ Installs(w) /\ blk[v] = blk[w] => v = w)'
    BY <2>1, <2>2 DEF Callers, Installs, Operates
  <2>5. (\A v \in Users : Installs(v) /\ at[v] \in {"lock", "asleep", "got", "hold"} => blk[v] \in pinned)'
    BY <2>1, <2>2 DEF Callers, Installs
  <2>6. (\A v \in Users : at[v] = "flush" => mode[v] = "install")'
    BY <2>1 DEF Callers
  <2>7. ASSUME NEW v \in Users, NEW w \in Users, at'[v] # "idle", mode'[v] # "install", at'[w] # "idle",
               mode'[w] # "install", blk'[v] = blk'[w], blk'[v] \notin Shared
        PROVE  v = w
    BY <2>1, <2>2, <2>7 DEF Callers
  <2> QED
    BY <2>3, <2>4, <2>5, <2>6, <2>7 DEF Callers
<1>3. CASE Acquire(u) \/ SleepForLock(u) \/ Fill(u) \/ Flush(u) \/ LogWrite(u) \/ Release(u)
  <2>1. /\ pinned \subseteq pinned'
        /\ \/ Goes(u, "lock", "got") \/ Goes(u, "lock", "asleep") \/ Goes(u, "got", "hold")
           \/ Goes(u, "flush", "drop") \/ Goes(u, "hold", "drop")
           \/ Goes(u, at[u], "unlock") /\ at[u] \in {"drop", "hold"}
    <3>1. CASE Acquire(u) \/ SleepForLock(u) \/ Fill(u) \/ Flush(u)
      BY <3>1, AcquireEffect, SleepEffect, FillEffect, FlushEffect, ZenonT(60)
    <3>2. CASE LogWrite(u)
      BY <3>2, LogWriteEffect, ZenonT(60)
    <3>3. CASE Release(u)
      BY <3>3, ReleaseEffect, ZenonT(60)
    <3> QED
      BY <1>3, <3>1, <3>2, <3>3, ZenonT(60)
  <2>2. UNCHANGED user
    BY <2>1, ZenonT(60) DEF Goes
  <2>3. /\ at[u] # "idle" /\ at'[u] # "idle" /\ at'[u] # "flush"
        /\ at'[u] \in {"lock", "asleep", "got", "hold"} => at[u] \in {"lock", "asleep", "got", "hold"}
        /\ \A v \in Users : v # u => at'[v] = at[v]
    BY <2>1, ZenonT(60) DEF Goes
  <2> QED
    BY <2>1, <2>2, <2>3 DEF Callers, Installs, Operates, user
<1>4. CASE Unpin(u)
  <2>1. Goes(u, "hold", "flush") /\ mode[u] = "install" /\ pinned' = pinned \ {blk[u]}
    BY <1>4, UnpinEffect, ZenonT(60)
  <2> QED
    BY <2>1 DEF Callers, Installs, Operates, Goes, user
<1>5. CASE Unlock(u)
  <2>1. /\ at[u] = "unlock" /\ at'[u] = "idle" /\ pinned' = pinned
        /\ \A v \in Users : v # u => /\ at'[v] = IF at[v] = "asleep" /\ idx[v] = idx[u] THEN "lock" ELSE at[v]
                                     /\ blk'[v] = blk[v] /\ mode'[v] = mode[v]
    BY <1>5, UnlockEffect, ZenonT(60)
  <2>2. ASSUME NEW v \in Users, v # u
        PROVE  /\ (at'[v] # "idle" <=> at[v] # "idle") /\ (at'[v] = "flush" <=> at[v] = "flush")
               /\ at'[v] \in {"lock", "asleep", "got", "hold"} => at[v] \in {"lock", "asleep", "got", "hold"}
               /\ blk'[v] = blk[v] /\ mode'[v] = mode[v]
    BY <2>1, <2>2
  <2> QED
    BY <2>1, <2>2 DEF Callers, Installs, Operates
<1> QED
  BY <1>1, <1>2, <1>3, <1>4, <1>5, ZenonT(60) DEF Step
-----------------------------------------------------------------------------
(* The types *)

(* Every step keeps the types. *)
LEMMA StepTypes ==
    ASSUME Types, Finds, Next
    PROVE  Types'
<1>1. PICK u \in Users : Step(u) \/ \E b \in Blocks, m \in Modes : Get(u, b, m)
  BY ZenonT(60) DEF Next
<1>2. CASE \E b \in Blocks, m \in Modes : Get(u, b, m)
  BY <1>2, GetEffect, ZenonT(60)
<1>3. CASE Acquire(u) \/ SleepForLock(u) \/ Fill(u) \/ LogWrite(u)
  BY <1>3, AcquireEffect, SleepEffect, FillEffect, LogWriteEffect, ZenonT(60)
<1>4. CASE Unpin(u) \/ Flush(u) \/ Release(u) \/ Unlock(u)
  BY <1>4, UnpinEffect, FlushEffect, ReleaseEffect, UnlockEffect, ZenonT(60)
<1> QED
  BY <1>1, <1>2, <1>3, <1>4, ZenonT(60) DEF Step

(* Cache::new: types *)
LEMMA InitTypes == Init => Types
  BY SizeAssumption, BlockAssumption DEF Init, Types, Slots, Places, Modes
=============================================================================
