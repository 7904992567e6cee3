----------------------------- MODULE BufferCache -----------------------------
(***************************************************************************)
(* The buffer cache (filesystem/buffer.rs) with the reference-counted key  *)
(* cache under it (cache.rs) and the sleep lock of each buffer             *)
(* (sleeplock.rs).                                                         *)
(*                                                                         *)
(* A step is what happens under the cache's spin lock, under the spin lock *)
(* inside a sleep lock, or to a buffer whose sleep lock is held.  A user   *)
(* is one use of one buffer, from get to the drop of the Buffer; a process *)
(* that holds two buffers is two users.  The log is the environment: it    *)
(* installs pinned blocks only while no operation is running.              *)
(*                                                                         *)
(* Operators named Mut... are wrong variants of the definition after them; *)
(* each shows that some property notices that mistake.                     *)
(***************************************************************************)
EXTENDS Integers, FiniteSets

CONSTANTS
    Users,
    N,              \* NBUF
    Blocks, NoBlock,
    Shared          \* blocks that no inode lock protects: inode and bitmap blocks

ASSUME UsersAssumption == IsFiniteSet(Users)
ASSUME SizeAssumption == N \in Nat /\ N > 0
ASSUME BlockAssumption == NoBlock \notin Blocks /\ Shared \subseteq Blocks

Slots == 0..(N - 1)

VARIABLES
    key,            \* Cache.links[i].key
    next, prev,     \* Cache.links[i].next, .prev
    head, tail,     \* Cache.head, .tail
    counts,         \* RcCache.counts
    locked,         \* SleepLockInner.locked of buffer i
    data,           \* SleepLockInner.value of buffer i: the block it is a copy of,
                    \* as last given to log::write, or NoBlock for anything else
    disk,           \* the blocks of which the disk has that same version
    pinned,         \* the blocks in the log's header
    at,             \* where each user is...
    mode,           \* ...what for...
    blk, idx,       \* ...its block and buffer...
    is_new          \* ...and get's second result

ring == <<next, prev, head, tail>>
cache == <<key, ring, counts>>
user == <<mode, blk, idx, is_new>>
vars == <<cache, locked, data, disk, pinned, at, user>>

(* Cache::new links 0, 1, ..., N - 1 into a ring. *)
Init ==
    /\ key = [i \in Slots |-> NoBlock]
    /\ next = [i \in Slots |-> (i + 1) % N]
    /\ prev = [i \in Slots |-> (i + N - 1) % N]
    /\ head = 0 /\ tail = N - 1
    /\ counts = [i \in Slots |-> 0]
    /\ locked = [i \in Slots |-> FALSE]
    /\ data = [i \in Slots |-> NoBlock]
    /\ disk = Blocks
    /\ pinned = {}
    /\ at = [u \in Users |-> "idle"]
    /\ mode = [u \in Users |-> "read"]
    /\ blk = [u \in Users |-> NoBlock]
    /\ idx = [u \in Users |-> 0]
    /\ is_new = [u \in Users |-> FALSE]
-----------------------------------------------------------------------------
(* indexes(): the slots from head along next; indexes_rev(): from tail along
   prev.  Both stop after N slots when the ring is intact. *)
Indexes ==
    LET walk[k \in Slots] == IF k = 0 THEN head ELSE next[walk[k - 1]] IN walk
IndexesRev ==
    LET walk[k \in Slots] == IF k = 0 THEN tail ELSE prev[walk[k - 1]] IN walk

Find(b) == {i \in Slots : key[i] = b}

FindUnused ==
    {IndexesRev[k] : k \in {k \in Slots :
        /\ key[IndexesRev[k]] = NoBlock
        /\ \A j \in 0..(k - 1) : key[IndexesRev[j]] # NoBlock}}

(* Cache::get: the slot that has the key, or else an unused one. *)
Lookup(b) == IF Find(b) # {} THEN Find(b) ELSE FindUnused

(* RcCache::get for user u. *)
RcGet(u, b) ==
    /\ \E i \in Lookup(b) :
        /\ key' = [key EXCEPT ![i] = b]
        /\ counts' = [counts EXCEPT ![i] = @ + 1]
        /\ idx' = [idx EXCEPT ![u] = i]
    /\ is_new' = [is_new EXCEPT ![u] = Find(b) = {}]

(* What the callers guarantee.  with_read: "read" for a process that only looks,
   "op" inside an operation; with_write: "write" for clear_block inside an
   operation, "install" for install_blocks.  A block that an inode lock protects
   has one user at a time besides the log.  Recovery, which runs before the first
   process, is left to the model of the log. *)
Active(m) == {u \in Users : at[u] # "idle" /\ mode[u] \in m}
Allowed(b, m) ==
    /\ m \in {"op", "write"} => Active({"install"}) = {}
    /\ m = "install" => b \in pinned /\ Active({"op", "write"}) = {}
    /\ m = "install" => \A u \in Active({"install"}) : blk[u] # b
    /\ m # "install" /\ b \notin Shared =>
        \A u \in Active({"read", "op", "write"}) : blk[u] # b

(* BufferCache::get up to the release of the cache's lock.  When every slot is
   in use it returns None, and nothing has changed. *)
Get(u, b, m) ==
    /\ at[u] = "idle" /\ Allowed(b, m)
    /\ RcGet(u, b)
    /\ blk' = [blk EXCEPT ![u] = b]
    /\ mode' = [mode EXCEPT ![u] = m]
    /\ at' = [at EXCEPT ![u] = "lock"]
    /\ UNCHANGED <<ring, locked, data, disk, pinned>>

MutAcquire(u) ==            \* takes a locked lock
    /\ at[u] = "lock"
    /\ locked' = [locked EXCEPT ![idx[u]] = TRUE]
    /\ at' = [at EXCEPT ![u] = "got"]
    /\ UNCHANGED <<cache, data, disk, pinned, user>>

(* SleepLock::lock *)
Acquire(u) ==
    /\ at[u] = "lock" /\ ~locked[idx[u]]
    /\ locked' = [locked EXCEPT ![idx[u]] = TRUE]
    /\ at' = [at EXCEPT ![u] = "got"]
    /\ UNCHANGED <<cache, data, disk, pinned, user>>

SleepForLock(u) ==
    /\ at[u] = "lock" /\ locked[idx[u]]
    /\ at' = [at EXCEPT ![u] = "asleep"]
    /\ UNCHANGED <<cache, locked, data, disk, pinned, user>>

(* with_read reads the block from the disk if the buffer is new; with_write
   copies the caller's value: zeroes, or the logged copy, which write_log took
   from this same pinned buffer. *)
Fill(u) ==
    /\ at[u] = "got"
    /\ data' = [data EXCEPT ![idx[u]] =
                    IF mode[u] = "write" THEN NoBlock
                    ELSE IF mode[u] # "install" /\ is_new[u]
                      THEN IF blk[u] \in disk THEN blk[u] ELSE NoBlock
                    ELSE @]
    /\ at' = [at EXCEPT ![u] = "hold"]
    /\ UNCHANGED <<cache, locked, disk, pinned, user>>

(* u's buffer becomes the only copy of the last version of its block. *)
NewVersion(u) ==
    /\ data' = [i \in Slots |->
                IF i = idx[u] THEN blk[u]
                ELSE IF data[i] = blk[u] THEN NoBlock ELSE data[i]]
    /\ disk' = disk \ {blk[u]}

MutPin(u) ==                \* every log::write pins
    /\ counts' = [counts EXCEPT ![idx[u]] = @ + 1]
    /\ pinned' = pinned \cup {blk[u]}

(* Log::write pins a block that is not yet in the header. *)
Pin(u) ==
    /\ counts' = [counts EXCEPT ![idx[u]] = IF blk[u] \in pinned THEN @ ELSE @ + 1]
    /\ pinned' = pinned \cup {blk[u]}

(* An operation changes the buffer and calls log::write. *)
LogWrite(u) ==
    /\ at[u] = "hold" /\ mode[u] \in {"op", "write"}
    /\ NewVersion(u)
    /\ Pin(u)
    /\ at' = [at EXCEPT ![u] = "drop"]
    /\ UNCHANGED <<key, ring, locked, user>>

(* install_blocks: unpin, and then... *)
Unpin(u) ==
    /\ at[u] = "hold" /\ mode[u] = "install"
    /\ counts' = [counts EXCEPT ![idx[u]] = @ - 1]
    /\ pinned' = pinned \ {blk[u]}
    /\ at' = [at EXCEPT ![u] = "flush"]
    /\ UNCHANGED <<key, ring, locked, data, disk, user>>

MutFlush(u) ==              \* does not wait for the disk
    /\ at[u] = "flush"
    /\ at' = [at EXCEPT ![u] = "drop"]
    /\ UNCHANGED <<cache, locked, data, disk, pinned, user>>

(* ...flush the buffer to its home. *)
Flush(u) ==
    /\ at[u] = "flush"
    /\ disk' = IF data[idx[u]] = blk[u] THEN disk \cup {blk[u]} ELSE disk \ {blk[u]}
    /\ at' = [at EXCEPT ![u] = "drop"]
    /\ UNCHANGED <<cache, locked, data, pinned, user>>
-----------------------------------------------------------------------------
MutRemove(i) ==             \* the neighbours are not linked to each other
    /\ key' = [key EXCEPT ![i] = NoBlock]
    /\ IF i = head THEN head' = next[i] /\ tail' = i /\ UNCHANGED <<next, prev>>
       ELSE IF i = tail THEN UNCHANGED ring
       ELSE /\ next' = [next EXCEPT ![i] = head, ![tail] = i]
            /\ prev' = [prev EXCEPT ![i] = tail, ![head] = i]
            /\ tail' = i /\ UNCHANGED head

(* Cache::remove forgets the key and moves the slot to the tail. *)
Remove(i) ==
    /\ key' = [key EXCEPT ![i] = NoBlock]
    /\ IF i = head THEN head' = next[i] /\ tail' = i /\ UNCHANGED <<next, prev>>
       ELSE IF i = tail THEN UNCHANGED ring
       ELSE /\ next' = [[next EXCEPT ![prev[i]] = next[i]]
                             EXCEPT ![i] = head, ![tail] = i]
            /\ prev' = [[prev EXCEPT ![next[i]] = prev[i]]
                             EXCEPT ![i] = tail, ![head] = i]
            /\ tail' = i /\ UNCHANGED head

(* RcCache::release: the last reference frees the slot. *)
RcRelease(i) ==
    /\ counts' = [counts EXCEPT ![i] = @ - 1]
    /\ IF counts[i] = 1 THEN Remove(i) ELSE UNCHANGED <<key, ring>>

(* Drop for Buffer: the reference is given back first... *)
Done(u) == at[u] = "drop" \/ (at[u] = "hold" /\ mode[u] \in {"read", "op"})

Release(u) ==
    /\ Done(u)
    /\ RcRelease(idx[u])
    /\ at' = [at EXCEPT ![u] = "unlock"]
    /\ UNCHANGED <<locked, data, disk, pinned, user>>

(* The Buffer's fields go out of scope. *)
Forget(u) ==
    /\ mode' = [mode EXCEPT ![u] = "read"]
    /\ blk' = [blk EXCEPT ![u] = NoBlock]
    /\ idx' = [idx EXCEPT ![u] = 0]
    /\ is_new' = [is_new EXCEPT ![u] = FALSE]

(* ...and then the sleep lock, whose waiters are woken. *)
Unlock(u) ==
    /\ at[u] = "unlock"
    /\ locked' = [locked EXCEPT ![idx[u]] = FALSE]
    /\ at' = [w \in Users |->
                IF w = u THEN "idle"
                ELSE IF at[w] = "asleep" /\ idx[w] = idx[u] THEN "lock" ELSE at[w]]
    /\ Forget(u)
    /\ UNCHANGED <<cache, data, disk, pinned>>

Step(u) ==
    \/ Acquire(u) \/ SleepForLock(u) \/ Fill(u) \/ LogWrite(u)
    \/ Unpin(u) \/ Flush(u) \/ Release(u) \/ Unlock(u)

Modes == {"read", "op", "write", "install"}

Next ==
    \E u \in Users : Step(u) \/ \E b \in Blocks, m \in Modes : Get(u, b, m)

Spec == Init /\ [][Next]_vars
-----------------------------------------------------------------------------
(* The users with a reference to buffer i. *)
Referring(i) == {u \in Users : at[u] \notin {"idle", "unlock"} /\ idx[u] = i}

(* A buffer counts exactly its users and its pin; it keeps its key as long as
   there is one, so that nobody's buffer is given to another block; and no block
   is in two buffers. *)
ReferencesExact ==
    /\ \A i \in Slots :
        /\ counts[i] = Cardinality(Referring(i))
                         + (IF key[i] \in pinned THEN 1 ELSE 0)
        /\ key[i] = NoBlock <=> counts[i] = 0
        /\ \A u \in Referring(i) : blk[u] = key[i]
    /\ \A i, j \in Slots : key[i] = key[j] /\ key[i] # NoBlock => i = j
    /\ pinned \subseteq {key[i] : i \in Slots}

(* After any sequence of removals the links form one ring through all slots, in
   which prev undoes next and the tail is followed by the head. *)
RingIntact ==
    /\ {Indexes[k] : k \in Slots} = Slots
    /\ Indexes[N - 1] = tail /\ next[tail] = head
    /\ \A i \in Slots : prev[next[i]] = i

(* A sleep lock is held by at most one user, also across the reuse of a buffer
   whose last user has released but not yet unlocked it; and one who sleeps for
   it is woken, because it is held. *)
Holding(i) ==
    {u \in Users : at[u] \in {"got", "hold", "flush", "drop", "unlock"} /\ idx[u] = i}
SleepLockExcludes ==
    /\ \A i \in Slots : Cardinality(Holding(i)) = IF locked[i] THEN 1 ELSE 0
    /\ \A u \in Users : at[u] = "asleep" => locked[idx[u]]

(* A user with the lock of a buffer has the current contents of its block, and a
   block that is neither pinned nor being flushed is safe on the disk. *)
Current(B) ==
    /\ \A u \in Users :
        at[u] = "hold" /\ blk[u] \in B /\ mode[u] # "write" =>
            data[idx[u]] = blk[u]
    /\ \A b \in B :
        b \notin pinned /\ (\A u \in Users : at[u] = "flush" => blk[u] # b) =>
            b \in disk

(* This holds for the blocks that an inode lock protects, although buffers are
   recycled and the log installs blocks while processes read them. *)
ProtectedBlocksCurrent == Current(Blocks \ Shared)

(* What get's callers expect of every block. *)
BlocksCurrent == Current(Blocks)
=============================================================================
