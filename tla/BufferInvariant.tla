-------------------------- MODULE BufferInvariant --------------------------
(***************************************************************************)
(* The inductive invariant of the buffer cache: what each step of each     *)
(* user keeps, and from which the properties of BufferCache follow.        *)
(***************************************************************************)
EXTENDS BufferCache

(* Where a user can be. *)
Places == {"idle", "lock", "asleep", "got", "hold", "flush", "drop", "unlock"}

Types ==
    /\ key \in [Slots -> Blocks \cup {NoBlock}]
    /\ counts \in [Slots -> Int]
    /\ locked \in [Slots -> BOOLEAN]
    /\ data \in [Slots -> Blocks \cup {NoBlock}]
    /\ disk \subseteq Blocks /\ pinned \subseteq Blocks
    /\ at \in [Users -> Places]
    /\ mode \in [Users -> Modes]
    /\ blk \in [Users -> Blocks \cup {NoBlock}]
    /\ idx \in [Users -> Slots]
    /\ is_new \in [Users -> BOOLEAN]
    /\ \A u \in Users : at[u] # "idle" => blk[u] \in Blocks

(* The slots in the order of the ring. *)
Order(p) ==
    /\ p \in [Slots -> Slots]
    /\ \A j, k \in Slots : p[j] = p[k] => j = k
    /\ \A i \in Slots : \E k \in Slots : p[k] = i
Linked(p) ==
    /\ p[0] = head /\ p[N - 1] = tail
    /\ next[tail] = head /\ prev[head] = tail
    /\ \A k \in 0..(N - 2) : next[p[k]] = p[k + 1] /\ prev[p[k + 1]] = p[k]
RingOK ==
    /\ next \in [Slots -> Slots] /\ prev \in [Slots -> Slots]
    /\ \E p \in [Slots -> Slots] : Order(p) /\ Linked(p)

(* What Cache::get finds: the slot with the key, or else an unused one. *)
Finds ==
    \A b \in Blocks : \A i \in Lookup(b) :
        i \in Slots /\ ((key[i] = b /\ Find(b) # {}) \/ (key[i] = NoBlock /\ Find(b) = {}))

(* The users with a reference, in whose buffer nothing but their block is. *)
Refers(u) == at[u] \notin {"idle", "unlock"}
Keyed ==
    /\ \A u \in Users : Refers(u) => key[idx[u]] = blk[u]
    /\ \A i, j \in Slots : key[i] = key[j] /\ key[i] # NoBlock => i = j
    /\ \A b \in pinned : \E i \in Slots : key[i] = b

(* A buffer counts its users and its pin. *)
Pinned(i) == IF key[i] \in pinned THEN 1 ELSE 0
Counted ==
    \A i \in Slots :
        /\ counts[i] = Cardinality(Referring(i)) + Pinned(i)
        /\ key[i] = NoBlock <=> counts[i] = 0

(* What RcCache::release learns from a count: whether the buffer is in use, and whether
   its caller's reference is the last one. *)
CountTells ==
    /\ \A i \in Slots : key[i] = NoBlock <=> counts[i] = 0
    /\ \A u \in Users : Refers(u) /\ counts[idx[u]] = 1 =>
         /\ key[idx[u]] \notin pinned
         /\ \A v \in Users : Refers(v) /\ idx[v] = idx[u] => v = u

(* A buffer's sleep lock is held by one user at a time. *)
Holds(u) == at[u] \in {"got", "hold", "flush", "drop", "unlock"}
Excluded ==
    /\ \A u, v \in Users : Holds(u) /\ Holds(v) /\ idx[u] = idx[v] => u = v
    /\ \A u \in Users : Holds(u) => locked[idx[u]]
    /\ \A i \in Slots : locked[i] => \E u \in Users : Holds(u) /\ idx[u] = i
    /\ \A u \in Users : at[u] = "asleep" => locked[idx[u]]

(* The callers: the log installs pinned blocks, each once, and while no operation is
   running; a protected block has one other user. *)
Installs(u) == at[u] # "idle" /\ mode[u] = "install"
Operates(u) == at[u] # "idle" /\ mode[u] \in {"op", "write"}
Callers ==
    /\ \A u, v \in Users : Installs(u) => ~Operates(v)
    /\ \A u, v \in Users : Installs(u) /\ Installs(v) /\ blk[u] = blk[v] => u = v
    /\ \A u \in Users : Installs(u) /\ at[u] \in {"lock", "asleep", "got", "hold"} => blk[u] \in pinned
    /\ \A u \in Users : at[u] = "flush" => mode[u] = "install"
    /\ \A u, v \in Users :
         /\ at[u] # "idle" /\ mode[u] # "install" /\ at[v] # "idle" /\ mode[v] # "install"
         /\ blk[u] = blk[v] /\ blk[u] \notin Shared
         => u = v

(* A user who has yet to fill its buffer: from the disk, or with a value of its own. *)
Reads(u) == mode[u] \in {"read", "op"} /\ is_new[u] /\ at[u] \in {"lock", "asleep", "got"}
Writes(u) ==
    /\ mode[u] = "write"
    /\ at[u] = "hold" \/ (is_new[u] /\ at[u] \in {"lock", "asleep", "got"})

Protected == Blocks \ Shared

(* The buffer of a protected block has its contents unless someone is filling it; while it
   is read from the disk, the disk has them; and so it does when the block is neither
   pinned nor being flushed. *)
Unfilled(b) == \E u \in Users : blk[u] = b /\ (Reads(u) \/ Writes(u))
Filled(i) == key[i] \in Protected /\ ~Unfilled(key[i]) => data[i] = key[i]
Flushes(b) == \E u \in Users : at[u] = "flush" /\ blk[u] = b
Backed(b) == b \in disk /\ b \notin pinned /\ ~Flushes(b)
Contents ==
    /\ \A i \in Slots : Filled(i)
    /\ \A u \in Users : blk[u] \in Protected /\ Reads(u) => Backed(blk[u])
    /\ \A b \in Protected : b \notin pinned /\ ~Flushes(b) => b \in disk

BInv == Types /\ RingOK /\ Keyed /\ Counted /\ Excluded /\ Callers /\ Contents
=============================================================================
