----------------------------- MODULE FileSystem -----------------------------
(***************************************************************************)
(* Files and directories (fs.rs, filesystem/directory_entry.rs) with the   *)
(* system calls on them (syscall.rs): inodes and blocks on the disk, the   *)
(* inode cache and the sleep lock of each of its slots, and processes that *)
(* open, create, make directories, link, unlink, change directory, write   *)
(* and close.                                                              *)
(*                                                                         *)
(* A step is what a process does under one lock: the cache's spin lock, or *)
(* the sleep lock of an inode that it takes and drops without waiting in   *)
(* between.  Locks held while another is awaited (a directory, while its   *)
(* entry is locked) stay held from one step to another.  References are    *)
(* dropped one step each, in the order Rust drops them.  Every call is one *)
(* transaction of the log, which Log.tla models; here the disk is what the *)
(* running transactions see.                                               *)
(*                                                                         *)
(* Operators named Mut... are wrong variants of the definition after them; *)
(* each shows that some property notices that mistake.                     *)
(***************************************************************************)
EXTENDS Integers, FiniteSets, SequencesExt

CONSTANTS
    Procs,
    NInodes,        \* superblock.ninodes - 1: inode numbers are 1..NInodes
    NBlocks,        \* data blocks, 1..NBlocks
    Slots,          \* of the inode cache: NINODE
    None,           \* no slot, no process, no file
    Paths,          \* the paths that calls use, sequences of names
    FirstName,      \* the name of what an earlier boot may have left in the root
    Calls,          \* the system calls that processes make
    NDIRECT,        \* blocks an inode addresses without its indirect block
    MAXFILE,        \* the largest file, in blocks
    MaxChunk,       \* most blocks written at a time
    PerBlock,       \* directory entries per block
    MaxCalls        \* bound: calls made in a behaviour, not counting close

Inodes == 1..NInodes
Blocks == 1..NBlocks
ROOTINO == 1
Dot == <<".">>
DotDot == <<".", ".">>

ASSUME SlotAssumption == None \notin Slots /\ None \notin Procs /\ Slots # {}
ASSUME SizeAssumption == NInodes > 1 /\ NBlocks > 1 /\ PerBlock > 2

VARIABLES
    dinode,         \* the inodes on the disk
    dir,            \* the entries in a directory's blocks, inum 0 for an unused one
    used,           \* the block bitmap
    slot,           \* the inode cache: key, reference count, sleep lock, copy of the inode
    st,             \* where each process is in its call
    cwd,            \* ProcessContext.cwd
    file,           \* the open file of each process, one descriptor each
    calls           \* calls made so far

disk == <<dinode, dir, used>>
vars == <<disk, slot, st, cwd, file, calls>>

Unused == [kind |-> "Unused", nlink |-> 0, size |-> 0, addrs |-> <<>>]
Entry(n, i) == [name |-> n, inum |-> i]
Empty == [key |-> None, count |-> 0, owner |-> None, initialized |-> FALSE, inode |-> Unused]
Idle == [pc |-> "idle", call |-> "none", path |-> <<>>, new |-> <<>>,
         ref |-> None, ino |-> None, held |-> FALSE, drops |-> <<>>, reclaim |-> "no"]

(* The root directory as mkfs writes it, or with what an earlier boot has left in it,
   a file or an empty directory; every process works in it. *)
Init ==
    /\ \E kind \in {"Unused", "File", "Directory"} :
         LET isdir == kind = "Directory"
             first == [kind |-> kind, nlink |-> 1, size |-> 0, addrs |-> IF isdir THEN <<2>> ELSE <<>>]
             root == [kind |-> "Directory", nlink |-> IF isdir THEN 2 ELSE 1, size |-> 0, addrs |-> <<1>>]
             dots(i) == <<Entry(Dot, i), Entry(DotDot, ROOTINO)>>
         IN  /\ dinode = [i \in Inodes |->
                    IF i = ROOTINO THEN root ELSE IF i = 2 /\ kind # "Unused" THEN first ELSE Unused]
             /\ dir = [i \in Inodes |->
                    CASE i = ROOTINO -> dots(i) \o IF kind = "Unused" THEN <<>> ELSE <<Entry(FirstName, 2)>>
                      [] i = 2 /\ isdir -> dots(i)
                      [] OTHER -> <<>>]
             /\ used = IF isdir THEN {1, 2} ELSE {1}
    /\ LET s == CHOOSE t \in Slots : TRUE
       IN  /\ slot = [t \in Slots |-> IF t # s THEN Empty
                  ELSE [Empty EXCEPT !.key = ROOTINO, !.count = Cardinality(Procs)]]
           /\ cwd = [p \in Procs |-> s]
    /\ st = [p \in Procs |-> Idle]
    /\ file = [p \in Procs |-> None]
    /\ calls = 0
-----------------------------------------------------------------------------
(* The inode cache. *)

(* RcCache::get finds the slot that has the key, or an unused one.  Which
   unused one is BufferCache's subject. *)
SlotOf(i) ==
    LET has == {s \in Slots : slot[s].key = i}
        free == {s \in Slots : slot[s].key = None}
    IN  CASE has # {} -> CHOOSE s \in has : TRUE
          [] free # {} -> CHOOSE s \in free : TRUE
          [] OTHER -> None

(* InodeCache::get: a slot that is new for its inode is not initialized. *)
Got(S, s, i) ==
    [S EXCEPT ![s] = IF @.key = i THEN [@ EXCEPT !.count = @ + 1]
                     ELSE [Empty EXCEPT !.key = i, !.count = 1]]

(* InodeReference::clone, InodeCache::duplicate. *)
Duplicated(S, s) == [S EXCEPT ![s].count = @ + 1]

(* The inode that InodeReference::lock's guard gives access to: initialize
   reads it from the disk unless the slot already has it. *)
Locked(s) == IF slot[s].initialized THEN slot[s].inode ELSE dinode[slot[s].key]

(* The slot after a lock, a change of the inode to c, and the unlock. *)
Changed(S, s, c) == [S EXCEPT ![s].inode = c, ![s].initialized = TRUE]

MutKept(S, s, p) == [S EXCEPT ![s].owner = p, ![s].inode = Locked(s), ![s].initialized = TRUE]

(* The slot after a lock that is kept: the guard holds a reference of its own. *)
Kept(S, s, p) == [S EXCEPT ![s].count = @ + 1, ![s].owner = p,
                           ![s].inode = Locked(s), ![s].initialized = TRUE]

Free(s) == s # None /\ slot[s].owner = None

At(p, pc) == st[p].pc = pc /\ st[p].drops = <<>>

(* What a call that ends leaves to drop: R is a reference, G a guard, which is
   unlocked first. *)
R(s) == [s |-> s, guard |-> FALSE]
MutG(s) == [s |-> s, guard |-> FALSE]
G(s) == [s |-> s, guard |-> TRUE]
Return(p, drops) == st' = [st EXCEPT ![p] = [Idle EXCEPT !.drops = drops]]
-----------------------------------------------------------------------------
(* Blocks. *)

(* The blocks of a file or directory of n blocks: one more when it needs the
   indirect block. *)
Need(n) == IF n > NDIRECT THEN n + 1 ELSE n

(* allocate_block, k times or until there is no free block: the lowest clear
   bits of the bitmap. *)
Allocated(k) ==
    LET free == SetToSortSeq(Blocks \ used, <)
    IN  SubSeq(free, 1, IF k < Len(free) THEN k ELSE Len(free))

-----------------------------------------------------------------------------
(* Directories. *)

(* DirectoryEntry::is compares as many bytes as the name has: an entry whose
   name goes on after that matches too. *)
Is(e, name) == IsPrefix(name, e.name)

(* The offset of the first entry that matches, 0 if none does. *)
OffsetOf(d, name) ==
    LET hits == {k \in DOMAIN d : d[k].inum # 0 /\ Is(d[k], name)}
    IN  IF hits = {} THEN 0 ELSE CHOOSE k \in hits : \A j \in hits : k <= j

(* CachedInode::lookup of a name in directory i: the slot of the inode, None
   also when the cache has no room for it. *)
Lookup(i, name) ==
    LET k == OffsetOf(dir[i], name)
    IN  IF k = 0 THEN None ELSE SlotOf(dir[i][k].inum)
Found(S, i, name) == Got(S, Lookup(i, name), dir[i][OffsetOf(dir[i], name)].inum)

(* CachedInode::is_empty, for a directory. *)
IsEmpty(d) == \A k \in DOMAIN d : k > 2 => d[k].inum = 0

(* CachedInode::link after its lookup: the entry takes the place of an unused
   one, or is written at the end, where it may need a block.  c is the inode of
   the directory, d its entries, b the blocks it may take. *)
Insert(c, d, b, e) ==
    LET holes == {k \in DOMAIN d : d[k].inum = 0}
        grows == Len(d) % PerBlock = 0
    IN  CASE holes # {} -> [ok |-> TRUE, c |-> c, b |-> b,
                d |-> [d EXCEPT ![CHOOSE k \in holes : \A j \in holes : k <= j] = e]]
          [] holes = {} /\ ~grows -> [ok |-> TRUE, c |-> c, b |-> b, d |-> Append(d, e)]
          [] holes = {} /\ grows /\ b # <<>> ->
                [ok |-> TRUE, c |-> [c EXCEPT !.addrs = Append(@, Head(b))],
                 b |-> Tail(b), d |-> Append(d, e)]
          [] OTHER -> [ok |-> FALSE, c |-> c, b |-> b, d |-> d]
-----------------------------------------------------------------------------
Count == calls < MaxCalls /\ calls' = calls + 1

(* Every call but write and close starts with a walk along a path, from the root
   for an absolute path and from cwd for another. *)
Start(p) == {SlotOf(ROOTINO), cwd[p]} \ {None}

Begin(p) ==
    /\ At(p, "idle")
    /\ Count
    /\ \E call \in Calls \ {"write"}, path \in Paths, new \in Paths \union {<<>>}, s \in Start(p) :
         /\ call = "link" <=> new # <<>>
         /\ slot' = IF s = cwd[p] THEN Duplicated(slot, s) ELSE Got(slot, s, ROOTINO)
         /\ st' = [st EXCEPT ![p] = [Idle EXCEPT !.pc = "walk", !.call = call,
                       !.path = path, !.new = new, !.ref = s]]
    /\ UNCHANGED <<disk, cwd, file>>

(* search_parent_inode stops before the last element of the path; search_inode,
   for the other calls, goes to its end. *)
ForParent(call) == call \in {"create", "mkdir", "unlink", "link2"}

(* One round of the loop of search_inode and search_parent_inode: the inode is
   locked, must be a directory, and must have the next name. *)
Walk(p) ==
    LET w == st[p]
        s == w.ref
        i == slot[s].key
        c == Locked(s)
        name == Head(w.path)
        S == Changed(slot, s, c)
    IN  /\ At(p, "walk") /\ Free(s)
        /\ \/ /\ c.kind = "Directory" /\ ForParent(w.call) /\ Len(w.path) = 1
              /\ slot' = S
              /\ st' = [st EXCEPT ![p].pc = "parent"]
           \/ /\ c.kind = "Directory" /\ ~(ForParent(w.call) /\ Len(w.path) = 1)
              /\ Lookup(i, name) # None
              /\ slot' = Found(S, i, name)
              /\ st' = [st EXCEPT ![p].ref = Lookup(i, name), ![p].path = Tail(@),
                                  ![p].drops = <<R(s)>>,
                                  ![p].pc = IF Len(w.path) = 1 THEN "target" ELSE "walk"]
           \/ /\ \/ c.kind # "Directory"
                 \/ ~(ForParent(w.call) /\ Len(w.path) = 1) /\ Lookup(i, name) = None
              /\ slot' = S
              /\ IF w.call = "link2"
                 THEN st' = [st EXCEPT ![p].pc = "bad", ![p].ref = None, ![p].drops = <<R(s)>>]
                 ELSE Return(p, <<R(s)>>)
        /\ UNCHANGED <<disk, cwd, file, calls>>
-----------------------------------------------------------------------------
MutTruncate(i, c) ==
    /\ dinode' = [dinode EXCEPT ![i] = [c EXCEPT !.size = 0]]
    /\ dir' = [dir EXCEPT ![i] = <<>>]
    /\ used' = used \ ToSet(c.addrs)

(* CachedInode::truncate and update, for the inode c of number i. *)
Truncate(i, c) ==
    /\ dinode' = [dinode EXCEPT ![i] = [c EXCEPT !.size = 0, !.addrs = <<>>]]
    /\ dir' = [dir EXCEPT ![i] = <<>>]
    /\ used' = used \ ToSet(c.addrs)

(* The end of sys_open, with inode c in slot s of S locked: a directory opens for
   reading only, the descriptor may be taken, and O_TRUNC empties a file. *)
OpenLocked(p, S, s, c) ==
    \E rdonly, trunc \in BOOLEAN :
        LET i == S[s].key
            ok == (c.kind = "Directory" => rdonly) /\ file[p] = None
        IN  /\ file' = IF ok THEN [file EXCEPT ![p] = s] ELSE file
            /\ IF ok /\ trunc /\ ~rdonly /\ c.kind = "File"
               THEN /\ Truncate(i, c)
                    /\ slot' = Duplicated(Changed(S, s, dinode'[i]), s)
               ELSE /\ UNCHANGED disk
                    /\ slot' = IF ok THEN Duplicated(Changed(S, s, c), s) ELSE Changed(S, s, c)

(* sys_open without O_CREATE. *)
Open(p) ==
    LET s == st[p].ref
    IN  /\ At(p, "target") /\ st[p].call = "open" /\ Free(s)
        /\ OpenLocked(p, slot, s, Locked(s))
        /\ Return(p, <<R(s)>>)
        /\ UNCHANGED <<cwd, calls>>

(* sys_chdir: take() empties cwd without dropping the reference in it, so the
   replace that follows has nothing to drop. *)
Chdir(p) ==
    LET s == st[p].ref
        c == Locked(s)
    IN  /\ At(p, "target") /\ st[p].call = "chdir" /\ Free(s)
        /\ slot' = Changed(slot, s, c)
        /\ IF c.kind = "Directory"
           THEN /\ cwd' = [cwd EXCEPT ![p] = s]
                /\ Return(p, <<>>)
           ELSE /\ Return(p, <<R(s)>>)
                /\ UNCHANGED cwd
        /\ UNCHANGED <<disk, file, calls>>

MutMoreLinks(c) == c
MoreLinks(c) == [c EXCEPT !.nlink = @ + 1]

(* fs::link, first part: count the link, then look for the new name's directory. *)
LinkOld(p) ==
    LET s == st[p].ref
        c == Locked(s)
        more == MoreLinks(c)
    IN  /\ At(p, "target") /\ st[p].call = "link" /\ Free(s)
        /\ IF c.kind = "Directory"
           THEN /\ slot' = Changed(slot, s, c)
                /\ Return(p, <<R(s)>>)
                /\ UNCHANGED dinode
           ELSE /\ dinode' = [dinode EXCEPT ![slot[s].key] = more]
                /\ \E t \in Start(p) :
                     /\ slot' = LET S == Changed(slot, s, more)
                                IN  IF t = cwd[p] THEN Duplicated(S, t) ELSE Got(S, t, ROOTINO)
                     /\ st' = [st EXCEPT ![p] = [Idle EXCEPT !.pc = "walk", !.call = "link2",
                                   !.path = st[p].new, !.ref = t, !.ino = s]]
        /\ UNCHANGED <<dir, used, cwd, file, calls>>

(* CachedInode::link of a name to inode n in the directory i, whose inode is c:
   it fails when lookup finds the name, or when there is no block for the entry. *)
LinkIn(i, c, name, n, b) ==
    IF Lookup(i, name) # None THEN [ok |-> FALSE, c |-> c, b |-> b, d |-> dir[i]]
    ELSE Insert(c, dir[i], b, Entry(name, n))

(* fs::link, second part: the entry.  When that fails the directory stays locked
   while `bad' takes the link back. *)
LinkNew(p) ==
    LET s == st[p].ref
        i == slot[s].key
        l == LinkIn(i, Locked(s), Head(st[p].path), slot[st[p].ino].key, Allocated(1))
    IN  /\ At(p, "parent") /\ st[p].call = "link2" /\ Free(s)
        /\ dinode' = [dinode EXCEPT ![i] = l.c]
        /\ dir' = [dir EXCEPT ![i] = l.d]
        /\ used' = used \union ToSet(l.c.addrs)
        /\ IF l.ok
           THEN /\ slot' = Changed(slot, s, l.c)
                /\ Return(p, <<R(s), R(st[p].ino)>>)
           ELSE /\ slot' = Kept(slot, s, p)
                /\ st' = [st EXCEPT ![p].pc = "bad", ![p].held = TRUE]
        /\ UNCHANGED <<cwd, file, calls>>

LinkBad(p) ==
    LET s == st[p].ino
        less == [Locked(s) EXCEPT !.nlink = @ - 1]
    IN  /\ At(p, "bad") /\ Free(s)
        /\ dinode' = [dinode EXCEPT ![slot[s].key] = less]
        /\ slot' = Changed(slot, s, less)
        /\ Return(p, <<R(s)>> \o IF st[p].held THEN <<G(st[p].ref), R(st[p].ref)>> ELSE <<>>)
        /\ UNCHANGED <<dir, used, cwd, file, calls>>
-----------------------------------------------------------------------------
(* fs::create: look for the name in the locked directory. *)
CreateLookup(p) ==
    LET s == st[p].ref
        i == slot[s].key
        name == Head(st[p].path)
    IN  /\ At(p, "parent") /\ st[p].call \in {"create", "mkdir"} /\ Free(s)
        /\ IF Lookup(i, name) # None
           THEN /\ slot' = Found(Changed(slot, s, Locked(s)), i, name)
                /\ st' = [st EXCEPT ![p].pc = "existing", ![p].ino = Lookup(i, name)]
           ELSE /\ slot' = Kept(slot, s, p)
                /\ st' = [st EXCEPT ![p].pc = "alloc", ![p].held = TRUE]
        /\ UNCHANGED <<disk, cwd, file, calls>>

(* The name exists: an open with O_CREATE opens a file that is there. *)
CreateExisting(p) ==
    LET s == st[p].ino
        c == Locked(s)
    IN  /\ At(p, "existing") /\ Free(s)
        /\ IF st[p].call = "create" /\ c.kind = "File"
           THEN OpenLocked(p, slot, s, c)
           ELSE slot' = Changed(slot, s, c) /\ UNCHANGED <<disk, file>>
        /\ Return(p, <<R(s), R(st[p].ref)>>)
        /\ UNCHANGED <<cwd, calls>>

(* allocate_inode: the lowest inode that is unused on the disk.  When the cache
   has no slot for it, create returns and the inode keeps its kind. *)
CreateAlloc(p) ==
    LET free == {i \in Inodes : dinode[i].kind = "Unused"}
        i == CHOOSE j \in free : \A k \in free : j <= k
        fail == <<G(st[p].ref), R(st[p].ref)>>
    IN  /\ At(p, "alloc")
        /\ IF free = {}
           THEN Return(p, fail) /\ UNCHANGED <<dinode, slot>>
           ELSE /\ dinode' = [dinode EXCEPT ![i].kind = IF st[p].call = "mkdir" THEN "Directory" ELSE "File"]
                /\ IF SlotOf(i) = None
                   THEN Return(p, fail) /\ UNCHANGED slot
                   ELSE /\ slot' = Got(slot, SlotOf(i), i)
                        /\ st' = [st EXCEPT ![p].pc = "new", ![p].ino = SlotOf(i)]
        /\ UNCHANGED <<dir, used, cwd, file, calls>>

(* The new inode, locked, gets its link count, its own two entries if it is a
   directory, and its entry in the parent.  When a block is missing for one of
   them the count is set back to 0, and dropping the inode frees it. *)
CreateNew(p) ==
    LET s == st[p].ino
        i == slot[s].key
        ps == st[p].ref
        pi == slot[ps].key
        isdir == st[p].call = "mkdir"
        c == [Locked(s) EXCEPT !.nlink = 1]
        b == Allocated(3)
        own == Insert(c, <<>>, b, Entry(Dot, i))
        dots == IF ~isdir THEN [ok |-> TRUE, c |-> c, b |-> b, d |-> <<>>]
                ELSE IF ~own.ok THEN own
                ELSE Insert(own.c, own.d, own.b, Entry(DotDot, pi))
        l == IF ~dots.ok THEN [ok |-> FALSE, c |-> slot[ps].inode, b |-> dots.b, d |-> dir[pi]]
             ELSE LinkIn(pi, slot[ps].inode, Head(st[p].path), i, dots.b)
        child == IF l.ok THEN dots.c ELSE [dots.c EXCEPT !.nlink = 0]
        parent == IF l.ok /\ isdir THEN MoreLinks(l.c) ELSE l.c
        S == Changed(Changed(slot, s, child), ps, parent)
        fd == l.ok /\ st[p].call = "create" /\ file[p] = None
    IN  /\ At(p, "new") /\ Free(s)
        /\ dinode' = [dinode EXCEPT ![i] = child, ![pi] = parent]
        /\ dir' = [dir EXCEPT ![i] = dots.d, ![pi] = l.d]
        /\ used' = used \union ToSet(child.addrs) \union ToSet(parent.addrs)
        /\ file' = IF fd THEN [file EXCEPT ![p] = s] ELSE file
        /\ slot' = IF ~l.ok THEN S
                   ELSE [S EXCEPT ![s].owner = p, ![s].count = @ + IF fd THEN 2 ELSE 1]
        /\ Return(p, <<R(s), G(ps), R(ps)>> \o IF l.ok THEN <<G(s)>> ELSE <<>>)
        /\ UNCHANGED <<cwd, calls>>
-----------------------------------------------------------------------------
(* fs::unlink: find the entry in the locked directory... *)
UnlinkLookup(p) ==
    LET s == st[p].ref
        i == slot[s].key
        name == Head(st[p].path)
    IN  /\ At(p, "parent") /\ st[p].call = "unlink" /\ Free(s)
        /\ IF Lookup(i, name) = None
           THEN /\ slot' = Changed(slot, s, Locked(s))
                /\ Return(p, <<R(s)>>)
           ELSE /\ slot' = Found(Kept(slot, s, p), i, name)
                /\ st' = [st EXCEPT ![p].pc = "victim", ![p].held = TRUE,
                                    ![p].ino = Lookup(i, name)]
        /\ UNCHANGED <<disk, cwd, file, calls>>

(* ...and with the inode it names locked too, remove the entry and the link. *)
UnlinkVictim(p) ==
    LET s == st[p].ino
        ps == st[p].ref
        pi == slot[ps].key
        c == Locked(s)
        isdir == c.kind = "Directory"
        child == [c EXCEPT !.nlink = @ - 1]
        parent == [slot[ps].inode EXCEPT !.nlink = @ - IF isdir THEN 1 ELSE 0]
    IN  /\ At(p, "victim") /\ Free(s)
        /\ IF isdir /\ ~IsEmpty(dir[slot[s].key])
           THEN /\ slot' = Changed(slot, s, c)
                /\ Return(p, <<R(s), G(ps), R(ps)>>)
                /\ UNCHANGED <<dinode, dir>>
           ELSE /\ dinode' = [dinode EXCEPT ![slot[s].key] = child, ![pi] = parent]
                /\ dir' = [dir EXCEPT ![pi][OffsetOf(dir[pi], Head(st[p].path))] = Entry(<<>>, 0)]
                /\ slot' = Changed(Changed(slot, s, child), ps, parent)
                /\ Return(p, <<G(ps), R(s), R(ps)>>)
        /\ UNCHANGED <<used, cwd, file, calls>>
-----------------------------------------------------------------------------
(* File::write at the end of the file: copy_from for one chunk of k blocks, of
   which the user's memory holds the first j.  A block that cannot be allocated
   makes it return before the size and the inode on the disk are updated. *)
Write(p) ==
    LET s == file[p]
        c == Locked(s)
    IN  /\ At(p, "idle") /\ "write" \in Calls /\ Free(s)
        /\ Count
        /\ c.kind = "File"
        /\ \E k \in 1..MaxChunk : \E j \in 0..k :
             LET reach == IF j = k THEN k ELSE j + 1
                 want == Need(c.size + reach) - Len(c.addrs)
                 b == Allocated(want)
                 grown == [c EXCEPT !.addrs = @ \o b]
                 done == [grown EXCEPT !.size = @ + j]
             IN  /\ c.size + k <= MAXFILE
                 /\ used' = used \union ToSet(b)
                 /\ IF Len(b) < want
                    THEN slot' = Changed(slot, s, grown) /\ UNCHANGED dinode
                    ELSE /\ slot' = Changed(slot, s, done)
                         /\ dinode' = [dinode EXCEPT ![slot[s].key] = done]
        /\ UNCHANGED <<dir, st, cwd, file>>

(* sys_close, File::drop. *)
Close(p) ==
    /\ At(p, "idle") /\ file[p] # None
    /\ Return(p, <<R(file[p])>>)
    /\ file' = [file EXCEPT ![p] = None]
    /\ UNCHANGED <<disk, slot, cwd, calls>>
-----------------------------------------------------------------------------
MutUnlinked(s) == slot[s].initialized /\ slot[s].inode.nlink = 0

(* InodeCache::release finds the last reference to an inode without links. *)
Unlinked(s) == slot[s].count = 1 /\ slot[s].initialized /\ slot[s].inode.nlink = 0

(* InodeGuard::drop and InodeReference::drop, InodeCache::release.  The last
   reference to an inode without links goes on to free the inode, with its
   sleep lock taken and the cache unlocked; any other last one frees the slot. *)
Drop(p) ==
    LET d == Head(st[p].drops)
        s == d.s
        S == IF d.guard THEN [slot EXCEPT ![s].owner = None] ELSE slot
    IN  /\ st[p].drops # <<>> /\ st[p].reclaim = "no"
        /\ IF Unlinked(s)
           THEN /\ slot' = [slot EXCEPT ![s].owner = p]
                /\ st' = [st EXCEPT ![p].reclaim = "truncate"]
           ELSE /\ slot' = [S EXCEPT ![s] = IF @.count = 1 THEN Empty
                                            ELSE [@ EXCEPT !.count = @ - 1]]
                /\ st' = [st EXCEPT ![p].drops = Tail(@)]
        /\ UNCHANGED <<disk, cwd, file, calls>>

ReclaimTruncate(p) ==
    LET s == Head(st[p].drops).s
        i == slot[s].key
    IN  /\ st[p].reclaim = "truncate"
        /\ Truncate(i, slot[s].inode)
        /\ slot' = Changed(slot, s, dinode'[i])
        /\ st' = [st EXCEPT ![p].reclaim = "mark"]
        /\ UNCHANGED <<cwd, file, calls>>

MutReclaimMark(p) ==
    LET s == Head(st[p].drops).s
    IN  /\ st[p].reclaim = "mark"
        /\ dinode' = [dinode EXCEPT ![slot[s].key] = Unused]
        /\ slot' = [slot EXCEPT ![s].inode = Unused, ![s].owner = None]
        /\ st' = [st EXCEPT ![p].reclaim = "release"]
        /\ UNCHANGED <<dir, used, cwd, file, calls>>

ReclaimMark(p) ==
    LET s == Head(st[p].drops).s
    IN  /\ st[p].reclaim = "mark"
        /\ dinode' = [dinode EXCEPT ![slot[s].key] = Unused]
        /\ slot' = [slot EXCEPT ![s].inode = Unused, ![s].initialized = FALSE,
                                ![s].owner = None]
        /\ st' = [st EXCEPT ![p].reclaim = "release"]
        /\ UNCHANGED <<dir, used, cwd, file, calls>>

ReclaimRelease(p) ==
    LET s == Head(st[p].drops).s
    IN  /\ st[p].reclaim = "release"
        /\ slot' = [slot EXCEPT ![s] = IF @.count = 1 THEN Empty ELSE [@ EXCEPT !.count = @ - 1]]
        /\ st' = [st EXCEPT ![p].reclaim = "no", ![p].drops = Tail(@)]
        /\ UNCHANGED <<disk, cwd, file, calls>>
-----------------------------------------------------------------------------
Step(p) ==
    \/ Begin(p) \/ Walk(p) \/ Open(p) \/ Chdir(p)
    \/ LinkOld(p) \/ LinkNew(p) \/ LinkBad(p)
    \/ CreateLookup(p) \/ CreateExisting(p) \/ CreateAlloc(p) \/ CreateNew(p)
    \/ UnlinkLookup(p) \/ UnlinkVictim(p)
    \/ Write(p) \/ Close(p)
    \/ Drop(p) \/ ReclaimTruncate(p) \/ ReclaimMark(p) \/ ReclaimRelease(p)

(* The end of a behaviour, at the bound. *)
Rest == calls = MaxCalls /\ (\A p \in Procs : At(p, "idle")) /\ UNCHANGED vars

Next == Rest \/ \E p \in Procs : Step(p)

Spec == Init /\ [][Next]_vars
-----------------------------------------------------------------------------
(* The inode as the kernel sees it: the cached copy, if there is one. *)
Current(i) ==
    LET s == {t \in Slots : slot[t].key = i /\ slot[t].initialized}
    IN  IF s = {} THEN dinode[i] ELSE slot[CHOOSE t \in s : TRUE].inode

(* The places where an entry other than "." and ".." names inode i. *)
Names(i) ==
    UNION {{<<d, k>> : k \in {k \in DOMAIN dir[d] : k > 2 /\ dir[d][k].inum = i}} : d \in Inodes}

(* An inode is never freed, and never counts fewer links than it has, while a
   directory entry names it: link counts before it makes the entry, unlink
   removes the entry before it counts, create undoes what it could not finish,
   and release frees only what has no link. *)
EntriesBacked ==
    \A i \in Inodes : Names(i) # {} =>
        /\ Current(i).kind # "Unused"
        /\ Cardinality(Names(i)) <= Current(i).nlink

(* The references process p holds to slot s. *)
HeldBy(p, s) ==
    LET w == st[p]
        one(b) == IF b THEN 1 ELSE 0
    IN  one(cwd[p] = s) + one(file[p] = s) + one(w.ref = s) + one(w.ino = s)
        + one(w.held /\ w.ref = s) + Cardinality({k \in DOMAIN w.drops : w.drops[k].s = s})

(* A cached inode is not recycled while somebody refers to it: the count of its slot
   is no less than the references that processes hold, in their calls, their open
   files, their working directories and the guards they have locked.  Of a file it
   is exactly that.  Of a directory it may be more, since sys_chdir forgets the
   reference to the old one, which then keeps its slot for good; iputtest and iref in
   usertests.c ask that chdir drop it. *)
ReferencesCovered ==
    \A s \in Slots :
        LET held == MapThenSumSet(LAMBDA p : HeldBy(p, s), Procs)
        IN  /\ slot[s].count >= held
            /\ slot[s].count > held => Current(slot[s].key).kind = "Directory"

(* While nobody has an inode locked its cached copy is what the disk has, but for
   blocks that a write without room had already allocated: allocate_inode and
   the release of another process never leave a stale copy behind. *)
CacheCoherent ==
    \A s \in Slots : slot[s].initialized /\ slot[s].owner = None =>
        LET d == dinode[slot[s].key]
            c == slot[s].inode
        IN  /\ c.kind = d.kind /\ c.nlink = d.nlink /\ c.size = d.size
            /\ IsPrefix(d.addrs, c.addrs)

(* No block belongs to two inodes, or twice to one, and none that an inode has
   is free: whatever create, write and truncate do in which order, and wherever
   they run out of blocks. *)
BlocksOwnedOnce ==
    \A i \in Inodes :
        LET mine == Current(i).addrs
        IN  /\ IsInjective(mine)
            /\ ToSet(mine) \subseteq used
            /\ \A j \in Inodes \ {i} : ToSet(mine) \cap ToSet(Current(j).addrs) = {}

(* The slot that process p is about to lock. *)
Wants(p) ==
    CASE st[p].drops # <<>> -> None
      [] st[p].pc \in {"walk", "target", "parent"} -> st[p].ref
      [] st[p].pc \in {"existing", "new", "victim", "bad"} -> st[p].ino
      [] OTHER -> None

(* What the code asserts or unwraps: the root can be had from the cache; an inode
   that is locked for the first time is in use on the disk; an inode found by
   unlink has a link; no link count passes below zero; and neither get nor release,
   which take an inode's sleep lock under the cache's spin lock, ever find that
   lock taken, which would make them sleep with a spin lock held. *)
AssertionsHold ==
    /\ SlotOf(ROOTINO) # None
    /\ \A p \in Procs :
         LET s == Wants(p)
         IN  Free(s) => Locked(s).kind # "Unused"
    /\ \A p \in Procs : st[p].pc = "victim" => Locked(st[p].ino).nlink > 0
    /\ \A i \in Inodes : Current(i).nlink >= 0
    /\ \A s \in Slots : slot[s].key = None => slot[s].owner = None
    /\ \A p \in Procs :
         LET d == Head(st[p].drops)
         IN  st[p].drops # <<>> /\ st[p].reclaim = "no" /\ slot[d.s].count = 1
             => slot[d.s].owner = IF d.guard THEN p ELSE None

(* No process waits for an inode lock that it holds itself, and no two wait for
   each other's: a directory is locked before the inode that one of its entries
   names, link takes its link back with the directory locked, and nothing locks the
   other way round. *)
NoLockCycle ==
    \A Q \in SUBSET Procs \ {{}} :
        \E p \in Q : Wants(p) = None \/ slot[Wants(p)].owner \notin Q
=============================================================================
