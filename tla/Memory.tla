------------------------------- MODULE Memory -------------------------------
(***************************************************************************)
(* Physical pages and user page tables: the page allocator (allocator.rs), *)
(* PageTable (riscv/paging.rs), and the calls that change an address space *)
(* (sbrk, fork, exec, exit, wait: syscall.rs, process.rs, exec.rs).        *)
(*                                                                         *)
(* A step is one call of the allocator, whose spin lock is all that two    *)
(* processes share here, with what its caller does up to the next call.    *)
(* Every call can find the allocator empty.  Addresses are bytes, with     *)
(* PGSIZE of them to a page and Fanout entries to a table.  A page holds   *)
(* one value: "zero", "code" from a program, the process that wrote it     *)
(* last, or "junk" once it has been free.  The free list is a set: nothing *)
(* depends on which page comes next.                                       *)
(*                                                                         *)
(* Left out: the kernel's page table, built once; permissions other than   *)
(* the user's access; kernel stacks, which Process.tla models and which    *)
(* never run out before slots do.                                          *)
(*                                                                         *)
(* Operators named Mut... are wrong variants of the definition after them; *)
(* each shows that some property notices that mistake.                     *)
(***************************************************************************)
EXTENDS Integers, FiniteSets, Functions

CONSTANTS
    Procs,          \* process slots
    First,          \* pid 1, which never exits
    Sizes,          \* of the machine's memory: pages between the kernel's end and PHYSTOP
    PGSIZE,
    Fanout,         \* entries of a page table: 512
    MAXARG,         \* arguments that exec accepts
    MaxSize,        \* bound: bytes of an address space
    MaxSegments,    \* bound: segments of a program
    MaxCalls        \* bound: calls made in a behaviour

TRAMPOLINE == Fanout ^ 3 - 1
TRAPFRAME == TRAMPOLINE - 1
NoFrame == 0
Fixed == {TRAMPOLINE, TRAPFRAME}

ASSUME SpaceAssumption == First \in Procs /\ MaxSize + 3 * PGSIZE <= TRAPFRAME * PGSIZE

VARIABLES
    ram,            \* the machine's pages, 1..n
    free,           \* KernelAllocator's list of unused pages
    content,        \* what each page holds
    state,          \* ProcessState: unused, used (being set up), live, zombie
    parent,
    sz,             \* ProcessContext.sz
    trapframe,      \* ProcessContext.trapframe: the page of its Box
    pt,             \* ProcessContext.pagetable, and the one a call builds or frees
    st,             \* where each process is in its call
    halted,         \* the assertion that failed, if one did
    calls

vars == <<ram, free, content, state, parent, sz, trapframe, pt, st, halted, calls>>

pg_roundup(a) == ((a + PGSIZE - 1) \div PGSIZE) * PGSIZE
PageOf(a) == a \div PGSIZE
Without(f, S) == Restrict(f, DOMAIN f \ S)
With(f, x, v) == [y \in DOMAIN f \cup {x} |-> IF y = x THEN v ELSE f[y]]

NoTable == [tables |-> <<>>, leaf |-> <<>>]
Root == <<2, 0>>
Leaf(f, u) == [frame |-> f, user |-> u]
User == [pc |-> "user", op |-> "none", next |-> "none", size |-> 0, at |-> 0, to |-> 0, base |-> 0,
         page |-> NoFrame, boxes |-> {}, child |-> First, segments |-> 0]
Running == <<"no", "none">>

(* The tables that lead to page n, from the root down: PTE::index. *)
Nodes(n) == <<Root, <<1, n \div (Fanout ^ 2)>>, <<0, n \div Fanout>>>>

(* The allocator has the machine's pages (register_pages), and init has taken a page
   of code and what goes with it (setup_init_process). *)
Init ==
    LET nodes == Nodes(0)
        high == Nodes(TRAMPOLINE)
        keys == {nodes[i] : i \in 1..3} \cup {high[i] : i \in 1..3}
        f == CHOOSE g \in [keys -> 1..Cardinality(keys)] : IsInjective(g)
        n == Cardinality(keys)
    IN  /\ ram \in {1..m : m \in Sizes}
        /\ free = ram \ 1..(n + 2)
        /\ content = [g \in ram |-> IF g = n + 1 THEN "code" ELSE "junk"]
        /\ state = [p \in Procs |-> IF p = First THEN "live" ELSE "unused"]
        /\ parent = [p \in Procs |-> First]
        /\ sz = [p \in Procs |-> IF p = First THEN PGSIZE ELSE 0]
        /\ trapframe = [p \in Procs |-> IF p = First THEN n + 2 ELSE NoFrame]
        /\ pt = [p \in Procs |-> [new |-> NoTable, own |->
                IF p # First THEN NoTable
                ELSE [tables |-> f,
                      leaf |-> [a \in Fixed \cup {0} |->
                          CASE a = TRAMPOLINE -> Leaf(NoFrame, FALSE)
                            [] a = TRAPFRAME -> Leaf(n + 2, FALSE)
                            [] OTHER -> Leaf(n + 1, TRUE)]]]]
        /\ st = [p \in Procs |-> User]
        /\ halted = Running
        /\ calls = 0

-----------------------------------------------------------------------------
(* The allocator *)

(* KernelAllocator::allocate_page.  Any page will do; that init is given the lowest
   and the others the highest spares states that differ in the order of calls only. *)
Page(p) ==
    IF p = First THEN CHOOSE f \in free : \A g \in free : f <= g
    ELSE CHOOSE f \in free : \A g \in free : f >= g

allocate_page(p, v) ==
    /\ free # {}
    /\ free' = free \ {Page(p)}
    /\ content' = [content EXCEPT ![Page(p)] = v]

(* KernelAllocator::deallocate_page: the list runs through the page. *)
deallocate_page(f) ==
    /\ free' = free \cup {f}
    /\ content' = [content EXCEPT ![f] = "junk"]

Keep == UNCHANGED <<free, content>>
Still == UNCHANGED <<state, parent, sz, trapframe, calls>>

(* A process is at a point of its call; a panic stops everybody. *)
At(p, pc) == halted = Running /\ state[p] = "live" /\ st[p].pc = pc
Goto(p, pc) == st' = [st EXCEPT ![p].pc = pc]
Halt(p, site) == halted' = <<site, st[p].op>> /\ UNCHANGED <<st, pt, free, content>>

(* The table that a call works on. *)
Which(p) == IF st[p].op = "sbrk" THEN "own" ELSE "new"
Table(p) == pt[p][Which(p)]


(* A process in user mode makes a call, whose first step sets r in st. *)
Call(p) == At(p, "user") /\ calls < MaxCalls /\ calls' = calls + 1
Becomes(p, r) == st' = [st EXCEPT ![p] = [f \in DOMAIN @ |-> IF f \in DOMAIN r THEN r[f] ELSE @[f]]]

-----------------------------------------------------------------------------
(* PageTable *)

(* search_entry with alloc: the tables still to be made on the way to page n; the
   root is allocate_in's. *)
Missing(t, n) == {Nodes(n)[i] : i \in 1..3} \ DOMAIN t.tables

(* unmap's loop over the pages from a to b, and what its caller does next. *)
Unmapping(a, b, next) == [pc |-> "unmap", at |-> a, to |-> b, next |-> next]

(* The undoing of a grow or a copy that ran out of pages: shrink(a, old_size) or
   unmap(0, i / PGSIZE). *)
MutUndo(p) ==
    Unmapping(st[p].base, st[p].at + PGSIZE,
              CASE st[p].op = "sbrk" -> "sized" [] st[p].op = "exec" -> "free" [] OTHER -> "drop")
Undo(p) ==
    Unmapping(st[p].base, st[p].at,
              CASE st[p].op = "sbrk" -> "sized" [] st[p].op = "exec" -> "free" [] OTHER -> "drop")

(* The page of the next address: grow's, filled with zeros, or copy's, with the
   parent's contents. *)
MutFilled(p) == content[Page(p)]
Filled(p) == IF st[p].op = "fork" THEN content[pt[p].own.leaf[PageOf(st[p].at)].frame] ELSE "zero"

NextPage(p) ==
    /\ At(p, "page") /\ st[p].at < st[p].to
    /\ IF st[p].op = "fork" /\ PageOf(st[p].at) \notin DOMAIN pt[p].own.leaf
       THEN Halt(p, "copy")
       ELSE /\ IF free # {}
               THEN allocate_page(p, Filled(p)) /\ Becomes(p, [pc |-> "map", page |-> Page(p)])
               ELSE Keep /\ Becomes(p, Undo(p))
            /\ UNCHANGED <<pt, halted>>
    /\ Still

(* What map puts in the entry: the trampoline's text, the trapframe, or the page. *)
Mapped(p, n) ==
    CASE n = TRAMPOLINE -> Leaf(NoFrame, FALSE)
      [] n = TRAPFRAME ->
            Leaf(IF st[p].op = "exec" THEN trapframe[p] ELSE CHOOSE f \in st[p].boxes : TRUE, FALSE)
      [] OTHER -> Leaf(st[p].page, st[p].op = "fork" => pt[p].own.leaf[n].user)

(* After the entry: the next one of allocate_pagetable, or the next page. *)
AfterMap(p, n) ==
    CASE n = TRAMPOLINE -> [at |-> TRAPFRAME * PGSIZE]
      [] n = TRAPFRAME /\ st[p].op = "exec" -> [pc |-> "load", size |-> 0]
      [] n = TRAPFRAME /\ st[p].op = "fork" -> [pc |-> "page", at |-> 0, base |-> 0, to |-> sz[p]]
      [] OTHER -> [pc |-> "page", page |-> NoFrame, at |-> st[p].at + PGSIZE]

(* The page that could not be mapped. *)
MutGiveBack(p) == Keep
GiveBack(p) == deallocate_page(st[p].page)

(* map, for one address: search_entry makes one table after the other, and the
   entry must be free.  Without a page for a table, the page to be mapped goes
   back to the allocator. *)
Map(p) ==
    LET n == PageOf(st[p].at)
        missing == Missing(Table(p), n)
    IN  /\ At(p, "map")
        /\ Still
        /\ IF missing # {}
           THEN /\ IF free # {}
                   THEN LET k == CHOOSE k \in missing : \A j \in missing : k[1] >= j[1]
                        IN  /\ allocate_page(p, "table")
                            /\ pt' = [pt EXCEPT ![p][Which(p)].tables = With(@, k, Page(p))]
                            /\ UNCHANGED <<st, halted>>
                   ELSE /\ IF n \in Fixed
                           THEN Keep /\ Goto(p, "drop")
                           ELSE GiveBack(p) /\ Becomes(p, With(Undo(p), "page", NoFrame))
                        /\ UNCHANGED <<pt, halted>>
           ELSE IF n \in DOMAIN Table(p).leaf
           THEN Halt(p, "map")
           ELSE /\ pt' = [pt EXCEPT ![p][Which(p)].leaf = With(@, n, Mapped(p, n))]
                /\ Becomes(p, AfterMap(p, n))
                /\ Keep /\ UNCHANGED halted

(* unmap, one page, whose entry must be valid. *)
Unmap(p) ==
    LET n == PageOf(st[p].at) IN
    /\ At(p, "unmap") /\ st[p].at < st[p].to
    /\ IF n \notin DOMAIN Table(p).leaf
       THEN Halt(p, "unmap")
       ELSE /\ deallocate_page(Table(p).leaf[n].frame)
            /\ pt' = [pt EXCEPT ![p][Which(p)].leaf = Without(@, {n})]
            /\ Becomes(p, [at |-> st[p].at + PGSIZE])
            /\ UNCHANGED halted
    /\ Still

Unmapped(p) ==
    /\ At(p, "unmap") /\ st[p].at >= st[p].to
    /\ Goto(p, st[p].next)
    /\ Keep /\ UNCHANGED <<pt, halted>> /\ Still

(* free_pagetable: the trampoline and the trapframe go without their pages, then
   the user's pages with theirs. *)
Freed(p) == Unmapping(0, pg_roundup(st[p].size), "drop")

FreePagetable(p) ==
    /\ At(p, "free")
    /\ IF Fixed \subseteq DOMAIN pt[p].new.leaf
       THEN /\ pt' = [pt EXCEPT ![p].new.leaf = Without(@, Fixed)]
            /\ Becomes(p, Freed(p))
            /\ Keep /\ UNCHANGED halted
       ELSE Halt(p, "unmap")
    /\ Still

(* PageTable::drop: the tables below go first.  A valid entry that is not a table
   fails its assertions. *)
Drop(p) ==
    LET t == pt[p].new.tables IN
    /\ At(p, "drop")
    /\ IF DOMAIN pt[p].new.leaf # {}
       THEN Halt(p, "drop")
       ELSE /\ IF DOMAIN t = {}
               THEN Goto(p, "end") /\ Keep /\ UNCHANGED pt
               ELSE LET k == CHOOSE k \in DOMAIN t : \A j \in DOMAIN t : k[1] <= j[1]
                    IN  /\ deallocate_page(t[k])
                        /\ pt' = [pt EXCEPT ![p].new.tables = Without(@, {k})]
                        /\ UNCHANGED st
            /\ UNCHANGED halted
    /\ Still

(* The call returns once its boxes are dropped: the trapframe of a clone that
   failed or of a process that was waited for, or the strings of exec's arguments.
   wait has freed the slot, and fork has not. *)
End(p) ==
    /\ At(p, "end")
    /\ IF st[p].boxes # {}
       THEN LET f == CHOOSE f \in st[p].boxes : TRUE
            IN  deallocate_page(f) /\ st' = [st EXCEPT ![p].boxes = @ \ {f}] /\ UNCHANGED state
       ELSE /\ state' = IF st[p].op = "wait" THEN [state EXCEPT ![st[p].child] = "unused"] ELSE state
            /\ st' = [st EXCEPT ![p] = User]
            /\ Keep
    /\ UNCHANGED <<parent, sz, trapframe, pt, halted, calls>>

-----------------------------------------------------------------------------
(* System calls *)

(* PageTable::write on behalf of a call, or the program itself: page by page until
   one is not mapped for the user.  It writes the last byte of a page, or that and
   the first of the next. *)
Accessible(p, n) == n \in DOMAIN pt[p].own.leaf /\ pt[p].own.leaf[n].user

Written(p, va, len) ==
    {n \in PageOf(va)..PageOf(va + len - 1) : \A m \in PageOf(va)..n : Accessible(p, m)}

Stored(p, S) ==
    LET frames == {pt[p].own.leaf[n].frame : n \in S}
    IN  [f \in ram |-> IF f \in frames THEN p ELSE content[f]]

Write(p) ==
    /\ Call(p)
    /\ \E n \in 1..TRAPFRAME : \E len \in {1, 2} :
         content' = Stored(p, Written(p, n * PGSIZE - 1, len))
    /\ content' # content
    /\ UNCHANGED <<free, state, parent, sz, trapframe, pt, st, halted>>

(* sys_sbrk: grow and shrink.  A size below zero wraps around to one that is not
   smaller, which changes nothing. *)
Sbrk(p) ==
    /\ Call(p)
    /\ \E new \in 0..MaxSize :
         \/ /\ new > sz[p]
            /\ Becomes(p, [op |-> "sbrk", pc |-> "page", size |-> sz[p], base |-> pg_roundup(sz[p]),
                           at |-> pg_roundup(sz[p]), to |-> new])
         \/ /\ new < sz[p]
            /\ Becomes(p, With(With(Unmapping(pg_roundup(new), pg_roundup(sz[p]), "sized"),
                                    "op", "sbrk"), "size", new))
    /\ Keep /\ UNCHANGED <<state, parent, sz, trapframe, pt, halted>>

Store(p, n) == sz' = [sz EXCEPT ![p] = n]

Sized(p) ==
    /\ \/ At(p, "sized") /\ Store(p, st[p].size)
       \/ At(p, "page") /\ st[p].op = "sbrk" /\ st[p].at >= st[p].to /\ Store(p, st[p].to)
    /\ st' = [st EXCEPT ![p] = User]
    /\ Keep /\ UNCHANGED <<state, parent, trapframe, pt, halted, calls>>

(* allocate_pagetable begins with the trampoline. *)
Building == [pc |-> "map", at |-> TRAMPOLINE * PGSIZE]

(* fork: allocate_process takes a slot, and try_clone a page for the trapframe.
   When try_clone fails the slot stays taken. *)
Fork(p) ==
    /\ Call(p)
    /\ \E c \in Procs :
         /\ state[c] = "unused"
         /\ state' = [state EXCEPT ![c] = "used"]
         /\ IF free # {}
            THEN /\ allocate_page(p, "trapframe")
                 /\ Becomes(p, With(With(With(Building, "op", "fork"), "boxes", {Page(p)}), "child", c))
            ELSE Keep /\ UNCHANGED st
    /\ UNCHANGED <<parent, sz, trapframe, pt, halted>>

(* The rest of fork: the child owns the new table and the trapframe. *)
ForkDone(p) ==
    LET c == st[p].child IN
    /\ At(p, "page") /\ st[p].op = "fork" /\ st[p].at >= st[p].to
    /\ sz' = [sz EXCEPT ![c] = sz[p]]
    /\ state' = [state EXCEPT ![c] = "live"]
    /\ parent' = [parent EXCEPT ![c] = p]
    /\ trapframe' = [trapframe EXCEPT ![c] = CHOOSE f \in st[p].boxes : TRUE]
    /\ pt' = [pt EXCEPT ![c].own = pt[p].new, ![p].new = NoTable]
    /\ st' = [st EXCEPT ![p] = User]
    /\ Keep /\ UNCHANGED <<halted, calls>>

Exit(p) ==
    /\ Call(p) /\ p # First
    /\ state' = [state EXCEPT ![p] = "zombie"]
    /\ parent' = [c \in Procs |-> IF parent[c] = p THEN First ELSE parent[c]]
    /\ Keep /\ UNCHANGED <<sz, trapframe, pt, st, halted>>

(* wait, once a child is a zombie: its status goes to the caller's memory, if it
   gave an address that is mapped, and its context is dropped: ProcessContext::drop. *)
Wait(p) ==
    /\ Call(p)
    /\ \E c \in Procs :
         /\ state[c] = "zombie" /\ parent[c] = p
         /\ \E S \in {{}} \cup {Written(p, va, 1) : va \in 0..MaxSize} : content' = Stored(p, S)
         /\ pt' = [pt EXCEPT ![p].new = pt[c].own, ![c].own = NoTable]
         /\ Becomes(p, [op |-> "wait", pc |-> "free", size |-> sz[c], boxes |-> {trapframe[c]}, child |-> c])
         /\ trapframe' = [trapframe EXCEPT ![c] = NoFrame]
         /\ sz' = [sz EXCEPT ![c] = 0]
    /\ UNCHANGED <<free, state, parent, halted>>

-----------------------------------------------------------------------------
(* exec *)

(* sys_exec copies each argument to a page of its own; one more than MAXARG, an
   address that cannot be read, or no page, and it fails. *)
Exec(p) ==
    /\ Call(p)
    /\ Becomes(p, [op |-> "exec", pc |-> "argument"])
    /\ Keep /\ UNCHANGED <<state, parent, sz, trapframe, pt, halted>>

Argument(p) ==
    /\ At(p, "argument")
    /\ \/ /\ Cardinality(st[p].boxes) < MAXARG
          /\ allocate_page(p, "argument")
          /\ st' = [st EXCEPT ![p].boxes = @ \cup {Page(p)}]
       \/ Goto(p, "end") /\ Keep
       \/ Becomes(p, Building) /\ Keep
    /\ UNCHANGED <<pt, halted>> /\ Still

(* execute's loop over the program headers.  One that is malformed ends the call;
   one to be loaded makes the image reach to its end. *)
Header(p) ==
    /\ At(p, "load")
    /\ \/ Goto(p, "free")
       \/ /\ st[p].segments < MaxSegments
          /\ \E end \in 0..MaxSize :
               Becomes(p, [pc |-> "page", next |-> "segment", base |-> pg_roundup(st[p].size),
                           at |-> pg_roundup(st[p].size), to |-> end, segments |-> st[p].segments + 1])
    /\ Keep /\ UNCHANGED <<pt, halted>> /\ Still

Image(p, S) == {pt[p].new.leaf[n].frame : n \in S}

(* load_segment reads the file's part of the segment into the pages, or fails. *)
Segment(p) ==
    LET size == IF st[p].to < st[p].size THEN st[p].size ELSE st[p].to IN
    /\ At(p, "page") /\ st[p].next = "segment" /\ st[p].at >= st[p].to
    /\ \E first \in 0..PageOf(st[p].to) :
         LET last == PageOf(pg_roundup(st[p].to)) - 1 IN
         IF \E n \in first..last : n \notin DOMAIN pt[p].new.leaf
         THEN Halt(p, "segment")
         ELSE /\ content' = [f \in ram |-> IF f \in Image(p, first..last) THEN "code" ELSE content[f]]
              /\ \E pc \in {"load", "free"} : Becomes(p, [pc |-> pc, size |-> size, next |-> "none"])
              /\ UNCHANGED <<free, pt, halted>>
    /\ Still

(* Two more pages at the next page boundary. *)
Stack(p) ==
    LET size == pg_roundup(st[p].size) IN
    /\ At(p, "load")
    /\ Becomes(p, [pc |-> "page", next |-> "stack", size |-> size, base |-> size, at |-> size,
                   to |-> size + 2 * PGSIZE])
    /\ Keep /\ UNCHANGED <<pt, halted>> /\ Still

(* The lower of the two is closed to the user. *)
Guarded(t, size) == [t EXCEPT !.leaf[PageOf(size - 2 * PGSIZE)].user = FALSE]

(* The table and the size that replace the old ones, which are then freed. *)
Committed(p) == [pc |-> "free", size |-> sz[p], next |-> "none"]

(* The arguments are pushed, which fails if they do not fit, and their addresses
   with a zero: ustack[..argv.len() + 1] panics with MAXARG of them. *)
Push(p) ==
    LET top == Image(p, {PageOf(st[p].to - 1)}) IN
    /\ At(p, "page") /\ st[p].next = "stack" /\ st[p].at >= st[p].to
    /\ \/ /\ Becomes(p, [pc |-> "free", size |-> st[p].to, next |-> "none"])
          /\ Keep /\ UNCHANGED <<sz, pt, halted>>
       \/ /\ Cardinality(st[p].boxes) >= MAXARG
          /\ Halt(p, "push") /\ UNCHANGED sz
       \/ /\ Cardinality(st[p].boxes) < MAXARG
          /\ content' = [f \in ram |-> IF f \in top THEN p ELSE content[f]]
          /\ pt' = [pt EXCEPT ![p].own = Guarded(pt[p].new, st[p].to), ![p].new = pt[p].own]
          /\ sz' = [sz EXCEPT ![p] = st[p].to]
          /\ Becomes(p, Committed(p))
          /\ UNCHANGED <<free, halted>>
    /\ UNCHANGED <<state, parent, trapframe, calls>>

(* Nobody is in a call and the bound is reached, or the kernel has stopped. *)
Rest ==
    /\ \/ halted # Running
       \/ calls = MaxCalls /\ \A p \in Procs : st[p].pc = "user"
    /\ UNCHANGED vars

Next ==
    \/ /\ UNCHANGED ram
       /\ \E p \in Procs :
            \/ NextPage(p) \/ Map(p) \/ Unmap(p) \/ Unmapped(p) \/ FreePagetable(p) \/ Drop(p) \/ End(p)
            \/ Write(p) \/ Sbrk(p) \/ Sized(p) \/ Fork(p) \/ ForkDone(p) \/ Exit(p) \/ Wait(p)
            \/ Exec(p) \/ Argument(p) \/ Header(p) \/ Segment(p) \/ Stack(p) \/ Push(p)
    \/ Rest

Spec == Init /\ [][Next]_vars

-----------------------------------------------------------------------------
(* Properties *)

(* The pages that a page table, or a process apart from its tables, holds. *)
TableFrames(t) == Range(t.tables)
LeafFrames(t) == {t.leaf[n].frame : n \in DOMAIN t.leaf \ Fixed}
OtherFrames(p) == st[p].boxes \cup ({trapframe[p], st[p].page} \ {NoFrame})
Holdings(p) ==
    LET t == pt[p].own
        u == pt[p].new
    IN  [frames |-> UNION {TableFrames(t), TableFrames(u), LeafFrames(t), LeafFrames(u), OtherFrames(p)},
         count |-> Cardinality(DOMAIN t.tables) + Cardinality(DOMAIN u.tables)
                   + Cardinality(DOMAIN t.leaf \ Fixed) + Cardinality(DOMAIN u.leaf \ Fixed)
                   + Cardinality(OtherFrames(p))]

(* usertests ends by counting the free pages ("FAILED -- lost some free pages"):
   whatever fails on the way, every page is on the free list or has exactly one
   holder, be it a table, a mapping, a box or a call in progress. *)
FramesAccounted ==
    LET h == [p \in Procs |-> Holdings(p)]
        held == UNION {h[p].frames : p \in Procs}
    IN  /\ held = ram \ free
        /\ FoldFunction(LAMBDA x, n : x.count + n, 0, h) = Cardinality(held)

(* No assertion of the page tables fails, with two exceptions: the clone of a
   process that runs out of pages while it copies, and MAXARG arguments. *)
AssertionsHold == halted \in {Running, <<"drop", "fork">>, <<"push", "exec">>}

(* usertests: "test that fork fails gracefully ... we run out of memory first".
   A fork without memory for the child does not stop the kernel. *)
ForkFailsGracefully == halted # <<"drop", "fork">>

(* The memory that a process can reach, as AddressSpaces has it: a shrink counts
   from its start, everything else when the size is stored. *)
Size(p) == IF st[p].op = "sbrk" /\ st[p].pc \in {"unmap", "sized"} THEN st[p].size ELSE sz[p]
NoMemory == <<[val |-> "none", user |-> FALSE]>>
Memories ==
    [p \in Procs |->
        IF state[p] # "live" THEN NoMemory
        ELSE [i \in 1..PageOf(pg_roundup(Size(p))) |->
                LET e == pt[p].own.leaf[i - 1] IN [val |-> content[e.frame], user |-> e.user]]]

Spaces == INSTANCE AddressSpaces WITH mem <- Memories, Absent <- NoMemory

(* Page tables over one pool of pages implement private address spaces: a page is
   never seen by two processes, a new page is zero whoever had it before, a child's
   memory is its parent's at the fork, and a call that fails leaves memory as it
   was. *)
ImplementsAddressSpaces == Spaces!Spec
=============================================================================
