------------------------------ MODULE LogSteps ------------------------------
(***************************************************************************)
(* What every step of the redo log keeps and what it does to the atomic    *)
(* disk that it implements, for any number of processes, blocks and        *)
(* crashes.  The number of open operations is here only what it tells the  *)
(* steps (CountMeans); LogProofs shows that Log.outstanding is that        *)
(* number.                                                                 *)
(***************************************************************************)
EXTENDS Log, TLAPS

(* Most leaves take far less than a second; one that a busy machine interrupts is tried again. *)
USE SMTT(60), Z3T(60), SMTT(90), Z3T(90)

Phases == {"none", "read", "log", "header", "install", "clear"}
Points == {"idle", "start", "asleep", "op", "commit", "panic"}

Injective(s) == \A i, j \in 1..Len(s) : s[i] = s[j] => i = j

DiskTypes ==
    home \in [Blocks -> Vals] /\ buf \in [Blocks -> Vals] /\ logdata \in [1..LogSize -> Vals]

HeaderTypes ==
    /\ header \in Seq(Blocks) /\ Len(header) <= LogSize /\ Injective(header)
    /\ dhdr \in Seq(Blocks) /\ Len(dhdr) <= LogSize /\ Injective(dhdr)

OpTypes ==
    /\ phase \in Phases /\ tail \in Nat /\ up \in BOOLEAN
    /\ outstanding \in Nat
    /\ at \in [Procs -> Points] /\ depth \in [Procs -> 0..2]

Types == DiskTypes /\ HeaderTypes /\ OpTypes

(* The operations that are open: one for each process inside log::with, and another
   for each that is inside a nested one. *)
Inside == {p \in Procs : depth[p] > 0}
Nested == {p \in Procs : depth[p] = 2}

(* Log.outstanding counts them, *)
Counted == outstanding = Cardinality(Inside) + Cardinality(Nested)

(* and tells Log::end whether there are any, and whether its own is the last. *)
CountMeans ==
    /\ outstanding = 0 <=> Inside = {}
    /\ outstanding = 1 => \A p \in Inside : Inside = {p} /\ Nested = {}

(* A process waits to enter its first or its second operation; while a commit or a
   recovery runs there are none; and the last one to end leaves nothing behind in the
   header. *)
Operations ==
    /\ \A p \in Procs :
         /\ at[p] = "idle" => depth[p] = 0
         /\ at[p] \in {"start", "asleep"} => depth[p] < 2
         /\ at[p] \in {"op", "panic"} => depth[p] > 0
         /\ ~up => at[p] = "idle"
    /\ phase # "none" => Inside = {}
    /\ phase = "none" /\ Inside = {} => header = <<>>

(* The cache has what home has, except for the blocks in the header. *)
Clean == \A b \in Blocks : (\A k \in 1..Len(header) : header[k] # b) => buf[b] = home[b]

(* The log has the first n blocks of the header. *)
Logged(n) == \A k \in 1..n : logdata[k] = buf[header[k]]

(* What home, the cache, the log and the two headers have in common in each phase. *)
AtRest == phase = "none" => up /\ dhdr = <<>> /\ Clean

AtLog == phase = "log" => up /\ dhdr = <<>> /\ Clean /\ tail \in 1..Len(header) /\ Logged(tail - 1)

AtHeader ==
    phase = "header" => up /\ dhdr = <<>> /\ Clean /\ tail = 1 /\ header # <<>> /\ Logged(Len(header))

AtInstall ==
    phase = "install" =>
      /\ dhdr = header /\ tail \in 1..Len(header)
      /\ \A k \in 1..(tail - 1) : home[header[k]] = logdata[k]
      /\ IF up THEN Clean /\ Logged(Len(header)) ELSE buf = home

AtClear ==
    phase = "clear" =>
      /\ header = <<>> /\ buf = home
      /\ \A k \in 1..Len(dhdr) : home[dhdr[k]] = logdata[k]

AtRead == phase = "read" => ~up /\ header = <<>> /\ buf = home /\ tail = 1

Contents == AtRest /\ AtLog /\ AtHeader /\ AtInstall /\ AtClear /\ AtRead

LInv == Types /\ Operations /\ Contents
-----------------------------------------------------------------------------
(* The reservation *)

(* A process has made some number of log::write calls. *)
Calls == writes \in [Procs -> Nat]

(* A call that may still be made is one of a process with blocks left. *)
LEMMA InOutlook ==
    ASSUME NEW t
    PROVE  t \in Outlook <=> \E p \in Procs : \E k \in 1..Remaining(p) : t = <<p, k>>
  BY DEF Outlook

(* What a process may still write is a number, and at most MAXOPBLOCKS for each
   operation that it is inside. *)
Bounded ==
    \A p \in Procs : /\ Remaining(p) \in Nat
                     /\ Remaining(p) <= depth[p] * MaxOpBlocks
                     /\ depth[p] = 0 => Remaining(p) = 0

(* The bound follows from the types. *)
LEMMA RemainingBound == Types /\ Calls => Bounded
  <1> SUFFICES ASSUME Types, Calls, NEW p \in Procs
               PROVE  /\ Remaining(p) \in Nat
                      /\ Remaining(p) <= depth[p] * MaxOpBlocks
                      /\ depth[p] = 0 => Remaining(p) = 0
    BY DEF Bounded
  <1>1. depth[p] \in Nat /\ writes[p] \in Nat /\ MaxOpBlocks \in Nat
    BY SizeAssumption DEF Types, OpTypes, Calls
  <1>2. depth[p] * MaxOpBlocks \in Nat /\ 0 * MaxOpBlocks = 0
    BY <1>1
  <1> QED
    BY <1>1, <1>2 DEF Remaining

(* The same after a step. *)
LEMMA RemainingNext == Types' /\ Calls' => Bounded'
  BY RemainingBound, PTL

(* A step deals with what was reserved in one of four ways: no process may write more than
   before, and the header does not grow; *)
Shrinks == Outlook' \subseteq Outlook /\ Len(header') <= Len(header)
(* no process has an operation open; *)
Ceases == Outlook' = {}
(* a process writes one of the blocks that it may still write; *)
Spends ==
    \E t \in Outlook : Outlook' = Outlook \ {t} /\ Len(header') <= Len(header) + 1
(* or Log::start admits an operation, and all that the open ones may write still fits. *)
Admits == Len(header') + outstanding' * MaxOpBlocks <= LogSize

(* A step after which no process may write more than before shrinks the outlook if
   the header does not grow. *)
LEMMA OutlookShrinks ==
    ASSUME Types, Calls, Len(header') <= Len(header),
           \A q \in Procs : Remaining(q)' \in Nat /\ Remaining(q)' <= Remaining(q)
    PROVE  Shrinks
  <1>1. Outlook' \subseteq Outlook
    <2> SUFFICES ASSUME NEW p \in Procs, NEW k \in 1..Remaining(p)'
                 PROVE  <<p, k>> \in Outlook
      BY DEF Outlook
    <2>1. k \in 1..Remaining(p)
      BY RemainingBound DEF Bounded
    <2> QED
      BY <2>1, InOutlook
  <1> QED
    BY <1>1 DEF Shrinks

(* Log::start admits an operation only if its MAXOPBLOCKS still fit, whatever the
   open ones go on to write. *)
LEMMA StartAdmits ==
    ASSUME NEW p \in Procs, Start(p)
    PROVE  Admits
  BY SizeAssumption DEF Start, IsFull, Admits

(* Log::write takes at most one block of what was reserved for its caller. *)
LEMMA WriteSpends ==
    ASSUME Types, Calls, NEW p \in Procs, NEW b \in Blocks, NEW v \in Vals, Write(p, b, v)
    PROVE  Spends
  <1> DEFINE r == Remaining(p)
  <1>1. /\ r \in Nat /\ r > 0
        /\ writes' = [writes EXCEPT ![p] = @ + 1] /\ depth' = depth
    BY RemainingBound DEF Write, Bounded
  <1> USE <1>1
  <1>2. Remaining(p)' = r - 1
    <2> DEFINE m == depth[p] * MaxOpBlocks
    <2>0. depth[p] \in Nat /\ MaxOpBlocks \in Nat /\ writes[p] \in Nat
      BY SizeAssumption DEF Types, DiskTypes, OpTypes, Calls
    <2>1. m \in Nat /\ writes[p] \in Nat
      BY <2>0
    <2>2. writes'[p] = writes[p] + 1
      BY DEF Calls
    <2>3. /\ r = IF writes[p] < m THEN m - writes[p] ELSE 0
          /\ Remaining(p)' = IF writes'[p] < m THEN m - writes'[p] ELSE 0
      BY DEF Remaining
    <2> HIDE DEF m, r
    <2> QED
      BY <2>1, <2>2, <2>3
  <1>3. \A q \in Procs : q # p => Remaining(q)' = Remaining(q)
    BY DEF Remaining, Calls
  <1> HIDE DEF r
  <1>4. Outlook' = Outlook \ {<<p, r>>} /\ <<p, r>> \in Outlook
    <2>1. <<p, r>> \in Outlook
      BY InOutlook DEF r
    <2>2. ASSUME NEW t \in Outlook' PROVE t \in Outlook \ {<<p, r>>}
      <3>0. PICK q \in Procs : \E k \in 1..Remaining(q)' : t = <<q, k>>
        BY DEF Outlook
      <3>1. PICK k \in 1..Remaining(q)' : t = <<q, k>>
        BY <3>0
      <3>2. CASE q = p
        <4> USE <3>2
        <4>1. k \in 1..r /\ k # r
          BY <1>2
        <4> QED
          BY <3>1, <4>1, InOutlook DEF r
      <3>3. CASE q # p
        BY <1>3, <3>1, <3>3, InOutlook
      <3> QED
        BY <3>2, <3>3
    <2>3. ASSUME NEW t \in Outlook, t # <<p, r>> PROVE t \in Outlook'
      <3>0. PICK q \in Procs : \E k \in 1..Remaining(q) : t = <<q, k>>
        BY InOutlook
      <3>1. PICK k \in 1..Remaining(q) : t = <<q, k>>
        BY <3>0
      <3>2. k \in 1..Remaining(q)'
        <4>1. CASE q = p
          BY <1>2, <2>3, <3>1, <4>1 DEF r
        <4>2. CASE q # p
          BY <1>3, <4>2
        <4> QED
          BY <4>1, <4>2
      <3> QED
        BY <3>1, <3>2 DEF Outlook
    <2> QED
      BY <2>1, <2>2, <2>3
  <1>5. Len(header') <= Len(header) + 1
    BY DEF Write, Types, HeaderTypes
  <1> QED
    BY <1>4, <1>5, ZenonT(60) DEF Spends

(* The calls are counted from the last time that the process was outside. *)
LEMMA StepCalls == LInv /\ Calls /\ [Next]_vars => Calls'
  <1> SUFFICES ASSUME LInv, Calls, [Next]_vars PROVE Calls'
    OBVIOUS
  <1>1. ASSUME NEW p \in Procs, Call(p) \/ Op(p) PROVE Calls'
    <2>1. CASE Call(p)
      BY <2>1 DEF Calls, Call
    <2>2. CASE Nest(p) \/ StartSleep(p) \/ Start(p) \/ Panic(p)
      BY <2>2 DEF Calls, Nest, StartSleep, Start, Panic
    <2>3. CASE End(p)
      BY <2>3 DEF Calls, End
    <2>4. CASE EndLast(p)
      BY <2>4 DEF Calls, EndLast
    <2>5. CASE \E b \in Blocks, v \in Vals : Write(p, b, v)
      <3>1. writes' = [writes EXCEPT ![p] = @ + 1]
        BY <2>5 DEF Write
      <3> QED
        BY <3>1 DEF Calls
    <2> QED
      BY <1>1, <2>1, <2>2, <2>3, <2>4, <2>5 DEF Op
  <1>2. CASE LogStep \/ Crash
    BY <1>2 DEF Calls, LogStep, WriteLog, WriteHeader, Install, Clear, ReadHeader, Crash, ops
  <1>3. CASE UNCHANGED vars
    BY <1>3 DEF Calls, vars, ops
  <1> QED
    BY <1>1, <1>2, <1>3 DEF Next

(* Log::end gives back what its operation did not write. *)
LEMMA EndShrinks ==
    ASSUME LInv, Calls, Types', Calls', CountMeans, NEW p \in Procs, End(p) \/ EndLast(p)
    PROVE  Shrinks
  <1>1. Types /\ Operations
    BY DEF LInv
  <1>2. depth[p] > 0 /\ depth' = [depth EXCEPT ![p] = @ - 1] /\ header' = header
    BY <1>1 DEF End, EndLast, Operations
  <1>3. ASSUME NEW q \in Procs, q # p PROVE Remaining(q)' = Remaining(q)
    BY <1>2, <1>3 DEF Remaining, End, EndLast, Calls
  <1>4. Bounded /\ Bounded'
    BY <1>1, RemainingBound, RemainingNext, ZenonT(60)
  <1>5. Remaining(p)' <= Remaining(p)
    <2>1. depth[p] = 1 \/ depth[p] = 2
      BY <1>1, <1>2 DEF Types, OpTypes
    <2>2. CASE depth[p] = 1
      <3>1. depth'[p] = 0
        BY <1>1, <1>2, <2>2 DEF Types, OpTypes
      <3> QED
        BY <1>4, <3>1 DEF Bounded
    <2>3. CASE depth[p] = 2
      <3>1. ~EndLast(p)
        BY <1>2, <2>3 DEF EndLast, CountMeans, Inside, Nested
      <3>2. depth'[p] = 1 /\ writes'[p] = writes[p]
        BY <1>1, <1>2, <2>3, <3>1 DEF End, Types, OpTypes, Calls
      <3>3. writes[p] \in Nat /\ MaxOpBlocks \in Nat
        BY SizeAssumption DEF Calls
      <3> QED
        BY <2>3, <3>2, <3>3 DEF Remaining
    <2> QED
      BY <2>1, <2>2, <2>3
  <1>6. \A q \in Procs : Remaining(q)' \in Nat /\ Remaining(q)' <= Remaining(q)
    BY <1>3, <1>4, <1>5 DEF Bounded
  <1>7. Len(header') <= Len(header)
    BY <1>1, <1>2 DEF Types, HeaderTypes
  <1> QED
    BY <1>1, <1>6, <1>7, OutlookShrinks

(* A step outside log::with leaves the outlook as it is. *)
LEMMA RestShrinks ==
    ASSUME Types, Calls, UNCHANGED <<depth, writes>>, header' = header \/ header' = <<>>
    PROVE  Shrinks
  <1>1. \A q \in Procs : Remaining(q)' = Remaining(q)
    BY DEF Remaining
  <1>2. Bounded
    BY RemainingBound
  <1>3. \A q \in Procs : Remaining(q)' \in Nat /\ Remaining(q)' <= Remaining(q)
    BY <1>1, <1>2 DEF Bounded
  <1>4. Len(header') <= Len(header)
    BY DEF Types, HeaderTypes
  <1> QED
    BY <1>3, <1>4, OutlookShrinks

(* Every step deals with what was reserved in one of the four ways. *)
LEMMA StepReserves ==
    ASSUME LInv, LInv', Calls, Calls', CountMeans, [Next]_vars
    PROVE  Shrinks \/ Ceases \/ Spends \/ Admits
  <1>1. Types /\ Types' /\ Operations
    BY DEF LInv
  <1>2. ASSUME UNCHANGED <<depth, writes>>, header' = header \/ header' = <<>>
        PROVE  Shrinks
    BY <1>1, <1>2, RestShrinks
  <1>3. ASSUME \A q \in Procs : depth'[q] = 0 PROVE Ceases
    <2>1. Bounded'
      BY <1>1, RemainingNext
    <2> QED
      BY <1>3, <2>1 DEF Outlook, Bounded, Ceases
  <1>4. ASSUME NEW p \in Procs, Call(p) \/ Op(p) PROVE Shrinks \/ Spends \/ Admits
    <2>1. CASE Call(p) \/ Nest(p) \/ StartSleep(p) \/ Panic(p)
      BY <1>2, <2>1 DEF Call, Nest, StartSleep, Panic
    <2>2. CASE End(p) \/ EndLast(p)
      BY <1>1, <2>2, EndShrinks
    <2>3. CASE Start(p)
      BY <2>3, StartAdmits
    <2>4. ASSUME NEW b \in Blocks, NEW v \in Vals, Write(p, b, v) PROVE Spends
      BY <1>1, <2>4, WriteSpends
    <2> QED
      BY <1>4, <2>1, <2>2, <2>3, <2>4, ZenonT(60) DEF Op
  <1>5. CASE WriteLog \/ WriteHeader \/ Install \/ Clear
    <2>1. UNCHANGED <<depth, writes>>
      BY <1>5, ZenonT(60) DEF WriteLog, WriteHeader, Install, Clear, ops
    <2>2. header' = header \/ header' = <<>>
      BY <1>5 DEF WriteLog, WriteHeader, Install, InstallNext, Clear
    <2> QED
      BY <1>2, <2>1, <2>2, ZenonT(60)
  <1>6. CASE ReadHeader
    <2>1. phase # "none" /\ depth' = depth
      BY <1>6 DEF ReadHeader, ops
    <2>2. Inside = {}
      BY <1>1, <2>1 DEF Operations
    <2>3. \A q \in Procs : depth'[q] = 0
      BY <1>1, <2>1, <2>2 DEF Inside, Types, OpTypes
    <2> QED
      BY <1>3, <2>3, ZenonT(60)
  <1>7. CASE Crash
    BY <1>3, <1>7 DEF Crash
  <1>8. CASE UNCHANGED vars
    BY <1>2, <1>8 DEF vars, ops
  <1> QED
    BY <1>4, <1>5, <1>6, <1>7, <1>8, ZenonT(60) DEF Next, LogStep
-----------------------------------------------------------------------------
(* The invariant *)

(* A fresh file system at boot has the invariant. *)
LEMMA InitInv == Init => LInv
  <1> SUFFICES ASSUME Init PROVE LInv
    OBVIOUS
  <1> USE ValAssumption, SizeAssumption
  <1>1. Types
    <2>1. <<>> \in Seq(Blocks) /\ Len(<<>>) = 0 /\ Injective(<<>>)
      BY DEF Injective
    <2>2. home \in [Blocks -> Vals] /\ logdata \in [1..LogSize -> Vals]
      BY DEF Init
    <2>3. at \in [Procs -> Points] /\ depth \in [Procs -> 0..2]
      BY DEF Init, Points
    <2>4. phase \in Phases /\ tail \in Nat /\ up \in BOOLEAN /\ outstanding \in Nat
      BY ZenonT(60) DEF Init, Phases
    <2>5. header = <<>> /\ dhdr = <<>> /\ buf = home
      BY DEF Init
    <2> QED
      BY <2>1, <2>2, <2>3, <2>4, <2>5 DEF Types, DiskTypes, HeaderTypes, OpTypes
  <1>2. Inside = {} /\ Nested = {}
    BY DEF Init, Inside, Nested
  <1>3. Operations
    BY <1>2 DEF Init, Operations
  <1>4. Contents
    BY DEF Init, Contents, AtRest, AtLog, AtHeader, AtInstall, AtClear, AtRead
  <1> QED
    BY <1>1, <1>3, <1>4 DEF LInv

(* Steps that leave the disk, the cache and the log alone keep what these have in
   common. *)
LEMMA ContentsKept ==
    ASSUME Contents, UNCHANGED <<disk, buf, header, phase, tail, up>>
    PROVE  Contents'
  BY DEF Contents, AtRest, AtLog, AtHeader, AtInstall, AtClear, AtRead, disk, Clean, Logged

(* Entering log::with and sleeping in Log::start keep the invariant. *)
LEMMA WaitInv ==
    ASSUME LInv, NEW p \in Procs, Call(p) \/ Nest(p) \/ StartSleep(p)
    PROVE  LInv'
  <1> USE DEF LInv
  <1>1. /\ UNCHANGED <<disk, buf, header, phase, tail, up, outstanding, depth>>
        /\ \E pt \in {"start", "asleep"} : at' = [at EXCEPT ![p] = pt]
        /\ depth[p] < 2 /\ up
    BY DEF Call, Nest, StartSleep, HeaderTypes, Operations
  <1> USE <1>1
  <1>2. Types'
    BY DEF Types, DiskTypes, HeaderTypes, OpTypes, Points, disk, Injective
  <1>3. Operations'
    BY DEF Operations, Inside, Nested
  <1> QED
    BY <1>2, <1>3, ContentsKept

(* Log::start, admitted: one more operation is counted. *)
LEMMA StartInv ==
    ASSUME LInv, NEW p \in Procs, Start(p)
    PROVE  LInv'
  <1> USE DEF LInv
  <1>1. /\ UNCHANGED <<disk, buf, header, phase, tail, up>>
        /\ at[p] = "start" /\ depth[p] < 2 /\ up /\ phase = "none"
        /\ outstanding' = outstanding + 1
        /\ at' = [at EXCEPT ![p] = "op"]
        /\ depth' = [depth EXCEPT ![p] = @ + 1]
    BY DEF Start, Types, DiskTypes, HeaderTypes, OpTypes, Operations, Committing
  <1> USE <1>1
  <1>2. Types'
    BY DEF Types, DiskTypes, HeaderTypes, OpTypes, Points, disk
  <1>4. p \in Inside'
    BY DEF Inside, Types, DiskTypes, HeaderTypes, OpTypes
  <1>5. Operations'
    BY <1>4 DEF Operations, Types, DiskTypes, OpTypes
  <1> QED
    BY <1>2, <1>5, ContentsKept

(* A panic in Log::write leaves everything as it is but the process. *)
LEMMA PanicInv ==
    ASSUME LInv, NEW p \in Procs, Panic(p)
    PROVE  LInv'
  <1> USE DEF LInv
  <1>1. /\ UNCHANGED <<disk, buf, header, phase, tail, up, outstanding, depth>>
        /\ at' = [at EXCEPT ![p] = "panic"]
        /\ depth[p] > 0 /\ up
    BY DEF Panic, Operations
  <1> USE <1>1
  <1>2. Types'
    BY DEF Types, DiskTypes, HeaderTypes, OpTypes, Points, disk, Injective
  <1>3. Operations'
    BY DEF Operations, Inside, Nested
  <1> QED
    BY <1>2, <1>3, ContentsKept

(* Log::write adds the block to the header once, so that what differs from home is in it. *)
LEMMA WriteInv ==
    ASSUME LInv, NEW p \in Procs, NEW b \in Blocks, NEW v \in Vals, Write(p, b, v)
    PROVE  LInv'
  <1> USE DEF LInv
  <1>1. p \in Inside /\ phase = "none"
    BY DEF Write, Operations, Inside
  <1>2. header' \in Seq(Blocks) /\ Len(header') <= LogSize /\ Injective(header')
    BY SizeAssumption DEF Write, Fits, Types, DiskTypes, HeaderTypes, OpTypes, Injective, Range
  <1>3. Types'
    BY <1>2 DEF Write, Types, DiskTypes, HeaderTypes, OpTypes, disk
  <1>4. Operations'
    BY DEF Write, Operations, Inside, Nested
  <1>5. \E k \in 1..Len(header') : header'[k] = b
    BY DEF Write, DiskTypes, HeaderTypes, OpTypes, Range
  <1>6. \A k \in 1..Len(header) : k \in 1..Len(header') /\ header'[k] = header[k]
    BY DEF Write, Types, DiskTypes, HeaderTypes, OpTypes
  <1>7. Clean'
    BY <1>1, <1>5 DEF Write, Clean, Contents, AtRest, disk, DiskTypes, HeaderTypes
  <1>8. Contents'
    BY <1>1, <1>7 DEF Write, Contents, AtRest, AtLog, AtHeader, AtInstall, AtClear, AtRead, disk
  <1> QED
    BY <1>3, <1>4, <1>8

(* Log::end, not the last: some operation is still open, or nothing was written. *)
LEMMA EndInv ==
    ASSUME LInv, CountMeans, CountMeans', NEW p \in Procs, End(p)
    PROVE  LInv'
  <1> USE DEF LInv
  <1>1. /\ UNCHANGED <<disk, buf, header, phase, tail, up>>
        /\ at[p] = "op" /\ depth[p] > 0 /\ p \in Inside /\ up /\ phase = "none"
        /\ outstanding' = outstanding - 1
        /\ depth' = [depth EXCEPT ![p] = @ - 1]
        /\ at' = Woken([at EXCEPT ![p] = IF depth[p] = 1 THEN "idle" ELSE "op"])
        /\ outstanding > 1 \/ header = <<>>
    BY DEF End, OpTypes, Operations, Inside
  <1> USE <1>1
  <1>2. outstanding > 0
    BY DEF CountMeans, OpTypes, Types
  <1>4. Types'
    BY <1>2 DEF Types, DiskTypes, HeaderTypes, OpTypes, Points, disk, Woken
  <1>5. \A q \in Procs : /\ at'[q] = "idle" => depth'[q] = 0
                         /\ at'[q] \in {"start", "asleep"} => depth'[q] < 2
                         /\ at'[q] \in {"op", "panic"} => depth'[q] > 0
    BY DEF Types, DiskTypes, OpTypes, Operations, Woken
  <1>6. Inside' = {} => header' = <<>>
    BY DEF CountMeans, Types, OpTypes
  <1>7. Operations'
    BY <1>5, <1>6, ZenonT(60) DEF Operations
  <1> QED
    BY <1>4, <1>7, ContentsKept

(* Log::end, the last: nobody is inside when the commit starts. *)
LEMMA EndLastInv ==
    ASSUME LInv, CountMeans, NEW p \in Procs, EndLast(p)
    PROVE  LInv'
  <1> USE DEF LInv
  <1>1. p \in Inside /\ phase = "none" /\ up /\ depth[p] > 0
    BY DEF EndLast, Operations, Inside, AtLog, AtHeader, AtInstall, AtClear
  <1>2. Inside = {p} /\ Nested = {} /\ depth[p] = 1
    BY <1>1 DEF EndLast, CountMeans, Nested, Types, OpTypes
  <1>3. Types'
    BY <1>2 DEF EndLast, Types, DiskTypes, HeaderTypes, OpTypes, Phases, Points, disk
  <1>4. Inside' = {} /\ Nested' = {}
    BY <1>2 DEF EndLast, Inside, Nested, Types, DiskTypes, HeaderTypes, OpTypes
  <1>5. Operations'
    BY <1>4 DEF EndLast, Operations, Types, OpTypes
  <1>6. Contents'
    BY <1>1 DEF EndLast, Contents, AtRest, AtLog, AtHeader, AtInstall, AtClear, AtRead, disk, Clean, Logged
  <1> QED
    BY <1>3, <1>5, <1>6

(* Steps of commit and recovery leave the operations alone, of which there are none. *)
LEMMA NoOperations ==
    ASSUME Types, Operations, phase # "none", phase' # "none", up' = up,
           UNCHANGED <<ops, outstanding>>
    PROVE  Operations'
  BY DEF Operations, Inside, Nested, ops

(* write_log copies one more block of the header from the cache. *)
LEMMA WriteLogInv ==
    ASSUME LInv, WriteLog
    PROVE  LInv'
  <1> USE DEF LInv
  <1>0. /\ tail \in 1..Len(header) /\ tail \in 1..LogSize /\ buf[header[tail]] \in Vals
        /\ logdata' = [logdata EXCEPT ![tail] = buf[header[tail]]]
    BY SizeAssumption DEF WriteLog, Contents, AtRest, AtLog, AtHeader, Types, DiskTypes, HeaderTypes
  <1> USE <1>0
  <1>1. Types'
    <2>1. logdata' \in [1..LogSize -> Vals]
      BY DEF Types, DiskTypes, HeaderTypes, OpTypes
    <2>2. tail' \in Nat /\ phase' \in Phases
      BY DEF WriteLog, Phases, Types, DiskTypes, HeaderTypes, OpTypes
    <2> QED
      BY <2>1, <2>2 DEF WriteLog, Types, DiskTypes, HeaderTypes, OpTypes, ops
  <1>2. Operations'
    BY NoOperations DEF WriteLog
  <1>3. \A k \in 1..tail : logdata'[k] = buf[header[k]]
    <2>1. logdata'[tail] = buf[header[tail]]
      BY DEF Types, DiskTypes, HeaderTypes, OpTypes
    <2>2. \A k \in 1..(tail - 1) : k \in 1..LogSize /\ logdata'[k] = logdata[k]
      BY SizeAssumption DEF Types, DiskTypes, HeaderTypes, OpTypes
    <2> QED
      BY <2>1 DEF WriteLog, Contents, AtRest, AtLog, AtHeader, AtClear, Logged
  <1>4. Contents'
    BY <1>3 DEF WriteLog, Contents, AtRest, AtLog, AtHeader, AtInstall, AtClear, AtRead, Logged, Clean,
        DiskTypes, OpTypes
  <1> QED
    BY <1>1, <1>2, <1>4

(* The commit point: the log has every block that the header names. *)
LEMMA WriteHeaderInv ==
    ASSUME LInv, WriteHeader
    PROVE  LInv'
  <1> USE DEF LInv
  <1>1. Types'
    BY DEF WriteHeader, Types, DiskTypes, HeaderTypes, OpTypes, Phases, ops, Injective
  <1>2. Operations'
    BY NoOperations DEF WriteHeader
  <1>3. Contents'
    BY DEF WriteHeader, Contents, AtRest, AtLog, AtHeader, AtInstall, AtClear, AtRead, Logged, Clean, OpTypes
  <1> QED
    BY <1>1, <1>2, <1>3

(* install_blocks, in a commit and in recovery: one more home block is the logged one. *)
LEMMA InstallInv ==
    ASSUME LInv, Install
    PROVE  LInv'
  <1> USE DEF LInv
  <1>1. tail \in 1..Len(header) /\ header[tail] \in Blocks /\ dhdr = header
    BY DEF Install, Contents, AtLog, AtHeader, AtInstall, AtRead, Types, HeaderTypes
  <1> USE <1>1
  <1>2. Types'
    <2>1. logdata[tail] \in Vals
      BY SizeAssumption DEF Types, DiskTypes, HeaderTypes, OpTypes
    <2>2. home' \in [Blocks -> Vals] /\ buf' \in [Blocks -> Vals]
      BY <2>1 DEF Install, Types, DiskTypes
    <2>3. header' \in Seq(Blocks) /\ Len(header') <= LogSize /\ Injective(header')
      <3>1. CASE header' = header
        BY <3>1 DEF Types, DiskTypes, HeaderTypes, OpTypes, Injective
      <3>2. CASE header' = <<>>
        BY <3>2, SizeAssumption DEF Injective
      <3> QED
        BY <3>1, <3>2 DEF Install, InstallNext
    <2>4. tail' \in Nat /\ phase' \in Phases
      BY DEF Install, InstallNext, Types, DiskTypes, HeaderTypes, OpTypes, Phases
    <2> QED
      BY <2>2, <2>3, <2>4 DEF Install, Types, DiskTypes, HeaderTypes, OpTypes, ops
  <1>3. Operations'
    BY NoOperations DEF Install, InstallNext
  <1>4. \A k \in 1..tail : home'[header[k]] = logdata[k]
    BY DEF Install, Contents, AtRest, AtLog, AtHeader, AtInstall, AtClear, AtRead, Types, DiskTypes,
        HeaderTypes, Injective
  <1> USE <1>4
  <1>5. up => buf' = buf
    BY DEF Install, Contents, AtRest, AtLog, AtInstall, Logged, Types, DiskTypes
  <1>6. ~up => buf' = home'
    BY DEF Install, Contents, AtRest, AtLog, AtHeader, AtInstall, AtClear, AtRead
  <1>7. up /\ tail = Len(header) => \A b \in Blocks : buf[b] = home'[b]
    BY DEF Install, Contents, AtInstall, AtRead, Logged, Clean, HeaderTypes, OpTypes
  <1>8. up => \A b \in Blocks : (\A k \in 1..Len(header) : header[k] # b) => buf[b] = home'[b]
    BY DEF Install, Contents, AtInstall, Clean, HeaderTypes, OpTypes
  <1>9. Contents'
    <2>1. CASE tail < Len(header)
      BY <1>6, <2>1 DEF Install, InstallNext, Contents, AtRest, AtLog, AtHeader, AtInstall,
          AtClear, AtRead, Logged, Clean, DiskTypes, HeaderTypes, OpTypes
    <2>2. CASE tail = Len(header)
      <3> USE <2>2
      <3>1. up => buf' = home'
        BY <1>2, <1>5, <1>7 DEF Types, DiskTypes
      <3> QED
        BY <1>6, <3>1 DEF Install, InstallNext, Contents, AtRest, AtLog, AtHeader, AtInstall,
            AtClear, AtRead
    <2> QED
      BY <2>1, <2>2 DEF Types, DiskTypes, HeaderTypes, OpTypes
  <1> QED
    BY <1>2, <1>3, <1>9

(* After the header is erased home has everything, and operations may start. *)
LEMMA ClearInv ==
    ASSUME LInv, Clear
    PROVE  LInv'
  <1> USE DEF LInv
  <1>1. Types'
    BY DEF Clear, Types, DiskTypes, HeaderTypes, OpTypes, Phases, Points, Woken, AtLog, AtHeader,
        AtInstall, AtRead
  <1>2. Inside = {} /\ Inside' = Inside /\ Nested' = Nested
    BY DEF Clear, Operations, Inside, Nested
  <1>3. \A q \in Procs : depth'[q] = 0
    <2> SUFFICES ASSUME NEW q \in Procs PROVE depth'[q] = 0
      OBVIOUS
    <2>1. depth'[q] \in 0..2
      BY <1>1 DEF Types, DiskTypes, HeaderTypes, OpTypes
    <2>2. ~(depth'[q] > 0)
      BY <1>2 DEF Inside
    <2> QED
      BY <2>1, <2>2
  <1>4. \A q \in Procs : at'[q] \notin {"op", "panic"}
    BY DEF Clear, Operations, Inside, Woken, OpTypes
  <1>5. Operations'
    BY <1>2, <1>3, <1>4 DEF Clear, Operations, Contents, AtRest, AtClear
  <1>6. Contents'
    BY DEF Clear, Contents, AtRest, AtLog, AtHeader, AtInstall, AtClear, AtRead, Clean
  <1> QED
    BY <1>1, <1>5, <1>6

(* Recovery begins with the header on the disk. *)
LEMMA ReadHeaderInv ==
    ASSUME LInv, ReadHeader
    PROVE  LInv'
  <1> USE DEF LInv
  <1>1. Types'
    BY DEF ReadHeader, Types, DiskTypes, HeaderTypes, OpTypes, Phases, ops, disk, Injective
  <1>2. Operations'
    BY NoOperations DEF ReadHeader
  <1>3. Contents'
    BY DEF ReadHeader, Contents, AtRest, AtLog, AtHeader, AtInstall, AtClear, AtRead, disk, HeaderTypes,
        OpTypes
  <1> QED
    BY <1>1, <1>2, <1>3

(* A crash leaves what recovery expects, wherever it falls. *)
LEMMA CrashInv ==
    ASSUME LInv, Crash
    PROVE  LInv'
  <1> USE DEF LInv
  <1>1. Types'
    <2>1. header' \in Seq(Blocks) /\ Len(header') <= LogSize /\ Injective(header')
      BY SizeAssumption DEF Crash, Injective
    <2>2. at' \in [Procs -> Points] /\ depth' \in [Procs -> 0..2]
      BY DEF Crash, Points
    <2>3. phase' \in Phases /\ tail' \in Nat /\ up' \in BOOLEAN /\ outstanding' \in Nat
      BY ZenonT(60) DEF Crash, Phases
    <2>4. UNCHANGED <<home, logdata, dhdr>> /\ buf' = home
      BY DEF Crash, disk
    <2> QED
      BY <2>1, <2>2, <2>3, <2>4 DEF Types, DiskTypes, HeaderTypes, OpTypes
  <1>2. Inside' = {} /\ Nested' = {}
    BY DEF Crash, Inside, Nested
  <1>3. Operations'
    BY <1>2 DEF Crash, Operations
  <1>4. Contents'
    BY DEF Crash, Contents, AtRest, AtLog, AtHeader, AtInstall, AtClear, AtRead, disk
  <1> QED
    BY <1>1, <1>3, <1>4

(* Every step keeps the invariant. *)
LEMMA NextInv == LInv /\ CountMeans /\ CountMeans' /\ [Next]_vars => LInv'
  <1> SUFFICES ASSUME LInv, CountMeans, CountMeans', [Next]_vars PROVE LInv'
    BY ZenonT(60)
  <1>1. CASE UNCHANGED vars
    BY <1>1 DEF vars, disk, ops, LInv, Types, DiskTypes, HeaderTypes, OpTypes, Operations, Inside,
        Nested, Contents, AtRest, AtLog, AtHeader, AtInstall, AtClear, AtRead, Clean, Logged
  <1>2. ASSUME NEW p \in Procs, Call(p) \/ Op(p)
        PROVE  LInv'
    BY <1>2, WaitInv, PanicInv, StartInv, WriteInv, EndInv, EndLastInv DEF Op
  <1> QED
    BY <1>1, <1>2, WriteLogInv, WriteHeaderInv, InstallInv, ClearInv, ReadHeaderInv, CrashInv
       DEF Next, LogStep

-----------------------------------------------------------------------------
(* The refinement *)

(* What recovery would leave: the logged blocks from the log, the others from home. *)
Replayed ==
    /\ Durable \in [Blocks -> Vals]
    /\ \A k \in 1..Len(dhdr) : Durable[dhdr[k]] = logdata[k]
    /\ \A b \in Blocks : (\A k \in 1..Len(dhdr) : dhdr[k] # b) => Durable[b] = home[b]

(* What the log replays over the home blocks. *)
LEMMA DurableAt == Types => Replayed
  <1> SUFFICES ASSUME Types PROVE Replayed
    OBVIOUS
  <1>1. \A b : b \in Range(dhdr) <=> \E k \in 1..Len(dhdr) : dhdr[k] = b
    BY DEF Range, Types, DiskTypes, HeaderTypes, OpTypes
  <1>2. ASSUME NEW k \in 1..Len(dhdr)
        PROVE  dhdr[k] \in Blocks /\ Durable[dhdr[k]] = logdata[k] /\ logdata[k] \in Vals
    <2>1. dhdr[k] \in Blocks /\ dhdr[k] \in Range(dhdr) /\ logdata[k] \in Vals
      BY <1>1, SizeAssumption DEF Types, DiskTypes, HeaderTypes, OpTypes
    <2>2. (CHOOSE i \in 1..Len(dhdr) : dhdr[i] = dhdr[k]) = k
      BY DEF Types, DiskTypes, HeaderTypes, OpTypes, Injective
    <2> QED
      BY <2>1, <2>2, ZenonT(60) DEF Durable
  <1>3. ASSUME NEW b \in Blocks, \A k \in 1..Len(dhdr) : dhdr[k] # b
        PROVE  Durable[b] = home[b]
    BY <1>1, <1>3 DEF Durable
  <1>4. \A b \in Blocks : Durable[b] \in Vals
    BY <1>2, <1>3 DEF Types, DiskTypes
  <1>5. Durable \in [Blocks -> Vals]
    BY <1>4, ZenonT(60) DEF Durable
  <1> QED
    BY <1>2, <1>3, <1>5, ZenonT(60) DEF Replayed

(* The same after a step. *)
LEMMA DurableNext == Types' => Replayed'
  BY DurableAt, PTL

(* Replaying blocks that are all installed changes nothing. *)
LEMMA DurableHome ==
    ASSUME Types, \A k \in 1..Len(dhdr) : home[dhdr[k]] = logdata[k]
    PROVE  Durable = home
  <1>1. \A b \in Blocks : Durable[b] = home[b]
    BY DurableAt DEF Replayed
  <1> QED
    BY DurableAt DEF Types, DiskTypes, Replayed

(* An empty header replays nothing. *)
LEMMA NothingLogged == Types /\ dhdr = <<>> => Durable = home
  BY DurableHome

(* The same after a step. *)
LEMMA NothingNext == Types' /\ dhdr' = <<>> => Durable' = home'
  BY DurableNext DEF Replayed, Types, DiskTypes, HeaderTypes, OpTypes

(* Steps that leave the disk alone do not change what recovery would leave. *)
LEMMA DurableKept ==
    ASSUME UNCHANGED disk
    PROVE  Durable' = Durable
  BY DEF disk, Durable

(* The initial states are initial states of the atomic disk. *)
LEMMA InitRefines == Init => Abstract!Init
  <1> SUFFICES ASSUME Init PROVE Abstract!Init
    OBVIOUS
  <1>1. Types /\ dhdr = <<>>
    BY InitInv DEF LInv, Init
  <1>2. Durable = home
    BY <1>1, NothingLogged
  <1> QED
    BY <1>2 DEF Init, Abstract!Init

(* Installing a block changes neither what recovery would find nor what the cache has. *)
LEMMA InstallStutters ==
    ASSUME LInv, LInv', Install
    PROVE  Durable' = Durable /\ (up => buf' = buf)
  <1> USE DEF LInv
  <1>1. tail \in 1..Len(header) /\ header[tail] \in Blocks /\ dhdr = header /\ dhdr' = dhdr
    BY DEF Install, Contents, AtRest, AtInstall, Types, HeaderTypes
  <1>2. Replayed /\ Replayed'
    BY DurableAt, DurableNext
  <1> USE <1>2
  <1>3. \A k \in 1..Len(dhdr) : Durable'[dhdr[k]] = Durable[dhdr[k]]
    BY DEF Install, Replayed
  <1>4. \A b \in Blocks : (\A k \in 1..Len(dhdr) : dhdr[k] # b) => Durable'[b] = Durable[b]
    <2> SUFFICES ASSUME NEW b \in Blocks, \A k \in 1..Len(dhdr) : dhdr[k] # b
                 PROVE  Durable'[b] = Durable[b]
      OBVIOUS
    <2>1. home'[b] = home[b]
      BY <1>1 DEF Install, DiskTypes, OpTypes
    <2> QED
      BY <1>1, <2>1 DEF Replayed
  <1>5. Durable' = Durable
    BY <1>3, <1>4 DEF Replayed
  <1>6. ASSUME up PROVE buf' = buf
    <2>1. logdata[tail] = buf[header[tail]]
      BY <1>6 DEF Install, Contents, AtRest, AtInstall, Logged
    <2> QED
      BY <2>1 DEF Install, Types, DiskTypes
  <1> QED
    BY <1>5, <1>6

(* The write of the header makes everything in the cache durable. *)
LEMMA HeaderCommits ==
    ASSUME LInv, LInv', WriteHeader
    PROVE  Durable' = buf
  <1> USE DEF LInv
  <1>1. Replayed' /\ buf \in [Blocks -> Vals]
    BY DurableNext DEF Types, DiskTypes
  <1> USE <1>1
  <1>2. dhdr' = header /\ logdata' = logdata /\ home' = home
    BY DEF WriteHeader
  <1>3. \A k \in 1..Len(header) : Durable'[header[k]] = buf[header[k]]
    BY DEF WriteHeader, Contents, AtRest, AtHeader, Logged, Replayed
  <1>4. \A b \in Blocks : (\A k \in 1..Len(header) : header[k] # b) => Durable'[b] = buf[b]
    BY DEF WriteHeader, Contents, AtInstall, Clean, Replayed
  <1> QED
    BY <1>3, <1>4 DEF Replayed

(* Every step of the log is a step of the atomic disk or leaves it alone. *)
LEMMA StepRefines == LInv /\ LInv' /\ [Next]_vars => [Abstract!Next]_(Abstract!vars)
  <1> SUFFICES ASSUME LInv, LInv', [Next]_vars PROVE [Abstract!Next]_(Abstract!vars)
    OBVIOUS
  <1> USE DEF Abstract!vars
  <1>1. CASE UNCHANGED vars
    BY <1>1 DEF vars, disk, ops, Durable
  <1>2. ASSUME NEW p \in Procs, Call(p) \/ Nest(p) \/ StartSleep(p) \/ Panic(p)
        PROVE  UNCHANGED Abstract!vars
    <2>1. UNCHANGED <<disk, buf, up, depth>>
      BY <1>2 DEF Call, Nest, StartSleep, Panic
    <2> QED
      BY <2>1, DurableKept
  <1>3. ASSUME NEW p \in Procs, Start(p)
        PROVE  Abstract!Begin(p)
    <2> USE <1>3
    <2>1. {q \in Procs : depth[q] > 0}' = {q \in Procs : depth[q] > 0} \cup {p}
      BY DEF Start, LInv, Types, OpTypes
    <2>2. Durable' = Durable /\ buf' = buf /\ up' = up
      BY DurableKept DEF Start
    <2> QED
      BY <2>1, <2>2 DEF Abstract!Begin
  <1>4. ASSUME NEW p \in Procs, NEW b \in Blocks, NEW v \in Vals, Write(p, b, v)
        PROVE  Abstract!Write(p, b, v)
    <2> USE <1>4
    <2>1. up /\ up' /\ depth' = depth /\ depth[p] > 0 /\ buf' = [buf EXCEPT ![b] = v]
      BY DEF Write, LInv, Operations
    <2>2. Durable' = Durable
      BY DurableKept DEF Write
    <2> QED
      BY <2>1, <2>2 DEF Abstract!Write
  <1>5. ASSUME NEW p \in Procs, End(p) \/ EndLast(p)
        PROVE  Abstract!End(p) \/ UNCHANGED Abstract!vars
    <2>0. UNCHANGED <<disk, buf, up>> /\ depth' = [depth EXCEPT ![p] = @ - 1] /\ depth[p] \in 1..2
      <3>1. at[p] = "op" /\ UNCHANGED <<disk, buf, up>> /\ depth' = [depth EXCEPT ![p] = @ - 1]
        BY <1>5 DEF End, EndLast
      <3> QED
        BY <3>1 DEF LInv, Types, OpTypes
    <2> USE <2>0
    <2>1. \/ {q \in Procs : depth[q] > 0}' = {q \in Procs : depth[q] > 0} \ {p}
          \/ {q \in Procs : depth[q] > 0}' = {q \in Procs : depth[q] > 0}
      <3>1. CASE depth[p] = 1
        OBVIOUS
      <3>2. CASE depth[p] = 2
        OBVIOUS
      <3> QED
        OBVIOUS
    <2>2. Durable' = Durable /\ buf' = buf /\ up' = up
      BY DurableKept
    <2> QED
      BY <2>1, <2>2 DEF Abstract!End
  <1>6. CASE WriteLog
    <2> USE <1>6
    <2>0. dhdr = <<>> /\ dhdr' = <<>>
      BY DEF WriteLog, LInv, Contents, AtLog
    <2>1. Durable = home /\ Durable' = home'
      BY <2>0, NothingLogged, NothingNext, ZenonT(60) DEF LInv
    <2> QED
      BY <2>1 DEF WriteLog, ops
  <1>7. CASE WriteHeader
    <2> USE <1>7
    <2>1. {q \in Procs : depth[q] > 0} = {} /\ up
      BY ZenonT(60) DEF WriteHeader, LInv, Operations, Inside, Contents, AtRest, AtLog, AtHeader, AtInstall, AtClear, AtRead
    <2>2. Durable' = buf /\ buf' = buf /\ up' = up /\ depth' = depth
      BY HeaderCommits DEF WriteHeader, ops
    <2>3. Abstract!Commit
      BY <2>1, <2>2 DEF Abstract!Commit
    <2> QED
      BY <2>3 DEF Abstract!Next
  <1>8. CASE Install
    <2> USE <1>8
    <2>1. up' = up /\ depth' = depth
      BY DEF Install, ops
    <2> QED
      BY <2>1, InstallStutters
  <1>9. CASE Clear
    <2>1. /\ buf = home /\ buf' = buf /\ home' = home /\ depth' = depth /\ dhdr' = <<>>
          /\ \A k \in 1..Len(dhdr) : home[dhdr[k]] = logdata[k]
      BY <1>9, ZenonT(60) DEF Clear, LInv, Contents, AtRest, AtLog, AtHeader, AtInstall, AtClear, AtRead
    <2> USE <2>1
    <2>2. Durable = home
      BY DurableHome, ZenonT(60) DEF LInv
    <2>3. Durable' = home'
      BY NothingNext, ZenonT(60) DEF LInv
    <2> QED
      BY <2>2, <2>3
  <1>10. CASE ReadHeader
    BY <1>10 DEF ReadHeader, disk, ops, Durable
  <1>11. CASE Crash
    <2> USE <1>11
    <2>1. Durable' = Durable
      BY DurableKept DEF Crash
    <2>2. ~up' /\ {q \in Procs : depth[q] > 0}' = {}
      BY DEF Crash
    <2>3. Abstract!Crash
      BY <2>1, <2>2 DEF Abstract!Crash
    <2> QED
      BY <2>3, ZenonT(60) DEF Abstract!Next
  <1> QED
    BY <1>1, <1>2, <1>3, <1>4, <1>5, <1>6, <1>7, <1>8, <1>9, <1>10, <1>11, ZenonT(60)
       DEF Next, LogStep, Op, Abstract!Next

(* A buffer that is not pinned has what its home has. *)
LEMMA CachedIsBuf == LInv => (up => Cached = buf)
  <1> SUFFICES ASSUME LInv, up PROVE Cached = buf
    OBVIOUS
  <1>1. ASSUME NEW b \in Blocks, b \notin Pinned PROVE home[b] = buf[b]
    <2> USE <1>1
    <2>1. CASE phase = "install"
      <3> USE <2>1
      <3>1. tail \in 1..Len(header) /\ \A k \in tail..Len(header) : header[k] # b
        BY DEF LInv, Contents, AtInstall, Pinned
      <3>2. CASE \E k \in 1..(tail - 1) : header[k] = b
        <4>1. PICK k \in 1..(tail - 1) : header[k] = b
          BY <3>2
        <4>2. k \in 1..Len(header)
          BY <3>1 DEF LInv, Types, DiskTypes, HeaderTypes, OpTypes
        <4>3. home[header[k]] = logdata[k]
          BY DEF LInv, Contents, AtRest, AtLog, AtHeader, AtInstall, AtClear, AtRead
        <4>4. logdata[k] = buf[header[k]]
          BY DEF LInv, Contents, AtInstall, Logged
        <4> QED
          BY <4>1, <4>3, <4>4
      <3>3. CASE \A k \in 1..(tail - 1) : header[k] # b
        <4>1. \A k \in 1..Len(header) : header[k] # b
          BY <3>1, <3>3 DEF LInv, Types, DiskTypes, HeaderTypes, OpTypes
        <4> QED
          BY <4>1 DEF LInv, Contents, AtInstall, Clean
      <3> QED
        BY <3>2, <3>3
    <2>2. CASE phase # "install"
      <3> USE <2>2
      <3>1. \A k \in 1..Len(header) : header[k] # b
        BY DEF LInv, Types, DiskTypes, HeaderTypes, OpTypes, Pinned, Range
      <3> QED
        BY <3>1 DEF LInv, Types, OpTypes, Phases, Contents, AtRest, AtLog, AtHeader, AtClear,
            AtRead, Clean
    <2> QED
      BY <2>1, <2>2
  <1> QED
    BY <1>1 DEF Cached, LInv, Types, DiskTypes, HeaderTypes, OpTypes

(* When nobody is inside log::with, what the cache has is on the disk. *)
LEMMA Returned == LInv => DurableOnReturn
  <1> SUFFICES ASSUME LInv, up, phase = "none", \A p \in Procs : depth[p] = 0
               PROVE  Durable = buf
    BY DEF DurableOnReturn
  <1>1. header = <<>> /\ dhdr = <<>> /\ Clean
    BY DEF LInv, Operations, Inside, Contents, AtRest, AtLog, AtHeader, AtInstall, AtClear, AtRead
  <1>2. buf = home
    BY <1>1 DEF Clean, LInv, Types, DiskTypes
  <1> QED
    BY <1>1, <1>2, NothingLogged, ZenonT(60) DEF LInv
=============================================================================
