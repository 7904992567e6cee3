----------------------------- MODULE BufferRing -----------------------------
(***************************************************************************)
(* The ring of the cache's slots, for any number of them: Cache::new makes *)
(* one, Cache::remove keeps it, and a walk along it visits every slot.     *)
(***************************************************************************)
EXTENDS BufferInvariant, WellFoundedInduction, TLAPS

(* Most leaves take far less than a second; one that a busy machine interrupts is tried again. *)
USE SMTT(60), Z3T(60), SMTT(90), Z3T(90)

(* The ring after a slot has been moved to its tail: the first of it, *)
LEMMA MovedHead ==
    ASSUME RingOK, NEW i \in Slots, i = head, head' = next[i], tail' = i, next' = next, prev' = prev
    PROVE  RingOK'
<1>1. /\ next \in [Slots -> Slots] /\ prev \in [Slots -> Slots]
  BY DEF RingOK
<1>2. PICK p \in [Slots -> Slots] : Order(p) /\ Linked(p)
  BY DEF RingOK
<1> DEFINE q == [k \in Slots |-> IF k = N - 1 THEN p[0] ELSE p[k + 1]]
<1>3. /\ \A j, k \in Slots : p[j] = p[k] => j = k
      /\ \A j \in Slots : \E k \in Slots : p[k] = j
      /\ p[0] = head /\ p[N - 1] = tail /\ next[tail] = head /\ prev[head] = tail
      /\ \A k \in 0..(N - 2) : next[p[k]] = p[k + 1] /\ prev[p[k + 1]] = p[k]
  BY <1>2 DEF Order, Linked
<1>4. /\ 0 \in Slots /\ N - 1 \in Slots /\ N \in Nat /\ N > 0
      /\ \A k \in Slots : k \in Nat /\ k <= N - 1 /\ (k # N - 1 => k + 1 \in Slots /\ k \in 0..(N - 2))
                          /\ (k # 0 => k - 1 \in Slots /\ k - 1 # N - 1 /\ (k - 1) + 1 = k)
  BY SizeAssumption DEF Slots
<1>5. q \in [Slots -> Slots]
  BY <1>4
<1>6. Order(q)
  <2>1. ASSUME NEW j \in Slots, NEW k \in Slots, q[j] = q[k] PROVE j = k
    <3>1. CASE j = N - 1 /\ k # N - 1
      <4>1. p[0] = p[k + 1] /\ k + 1 \in Slots
        BY <1>4, <2>1, <3>1
      <4> QED
        BY <1>3, <1>4, <4>1
    <3>2. CASE j # N - 1 /\ k = N - 1
      <4>1. p[0] = p[j + 1] /\ j + 1 \in Slots
        BY <1>4, <2>1, <3>2
      <4> QED
        BY <1>3, <1>4, <4>1
    <3>3. CASE j # N - 1 /\ k # N - 1
      <4>1. p[j + 1] = p[k + 1] /\ j + 1 \in Slots /\ k + 1 \in Slots
        BY <1>4, <2>1, <3>3
      <4>2. j + 1 = k + 1
        BY <1>3, <4>1, ZenonT(60)
      <4> QED
        BY <1>4, <4>2
    <3> QED
      BY <3>1, <3>2, <3>3
  <2>2. ASSUME NEW j \in Slots PROVE \E k \in Slots : q[k] = j
    <3>1. PICK k \in Slots : p[k] = j
      BY <1>3
    <3>2. CASE k = 0
      <4>1. q[N - 1] = j /\ N - 1 \in Slots
        BY <1>4, <3>1, <3>2
      <4> QED
        BY <4>1, ZenonT(60)
    <3>3. CASE k # 0
      <4>1. q[k - 1] = j
        BY <1>4, <3>1, <3>3
      <4> QED
        BY <1>4, <3>3, <4>1
    <3> QED
      BY <3>2, <3>3
  <2> HIDE DEF q
  <2> QED
    BY <1>5, <2>1, <2>2 DEF Order
<1>7. Linked(q)'
  <2>1. q[0] = next[head]
    <3>1. CASE N = 1
      BY <1>3, <1>4, <3>1
    <3>2. CASE N # 1
      <4>1. 0 \in 0..(N - 2) /\ q[0] = p[0 + 1]
        BY <1>4, <3>2
      <4> QED
        BY <1>3, <4>1
    <3> QED
      BY <3>1, <3>2
  <2>2. q[N - 1] = head
    BY <1>3, <1>4
  <2>3. next[head] = q[0] /\ prev[q[0]] = head
    <3>1. CASE N = 1
      BY <1>3, <1>4, <2>1, <3>1
    <3>2. CASE N # 1
      <4>1. 0 \in 0..(N - 2) /\ q[0] = p[0 + 1]
        BY <1>4, <3>2
      <4> QED
        BY <1>3, <4>1
    <3> QED
      BY <3>1, <3>2
  <2>4. ASSUME NEW k \in 0..(N - 2) PROVE next[q[k]] = q[k + 1] /\ prev[q[k + 1]] = q[k]
    <3>0. k \in Slots /\ k + 1 \in Slots /\ k # N - 1 /\ q[k] = p[k + 1]
      BY SizeAssumption DEF Slots
    <3>1. CASE k = N - 2
      <4>1. q[k] = tail /\ q[k + 1] = head
        BY <1>3, <1>4, <3>0, <3>1
      <4> QED
        BY <1>3, <4>1
    <3>2. CASE k # N - 2
      <4>1. k + 1 \in 0..(N - 2) /\ q[k + 1] = p[(k + 1) + 1]
        BY <1>4, <3>0, <3>2
      <4> HIDE DEF q
      <4> QED
        BY <1>3, <3>0, <4>1, ZenonT(60)
    <3> QED
      BY <3>1, <3>2
  <2> HIDE DEF q
  <2> QED
    BY <2>1, <2>2, <2>3, <2>4 DEF Linked
<1> HIDE DEF q
<1>8. next' \in [Slots -> Slots] /\ prev' \in [Slots -> Slots] /\ Order(q)'
  BY <1>1, <1>6 DEF Order
<1> QED
  BY <1>5, <1>7, <1>8, ZenonT(60) DEF RingOK

(* or one from the middle of it. *)
LEMMA MovedMiddle ==
    ASSUME RingOK, NEW i \in Slots, i # head, i # tail,
           next' = [[next EXCEPT ![prev[i]] = next[i]] EXCEPT ![i] = head, ![tail] = i],
           prev' = [[prev EXCEPT ![next[i]] = prev[i]] EXCEPT ![i] = tail, ![head] = i],
           tail' = i, head' = head
    PROVE  RingOK'
<1>1. /\ next \in [Slots -> Slots] /\ prev \in [Slots -> Slots]
  BY DEF RingOK
<1>2. PICK p \in [Slots -> Slots] : Order(p) /\ Linked(p)
  BY DEF RingOK
<1>3. /\ \A j, k \in Slots : p[j] = p[k] => j = k
      /\ \A j \in Slots : \E k \in Slots : p[k] = j
      /\ p[0] = head /\ p[N - 1] = tail /\ next[tail] = head /\ prev[head] = tail
      /\ \A k \in 0..(N - 2) : next[p[k]] = p[k + 1] /\ prev[p[k + 1]] = p[k]
  BY <1>2 DEF Order, Linked
<1>4. /\ 0 \in Slots /\ N - 1 \in Slots /\ N \in Nat /\ N > 0
      /\ \A k \in Slots : k \in Nat /\ k <= N - 1
      /\ \A k \in Nat : k <= N - 1 => k \in Slots
  BY SizeAssumption DEF Slots
<1>5. PICK m \in Slots : p[m] = i
  BY <1>3
<1>6. m \in Nat /\ 0 < m /\ m < N - 1 /\ m - 1 \in Slots /\ m + 1 \in Slots /\ m - 1 \in Nat
  BY <1>3, <1>4, <1>5
<1>7. next[i] = p[m + 1] /\ prev[i] = p[m - 1] /\ head \in Slots /\ tail \in Slots /\ head # tail
  <2>1. m \in 0..(N - 2) /\ m - 1 \in 0..(N - 2) /\ (m - 1) + 1 = m
    BY <1>4, <1>6
  <2>2. next[p[m]] = p[m + 1] /\ prev[p[(m - 1) + 1]] = p[m - 1]
    BY <1>3, <2>1, ZenonT(60)
  <2>3. 0 # N - 1
    BY <1>4, <1>6
  <2> QED
    BY <1>3, <1>4, <1>5, <2>1, <2>2, <2>3
<1>d. /\ \A k \in Slots : k # m => p[k] # i
      /\ \A k \in Slots : k # N - 1 => p[k] # tail
      /\ \A k \in Slots : k # 0 => p[k] # head
      /\ \A k \in Slots : k # m - 1 => p[k] # prev[i]
      /\ \A k \in Slots : k # m + 1 => p[k] # next[i]
  BY <1>3, <1>4, <1>5, <1>6, <1>7
<1>8. next' \in [Slots -> Slots] /\ prev' \in [Slots -> Slots]
  BY <1>1, <1>7
<1>9. /\ next'[i] = head /\ next'[tail] = i
      /\ \A s \in Slots : s # i /\ s # tail /\ s # prev[i] => next'[s] = next[s]
      /\ prev[i] # i /\ prev[i] # tail => next'[prev[i]] = next[i]
  BY <1>1, <1>7
<1>10. /\ prev'[i] = tail /\ prev'[head] = i
       /\ \A s \in Slots : s # i /\ s # head /\ s # next[i] => prev'[s] = prev[s]
       /\ next[i] # i /\ next[i] # head => prev'[next[i]] = prev[i]
  BY <1>1, <1>7
<1> DEFINE q == [k \in Slots |-> IF k = N - 1 THEN i ELSE IF k < m THEN p[k] ELSE p[k + 1]]
<1>11. q \in [Slots -> Slots]
  BY <1>4
<1>12. /\ q[N - 1] = i
       /\ \A k \in Slots : k < m => q[k] = p[k]
       /\ \A k \in Slots : k >= m /\ k # N - 1 => q[k] = p[k + 1] /\ k + 1 \in Slots
  BY <1>4, <1>6
<1> HIDE DEF q
<1>13. Order(q)
  <2>1. ASSUME NEW j \in Slots, NEW k \in Slots, j < k, q[j] = q[k] PROVE FALSE
    <3>0. j \in Nat /\ k \in Nat /\ j <= N - 1 /\ k <= N - 1 /\ j # N - 1
      BY <1>4, <2>1
    <3> DEFINE a == IF j < m THEN j ELSE j + 1
    <3>1. a \in Slots /\ q[j] = p[a] /\ a # m
      BY <1>4, <1>6, <1>12, <3>0
    <3>2. CASE k = N - 1
      <4>1. p[a] = i
        BY <1>12, <2>1, <3>1, <3>2, ZenonT(60)
      <4> HIDE DEF a
      <4> QED
        BY <1>d, <3>1, <4>1, ZenonT(60)
    <3>3. CASE k # N - 1
      <4> DEFINE c == IF k < m THEN k ELSE k + 1
      <4>1. c \in Slots /\ q[k] = p[c] /\ a # c
        BY <1>4, <1>6, <1>12, <2>1, <3>0, <3>3
      <4>2. p[a] = p[c]
        BY <2>1, <3>1, <4>1, ZenonT(60)
      <4> HIDE DEF a, c
      <4> QED
        BY <1>3, <3>1, <4>1, <4>2, ZenonT(60)
    <3> QED
      BY <3>2, <3>3
  <2>2. ASSUME NEW j \in Slots PROVE \E k \in Slots : q[k] = j
    <3>1. PICK k \in Slots : p[k] = j
      BY <1>3
    <3>2. CASE k < m
      BY <1>12, <3>1, <3>2
    <3>3. CASE k = m
      BY <1>4, <1>5, <1>12, <3>1, <3>3
    <3>4. CASE k > m
      <4>1. k - 1 \in Slots /\ k - 1 >= m /\ k - 1 # N - 1 /\ (k - 1) + 1 = k
        BY <1>4, <1>6, <3>4
      <4>2. q[k - 1] = p[(k - 1) + 1]
        BY <1>12, <4>1, ZenonT(60)
      <4> QED
        BY <3>1, <4>1, <4>2
    <3> QED
      BY <1>4, <3>2, <3>3, <3>4
  <2>3. \A j, k \in Slots : j < k \/ k < j \/ j = k
    BY <1>4
  <2> QED
    BY <1>11, <2>1, <2>2, <2>3, ZenonT(60) DEF Order
<1>14. q[0] = head
  BY <1>3, <1>4, <1>6, <1>12
<1>15. ASSUME NEW k \in 0..(N - 2) PROVE next'[q[k]] = q[k + 1] /\ prev'[q[k + 1]] = q[k]
  <2>0. k \in Slots /\ k + 1 \in Slots /\ k \in Nat /\ k # N - 1
    BY SizeAssumption DEF Slots
  <2>1. CASE k + 1 < m
    <3>1. q[k] = p[k] /\ q[k + 1] = p[k + 1]
      BY <1>6, <1>12, <2>0, <2>1
    <3>2. k # m /\ k # N - 1 /\ k # m - 1 /\ k + 1 # m /\ k + 1 # 0 /\ k + 1 # m + 1
      BY <1>6, <2>0, <2>1
    <3>3. p[k] # i /\ p[k] # tail /\ p[k] # prev[i]
      BY <1>d, <2>0, <3>2, ZenonT(60)
    <3>4. p[k + 1] # i /\ p[k + 1] # head /\ p[k + 1] # next[i]
      BY <1>d, <2>0, <3>2, ZenonT(60)
    <3>5. next'[p[k]] = next[p[k]]
      BY <1>9, <2>0, <3>3, ZenonT(60)
    <3>6. prev'[p[k + 1]] = prev[p[k + 1]]
      BY <1>10, <2>0, <3>4, ZenonT(60)
    <3> QED
      BY <1>3, <3>1, <3>5, <3>6, ZenonT(60)
  <2>2. CASE k + 1 = m
    <3>1. q[k] = prev[i] /\ q[k + 1] = next[i]
      <4>1. k < m /\ m >= m /\ m # N - 1 /\ k = m - 1
        BY <1>6, <2>0, <2>2
      <4>2. q[k] = p[k] /\ q[m] = p[m + 1]
        BY <1>12, <2>0, <4>1, ZenonT(60)
      <4> QED
        BY <1>7, <2>2, <4>1, <4>2
    <3>2. k # m /\ k # N - 1 /\ m + 1 # m /\ m + 1 # 0 /\ k = m - 1
      BY <1>6, <2>0, <2>2
    <3>3. p[k] # i /\ p[k] # tail /\ p[m + 1] # i /\ p[m + 1] # head
      BY <1>d, <1>6, <2>0, <3>2, ZenonT(60)
    <3>4. prev[i] # i /\ prev[i] # tail /\ next[i] # i /\ next[i] # head
      BY <1>7, <3>2, <3>3
    <3> QED
      BY <1>1, <1>9, <1>10, <3>1, <3>4
  <2>3. CASE k >= m /\ k + 1 # N - 1
    <3>1. q[k] = p[k + 1] /\ q[k + 1] = p[(k + 1) + 1] /\ (k + 1) + 1 \in Slots /\ k + 1 \in 0..(N - 2)
      BY <1>4, <1>6, <1>12, <2>0, <2>3
    <3>2. k + 1 # m /\ k + 1 # N - 1 /\ k + 1 # m - 1 /\ (k + 1) + 1 # m /\ (k + 1) + 1 # 0 /\ (k + 1) + 1 # m + 1
      BY <1>6, <2>0, <2>3
    <3>3. p[k + 1] # i /\ p[k + 1] # tail /\ p[k + 1] # prev[i]
      BY <1>d, <2>0, <3>2, ZenonT(60)
    <3>4. p[(k + 1) + 1] # i /\ p[(k + 1) + 1] # head /\ p[(k + 1) + 1] # next[i]
      BY <1>d, <3>1, <3>2, ZenonT(60)
    <3>5. next[p[k + 1]] = p[(k + 1) + 1] /\ prev[p[(k + 1) + 1]] = p[k + 1]
      BY <1>3, <3>1, ZenonT(60)
    <3>6. next'[p[k + 1]] = next[p[k + 1]]
      BY <1>9, <2>0, <3>3, ZenonT(60)
    <3> DEFINE s == p[(k + 1) + 1]
    <3>7. s \in Slots /\ s # i /\ s # head /\ s # next[i]
      BY <3>1, <3>4
    <3>8. prev'[s] = prev[s]
      BY <1>10, <3>7, ZenonT(60)
    <3> QED
      BY <3>1, <3>5, <3>6, <3>8, ZenonT(60)
  <2>4. CASE k >= m /\ k + 1 = N - 1
    <3>1. q[k] = tail /\ q[k + 1] = i
      BY <1>3, <1>12, <2>0, <2>4
    <3> QED
      BY <1>9, <1>10, <3>1
  <2> QED
    BY <1>6, <2>0, <2>1, <2>2, <2>3, <2>4
<1>16. Linked(q)'
  BY <1>9, <1>10, <1>12, <1>14, <1>15, ZenonT(60) DEF Linked
<1>17. Order(q)'
  BY <1>13 DEF Order
<1> QED
  BY <1>8, <1>11, <1>16, <1>17, ZenonT(60) DEF RingOK

(* Cache::remove keeps the ring, whichever slot it moves. *)
LEMMA RemoveRing ==
    ASSUME RingOK, NEW i \in Slots, Remove(i)
    PROVE  RingOK'
<1>1. CASE i = head
  BY <1>1, MovedHead, ZenonT(60) DEF Remove
<1>2. CASE i # head /\ i = tail
  <2>1. UNCHANGED ring
    BY <1>2, ZenonT(60) DEF Remove
  <2> QED
    BY <2>1, ZenonT(60) DEF ring, RingOK, Order, Linked
<1>3. CASE i # head /\ i # tail
  BY <1>3, MovedMiddle, ZenonT(60) DEF Remove
<1> QED
  BY <1>1, <1>2, <1>3, ZenonT(60)

(* Every step keeps the ring. *)
LEMMA StepRing ==
    ASSUME Types, RingOK, Next
    PROVE  RingOK'
<1>u. ASSUME UNCHANGED ring PROVE RingOK'
  BY <1>u, ZenonT(60) DEF ring, RingOK, Order, Linked
<1>1. PICK u \in Users : Step(u) \/ \E b \in Blocks, m \in Modes : Get(u, b, m)
  BY ZenonT(60) DEF Next
<1>2. CASE \E b \in Blocks, m \in Modes : Get(u, b, m)
  <2>1. UNCHANGED ring
    BY <1>2, ZenonT(60) DEF Get
  <2> QED
    BY <1>u, <2>1
<1>3. CASE Acquire(u) \/ SleepForLock(u) \/ Fill(u) \/ LogWrite(u) \/ Unpin(u) \/ Flush(u) \/ Unlock(u)
  <2>1. UNCHANGED ring
    BY <1>3, ZenonT(60) DEF Acquire, SleepForLock, Fill, LogWrite, Unpin, Flush, Unlock, cache
  <2> QED
    BY <1>u, <2>1
<1>4. CASE Release(u)
  <2>1. Remove(idx[u]) \/ UNCHANGED ring
    BY <1>4, ZenonT(60) DEF Release, RcRelease
  <2>2. idx[u] \in Slots
    BY DEF Types
  <2> QED
    BY <1>u, <2>1, <2>2, RemoveRing, ZenonT(60)
<1> QED
  BY <1>1, <1>2, <1>3, <1>4, ZenonT(60) DEF Step

(* A set of natural numbers has a least member. *)
LEMMA Least ==
    ASSUME NEW T \in SUBSET Nat, T # {}
    PROVE  \E x \in T : \A y \in T : x <= y
<1> DEFINE R == OpToRel(<, Nat)
<1>1. IsWellFoundedOn(R, Nat)
  BY NatLessThanWellFounded, ZenonT(60)
<1>2. \A x, y \in Nat : x < y => <<x, y>> \in R
  BY DEF OpToRel
<1> HIDE DEF R
<1>3. PICK x \in T : \A y \in T : ~(<<y, x>> \in R)
  BY <1>1, WFMin, ZenonT(60)
<1>4. ASSUME NEW y \in T PROVE x <= y
  <2>1. x \in Nat /\ y \in Nat
    OBVIOUS
  <2>2. ~(y < x)
    BY <1>2, <1>3, <2>1, ZenonT(60)
  <2> QED
    BY <2>1, <2>2
<1> QED
  BY <1>4

(* A walk along links that follow p visits what p lists. *)
LEMMA WalkIs ==
    ASSUME NEW p \in [Slots -> Slots], NEW links, NEW start, p[0] = start,
           \A k \in 0..(N - 2) : links[p[k]] = p[k + 1],
           NEW walk, walk = CHOOSE f : f = [k \in Slots |-> IF k = 0 THEN start ELSE links[f[k - 1]]]
    PROVE  walk = p
<1> DEFINE Is(f) == f = [k \in Slots |-> IF k = 0 THEN start ELSE links[f[k - 1]]]
<1>0. /\ \A k \in Slots : k \in Nat /\ (k # 0 => k - 1 \in 0..(N - 2) /\ k - 1 \in Slots /\ (k - 1) + 1 = k)
      /\ 0 \in Slots
  BY SizeAssumption DEF Slots
<1>1. Is(p)
  <2>1. ASSUME NEW k \in Slots PROVE p[k] = IF k = 0 THEN start ELSE links[p[k - 1]]
    <3>1. CASE k = 0
      BY <3>1
    <3>2. CASE k # 0
      <4>1. links[p[k - 1]] = p[(k - 1) + 1] /\ (k - 1) + 1 = k
        BY <1>0, <3>2, ZenonT(60)
      <4> QED
        BY <3>2, <4>1
    <3> QED
      BY <3>1, <3>2
  <2> QED
    BY <2>1
<1>2. Is(walk)
  BY <1>1, ZenonT(60)
<1>3. ASSUME NEW k \in Slots, walk[k] # p[k] PROVE FALSE
  <2> DEFINE T == {j \in Slots : walk[j] # p[j]}
  <2>1. T \in SUBSET Nat /\ T # {}
    BY <1>0, <1>3, ZenonT(60)
  <2>2. PICK j \in T : \A i \in T : j <= i
    BY <2>1, Least, ZenonT(60)
  <2>3. j # 0
    BY <1>2, <2>2
  <2>4. j \in Slots /\ j \in Nat /\ j - 1 \in Slots /\ j - 1 \in 0..(N - 2) /\ (j - 1) + 1 = j
    BY <1>0, <2>2, <2>3, ZenonT(60)
  <2>5. walk[j - 1] = p[j - 1]
    <3>1. ~(j <= j - 1)
      BY <2>4
    <3> QED
      BY <2>2, <2>4, <3>1, ZenonT(60)
  <2>6. walk[j] = links[walk[j - 1]]
    <3>1. walk[j] = IF j = 0 THEN start ELSE links[walk[j - 1]]
      BY <1>2, <2>4, ZenonT(60)
    <3> QED
      BY <2>3, <3>1, ZenonT(60)
  <2>7. walk[j] = p[(j - 1) + 1]
    BY <2>4, <2>5, <2>6, ZenonT(60)
  <2>8. walk[j] # p[j]
    BY <2>2, ZenonT(60)
  <2> QED
    BY <2>4, <2>7, <2>8, ZenonT(60)
<1> QED
  BY <1>2, <1>3

(* Both walks visit every slot, in the order of the ring. *)
LEMMA Walks ==
    ASSUME RingOK
    PROVE  \E p \in [Slots -> Slots] :
             /\ Order(p) /\ Linked(p) /\ Indexes = p
             /\ IndexesRev = [k \in Slots |-> p[N - 1 - k]]
<1>1. PICK p \in [Slots -> Slots] : Order(p) /\ Linked(p)
  BY DEF RingOK
<1>2. Indexes = CHOOSE f : f = [k \in Slots |-> IF k = 0 THEN head ELSE next[f[k - 1]]]
  BY DEF Indexes
<1>3. IndexesRev = CHOOSE f : f = [k \in Slots |-> IF k = 0 THEN tail ELSE prev[f[k - 1]]]
  BY DEF IndexesRev
<1>4. Indexes = p
  <2>1. p[0] = head /\ \A k \in 0..(N - 2) : next[p[k]] = p[k + 1]
    BY <1>1 DEF Linked
  <2> QED
    BY <1>2, <2>1, WalkIs
<1> DEFINE q == [k \in Slots |-> p[N - 1 - k]]
<1>5. q \in [Slots -> Slots]
  BY SizeAssumption DEF Slots
<1>6. q[0] = tail
  BY <1>1, SizeAssumption DEF Slots, Linked
<1>7. \A k \in 0..(N - 2) : prev[q[k]] = q[k + 1]
  <2> SUFFICES ASSUME NEW k \in 0..(N - 2) PROVE prev[q[k]] = q[k + 1]
    OBVIOUS
  <2>1. /\ N - 2 - k \in 0..(N - 2) /\ (N - 2 - k) + 1 = N - 1 - k /\ N - 1 - (k + 1) = N - 2 - k
        /\ k \in Slots /\ k + 1 \in Slots
    BY SizeAssumption DEF Slots
  <2>2. prev[p[(N - 2 - k) + 1]] = p[N - 2 - k]
    BY <1>1, <2>1 DEF Linked
  <2> QED
    BY <2>1, <2>2
<1> HIDE DEF q
<1>8. IndexesRev = q
  BY <1>3, <1>5, <1>6, <1>7, WalkIs
<1> QED
  BY <1>1, <1>4, <1>8 DEF q

(* Cache::get finds the slot with the key, or else an unused one. *)
LEMMA RingFinds == RingOK => Finds
<1> SUFFICES ASSUME RingOK, NEW b \in Blocks, NEW i \in Lookup(b)
             PROVE  i \in Slots /\ ((key[i] = b /\ Find(b) # {}) \/ (key[i] = NoBlock /\ Find(b) = {}))
  BY DEF Finds
<1>1. PICK p \in [Slots -> Slots] : IndexesRev = [k \in Slots |-> p[N - 1 - k]]
  BY Walks, ZenonT(60)
<1>2. ASSUME NEW k \in Slots PROVE IndexesRev[k] \in Slots
  <2>1. N - 1 - k \in Slots
    BY SizeAssumption DEF Slots
  <2> QED
    BY <1>1, <2>1, ZenonT(60)
<1> QED
  BY <1>2 DEF Lookup, Find, FindUnused

(* The remainder of a number below twice the divisor. *)
LEMMA Remainder ==
    ASSUME NEW n \in Nat, n > 0, NEW a \in Nat, a < 2 * n
    PROVE  a % n = IF a < n THEN a ELSE a - n
<1>1. CASE a < n
  BY <1>1
<1>2. CASE a >= n
  BY <1>2
<1> QED
  BY <1>1, <1>2

(* Cache::new links the slots in their order. *)
LEMMA InitRing == Init => RingOK
<1> SUFFICES ASSUME Init PROVE RingOK
  OBVIOUS
<1> USE SizeAssumption
<1>1. head = 0 /\ tail = N - 1 /\ 0 \in Slots /\ N - 1 \in Slots
  BY DEF Init, Slots
<1>2. ASSUME NEW i \in Slots
      PROVE  /\ next[i] = IF i < N - 1 THEN i + 1 ELSE 0
             /\ prev[i] = IF i = 0 THEN N - 1 ELSE i - 1
  <2>1. i \in Nat /\ i + 1 \in Nat /\ i + 1 < 2 * N /\ i + N - 1 \in Nat /\ i + N - 1 < 2 * N
    BY DEF Slots
  <2>2. (i + 1) % N = IF i + 1 < N THEN i + 1 ELSE i + 1 - N
    BY <2>1, Remainder
  <2>3. (i + N - 1) % N = IF i + N - 1 < N THEN i + N - 1 ELSE i + N - 1 - N
    BY <2>1, Remainder
  <2>4. next[i] = (i + 1) % N /\ prev[i] = (i + N - 1) % N
    BY ZenonT(60) DEF Init
  <2>5. i <= N - 1
    BY DEF Slots
  <2> QED
    BY <2>1, <2>2, <2>3, <2>4, <2>5
<1>3. next \in [Slots -> Slots] /\ prev \in [Slots -> Slots]
  <2>1. ASSUME NEW i \in Slots PROVE next[i] \in Slots /\ prev[i] \in Slots
    BY <1>2 DEF Slots
  <2>2. next = [i \in Slots |-> next[i]] /\ prev = [i \in Slots |-> prev[i]]
    BY ZenonT(60) DEF Init
  <2> QED
    BY <2>1, <2>2, ZenonT(60)
<1> DEFINE p == [k \in Slots |-> k]
<1>4. p \in [Slots -> Slots] /\ Order(p)
  BY DEF Order
<1>5. Linked(p)
  <2>1. next[tail] = head /\ prev[head] = tail
    BY <1>1, <1>2
  <2>2. ASSUME NEW k \in 0..(N - 2) PROVE next[p[k]] = p[k + 1] /\ prev[p[k + 1]] = p[k]
    <3>1. k \in Slots /\ k + 1 \in Slots /\ k \in Nat /\ k < N - 1
      BY DEF Slots
    <3> QED
      BY <1>2, <3>1
  <2> QED
    BY <1>1, <2>1, <2>2 DEF Linked
<1> QED
  BY <1>3, <1>4, <1>5 DEF RingOK

(* A ring that p lists is one that indexes() walks through. *)
LEMMA RingWalked == RingOK => RingIntact
<1> SUFFICES ASSUME RingOK PROVE RingIntact
  OBVIOUS
<1>1. PICK p \in [Slots -> Slots] : Order(p) /\ Linked(p) /\ Indexes = p
  BY Walks, ZenonT(60)
<1>2. {Indexes[k] : k \in Slots} = Slots
  BY <1>1 DEF Order
<1>3. Indexes[N - 1] = tail /\ next[tail] = head
  BY <1>1 DEF Linked
<1>4. ASSUME NEW i \in Slots PROVE prev[next[i]] = i
  <2>1. PICK k \in Slots : p[k] = i
    BY <1>1 DEF Order
  <2>2. CASE k = N - 1
    BY <1>1, <2>1, <2>2 DEF Linked
  <2>3. CASE k # N - 1
    <3>1. k \in 0..(N - 2)
      BY <2>3, SizeAssumption DEF Slots
    <3> QED
      BY <1>1, <2>1, <3>1 DEF Linked
  <2> QED
    BY <2>2, <2>3
<1> QED
  BY <1>2, <1>3, <1>4 DEF RingIntact
=============================================================================
