-------------------------- MODULE MemoryPoolProofs --------------------------
(***************************************************************************)
(* The two operations of the pool keep its list intact, whoever calls      *)
(* them, as long as only slots in use are freed.                           *)
(***************************************************************************)
EXTENDS MemoryPool, FiniteSetTheorems, TLAPS

(* used_ counts the slots in use.                                          *)
CountInv == IsFiniteSet(Live) /\ Cardinality(Live) = used

PoolInv == PoolTypeOK /\ CountInv /\ FreeListIntact

LEMMA CountBounds ==
  ASSUME CountInv
  PROVE  used \in 0..Size /\ (used = 0 => Live = {})
<1>1. IsFiniteSet(Slots) /\ Cardinality(Slots) = Size
  BY FS_Interval, SizeAssumption DEF Slots
<1>2. Cardinality(Live) \in Nat /\ Cardinality(Live) <= Cardinality(Slots)
  BY <1>1, FS_CardinalityType, FS_Subset DEF Live, CountInv
<1>3. Cardinality(Live) = 0 => Live = {}
  BY FS_EmptySet DEF CountInv
<1>4. QED
  BY <1>1, <1>2, <1>3, SizeAssumption DEF CountInv

(* At startup the list runs through all slots from the first to the last.  *)
LEMMA PoolInitKeeps ==
  ASSUME PoolInit
  PROVE  PoolInv
<1>1. PoolTypeOK
  BY SizeAssumption DEF PoolInit, PoolTypeOK, Slots
<1>2. Live = {}
  <2> SUFFICES ASSUME NEW s \in Slots
               PROVE  next[s] # Taken
    BY DEF Live
  <2>1. CASE s = Size - 1
    BY <2>1, SentinelAssumption DEF PoolInit
  <2>2. CASE s # Size - 1
    <3>1. next[s] = s + 1 /\ s + 1 \in Slots
      BY <2>2, SizeAssumption DEF PoolInit, Slots
    <3>2. QED
      BY <3>1, SentinelAssumption
  <2>3. QED
    BY <2>1, <2>2
<1>3. CountInv
  BY <1>2, FS_EmptySet DEF CountInv, PoolInit
<1>4. FreeListIntact
  <2> DEFINE list == [i \in 1..(Size - used) |-> i - 1]
  <2>1. used = 0 /\ Size \in Nat /\ Size > 0
    BY SizeAssumption DEF PoolInit
  <2>2. list \in [1..(Size - used) -> Slots]
    BY <2>1 DEF Slots
  <2>3. \A i \in 1..Size : list[i] = i - 1
    BY <2>1
  <2>4. IsFreeList(list, Size - used)
    <3>1. \A i \in 1..Size : list[i] \notin Live
      BY <1>2
    <3>2. \A i, j \in 1..Size : list[i] = list[j] => i = j
      <4> SUFFICES ASSUME NEW i \in 1..Size, NEW j \in 1..Size, list[i] = list[j]
                   PROVE  i = j
        OBVIOUS
      <4>1. i - 1 = j - 1
        BY <2>3
      <4>2. QED
        BY <4>1
    <3>3. \A i \in 1..(Size - 1) : next[list[i]] = list[i + 1]
      BY <2>1, <2>3 DEF PoolInit, Slots
    <3>4. freeHead = list[1] /\ next[list[Size]] = Sentinel
      BY <2>1, <2>3 DEF PoolInit, Slots
    <3> HIDE DEF list
    <3>5. Size - used = Size /\ Size # 0
      BY <2>1
    <3>6. QED
      BY <3>1, <3>2, <3>3, <3>4, <3>5 DEF IsFreeList
  <2>5. \A s \in Slots \ Live : \E i \in 1..(Size - used) : list[i] = s
    <3> SUFFICES ASSUME NEW s \in Slots
                 PROVE  \E i \in 1..(Size - used) : list[i] = s
      OBVIOUS
    <3>1. s + 1 \in 1..(Size - used) /\ list[s + 1] = s
      BY <2>1, <2>3 DEF Slots
    <3>2. QED
      BY <3>1
  <2>6. QED
    BY <2>2, <2>4, <2>5 DEF FreeListIntact
<1>5. QED
  BY <1>1, <1>3, <1>4 DEF PoolInv

LEMMA AllocCounts ==
  ASSUME PoolInv, Alloc
  PROVE  /\ freeHead \in Slots /\ freeHead \notin Live
         /\ Live' = Live \cup {freeHead}
         /\ CountInv' /\ used + 1 \in 1..Size /\ used \in Nat
<1>1. used \in 0..Size /\ Size \in Nat
  BY CountBounds, SizeAssumption DEF PoolInv
<1>2. freeHead \in Slots /\ freeHead \notin Live
  BY <1>1 DEF PoolInv, FreeListIntact, IsFreeList, PoolTypeOK, Alloc, Exhausted
<1>3. Live' = Live \cup {freeHead}
  BY <1>2 DEF PoolInv, PoolTypeOK, Alloc, Live
<1>4. CountInv'
  BY <1>1, <1>2, <1>3, FS_AddElement DEF PoolInv, CountInv, Alloc
<1>5. used' \in 0..Size
  <2>1. IsFiniteSet(Slots) /\ Cardinality(Slots) = Size
    BY FS_Interval, SizeAssumption DEF Slots
  <2>2. Cardinality(Live') <= Size
    BY <2>1, <1>3, <1>2, FS_Subset DEF Live
  <2>3. QED
    BY <1>1, <1>4, <2>2 DEF CountInv, Alloc
<1>6. QED
  BY <1>1, <1>2, <1>3, <1>4, <1>5 DEF Alloc

(* alloc takes the first slot off the list.                                *)
LEMMA AllocKeeps ==
  ASSUME PoolInv, Alloc
  PROVE  PoolInv'
<1>1. /\ freeHead \in Slots /\ freeHead \notin Live
      /\ Live' = Live \cup {freeHead}
      /\ CountInv' /\ used + 1 \in 1..Size /\ used \in Nat
  BY AllocCounts
<1>2. PICK n \in Nat : n = Size - used /\ n > 0 /\ n - 1 = Size - used'
  BY <1>1, SizeAssumption DEF Alloc
<1>3. PoolTypeOK'
  BY <1>1, SizeAssumption DEF PoolTypeOK, PoolInv, Alloc, Live
<1>4. FreeListIntact'
  <2>1. PICK list \in [1..n -> Slots] :
          /\ IsFreeList(list, n)
          /\ \A s \in Slots \ Live : \E i \in 1..n : list[i] = s
    BY <1>2 DEF PoolInv, FreeListIntact
  <2> DEFINE rest == [i \in 1..(n - 1) |-> list[i + 1]]
  <2>2. rest \in [1..(n - 1) -> Slots]
    BY <1>2
  <2>3. \A i \in 1..(n - 1) : rest[i] = list[i + 1] /\ i + 1 \in 1..n /\ list[i + 1] # list[1]
    BY <2>1, <1>2 DEF IsFreeList
  <2> HIDE DEF rest
  <2>4. freeHead = list[1] /\ next[list[n]] = Sentinel
    BY <2>1, <1>2 DEF IsFreeList
  <2>5. \A s \in Slots : s # freeHead => next'[s] = next[s]
    BY DEF Alloc, PoolInv, PoolTypeOK
  <2>6. IsFreeList(rest, n - 1)'
    <3>1. \A i \in 1..(n - 1) : rest[i] \notin Live'
      BY <2>1, <2>3, <2>4, <1>1 DEF IsFreeList
    <3>2. \A i, j \in 1..(n - 1) : rest[i] = rest[j] => i = j
      BY <2>1, <2>3, <1>2 DEF IsFreeList
    <3>3. \A i \in 1..((n - 1) - 1) : next'[rest[i]] = rest[i + 1]
      <4> SUFFICES ASSUME NEW i \in 1..((n - 1) - 1)
                   PROVE  next'[rest[i]] = rest[i + 1]
        OBVIOUS
      <4>1. i \in 1..(n - 1) /\ i + 1 \in 1..(n - 1)
        BY <1>2
      <4>2. next[list[i + 1]] = list[(i + 1) + 1]
        BY <4>1, <2>1 DEF IsFreeList
      <4>3. rest[i] = list[i + 1] /\ rest[i + 1] = list[(i + 1) + 1] /\ list[i + 1] # list[1]
            /\ list[i + 1] \in Slots
        BY <4>1, <2>3
      <4>4. QED
        BY <4>2, <4>3, <2>4, <2>5
    <3>4. n - 1 = 0 => Exhausted'
      BY <2>4, <1>2 DEF Exhausted, Alloc
    <3>5. n - 1 # 0 => freeHead' = rest[1] /\ next'[rest[n - 1]] = Sentinel
      <4> SUFFICES ASSUME n - 1 # 0
                   PROVE  freeHead' = rest[1] /\ next'[rest[n - 1]] = Sentinel
        OBVIOUS
      <4>1. 1 \in 1..(n - 1) /\ n - 1 \in 1..(n - 1) /\ (n - 1) + 1 = n
        BY <1>2
      <4>2. freeHead' = list[2]
        BY <4>1, <2>1, <2>4 DEF IsFreeList, Alloc
      <4>3. rest[1] = list[2] /\ rest[n - 1] = list[n] /\ list[n] # list[1] /\ list[n] \in Slots
        BY <4>1, <2>3
      <4>4. QED
        BY <4>2, <4>3, <2>4, <2>5
    <3>6. QED
      BY <3>1, <3>2, <3>3, <3>4, <3>5 DEF IsFreeList
  <2>7. \A s \in Slots \ Live' : \E i \in 1..(n - 1) : rest[i] = s
    <3> SUFFICES ASSUME NEW s \in Slots, s \notin Live'
                 PROVE  \E i \in 1..(n - 1) : rest[i] = s
      OBVIOUS
    <3>1. s \notin Live /\ s # list[1]
      BY <1>1, <2>4
    <3>2. PICK i \in 1..n : list[i] = s
      BY <3>1, <2>1
    <3>3. i - 1 \in 1..(n - 1) /\ (i - 1) + 1 = i
      BY <3>1, <3>2, <1>2
    <3>4. rest[i - 1] = s
      BY <3>2, <3>3, <2>3
    <3>5. QED
      BY <3>3, <3>4
  <2>8. QED
    BY <2>2, <2>6, <2>7, <1>2 DEF FreeListIntact
<1>5. QED
  BY <1>1, <1>3, <1>4 DEF PoolInv

(* free puts the slot before the first of the list.                        *)
LEMMA FreeKeeps ==
  ASSUME PoolInv, NEW s \in Live, Free(s)
  PROVE  PoolInv' /\ Live' = Live \ {s}
<1>1. used \in 0..Size /\ used # 0 /\ Size \in Nat /\ s \in Slots
  BY CountBounds, SizeAssumption DEF PoolInv, Live
<1>2. freeHead # Taken /\ freeHead \in Slots \cup {Sentinel}
  BY SentinelAssumption DEF PoolInv, PoolTypeOK
<1>3. Live' = Live \ {s}
  BY <1>1, <1>2 DEF PoolInv, PoolTypeOK, Free, Live
<1>4. CountInv'
  BY <1>1, <1>3, FS_RemoveElement DEF PoolInv, CountInv, Free
<1>5. PoolTypeOK'
  BY <1>1, <1>2 DEF PoolTypeOK, PoolInv, Free
<1>6. PICK n \in Nat : n = Size - used /\ n + 1 = Size - used'
  BY <1>1 DEF Free
<1>7. FreeListIntact'
  <2>1. PICK list \in [1..n -> Slots] :
          /\ IsFreeList(list, n)
          /\ \A r \in Slots \ Live : \E i \in 1..n : list[i] = r
    BY <1>6 DEF PoolInv, FreeListIntact
  <2> DEFINE more == [i \in 1..(n + 1) |-> IF i = 1 THEN s ELSE list[i - 1]]
  <2>2. more \in [1..(n + 1) -> Slots]
    BY <1>1, <1>6
  <2>3. more[1] = s
    BY <1>6
  <2>4. \A i \in 1..n : i + 1 \in 1..(n + 1) /\ more[i + 1] = list[i] /\ list[i] # s
    BY <1>6, <2>1 DEF IsFreeList
  <2>5. \A i \in 1..(n + 1) : i = 1 \/ (i - 1 \in 1..n /\ (i - 1) + 1 = i)
    BY <1>6
  <2> HIDE DEF more
  <2>6. next'[s] = freeHead /\ freeHead' = s /\ \A r \in Slots : r # s => next'[r] = next[r]
    BY <1>1 DEF Free, PoolInv, PoolTypeOK
  <2>7. IsFreeList(more, n + 1)'
    <3>1. \A i \in 1..(n + 1) : more[i] \notin Live'
      <4> SUFFICES ASSUME NEW i \in 1..(n + 1)
                   PROVE  more[i] \notin Live'
        OBVIOUS
      <4>1. CASE i = 1
        BY <4>1, <1>3, <2>3
      <4>2. CASE i # 1
        <5>1. i - 1 \in 1..n /\ more[i] = list[i - 1]
          BY <4>2, <2>4, <2>5
        <5>2. list[i - 1] \notin Live
          BY <5>1, <2>1 DEF IsFreeList
        <5>3. QED
          BY <5>1, <5>2, <1>3
      <4>3. QED
        BY <4>1, <4>2
    <3>2. \A i, j \in 1..(n + 1) : more[i] = more[j] => i = j
      <4> SUFFICES ASSUME NEW i \in 1..(n + 1), NEW j \in 1..(n + 1), more[i] = more[j]
                   PROVE  i = j
        OBVIOUS
      <4>0. \A k \in 1..(n + 1) : k # 1 => more[k] = list[k - 1] /\ more[k] # s
        BY <2>4, <2>5
      <4>1. CASE i = 1 \/ j = 1
        BY <4>0, <4>1, <2>3
      <4>2. CASE i # 1 /\ j # 1
        <5>1. list[i - 1] = list[j - 1] /\ i - 1 \in 1..n /\ j - 1 \in 1..n
          BY <4>2, <2>4, <2>5
        <5>2. i - 1 = j - 1
          BY <5>1, <2>1 DEF IsFreeList
        <5>3. QED
          BY <5>2
      <4>3. QED
        BY <4>1, <4>2
    <3>3. \A i \in 1..((n + 1) - 1) : next'[more[i]] = more[i + 1]
      <4> SUFFICES ASSUME NEW i \in 1..n
                   PROVE  next'[more[i]] = more[i + 1]
        BY <1>6
      <4>1. more[i + 1] = list[i]
        BY <2>4
      <4>2. CASE i = 1
        BY <4>1, <4>2, <2>1, <2>3, <2>6, <1>6 DEF IsFreeList
      <4>3. CASE i # 1
        <5>1. i - 1 \in 1..(n - 1) /\ i - 1 \in 1..n /\ (i - 1) + 1 = i
          BY <4>3, <1>6
        <5>2. next[list[i - 1]] = list[i]
          BY <5>1, <2>1 DEF IsFreeList
        <5>3. more[i] = list[i - 1] /\ list[i - 1] # s /\ list[i - 1] \in Slots
          BY <5>1, <2>4
        <5>4. QED
          BY <5>2, <5>3, <4>1, <2>6
      <4>4. QED
        BY <4>2, <4>3
    <3>4. next'[more[n + 1]] = Sentinel
      <4>1. CASE n = 0
        BY <4>1, <2>1, <2>3, <2>6 DEF IsFreeList, Exhausted
      <4>2. CASE n # 0
        <5>1. n \in 1..n
          BY <4>2
        <5>2. more[n + 1] = list[n] /\ list[n] # s /\ list[n] \in Slots
          BY <5>1, <2>4
        <5>3. QED
          BY <4>2, <5>2, <2>1, <2>6 DEF IsFreeList
      <4>3. QED
        BY <4>1, <4>2
    <3>5. freeHead' = more[1] /\ n + 1 # 0
      BY <2>3, <2>6
    <3>6. QED
      BY <3>1, <3>2, <3>3, <3>4, <3>5 DEF IsFreeList
  <2>8. \A r \in Slots \ Live' : \E i \in 1..(n + 1) : more[i] = r
    <3> SUFFICES ASSUME NEW r \in Slots, r \notin Live'
                 PROVE  \E i \in 1..(n + 1) : more[i] = r
      OBVIOUS
    <3>1. CASE r = s
      <4>1. 1 \in 1..(n + 1)
        OBVIOUS
      <4>2. QED
        BY <3>1, <4>1, <2>3
    <3>2. CASE r # s
      <4>1. PICK i \in 1..n : list[i] = r
        BY <3>2, <1>3, <2>1
      <4>2. QED
        BY <4>1, <2>4
    <3>3. QED
      BY <3>1, <3>2
  <2>9. QED
    BY <2>2, <2>7, <2>8, <1>6 DEF FreeListIntact
<1>8. QED
  BY <1>3, <1>4, <1>5, <1>7 DEF PoolInv

LEMMA PoolFrame ==
  ASSUME PoolInv, UNCHANGED poolVars
  PROVE  PoolInv' /\ Live' = Live
<1>1. Live' = Live
  BY DEF poolVars, Live
<1>2. PoolTypeOK' /\ CountInv'
  BY <1>1 DEF PoolInv, poolVars, PoolTypeOK, CountInv
<1>3. FreeListIntact'
  BY <1>1 DEF PoolInv, poolVars, FreeListIntact, IsFreeList, Exhausted
<1>4. QED
  BY <1>1, <1>2, <1>3 DEF PoolInv

(* A pool whose owner frees only what is in use hands out every slot to    *)
(* one holder at a time and loses none.                                    *)
THEOREM PoolStaysIntact == PoolSpec => []FreeListIntact
<1>1. PoolInit => PoolInv
  BY PoolInitKeeps
<1>2. PoolInv /\ [PoolNext]_poolVars => PoolInv'
  BY AllocKeeps, FreeKeeps, PoolFrame DEF PoolNext
<1>3. PoolInv => FreeListIntact
  BY DEF PoolInv
<1>4. QED
  BY <1>1, <1>2, <1>3, PTL DEF PoolSpec

(* The list ends at once exactly when there is no slot it could run to.    *)
LEMMA ListEnds ==
  ASSUME PoolInv
  PROVE  RefusesWhenFull
<1> DEFINE n == Size - used
<1>1. PICK list \in [1..n -> Slots] :
        IsFreeList(list, n) /\ \A s \in Slots \ Live : \E i \in 1..n : list[i] = s
  BY DEF PoolInv, FreeListIntact
<1>2. n \in Nat /\ Live \subseteq Slots /\ Sentinel \notin Slots
  BY SizeAssumption, SentinelAssumption DEF PoolInv, PoolTypeOK, Live
<1> HIDE DEF n
<1>3. CASE n = 0
  BY <1>1, <1>2, <1>3 DEF IsFreeList, RefusesWhenFull
<1>4. CASE n # 0
  <2>1. 1 \in 1..n
    BY <1>2, <1>4
  <2>2. list[1] \in Slots \ Live /\ freeHead = list[1]
    BY <1>1, <1>4, <2>1 DEF IsFreeList
  <2>3. QED
    BY <1>2, <2>2 DEF RefusesWhenFull, Exhausted
<1>5. QED
  BY <1>3, <1>4

(* A pool whose owner keeps its protocol refuses a slot only when there is *)
(* none, and never hands out one that is in use.                           *)
THEOREM PoolRefusesWhenFull == PoolSpec => []RefusesWhenFull
<1>1. PoolInit => PoolInv
  BY PoolInitKeeps
<1>2. PoolInv /\ [PoolNext]_poolVars => PoolInv'
  BY AllocKeeps, FreeKeeps, PoolFrame DEF PoolNext
<1>3. PoolInv => RefusesWhenFull
  BY ListEnds
<1>4. QED
  BY <1>1, <1>2, <1>3, PTL DEF PoolSpec
=============================================================================
