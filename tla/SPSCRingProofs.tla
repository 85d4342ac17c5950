--------------------------- MODULE SPSCRingProofs ---------------------------
(* Theorems about the ring for every size, every number of ticks, and      *)
(* every delay with which a store becomes visible.                         *)
EXTENDS SPSCRing, SequenceTheorems, TLAPS

-----------------------------------------------------------------------------
(* Arithmetic on the ring's indices.                                       *)

(* The successor of an index is the next one, or 0 after the last.         *)
LEMMA SuccIs ==
  ASSUME NEW i \in Index
  PROVE  /\ Succ(i) = IF i = N - 1 THEN 0 ELSE i + 1
         /\ Succ(i) \in Index
BY SizeAssumption DEF Index, Succ

(* The distance between two indices, counted upwards around the ring.      *)
LEMMA DistanceIs ==
  ASSUME NEW i \in Index, NEW j \in Index
  PROVE  /\ Distance(i, j) = IF i <= j THEN j - i ELSE j - i + N
         /\ Distance(i, j) \in Index
<1>1. CASE i <= j
  <2>1. (j - i + N) % N = j - i
    BY <1>1, SizeAssumption DEF Index
  <2>2. QED
    BY <1>1, <2>1, SizeAssumption DEF Index, Distance
<1>2. CASE ~(i <= j)
  <2>1. (j - i + N) % N = j - i + N
    BY <1>2, SizeAssumption DEF Index
  <2>2. QED
    BY <1>2, <2>1, SizeAssumption DEF Index, Distance
<1>3. QED
  BY <1>1, <1>2

(* Distances from i tell indices apart, and only i itself is at 0.         *)
LEMMA DistanceInjective ==
  ASSUME NEW i \in Index, NEW j \in Index, NEW k \in Index,
         Distance(i, j) = Distance(i, k)
  PROVE  j = k
<1>1. Distance(i, j) = IF i <= j THEN j - i ELSE j - i + N
  BY DistanceIs
<1>2. Distance(i, k) = IF i <= k THEN k - i ELSE k - i + N
  BY DistanceIs
<1>3. (IF i <= j THEN j - i ELSE j - i + N) = (IF i <= k THEN k - i ELSE k - i + N)
  BY <1>1, <1>2
<1>4. QED
  BY <1>3, SizeAssumption DEF Index

(* One step up adds one to the distance, but for the step that returns.    *)
LEMMA DistanceSucc ==
  ASSUME NEW i \in Index, NEW j \in Index
  PROVE  /\ Succ(j) = i <=> Distance(i, j) = N - 1
         /\ Distance(i, Succ(j)) = IF Succ(j) = i THEN 0 ELSE Distance(i, j) + 1
<1>1. Succ(j) = (IF j = N - 1 THEN 0 ELSE j + 1) /\ Succ(j) \in Index
  BY SuccIs
<1>2. /\ Distance(i, j) = IF i <= j THEN j - i ELSE j - i + N
      /\ Distance(i, Succ(j)) = IF i <= Succ(j) THEN Succ(j) - i ELSE Succ(j) - i + N
  BY <1>1, DistanceIs
<1>3. QED
  BY <1>1, <1>2, SizeAssumption DEF Index

(* Counting from a later start: distances shrink by the distance skipped.  *)
LEMMA DistanceShift ==
  ASSUME NEW i \in Index, NEW h \in Index, NEW j \in Index,
         Distance(i, h) <= Distance(i, j)
  PROVE  Distance(h, j) = Distance(i, j) - Distance(i, h)
<1>1. /\ Distance(i, j) = IF i <= j THEN j - i ELSE j - i + N
      /\ Distance(i, h) = IF i <= h THEN h - i ELSE h - i + N
      /\ Distance(h, j) = IF h <= j THEN j - h ELSE j - h + N
  BY DistanceIs
<1>2. QED
  BY <1>1, SizeAssumption DEF Index

(* The i-th slot from an index is i - 1 steps up, wherever the ring wraps. *)
LEMMA SlotAtIs ==
  ASSUME NEW h \in Index, NEW i \in 1..N
  PROVE  /\ SlotAt(h, i) = IF h + i - 1 < N THEN h + i - 1 ELSE h + i - 1 - N
         /\ SlotAt(h, i) \in Index
         /\ Distance(h, SlotAt(h, i)) = i - 1
<1>1. SlotAt(h, i) = IF h + i - 1 < N THEN h + i - 1 ELSE h + i - 1 - N
  <2>1. CASE h + i - 1 < N
    BY <2>1, SizeAssumption DEF Index, SlotAt
  <2>2. CASE ~(h + i - 1 < N)
    <3>1. (h + i - 1) % N = h + i - 1 - N
      BY <2>2, SizeAssumption DEF Index
    <3>2. QED
      BY <2>2, <3>1 DEF SlotAt
  <2>3. QED
    BY <2>1, <2>2
<1>2. SlotAt(h, i) \in Index
  BY <1>1, SizeAssumption DEF Index
<1>3. Distance(h, SlotAt(h, i)) =
        IF h <= SlotAt(h, i) THEN SlotAt(h, i) - h ELSE SlotAt(h, i) - h + N
  BY <1>2, DistanceIs
<1>4. QED
  BY <1>1, <1>2, <1>3, SizeAssumption DEF Index

-----------------------------------------------------------------------------
(* Type correctness.                                                       *)

(* However many threads push, and whatever they see of one another, both   *)
(* indices and every view of them stay inside the array.                   *)
THEOREM TypeCorrect == Spec => []TypeOK
<1>1. Init => TypeOK
  BY SizeAssumption, BoundAssumption DEF Init, TypeOK, Index, Threads
<1>2. TypeOK /\ [Next]_vars => TypeOK'
  <2> SUFFICES ASSUME TypeOK, [Next]_vars PROVE TypeOK'
    OBVIOUS
  <2> USE DEF TypeOK
  <2>1. ASSUME NEW p \in Producers, LoadTail(p) PROVE TypeOK'
    BY <2>1, BoundAssumption DEF LoadTail, Threads
  <2>2. ASSUME NEW p \in Producers, RejectFull(p) PROVE TypeOK'
    BY <2>2 DEF RejectFull, Threads
  <2>3. ASSUME NEW p \in Producers, BeginCopy(p) PROVE TypeOK'
    BY <2>3 DEF BeginCopy, Threads
  <2>4. ASSUME NEW p \in Producers, EndCopy(p) PROVE TypeOK'
    <3>1. offered[p] \in 1..MaxTicks
      <4>1. pc[p] = "copying"
        BY <2>4 DEF EndCopy, Copying
      <4>2. offered[p] > 0
        BY <4>1
      <4>3. offered[p] \in 0..MaxTicks
        OBVIOUS
      <4>4. QED
        BY <4>2, <4>3, BoundAssumption
    <3>2. <<p, offered[p]>> \in Tick
      BY <3>1 DEF Tick
    <3>3. PICK v \in {<<p, offered[p]>>, Garbage} :
            buffer' = [buffer EXCEPT ![slot[p]] = v]
      BY <2>4 DEF EndCopy
    <3>4. buffer' \in [Index -> Tick \cup {Garbage}]
      <4>1. v \in Tick \cup {Garbage}
        BY <3>2, <3>3
      <4>2. QED
        BY <3>3, <4>1
    <3>5. QED
      BY <2>4, <3>4 DEF EndCopy, Copying, Threads
  <2>5. ASSUME NEW p \in Producers, Publish(p) PROVE TypeOK'
    <3>1. Succ(slot[p]) \in Index
      BY SuccIs
    <3>2. QED
      BY <2>5, <3>1 DEF Publish, Threads
  <2>6. CASE PopEmpty
    BY <2>6 DEF PopEmpty, vars
  <2>7. CASE BeginRead
    BY <2>7, ThreadAssumption DEF BeginRead, Threads
  <2>8. CASE EndRead
    <3>1. PICK v \in {buffer[head], Garbage} : item' = v
      BY <2>8 DEF EndRead
    <3>2. QED
      BY <2>8, <3>1, ThreadAssumption DEF EndRead, Threads
  <2>9. CASE Release
    <3>1. Succ(head) \in Index
      BY SuccIs
    <3>2. QED
      BY <2>9, <3>1, ThreadAssumption DEF Release, Threads
  <2>10. ASSUME NEW t \in Threads, SeeTail(t) PROVE TypeOK'
    BY <2>10 DEF SeeTail
  <2>11. ASSUME NEW p \in Producers, SeeHead(p) PROVE TypeOK'
    BY <2>11 DEF SeeHead
  <2>12. CASE UNCHANGED vars
    BY <2>12 DEF vars
  <2>13. QED
    BY <2>1, <2>2, <2>3, <2>4, <2>5, <2>6, <2>7, <2>8, <2>9, <2>10, <2>11, <2>12
       DEF Next, Push, Pop, Memory
<1>3. QED
  BY <1>1, <1>2, PTL DEF Spec

-----------------------------------------------------------------------------
(* One producer: the invariant behind everything else.                     *)

OneProducer == \E p \in Producers : Producers = {p}

(* Each step of the one producer, of the router and of the memory system   *)
(* keeps the order of the positions and what is known of the slots.        *)
LEMMA RingInvStep ==
  ASSUME NEW p \in Producers, Producers = {p},
         TypeOK, TypeOK', RingInv, [Next]_vars
  PROVE  RingInv'
<1> USE DEF RingInv
<1>0. /\ headSeen[p] \in Index /\ head \in Index /\ tail \in Index
      /\ tailSeen[Router] \in Index /\ p # Router
  BY ThreadAssumption DEF TypeOK, Threads
<1>a. /\ Distance(headSeen[p], head) \in 0..(N - 1)
      /\ Distance(headSeen[p], tailSeen[Router]) \in 0..(N - 1)
      /\ Distance(headSeen[p], tail) \in 0..(N - 1)
  BY <1>0, DistanceIs DEF Index
<1>b. pc[Router] # "idle" => head # tail
  <2>1. SUFFICES ASSUME pc[Router] # "idle", head = tail PROVE FALSE
    OBVIOUS
  <2>2. Distance(headSeen[p], head) = Distance(headSeen[p], tailSeen[Router])
    BY <2>1, <1>a, SizeAssumption
  <2>3. head = tailSeen[Router]
    BY <1>0, <2>2, DistanceInjective
  <2>4. QED
    BY <2>1, <2>3
<1>1. CASE LoadTail(p)
  BY <1>0, <1>1 DEF LoadTail, TypeOK, Threads
<1>2. CASE RejectFull(p)
  BY <1>0, <1>2 DEF RejectFull, TypeOK, Threads
<1>3. CASE BeginCopy(p)
  BY <1>0, <1>3, <1>b DEF BeginCopy, TypeOK, Threads
<1>4. CASE EndCopy(p)
  <2>1. buffer' = [buffer EXCEPT ![tail] = <<p, offered[p]>>]
    BY <1>4 DEF EndCopy, Copying
  <2>2. pc[Router] # "idle" => head # tail
    BY <1>b
  <2>3. QED
    BY <1>0, <1>4, <2>1, <2>2 DEF EndCopy, Copying, TypeOK, Threads
<1>5. CASE Publish(p)
  <2>1. /\ tail' = Succ(tail)
        /\ Succ(tail) # headSeen[p]
    BY <1>5 DEF Publish
  <2>2. Distance(headSeen[p], tail') = Distance(headSeen[p], tail) + 1
    BY <1>0, <2>1, DistanceSucc
  <2>3. Distance(headSeen[p], tailSeen[Router]) <= Distance(headSeen[p], tail')
    BY <1>a, <2>2, SizeAssumption
  <2>4. lastIn'[p] = offered[p] /\ offered[p] \in Int
    BY <1>5 DEF Publish, TypeOK
  <2>5. QED
    BY <1>0, <1>5, <2>1, <2>3, <2>4 DEF Publish, TypeOK, Threads
<1>6. CASE PopEmpty
  BY <1>6 DEF PopEmpty, vars
<1>7. CASE BeginRead
  BY <1>0, <1>7 DEF BeginRead, TypeOK, Threads
<1>8. CASE EndRead
  <2>1. item' = item
    BY <1>0, <1>8, <1>b DEF EndRead, Copying
  <2>2. QED
    BY <1>0, <1>8, <2>1 DEF EndRead, TypeOK, Threads
<1>9. CASE Release
  <2>1. /\ head' = Succ(head) /\ head # tailSeen[Router]
        /\ UNCHANGED <<tail, headSeen, tailSeen, buffer, slot, offered, lastIn>>
    BY <1>9 DEF Release
  <2>2. Distance(headSeen[p], head) < Distance(headSeen[p], tailSeen[Router])
    <3>1. Distance(headSeen[p], head) # Distance(headSeen[p], tailSeen[Router])
      BY <1>0, <2>1, DistanceInjective
    <3>2. QED
      BY <1>a, <3>1, SizeAssumption
  <2>3. Distance(headSeen[p], head') = Distance(headSeen[p], head) + 1
    <3>1. Distance(headSeen[p], head) # N - 1
      BY <1>a, <2>2, SizeAssumption
    <3>2. QED
      BY <1>0, <2>1, <3>1, DistanceSucc
  <2>4. Distance(headSeen[p], head') <= Distance(headSeen[p], tailSeen[Router])
    BY <1>a, <2>2, <2>3, SizeAssumption
  <2>5. QED
    BY <1>0, <1>9, <2>1, <2>4 DEF Release, TypeOK, Threads
<1>10. CASE SeeTail(p)
  BY <1>10 DEF SeeTail
<1>11. CASE SeeTail(Router)
  BY <1>0, <1>a, <1>b, <1>11, SizeAssumption DEF SeeTail, TypeOK, Threads
<1>12. CASE SeeHead(p)
  <2>1. /\ headSeen'[p] = head
        /\ UNCHANGED <<head, tail, tailSeen, buffer, pc, slot, item, offered, lastIn>>
    BY <1>12 DEF SeeHead, TypeOK
  <2>2. Distance(headSeen[p], head) <= Distance(headSeen[p], tail)
    BY <1>a, SizeAssumption
  <2>3. /\ Distance(head, tailSeen[Router]) =
             Distance(headSeen[p], tailSeen[Router]) - Distance(headSeen[p], head)
        /\ Distance(head, tail) =
             Distance(headSeen[p], tail) - Distance(headSeen[p], head)
        /\ Distance(head, head) = 0
    <3>1. Distance(head, head) =
            Distance(headSeen[p], head) - Distance(headSeen[p], head)
      BY <1>0, <1>a, DistanceShift
    <3>2. QED
      BY <1>0, <1>a, <2>2, <3>1, DistanceShift
  <2>4. /\ Distance(head, head) <= Distance(head, tailSeen[Router])
        /\ Distance(head, tailSeen[Router]) <= Distance(head, tail)
    BY <1>a, <2>3, SizeAssumption
  <2>5. Succ(tail) # headSeen[p] => Succ(tail) # head
    <3>1. SUFFICES ASSUME Succ(tail) = head PROVE Succ(tail) = headSeen[p]
      OBVIOUS
    <3>2. Distance(head, tail) = N - 1
      BY <1>0, <3>1, DistanceSucc
    <3>3. Distance(headSeen[p], tail) = N - 1
      BY <1>a, <2>3, <3>2, SizeAssumption
    <3>4. QED
      BY <1>0, <3>3, DistanceSucc
  <2>6. QED
    BY <2>1, <2>4, <2>5
<1>13. CASE UNCHANGED vars
  BY <1>13 DEF vars
<1>14. QED
  BY <1>1, <1>2, <1>3, <1>4, <1>5, <1>6, <1>7, <1>8, <1>9, <1>10, <1>11, <1>12, <1>13
     DEF Next, Push, Pop, Memory, Threads

(* The order of the positions, and the contents of the slots being used,   *)
(* in every reachable state of a ring with one producer.                   *)
THEOREM RingInvariant == OneProducer => (Spec => []RingInv)
<1> SUFFICES ASSUME OneProducer PROVE Spec => []RingInv
  OBVIOUS
<1> PICK p \in Producers : Producers = {p}
  BY DEF OneProducer
<1>1. Init => RingInv
  <2>1. SUFFICES ASSUME Init PROVE RingInv
    OBVIOUS
  <2>2. Distance(0, 0) = 0
    BY DistanceIs, SizeAssumption DEF Index
  <2>3. QED
    BY <2>1, <2>2, ThreadAssumption DEF Init, RingInv, Threads
<1>2. TypeOK /\ TypeOK' /\ RingInv /\ [Next]_vars => RingInv'
  BY RingInvStep
<1>3. QED
  BY <1>1, <1>2, TypeCorrect, PTL DEF Spec

(* With one producer no two threads are in the same slot at once: the copy *)
(* in and the copy out of a tick never overlap, without any lock.          *)
THEOREM NoRace == OneProducer => (Spec => []NoSlotRace)
<1> SUFFICES ASSUME OneProducer PROVE Spec => []NoSlotRace
  OBVIOUS
<1> PICK p \in Producers : Producers = {p}
  BY DEF OneProducer
<1>1. TypeOK /\ RingInv => NoSlotRace
  <2> SUFFICES ASSUME TypeOK, RingInv, Copying(p), pc[Router] = "reading"
               PROVE  slot[p] # head
    BY DEF NoSlotRace
  <2>1. /\ headSeen[p] \in Index /\ head \in Index /\ tailSeen[Router] \in Index
        /\ tail \in Index
    BY DEF TypeOK, Threads
  <2>2. /\ Distance(headSeen[p], head) \in 0..(N - 1)
        /\ Distance(headSeen[p], tailSeen[Router]) \in 0..(N - 1)
        /\ Distance(headSeen[p], tail) \in 0..(N - 1)
    BY <2>1, DistanceIs DEF Index
  <2>3. SUFFICES ASSUME head = tail PROVE FALSE
    BY DEF RingInv, Copying
  <2>4. Distance(headSeen[p], head) = Distance(headSeen[p], tailSeen[Router])
    BY <2>2, <2>3, SizeAssumption DEF RingInv
  <2>5. QED
    BY <2>1, <2>4, DistanceInjective DEF RingInv
<1>2. QED
  BY <1>1, TypeCorrect, RingInvariant, PTL

-----------------------------------------------------------------------------
(* One producer: the ring implements the queue.                            *)

(* What is between head and tail stays put while a slot outside it, the    *)
(* one at the tail, is written.                                            *)
LEMMA ContentsFrame ==
  ASSUME TypeOK, UNCHANGED <<head, tail>>, NEW v,
         buffer' = [buffer EXCEPT ![tail] = v]
  PROVE  Contents' = Contents
<1>1. Distance(head, tail) \in 0..(N - 1)
  BY DistanceIs DEF TypeOK, Index
<1>2. ASSUME NEW i \in 1..Distance(head, tail)
      PROVE  buffer'[SlotAt(head, i)] = buffer[SlotAt(head, i)]
  <2>1. i \in 1..N /\ i - 1 # Distance(head, tail)
    BY <1>1, SizeAssumption
  <2>2. SlotAt(head, i) \in Index /\ SlotAt(head, i) # tail
    BY <2>1, SlotAtIs DEF TypeOK
  <2>3. QED
    BY <2>2 DEF TypeOK
<1>3. QED
  BY <1>2 DEF Contents

(* A step that leaves head, tail and the slots alone leaves the queue so.  *)
LEMMA ContentsStutter ==
  UNCHANGED <<head, tail, buffer>> => Contents' = Contents
BY DEF Contents

(* A function on 1..n is a sequence of length n.                           *)
LEMMA IsSeq ==
  ASSUME NEW S, NEW n \in Nat, NEW c \in [1..n -> S]
  PROVE  c \in Seq(S) /\ Len(c) = n
<1>1. c \in Seq(S)
  BY SeqDef
<1>2. QED
  BY <1>1, LenProperties

(* The slots from h up to t are all slots of the ring.                     *)
LEMMA SlotsAreIndices ==
  ASSUME NEW h \in Index, NEW t \in Index
  PROVE  /\ Distance(h, t) \in Nat
         /\ \A i \in 1..Distance(h, t) : SlotAt(h, i) \in Index
<1>1. Distance(h, t) \in 0..(N - 1)
  BY DistanceIs DEF Index
<1>2. ASSUME NEW i \in 1..Distance(h, t) PROVE SlotAt(h, i) \in Index
  <2>1. i \in 1..N
    BY <1>1, SizeAssumption
  <2>2. QED
    BY <2>1, SlotAtIs
<1>3. QED
  BY <1>1, <1>2, SizeAssumption

(* Publishing the tick written at the tail appends it to the queue.        *)
LEMMA PublishIsPut ==
  ASSUME NEW p \in Producers, Producers = {p}, TypeOK, RingInv, Publish(p)
  PROVE  Queue!Put(p)
<1> DEFINE D == Distance(head, tail)
           S == Tick \cup {Garbage}
<1>1. /\ head \in Index /\ tail \in Index /\ headSeen[p] \in Index
      /\ tailSeen[Router] \in Index /\ offered[p] \in 0..MaxTicks
      /\ lastIn[p] \in 0..MaxTicks /\ buffer \in [Index -> S]
  BY DEF TypeOK, Threads
<1>2. /\ tail' = Succ(tail) /\ head' = head /\ buffer' = buffer
      /\ lastIn' = [lastIn EXCEPT ![p] = offered[p]] /\ UNCHANGED delivered
      /\ buffer[tail] = <<p, offered[p]>>
      /\ lastIn[p] < offered[p] /\ Succ(tail) # headSeen[p]
  BY DEF Publish, RingInv
<1>3. /\ D \in 0..(N - 1)
      /\ Distance(headSeen[p], head) \in 0..(N - 1)
      /\ Distance(headSeen[p], tailSeen[Router]) \in 0..(N - 1)
      /\ Distance(headSeen[p], tail) \in 0..(N - 1)
  BY <1>1, DistanceIs DEF Index
<1>4. Distance(headSeen[p], tail) # N - 1
  BY <1>1, <1>2, DistanceSucc
<1>5. D < N - 1
  <2>1. Distance(headSeen[p], head) <= Distance(headSeen[p], tail)
    BY <1>3, SizeAssumption DEF RingInv
  <2>2. D = Distance(headSeen[p], tail) - Distance(headSeen[p], head)
    BY <1>1, <2>1, DistanceShift
  <2>3. QED
    BY <1>3, <1>4, <2>2, SizeAssumption
<1>6. Distance(head', tail') = D + 1 /\ tail' \in Index
  <2>1. D # N - 1
    BY <1>3, <1>5, SizeAssumption
  <2>2. QED
    BY <1>1, <1>2, <2>1, DistanceSucc, SuccIs
<1>7. SlotAt(head, D + 1) = tail
  <2>1. PICK i \in 1..N : i = D + 1
    BY <1>3, SizeAssumption
  <2>2. SlotAt(head, i) \in Index /\ Distance(head, SlotAt(head, i)) = i - 1
    BY <1>1, SlotAtIs
  <2>3. Distance(head, SlotAt(head, i)) = D
    BY <1>3, <2>1, <2>2, SizeAssumption
  <2>4. SlotAt(head, i) = tail
    BY <1>1, <2>2, <2>3, DistanceInjective
  <2>5. QED
    BY <2>1, <2>4
<1>8. Contents \in Seq(S) /\ Len(Contents) = D
  <2>1. D \in Nat /\ \A i \in 1..D : SlotAt(head, i) \in Index
    BY <1>1, SlotsAreIndices
  <2>2. Contents \in [1..D -> S]
    BY <1>1, <2>1 DEF Contents
  <2>3. QED
    BY <2>1, <2>2, IsSeq
<1>9. Contents' \in Seq(S) /\ Len(Contents') = D + 1
  <2>1. head' \in Index /\ tail' \in Index /\ buffer' \in [Index -> S]
    BY <1>1, <1>2, <1>6
  <2>2. /\ D + 1 \in Nat
        /\ \A i \in 1..(D + 1) : SlotAt(head', i) \in Index
    BY <1>6, <2>1, SlotsAreIndices
  <2>3. Contents' \in [1..(D + 1) -> S]
    BY <1>6, <2>1, <2>2 DEF Contents
  <2>4. QED
    BY <2>2, <2>3, IsSeq
<1>10. Contents' = Append(Contents, <<p, offered[p]>>)
  <2> DEFINE e == <<p, offered[p]>>
             a == Append(Contents, e)
  <2>1. e \in S
    BY <1>1, <1>2
  <2>2. /\ a \in Seq(S) /\ Len(a) = D + 1 /\ a[D + 1] = e
        /\ \A i \in 1..D : a[i] = Contents[i]
    BY <1>8, <2>1, AppendProperties
  <2>3. \A i \in 1..(D + 1) : Contents'[i] = buffer[SlotAt(head, i)]
    BY <1>2, <1>6 DEF Contents
  <2>4. \A i \in 1..D : Contents[i] = buffer[SlotAt(head, i)]
    BY DEF Contents
  <2> HIDE DEF a, D
  <2>5. \A i \in 1..(D + 1) : Contents'[i] = a[i]
    <3>1. TAKE i \in 1..(D + 1)
    <3>2. CASE i = D + 1
      BY <1>2, <1>7, <2>2, <2>3, <3>2
    <3>3. CASE i # D + 1
      <4>1. i \in 1..D
        BY <1>3, <3>3, SizeAssumption
      <4>2. QED
        BY <2>2, <2>3, <2>4, <4>1
    <3>4. QED
      BY <3>2, <3>3
  <2>6. QED
    BY <1>9, <2>2, <2>5, SeqEqual DEF a
<1>11. offered[p] \in (lastIn[p] + 1)..MaxTicks
  BY <1>1, <1>2, BoundAssumption
<1>12. Len(Contents) < N - 1
  BY <1>5, <1>8
<1>13. QED
  BY <1>2, <1>10, <1>11, <1>12 DEF Queue!Put

(* Releasing the slot at the head takes the oldest tick off the queue.     *)
LEMMA ReleaseIsTake ==
  ASSUME NEW p \in Producers, Producers = {p}, TypeOK, RingInv, Release
  PROVE  Queue!Take
<1> DEFINE D == Distance(head, tail)
           S == Tick \cup {Garbage}
<1>1. /\ head \in Index /\ tail \in Index /\ headSeen[p] \in Index
      /\ tailSeen[Router] \in Index /\ buffer \in [Index -> S]
  BY DEF TypeOK, Threads
<1>2. /\ head' = Succ(head) /\ tail' = tail /\ buffer' = buffer
      /\ UNCHANGED lastIn /\ delivered' = Append(delivered, item)
      /\ item = buffer[head] /\ head # tailSeen[Router]
  BY DEF Release, RingInv
<1>3. /\ D \in 0..(N - 1)
      /\ Distance(headSeen[p], head) \in 0..(N - 1)
      /\ Distance(headSeen[p], tailSeen[Router]) \in 0..(N - 1)
      /\ Distance(headSeen[p], tail) \in 0..(N - 1)
  BY <1>1, DistanceIs DEF Index
<1>4. head # tail
  <2>1. SUFFICES ASSUME head = tail PROVE FALSE
    OBVIOUS
  <2>2. Distance(headSeen[p], head) = Distance(headSeen[p], tailSeen[Router])
    BY <1>3, <2>1, SizeAssumption DEF RingInv
  <2>3. QED
    BY <1>1, <1>2, <2>2, DistanceInjective
<1>5. D > 0
  <2>1. D = IF head <= tail THEN tail - head ELSE tail - head + N
    BY <1>1, DistanceIs
  <2>2. QED
    BY <1>1, <1>4, <2>1, SizeAssumption DEF Index
<1>6. head' \in Index /\ Distance(head', tail') = D - 1
  <2>1. /\ Succ(head) \in Index
        /\ Succ(head) = IF head = N - 1 THEN 0 ELSE head + 1
    BY <1>1, SuccIs
  <2>2. /\ D = IF head <= tail THEN tail - head ELSE tail - head + N
        /\ Distance(Succ(head), tail) =
              IF Succ(head) <= tail THEN tail - Succ(head) ELSE tail - Succ(head) + N
    BY <1>1, <2>1, DistanceIs
  <2>3. Distance(Succ(head), tail) = D - 1
    BY <1>1, <1>4, <2>1, <2>2, SizeAssumption DEF Index
  <2>4. QED
    BY <1>2, <2>1, <2>3
<1>7. Contents \in Seq(S) /\ Len(Contents) = D
  <2>1. D \in Nat /\ \A i \in 1..D : SlotAt(head, i) \in Index
    BY <1>1, SlotsAreIndices
  <2>2. Contents \in [1..D -> S]
    BY <1>1, <2>1 DEF Contents
  <2>3. QED
    BY <2>1, <2>2, IsSeq
<1>8. Contents' \in Seq(S) /\ Len(Contents') = D - 1
  <2>1. head' \in Index /\ tail' \in Index /\ buffer' \in [Index -> S]
    BY <1>1, <1>2, <1>6
  <2>2. /\ D - 1 \in Nat
        /\ \A i \in 1..(D - 1) : SlotAt(head', i) \in Index
    BY <1>6, <2>1, SlotsAreIndices
  <2>3. Contents' \in [1..(D - 1) -> S]
    BY <1>6, <2>1, <2>2 DEF Contents
  <2>4. QED
    BY <2>2, <2>3, IsSeq
<1>9. Contents # <<>>
  BY <1>5, <1>7, <1>3
<1>10. Head(Contents) = item
  <2>1. Head(Contents) = Contents[1]
    BY <1>7, <1>9
  <2>2. Contents[1] = buffer[SlotAt(head, 1)]
    BY <1>3, <1>5, SizeAssumption DEF Contents
  <2>3. SlotAt(head, 1) = head
    BY <1>1, SlotAtIs, SizeAssumption DEF Index
  <2>4. QED
    BY <1>2, <2>1, <2>2, <2>3
<1>11. \A i \in 1..(D - 1) : SlotAt(Succ(head), i) = SlotAt(head, i + 1)
  <2>1. TAKE i \in 1..(D - 1)
  <2>2. PICK j \in 1..N : j = i + 1 /\ i \in 1..N
    BY <1>3, <2>1, SizeAssumption
  <2>3. Succ(head) \in Index /\ Succ(head) = IF head = N - 1 THEN 0 ELSE head + 1
    BY <1>1, SuccIs
  <2>4. /\ SlotAt(Succ(head), i) =
             IF Succ(head) + i - 1 < N THEN Succ(head) + i - 1 ELSE Succ(head) + i - 1 - N
        /\ SlotAt(head, j) = IF head + j - 1 < N THEN head + j - 1 ELSE head + j - 1 - N
    BY <1>1, <2>2, <2>3, SlotAtIs
  <2>5. SlotAt(Succ(head), i) = SlotAt(head, j)
    BY <1>1, <1>3, <2>2, <2>3, <2>4, SizeAssumption DEF Index
  <2>6. QED
    BY <2>2, <2>5
<1>12. Contents' = Tail(Contents)
  <2> DEFINE r == Tail(Contents)
  <2>1. /\ r \in Seq(S) /\ Len(r) = D - 1
        /\ \A i \in 1..(D - 1) : r[i] = Contents[i + 1]
    BY <1>7, <1>9, HeadTailProperties
  <2>2. \A i \in 1..(D - 1) : Contents'[i] = buffer[SlotAt(Succ(head), i)]
    BY <1>2, <1>6 DEF Contents
  <2>3. \A j \in 1..D : Contents[j] = buffer[SlotAt(head, j)]
    BY DEF Contents
  <2> HIDE DEF r, D
  <2>4. \A i \in 1..(D - 1) : Contents'[i] = r[i]
    <3>1. TAKE i \in 1..(D - 1)
    <3>2. i + 1 \in 1..D
      BY <1>3, <3>1, SizeAssumption
    <3>3. QED
      BY <1>11, <2>1, <2>2, <2>3, <3>1, <3>2
  <2>5. QED
    BY <1>8, <2>1, <2>4, SeqEqual DEF r
<1>13. QED
  BY <1>2, <1>9, <1>10, <1>12 DEF Queue!Take

(* With one producer the ring, whatever each thread sees of the other's    *)
(* stores, is a FIFO of N - 1 ticks that loses none it has accepted,       *)
(* repeats none and tears none.                                            *)
THEOREM RingIsQueue == OneProducer => (Spec => ImplementsQueue)
<1> SUFFICES ASSUME OneProducer PROVE Spec => Queue!Spec
  BY DEF ImplementsQueue
<1> PICK p \in Producers : Producers = {p}
  BY DEF OneProducer
<1>1. Init => Queue!Init
  <2>1. SUFFICES ASSUME Init PROVE Contents = <<>>
    BY DEF Init, Queue!Init
  <2>2. Distance(0, 0) = 0
    BY DistanceIs, SizeAssumption DEF Index
  <2>3. DOMAIN Contents = 1..0
    BY <2>1, <2>2 DEF Init, Contents
  <2>4. QED
    BY <2>1, <2>2 DEF Init, Contents
<1>2. TypeOK /\ RingInv /\ [Next]_vars => [Queue!Next]_(Queue!vars)
  <2> SUFFICES ASSUME TypeOK, RingInv, [Next]_vars
               PROVE  Queue!Next \/ UNCHANGED <<Contents, lastIn, delivered>>
    BY DEF Queue!vars
  <2>0. p # Router
    BY ThreadAssumption
  <2>1. CASE LoadTail(p)
    BY <2>1, ContentsStutter DEF LoadTail
  <2>2. CASE RejectFull(p)
    BY <2>2, ContentsStutter DEF RejectFull
  <2>3. CASE BeginCopy(p)
    <3>1. buffer' = [buffer EXCEPT ![tail] = Garbage] /\ UNCHANGED <<head, tail>>
      BY <2>3 DEF BeginCopy, RingInv
    <3>2. QED
      BY <2>3, <3>1, ContentsFrame DEF BeginCopy
  <2>4. CASE EndCopy(p)
    <3>1. PICK v : buffer' = [buffer EXCEPT ![slot[p]] = v]
      BY <2>4 DEF EndCopy
    <3>2. slot[p] = tail /\ UNCHANGED <<head, tail>>
      BY <2>4 DEF EndCopy, Copying, RingInv
    <3>3. QED
      BY <2>4, <3>1, <3>2, ContentsFrame DEF EndCopy
  <2>5. CASE Publish(p)
    BY <2>5, PublishIsPut DEF Queue!Next
  <2>6. CASE PopEmpty
    BY <2>6, ContentsStutter DEF PopEmpty, vars
  <2>7. CASE BeginRead
    BY <2>7, ContentsStutter DEF BeginRead
  <2>8. CASE EndRead
    BY <2>8, ContentsStutter DEF EndRead
  <2>9. CASE Release
    BY <2>9, ReleaseIsTake DEF Queue!Next
  <2>10. ASSUME NEW t \in Threads, SeeTail(t)
         PROVE  UNCHANGED <<Contents, lastIn, delivered>>
    BY <2>10, ContentsStutter DEF SeeTail
  <2>11. CASE SeeHead(p)
    BY <2>11, ContentsStutter DEF SeeHead
  <2>12. CASE UNCHANGED vars
    BY <2>12, ContentsStutter DEF vars
  <2>13. QED
    BY <2>1, <2>2, <2>3, <2>4, <2>5, <2>6, <2>7, <2>8, <2>9, <2>10, <2>11, <2>12
       DEF Next, Push, Pop, Memory
<1>3. QED
  BY <1>1, <1>2, TypeCorrect, RingInvariant, PTL DEF Spec, Queue!Spec

=============================================================================
