----------------------------- MODULE MemoryPool -----------------------------
(***************************************************************************)
(* memory_pool.hpp: N slots allocated at startup.  The free ones form a    *)
(* list threaded through the slots themselves: the first bytes of a free   *)
(* slot hold the index of the next.  In a slot that is in use those bytes  *)
(* belong to the object and mean nothing to the pool.                      *)
(***************************************************************************)
EXTENDS Integers

CONSTANTS
  Size,        (* slots of the pool, the template parameter N              *)
  Sentinel,    (* SIZE_MAX: the end of the list                            *)
  Taken        (* what the pool reads as the index in a slot in use        *)

ASSUME SizeAssumption == Size \in Nat \ {0}

Slots == 0..(Size - 1)

ASSUME SentinelAssumption == {Sentinel, Taken} \cap Slots = {} /\ Sentinel # Taken

VARIABLES
  next,        (* per slot: the index in its first bytes, or Taken         *)
  freeHead,    (* free_head_                                               *)
  used         (* used_                                                    *)

poolVars == <<next, freeHead, used>>

Live == {s \in Slots : next[s] = Taken}

PoolInit ==
  /\ next = [s \in Slots |-> IF s = Size - 1 THEN Sentinel ELSE s + 1]
  /\ freeHead = 0
  /\ used = 0

Exhausted == freeHead = Sentinel

(* alloc returns the slot freeHead.                                        *)
Alloc ==
  /\ ~Exhausted
  /\ freeHead' = next[freeHead]
  /\ next' = [next EXCEPT ![freeHead] = Taken]
  /\ used' = used + 1

(* Faulty: the slot is not made the head of the list.                      *)
FreeUnlinked(s) ==
  /\ next' = [next EXCEPT ![s] = freeHead]
  /\ used' = used - 1
  /\ UNCHANGED freeHead

(* Faulty: the count is not taken down.                                    *)
FreeUncounted(s) ==
  /\ next' = [next EXCEPT ![s] = freeHead]
  /\ freeHead' = s
  /\ UNCHANGED used

(* free does not look whether the slot is in use: that is the caller's.    *)
Free(s) ==
  /\ next' = [next EXCEPT ![s] = freeHead]
  /\ freeHead' = s
  /\ used' = used - 1

(* What the pool expects of its callers: only slots in use come back.      *)
PoolNext == Alloc \/ \E s \in Live : Free(s)

(* The owner of a pool frees no slot twice, and none it was not given.     *)
PoolSpec == PoolInit /\ [][PoolNext]_poolVars

-----------------------------------------------------------------------------

PoolTypeOK ==
  /\ next \in [Slots -> Slots \cup {Sentinel, Taken}]
  /\ freeHead \in Slots \cup {Sentinel}
  /\ used \in 0..Size

(* list is what is met on the way from freeHead: free slots, each once.    *)
IsFreeList(list, n) ==
  /\ \A i \in 1..n : list[i] \notin Live
  /\ \A i, j \in 1..n : list[i] = list[j] => i = j
  /\ \A i \in 1..(n - 1) : next[list[i]] = list[i + 1]
  /\ IF n = 0 THEN Exhausted
     ELSE freeHead = list[1] /\ next[list[n]] = Sentinel

(* From freeHead one meets every slot that is not in use, once, and then   *)
(* the sentinel: no slot is handed out twice and none is lost, and used_   *)
(* says how many there are.                                                *)
FreeListIntact ==
  \E list \in [1..(Size - used) -> Slots] :
    /\ IsFreeList(list, Size - used)
    /\ \A s \in Slots \ Live : \E i \in 1..(Size - used) : list[i] = s

(* alloc fails exactly when every slot is in use: free_head_ alone decides *)
(* it, and knows nothing of the slots.                                     *)
RefusesWhenFull == Exhausted <=> Live = Slots
=============================================================================
