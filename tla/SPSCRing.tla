------------------------------ MODULE SPSCRing ------------------------------
(***************************************************************************)
(* ring_buffer.hpp: the ring that carries ticks from the feed threads to   *)
(* the router thread without a lock.  push and pop are split at every      *)
(* access another thread can observe: the atomic loads and stores of the   *)
(* two indices, and the start and the end of the copy of a slot, which is  *)
(* an 80-byte struct and so not atomic.                                    *)
(*                                                                         *)
(* The indices are std::atomic with acquire loads and release stores, so a *)
(* load may return a value that another thread has already replaced.  Each *)
(* thread has its own view of the index the other side writes; a view is   *)
(* never older than it was (coherence) and catches up at an arbitrary      *)
(* time.  A release store makes the slot written before it visible to any  *)
(* thread whose view includes the store, which is why slots need no view.  *)
(***************************************************************************)
EXTENDS Integers, Sequences, FiniteSets

CONSTANTS
  N,           (* slots of the ring, the template parameter N              *)
  Producers,   (* threads that call push                                   *)
  Router,      (* the thread that calls pop                                *)
  Garbage,     (* slot contents that are no tick: unwritten or torn        *)
  MaxTicks     (* ticks each producer offers; bounds the model             *)

ASSUME SizeAssumption == N \in Nat \ {0}
(* The static_assert of the class; it makes & (N - 1) the same as % N.     *)
ASSUME PowerOfTwoAssumption == \E k \in 0..N : N = 2^k
ASSUME ThreadAssumption == Router \notin Producers
ASSUME BoundAssumption == MaxTicks \in Nat

Index   == 0..(N - 1)
Tick    == Producers \X (1..MaxTicks)
Threads == Producers \cup {Router}

ASSUME GarbageAssumption == Garbage \notin Tick

VARIABLES
  head, tail,  (* head_ and tail_                                          *)
  headSeen,    (* per producer: the latest head_ its loads return          *)
  tailSeen,    (* per thread: the latest tail_ its loads return            *)
  buffer,      (* buffer_                                                  *)
  pc,          (* where each thread is in push or pop                      *)
  slot,        (* current_tail of each producer's push                     *)
  item,        (* the router's local copy of the slot it is popping        *)
  offered,     (* ticks each producer has called push with                 *)
  lastIn,      (* history: the last tick accepted from each producer       *)
  delivered    (* history: what pop has returned, oldest first             *)

vars == <<head, tail, headSeen, tailSeen, buffer, pc, slot, item,
          offered, lastIn, delivered>>

(* Faulty: the index is not masked.                                        *)
SuccUnmasked(i) == i + 1

Succ(i) == (i + 1) % N

(* size(), and the number of slots from one index up to another.           *)
Distance(from, to) == (to - from + N) % N

Copying(p) == pc[p] = "copying"

Init ==
  /\ head = 0
  /\ tail = 0
  /\ headSeen = [p \in Producers |-> 0]
  /\ tailSeen = [t \in Threads |-> 0]
  /\ buffer = [i \in Index |-> Garbage]
  /\ pc = [t \in Threads |-> "idle"]
  /\ slot = [p \in Producers |-> 0]
  /\ item = Garbage
  /\ offered = [p \in Producers |-> 0]
  /\ lastIn = [p \in Producers |-> 0]
  /\ delivered = <<>>

-----------------------------------------------------------------------------
(* push                                                                    *)

(* A feed has parsed a tick and calls push: the relaxed load of tail_.     *)
LoadTail(p) ==
  /\ pc[p] = "idle"
  /\ offered[p] < MaxTicks
  /\ offered' = [offered EXCEPT ![p] = @ + 1]
  /\ slot' = [slot EXCEPT ![p] = tailSeen[p]]
  /\ pc' = [pc EXCEPT ![p] = "checking"]
  /\ UNCHANGED <<head, tail, headSeen, tailSeen, buffer, item, lastIn, delivered>>

(* The acquire load of head_ says full: the tick is dropped.               *)
RejectFull(p) ==
  /\ pc[p] = "checking"
  /\ Succ(slot[p]) = headSeen[p]
  /\ pc' = [pc EXCEPT ![p] = "idle"]
  /\ UNCHANGED <<head, tail, headSeen, tailSeen, buffer, slot, item,
                 offered, lastIn, delivered>>

(* Faulty: push does not look for room.                                    *)
BeginCopyUnchecked(p) ==
  /\ pc[p] = "checking"
  /\ pc' = [pc EXCEPT ![p] = "copying"]
  /\ buffer' = [buffer EXCEPT ![slot[p]] = Garbage]
  /\ UNCHANGED <<head, tail, headSeen, tailSeen, slot, item,
                 offered, lastIn, delivered>>

(* Faulty: tail_ is stored before the slot is written.                     *)
BeginCopyPublished(p) ==
  /\ pc[p] = "checking"
  /\ Succ(slot[p]) # headSeen[p]
  /\ pc' = [pc EXCEPT ![p] = "copying"]
  /\ buffer' = [buffer EXCEPT ![slot[p]] = Garbage]
  /\ tail' = Succ(slot[p])
  /\ UNCHANGED <<head, headSeen, tailSeen, slot, item, offered, lastIn, delivered>>

(* There is room: the copy into the slot starts, and until it ends the     *)
(* slot holds neither the old tick nor the new one.                        *)
BeginCopy(p) ==
  /\ pc[p] = "checking"
  /\ Succ(slot[p]) # headSeen[p]
  /\ pc' = [pc EXCEPT ![p] = "copying"]
  /\ buffer' = [buffer EXCEPT ![slot[p]] = Garbage]
  /\ UNCHANGED <<head, tail, headSeen, tailSeen, slot, item,
                 offered, lastIn, delivered>>

(* The copy ends.  If another producer has touched the slot meanwhile the  *)
(* writes race, and any mixture of the two ticks may be left behind.       *)
EndCopy(p) ==
  /\ Copying(p)
  /\ LET alone == /\ buffer[slot[p]] = Garbage
                  /\ \A q \in Producers \ {p} : Copying(q) => slot[q] # slot[p]
     IN  \E v \in {<<p, offered[p]>>} \cup (IF alone THEN {} ELSE {Garbage}) :
           buffer' = [buffer EXCEPT ![slot[p]] = v]
  /\ pc' = [pc EXCEPT ![p] = "publishing"]
  /\ UNCHANGED <<head, tail, headSeen, tailSeen, slot, item,
                 offered, lastIn, delivered>>

(* The release store of tail_; push returns true.                          *)
Publish(p) ==
  /\ pc[p] = "publishing"
  /\ tail' = Succ(slot[p])
  /\ tailSeen' = [tailSeen EXCEPT ![p] = Succ(slot[p])]
  /\ lastIn' = [lastIn EXCEPT ![p] = offered[p]]
  /\ pc' = [pc EXCEPT ![p] = "idle"]
  /\ UNCHANGED <<head, headSeen, buffer, slot, item, offered, delivered>>

-----------------------------------------------------------------------------
(* pop                                                                     *)

(* The acquire load of tail_ says empty: pop returns nullopt.              *)
PopEmpty ==
  /\ pc[Router] = "idle"
  /\ head = tailSeen[Router]
  /\ UNCHANGED vars

(* Faulty: pop does not look whether the ring is empty.                    *)
BeginReadUnchecked ==
  /\ pc[Router] = "idle"
  /\ item' = buffer[head]
  /\ pc' = [pc EXCEPT ![Router] = "reading"]
  /\ UNCHANGED <<head, tail, headSeen, tailSeen, buffer, slot,
                 offered, lastIn, delivered>>

(* Faulty: the last tick of the ring is taken for none.                    *)
BeginReadButLast ==
  /\ head # tailSeen[Router] /\ Succ(head) # tailSeen[Router]
  /\ BeginReadUnchecked

(* Faulty: a full ring is taken for an empty one.                          *)
BeginReadUnlessFull ==
  /\ head # tailSeen[Router] /\ Succ(tailSeen[Router]) # head
  /\ BeginReadUnchecked

(* There is a tick: the copy out of the slot starts.  head_ is written by  *)
(* this thread alone, so its relaxed load returns head itself.             *)
BeginRead ==
  /\ pc[Router] = "idle"
  /\ head # tailSeen[Router]
  /\ item' = buffer[head]
  /\ pc' = [pc EXCEPT ![Router] = "reading"]
  /\ UNCHANGED <<head, tail, headSeen, tailSeen, buffer, slot,
                 offered, lastIn, delivered>>

(* The copy ends.  It is whole when no producer wrote the slot meanwhile.  *)
EndRead ==
  /\ pc[Router] = "reading"
  /\ LET alone == /\ buffer[head] = item
                  /\ \A p \in Producers : Copying(p) => slot[p] # head
     IN  \E v \in {buffer[head]} \cup (IF alone THEN {} ELSE {Garbage}) :
           item' = v
  /\ pc' = [pc EXCEPT ![Router] = "releasing"]
  /\ UNCHANGED <<head, tail, headSeen, tailSeen, buffer, slot,
                 offered, lastIn, delivered>>

(* The release store of head_; pop returns the item.                       *)
Release ==
  /\ pc[Router] = "releasing"
  /\ head' = Succ(head)
  /\ delivered' = Append(delivered, item)
  /\ pc' = [pc EXCEPT ![Router] = "idle"]
  /\ UNCHANGED <<tail, headSeen, tailSeen, buffer, slot, item, offered, lastIn>>

-----------------------------------------------------------------------------
(* The memory system: a store becomes visible to another thread's loads.   *)

SeeTail(t) ==
  /\ tailSeen[t] # tail
  /\ tailSeen' = [tailSeen EXCEPT ![t] = tail]
  /\ UNCHANGED <<head, tail, headSeen, buffer, pc, slot, item,
                 offered, lastIn, delivered>>

SeeHead(p) ==
  /\ headSeen[p] # head
  /\ headSeen' = [headSeen EXCEPT ![p] = head]
  /\ UNCHANGED <<head, tail, tailSeen, buffer, pc, slot, item,
                 offered, lastIn, delivered>>

-----------------------------------------------------------------------------

Push(p) == LoadTail(p) \/ RejectFull(p) \/ BeginCopy(p) \/ EndCopy(p) \/ Publish(p)
Pop     == PopEmpty \/ BeginRead \/ EndRead \/ Release
Memory  == (\E t \in Threads : SeeTail(t)) \/ (\E p \in Producers : SeeHead(p))

Next == (\E p \in Producers : Push(p)) \/ Pop \/ Memory

(* The router polls for as long as the engine runs, and a store is seen by *)
(* the other threads in finite time.  The feeds owe nothing.               *)
Fairness ==
  /\ WF_vars(Pop)
  /\ WF_vars(SeeTail(Router))
  /\ \A p \in Producers : WF_vars(SeeHead(p))

Spec     == Init /\ [][Next]_vars
FairSpec == Spec /\ Fairness

-----------------------------------------------------------------------------

(* Every variable ranges over what the class can hold: both indices, and   *)
(* every thread's view of them, stay inside the buffer_ array.             *)
TypeOK ==
  /\ head \in Index
  /\ tail \in Index
  /\ headSeen \in [Producers -> Index]
  /\ tailSeen \in [Threads -> Index]
  /\ buffer \in [Index -> Tick \cup {Garbage}]
  /\ pc \in [Threads -> {"idle", "checking", "copying", "publishing",
                         "reading", "releasing"}]
  /\ slot \in [Producers -> Index]
  /\ item \in Tick \cup {Garbage}
  /\ offered \in [Producers -> 0..MaxTicks]
  /\ \A p \in Producers : pc[p] # "idle" => offered[p] > 0
  /\ lastIn \in [Producers -> 0..MaxTicks]
  /\ delivered \in Seq(Tick \cup {Garbage})

(* No data race on buffer_: while a producer copies into a slot, the       *)
(* router is not copying out of it and no other producer copies into it.   *)
NoSlotRace ==
  \A p \in Producers : Copying(p) =>
    /\ pc[Router] = "reading" => slot[p] # head
    /\ \A q \in Producers \ {p} : Copying(q) => slot[q] # slot[p]

(* What keeps one producer and the router apart.  Counted upwards from the *)
(* head the producer last saw, the ring's positions come in this order:    *)
(* the head, the tail the router last saw, the tail.  The producer writes  *)
(* at the tail, the router reads between the first two.                    *)
RingInv ==
  /\ pc[Router] \in {"idle", "reading", "releasing"}
  /\ pc[Router] # "idle" => head # tailSeen[Router] /\ item = buffer[head]
  /\ \A p \in Producers :
       /\ pc[p] \in {"idle", "checking", "copying", "publishing"}
       /\ tailSeen[p] = tail
       /\ pc[p] # "idle" => slot[p] = tail
       /\ pc[p] \in {"copying", "publishing"} => Succ(tail) # headSeen[p]
       /\ pc[p] = "copying" => buffer[tail] = Garbage
       /\ pc[p] = "publishing" => buffer[tail] = <<p, offered[p]>>
       /\ lastIn[p] <= offered[p]
       /\ pc[p] # "idle" => lastIn[p] < offered[p]
       /\ Distance(headSeen[p], head) <= Distance(headSeen[p], tailSeen[Router])
       /\ Distance(headSeen[p], tailSeen[Router]) <= Distance(headSeen[p], tail)

(* The ticks between the indices, oldest first, are the abstract queue.    *)
SlotAt(from, i) == (from + i - 1) % N

Contents == [i \in 1..Distance(head, tail) |-> buffer[SlotAt(head, i)]]

Queue == INSTANCE TickQueue WITH Capacity <- N - 1, queue <- Contents

(* The ring is a bounded FIFO of N - 1 ticks: what push accepted, pop      *)
(* returns at most once, untorn and in order, whatever the loads see.      *)
ImplementsQueue == Queue!Spec

(* A tick for which push returned true reaches the router: ws_feed counts  *)
(* it as received, and no later push or pop may strand it in the ring.     *)
EveryTickArrives ==
  \A p \in Producers, k \in 1..MaxTicks :
    lastIn[p] = k ~> \E i \in DOMAIN delivered : delivered[i] = <<p, k>>

(* A producer that finds the ring full does not find it full for ever: the *)
(* router makes room and the producer's loads of head_ come to see it.     *)
RoomReturns ==
  \A p \in Producers :
    Succ(tailSeen[p]) = headSeen[p] ~> Succ(tailSeen[p]) # headSeen[p]

=============================================================================
