----------------------------- MODULE TickQueue -----------------------------
(***************************************************************************)
(* What the router is promised by the buffer between it and the feeds: a   *)
(* bounded lossy FIFO.  A feed numbers its ticks 1, 2, ... A tick is       *)
(* either accepted or dropped at the door; accepted ticks come out once,   *)
(* whole, in the order in which they went in.                              *)
(***************************************************************************)
EXTENDS Integers, Sequences

CONSTANTS
  Producers,   (* the feed threads                                         *)
  Capacity,    (* the number of ticks the buffer can hold                  *)
  MaxTicks     (* the number of ticks a feed offers                        *)

VARIABLES
  queue,       (* the accepted ticks that have not been taken yet          *)
  lastIn,      (* the number of the last tick accepted from each feed      *)
  delivered    (* the ticks the router has taken, oldest first             *)

vars == <<queue, lastIn, delivered>>

Init ==
  /\ queue = <<>>
  /\ lastIn = [p \in Producers |-> 0]
  /\ delivered = <<>>

(* Tick k of feed p is accepted; the numbers skipped since the last one    *)
(* are the ticks that were dropped.                                        *)
Put(p) ==
  \E k \in (lastIn[p] + 1)..MaxTicks :
    /\ Len(queue) < Capacity
    /\ queue' = Append(queue, <<p, k>>)
    /\ lastIn' = [lastIn EXCEPT ![p] = k]
    /\ UNCHANGED delivered

Take ==
  /\ queue # <<>>
  /\ queue' = Tail(queue)
  /\ delivered' = Append(delivered, Head(queue))
  /\ UNCHANGED lastIn

Next == Take \/ \E p \in Producers : Put(p)

Spec == Init /\ [][Next]_vars

=============================================================================
