----------------------------- MODULE OrderBook -----------------------------
(***************************************************************************)
(* order_book.hpp: the book of one venue.  An order is kept in three       *)
(* places: an object in a slot of the pool, an entry of order_map_ by id,  *)
(* and a share of the total of its price level.  Every operation must      *)
(* change all three together.                                              *)
(*                                                                         *)
(* The callers are unconstrained: ids may be used again while they are     *)
(* live and quantities may be zero, as the engine's are.  An operation on  *)
(* an unknown id, and an add when the pool is exhausted, change nothing    *)
(* but a counter that is printed.                                          *)
(***************************************************************************)
EXTENDS MemoryPool, FiniteSets, FiniteSetsExt

CONSTANTS
  None,        (* no object, no entry, no level                            *)
  Ids,         (* order ids the callers use                                *)
  Prices,      (* prices, in ticks                                         *)
  Quantities,  (* quantities of orders and of executions                   *)
  Times,       (* time stamps the callers pass                             *)
  Every,       (* 100 us: how often a snapshot is due                      *)
  History      (* entries of mid_history_, 256                             *)

ASSUME BookAssumption ==
  /\ Prices \subseteq Nat \ {0}
  /\ Quantities \subseteq Nat
  /\ Times \subseteq Nat
  /\ Every \in Nat
  /\ History \in Nat \ {0}
  /\ None \notin Slots

Sides == {"bid", "ask"}
Order == [id : Ids, side : Sides, price : Prices, quantity : Nat]

ASSUME NoneAssumption == None \notin Order

(* order_ids is kept as a set: nothing reads the order, nor how often an   *)
(* id is in it, and std::remove takes out every occurrence.                *)
Level == [total : Int, ids : SUBSET Ids]

ASSUME LevelAssumption == None \notin Level

VARIABLES
  object,      (* per slot: the order constructed in it, or None           *)
  orderMap,    (* order_map_: per id, a slot or None                       *)
  levels,      (* bids_ and asks_: per side and price, a level or None     *)
  lastSnapshot,(* last_snapshot_ns_                                        *)
  midHistory,  (* mid_history_                                             *)
  midIndex     (* mid_history_idx_, see NextIndex                          *)

snapshotVars == <<lastSnapshot, midHistory, midIndex>>
bookVars     == <<object, orderMap, levels, snapshotVars>>
vars         == <<poolVars, bookVars>>

Init ==
  /\ PoolInit
  /\ object = [s \in Slots |-> None]
  /\ orderMap = [id \in Ids |-> None]
  /\ levels = [side \in Sides |-> [p \in Prices |-> None]]
  /\ lastSnapshot = 0
  /\ midHistory = [i \in 0..(History - 1) |-> 0]
  /\ midIndex = 0

-----------------------------------------------------------------------------
(* Prices.                                                                 *)

Quoted(side) == {p \in Prices : levels[side][p] # None}

BestBid == IF Quoted("bid") = {} THEN 0 ELSE Max(Quoted("bid"))
BestAsk == IF Quoted("ask") = {} THEN 0 ELSE Min(Quoted("ask"))

MidPrice ==
  IF Quoted("bid") = {} \/ Quoted("ask") = {} THEN 0 ELSE (BestBid + BestAsk) \div 2

(* The index counts without end and is used modulo History, and compared   *)
(* with look-backs of at most History: beyond that only the remainder      *)
(* matters.                                                                *)
NextIndex == IF midIndex + 1 = 2 * History THEN History ELSE midIndex + 1

(* The difference of the time stamps is unsigned: a time before the last   *)
(* snapshot's counts as long after it.                                     *)
Due(ts) == ts - lastSnapshot >= Every \/ ts < lastSnapshot

(* maybeSnapshot, which every operation calls at its end.                  *)
MaybeSnapshot(ts) ==
  IF Due(ts)
  THEN /\ lastSnapshot' = ts
       /\ midHistory' = [midHistory EXCEPT ![midIndex % History] = MidPrice']
       /\ midIndex' = NextIndex
  ELSE UNCHANGED snapshotVars

-----------------------------------------------------------------------------
(* Levels.                                                                 *)

EmptyLevel == [total |-> 0, ids |-> {}]

LevelAt(o) == levels[o.side][o.price]

SetLevel(o, level) == [levels EXCEPT ![o.side][o.price] = level]

(* operator[] makes the level if there is none.                            *)
Joined(o) ==
  LET level == IF LevelAt(o) = None THEN EmptyLevel ELSE LevelAt(o)
  IN  SetLevel(o, [total |-> level.total + o.quantity, ids |-> level.ids \cup {o.id}])

(* Faulty: a level stays when nothing is left of it.                       *)
LeftStays(o, quantity) ==
  IF LevelAt(o) = None THEN levels
  ELSE SetLevel(o, [total |-> LevelAt(o).total - quantity, ids |-> LevelAt(o).ids \ {o.id}])

(* removeFromLevel, for an order of which so much is still in the total.   *)
Left(o, quantity) ==
  IF LevelAt(o) = None THEN levels
  ELSE LET total == LevelAt(o).total - quantity
       IN  SetLevel(o, IF total <= 0 THEN None
                       ELSE [total |-> total, ids |-> LevelAt(o).ids \ {o.id}])

(* What a partial fill takes off the level's total.                        *)
Reduced(o, quantity) ==
  IF LevelAt(o) = None THEN levels
  ELSE SetLevel(o, [LevelAt(o) EXCEPT !.total = @ - quantity])

-----------------------------------------------------------------------------
(* The operations.                                                         *)

AddOrder(o, ts) ==
  /\ Alloc
  /\ object' = [object EXCEPT ![freeHead] = o]
  /\ orderMap' = [orderMap EXCEPT ![o.id] = freeHead]
  /\ levels' = Joined(o)
  /\ MaybeSnapshot(ts)

(* The object is destroyed, its slot freed and its entry erased.           *)
Remove(id) ==
  /\ Free(orderMap[id])
  /\ object' = [object EXCEPT ![orderMap[id]] = None]
  /\ orderMap' = [orderMap EXCEPT ![id] = None]

(* Faulty: the entry stays in order_map_.                                  *)
CancelKeepsEntry(id, ts) ==
  /\ orderMap[id] # None
  /\ LET o == object[orderMap[id]] IN levels' = Left(o, o.quantity)
  /\ Free(orderMap[id])
  /\ object' = [object EXCEPT ![orderMap[id]] = None]
  /\ MaybeSnapshot(ts)
  /\ UNCHANGED orderMap

CancelOrder(id, ts) ==
  /\ orderMap[id] # None
  /\ LET o == object[orderMap[id]] IN levels' = Left(o, o.quantity)
  /\ Remove(id)
  /\ MaybeSnapshot(ts)

(* executeOrder, when some of the order stays in the book; the event for   *)
(* trade_cb_ is left out.                                                  *)

(* Faulty: the level's total is not taken down.                            *)
PartialFillKeepsTotal(id, quantity, ts) ==
  /\ orderMap[id] # None
  /\ quantity < object[orderMap[id]].quantity
  /\ object' = [object EXCEPT ![orderMap[id]].quantity = @ - quantity]
  /\ MaybeSnapshot(ts)
  /\ UNCHANGED <<poolVars, orderMap, levels>>

(* Faulty: the slot is freed whatever is left of the order.                *)
PartialFillFrees(id, quantity, ts) ==
  /\ orderMap[id] # None
  /\ LET o == object[orderMap[id]] IN
       /\ quantity < o.quantity
       /\ object' = [object EXCEPT ![orderMap[id]].quantity = @ - quantity]
       /\ levels' = Reduced(o, quantity)
  /\ Free(orderMap[id])
  /\ MaybeSnapshot(ts)
  /\ UNCHANGED orderMap

PartialFill(id, quantity, ts) ==
  /\ orderMap[id] # None
  /\ LET o == object[orderMap[id]] IN
       /\ quantity < o.quantity
       /\ object' = [object EXCEPT ![orderMap[id]].quantity = @ - quantity]
       /\ levels' = Reduced(o, quantity)
  /\ MaybeSnapshot(ts)
  /\ UNCHANGED <<poolVars, orderMap>>

(* ... and when nothing is left of it: the fill and removeFromLevel take   *)
(* the whole quantity off the level between them.                          *)
FullFill(id, quantity, ts) ==
  /\ orderMap[id] # None
  /\ LET o == object[orderMap[id]] IN
       /\ quantity >= o.quantity
       /\ levels' = Left(o, o.quantity)
  /\ Remove(id)
  /\ MaybeSnapshot(ts)

ExecuteOrder(id, quantity, ts) == PartialFill(id, quantity, ts) \/ FullFill(id, quantity, ts)

-----------------------------------------------------------------------------

Next ==
  \E ts \in Times :
    \/ \E o \in [id : Ids, side : Sides, price : Prices, quantity : Quantities] :
         AddOrder(o, ts)
    \/ \E id \in Ids : CancelOrder(id, ts)
    \/ \E id \in Ids, quantity \in Quantities : ExecuteOrder(id, quantity, ts)

Spec == Init /\ [][Next]_vars

-----------------------------------------------------------------------------

(* Every variable ranges over what the class can hold: indices, entries    *)
(* and levels, and the index of the mid price history stays in its bounds. *)
TypeOK ==
  /\ PoolTypeOK
  /\ object \in [Slots -> Order \cup {None}]
  /\ orderMap \in [Ids -> Slots \cup {None}]
  /\ levels \in [Sides -> [Prices -> Level \cup {None}]]
  /\ lastSnapshot \in Times \cup {0}
  /\ DOMAIN midHistory = 0..(History - 1)
  /\ midIndex \in 0..(2 * History - 1)

(* An entry of order_map_ leads to a slot in use that holds the order of   *)
(* this id, and a slot in use holds an order: no operation follows an      *)
(* entry into a slot that was freed or given to another order.             *)
EntriesAreLive ==
  /\ \A s \in Slots : s \in Live <=> object[s] # None
  /\ \A id \in Ids : orderMap[id] # None =>
       orderMap[id] \in Live /\ object[orderMap[id]].id = id

At(side, price) ==
  {s \in Slots : object[s] # None /\ object[s].side = side /\ object[s].price = price}

TotalAt(side, price) == IF levels[side][price] = None THEN 0 ELSE levels[side][price].total

(* What the orders in these slots add up to.                               *)
SumOf(obj, slots) == MapThenSumSet(LAMBDA s : obj[s].quantity, slots)

(* The total of a level is the sum of the orders that rest at its price,   *)
(* after any sequence of operations, reused ids and zero quantities        *)
(* included.                                                               *)
TotalsAreSums ==
  \A side \in Sides, price \in Prices :
    TotalAt(side, price) = SumOf(object, At(side, price))

(* Orders that no entry leads to: their id was used again while they were  *)
(* in the book.  They can never be removed.                                *)
Stranded == {s \in Live : orderMap[object[s].id] # s}

(* Whatever ids and quantities its callers use, a quoted price is one      *)
(* where orders rest, and lists ids of orders that rest there; and an      *)
(* order that can be reached and wants something is quoted and listed,     *)
(* though other orders with its id, or with nothing left, rest beside it   *)
(* and its level may have been erased and made again.                      *)
LevelsListOrders ==
  \A side \in Sides, price \in Prices :
    /\ levels[side][price] # None =>
         /\ At(side, price) # {}
         /\ levels[side][price].ids \subseteq {object[s].id : s \in At(side, price)}
    /\ \A s \in At(side, price) \ Stranded : object[s].quantity > 0 =>
         levels[side][price] # None /\ object[s].id \in levels[side][price].ids
=============================================================================
