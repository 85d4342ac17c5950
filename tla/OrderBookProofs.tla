--------------------------- MODULE OrderBookProofs ---------------------------
(***************************************************************************)
(* The book and its pool, for any ids, prices, quantities and times, and   *)
(* for callers that use ids again.                                         *)
(***************************************************************************)
EXTENDS TickBook, MemoryPoolProofs

BookTypeOK ==
  /\ object \in [Slots -> Order \cup {None}]
  /\ orderMap \in [Ids -> Slots \cup {None}]
  /\ levels \in [Sides -> [Prices -> Level \cup {None}]]

SnapshotTypeOK ==
  /\ lastSnapshot \in Times \cup {0}
  /\ DOMAIN midHistory = 0..(History - 1)
  /\ midIndex \in 0..(2 * History - 1)

(* None of the parts is inductive alone: what an operation finds through   *)
(* an entry must be an order (types need entries), the slot it frees must  *)
(* be in use (the pool needs entries), and the slot that an add is given   *)
(* must not be in use (entries need the pool).                             *)
BookInv == BookTypeOK /\ SnapshotTypeOK /\ PoolInv /\ EntriesAreLive

-----------------------------------------------------------------------------
(* Levels.                                                                 *)

LEMMA SetLevelTyped ==
  ASSUME BookTypeOK, NEW o \in Order, NEW level \in Level \cup {None}
  PROVE  SetLevel(o, level) \in [Sides -> [Prices -> Level \cup {None}]]
BY DEF BookTypeOK, SetLevel, Order

LEMMA LevelsTyped ==
  ASSUME BookTypeOK, NEW o \in Order, NEW quantity \in Nat
  PROVE  /\ Joined(o) \in [Sides -> [Prices -> Level \cup {None}]]
         /\ Left(o, quantity) \in [Sides -> [Prices -> Level \cup {None}]]
         /\ Reduced(o, quantity) \in [Sides -> [Prices -> Level \cup {None}]]
<1>1. LevelAt(o) \in Level \cup {None}
  BY DEF BookTypeOK, LevelAt, Order
<1>2. EmptyLevel \in Level
  BY DEF EmptyLevel, Level
<1>3. \A level \in Level : level.total \in Int /\ level.ids \in SUBSET Ids
  BY DEF Level
<1>4. \A total \in Int, ids \in SUBSET Ids : [total |-> total, ids |-> ids] \in Level
  BY DEF Level
<1>5. o.quantity \in Nat /\ o.id \in Ids
  BY DEF Order
<1>6. Joined(o) \in [Sides -> [Prices -> Level \cup {None}]]
  <2> DEFINE level == IF LevelAt(o) = None THEN EmptyLevel ELSE LevelAt(o)
  <2>1. level \in Level
    BY <1>1, <1>2
  <2> HIDE DEF level
  <2>2. [total |-> level.total + o.quantity, ids |-> level.ids \cup {o.id}] \in Level
    BY <2>1, <1>3, <1>4, <1>5
  <2>3. Joined(o) = SetLevel(o, [total |-> level.total + o.quantity, ids |-> level.ids \cup {o.id}])
    BY DEF Joined, level
  <2>4. QED
    BY <2>2, <2>3, SetLevelTyped
<1>7. CASE LevelAt(o) = None
  BY <1>6, <1>7 DEF Left, Reduced, BookTypeOK
<1>8. CASE LevelAt(o) # None
  <2>1. LevelAt(o) \in Level
    BY <1>1, <1>8
  <2>2. /\ [total |-> LevelAt(o).total - quantity, ids |-> LevelAt(o).ids \ {o.id}] \in Level
        /\ [LevelAt(o) EXCEPT !.total = @ - quantity] \in Level
    BY <2>1 DEF Level
  <2>3. QED
    BY <1>6, <1>8, <2>2, SetLevelTyped DEF Left, Reduced
<1>9. QED
  BY <1>7, <1>8

(* The index of the history stays in its bounds across the wrap.           *)
LEMMA SnapshotTyped ==
  ASSUME SnapshotTypeOK, NEW ts \in Times, MaybeSnapshot(ts)
  PROVE  SnapshotTypeOK'
<1>1. History \in Nat /\ History > 0
  BY BookAssumption
<1>2. CASE Due(ts)
  <2>1. NextIndex \in 0..(2 * History - 1)
    BY <1>1 DEF SnapshotTypeOK, NextIndex
  <2>2. QED
    BY <1>2, <2>1 DEF SnapshotTypeOK, MaybeSnapshot
<1>3. CASE ~Due(ts)
  BY <1>3 DEF SnapshotTypeOK, MaybeSnapshot, snapshotVars
<1>4. QED
  BY <1>2, <1>3

-----------------------------------------------------------------------------
(* The operations.                                                         *)

LEMMA InitKeeps == Init => BookInv
<1> SUFFICES ASSUME Init
             PROVE  BookInv
  OBVIOUS
<1>1. PoolInv
  BY PoolInitKeeps DEF Init
<1>2. BookTypeOK /\ SnapshotTypeOK
  BY BookAssumption DEF Init, BookTypeOK, SnapshotTypeOK
<1>3. Live = {}
  BY <1>1, FS_EmptySet DEF PoolInv, CountInv, Init, PoolInit
<1>4. EntriesAreLive
  BY <1>3 DEF Init, EntriesAreLive
<1>5. QED
  BY <1>1, <1>2, <1>4 DEF BookInv

(* An add is given a slot that no entry leads to.                          *)
LEMMA AddKeeps ==
  ASSUME BookInv, NEW o \in Order, NEW ts \in Times, AddOrder(o, ts)
  PROVE  BookInv'
<1>1. PoolInv'
  BY AllocKeeps DEF BookInv, AddOrder
<1>2. freeHead \in Slots /\ freeHead \notin Live /\ Live' = Live \cup {freeHead}
  BY AllocCounts DEF BookInv, AddOrder
<1>3. o # None /\ o.id \in Ids
  BY NoneAssumption DEF Order
<1>4. BookTypeOK'
  BY <1>2, <1>3, LevelsTyped DEF BookInv, BookTypeOK, AddOrder
<1>5. SnapshotTypeOK'
  BY SnapshotTyped DEF BookInv, AddOrder
<1>6. EntriesAreLive'
  <2>1. \A s \in Slots : s \in Live' <=> object'[s] # None
    BY <1>2, <1>3 DEF BookInv, BookTypeOK, EntriesAreLive, AddOrder
  <2>2. ASSUME NEW id \in Ids, orderMap'[id] # None
        PROVE  orderMap'[id] \in Live' /\ object'[orderMap'[id]].id = id
    <3>1. CASE id = o.id
      BY <3>1, <1>2, <1>3 DEF BookInv, BookTypeOK, AddOrder
    <3>2. CASE id # o.id
      <4>1. orderMap'[id] = orderMap[id] /\ orderMap[id] \in Live /\ object[orderMap[id]].id = id
        BY <3>2, <2>2 DEF BookInv, BookTypeOK, EntriesAreLive, AddOrder
      <4>2. orderMap[id] # freeHead /\ orderMap[id] \in Slots
        BY <4>1, <1>2 DEF Live
      <4>3. QED
        BY <4>1, <4>2, <1>2 DEF BookInv, BookTypeOK, AddOrder
    <3>3. QED
      BY <3>1, <3>2
  <2>3. QED
    BY <2>1, <2>2 DEF EntriesAreLive
<1>7. QED
  BY <1>1, <1>4, <1>5, <1>6 DEF BookInv

(* What an entry leads to.                                                 *)
LEMMA EntryIs ==
  ASSUME BookInv, NEW id \in Ids, orderMap[id] # None
  PROVE  /\ orderMap[id] \in Live /\ orderMap[id] \in Slots
         /\ object[orderMap[id]] \in Order
         /\ object[orderMap[id]].id = id
         /\ object[orderMap[id]].quantity \in Nat
BY DEF BookInv, BookTypeOK, EntriesAreLive, Live, Order

(* Two entries never lead to the same slot: the order in it has one id.    *)
LEMMA RemoveKeeps ==
  ASSUME BookInv, NEW id \in Ids, orderMap[id] # None, Remove(id),
         levels' \in [Sides -> [Prices -> Level \cup {None}]], SnapshotTypeOK'
  PROVE  BookInv'
<1> DEFINE s == orderMap[id]
<1>1. s \in Live /\ s \in Slots /\ object[s].id = id
  BY EntryIs
<1>2. PoolInv' /\ Live' = Live \ {s}
  BY <1>1, FreeKeeps DEF BookInv, Remove
<1>3. BookTypeOK'
  BY DEF BookInv, BookTypeOK, Remove
<1>4. EntriesAreLive'
  <2>1. \A r \in Slots : r \in Live' <=> object'[r] # None
    BY <1>1, <1>2 DEF BookInv, BookTypeOK, EntriesAreLive, Remove
  <2>2. ASSUME NEW other \in Ids, orderMap'[other] # None
        PROVE  orderMap'[other] \in Live' /\ object'[orderMap'[other]].id = other
    <3>1. other # id /\ orderMap'[other] = orderMap[other]
      BY <2>2 DEF BookInv, BookTypeOK, Remove
    <3>2. /\ orderMap[other] \in Live /\ orderMap[other] \in Slots
          /\ object[orderMap[other]].id = other
      BY <3>1, <2>2, EntryIs
    <3>3. orderMap[other] # s
      BY <3>1, <3>2, <1>1
    <3>4. QED
      BY <3>1, <3>2, <3>3, <1>1, <1>2 DEF BookInv, BookTypeOK, Remove
  <2>3. QED
    BY <2>1, <2>2 DEF EntriesAreLive
<1>5. QED
  BY <1>2, <1>3, <1>4 DEF BookInv

LEMMA CancelKeeps ==
  ASSUME BookInv, NEW id \in Ids, NEW ts \in Times, CancelOrder(id, ts)
  PROVE  BookInv'
<1>1. object[orderMap[id]] \in Order /\ object[orderMap[id]].quantity \in Nat
  BY EntryIs DEF CancelOrder
<1>2. levels' \in [Sides -> [Prices -> Level \cup {None}]]
  BY <1>1, LevelsTyped DEF BookInv, CancelOrder
<1>3. SnapshotTypeOK'
  BY SnapshotTyped DEF BookInv, CancelOrder
<1>4. QED
  BY <1>2, <1>3, RemoveKeeps DEF CancelOrder

LEMMA FullFillKeeps ==
  ASSUME BookInv, NEW id \in Ids, NEW quantity \in Nat, NEW ts \in Times,
         FullFill(id, quantity, ts)
  PROVE  BookInv'
<1>1. object[orderMap[id]] \in Order /\ object[orderMap[id]].quantity \in Nat
  BY EntryIs DEF FullFill
<1>2. levels' \in [Sides -> [Prices -> Level \cup {None}]]
  BY <1>1, LevelsTyped DEF BookInv, FullFill
<1>3. SnapshotTypeOK'
  BY SnapshotTyped DEF BookInv, FullFill
<1>4. QED
  BY <1>2, <1>3, RemoveKeeps DEF FullFill

LEMMA PartialFillKeeps ==
  ASSUME BookInv, NEW id \in Ids, NEW quantity \in Nat, NEW ts \in Times,
         PartialFill(id, quantity, ts)
  PROVE  BookInv'
<1> DEFINE s == orderMap[id]
<1>1. /\ s \in Live /\ s \in Slots /\ object[s] \in Order
      /\ object[s].id = id /\ object[s].quantity \in Nat
  BY EntryIs DEF PartialFill
<1>2. PoolInv' /\ Live' = Live
  BY PoolFrame DEF BookInv, PartialFill
<1>3. object[s].quantity - quantity \in Nat
  BY <1>1 DEF PartialFill
<1> DEFINE o == [object[s] EXCEPT !.quantity = @ - quantity]
<1>4. o \in Order /\ o.id = id /\ o # None
  BY <1>1, <1>3, NoneAssumption DEF Order
<1>5. object' = [object EXCEPT ![s] = o]
  BY DEF PartialFill
<1> HIDE DEF o
<1>6. levels' = Reduced(object[s], quantity)
  BY DEF PartialFill
<1>7. levels' \in [Sides -> [Prices -> Level \cup {None}]]
  BY <1>1, <1>6, LevelsTyped, BookAssumption DEF BookInv
<1>8. object' \in [Slots -> Order \cup {None}] /\ UNCHANGED orderMap
  BY <1>4, <1>5 DEF BookInv, BookTypeOK, PartialFill
<1>9. BookTypeOK'
  BY <1>7, <1>8 DEF BookInv, BookTypeOK
<1>10. SnapshotTypeOK'
  BY SnapshotTyped DEF BookInv, PartialFill
<1>11. EntriesAreLive'
  BY <1>1, <1>2, <1>4, <1>5 DEF BookInv, BookTypeOK, EntriesAreLive, PartialFill
<1>12. QED
  BY <1>2, <1>9, <1>10, <1>11 DEF BookInv

LEMMA FrameKeeps ==
  ASSUME BookInv, UNCHANGED vars
  PROVE  BookInv'
<1>1. PoolInv' /\ Live' = Live
  BY PoolFrame DEF BookInv, vars
<1>2. BookTypeOK' /\ SnapshotTypeOK' /\ EntriesAreLive'
  BY <1>1 DEF BookInv, BookTypeOK, SnapshotTypeOK, EntriesAreLive, vars, bookVars, snapshotVars
<1>3. QED
  BY <1>1, <1>2 DEF BookInv

LEMMA BookStep ==
  ASSUME BookInv, [Next]_vars
  PROVE  BookInv'
<1>1. ASSUME NEW ts \in Times,
             NEW o \in [id : Ids, side : Sides, price : Prices, quantity : Quantities],
             AddOrder(o, ts)
      PROVE  BookInv'
  <2>1. o \in Order
    BY BookAssumption DEF Order
  <2>2. QED
    BY <1>1, <2>1, AddKeeps
<1>2. ASSUME NEW ts \in Times, NEW id \in Ids, CancelOrder(id, ts)
      PROVE  BookInv'
  BY <1>2, CancelKeeps
<1>3. ASSUME NEW ts \in Times, NEW id \in Ids, NEW quantity \in Quantities,
             ExecuteOrder(id, quantity, ts)
      PROVE  BookInv'
  BY <1>3, PartialFillKeeps, FullFillKeeps, BookAssumption DEF ExecuteOrder
<1>4. CASE UNCHANGED vars
  BY <1>4, FrameKeeps
<1>5. QED
  BY <1>1, <1>2, <1>3, <1>4 DEF Next

LEMMA BookInvariant == Spec => []BookInv
BY InitKeeps, BookStep, PTL DEF Spec

-----------------------------------------------------------------------------
(* Sums.  The definition of MapThenSumSet is recursive; what it computes   *)
(* follows by induction over subsets, from there being an additive         *)
(* function at all.                                                        *)

(* Induction over the subsets of a finite set, for the set of those for    *)
(* which something holds.                                                  *)
LEMMA SubsetInduction ==
  ASSUME NEW S, IsFiniteSet(S), NEW Good,
         \A T \in SUBSET S : (\A U \in SUBSET T : U # T => U \in Good) => T \in Good
  PROVE  SUBSET S \subseteq Good
<1> SUFFICES ASSUME (SUBSET S) \ Good # {}
             PROVE  FALSE
  OBVIOUS
<1> DEFINE Bad == (SUBSET S) \ Good
<1>1. FiniteSubsetsOf(S) = SUBSET S
  BY FS_FiniteSubsetsOfFinite
<1>2. IsWellFoundedOn(StrictSubsetOrdering(S), SUBSET S)
  <2>1. IsWellFoundedOn(StrictSubsetOrdering(S), FiniteSubsetsOf(S))
    BY FS_StrictSubsetOrderingWellFounded
  <2>2. QED
    BY ONLY <1>1, <2>1
<1>3. Bad \subseteq SUBSET S /\ Bad # {}
  OBVIOUS
<1> HIDE DEF Bad
<1>4. PICK T \in Bad : \A U \in Bad : ~ (<<U, T>> \in StrictSubsetOrdering(S))
  BY ONLY <1>2, <1>3, WFMin
<1>5. \A U \in SUBSET T : U # T => U \in Good
  BY <1>3, <1>4 DEF StrictSubsetOrdering, Bad
<1>6. QED
  BY <1>5 DEF Bad

(* sum gives every subset of S the sum of q over it.                       *)
Additive(sum, q, S) ==
  /\ sum \in [SUBSET S -> Nat]
  /\ sum[{}] = 0
  /\ \A T \in SUBSET S : \A x \in T : sum[T] = q[x] + sum[T \ {x}]

LEMMA AdditiveExists ==
  ASSUME NEW S, IsFiniteSet(S), NEW q \in [S -> Nat]
  PROVE  \E sum : Additive(sum, q, S)
<1> DEFINE Good == {T \in SUBSET S : \E sum : Additive(sum, q, T)}
<1>1. ASSUME NEW T \in SUBSET S, \A U \in SUBSET T : U # T => U \in Good
      PROVE  T \in Good
  <2>1. CASE T = {}
    <3>1. Additive([U \in SUBSET T |-> 0], q, T)
      BY <2>1 DEF Additive
    <3>2. QED
      BY <3>1
  <2>2. CASE T # {}
    <3>1. PICK x \in T : TRUE
      BY <2>2
    <3> DEFINE R == T \ {x}
    <3>2. R \in SUBSET T /\ R # T
      BY <3>1
    <3>3. PICK sum : Additive(sum, q, R)
      BY <1>1, <3>2
    <3> DEFINE more == [U \in SUBSET T |-> IF x \in U THEN q[x] + sum[U \ {x}] ELSE sum[U]]
    <3>4. \A U \in SUBSET T : U \ {x} \in SUBSET R /\ (x \notin U => U \in SUBSET R)
      OBVIOUS
    <3>5. sum \in [SUBSET R -> Nat] /\ sum[{}] = 0 /\ q[x] \in Nat
      BY <3>3 DEF Additive
    <3>6. more \in [SUBSET T -> Nat]
      BY <3>4, <3>5
    <3>7. more[{}] = 0
      BY <3>5
    <3>8. ASSUME NEW U \in SUBSET T, NEW y \in U
          PROVE  more[U] = q[y] + more[U \ {y}]
      <4>1. CASE y = x
        BY <4>1
      <4>2. CASE y # x /\ x \in U
        <5>1. sum[U \ {x}] = q[y] + sum[(U \ {x}) \ {y}]
          BY <3>3, <3>4, <4>2 DEF Additive
        <5>2. (U \ {x}) \ {y} = (U \ {y}) \ {x}
          OBVIOUS
        <5>3. more[U] = q[x] + sum[U \ {x}] /\ more[U \ {y}] = q[x] + sum[(U \ {y}) \ {x}]
          BY <4>2
        <5>4. q[y] \in Nat /\ sum[(U \ {y}) \ {x}] \in Nat
          <6>1. (U \ {y}) \ {x} \in SUBSET R
            OBVIOUS
          <6>2. QED
            BY <6>1, <3>5
        <5> DEFINE rest == sum[(U \ {y}) \ {x}]
        <5>5. rest \in Nat /\ more[U] = q[x] + (q[y] + rest) /\ more[U \ {y}] = q[x] + rest
          BY <5>1, <5>2, <5>3, <5>4
        <5> HIDE DEF more, rest
        <5>6. QED
          BY <3>5, <5>4, <5>5
      <4>3. CASE y # x /\ x \notin U
        BY <4>3, <3>3, <3>4 DEF Additive
      <4>4. QED
        BY <4>1, <4>2, <4>3
    <3>9. Additive(more, q, T)
      BY <3>6, <3>7, <3>8 DEF Additive
    <3>10. QED
      BY <3>9
  <2>3. QED
    BY <2>1, <2>2
<1> HIDE DEF Good
<1>2. SUBSET S \subseteq Good
  BY <1>1, SubsetInduction
<1>3. QED
  BY <1>2 DEF Good

(* What MapThenSumSet computes, whichever element its CHOOSE takes first.  *)
LEMMA SumIsAdditive ==
  ASSUME NEW S, IsFiniteSet(S), NEW obj, \A s \in S : obj[s].quantity \in Nat,
         NEW sum, Additive(sum, [s \in S |-> obj[s].quantity], S)
  PROVE  SumOf(obj, S) = sum[S]
<1> DEFINE Some(T) == CHOOSE x \in T : TRUE
           Step(g) == [T \in SUBSET S |-> IF T = {} THEN 0
                                          ELSE obj[Some(T)].quantity + g[T \ {Some(T)}]]
           iter == CHOOSE g : g = Step(g)
<1>1. SumOf(obj, S) = iter[S]
  BY DEF SumOf, MapThenSumSet, MapThenFoldSet
<1>2. \A T \in SUBSET S : T # {} => Some(T) \in T
  OBVIOUS
<1> HIDE DEF Some
<1>3. sum = Step(sum)
  BY <1>2 DEF Additive
<1>4. iter = Step(iter)
  BY <1>3
<1> HIDE DEF iter
<1> DEFINE Good == {T \in SUBSET S : iter[T] = sum[T]}
<1>5. ASSUME NEW T \in SUBSET S, \A U \in SUBSET T : U # T => U \in Good
      PROVE  T \in Good
  <2>1. CASE T = {}
    BY <2>1, <1>4 DEF Additive
  <2>2. CASE T # {}
    <3>1. Some(T) \in T
      BY <2>2, <1>2
    <3>2. T \ {Some(T)} \in Good
      BY <1>5, <3>1
    <3>3. iter[T] = obj[Some(T)].quantity + iter[T \ {Some(T)}]
      BY <1>4, <2>2
    <3>4. sum[T] = obj[Some(T)].quantity + sum[T \ {Some(T)}]
      BY <3>1 DEF Additive
    <3>5. QED
      BY <3>2, <3>3, <3>4
  <2>3. QED
    BY <2>1, <2>2
<1> HIDE DEF Good
<1>6. SUBSET S \subseteq Good
  BY <1>5, SubsetInduction
<1>7. QED
  BY <1>1, <1>6 DEF Good

LEMMA SumEmpty == ASSUME NEW obj PROVE SumOf(obj, {}) = 0
<1> DEFINE sum == [U \in SUBSET {} |-> 0]
<1>1. Additive(sum, [s \in {} |-> obj[s].quantity], {})
  BY DEF Additive
<1>2. SumOf(obj, {}) = sum[{}]
  <2>1. IsFiniteSet({}) /\ \A s \in {} : obj[s].quantity \in Nat
    BY FS_EmptySet
  <2> HIDE DEF sum
  <2>2. QED
    BY <1>1, <2>1, SumIsAdditive
<1>3. QED
  BY <1>2

LEMMA SumRestricted ==
  ASSUME NEW S, IsFiniteSet(S), NEW obj, \A s \in S : obj[s].quantity \in Nat,
         NEW sum, Additive(sum, [s \in S |-> obj[s].quantity], S),
         NEW T \in SUBSET S
  PROVE  SumOf(obj, T) = sum[T]
<1> DEFINE part == [U \in SUBSET T |-> sum[U]]
<1>1. Additive(part, [s \in T |-> obj[s].quantity], T)
  BY DEF Additive
<1>2. IsFiniteSet(T)
  BY FS_Subset
<1> HIDE DEF part
<1>3. SumOf(obj, T) = part[T]
  BY <1>1, <1>2, SumIsAdditive
<1>4. QED
  BY <1>3 DEF part

LEMMA SumSplit ==
  ASSUME NEW T, IsFiniteSet(T), NEW obj, \A s \in T : obj[s].quantity \in Nat
  PROVE  /\ SumOf(obj, T) \in Nat
         /\ \A x \in T : SumOf(obj, T) = obj[x].quantity + SumOf(obj, T \ {x})
<1>1. PICK sum : Additive(sum, [s \in T |-> obj[s].quantity], T)
  BY AdditiveExists
<1>2. \A U \in SUBSET T : SumOf(obj, U) = sum[U]
  BY <1>1, SumRestricted
<1>3. SumOf(obj, T) = sum[T] /\ sum[T] \in Nat
  BY <1>1, <1>2 DEF Additive
<1>4. ASSUME NEW x \in T
      PROVE  SumOf(obj, T) = obj[x].quantity + SumOf(obj, T \ {x})
  <2>1. sum[T] = obj[x].quantity + sum[T \ {x}]
    BY <1>1 DEF Additive
  <2>2. SumOf(obj, T \ {x}) = sum[T \ {x}]
    BY <1>2
  <2>3. QED
    BY <1>3, <2>1, <2>2
<1>5. QED
  BY <1>3, <1>4

LEMMA SumAgree ==
  ASSUME NEW T, IsFiniteSet(T), NEW obj, NEW other,
         \A s \in T : obj[s].quantity \in Nat /\ other[s].quantity = obj[s].quantity
  PROVE  SumOf(other, T) = SumOf(obj, T)
<1>1. PICK sum : Additive(sum, [s \in T |-> obj[s].quantity], T)
  BY AdditiveExists
<1>2. [s \in T |-> obj[s].quantity] = [s \in T |-> other[s].quantity]
  OBVIOUS
<1>3. QED
  BY <1>1, <1>2, SumRestricted

-----------------------------------------------------------------------------
(* Totals.  Every operation changes one slot, from one order or none to    *)
(* another, and moves the total of a level by what this changes there.     *)

Objects == [Slots -> Order \cup {None}]

(* At, for any objects.                                                    *)
Resting(obj, side, price) ==
  {s \in Slots : obj[s] # None /\ obj[s].side = side /\ obj[s].price = price}

SumAt(obj, side, price) == SumOf(obj, Resting(obj, side, price))

Share(o, side, price) ==
  IF o # None /\ o.side = side /\ o.price = price THEN o.quantity ELSE 0

LEMMA ShareIsNat ==
  ASSUME NEW o \in Order \cup {None}, NEW side, NEW price
  PROVE  Share(o, side, price) \in Nat
BY DEF Share, Order

LEMMA RestingIsFinite ==
  ASSUME NEW obj \in Objects, NEW side, NEW price
  PROVE  /\ IsFiniteSet(Resting(obj, side, price))
         /\ \A s \in Resting(obj, side, price) : obj[s].quantity \in Nat
<1>1. IsFiniteSet(Slots)
  BY FS_Interval, SizeAssumption DEF Slots
<1>2. Resting(obj, side, price) \in SUBSET Slots
  BY DEF Resting
<1>3. IsFiniteSet(Resting(obj, side, price))
  BY <1>1, <1>2, FS_Subset
<1>4. QED
  BY <1>3 DEF Resting, Objects, Order

(* A slot's share is in the sum of its level, and the rest of the sum does *)
(* not depend on it.                                                       *)
LEMMA SumWithout ==
  ASSUME NEW obj \in Objects, NEW s \in Slots, NEW side, NEW price
  PROVE  /\ SumOf(obj, Resting(obj, side, price) \ {s}) \in Nat
         /\ SumAt(obj, side, price) =
              Share(obj[s], side, price) + SumOf(obj, Resting(obj, side, price) \ {s})
<1> DEFINE here == Resting(obj, side, price)
<1>1. IsFiniteSet(here) /\ \A r \in here : obj[r].quantity \in Nat
  BY RestingIsFinite
<1>2. IsFiniteSet(here \ {s})
  BY <1>1, FS_RemoveElement
<1>3. SumOf(obj, here \ {s}) \in Nat
  BY <1>1, <1>2, SumSplit
<1>4. CASE s \in here
  <2>1. SumOf(obj, here) = obj[s].quantity + SumOf(obj, here \ {s})
    BY <1>1, <1>4, SumSplit
  <2>2. Share(obj[s], side, price) = obj[s].quantity
    BY <1>4 DEF Share, Resting
  <2>3. QED
    BY <1>3, <2>1, <2>2 DEF SumAt
<1>5. CASE s \notin here
  <2>1. here \ {s} = here /\ Share(obj[s], side, price) = 0
    BY <1>5 DEF Share, Resting
  <2>2. QED
    BY <1>3, <2>1 DEF SumAt
<1>6. QED
  BY <1>4, <1>5

LEMMA SumMoves ==
  ASSUME NEW obj \in Objects, NEW s \in Slots, NEW o \in Order \cup {None},
         NEW side, NEW price
  PROVE  /\ SumAt(obj, side, price) \in Nat
         /\ Share(obj[s], side, price) \in 0..SumAt(obj, side, price)
         /\ SumAt([obj EXCEPT ![s] = o], side, price)
              = SumAt(obj, side, price) + Share(o, side, price) - Share(obj[s], side, price)
<1> DEFINE new == [obj EXCEPT ![s] = o]
           rest == Resting(obj, side, price) \ {s}
<1>1. new \in Objects /\ new[s] = o /\ obj[s] \in Order \cup {None}
  BY DEF Objects
<1>2. Resting(new, side, price) \ {s} = rest
  BY DEF Resting, Objects
<1>3. \A r \in rest : obj[r].quantity \in Nat /\ new[r].quantity = obj[r].quantity
  BY RestingIsFinite DEF Resting, Objects
<1> HIDE DEF new
<1>4. /\ SumOf(obj, rest) \in Nat
      /\ SumAt(obj, side, price) = Share(obj[s], side, price) + SumOf(obj, rest)
  BY SumWithout
<1>5. SumAt(new, side, price) = Share(o, side, price) + SumOf(new, rest)
  BY <1>1, <1>2, SumWithout
<1>6. SumOf(new, rest) = SumOf(obj, rest)
  <2>1. IsFiniteSet(rest)
    BY RestingIsFinite, FS_RemoveElement
  <2>2. QED
    BY <1>3, <2>1, SumAgree
<1>7. Share(obj[s], side, price) \in Nat /\ Share(o, side, price) \in Nat
  BY <1>1, ShareIsNat
<1>8. QED
  BY <1>4, <1>5, <1>6, <1>7 DEF new

LEMMA TotalsAre ==
  TotalsAreSums <=> \A side \in Sides, price \in Prices :
                      TotalAt(side, price) = SumAt(object, side, price)
BY DEF TotalsAreSums, SumAt, At, Resting

LEMMA TotalsArePrimed ==
  TotalsAreSums' <=> \A side \in Sides, price \in Prices :
                       TotalAt(side, price)' = SumAt(object', side, price)
BY DEF TotalsAreSums, SumAt, At, Resting

LEMMA TotalsMove ==
  ASSUME BookTypeOK, TotalsAreSums, NEW s \in Slots, NEW o \in Order \cup {None},
         object' = [object EXCEPT ![s] = o],
         \A side \in Sides, price \in Prices :
           TotalAt(side, price)' =
             TotalAt(side, price) + Share(o, side, price) - Share(object[s], side, price)
  PROVE  TotalsAreSums'
<1>1. object \in Objects
  BY DEF BookTypeOK, Objects
<1>2. ASSUME NEW side \in Sides, NEW price \in Prices
      PROVE  TotalAt(side, price)' = SumAt(object', side, price)
  <2>1. SumAt(object', side, price) =
          SumAt(object, side, price) + Share(o, side, price) - Share(object[s], side, price)
    <3>1. \A obj \in Objects : SumAt([obj EXCEPT ![s] = o], side, price) =
            SumAt(obj, side, price) + Share(o, side, price) - Share(obj[s], side, price)
      BY SumMoves
    <3>2. QED
      BY <1>1, <3>1
  <2>2. TotalAt(side, price) = SumAt(object, side, price)
    BY TotalsAre
  <2>3. QED
    BY <2>1, <2>2
<1>3. QED
  BY <1>2, TotalsArePrimed

(* What an order rests with is part of its level's total.                  *)
LEMMA TotalBounds ==
  ASSUME BookTypeOK, TotalsAreSums, NEW s \in Slots, object[s] \in Order
  PROVE  LET o == object[s] IN
         /\ TotalAt(o.side, o.price) \in Nat
         /\ o.quantity \in 0..TotalAt(o.side, o.price)
<1> DEFINE o == object[s]
<1>1. object \in Objects /\ o \in Order \cup {None}
  BY DEF BookTypeOK, Objects
<1>2. o.side \in Sides /\ o.price \in Prices /\ Share(o, o.side, o.price) = o.quantity
  BY NoneAssumption DEF Share, Order
<1>3. /\ SumAt(object, o.side, o.price) \in Nat
      /\ Share(o, o.side, o.price) \in 0..SumAt(object, o.side, o.price)
  BY <1>1, SumMoves
<1>4. TotalAt(o.side, o.price) = SumAt(object, o.side, o.price)
  BY <1>2, TotalsAre
<1>5. QED
  BY <1>2, <1>3, <1>4

LEMMA TotalSet ==
  ASSUME BookTypeOK, NEW o \in Order, NEW level \in Level \cup {None},
         levels' = SetLevel(o, level), NEW side \in Sides, NEW price \in Prices
  PROVE  TotalAt(side, price)' =
           IF o.side = side /\ o.price = price
           THEN IF level = None THEN 0 ELSE level.total
           ELSE TotalAt(side, price)
BY DEF BookTypeOK, SetLevel, TotalAt, Order

LEMMA JoinedTotals ==
  ASSUME BookTypeOK, NEW o \in Order, levels' = Joined(o),
         NEW side \in Sides, NEW price \in Prices
  PROVE  TotalAt(side, price)' = TotalAt(side, price) + Share(o, side, price)
<1> DEFINE level == IF LevelAt(o) = None THEN EmptyLevel ELSE LevelAt(o)
           joined == [total |-> level.total + o.quantity, ids |-> level.ids \cup {o.id}]
<1>1. o.side \in Sides /\ o.price \in Prices /\ o.quantity \in Nat /\ o.id \in Ids /\ o # None
  BY NoneAssumption DEF Order
<1>2. level \in Level /\ level.total \in Int /\ level.total = TotalAt(o.side, o.price)
  BY <1>1 DEF BookTypeOK, LevelAt, TotalAt, EmptyLevel, Level
<1>3. joined \in Level /\ joined # None /\ joined.total = level.total + o.quantity
  BY <1>1, <1>2, LevelAssumption DEF Level
<1>4. levels' = SetLevel(o, joined)
  BY DEF Joined
<1>5. TotalAt(side, price) \in Int
  BY DEF TotalAt, BookTypeOK, Level
<1> HIDE DEF joined, level
<1>6. QED
  BY <1>1, <1>2, <1>3, <1>4, <1>5, TotalSet DEF Share

LEMMA LeftTotals ==
  ASSUME BookTypeOK, NEW o \in Order, levels' = Left(o, o.quantity),
         TotalAt(o.side, o.price) \in Nat, o.quantity \in 0..TotalAt(o.side, o.price),
         NEW side \in Sides, NEW price \in Prices
  PROVE  TotalAt(side, price)' = TotalAt(side, price) - Share(o, side, price)
<1> DEFINE total == LevelAt(o).total - o.quantity
           left  == [total |-> total, ids |-> LevelAt(o).ids \ {o.id}]
<1>1. o.side \in Sides /\ o.price \in Prices /\ o.quantity \in Nat /\ o # None
  BY NoneAssumption DEF Order
<1>2. TotalAt(side, price) \in Int
  BY DEF TotalAt, BookTypeOK, Level
<1>3. CASE LevelAt(o) = None
  <2>1. TotalAt(o.side, o.price) = 0 /\ o.quantity = 0
    BY <1>3 DEF LevelAt, TotalAt
  <2>2. levels' = levels
    BY <1>3 DEF Left
  <2>3. QED
    BY <1>1, <1>2, <2>1, <2>2 DEF TotalAt, Share
<1>4. CASE LevelAt(o) # None
  <2>1. LevelAt(o) \in Level /\ LevelAt(o).total = TotalAt(o.side, o.price)
    BY <1>1, <1>4 DEF BookTypeOK, LevelAt, TotalAt
  <2>2. total \in Nat /\ total = TotalAt(o.side, o.price) - o.quantity
    BY <2>1
  <2>3. left \in Level /\ left # None /\ left.total = total
    BY <2>1, <2>2, LevelAssumption DEF Level
  <2>4. levels' = SetLevel(o, IF total <= 0 THEN None ELSE left)
    BY <1>4 DEF Left
  <2> HIDE DEF total, left
  <2>5. TotalAt(side, price)' = IF o.side = side /\ o.price = price THEN total
                                ELSE TotalAt(side, price)
    <3>1. CASE total <= 0
      BY <2>2, <2>4, <3>1, TotalSet
    <3>2. CASE ~(total <= 0)
      BY <2>3, <2>4, <3>2, TotalSet
    <3>3. QED
      BY <3>1, <3>2
  <2>6. QED
    BY <1>1, <1>2, <2>2, <2>5 DEF Share
<1>5. QED
  BY <1>3, <1>4

LEMMA ReducedTotals ==
  ASSUME BookTypeOK, NEW o \in Order, NEW quantity \in Nat, quantity < o.quantity,
         levels' = Reduced(o, quantity),
         TotalAt(o.side, o.price) \in Nat, o.quantity \in 0..TotalAt(o.side, o.price),
         NEW side \in Sides, NEW price \in Prices
  PROVE  TotalAt(side, price)' =
           TotalAt(side, price) + Share([o EXCEPT !.quantity = @ - quantity], side, price)
             - Share(o, side, price)
<1> DEFINE less  == [o EXCEPT !.quantity = @ - quantity]
           level == [LevelAt(o) EXCEPT !.total = @ - quantity]
<1>1. o.side \in Sides /\ o.price \in Prices /\ o.quantity \in Nat /\ o # None
  BY NoneAssumption DEF Order
<1>2. /\ less \in Order /\ less # None
      /\ less.side = o.side /\ less.price = o.price /\ less.quantity = o.quantity - quantity
  BY NoneAssumption DEF Order
<1>3. TotalAt(side, price) \in Int
  BY DEF TotalAt, BookTypeOK, Level
<1>4. LevelAt(o) \in Level /\ LevelAt(o).total = TotalAt(o.side, o.price)
  BY <1>1 DEF BookTypeOK, LevelAt, TotalAt
<1>5. level \in Level /\ level # None /\ level.total = TotalAt(o.side, o.price) - quantity
  BY <1>4, LevelAssumption DEF Level
<1>6. levels' = SetLevel(o, level)
  BY <1>4, LevelAssumption DEF Reduced
<1> HIDE DEF less, level
<1>7. TotalAt(side, price)' = IF o.side = side /\ o.price = price
                              THEN TotalAt(o.side, o.price) - quantity
                              ELSE TotalAt(side, price)
  BY <1>5, <1>6, TotalSet
<1>8. QED
  BY <1>1, <1>2, <1>3, <1>7 DEF Share, less

LEMMA AddTotals ==
  ASSUME BookInv, TotalsAreSums, NEW o \in Order, NEW ts, AddOrder(o, ts)
  PROVE  TotalsAreSums'
<1>1. BookTypeOK /\ o \in Order \cup {None}
  BY DEF BookInv
<1>2. freeHead \in Slots /\ object[freeHead] = None
  BY AllocCounts DEF BookInv, EntriesAreLive, AddOrder
<1>3. object' = [object EXCEPT ![freeHead] = o] /\ levels' = Joined(o)
  BY DEF AddOrder
<1>4. ASSUME NEW side \in Sides, NEW price \in Prices
      PROVE  TotalAt(side, price)' =
               TotalAt(side, price) + Share(o, side, price) - Share(object[freeHead], side, price)
  <2>1. Share(object[freeHead], side, price) = 0
    BY <1>2 DEF Share
  <2>2. TotalAt(side, price) \in Int /\ Share(o, side, price) \in Nat
    BY <1>1, ShareIsNat DEF TotalAt, BookTypeOK, Level
  <2>3. QED
    BY <1>1, <1>3, <2>1, <2>2, JoinedTotals
<1>5. QED
  BY <1>1, <1>2, <1>3, <1>4, TotalsMove

LEMMA RemoveTotals ==
  ASSUME BookInv, TotalsAreSums, NEW id \in Ids, orderMap[id] # None, Remove(id),
         levels' = Left(object[orderMap[id]], object[orderMap[id]].quantity)
  PROVE  TotalsAreSums'
<1> DEFINE s == orderMap[id]
           o == object[s]
<1>1. BookTypeOK /\ s \in Slots /\ o \in Order
  BY EntryIs DEF BookInv
<1>2. object' = [object EXCEPT ![s] = None]
  BY DEF Remove
<1>3. TotalAt(o.side, o.price) \in Nat /\ o.quantity \in 0..TotalAt(o.side, o.price)
  BY <1>1, TotalBounds
<1>4. ASSUME NEW side \in Sides, NEW price \in Prices
      PROVE  TotalAt(side, price)' =
               TotalAt(side, price) + Share(None, side, price) - Share(object[s], side, price)
  <2>1. Share(None, side, price) = 0
    BY DEF Share
  <2>2. TotalAt(side, price) \in Int /\ Share(o, side, price) \in Nat
    BY <1>1, ShareIsNat DEF TotalAt, BookTypeOK, Level
  <2>3. TotalAt(side, price)' = TotalAt(side, price) - Share(o, side, price)
    BY <1>1, <1>3, LeftTotals
  <2>4. QED
    BY <2>1, <2>2, <2>3
<1> HIDE DEF s, o
<1>5. QED
  BY <1>1, <1>2, <1>4, TotalsMove

LEMMA PartialFillTotals ==
  ASSUME BookInv, TotalsAreSums, NEW id \in Ids, NEW quantity \in Nat, NEW ts,
         PartialFill(id, quantity, ts)
  PROVE  TotalsAreSums'
<1> DEFINE s    == orderMap[id]
           o    == object[s]
           less == [o EXCEPT !.quantity = @ - quantity]
<1>1. BookTypeOK /\ s \in Slots /\ o \in Order
  BY EntryIs DEF BookInv, PartialFill
<1>2. quantity < o.quantity /\ levels' = Reduced(o, quantity) /\ o.quantity \in Nat
  BY <1>1 DEF PartialFill, Order
<1>3. object' = [object EXCEPT ![s] = less]
  BY DEF PartialFill
<1>4. less \in Order \cup {None}
  BY <1>1, <1>2 DEF Order
<1>5. TotalAt(o.side, o.price) \in Nat /\ o.quantity \in 0..TotalAt(o.side, o.price)
  BY <1>1, TotalBounds
<1>6. ASSUME NEW side \in Sides, NEW price \in Prices
      PROVE  TotalAt(side, price)' =
               TotalAt(side, price) + Share(less, side, price) - Share(object[s], side, price)
  BY <1>1, <1>2, <1>5, ReducedTotals
<1> HIDE DEF s, o, less
<1>7. QED
  BY <1>1, <1>3, <1>4, <1>6, TotalsMove

-----------------------------------------------------------------------------
(* Lists.                                                                  *)

(* Where no order rests, no level is left.                                 *)
NoEmptyLevels ==
  \A side \in Sides, price \in Prices : levels[side][price] # None => At(side, price) # {}

(* A level lists ids of orders that rest there, and all those an entry     *)
(* leads to but those with nothing left: these may outlast their level.    *)
Listed(side, price) ==
  levels[side][price] # None =>
    /\ levels[side][price].ids \subseteq {object[s].id : s \in At(side, price)}
    /\ \A s \in At(side, price) \ Stranded :
         object[s].quantity > 0 => object[s].id \in levels[side][price].ids

ListsAreTrue == \A side \in Sides, price \in Prices : Listed(side, price)

LevelInv == TotalsAreSums /\ NoEmptyLevels /\ ListsAreTrue

(* A total that is not zero is the total of something.                     *)
LEMMA TotalOfSomething ==
  ASSUME TotalsAreSums, NEW side \in Sides, NEW price \in Prices,
         TotalAt(side, price) # 0
  PROVE  At(side, price) # {}
BY SumEmpty DEF TotalsAreSums

LEMMA LevelSet ==
  ASSUME BookTypeOK, NEW o \in Order, NEW level,
         levels' = SetLevel(o, level), NEW side \in Sides, NEW price \in Prices
  PROVE  levels'[side][price] =
           IF o.side = side /\ o.price = price THEN level ELSE levels[side][price]
BY DEF BookTypeOK, SetLevel, Order

(* Of the orders of an id all but one are stranded.                        *)
LEMMA OneOrderPerId ==
  ASSUME BookInv, NEW s \in Slots \ Stranded, NEW r \in Slots \ Stranded,
         object[s] # None, object[r] # None, object[s].id = object[r].id
  PROVE  s = r
BY DEF BookInv, EntriesAreLive, Stranded

LEMMA AddLists ==
  ASSUME BookInv, LevelInv, NEW o \in Order, NEW ts, AddOrder(o, ts)
  PROVE  NoEmptyLevels' /\ ListsAreTrue'
<1> DEFINE s == freeHead
           old == LevelAt(o)
           level == IF old = None THEN EmptyLevel ELSE old
           joined == [total |-> level.total + o.quantity, ids |-> level.ids \cup {o.id}]
<1>1. BookTypeOK /\ EntriesAreLive /\ o # None /\ o.id \in Ids /\ o.side \in Sides /\ o.price \in Prices
  BY NoneAssumption DEF BookInv, Order
<1>2. s \in Slots /\ s \notin Live /\ object[s] = None /\ Live' = Live \cup {s}
  BY AllocCounts DEF BookInv, EntriesAreLive, AddOrder
<1>3. /\ object' = [object EXCEPT ![s] = o]
      /\ orderMap' = [orderMap EXCEPT ![o.id] = s]
      /\ levels' = SetLevel(o, joined)
  BY DEF AddOrder, Joined
<1>4. /\ object' \in [Slots -> Order \cup {None}] /\ object'[s] = o
      /\ \A r \in Slots \ {s} : object'[r] = object[r]
  BY <1>1, <1>2, <1>3 DEF BookTypeOK
<1>5. level.ids = IF old = None THEN {} ELSE old.ids
  BY DEF EmptyLevel
<1>6. joined.ids = level.ids \cup {o.id}
  OBVIOUS
<1> HIDE DEF s, old, level, joined
<1>7. ASSUME NEW side \in Sides, NEW price \in Prices
      PROVE  /\ At(side, price)' = IF o.side = side /\ o.price = price
                                   THEN At(side, price) \cup {s} ELSE At(side, price)
             /\ s \notin At(side, price)
             /\ levels'[side][price] = IF o.side = side /\ o.price = price
                                       THEN joined ELSE levels[side][price]
  <2>1. At(side, price)' = IF o.side = side /\ o.price = price
                           THEN At(side, price) \cup {s} ELSE At(side, price)
    BY <1>1, <1>2, <1>4 DEF At
  <2>2. s \notin At(side, price)
    BY <1>2 DEF At
  <2>3. QED
    BY <1>1, <1>3, <2>1, <2>2, LevelSet
<1>8. NoEmptyLevels'
  <2>1. ASSUME NEW side \in Sides, NEW price \in Prices, levels'[side][price] # None
        PROVE  At(side, price)' # {}
    BY <1>7, <2>1 DEF LevelInv, NoEmptyLevels
  <2>2. QED
    BY <2>1 DEF NoEmptyLevels
<1>9. ASSUME NEW r \in Stranded
      PROVE  r \in Stranded'
  <2>1. /\ r \in Live /\ r \in Slots /\ object[r] # None /\ object[r] \in Order
        /\ orderMap[object[r].id] # r /\ object[r].id \in Ids
    BY <1>1 DEF Stranded, Live, BookTypeOK, EntriesAreLive, Order
  <2>2. r # s /\ object'[r] = object[r] /\ r \in Live'
    BY <1>2, <1>4, <2>1
  <2>3. orderMap'[object'[r].id] # r
    BY <1>1, <1>3, <2>1, <2>2 DEF BookTypeOK
  <2>4. QED
    BY <2>2, <2>3 DEF Stranded
<1>10. ASSUME NEW side \in Sides, NEW price \in Prices
       PROVE  Listed(side, price)'
  <2>1. Listed(side, price)
    BY DEF LevelInv, ListsAreTrue
  <2>2. {object'[r].id : r \in At(side, price)} = {object[r].id : r \in At(side, price)}
    BY <1>4, <1>7 DEF At
  <2>3. CASE o.side = side /\ o.price = price
    <3>1. At(side, price)' = At(side, price) \cup {s} /\ levels'[side][price] = joined
      BY <1>7, <2>3
    <3>2. old = levels[side][price]
      BY <2>3 DEF old, LevelAt
    <3>3. level.ids \subseteq {object[r].id : r \in At(side, price)}
      BY <1>5, <2>1, <3>2 DEF Listed
    <3>4. {object'[r].id : r \in At(side, price)'} = {object[r].id : r \in At(side, price)} \cup {o.id}
      BY <1>4, <2>2, <3>1
    <3>5. ASSUME NEW r \in At(side, price) \ Stranded, object[r].quantity > 0
          PROVE  object[r].id \in level.ids
      <4>1. CASE old = None
        <5>1. TotalAt(side, price) = 0
          BY <3>2, <4>1 DEF TotalAt
        <5>2. r \in Slots /\ object[r] \in Order /\ object[r].side = side /\ object[r].price = price
          BY <1>1 DEF At, BookTypeOK
        <5>3. object[r].quantity \in 0..TotalAt(side, price)
          BY <1>1, <5>2, TotalBounds DEF LevelInv
        <5>4. QED
          BY <3>5, <5>1, <5>3
      <4>2. CASE old # None
        BY <1>5, <2>1, <3>2, <3>5, <4>2 DEF Listed
      <4>3. QED
        BY <4>1, <4>2
    <3>6. ASSUME NEW r \in At(side, price)' \ Stranded', object'[r].quantity > 0
          PROVE  object'[r].id \in joined.ids
      <4>1. CASE r = s
        BY <1>4, <1>6, <4>1
      <4>2. CASE r # s
        <5>1. r \in At(side, price) \ Stranded /\ r \in Slots
          BY <1>9, <3>1, <4>2 DEF At
        <5>2. object'[r] = object[r]
          BY <1>4, <4>2, <5>1
        <5>3. QED
          BY <1>6, <3>5, <3>6, <5>1, <5>2
      <4>3. QED
        BY <4>1, <4>2
    <3>7. joined.ids \subseteq {object'[r].id : r \in At(side, price)'}
      BY <1>6, <3>3, <3>4
    <3>8. QED
      BY <3>1, <3>6, <3>7 DEF Listed
  <2>4. CASE ~(o.side = side /\ o.price = price)
    <3>1. At(side, price)' = At(side, price) /\ levels'[side][price] = levels[side][price]
      BY <1>7, <2>4
    <3>2. \A r \in At(side, price) : object'[r] = object[r]
      BY <1>4, <1>7 DEF At
    <3>3. QED
      BY <1>9, <2>1, <2>2, <3>1, <3>2 DEF Listed
  <2>5. QED
    BY <2>3, <2>4
<1>11. QED
  BY <1>8, <1>10 DEF ListsAreTrue

(* The order that leaves takes its id with it; only stranded orders have   *)
(* the same.                                                               *)
LEMMA RemoveLists ==
  ASSUME BookInv, LevelInv, TotalsAreSums', NEW id \in Ids, orderMap[id] # None, Remove(id),
         levels' = Left(object[orderMap[id]], object[orderMap[id]].quantity)
  PROVE  NoEmptyLevels' /\ ListsAreTrue'
<1> DEFINE s == orderMap[id]
           o == object[s]
           total == LevelAt(o).total - o.quantity
           left  == [total |-> total, ids |-> LevelAt(o).ids \ {o.id}]
           now   == IF LevelAt(o) = None \/ total <= 0 THEN None ELSE left
<1>1. BookTypeOK /\ EntriesAreLive /\ TotalsAreSums
  BY DEF BookInv, LevelInv
<1>2. s \in Slots /\ s \in Live /\ o \in Order /\ o # None /\ o.id = id
  BY EntryIs, NoneAssumption
<1>3. /\ object' = [object EXCEPT ![s] = None]
      /\ orderMap' = [orderMap EXCEPT ![id] = None]
  BY DEF Remove
<1>4. /\ object'[s] = None
      /\ \A r \in Slots \ {s} : object'[r] = object[r]
  BY <1>1, <1>2, <1>3 DEF BookTypeOK
<1>5. Live' = Live \ {s}
  BY <1>2, FreeKeeps DEF BookInv, Remove
<1>6. o.side \in Sides /\ o.price \in Prices
  BY <1>2 DEF Order
<1>7. levels' = SetLevel(o, now)
  <2>1. CASE LevelAt(o) = None
    <3>1. SetLevel(o, None) = levels
      BY <1>1, <1>6, <2>1 DEF SetLevel, LevelAt, BookTypeOK
    <3>2. QED
      BY <2>1, <3>1 DEF Left
  <2>2. CASE LevelAt(o) # None
    BY <2>2 DEF Left
  <2>3. QED
    BY <2>1, <2>2
<1>8. now = None \/ (LevelAt(o) # None /\ now.ids = LevelAt(o).ids \ {id})
  BY <1>2
<1> HIDE DEF s, o, total, left, now
<1>9. ASSUME NEW side \in Sides, NEW price \in Prices
      PROVE  /\ At(side, price)' = At(side, price) \ {s}
             /\ levels'[side][price] = IF o.side = side /\ o.price = price
                                       THEN now ELSE levels[side][price]
             /\ s \in At(side, price) <=> o.side = side /\ o.price = price
  <2>1. At(side, price)' = At(side, price) \ {s}
    BY <1>4 DEF At
  <2>2. s \in At(side, price) <=> o.side = side /\ o.price = price
    BY <1>2 DEF At, o
  <2>3. QED
    BY <1>1, <1>2, <1>7, <2>1, <2>2, LevelSet
<1>10. s \notin Stranded /\ \A r \in Stranded : r \in Stranded'
  <2>1. s \notin Stranded
    BY <1>2 DEF Stranded, s, o
  <2>2. ASSUME NEW r \in Stranded
        PROVE  r \in Stranded'
    <3>1. /\ r \in Live /\ r \in Slots /\ object[r] # None /\ object[r] \in Order
          /\ orderMap[object[r].id] # r /\ object[r].id \in Ids
      BY <1>1 DEF Stranded, Live, BookTypeOK, EntriesAreLive, Order
    <3>2. object'[r] = object[r] /\ r \in Live'
      BY <1>4, <1>5, <2>1, <3>1
    <3>3. orderMap'[object'[r].id] # r
      BY <1>1, <1>3, <3>1, <3>2, BookAssumption DEF BookTypeOK
    <3>4. QED
      BY <3>2, <3>3 DEF Stranded
  <2>3. QED
    BY <2>1, <2>2
<1>11. NoEmptyLevels'
  <2>1. ASSUME NEW side \in Sides, NEW price \in Prices, levels'[side][price] # None
        PROVE  At(side, price)' # {}
    <3>1. CASE o.side = side /\ o.price = price
      <4>1. now # None /\ levels'[side][price] = now
        BY <1>9, <2>1, <3>1
      <4>2. LevelAt(o) \in Level /\ now.total = total /\ total \in Int /\ total > 0
        BY <1>1, <1>2, <1>6, <4>1 DEF now, left, total, LevelAt, BookTypeOK, Level, Order
      <4>3. TotalAt(side, price)' # 0
        BY <2>1, <4>1, <4>2 DEF TotalAt
      <4>4. (TotalsAreSums /\ TotalAt(side, price) # 0 => At(side, price) # {})'
        BY SumEmpty DEF TotalsAreSums
      <4>5. QED
        BY <4>3, <4>4
    <3>2. CASE ~(o.side = side /\ o.price = price)
      BY <1>9, <2>1, <3>2 DEF LevelInv, NoEmptyLevels
    <3>3. QED
      BY <3>1, <3>2
  <2>2. QED
    BY <2>1 DEF NoEmptyLevels
<1>12. ASSUME NEW side \in Sides, NEW price \in Prices
       PROVE  Listed(side, price)'
  <2>1. Listed(side, price)
    BY DEF LevelInv, ListsAreTrue
  <2>2. \A r \in At(side, price)' : /\ r \in At(side, price) /\ r \in Slots /\ r # s
                                    /\ object'[r] = object[r] /\ object[r] # None
    BY <1>4, <1>9 DEF At
  <2>3. {object'[r].id : r \in At(side, price)'} = {object[r].id : r \in At(side, price) \ {s}}
    BY <1>9, <2>2
  <2>4. CASE o.side = side /\ o.price = price
    <3>1. LevelAt(o) = levels[side][price] /\ levels'[side][price] = now
      BY <1>9, <2>4 DEF LevelAt
    <3>2. ASSUME NEW r \in At(side, price)', r \notin Stranded'
          PROVE  r \in At(side, price) \ Stranded /\ object[r].id # id
      BY <1>2, <1>10, <2>2, <3>2, OneOrderPerId DEF o
    <3>3. ASSUME now # None
          PROVE  /\ now.ids \subseteq {object[r].id : r \in At(side, price) \ {s}}
                 /\ \A r \in At(side, price)' \ Stranded' :
                      object'[r].quantity > 0 => object'[r].id \in now.ids
      <4>1. /\ LevelAt(o) # None /\ now.ids = LevelAt(o).ids \ {id}
            /\ LevelAt(o).ids \subseteq {object[r].id : r \in At(side, price)}
            /\ \A r \in At(side, price) \ Stranded :
                 object[r].quantity > 0 => object[r].id \in LevelAt(o).ids
        BY <1>8, <2>1, <3>1, <3>3 DEF Listed
      <4>2. now.ids \subseteq {object[r].id : r \in At(side, price) \ {s}}
        BY <4>1, <1>2 DEF o
      <4>3. QED
        BY <2>2, <3>2, <4>1, <4>2
    <3>4. QED
      BY <2>3, <3>1, <3>3 DEF Listed
  <2>5. CASE ~(o.side = side /\ o.price = price)
    <3>1. /\ At(side, price)' = At(side, price) /\ levels'[side][price] = levels[side][price]
          /\ At(side, price) \ {s} = At(side, price)
      BY <1>9, <2>5
    <3>2. {object'[r].id : r \in At(side, price)'} = {object[r].id : r \in At(side, price)}
      BY <2>3, <3>1
    <3>3. QED
      BY <1>10, <2>1, <2>2, <3>1, <3>2 DEF Listed
  <2>6. QED
    BY <2>4, <2>5
<1>13. QED
  BY <1>11, <1>12 DEF ListsAreTrue

LEMMA PartialFillLists ==
  ASSUME BookInv, LevelInv, NEW id \in Ids, NEW quantity \in Nat, NEW ts,
         PartialFill(id, quantity, ts)
  PROVE  NoEmptyLevels' /\ ListsAreTrue'
<1> DEFINE s == orderMap[id]
           o == object[s]
           less == [o EXCEPT !.quantity = @ - quantity]
           level == [LevelAt(o) EXCEPT !.total = @ - quantity]
           now == IF LevelAt(o) = None THEN None ELSE level
<1>1. BookTypeOK /\ EntriesAreLive /\ UNCHANGED orderMap
  BY DEF BookInv, PartialFill
<1>2. s \in Slots /\ s \in Live /\ o \in Order /\ o # None /\ o.id = id
  BY EntryIs, NoneAssumption DEF PartialFill
<1>3. quantity < o.quantity /\ o.quantity \in Nat
  BY <1>2 DEF PartialFill, Order
<1>4. /\ less \in Order /\ less # None /\ less.id = o.id
      /\ less.side = o.side /\ less.price = o.price
  BY <1>2, <1>3, NoneAssumption DEF Order
<1>5. object' = [object EXCEPT ![s] = less]
  BY DEF PartialFill
<1>6. Live' = Live
  BY PoolFrame DEF BookInv, PartialFill
<1>7. o.side \in Sides /\ o.price \in Prices
  BY <1>2 DEF Order
<1>8. levels' = SetLevel(o, now)
  <2>1. CASE LevelAt(o) = None
    <3>1. SetLevel(o, None) = levels
      BY <1>1, <1>7, <2>1 DEF SetLevel, LevelAt, BookTypeOK
    <3>2. QED
      BY <2>1, <3>1 DEF Reduced, PartialFill
  <2>2. CASE LevelAt(o) # None
    BY <2>2 DEF Reduced, PartialFill
  <2>3. QED
    BY <2>1, <2>2
<1>9. IF LevelAt(o) = None THEN now = None ELSE now # None /\ now.ids = LevelAt(o).ids
  BY <1>1, <1>7, LevelAssumption DEF LevelAt, BookTypeOK, Level
<1> HIDE DEF s, o, less, level, now
<1>10. \A r \in Slots : /\ object'[r] # None <=> object[r] # None
                        /\ object[r] # None => /\ object'[r].id = object[r].id
                                               /\ object'[r].side = object[r].side
                                               /\ object'[r].price = object[r].price
                                               /\ r # s => object'[r] = object[r]
  BY <1>1, <1>2, <1>4, <1>5 DEF BookTypeOK, o
<1>11. ASSUME NEW side \in Sides, NEW price \in Prices
       PROVE  /\ At(side, price)' = At(side, price)
              /\ {object'[r].id : r \in At(side, price)} = {object[r].id : r \in At(side, price)}
              /\ IF levels[side][price] = None THEN levels'[side][price] = None
                 ELSE /\ levels'[side][price] # None
                      /\ levels'[side][price].ids = levels[side][price].ids
  <2>1. At(side, price)' = At(side, price)
    BY <1>10 DEF At
  <2>2. {object'[r].id : r \in At(side, price)} = {object[r].id : r \in At(side, price)}
    BY <1>10 DEF At
  <2>3. levels'[side][price] = IF o.side = side /\ o.price = price
                               THEN now ELSE levels[side][price]
    BY <1>1, <1>2, <1>8, LevelSet
  <2>4. QED
    BY <1>9, <2>1, <2>2, <2>3 DEF LevelAt
<1>12. Stranded' = Stranded
  BY <1>1, <1>6, <1>10 DEF Stranded, EntriesAreLive, Live
<1>13. NoEmptyLevels'
  BY <1>11 DEF NoEmptyLevels, LevelInv
<1>14. ASSUME NEW side \in Sides, NEW price \in Prices
       PROVE  Listed(side, price)'
  <2>1. Listed(side, price)
    BY DEF LevelInv, ListsAreTrue
  <2>2. ASSUME NEW r \in At(side, price)
        PROVE  r \in Slots /\ object'[r].id = object[r].id
               /\ (object'[r].quantity > 0 => object[r].quantity > 0)
    <3>1. CASE r = s
      BY <1>2, <1>3, <1>10, <3>1 DEF At, o
    <3>2. CASE r # s
      BY <1>10, <3>2 DEF At
    <3>3. QED
      BY <3>1, <3>2
  <2>3. QED
    BY <1>11, <1>12, <2>1, <2>2 DEF Listed
<1>15. QED
  BY <1>13, <1>14 DEF ListsAreTrue

-----------------------------------------------------------------------------

LEMMA LevelInit == Init => LevelInv
<1> SUFFICES ASSUME Init
             PROVE  LevelInv
  OBVIOUS
<1>1. \A side \in Sides, price \in Prices : levels[side][price] = None /\ At(side, price) = {}
  BY DEF Init, At
<1>2. TotalsAreSums
  BY <1>1, SumEmpty DEF TotalsAreSums, TotalAt
<1>3. QED
  BY <1>1, <1>2 DEF LevelInv, NoEmptyLevels, ListsAreTrue, Listed

LEMMA LevelFrame ==
  ASSUME LevelInv, UNCHANGED vars
  PROVE  LevelInv'
<1> USE DEF vars, bookVars, poolVars
<1>1. Stranded' = Stranded
  BY DEF Stranded, Live
<1>2. \A side, price : /\ At(side, price)' = At(side, price)
                       /\ TotalAt(side, price)' = TotalAt(side, price)
                       /\ Listed(side, price)' = Listed(side, price)
  BY <1>1 DEF At, TotalAt, Listed
<1>3. QED
  BY <1>1, <1>2 DEF LevelInv, TotalsAreSums, NoEmptyLevels, ListsAreTrue

LEMMA LevelStep ==
  ASSUME BookInv, LevelInv, [Next]_vars
  PROVE  LevelInv'
<1>1. ASSUME NEW ts \in Times,
             NEW o \in [id : Ids, side : Sides, price : Prices, quantity : Quantities],
             AddOrder(o, ts)
      PROVE  LevelInv'
  <2>1. o \in Order
    BY BookAssumption DEF Order
  <2>2. QED
    BY <1>1, <2>1, AddTotals, AddLists DEF LevelInv
<1>2. ASSUME NEW id \in Ids, orderMap[id] # None, Remove(id),
             levels' = Left(object[orderMap[id]], object[orderMap[id]].quantity)
      PROVE  LevelInv'
  BY <1>2, RemoveTotals, RemoveLists DEF LevelInv
<1>3. ASSUME NEW id \in Ids, NEW ts \in Times, NEW quantity \in Quantities,
             PartialFill(id, quantity, ts)
      PROVE  LevelInv'
  BY <1>3, PartialFillTotals, PartialFillLists, BookAssumption DEF LevelInv
<1>4. ASSUME NEW id \in Ids, NEW ts \in Times, CancelOrder(id, ts)
      PROVE  LevelInv'
  BY <1>2, <1>4 DEF CancelOrder
<1>5. ASSUME NEW id \in Ids, NEW ts \in Times, NEW quantity \in Quantities,
             FullFill(id, quantity, ts)
      PROVE  LevelInv'
  BY <1>2, <1>5 DEF FullFill
<1>6. CASE UNCHANGED vars
  BY <1>6, LevelFrame
<1>7. QED
  BY <1>1, <1>3, <1>4, <1>5, <1>6 DEF Next, ExecuteOrder

LEMMA LevelInvariant == Spec => []LevelInv
BY LevelInit, LevelStep, BookInvariant, PTL DEF Spec

-----------------------------------------------------------------------------

(* Indices, entries and levels have their types in every reachable state.  *)
THEOREM TypeCorrect == Spec => []TypeOK
<1>1. BookInv => TypeOK
  BY DEF BookInv, BookTypeOK, SnapshotTypeOK, PoolInv, TypeOK
<1>2. QED
  BY <1>1, BookInvariant, PTL

(* Every entry of order_map_ leads to a slot in use, with its own order.   *)
THEOREM EntriesStayLive == Spec => []EntriesAreLive
<1>1. BookInv => EntriesAreLive
  BY DEF BookInv
<1>2. QED
  BY <1>1, BookInvariant, PTL

(* The free list of the book's pool stays intact.                          *)
THEOREM FreeListStaysIntact == Spec => []FreeListIntact
<1>1. BookInv => FreeListIntact
  BY DEF BookInv, PoolInv
<1>2. QED
  BY <1>1, BookInvariant, PTL

(* The book turns an order away for want of a slot only when every slot    *)
(* has been handed out and not given back.                                 *)
THEOREM BookRefusesWhenFull == Spec => []RefusesWhenFull
<1>1. BookInv => RefusesWhenFull
  BY ListEnds DEF BookInv
<1>2. QED
  BY <1>1, BookInvariant, PTL

(* After any sequence of operations the total of a level is the sum of the *)
(* orders that rest at its price, reused ids and zero quantities included. *)
THEOREM TotalsStaySums == Spec => []TotalsAreSums
<1>1. LevelInv => TotalsAreSums
  BY DEF LevelInv
<1>2. QED
  BY <1>1, LevelInvariant, PTL

(* In every state a quoted price is one where orders rest, its list has    *)
(* ids of those, and an order that can be reached and wants something is   *)
(* on the list of its price.                                               *)
THEOREM LevelsStayListed == Spec => []LevelsListOrders
<1>1. ASSUME BookInv, LevelInv
      PROVE  LevelsListOrders
  <2> SUFFICES ASSUME NEW side \in Sides, NEW price \in Prices
               PROVE  /\ levels[side][price] # None =>
                           /\ At(side, price) # {}
                           /\ levels[side][price].ids \subseteq
                                {object[s].id : s \in At(side, price)}
                      /\ \A s \in At(side, price) \ Stranded : object[s].quantity > 0 =>
                           /\ levels[side][price] # None
                           /\ object[s].id \in levels[side][price].ids
    BY DEF LevelsListOrders
  <2>1. Listed(side, price) /\ (levels[side][price] # None => At(side, price) # {})
    BY <1>1 DEF LevelInv, NoEmptyLevels, ListsAreTrue
  <2>2. ASSUME NEW s \in At(side, price), object[s].quantity > 0
        PROVE  levels[side][price] # None
    <3>1. /\ s \in Slots /\ object[s] \in Order
          /\ object[s].side = side /\ object[s].price = price
      BY <1>1 DEF At, BookInv, BookTypeOK
    <3>2. object[s].quantity \in 0..TotalAt(side, price)
      BY <1>1, <3>1, TotalBounds DEF BookInv, LevelInv
    <3>3. QED
      BY <2>2, <3>2 DEF TotalAt
  <2>3. QED
    BY <2>1, <2>2 DEF Listed
<1>2. QED
  BY <1>1, BookInvariant, LevelInvariant, PTL

(* The book is an owner the pool can trust: no step frees a slot that is   *)
(* not in use, whatever ids its callers use.                               *)
THEOREM NoDoubleFree == Spec => PoolSpec
<1>1. Init => PoolInit
  BY DEF Init
<1>2. ASSUME BookInv, [Next]_vars
      PROVE  [PoolNext]_poolVars
  <2>1. ASSUME NEW o, NEW ts, AddOrder(o, ts)
        PROVE  PoolNext
    BY <2>1 DEF AddOrder, PoolNext
  <2>2. ASSUME NEW id \in Ids, orderMap[id] # None, Remove(id)
        PROVE  PoolNext
    BY <1>2, <2>2, EntryIs DEF Remove, PoolNext
  <2>3. ASSUME NEW ts, NEW id \in Ids, NEW quantity, ExecuteOrder(id, quantity, ts)
        PROVE  [PoolNext]_poolVars
    BY <2>2, <2>3 DEF ExecuteOrder, FullFill, PartialFill
  <2>4. QED
    BY <1>2, <2>1, <2>2, <2>3 DEF Next, CancelOrder, vars
<1>3. QED
  BY <1>1, <1>2, BookInvariant, PTL DEF Spec, PoolSpec

-----------------------------------------------------------------------------
(* The engine as the caller.                                               *)

TickTypeOK ==
  /\ counter \in 1..(MaxTicks + 1)
  /\ bidDone \in BOOLEAN
  /\ tick \in Quote \cup {None}
  /\ bidDone => tick \in Quote

NewOrders == [id : Ids, side : Sides, price : Prices, quantity : Quantities]

LEMMA TickIsOffer ==
  ASSUME EnoughIds, TickTypeOK, [TickNext]_tickVars
  PROVE  /\ TickTypeOK'
         /\ UNCHANGED vars \/ \E o \in NewOrders, ts \in Times : Offer(o, ts)
<1> USE DEF EnoughIds, TickTypeOK
<1>1. counter \in Ids
  OBVIOUS
<1>2. CASE AddBid
  <2> DEFINE o == [id |-> counter, side |-> "bid", price |-> tick'.bid, quantity |-> tick'.bidQty]
  <2>1. tick' \in Quote /\ tick'.ts \in Times /\ tick'.bid \in Prices /\ tick'.bidQty \in Quantities
    BY <1>2 DEF AddBid, Quote
  <2>2. o \in NewOrders
    BY <1>1, <2>1 DEF Sides, NewOrders
  <2>3. Offer(o, tick'.ts)
    BY <1>2 DEF AddBid
  <2> HIDE DEF o
  <2>4. counter' \in 1..(MaxTicks + 1) /\ bidDone' = TRUE
    BY <1>2 DEF AddBid, TakeTick
  <2>6. QED
    BY <2>1, <2>2, <2>3, <2>4
<1>3. CASE AddAsk
  <2> DEFINE o == [id |-> counter, side |-> "ask", price |-> tick.ask, quantity |-> tick.askQty]
  <2>1. tick \in Quote /\ tick.ts \in Times /\ tick.ask \in Prices /\ tick.askQty \in Quantities
    BY <1>3 DEF AddAsk, Quote
  <2>2. o \in NewOrders
    BY <1>1, <2>1 DEF Sides, NewOrders
  <2>3. Offer(o, tick.ts) /\ bidDone' = FALSE /\ UNCHANGED <<counter, tick>>
    BY <1>3 DEF AddAsk
  <2> HIDE DEF o
  <2>5. QED
    BY <2>1, <2>2, <2>3
<1>4. CASE OtherVenue
  BY <1>4 DEF OtherVenue, TakeTick
<1>5. CASE NoTick \/ UNCHANGED tickVars
  BY <1>5 DEF NoTick, tickVars
<1>6. QED
  BY <1>2, <1>3, <1>4, <1>5 DEF TickNext

LEMMA TickIsStep ==
  ASSUME EnoughIds, TickTypeOK, [TickNext]_tickVars
  PROVE  TickTypeOK' /\ [Next]_vars
<1>1. ASSUME NEW o \in NewOrders, NEW ts \in Times, Offer(o, ts)
      PROVE  [Next]_vars
  BY <1>1 DEF Offer, Next, NewOrders
<1>2. QED
  BY <1>1, TickIsOffer

LEMMA TickInvariant ==
  ASSUME EnoughIds
  PROVE  TickSpec => []TickTypeOK
<1>1. ASSUME TickInit
      PROVE  TickTypeOK
  <2>1. counter \in 1..(MaxTicks + 1) /\ tick \in Quote \cup {None}
    BY <1>1 DEF EnoughIds, TickInit
  <2>2. bidDone = FALSE
    BY <1>1 DEF TickInit
  <2>3. QED
    BY <2>1, <2>2, Zenon DEF TickTypeOK
<1>2. TickTypeOK /\ [TickNext]_tickVars => TickTypeOK'
  BY TickIsStep
<1>3. QED
  BY <1>1, <1>2, PTL DEF TickSpec

(* The engine's ticks are one of the callers that the theorems on the book *)
(* are about: every one of them holds while processTick feeds the book.    *)
THEOREM TicksAreCallers ==
  ASSUME EnoughIds
  PROVE  TickSpec => Spec
<1>1. TickInit => Init
  BY DEF TickInit
<1>2. TickTypeOK /\ [TickNext]_tickVars => [Next]_vars
  BY TickIsStep
<1>3. QED
  BY <1>1, <1>2, TickInvariant, PTL DEF TickSpec, Spec

(* A finite set of prices has a highest and a lowest one, which Max and    *)
(* Min give.                                                               *)
LEMMA ExtremesExist ==
  ASSUME NEW S \in SUBSET Nat, IsFiniteSet(S), S # {}
  PROVE  /\ Max(S) \in S /\ \A p \in S : Max(S) >= p
         /\ Min(S) \in S /\ \A p \in S : Min(S) <= p
<1> DEFINE Bounded(T) == /\ \E high \in T : \A p \in T : high >= p
                         /\ \E low \in T : \A p \in T : low <= p
           Good == {T \in SUBSET S : T # {} => Bounded(T)}
<1>1. ASSUME NEW T \in SUBSET S, \A U \in SUBSET T : U # T => U \in Good
      PROVE  T \in Good
  <2>1. CASE \E x \in T : T = {x}
    BY <2>1
  <2>2. CASE T # {} /\ ~\E x \in T : T = {x}
    <3>1. PICK x \in T : TRUE
      BY <2>2
    <3>2. T \ {x} # {} /\ T \ {x} \in Good
      <4>1. T \ {x} \in SUBSET T /\ T \ {x} # T
        BY <3>1
      <4>2. T \ {x} # {}
        BY <2>2, <3>1
      <4>3. QED
        BY <1>1, <4>1, <4>2
    <3>3. PICK high \in T \ {x} : \A p \in T \ {x} : high >= p
      BY <3>2
    <3>4. PICK low \in T \ {x} : \A p \in T \ {x} : low <= p
      BY <3>2
    <3>5. x \in Nat /\ high \in Nat /\ low \in Nat /\ T \subseteq Nat
      BY <3>1, <3>3, <3>4
    <3>6. \E h \in T : \A p \in T : h >= p
      <4>1. CASE x >= high
        BY <3>3, <3>5, <4>1
      <4>2. CASE high >= x
        BY <3>3, <3>5, <4>2
      <4>3. QED
        BY <3>5, <4>1, <4>2
    <3>7. \E l \in T : \A p \in T : l <= p
      <4>1. CASE x <= low
        BY <3>4, <3>5, <4>1
      <4>2. CASE low <= x
        BY <3>4, <3>5, <4>2
      <4>3. QED
        BY <3>5, <4>1, <4>2
    <3>8. QED
      BY <3>6, <3>7
  <2>3. QED
    BY <2>1, <2>2
<1> HIDE DEF Good
<1>2. SUBSET S \subseteq Good
  BY <1>1, SubsetInduction
<1>3. Bounded(S)
  BY <1>2 DEF Good
<1>4. QED
  BY <1>3 DEF Max, Min

(* There are no more prices quoted than orders in the book.                *)
LEMMA QuotedIsFinite ==
  ASSUME BookInv, NoEmptyLevels, NEW side \in Sides
  PROVE  IsFiniteSet(Quoted(side)) /\ Quoted(side) \in SUBSET (Prices \cap Nat)
<1> DEFINE PricedIn == {object[s].price : s \in Live}
           price == [s \in Live |-> object[s].price]
<1>1. IsFiniteSet(Live)
  BY DEF BookInv, PoolInv, CountInv
<1>2. price \in Surjection(Live, PricedIn)
  BY DEF Surjection
<1>3. IsFiniteSet(PricedIn)
  <2> HIDE DEF PricedIn, price
  <2>1. QED
    BY <1>1, <1>2, FS_Surjection
<1>4. Quoted(side) \subseteq PricedIn
  <2>1. ASSUME NEW p \in Quoted(side)
        PROVE  p \in PricedIn
    <3>1. PICK s \in At(side, p) : TRUE
      BY <2>1 DEF NoEmptyLevels, Quoted
    <3>2. s \in Live /\ object[s].price = p
      BY <3>1 DEF At, BookInv, EntriesAreLive
    <3>3. QED
      BY <3>2
  <2>2. QED
    BY <2>1
<1>5. Quoted(side) \in SUBSET (Prices \cap Nat)
  BY BookAssumption DEF Quoted
<1>6. QED
  BY <1>3, <1>4, <1>5, FS_Subset

(* The same of the next state.                                             *)
LEMMA QuotedStaysFinite ==
  (BookInv /\ NoEmptyLevels =>
     \A side \in Sides :
       IsFiniteSet(Quoted(side)) /\ Quoted(side) \in SUBSET (Prices \cap Nat))'
<1>1. BookInv /\ NoEmptyLevels =>
        \A side \in Sides :
          IsFiniteSet(Quoted(side)) /\ Quoted(side) \in SUBSET (Prices \cap Nat)
  BY QuotedIsFinite
<1>2. QED
  BY <1>1, PTL

(* An add quotes one more price, or none.                                  *)
LEMMA OfferQuotes ==
  ASSUME BookInv, NEW o \in Order, NEW ts, Offer(o, ts), NEW side \in Sides
  PROVE  Quoted(side) \subseteq Quoted(side)'
<1>1. CASE UNCHANGED vars
  BY <1>1 DEF Quoted, vars, bookVars
<1>2. CASE AddOrder(o, ts)
  <2> DEFINE level == IF LevelAt(o) = None THEN EmptyLevel ELSE LevelAt(o)
             joined == [total |-> level.total + o.quantity, ids |-> level.ids \cup {o.id}]
  <2>1. BookTypeOK /\ o.side \in Sides /\ o.price \in Prices /\ o.quantity \in Nat /\ o.id \in Ids
    BY DEF BookInv, Order
  <2>2. level \in Level /\ level.total \in Int /\ level.ids \in SUBSET Ids
    BY <2>1 DEF BookTypeOK, LevelAt, EmptyLevel, Level
  <2>3. joined \in Level /\ joined # None
    BY <2>1, <2>2, LevelAssumption DEF Level
  <2>4. levels' = SetLevel(o, joined)
    BY <1>2 DEF AddOrder, Joined
  <2> HIDE DEF joined, level
  <2>5. \A p \in Prices : levels[side][p] # None => levels'[side][p] # None
    BY <2>1, <2>3, <2>4, LevelSet
  <2>6. QED
    BY <2>5 DEF Quoted
<1>3. QED
  BY <1>1, <1>2 DEF Offer

(* The best prices only ever tighten under the engine's ticks.             *)
THEOREM TopTightens ==
  ASSUME EnoughIds
  PROVE  TickSpec => TopOnlyTightens
<1> DEFINE Tightens == /\ BestBid' >= BestBid
                       /\ BestAsk # 0 => BestAsk' # 0 /\ BestAsk' <= BestAsk
<1>1. ASSUME BookInv, NoEmptyLevels, BookInv', NoEmptyLevels',
             \A side \in Sides : Quoted(side) \subseteq Quoted(side)'
      PROVE  Tightens
  <2>1. \A side \in Sides : IsFiniteSet(Quoted(side)) /\ Quoted(side) \in SUBSET (Prices \cap Nat)
    BY <1>1, QuotedIsFinite
  <2>2. \A side \in Sides : IsFiniteSet(Quoted(side)') /\ Quoted(side)' \in SUBSET (Prices \cap Nat)
    BY <1>1, QuotedStaysFinite
  <2>3. Prices \subseteq Nat \ {0} /\ {"bid", "ask"} = Sides
    BY BookAssumption DEF Sides
  <2>4. BestBid' >= BestBid
    <3>1. CASE Quoted("bid") = {}
      BY <3>1, <2>2, <2>3, ExtremesExist DEF BestBid
    <3>2. CASE Quoted("bid") # {}
      <4>1. Max(Quoted("bid")) \in Quoted("bid") /\ Quoted("bid")' # {}
        BY <3>2, <1>1, <2>1, <2>3, ExtremesExist
      <4>2. \A p \in Quoted("bid")' : Max(Quoted("bid")') >= p
        BY <4>1, <2>2, <2>3, ExtremesExist
      <4>3. QED
        BY <3>2, <4>1, <4>2, <1>1, <2>3 DEF BestBid
    <3>3. QED
      BY <3>1, <3>2
  <2>5. ASSUME BestAsk # 0
        PROVE  BestAsk' # 0 /\ BestAsk' <= BestAsk
    <3>1. Quoted("ask") # {}
      BY <2>5 DEF BestAsk
    <3>2. Min(Quoted("ask")) \in Quoted("ask") /\ Quoted("ask")' # {}
      BY <3>1, <1>1, <2>1, <2>3, ExtremesExist
    <3>3. Min(Quoted("ask")') \in Quoted("ask")' /\ \A p \in Quoted("ask")' : Min(Quoted("ask")') <= p
      BY <3>2, <2>2, <2>3, ExtremesExist
    <3>4. QED
      BY <3>1, <3>2, <3>3, <1>1, <2>2, <2>3 DEF BestAsk
  <2>6. QED
    BY <2>4, <2>5
<1>2. ASSUME BookInv, LevelInv, BookInv', LevelInv', TickTypeOK, [TickNext]_tickVars
      PROVE  [Tightens]_tickVars
  <2>1. \A side \in Sides : Quoted(side) \subseteq Quoted(side)'
    <3>1. CASE UNCHANGED vars
      BY <3>1 DEF Quoted, vars, bookVars
    <3>2. ASSUME NEW o \in NewOrders, NEW ts \in Times, Offer(o, ts)
          PROVE  \A side \in Sides : Quoted(side) \subseteq Quoted(side)'
      <4>1. o \in Order
        BY BookAssumption DEF NewOrders, Order
      <4>2. QED
        BY <1>2, <3>2, <4>1, OfferQuotes
    <3>3. QED
      BY <1>2, <3>1, <3>2, TickIsOffer
  <2>2. QED
    BY <1>1, <1>2, <2>1 DEF LevelInv
<1>3. QED
  BY <1>2, TicksAreCallers, TickInvariant, BookInvariant, LevelInvariant, PTL DEF TickSpec, TopOnlyTightens
=============================================================================
