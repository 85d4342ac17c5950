SPECIFICATION Spec
CONSTANTS
  None = none
  Sentinel = sentinel
  Taken = taken
  id1 = id1
  id2 = id2
  Size = 3
  Ids <- TwoIds
  Prices <- TwoPrices
  Quantities <- UpToTwo
  Times <- OneTime
  Every = 1
  History = 1
INVARIANTS TypeOK FreeListIntact EntriesAreLive TotalsAreSums LevelsListOrders
PROPERTY PoolSpec
SYMMETRY Symmetry
