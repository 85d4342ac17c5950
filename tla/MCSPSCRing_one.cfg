SPECIFICATION FairSpec
CONSTANTS
  binance = binance
  bybit = bybit
  Producers <- OneFeed
  Router = router
  Garbage = garbage
  N = 4
  MaxTicks = 7
INVARIANTS TypeOK NoSlotRace
PROPERTIES ImplementsQueue EveryTickArrives RoomReturns
