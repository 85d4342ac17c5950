SPECIFICATION FairSpec
CONSTANTS
  linkA = linkA
  linkB = linkB
  None = none
  Links <- TwoLinks
  MaxSignals = 3
  MaxRuns = 2
  Limit = 0
  MaxStall = 1
  DelegatedBase = 2
INVARIANTS TypeOK BookedOnce TradeIdsUnique
PROPERTIES EveryRequestResolves PendingDrains ImplementsTradeLog
