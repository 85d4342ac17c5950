SPECIFICATION TickSpec
CONSTANTS
  None = none
  Sentinel = sentinel
  Taken = taken
  Size = 4
  Ids <- ThreeIds
  Prices <- TwoPrices
  Quantities <- One
  Times <- One
  Every = 1
  History = 1
  MaxTicks = 2
INVARIANT TopOfBook
