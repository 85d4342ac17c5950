SPECIFICATION FairSpec
CONSTANTS
  Words <- ThreeWords
  Swap <- Reverse
  Orders <- OneOrder
  Reports <- OneReport
  NoCRC = NoCRC
  Room = 1
  MaxReal = 3
  MaxStarts = 2
  MaxFrames = 2
INVARIANTS TypeOK CountersAgree ChaffHasSocket
CHECK_DEADLOCK FALSE
PROPERTIES ImplementsChannel GenuineIsHandled QuitEnds
