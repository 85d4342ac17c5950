SPECIFICATION FairSpec
CONSTANTS
  firmA = firmA
  firmB = firmB
  None = none
  Foreign = foreign
  Firms <- OneFirm
  Fds <- ThreeFds
  Connects <- NoFirm
  Others = TRUE
  MissLimit = 0
  Skew <- InStep
  Reports <- NoRoom
  MaxConns = 2
  MaxUnread = 1
INVARIANT TypeOK
PROPERTIES RegisteredIsOpen AvailableIsReachable EndedIsForgotten
