SPECIFICATION FairSpec
CONSTANTS
  firmA = firmA
  firmB = firmB
  None = none
  Foreign = foreign
  Firms <- OneFirm
  Fds <- TwoFds
  Connects <- NoFirm
  Others = FALSE
  MissLimit = 0
  Skew <- InStep
  Reports <- NoRoom
  MaxConns = 2
  MaxUnread = 1
PROPERTY LoopReturns
