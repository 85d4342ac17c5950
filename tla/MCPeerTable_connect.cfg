SPECIFICATION FairSpec
CONSTANTS
  firmA = firmA
  firmB = firmB
  None = none
  Foreign = foreign
  Firms <- OneFirm
  Fds <- ThreeFds
  Connects <- OneFirm
  Others = TRUE
  MissLimit = 1
  Skew <- OneAhead
  Reports <- OneReport
  MaxConns = 1
  MaxUnread = 1
PROPERTIES OthersKeepTheirs SilentIsUnavailable
