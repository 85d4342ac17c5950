SPECIFICATION Spec
CONSTANTS
  firmA = firmA
  firmB = firmB
  None = none
  Foreign = foreign
  Firms <- TwoFirms
  Fds <- TwoFds
  Connects <- NoFirm
  Others = FALSE
  MissLimit = 1
  Skew <- InStep
  Reports <- OneReport
  MaxConns = 2
  MaxUnread = 1
PROPERTY RequestGoesToAvailable
