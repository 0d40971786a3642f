CONSTANTS
  a = a
  b = b
  None = None
  LBA_LIMIT = 4
  MaxCount = 2
  COUNT_LIMIT = 4
  PRDT_LIMIT = 3
  MaxTimeouts = 3
  CmdErrors = TRUE
  Data <- MCData
  Lbas <- MCLbas
  Requests <- MCRequests
SPECIFICATION FairSpec
INVARIANTS DmaInBounds
PROPERTIES IsSectorStore EveryCallReturns
CHECK_DEADLOCK FALSE
