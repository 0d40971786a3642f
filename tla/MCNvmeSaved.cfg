CONSTANTS
  a = a
  b = b
  None = None
  QUEUE_SIZE = 4
  CID_LIMIT = 4
  MaxCount = 2
  COUNT_LIMIT = 4
  MaxTimeouts = 2
  CmdErrors = FALSE
  Data <- MCData
  Lbas <- MCLbas
  Requests <- LateRequests
SPECIFICATION FairSpec
PROPERTIES SavedMeansOnDisk
CHECK_DEADLOCK FALSE
