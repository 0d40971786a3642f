CONSTANTS
  a = a
  b = b
  None = None
  QUEUE_SIZE = 3
  CID_LIMIT = 2
  MaxCount = 2
  COUNT_LIMIT = 4
  MaxTimeouts = 2
  CmdErrors = TRUE
  Data <- MCData
  Lbas <- MCLbas
  Requests <- MCRequests
SPECIFICATION Spec
INVARIANTS TypeOK DmaInBounds PhaseTellsPosted OwesOnePerTimeout AnswersOwnCommand
PROPERTIES IsSectorStore
CHECK_DEADLOCK FALSE
