CONSTANTS
  MaxChanges = 4
  MaxExceptions = 3
  None = None
SPECIFICATION FairSpec

INVARIANT PanicShownOverRenderer
CHECK_DEADLOCK FALSE
