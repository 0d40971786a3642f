CONSTANTS
  MaxChanges = 4
  MaxExceptions = 3
  None = None
SPECIFICATION FairSpec
INVARIANTS NothingOwedIsShown PanicShownUnlessLocked
PROPERTIES EventuallyShown
CHECK_DEADLOCK FALSE
