CONSTANTS
  Keys = {w}
  Buttons = {left}
  AllButtons = {left, right, middle}
  Moves <- OneStep
  MOTION_LIMIT = 3
  BYTES_NEEDED = 3
  KEYBOARD_EVENT_BUFFER = 2
  EarlyInput = FALSE
  MaxKeyActions = 1
  MaxPackets = 2
  None = None
SPECIFICATION FairSpec
INVARIANT EveryClickCounts
