CONSTANTS
  Keys = {w}
  Buttons = {left}
  AllButtons = {left, right, middle}
  Moves <- BothWays
  MOTION_LIMIT = 3
  BYTES_NEEDED = 3
  KEYBOARD_EVENT_BUFFER = 2
  EarlyInput = FALSE
  MaxKeyActions = 5
  MaxPackets = 2
  None = None
SPECIFICATION FairSpec
INVARIANTS PacketsAligned KeyStatesSettle EventsContiguous MotionConserved NoSelfDeadlock
PROPERTIES EverythingServed
