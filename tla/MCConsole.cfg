CONSTANTS
  PADDING = 1
  ADVANCE = 2
  LINE_HEIGHT = 3
  Printable = {"t", " ", "~", ">", "P", "r", "e", "A", "w", "f", "?"}
  Colors = {"RED", "YELLOW", "WHITE", "LIGHT_GRAY"}
  LOG_WIDTH = 12
  LOG_HEIGHT = 8
  MAX_INPUT_LEN = 3
  PROMPT <- SmallPrompt
  PLACEHOLDER_TEXT <- SmallPlaceholder
  Keys <- SmallKeys
  Replies <- SmallReplies
  Unknown <- SmallUnknown
  Notices <- SmallNotices
  Dropped = {"DASH"}
  MaxLogged = 3
  MAX_CACHE_ENTRIES = 3
SPECIFICATION Spec
INVARIANTS LayoutIsWrapped LogShowsWhatWasLogged ViewIsFull ConsoleShowsInput CursorDrawnOnce CacheInStep
PROPERTIES ImplementsEditor
