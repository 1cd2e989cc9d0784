SPECIFICATION InputSpec
CONSTANTS
  WINDOW = 1
  Usages = {1, 2, 3, 4, 5}
  Known = {1, 2, 4, 5}
  Mapped = {1, 4, 5}
  Mods = {4, 5}
  Displays = {0}
  Blocked <- MCBlocked
  MayFail = {4}
  MAX_HELD_KEYS = 2
  KEY_LIMIT = 3
  POINTER_LIMIT = 1
  MaxTime = 1
  TrackedKeys = {1, 4}
  Gestures <- MCGestures
  MaxFrames = 3
  AppKeys = {4, 224, 228}
  LeftModifiers = {224}
  RightModifiers = {228}
  AppButtons = {1, 2}
  AppPoints = {1, 2}
  POINTER_INTERVAL = 1
  APP_PRESSED_KEYS = 2
  AppTime = 1
  NoMove = NoMove
INVARIANT BoundedTable
INVARIANT HeldIsDown
INVARIANT LocalUserWins
INVARIANT DifferenceIsInFlight
INVARIANT KeyboardsAgree
PROPERTY KeysGoUp
CHECK_DEADLOCK FALSE
