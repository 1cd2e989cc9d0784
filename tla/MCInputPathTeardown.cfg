SPECIFICATION PathSpec
CONSTANTS
  WINDOW = 1
  Usages = {1, 4}
  Known = {1, 4}
  Mapped = {1, 4}
  Mods = {4}
  Displays = {0}
  Blocked <- MCBlocked
  MayFail = {}
  MAX_HELD_KEYS = 2
  KEY_LIMIT = 3
  POINTER_LIMIT = 1
  MaxTime = 1
  TrackedKeys = {1, 4}
  Gestures <- MCGestures
  MaxFrames = 3
CHECK_DEADLOCK FALSE
INVARIANTS TeardownReleasesKeys
