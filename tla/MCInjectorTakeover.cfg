SPECIFICATION Spec
CONSTANTS
  WINDOW = 2
  Usages = {1, 2, 3, 4, 5}
  Known = {1, 2, 4, 5}
  Mapped = {1, 4, 5}
  Mods = {4, 5}
  Displays = {0}
  Blocked <- MCBlocked
  MayFail = {}
  MAX_HELD_KEYS = 2
  KEY_LIMIT = 2
  POINTER_LIMIT = 1
  MaxTime = 3
CHECK_DEADLOCK FALSE
INVARIANTS TakeoverReleasesKeys
