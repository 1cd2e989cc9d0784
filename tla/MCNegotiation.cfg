SPECIFICATION Spec
CONSTANTS
  None = None
  Sids = {1, 2}
INVARIANT NoEarlyData
INVARIANT NothingIsLost
INVARIANT EachSessionAcceptedOnce
CHECK_DEADLOCK FALSE
