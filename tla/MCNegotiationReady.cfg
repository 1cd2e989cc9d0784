SPECIFICATION Spec
CONSTANTS
  None = None
  Sids = {1, 2}
CHECK_DEADLOCK FALSE
INVARIANTS ReadinessIsAnnounced
