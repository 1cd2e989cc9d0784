SPECIFICATION RegSpec
CONSTANTS
  RATE_LIMIT = 2
  RATE_WINDOW = 1
  NONCE_TTL = 1
  MaxRequests = 3
  MaxRouted = 0
  RegTime = 1
PROPERTY LeftIsClosed
CHECK_DEADLOCK FALSE
