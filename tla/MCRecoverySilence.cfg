SPECIFICATION RecoverySpec
CONSTANTS
  Geometries = {"full", "half"}
  NoGeometry = NoGeometry
  IDR_MIN_INTERVAL = 2
  KEYFRAME_REQUEST_INTERVAL = 1
  MaxWire = 2
  MaxRequests = 2
  MaxRebuilds = 1
  MaxFaults = 1
PROPERTY NeverWaitsInSilence
CHECK_DEADLOCK FALSE
