SPECIFICATION Spec
CONSTANTS
  aHost = aHost
  aController = aController
  aStranger = aStranger
  None = None
  Devices = {aHost, aController, aStranger}
  Dialable = {aHost}
  Conns = {1, 2, 3}
  DeviceOf <- MCDeviceOf
  Sids = {1}
CHECK_DEADLOCK FALSE
INVARIANTS LiveRegistrationStays
