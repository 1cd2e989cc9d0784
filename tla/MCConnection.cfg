SPECIFICATION CallsSpec
CONSTANTS
  aHost = aHost
  aController = aController
  aStranger = aStranger
  None = None
  Devices = {aHost, aController, aStranger}
  Dialable = {aHost}
  Conns = {1, 2, 3, 4}
  DeviceOf <- MCDeviceOf
  Sids = {1}
  DEVICE_ID_LEN = 3
  DeviceIds <- MCDeviceIds
  Texts <- MCDialTexts
  Fleets <- MCFleets
  ProbeVectors <- MCProbeVectors
  UNMEASURED = 10
  U32_MAX = 15
  RELAY_POPS = 2
  MAX_TTL = 3600
  RELAY_TTL = 7200
  Invalid = Invalid
  NoOne = NoOne
  RATE_LIMIT = 2
  RATE_WINDOW = 1
  NONCE_TTL = 1
  MaxRequests = 3
  MaxRouted = 1
  RegTime = 3
  PIN_CHECK_INTERVAL = 1
  PIN_REFRESH = 2
  PIN_TTL = 4
  SETUP_ATTEMPTS = 2
  MaxRefreshes = 1
  MaxViewers = 2
  MaxSent = 2
  HandshakeFrames = 1
  MAX_RELAY_POPS = 1
  ServerLists <- MCServerLists
  Processes = {serve, id}
  MaxKeys = 3
  NoKey = NoKey
  WINDOW = 2
  Classes = {"key", "pointer"}
  Limits <- MCLimits
  GuardTime = 4
  MaxBurst = 2
INVARIANT QuietClientStays
INVARIANT PinOpensItsSession
INVARIANT TransportIsSound
INVARIANT CallsReachTheirDevice
INVARIANT AddressSurvives
INVARIANT AtMostTwiceTheLimit
INVARIANT OnlyParticipants
INVARIANT NoGhostPresence
PROPERTY DepartureEndsSessions
PROPERTY ConnectEnds
PROPERTY SetupEnds
PROPERTY ReliableArrives
CHECK_DEADLOCK FALSE
