SPECIFICATION ScenarioSpec
CONSTANTS
  k1 = k1
  k2 = k2
  k3 = k3
  d1 = d1
  d2 = d2
  s2 = s2
  None = None
  Sessions = {s1, s2}
  Keys = {k1, k2, k3}
  DeviceIds = {d1, d2}
  DeviceIdOf <- MCDeviceIdOf
  PeerOf <- MCPeerOf
  Caps = {input}
  Jtis = {j1}
  CONSENT_TIMEOUT = 1
  PIN_TTL = 1
  MAX_PIN_ATTEMPTS = 3
  MAX_TOKEN_LIFETIME = 1
  AUDIT_CAPACITY = 2
  MaxTime = 2
INVARIANTS TypeOK GrantIffEstablished GrantWithinAuthority PinGrantProvesPin PinServesOneRound AuditTracksGrant
PROPERTIES RefinesGate WithdrawnTokenStaysOut
CHECK_DEADLOCK FALSE
