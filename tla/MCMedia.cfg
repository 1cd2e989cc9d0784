SPECIFICATION MediaSpec
CONSTANTS
  Sources <- MCSources
  Settings <- MCSettings
  Alignments <- MCAlignments
  MAX_SIDE = 3
  Unwritten = Unwritten
  Slices <- MCSlices
  SetPairs <- MCSetPairs
  NotAvcc = NotAvcc
  NoAccess = NoAccess
  NoSession = NoSession
  NoSet = NoSet
  Resolutions = {"native", "docked"}
  MAX_CONSECUTIVE_FAILURES = 2
  MaxFrames = 3
  MaxRestarts = 2
  NoFrame = NoFrame
  NotStarted = NotStarted
  LOSS_WINDOW = 1
  BITRATE_UPDATE_INTERVAL = 1
  MIN_ESTIMATE = 150
  MAX_ESTIMATE = 12000
  MIN_VIDEO = 120
  MAX_VIDEO = 25000
  DemoteAfter = 1
  PromoteAfter = 2
  IDR_BUDGET = 1
  SCALE_CHANGE_THRESHOLD = 10
  InitialEstimate = 1500
  Losses = {0, 120, 600}
  Delays = {30, 90}
  RateTime = 5
  Refused = Refused
  MAX_PRESSED_KEYS = 2
  MAX_TEXT_INPUT = 4
  MAX_ERROR_TEXT = 4
  MAX_CURSOR_DIM = 2
  MAX_CURSOR_DATA = 16
  MAX_VIDEO_FRAGMENT = 2
  MAX_VIDEO_FRAGMENTS = 3
  Messages <- MCMessages
  MaxOff = 4
  Sizes = {1, 3}
  QUEUE_BYTES = 4
  BANDWIDTH_BPS = 16000
  BASE_DELAY = 1
  Jitters <- MCJitters
  LossInGood = {FALSE}
  LossInBad = {TRUE, FALSE}
  MaxPackets = 3
  SimTime = 4
  SequenceSpace = 6
  MAX_REORDER = 2
  MaxNumbers = 7
  MaxPings = 1
  MaxReports = 2
  Incomplete = Incomplete
  Never = Never
  FRAGMENT_TIMEOUT_MS = 2
  MAX_PARTIAL_FRAMES = 1
  MIN_TARGET_MS = 1
  MAX_TARGET_MS = 2
  DECAY_MS_PER_S = 1
  SECOND = 2
  MAX_QUEUED_FRAMES = 2
  CATCHUP_SLACK_MS = 1
  STALE_AFTER_MS = 2
  STARVED_AFTER_MS = 1
  JITTER_WINDOW_MS = 3
  MAX_DEVIATION_MS = 3
  PlayFrames = 3
  PlayTime = 4
  PieceCounts = {1, 2}
  UpperLayer = {2}
  Geometries = {"full", "half"}
  NoGeometry = NoGeometry
  IDR_MIN_INTERVAL = 2
  KEYFRAME_REQUEST_INTERVAL = 1
  MaxWire = 2
  MaxRequests = 2
  MaxRebuilds = 2
  MaxFaults = 2
  NORM = 17
  MIN_DIMENSION = 2
  NoPoint = NoPoint
  Percents = {100, 75, 60, 50, 40}
  Screens <- MCScreens
  WindowSizes <- MCWindowSizes
  MaxPictures = 4
  STALL_AFTER = 1
  NoPicture = NoPicture
INVARIANT PlayoutIsSound
INVARIANT HandOver
INVARIANT LossIsCounted
INVARIANT ScreenIsShown
INVARIANT WireIsFaithful
INVARIANT LinkIsHonest
INVARIANT DecoderIsCurrent
PROPERTY CanvasIsSafe
PROPERTY RateIsSteady
PROPERTY ViewerGetsItsPicture
PROPERTY StallsAreShown
CHECK_DEADLOCK FALSE
