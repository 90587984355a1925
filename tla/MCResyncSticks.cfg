CONSTANTS
  Remote = {p0}
  Local = p1
  Buttons = {0}
  StickMax = 1
  RealInputs <- MCRealInputs
  NoInput = NoInput
  LocalInput <- MCLocalInput
  InitDelay = 1
  Delays = {1}
  MaxFrames = 2
  InputRing = 4
  VisibleCap = 2
  TrueRollback = TRUE
  FrameAdvantages <- MCNoAdvantage
  PastWindow = 3
  FutureMargin = 0
  ResetSlots = {}
  Backfilled = {p0}
  MaxFrame = 3
  Host = p0
  HostBoot <- MCHostBoot
  SyncDelta = 1
  HoldMax = 1
  MaxRequests = 1
  MaxArrivals = 2
SPECIFICATION ResyncSpec
INVARIANTS
  SyncSticks
CHECK_DEADLOCK FALSE
