CONSTANTS
  Remote = {p1}
  Local = p0
  Buttons = {0}
  StickMax = 1
  RealInputs <- MCRealInputs
  NoInput = NoInput
  LocalInput <- MCLocalInput
  InitDelay = 1
  Delays = {1}
  MaxFrames = 4
  InputRing = 8
  VisibleCap = 2
  TrueRollback = TRUE
  FrameAdvantages <- MCNoAdvantage
  PastWindow = 5
  FutureMargin = 0
  ResetSlots = {}
  Backfilled = {p1}
  MaxFrame = 5
  AdvBias = 7
  MayPhantom = {}
SPECIFICATION SessionSpec
INVARIANTS
  RewindsAreRight
  ConfirmedFramesAgree
CHECK_DEADLOCK FALSE
