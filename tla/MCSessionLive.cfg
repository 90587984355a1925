CONSTANTS
  Remote = {p1}
  Local = p0
  Buttons = {0}
  StickMax = 1
  RealInputs <- MCRealInputs
  NoInput = NoInput
  LocalInput <- MCLocalInput
  InitDelay = 1
  Delays = {1}
  MaxFrames = 3
  InputRing = 8
  VisibleCap = 1
  TrueRollback = TRUE
  FrameAdvantages <- MCNoAdvantage
  PastWindow = 5
  FutureMargin = 0
  ResetSlots = {}
  Backfilled = {p1}
  MaxFrame = 4
  AdvBias = 8
  MayPhantom = {p1}
SPECIFICATION FairSession
PROPERTIES
  GameGoesOn
CHECK_DEADLOCK FALSE
