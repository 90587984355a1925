CONSTANTS
  Remote = {p1}
  Local = p0
  Buttons = {0}
  StickMax = 1
  RealInputs <- MCRealInputs
  NoInput = NoInput
  LocalInput <- MCLocalInput
  InitDelay = 1
  Delays = {1, 2}
  MaxFrames = 2
  InputRing = 8
  VisibleCap = 3
  TrueRollback = TRUE
  FrameAdvantages <- MCNoAdvantage
  PastWindow = 4
  FutureMargin = 0
  ResetSlots = {}
  Backfilled = {p1}
  MaxFrame = 5
SPECIFICATION MCSpec
INVARIANTS
  IInv
  PendingRestorable
  NoSilentDrift
PROPERTIES
  StaysOnHistory
  TagsKept
CHECK_DEADLOCK FALSE
