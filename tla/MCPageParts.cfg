CONSTANTS
  InFlight = 2
  ShadowPosts = 6
  ShadowStarts = 2
  Modes = {"parallel", "waiting", "deferred"}
  RejectLimit = 2
  CoprocFrames = 3
  Dispatches = 2
  BurstSize = 2
  RunnerFrames = 4
  RunnerRewinds = 2
  RunnerTrouble = 4
  Keys = {"k"}
  Buttons = {"A", "B"}
  Fingers = {"f1", "f2"}
  Pads = {1, 2}
  Models = {"x", "y"}
  Slots = {0, 1}
  MaxMoves = 3
  RomIds = {1, 2}
  Library = {1}
  RomStarts = 2
  HasWorklet = TRUE
  Attempts = 1
  MaxCtx = 3
  AudioTrouble = 1
  Ring = 3
  FlushMax = 3
  HiddenMax = 1
  TakeMax = 2
  ChunkMax = 1
  Cap = 2
  LogLines = 4
  LogMatches = 2
  LogFlushes = 2
  LogTrouble = 1
SPECIFICATION MCSpec
INVARIANTS
  ShadowSound
  CoprocSound
  RunnerSound
  AudioSound
  InputSound
  StreamSound
  TransferSound
  PageFollowsRoom
  EmulatorRunsTheRom
  LogSound
  MenuSound
CHECK_DEADLOCK FALSE
