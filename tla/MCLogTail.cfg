CONSTANTS
  Ring = 2
  FlushMax = 2
  HiddenMax = 1
  TakeMax = 2
  ChunkMax = 2
  Cap = 4
  MaxLines = 2
  MaxMatches = 1
  MaxFlushes = 2
  MaxTrouble = 0
SPECIFICATION Spec
INVARIANTS
  LastLinesArrive
CHECK_DEADLOCK FALSE
