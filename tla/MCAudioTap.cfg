CONSTANTS
  HasWorklet = TRUE
  Attempts = 3
  MaxCtx = 2
  MaxTrouble = 1
SPECIFICATION Spec
INVARIANTS
  InterruptedCanTap
CHECK_DEADLOCK FALSE
