CONSTANTS
  Pids = {p1, p2}
  RoomIds = {r1, r2}
  MaxSockets = 2
  MaxPlayers = 2
  ZombieLimit = 2
  MaxRestarts = 0
  CleanupRuns = FALSE
SPECIFICATION Spec
SYMMETRY PidSymmetry
INVARIANTS
  NobodyIsAGhost
CHECK_DEADLOCK FALSE
