CONSTANTS
  Pids = {p1, p2, p3}
  RoomIds = {r1}
  MaxSockets = 2
  MaxPlayers = 3
  ZombieLimit = 2
  MaxRestarts = 0
  CleanupRuns = FALSE
SPECIFICATION Spec
SYMMETRY PidSymmetry
INVARIANTS
  EveryPlayerHasASlot
CHECK_DEADLOCK FALSE
