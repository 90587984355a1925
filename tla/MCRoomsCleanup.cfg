CONSTANTS
  Pids = {p1, p2}
  RoomIds = {r1}
  MaxSockets = 2
  MaxPlayers = 2
  ZombieLimit = 2
  MaxRestarts = 1
  CleanupRuns = TRUE
SPECIFICATION Spec
SYMMETRY PidSymmetry
PROPERTIES
  CleanupSparesLiveRooms
CHECK_DEADLOCK FALSE
