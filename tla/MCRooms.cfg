CONSTANTS
  Pids = {p1, p2, p3}
  RoomIds = {r1}
  MaxSockets = 2
  MaxPlayers = 2
  ZombieLimit = 2
  MaxRestarts = 1
  CleanupRuns = FALSE
SPECIFICATION Spec
SYMMETRY PidSymmetry
INVARIANTS
  RoomsSound
  NobodyIsAGhost
PROPERTIES
  OnlyOwnRequestUnseats
  SlotsFixedInAMatch
CHECK_DEADLOCK FALSE
