CONSTANTS
  Pids = {p1, p2}
  RoomIds = {r1, r2}
  MaxSockets = 2
  MaxPlayers = 2
  ZombieLimit = 2
  MaxRestarts = 1
  CleanupRuns = TRUE
SPECIFICATION FairSpec
\* Behaviours that leave Orderly satisfy the property by its premise.
CONSTRAINT Orderly
PROPERTIES
  DesertedRoomGoes
CHECK_DEADLOCK FALSE
