CONSTANTS
  Guests = {"g1", "g2"}
  FollowUpMax = 1
  SyncDelta = 1
  MaxFrame = 1
  MaxAsks = 2
  MaxFaults = 1
  Lo = "lo"
  Hi = "hi"
  MaxAttempts = 2
  MaxStartup = 2
  MaxPc = 3
  MaxDrops = 1
SPECIFICATION MCSpec
INVARIANTS
  LinksSound
PROPERTIES
  ReconnectEnds
  WorkingLinkKept
  EveryRequestServed
  QueueDrains
CHECK_DEADLOCK FALSE
