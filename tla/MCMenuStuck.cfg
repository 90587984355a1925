CONSTANTS
  P1 = P1
  P2 = P2
  Peers = {P1, P2}
  Delay = 1
  BootFrames = 1
  MenuCount = 2
  MaxFrame = 4
  MaxPresses <- Presses
  MaxLost = 0
SPECIFICATION Spec
INVARIANT AnnouncementsCome
CHECK_DEADLOCK FALSE
