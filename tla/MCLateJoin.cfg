CONSTANTS
  Host = Host
  G1 = G1
  J1 = J1
  J2 = J2
  Guests = {G1}
  Joiners = {J1}
  MaxFrame = 1
  MaxReady = 2
  MaxLost = 1
SPECIFICATION FairSpec
INVARIANTS
  RosterSound
PROPERTIES
  EverybodyResumes
  JoinIsCompleted
  StartsWithHost
CHECK_DEADLOCK FALSE
