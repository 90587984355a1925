CONSTANTS
  Host = Host
  G1 = G1
  J1 = J1
  J2 = J2
  Guests = {G1}
  Joiners = {J1, J2}
  MaxFrame = 0
  MaxReady = 1
  MaxLost = 1
SPECIFICATION Spec
INVARIANTS
  NotActiveUntilReady
CHECK_DEADLOCK FALSE
