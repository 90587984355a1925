CONSTANTS
  Host = Host
  G1 = G1
  Guests = {G1}
  OwnDelay <- MCDelay
  Deferred = TRUE
  MaxFrame = 2
  Slack = 2
  MaxLost = 1
SPECIFICATION FairSpec
INVARIANTS
  BeginningsAgree
PROPERTIES
  EveryoneStarts
  FirstInputsKept
  GuestsEngineStarts
CHECK_DEADLOCK FALSE
