CONSTANTS
  Host = Host
  G1 = G1
  Guests = {G1}
  OwnDelay <- MCDelay
  Deferred = TRUE
  MaxFrame = 2
  Slack = 2
  MaxLost = 1
SPECIFICATION Spec
INVARIANTS
  RetryAwaitsTap
CHECK_DEADLOCK FALSE
