SPECIFICATION FairVerdictSpec
CONSTANTS
  NumTargets = 1
  PongCount = 3
  PongRange = 256
  PingAckSize = 4
  PingIrqSize = 4
  ActionPings = 5
INVARIANTS
  DetectionBound
  CleanVerdictIsTrue
PROPERTIES
  FrozenIsDisplayed
  SwitchedOnComesUp
