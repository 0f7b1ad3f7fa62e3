SPECIFICATION VerdictSpec
CONSTANTS
  NumTargets = 1
  PongCount = 3
  PongRange = 256
  PingAckSize = 4
  PingIrqSize = 4
  ActionPings = 5
INVARIANT VerdictIsTrue
