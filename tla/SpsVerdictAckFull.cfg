SPECIFICATION ScriptSpec
CONSTANTS
  NumTargets = 4
  PongCount = 3
  PongRange = 256
  PingAckSize = 4
  PingIrqSize = 4
  ActionPings = 5
INVARIANT CleanVerdictIsTrue
CHECK_DEADLOCK FALSE
