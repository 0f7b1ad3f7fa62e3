SPECIFICATION Spec
CONSTANTS
  NumTargets = 4
  ByteRange = 256
INVARIANTS
  DeletesWhatExists
  StartedFindsObjects
  FailureLeavesTargets
CHECK_DEADLOCK FALSE
