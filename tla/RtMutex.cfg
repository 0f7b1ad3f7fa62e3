SPECIFICATION FairSpec
CONSTANTS
  low = low
  mid = mid
  high = high
  NoThread = NoThread
  Threads <- MCThreads
  Priority <- MCPriority
  HoldRange = 256
  MaxHold = 2
INVARIANTS
  TakenMeansOwned
  NoStrandedOwner
  PriorityRestored
  NoInversion
PROPERTY WaitEnds
