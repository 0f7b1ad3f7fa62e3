SPECIFICATION PeriodicSpec
CONSTANTS
  ping = ping
  irq_in = irq_in
  urgent = urgent
  NoThread = NoThread
  Threads <- MCThreads
  Periodic <- MCPeriodic
  Priority <- MCPriority
  HoldRange = 256
  MaxHold = 2
INVARIANT TakenIsOwned
CHECK_DEADLOCK FALSE
