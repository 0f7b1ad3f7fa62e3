SPECIFICATION Spec
CONSTANTS
  t1 = t1
  t2 = t2
  t3 = t3
  Threads <- MCThreads
  Mails = {1, 2}
  Size = 2
  Flag = 1
  Priority <- MCPriority
INVARIANTS
  RingConsistent
  NoLostWakeup
PROPERTY ImplementsFifo
