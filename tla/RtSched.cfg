SPECIFICATION Spec
CONSTANTS
  cpu0 = cpu0
  cpu1 = cpu1
  idle0 = idle0
  idle1 = idle1
  main = main
  ping = ping
  work = work
  Threads <- MCThreads
  Periodic = {ping}
  Sleepers = {work}
  Sliced = {work}
  CPUs = {cpu0, cpu1}
  Cpu0 = cpu0
  Idle <- MCIdle
  Priority <- MCPriority
  NoThread = NoThread
  NoCpu = NoCpu
  Main = main
INVARIANTS
  ListsAgree
  MostUrgentRuns
  SuspendedIsAwaited
  FreedIsUnused
  HeapExclusive
  SpinEnds
CHECK_DEADLOCK FALSE
