SPECIFICATION Spec
CONSTANTS
  t1 = t1
  t2 = t2
  Timers <- MCTimers
  NoTimer = NoTimer
  CPUs = {cpu0, cpu1}
  Cpu0 = cpu0
  TickRange = 11
  MaxInit = 2
  MaxLate = 1
  Settings <- MCSettings
INVARIANTS TypeOK StopSticks FlagTellsTheTruth
PROPERTY ImplementsCountdown
