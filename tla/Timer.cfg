SPECIFICATION TimerFairSpec
CONSTANTS
  c1 = c1
  c2 = c2
  Users = {c1, c2}
  MaxTime = 1
  MaxWaits = 2
  MaxVersion = 3
  ExecutorWorkers = 2
  MaxFills = 1
INVARIANT TimerSafe
PROPERTIES NeverEarly WaitsResolve DecidedHandlersRun
