SPECIFICATION FairSpec
CONSTANTS
  c1 = c1
  c2 = c2
  w1 = w1
  w2 = w2
  Callers = {c1, c2}
  PoolCallers = {c2}
  VoidCalls = {c2}
  Workers = {w1, w2}
  Depth = 2
  MaxAwaits = 2
  Idle = Idle
INVARIANTS OnePlaceToRun ResultDelivered RunnerRaceWindow
PROPERTY SyncWaitReturns
