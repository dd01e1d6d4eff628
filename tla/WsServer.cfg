SPECIFICATION ServerFairSpec
CONSTANTS
  t1 = t1
  t2 = t2
  k1 = k1
  k2 = k2
  Callers = {t1, t2}
  Clients = {k1, k2}
  MaxSpurious = 1
  IoThreads = 2
  Configs <- MCConfigs
INVARIANTS NoLostStopWake StoppedMeansQuiet StopTellsSessions HandledAreKnown
PROPERTY StopReturns
CHECK_DEADLOCK FALSE
