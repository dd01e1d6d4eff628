SPECIFICATION FairSpec
CONSTANTS
  t1 = t1
  t2 = t2
  t3 = t3
  t4 = t4
  c1 = c1
  c2 = c2
  Threads = {t1, t2, t3, t4}
  Conns = {c1, c2}
  MaxConnections = 2
  MaxLeases = 1
  CreateMayFail = FALSE
  Nobody = Nobody
INVARIANTS PoolSafe NoLostWakeup
PROPERTY BlockedAcquireFinishes
