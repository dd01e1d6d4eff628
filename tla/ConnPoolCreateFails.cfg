SPECIFICATION FairSpec
CONSTANTS
  t1 = t1
  t2 = t2
  t3 = t3
  c1 = c1
  Threads = {t1, t2, t3}
  Conns = {c1}
  MaxConnections = 1
  MaxLeases = 1
  CreateMayFail = TRUE
  Nobody = Nobody
PROPERTY BlockedAcquireFinishes
