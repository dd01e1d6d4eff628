SPECIFICATION Spec
CONSTANTS
  t1 = t1
  t2 = t2
  c1 = c1
  c2 = c2
  Threads = {t1, t2}
  Conns = {c1, c2}
  MaxConnections = 1
  CreateMayFail = TRUE
  Nobody = Nobody
  MaxRetries = 2
  MaxStatements = 1
  MaxSavepoints = 2
SYMMETRY TransactionSymmetry
INVARIANTS CleanReturn EffectOnce SavepointScopeSafe
CHECK_DEADLOCK FALSE
