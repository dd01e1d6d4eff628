SPECIFICATION FairSpec
CONSTANTS
  t1 = t1
  t2 = t2
  Threads = {t1, t2}
  Items = {1, 2, 3}
  Container = "priority_queue"
  InitialMax = 2
  MaxSizes = {}
  Ops = {"put", "put_wait", "put_wait_for", "tryTake", "close"}
INVARIANTS Conservation NoLostNotFull
PROPERTY CloseUnblocks
