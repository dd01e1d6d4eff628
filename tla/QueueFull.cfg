SPECIFICATION Spec
CONSTANTS
  t1 = t1
  t2 = t2
  t3 = t3
  Threads = {t1, t2, t3}
  Items = {1, 2}
  Container = "deque"
  InitialMax = 1
  MaxSizes = {0, 1, 2}
  Ops = {"put", "put_wait", "put_wait_for", "take", "tryTake", "clear", "close", "set_queue_max_size"}
SYMMETRY ThreadSymmetry
INVARIANTS QueueSafe NoLostNotEmpty
PROPERTY ImplementsChannel
