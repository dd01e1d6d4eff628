SPECIFICATION Spec
CONSTANTS
  c1 = c1
  w1 = w1
  p1 = p1
  Clients = {c1}
  Workers = {w1}
  Periodics = {p1}
  Tasks = {1, 2}
  MaxQueueSize = 1
  Policies = {"throw_exception", "block", "block_for", "caller_runs"}
  Submitters = {1, p1}
  Joiners = {1, p1}
INVARIANT StopSafe
PROPERTIES ImplementsService JoinSound
CHECK_DEADLOCK FALSE
