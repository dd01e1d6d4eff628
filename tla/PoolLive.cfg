SPECIFICATION FairSpec
CONSTANTS
  c1 = c1
  c2 = c2
  w1 = w1
  Clients = {c1, c2}
  Workers = {w1}
  Periodics = {}
  Tasks = {1, 2}
  MaxQueueSize = 1
  Policies = {"block"}
  Submitters = {}
  Joiners = {}
PROPERTIES ImplementsFairService JoinReturns
