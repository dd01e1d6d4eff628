SPECIFICATION FairSpec
CONSTANTS
  u1 = u1
  u2 = u2
  Users = {u1, u2}
  Reconnectors = {1, 2, 3}
  MaxConnections = 3
  MaxPosted = 1
  Configs <- MCConfigs
INVARIANTS OneWriteInOrder CloseIsFinal
PROPERTIES HealthyStays ReconnectWaitsForClose ReconnectHappens MessagesGoOut
CHECK_DEADLOCK FALSE
