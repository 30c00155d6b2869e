SPECIFICATION FairSpec
CONSTANTS
  w1 = w1  k1 = k1  k2 = k2  c1 = c1  c2 = c2
  Workers = {w1}
  NoOwner = NoOwner
  MaxAttempts = 2
  LeaseTTL = 0
  RetryDelay = 0
  Companies = {c1}
  Clients = {k1}
  MaxGenerations = 3
  MaxStates = 1
  MaxFaults = 0
PROPERTIES SameStateIsReused
