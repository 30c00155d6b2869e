SPECIFICATION Spec
CONSTANTS
  w1 = w1  w2 = w2  k1 = k1  k2 = k2
  Workers = {w1}
  NoOwner = NoOwner
  MaxAttempts = 2
  LeaseTTL = 0
  RetryDelay = 0
  NRows = 2
  External = {}
  WithAddress = {1, 2}
  WithContact = {}
  Clients = {k1}
  MaxJobs = 1
  MaxFaults = 0
PROPERTIES ProfilesOnlyGrow
