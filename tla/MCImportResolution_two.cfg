SPECIFICATION Spec
CONSTANTS
  w1 = w1  w2 = w2  k1 = k1  k2 = k2
  Workers = {w1, w2}
  NoOwner = NoOwner
  MaxAttempts = 2
  LeaseTTL = 0
  RetryDelay = 0
  NRows = 3
  External = {1, 3}
  WithAddress = {}
  WithContact = {1}
  Clients = {k1}
  MaxJobs = 1
  MaxFaults = 0
SYMMETRY Symmetry
INVARIANTS ResultIsWhole ExternalIdIsDecisive
PROPERTIES DecidedOnce
