SPECIFICATION FairSpec
CONSTANTS
  w1 = w1  w2 = w2  k1 = k1  k2 = k2
  Workers = {w1}
  NoOwner = NoOwner
  MaxAttempts = 2
  LeaseTTL = 0
  RetryDelay = 0
  NRows = 2
  External = {1, 2}
  WithAddress = {2}
  WithContact = {1, 2}
  Clients = {k1, k2}
  MaxJobs = 2
  MaxFaults = 1
PROPERTIES ResolutionSettles
INVARIANTS ResolvedPairsAreLinked
