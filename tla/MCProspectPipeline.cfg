SPECIFICATION FairSpec
CONSTANTS
  w1 = w1
  Workers = {w1}
  NoOwner = NoOwner
  NumCompanies = 2
  MaxAttempts = 2
  LeaseTTL = 0
  RetryDelay = 0
  MaxJobs = 2
  MaxFaults = 2
INVARIANTS EvidenceGate NothingWaitsInVain BatchConsistent
PROPERTIES EveryBatchSettles ReviewIsBinding ImplementsQueue
