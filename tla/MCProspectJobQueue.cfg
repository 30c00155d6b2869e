SPECIFICATION FairSpec
CONSTANTS
  j1 = j1  j2 = j2
  w1 = w1  w2 = w2
  Workers = {w1, w2}
  NoOwner = NoOwner
  NoJob = NoJob
  Jobs = {j1, j2}
  BusinessKeys = {"k1", "k2"}
  KeyOf <- SameBatch
  MaxAttempts = 2
  LeaseTTL = 1
  RetryDelay = 1
INVARIANTS RowsConsistent NothingLeftBehind
PROPERTIES EveryJobFinishes LeasesAreRespected ImplementsJobLease
