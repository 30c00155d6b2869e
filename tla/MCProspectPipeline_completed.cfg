SPECIFICATION Spec
CONSTANTS
  w1 = w1
  Workers = {w1}
  NoOwner = NoOwner
  NumCompanies = 1
  MaxAttempts = 2
  LeaseTTL = 0
  RetryDelay = 0
  MaxJobs = 2
  MaxFaults = 2
PROPERTIES CompletedIsFinal
