SPECIFICATION FairSpec
CONSTANTS
  c1 = c1
  c2 = c2
  Caller = {c1, c2}
  MaxRetries = 2
  Timeout = 2
  RetryBackoff = 1
  FailureLimit = 2
  ResetTimeout = 3
INVARIANTS
  OpenAfterFailures
  RequestInTime
PROPERTIES
  BreakerCloses
