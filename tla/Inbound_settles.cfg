SPECIFICATION FairSpec
CONSTANTS
  Direct = {"api"}
  FallbackAfter = 1
  RetryLimit = 2
  JobAttempts = 1
  MaxSends = 2
  Faults = {"lost_answer", "redis_down"}
PROPERTIES EventSettles KeepsPromise
CHECK_DEADLOCK FALSE
