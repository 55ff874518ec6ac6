SPECIFICATION Spec
CONSTANTS
  Direct = {"api"}
  FallbackAfter = 1
  RetryLimit = 2
  JobAttempts = 1
  MaxSends = 1
  Faults = {"crash", "lost_answer", "db_error", "redis_down"}
INVARIANTS OneAnswer SentWasTaken OneSender
PROPERTIES NoSecondSend
CHECK_DEADLOCK FALSE
