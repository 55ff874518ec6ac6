SPECIFICATION FairSpec
CONSTANTS
  Run = {r1, r2, r3}
  JobAttempts = 3
  MaxSends = 2
  Faults = {"run_crash", "gateway_crash", "lost_answer", "db_error", "redis_down"}
INVARIANT FailedIsFinal
PROPERTIES KeepsPromise JobSettles
