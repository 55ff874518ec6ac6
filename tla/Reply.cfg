SPECIFICATION Spec
CONSTANTS
  Types = {"FACEBOOK", "INSTAGRAM", "WHATSAPP_CLOUD"}
  MaxTokens = 2
  MaxChanges = 2
  RetryLimit = 2
  MaxLost = 1
  Faults = {"crash", "db_error"}
INVARIANTS TruthfulReply FailsForCause
PROPERTIES KeepsPromise RunProgresses
CHECK_DEADLOCK FALSE
