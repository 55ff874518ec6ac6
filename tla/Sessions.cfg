SPECIFICATION FairSpec
CONSTANTS
  Request = {r1, r2}
  MaxTokens = 3
  Faults = {"lost_answer", "db_error", "limited"}
INVARIANTS StaysSignedIn 
PROPERTY CallsAnswered
