SPECIFICATION FairSpec
CONSTANTS
  Msg = {m1, m2}
  Poller = {"timer"}
  Lag = 1
  Overlap = 1
  Catchup = 3
  MaxNow = 6
  MaxCrashes = 1
CHECK_DEADLOCK FALSE
INVARIANTS InReach
PROPERTIES Captured
