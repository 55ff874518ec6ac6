SPECIFICATION FairSpec
CONSTANTS
  MaxSockets = 2
  Faults = {"crash", "db_error", "lost_command"}
INVARIANTS OneLiveSocket ConnectedIsOpen DisconnectHolds
PROPERTY Reconnects
