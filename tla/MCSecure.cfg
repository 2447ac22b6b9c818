SPECIFICATION SecureSpec
CONSTANTS
  Unstamped = Unstamped
  Ids = {1, 2}
  MaxSessions = 2
  SessionCount = 2
  MaxReconnects = 1
  Budget = 2
  MaxRestarts = 1
  Faults = {"loss", "shutdown"}
INVARIANTS
  SessionsEndSafely
  ChannelSound
  ProcessesSound
PROPERTIES
  StampsIncrease
  LaneKept
CHECK_DEADLOCK FALSE
