SPECIFICATION Spec
CONSTANTS
  Ids = {1, 2}
  MaxSessions = 2
  SessionCount = 2
  MaxReconnects = 1
  Budget = 3
  MaxRestarts = 0
  Faults = {"loss", "limit"}
PROPERTIES
  LossRecoverable
CHECK_DEADLOCK FALSE
