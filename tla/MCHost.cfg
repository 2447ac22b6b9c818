SPECIFICATION HostSpec
CONSTANTS
  Controls = {1, 2}
  Messages <- SomeMessages
  SessionDeadline = 2
  MaxSent = 2
  MaxTime = 2
INVARIANTS
  TeardownComplete
  SnapshotHeals
  DesktopSound
PROPERTIES
  PressNeverReplayed
  WorkAuthorized
  RevocationKept
CHECK_DEADLOCK FALSE
