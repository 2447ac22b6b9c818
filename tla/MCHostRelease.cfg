SPECIFICATION HostSpec
CONSTANTS
  Controls = {1, 2}
  Messages <- SomeMessages
  SessionDeadline = 2
  MaxSent = 1
  MaxTime = 1
INVARIANT AllInputReleased
CHECK_DEADLOCK FALSE
