SPECIFICATION Spec
CONSTANTS
  Keys = {}
  Buttons = {}
  Positions = {}
  MaxPending = 1
  MaxQueue = 1
  MaxFrames = 5
  MaxSamples = 0
  Faults = {}
INVARIANTS
  DecodesInChain
CHECK_DEADLOCK FALSE
