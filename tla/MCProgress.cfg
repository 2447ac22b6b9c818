SPECIFICATION ProgressSpec
CONSTANTS
  MinBitrate = 3
  MaxBitrate = 8
  InitialBitrate = 6
  MinFps = 2
  MaxFps = 5
  InitialFps = 4
  TargetRtt = 4
  MaxJitter = 1
  LossHigh = 5
  LossLow = 1
  Increase = 1
  DecreaseNum = 3
  DecreaseDen = 4
  BitrateDelta = 2
  HeavyLoss = 8
  FpsBitrate = 5
  FpsDown = 3
  FpsUp = 2
  FpsDelta = 3
  Offered <- MCSamples
INVARIANTS
  EncoderInStep
PROPERTIES
  RateConverges
  DeadlinesEnd
  SessionsEnd
CHECK_DEADLOCK FALSE
