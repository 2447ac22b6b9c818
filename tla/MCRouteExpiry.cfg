SPECIFICATION RoutesSpec
CONSTANTS
  direct = direct
  relay = relay
  wildcard = wildcard
  digest1 = digest1
  digest2 = digest2
  server = server
  client = client
  Paths <- TwoPaths
  InvalidPaths <- OneInvalid
  Digests <- TwoDigests
  PrepareTimeout = 1
  StabilityWindow = 1
  LastEpoch = 2
  LastSequence = 2
  LastTime = 2
SYMMETRY RoutesSymmetry
INVARIANT ExpiryRevokes
CHECK_DEADLOCK FALSE
