SPECIFICATION RoutesSpec
CONSTANTS
  direct = direct
  relay = relay
  wildcard = wildcard
  digest1 = digest1
  digest2 = digest2
  server = server
  client = client
  Paths <- TwoPaths
  InvalidPaths <- OneInvalid
  Digests <- TwoDigests
  PrepareTimeout = 2
  StabilityWindow = 2
  LastEpoch = 4
  LastSequence = 4
  LastTime = 6
SYMMETRY RoutesSymmetry
INVARIANTS
  OneAuthority
PROPERTIES
  ActiveUntilCommit
  InputFenced
CHECK_DEADLOCK FALSE
