SPECIFICATION RendezvousSpec
CONSTANTS
  devA = devA
  devB = devB
  devC = devC
  match1 = match1
  match2 = match2
  Devices = {devA, devB, devC}
  Matches = {match1}
  Generations = {1}
  Ttls = {1, 2}
  MaxTtl = 2
  MaxPending = 2
  MaxPendingPerDevice = 2
  MaxRegistrations = 4
  MaxMatches = 2
  MaxTime = 2
  MaxRejections = 2
  Conns = {c1, c2, c3}
  Attempts <- MCAttempts
SYMMETRY ConnSymmetry
INVARIANTS
  ServiceInv
  BooksAgree
  ProbeSound
PROPERTIES
  ReplayProtected
CHECK_DEADLOCK FALSE
