CONSTANTS
  Tuples = {k1, k2}
  Users = {u1}
  Account = u1
  Nonces = {n1, n2}
  Relays = {r1, r2}
  Peers <- MCPeers
  AllowedIps = {"ip1"}
  WellKnown <- MCWellKnown
  Channels = {}
  AllocationLifetime = 1
  PermissionLifetime = 1
  ChannelLifetime = 1
  QuarantineLifetime = 1
  MaxAllocations = 2
  MaxAllocationsPerUser = 2
  MaxPermissions = 1
  MaxChannels = 1
  MaxPackets = 1
  MaxIncarnation = 2
  MaxGeneration = 2
  MaxTime = 2
  TransactionIds = {x1, x2}
  NonceLifetime = 3
  CacheLifetime = 1
  MaxChallenges = 1
  MaxCache = 2
  ExitAfter = 1
SYMMETRY TurnSymmetry
SPECIFICATION TurnSpec
INVARIANTS
  RelaySound
  SocketsAccounted
  TurnClientSound
PROPERTIES
  TrafficIsPermitted
CHECK_DEADLOCK FALSE
