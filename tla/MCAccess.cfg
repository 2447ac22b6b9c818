SPECIFICATION AccessSpec
CONSTANTS
  Devices = {d1, d2, d3}
  MaxPinned = 2
  MaxPairingTtl = 1
  MaxSessionTtl = 2
  MaxTime = 3
  MaxEpoch = 3
  MaxGeneration = 3
  Attempts = {a1, a2}
  Peers = {p1, p2}
  Codes = {c1, c2}
  NoPin = NoPin
  Aliases = {"home"}
  MaxGuesses = 3
  PairingTtl = 2
  PairingEnd = 3
  Unlimited = Unlimited
  MaxTokens = 2
  TokenTtl = 1
  SessionLimits = {0, 1}
  LastUse = 2
  TokensEnd = 2
  MaxSession = 3
  DrainTimeout = 1
  DisconnectEnd = 3
SYMMETRY Symmetric
INVARIANTS
  IInv
  AuthorizedIsLive
  GuessesBounded
PROPERTIES
  RevokedForEver
  PinsEarned
  SessionsLawful
CHECK_DEADLOCK FALSE
