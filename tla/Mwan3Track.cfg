SPECIFICATION Spec
CONSTANTS
  Up = 3
  Down = 3
  Hosts = {h1, h2, h3}
  Reliability = 2
  Call = {c1, c2, c3}
  NoCall = NoCall
  InitialState = "online"
  Family = "ipv6"
  SignalMayMiss = TRUE
  KillOnDisconnect = TRUE
  HasPrefix = TRUE
  MaxFlaps = 5
INVARIANTS
  InServiceAgrees
PROPERTY
  ImplementsDetector
SYMMETRY Symmetry
