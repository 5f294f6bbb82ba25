SPECIFICATION FairSpec
CONSTANTS
  Up = 2
  Down = 2
  Hosts = {h1, h2}
  Reliability = 1
  Call = {c1, c2}
  NoCall = NoCall
  InitialState = "online"
  Family = "ipv6"
  SignalMayMiss = FALSE
  KillOnDisconnect = TRUE
  HasPrefix = TRUE
  MaxFlaps = 4
INVARIANT
  StatusAgrees
PROPERTIES
  VerdictFollowsLink
