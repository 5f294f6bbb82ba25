SPECIFICATION FairSpec
CONSTANTS
  ApplyRollback = 3
  RpcdTimeout = 3
  TokenTimeout = 3
  MaxApplies = 3
  MaxLost = 3
INVARIANTS
  UnconfirmedRollsBack
  ConfirmedIsKept
  PollingPaused
PROPERTY ApplyEnds
