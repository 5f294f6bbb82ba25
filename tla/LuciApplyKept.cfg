SPECIFICATION FairSpec
CONSTANTS
  ApplyRollback = 2
  RpcdTimeout = 2
  TokenTimeout = 2
  MaxApplies = 2
  MaxLost = 2
INVARIANT AppliedMeansKept
