SPECIFICATION FairSpec
CONSTANTS
  f1 = f1
  f2 = f2
  Fn = {f1, f2}
  Interval <- Intervals
  Modulus = 2
  MaxGen = 1
  MaxThrows = 1
  Call <- Entry
  MaxFaults = 1
INVARIANTS
  CallsAnswered
  LoopKept
PROPERTY LoopLives
