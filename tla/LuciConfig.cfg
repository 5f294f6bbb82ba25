CONSTANTS
  Net = {"lan", "wan"}
  Zid = {1, 2}
  ZoneName = {"a", "b", "c"}
  Rid = {"r"}
  Wid = {"w"}
  MaxSteps = 4
  Nil = Nil
SPECIFICATION Spec
INVARIANTS
  RefsResolve
  ZoneSaved
CHECK_DEADLOCK FALSE
