SPECIFICATION FairSpec
CONSTANTS
  s1 = s1
  s2 = s2
  Stored = {s1, s2}
  Temp = {t1}
  Fresh = {g1}
  Opt = {o}
  Val = {a, b}
  Empty = Empty
  Nil = Nil
  InitialOrder <- Order
  InitialOptions <- Package
  a = a
  FirstNewIndex = 1000
  MaxEdits = 3
  MaxFails = 1
INVARIANTS
  EditsAgree
  SavedIsShown
PROPERTIES
  ImplementsTable
  SaveEnds
CHECK_DEADLOCK FALSE
