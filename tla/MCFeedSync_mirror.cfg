CONSTANTS
  Trans = {x1, x2}
  Syncs = {s1, s2}
  MaxMoments = 2
  MaxFails = 1
SPECIFICATION FairSpec
INVARIANTS
  TypeOK
  CursorCovers
PROPERTIES
  CatchesUp
CHECK_DEADLOCK FALSE
