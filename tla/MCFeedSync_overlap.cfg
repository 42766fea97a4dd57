CONSTANTS
  Trans = {x1}
  Syncs = {s1, s2}
  MaxMoments = 2
  MaxFails = 0
SPECIFICATION Spec
INVARIANTS
  CursorMeansSynced
SYMMETRY Symmetry
CHECK_DEADLOCK FALSE
