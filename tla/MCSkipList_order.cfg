CONSTANTS
  Members = {1, 2, 3}
  MaxPairs = 1  MaxScore = 1
  Scores <- Range1
  Bounds <- Ends
  Indices <- Range1
  NULL = NULL  HEAD = HEAD
  Towers = {t1, t2, t3}
  MaxLevel = 2  Sentinel = 3
SPECIFICATION Spec
SYMMETRY TowerSymmetry
CONSTRAINT SmallSpans
CHECK_DEADLOCK FALSE
INVARIANTS TypeOK SpansRight MembersInOrder DanglingOnlyAfterTie
PROPERTIES ImplementsSortedSet
