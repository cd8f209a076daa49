CONSTANTS
  Members = {1, 2}
  MaxPairs = 2  MaxScore = 1
  Scores = {0, 1}
  Bounds = {0}
  Indices <- Range1
  NULL = NULL  HEAD = HEAD
  Towers = {t1, t2, t3}
  MaxLevel = 2  Sentinel = 2
SPECIFICATION FairSpec
CHECK_DEADLOCK FALSE
INVARIANTS MembersInOrder
PROPERTIES ImplementsSortedSet Answered
