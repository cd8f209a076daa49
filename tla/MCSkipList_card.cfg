CONSTANTS
  Members = {1, 2, 3}
  MaxPairs = 1  MaxScore = 1
  Scores = {0, 1}
  Bounds = {}
  Indices = {}
  NULL = NULL  HEAD = HEAD
  Towers = {t1, t2, t3, t4}
  MaxLevel = 2  Sentinel = 2
SPECIFICATION Spec
SYMMETRY TowerSymmetry
CHECK_DEADLOCK FALSE
INVARIANTS CardIsMembers
