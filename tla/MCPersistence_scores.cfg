SPECIFICATION Spec
CONSTANTS
  k1 = k1
  k2 = k2
  m1 = m1
  m2 = m2
  v1 = v1
  c1 = c1
  Keys = {k1}
  Members = {m1, m2}
  Strings = {v1}
  Contents = {}
  Scores <- Awkward
  Ttls = {0}
  Hash <- HashOne
  Base = 10
  LongBits = 8
  IntBits = 8
  Decimals = 2
  BufferLen = 7
  Garbage = Garbage
  NULL = NULL
  DefaultExpiry = 9
  MaxClock = 0
  MaxNodes = 1
PROPERTIES ImplementsDurable ShortScoresSurvive
CONSTRAINT NotBroken
