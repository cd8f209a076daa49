SPECIFICATION Spec
CONSTANTS
  k1 = k1
  k2 = k2
  m1 = m1
  m2 = m2
  v1 = v1
  c1 = c1
  Keys = {k1, k2}
  Members = {m1, m2}
  Strings = {v1}
  Contents = {c1}
  Scores = {1000, 2000}
  Ttls = {1}
  Hash <- HashOne
  Base = 10
  LongBits = 8
  IntBits = 8
  Decimals = 2
  BufferLen = 7
  Garbage = Garbage
  NULL = NULL
  DefaultExpiry = 9
  MaxClock = 2
  MaxNodes = 2
INVARIANT TypeOK
PROPERTIES ImplementsDurable LoadsUnlessMetOrTorn
CONSTRAINT Small
SYMMETRY Names
