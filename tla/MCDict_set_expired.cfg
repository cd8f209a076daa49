CONSTANTS
  k1 = k1  k2 = k2  k3 = k3
  Keys = {k1, k2}
  Strings = {v1}
  Bitmap = bitmap  Zset = zset  NULL = NULL
  Ttls = {0, 1}
  LoadExpiries = {}
  MaxDel = 1
  Addrs = {a1, a2, a3}
  NBuckets = 1
  Hash <- Hash1
  DefaultExpiry = 9
  MaxClock = 2
SPECIFICATION Spec
SYMMETRY AddrSymmetry
CHECK_DEADLOCK FALSE
PROPERTIES SetOverwrites
