CONSTANTS
  k1 = k1  k2 = k2  k3 = k3
  Keys = {k1, k2, k3}
  Strings = {v1}
  Bitmap = bitmap  Zset = zset  NULL = NULL
  Ttls = {0}
  LoadExpiries = {0, 9}
  MaxDel = 2
  Addrs = {a1, a2, a3, a4}
  NBuckets = 2
  Hash <- Hash2
  DefaultExpiry = 9
  MaxClock = 1
SPECIFICATION Spec
SYMMETRY AddrSymmetry
CONSTRAINT OnlyLoadsAfterStale
CHECK_DEADLOCK FALSE
INVARIANTS TypeOK ListsWellFormed NodesAccounted KeysUnique UndefinedOnlyAfterStale
PROPERTIES DelDeletes OnlyNamedKeysChange ImplementsKeyspace
