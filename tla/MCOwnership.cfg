CONSTANTS
  k1 = k1  k2 = k2  m1 = m1  m2 = m2  NULL = NULL
  Keys = {k1, k2}
  Members = {m1, m2}
  MemberLists <- Lists
  DelLists <- Dels
  FlushOrders <- Orders
  MaxGarbage = 1
CHECK_DEADLOCK FALSE
SPECIFICATION Spec
INVARIANTS TypeOK OwnedOnce BrokenOnlyByThese RepliesAlive LostOnly
