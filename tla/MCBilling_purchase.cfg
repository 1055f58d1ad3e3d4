SPECIFICATION FairSpec

CONSTANTS
  Account = {a1}
  Order = o1
  Thread = {t1, t2}
  p1 = p1
  p2 = p2
  Purchase = {p1}
  SkuOf <- OneSku
  User = {u1, u2}
  MaxFaults = 2

INVARIANTS TypeOK ConsumedIsCredited
PROPERTIES PurchaseSettles CrashNeedsFault ImplementsLedger

CHECK_DEADLOCK FALSE
