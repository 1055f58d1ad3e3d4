SPECIFICATION FairSpec

CONSTANTS
  Account = {a1}
  Order = o1
  Thread = {t1}
  p1 = p1
  p2 = p2
  Purchase = {p1, p2}
  SkuOf <- TwoSkus
  User = {u1}
  MaxFaults = 0

INVARIANTS OneAtATime

CHECK_DEADLOCK FALSE
