SPECIFICATION Spec
SYMMETRY Alike
CONSTANTS
  eve = eve  day1 = day1  day2 = day2  k1 = k1  k2 = k2  k3 = k3
  t1 = t1  t2 = t2  t3 = t3  x1 = x1  x2 = x2  x3 = x3  m1 = m1
  NoRow = NoRow  None = None
  Clients = {eve}
  Saver = eve
  Collections = {day1, day2}
  Keys = {k1, k2, k3}
  Requests = {t1, t2, t3, x1, x2, x3, m1}
  Op <- OpCycle
  InScope = {t1, t2, t3, x1, x2, x3, m1}
  Amount = 3
  FeeNum = 1
  FeeDen = 3
INVARIANT CollectionBacked
INVARIANT CollectionsMatchLedger
INVARIANT NeverOverpaid
PROPERTY MissedSparesCollected
CHECK_DEADLOCK FALSE
