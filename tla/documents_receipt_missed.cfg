SPECIFICATION Spec
CONSTANTS
  a1 = a1  cron = cron  k1 = k1  k2 = k2
  Postings = {p1, p2}
  Alone = {p2}
  Reports = {k1, k2}
  Requests = {a1, cron}
  Op <- OpReports
  Workers = {w1}
  MaxStalls = 1
  None = None
CHECK_DEADLOCK FALSE
INVARIANT ReceiptNotMissed
