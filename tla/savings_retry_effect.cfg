SPECIFICATION Spec
CONSTANTS
  alice = alice  a1 = a1  a2 = a2  k1 = k1  k2 = k2  k3 = k3  k4 = k4  k5 = k5
  d1 = d1  d2 = d2  d3 = d3  w1 = w1  w2 = w2  i1 = i1  i2 = i2  c1 = c1  c2 = c2  p1 = p1
  NoRow = NoRow  None = None
  Clients = {alice}
  Accounts = {a1}
  Owner <- OwnerAlice
  Keys = {k1, k2, k3, k4, k5}
  Requests = {d1, d2}
  Op <- OpRetry
  InScope = {d1, d2}
  InterestWorkers = 1
  RateNum = 1
  RateDen = 2
PROPERTY RetryHasNoEffect
