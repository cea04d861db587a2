SPECIFICATION FairSpec
CONSTANTS
  rate = rate  view = view
  g1 = g1  g2 = g2  s1 = s1  s2 = s2  v1 = v1  p1 = p1
  first = first  low = low  high = high
  None = None
  Seeds = {seed}
  Roles = {"SuperAdmin", "Manager"}
  Permissions = {"settings", "loans:create", "loans:approve"}
  Settings = {rate}
  Views = {view}
  Default <- DefaultFirst
  Requests = {g1, s1, s2, v1, p1}
  Op <- OpRates
INVARIANT SeedRepairs
INVARIANT ServedWasStored
INVARIANT StaleNeedsRace
PROPERTY FreshInTheEnd
CHECK_DEADLOCK FALSE
