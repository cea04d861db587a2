SPECIFICATION Spec
CONSTANTS
  l1 = l1  l2 = l2  f1 = f1  f2 = f2  f3 = f3
  out = out  rv = rv  ro = ro  fg = fg  rs = rs
  NoToken = NoToken
  Requests = {l1, l2, f1, f2, f3, out, rv, ro, fg, rs}
  Op <- OpFamily
INVARIANT RotatedIsRevoked
INVARIANT OneLive
PROPERTY EndedStays
CHECK_DEADLOCK FALSE
