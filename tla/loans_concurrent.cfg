SPECIFICATION Spec
SYMMETRY Alike
CONSTANTS
  bob = bob  k0 = k0  k1 = k1  k2 = k2  k3 = k3  k4 = k4  su = su  ap = ap  ap2 = ap2  rj = rj
  di = di  di2 = di2  r1 = r1  r2 = r2  r3 = r3  rs = rs  rs2 = rs2  rs3 = rs3  ov = ov
  NoRow = NoRow  None = None
  Clients = {bob}
  Borrower = bob
  Keys = {k0, k1, k2, k3, k4}
  Requests = {su, ap, ap2, di, di2, r1, r2, rs, rs2, rs3}
  Op <- OpOverlap
  InScope = {su, ap, ap2, di, di2, r1, r2, rs, rs2, rs3}
  Approvers = {ap, ap2}
  Principal = 3
  InterestDue = 2
  Months = 2
  PerMonth = 1
  Unit = 1
  MaxNumber = 5
  Desks = 2
INVARIANT DisbursedOnce
INVARIANT NumbersHaveNoGap
INVARIANT NeverShort
INVARIANT DebtConserved
INVARIANT CirclesNeedReschedule
CHECK_DEADLOCK FALSE
