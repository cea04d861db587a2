------------------------------ MODULE MCLoans --------------------------------
(***************************************************************************)
(* Instances of Loans for TLC: a loan of 3 with 2 of interest, repaid in   *)
(* two installments of 2 and 3, and the requests each run needs.           *)
(***************************************************************************)
EXTENDS Loans, TLC

CONSTANTS bob, k0, k1, k2, k3, k4, su, ap, ap2, rj, di, di2, r1, r2, r3, rs, rs2, rs3, ov

Ask(kind, key, amount, months, number) ==
  [kind |-> kind, key |-> key, amount |-> amount, months |-> months,
   number |-> number]

Steps(r) ==
  CASE r = su -> Ask("submit", k0, 0, 1, 0)
    [] r \in {ap, ap2} -> Ask("approve", k0, 0, 1, 0)
    [] r = rj -> Ask("reject", k0, 0, 1, 0)
    [] r = di -> Ask("disburse", k1, 0, 1, 0)
    [] r = di2 -> Ask("disburse", k4, 0, 1, 0)
    [] OTHER -> Ask("overdue", k0, 0, 1, 2)

\* A repayment of the first installment, one of what a reschedule leaves, one of
\* nothing, and a reschedule over three months with a penalty of 1: it makes
\* three installments of 2, or after the first repayment, with the unit of 2,
\* installments of 0, 0 and 4.
OpLife == [r \in Requests |->
  CASE r = r1 -> Ask("repay", k2, 2, 1, 0)
    [] r = r2 -> Ask("repay", k3, 4, 1, 0)
    [] r = r3 -> Ask("repay", k4, 0, 1, 0)
    [] r = rs -> Ask("reschedule", k0, 1, 3, 0)
    [] OTHER -> Steps(r)]

\* Two repayments of both installments, and three reschedules with a penalty of 1.
OpOverlap == [r \in Requests |->
  CASE r = r1 -> Ask("repay", k2, 5, 1, 0)
    [] r = r2 -> Ask("repay", k3, 5, 1, 0)
    [] r \in {rs, rs2, rs3} -> Ask("reschedule", k0, 1, 1, 0)
    [] OTHER -> Steps(r)]

\* The approvals are alike, and so are the reschedules, the disbursements and the
\* repayments, but for their keys.
Swapped(a, b, k, l) == a :> b @@ b :> a @@ k :> l @@ l :> k

Alike ==
  Permutations({ap, ap2}) \cup Permutations({rs, rs2, rs3})
    \cup {Swapped(di, di2, k1, k4), Swapped(r1, r2, k2, k3)}

\* Two repayments of the first installment, and reschedules with a penalty of 1.
OpTwice == [r \in Requests |->
  CASE r = r1 -> Ask("repay", k2, 2, 1, 0)
    [] r = r2 -> Ask("repay", k3, 2, 1, 0)
    [] r \in {rs, rs2, rs3} -> Ask("reschedule", k0, 1, 1, 0)
    [] OTHER -> Steps(r)]
=============================================================================
