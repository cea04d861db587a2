----------------------------- MODULE MCSavings ------------------------------
(***************************************************************************)
(* Instances of Savings for TLC: one client, one or two accounts, and the  *)
(* requests each run needs.  The rate is 1/2 so that small balances earn.  *)
(***************************************************************************)
EXTENDS Savings, TLC

CONSTANTS alice, a1, a2, k1, k2, k3, k4, k5,
          d1, d2, d3, w1, w2, i1, i2, c1, c2, p1

OwnerAlice == [a \in Accounts |-> alice]

Ask(kind, account, type, amount, key) ==
  [kind |-> kind, account |-> account, type |-> type, amount |-> amount,
   key |-> key]

Deposit(account, amount, key) == Ask("deposit", account, "DEPOSIT", amount, key)
Withdraw(account, amount, key) ==
  Ask("withdraw", account, "WITHDRAWAL", amount, key)
InterestJob(account, month) == Ask("interest", account, "DEPOSIT", 0, month)
CancelOf == Ask("cancel", a1, "DEPOSIT", 0, k1)

\* Two withdrawals that one deposit cannot both cover, two executions of the
\* interest job for one month and two cancellations, over two accounts.
Core == [r \in Requests |->
  CASE r = d1 -> Deposit(a1, 4, k1)
    [] r = w1 -> Withdraw(a1, 3, k3)
    [] r = w2 -> Withdraw(a1, 3, k4)
    [] r \in {i1, i2} -> InterestJob(a1, k5)
    [] r \in {c1, c2} -> CancelOf]

\* The two interest jobs are the same, and so are the two cancellations.
Alike == Permutations({i1, i2}) \cup Permutations({c1, c2})

\* A deposit that may be sent twice; a withdrawal, another deposit and a disbursement
\* posted by hand, which must not be cancelled, under one key; the interest job; and a
\* cancellation.
Retry == [r \in Requests |->
  CASE r \in {d1, d2} -> Deposit(a1, 4, k1)
    [] r = d3 -> Deposit(a1, 4, k2)
    [] r = w1 -> Withdraw(a1, 3, k2)
    [] r = i1 -> InterestJob(a1, k5)
    [] r = p1 -> Ask("post", a1, "LOAN_DISBURSEMENT", 4, k2)
    [] r = c1 -> CancelOf]

\* Two cancellations at a time.
Cancellations == [r \in Requests |->
  CASE r = d1 -> Deposit(a1, 4, k1)
    [] r = w1 -> Withdraw(a1, 3, k3)
    [] r \in {c1, c2} -> CancelOf]

\* TLC evaluates these once, what stands for a constant at every use.
OpCore == Core
OpRetry == Retry
OpCancel == Cancellations
=============================================================================
