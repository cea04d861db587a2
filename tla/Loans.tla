------------------------------- MODULE Loans ---------------------------------
(***************************************************************************)
(* One loan, from its request to its last repayment: LoansService and the  *)
(* overdue job, run concurrently.                                          *)
(*                                                                         *)
(* disburse, recordRepayment and reschedule are $transactions: the         *)
(* installments they insert or change (touched) and the status they give   *)
(* the loan (loanWrite) stay private until they commit, and hold the row   *)
(* locks and the entries of the unique index on (loanId,                   *)
(* installmentNumber) meanwhile.  None of them reads FOR UPDATE.  submit,  *)
(* approve, reject and the overdue job run outside a transaction: each of  *)
(* their statements commits by itself.                                     *)
(***************************************************************************)
EXTENDS Transactions

CONSTANTS
  Borrower,       \* the loan's client
  Principal,      \* amounts in cents
  InterestDue,    \* principal times the rate fixed when the loan is created
  Months,         \* durationMonths
  PerMonth,       \* installments in a month: 30, 4 or 1, after the frequency
  Unit,           \* installments are rounded down to a multiple: 50 francs
  MaxNumber,      \* bound: largest installment number
  Desks,          \* bound: loan requests in flight at a time, jobs not counted
  Approvers       \* requests whose caller may approve a loan of this amount

VARIABLES
  loan,       \* committed status of the loan, "NONE" before it is created
  sched,      \* committed installment with each number
  touched,    \* installments a request inserted or changed, uncommitted
  loanWrite,  \* loan status a request wrote, uncommitted
  plan,       \* numbers of the installments a request read as unpaid and took
  owed,       \* amount a reschedule spreads over its new installments
  first       \* startingNumber of a reschedule

dbVars == <<removed, ledger, loan, sched>>
txVars == <<draft, touched, loanWrite>>
locals == <<row, plan, owed, first>>
vars   == <<dbVars, txVars, pc, locals>>

-----------------------------------------------------------------------------
(* Requests *)

Kinds == {"submit", "approve", "reject", "disburse", "repay", "reschedule",
          "overdue"}

\* amount is what is repaid, or the penalty of a reschedule; months is its new
\* duration; number is the installment an overdue job is about.
OpType == [kind: Kinds, key: Keys, amount: Int, months: Nat \ {0}, number: Nat]

ASSUME LoansAssumption ==
  /\ Borrower \in Clients
  /\ Op \in [Requests -> OpType]
  /\ Principal \in Nat \ {0} /\ InterestDue \in Nat
  /\ Months \in Nat \ {0} /\ PerMonth \in Nat \ {0}
  /\ Unit \in Nat \ {0}
  /\ MaxNumber \in Nat
  /\ Months * PerMonth \in 1..MaxNumber
  /\ Desks \in Nat \ {0}
  /\ None \notin {"DISBURSED", "CLOSED"}

NewMonths ==
  SumOf([r \in Requests |-> Op[r].months],
        {r \in Requests : Kind(r) = "reschedule"})

\* The bound leaves room for the installments of every reschedule.
ASSUME RoomAssumption ==
  MaxNumber >= PerMonth * (Months + NewMonths)

\* RescheduleLoanDto validates the penalty; what is repaid is not validated.
ASSUME PenaltyAssumption ==
  \A r \in Requests : Kind(r) = "reschedule" => Op[r].amount >= 0

Points == {"idle", "decide", "schedule", "find", "insert", "disburse", "read",
           "pay", "count", "close", "cancel", "number", "append", "overdue",
           "commit", "done", "failed"}

LoanStatuses == {"NONE", "DRAFT", "PENDING_APPROVAL", "APPROVED", "REJECTED",
                 "DISBURSED", "CLOSED"}

Numbers == 1..MaxNumber

\* Status NONE: no row has the number, or the request has not touched it.
Installment ==
  [due: Int, status: {"NONE", "PENDING", "PAID", "OVERDUE", "CANCELLED"},
   paidBy: Requests \cup {None}]

-----------------------------------------------------------------------------
(* Installments *)

Absent == [due |-> 0, status |-> "NONE", paidBy |-> None]
Untouched == [i \in Numbers |-> Absent]

Exists(v, i) == v[i].status # "NONE"

\* What a statement of r sees: committed rows and its own changes.
View(r) ==
  [i \in Numbers |-> IF Exists(touched[r], i) THEN touched[r][i] ELSE sched[i]]

Unpaid(v) == {i \in Numbers : v[i].status \in {"PENDING", "OVERDUE"}}

Due(v, S) == SumOf([i \in S |-> v[i].due], S)

\* The installments, oldest first, that an amount covers in full.
Covered_NewestFirst(v, amount) ==
  {i \in Unpaid(v) : Due(v, {j \in Unpaid(v) : j >= i}) <= amount}
Covered(v, amount) ==
  {i \in Unpaid(v) : Due(v, {j \in Unpaid(v) : j <= i}) <= amount}

\* count equal installments rounded down to the unit, the last one taking what
\* is left.
Base(total, count) == Unit * (total \div (count * Unit))
InstallmentDue_AllEqual(total, count, k) == Base(total, count)
InstallmentDue(total, count, k) ==
  IF k < count THEN Base(total, count)
  ELSE total - Base(total, count) * (count - 1)

NewInstallments(start, count, total) ==
  [i \in Numbers |->
     IF i \in start..(start + count - 1)
     THEN [due |-> InstallmentDue(total, count, i - start + 1),
           status |-> "PENDING", paidBy |-> None]
     ELSE Absent]

Total == Principal + InterestDue

-----------------------------------------------------------------------------
(* The database *)

\* Rows and numbers a transaction holds; of those it took, the ones it has not updated.
Held(r) == {i \in Numbers : Exists(touched[r], i)}
Left(r) == plan[r] \ Held(r)

\* No other transaction holds the row, or claims the number, of these.
RowsFree(r, S) == \A s \in Requests \ {r}, i \in S : ~Exists(touched[s], i)
LoanFree(r) == \A s \in Requests \ {r} : loanWrite[s] = None

\* Add to the private rows of r those of v.
Touch(r, v) ==
  touched' = [touched EXCEPT ![r] =
                [i \in Numbers |-> IF Exists(v, i) THEN v[i] ELSE touched[r][i]]]

EndTransaction(r) ==
  /\ DropDraft(r)
  /\ touched' = [touched EXCEPT ![r] = Untouched]
  /\ loanWrite' = [loanWrite EXCEPT ![r] = None]

Rollback(r) ==
  /\ Goto(r, "failed")
  /\ EndTransaction(r)
  /\ UNCHANGED <<dbVars, locals>>

\* INSERT of count rows numbered from start, in increasing order: fails when a number
\* is taken, waits while another transaction claims one.
NumberTaken_Never(start, count) == FALSE
NumberTaken(start, count) ==
  \E i \in Numbers : i \in start..(start + count - 1) /\ Exists(sched, i)

CreateMany(r, start, count, total, next) ==
  \/ NumberTaken(start, count) /\ Rollback(r)
  \/ /\ ~NumberTaken(start, count)
     /\ RowsFree(r, {i \in Numbers : i \in start..(start + count - 1)})
     /\ Touch(r, NewInstallments(start, count, total))
     /\ Goto(r, next)
     /\ UNCHANGED <<dbVars, draft, loanWrite, locals>>

Init ==
  /\ TransactionsInit
  /\ loan = "NONE"
  /\ sched = Untouched
  /\ touched = [r \in Requests |-> Untouched]
  /\ loanWrite = [r \in Requests |-> None]
  /\ plan = [r \in Requests |-> {}]
  /\ owed = [r \in Requests |-> 0]
  /\ first = [r \in Requests |-> 0]

-----------------------------------------------------------------------------
(* Request of the loan; clients *)

CreateLoan ==
  /\ loan = "NONE"
  /\ Borrower \notin removed
  /\ loan' = "DRAFT"
  /\ UNCHANGED <<removed, ledger, sched, txVars, pc, locals>>

ClientChanges(c) ==
  /\ SoftDelete(c) \/ Reactivate(c)
  /\ UNCHANGED <<ledger, loan, sched, txVars, pc, locals>>

-----------------------------------------------------------------------------
(* Every operation begins by reading the loan, without a lock, in the status *)
(* it requires.                                                              *)

IsJob(r) == Kind(r) = "overdue"

DeskFree ==
  Cardinality({s \in Requests : ~IsJob(s) /\ InFlight(s)}) < Desks

ReadLoan(r, kind, status, mayDo, next) ==
  /\ Starts(r, kind)
  /\ DeskFree
  /\ Goto(r, IF loan = status /\ mayDo THEN next ELSE "failed")
  /\ UNCHANGED <<dbVars, txVars, locals>>

SubmitRead(r)     == ReadLoan(r, "submit", "DRAFT", r \in InScope, "decide")
ApproveRead(r)    == ReadLoan(r, "approve", "PENDING_APPROVAL", r \in Approvers,
                              "decide")
RejectRead(r)     == ReadLoan(r, "reject", "PENDING_APPROVAL", TRUE, "decide")
DisburseRead(r)   == ReadLoan(r, "disburse", "APPROVED", r \in InScope, "schedule")
RepayRead(r)      == ReadLoan(r, "repay", "DISBURSED", r \in InScope, "read")
RescheduleRead(r) == ReadLoan(r, "reschedule", "DISBURSED", r \in InScope, "read")

\* The overdue job reads its installment.
OverdueRead(r) ==
  /\ Starts(r, "overdue")
  /\ Goto(r, IF Op[r].number \in Numbers /\ sched[Op[r].number].status = "PENDING"
             THEN "overdue" ELSE "done")
  /\ UNCHANGED <<dbVars, txVars, locals>>

-----------------------------------------------------------------------------
(* submitForApproval, approve, reject: the status is set by id, whatever it *)
(* has become since it was read.                                            *)

Decision(kind) ==
  CASE kind = "submit" -> "PENDING_APPROVAL"
    [] kind = "approve" -> "APPROVED"
    [] kind = "reject" -> "REJECTED"

Decide(r) ==
  /\ pc[r] = "decide"
  /\ LoanFree(r)
  /\ loan' = Decision(Kind(r))
  /\ Goto(r, "done")
  /\ UNCHANGED <<removed, ledger, sched, txVars, locals>>

-----------------------------------------------------------------------------
(* createTransaction, within disburse and recordRepayment *)

LoanRow(r) ==
  IF Kind(r) = "disburse" THEN NewRow(r, "LOAN_DISBURSEMENT", Borrower, Principal)
  ELSE NewRow(r, "LOAN_REPAYMENT", Borrower, Op[r].amount)

AfterRow(r) == IF Kind(r) = "disburse" THEN "disburse" ELSE "pay"

FindExisting(r) ==
  /\ pc[r] = "find"
  /\ \/ /\ ReturnExisting(r)
        /\ Goto(r, AfterRow(r))
        /\ UNCHANGED <<dbVars, txVars, plan, owed, first>>
     \/ /\ KeyFree(r) /\ MayPost(r, Borrower)
        /\ Goto(r, "insert")
        /\ UNCHANGED <<dbVars, txVars, locals>>
     \/ /\ KeyFree(r) /\ ~MayPost(r, Borrower)
        /\ Rollback(r)

Insert(r) ==
  /\ pc[r] = "insert"
  /\ ~InsertWaits(r)
  /\ \/ ~KeyFree(r) /\ Rollback(r)
     \/ /\ KeyFree(r)
        /\ InsertDraft(r, LoanRow(r))
        /\ Goto(r, AfterRow(r))
        /\ UNCHANGED <<removed, loan, sched, touched, loanWrite, plan, owed, first>>

-----------------------------------------------------------------------------
(* disburse *)

CreateSchedule(r) ==
  /\ pc[r] = "schedule"
  /\ CreateMany(r, 1, Months * PerMonth, Total, "find")

MarkLoan(r, status) ==
  /\ LoanFree(r)
  /\ loanWrite' = [loanWrite EXCEPT ![r] = status]
  /\ Goto(r, "commit")
  /\ UNCHANGED <<dbVars, draft, touched, locals>>

MarkDisbursed(r) == pc[r] = "disburse" /\ MarkLoan(r, "DISBURSED")

-----------------------------------------------------------------------------
(* recordRepayment *)

\* It reads the unpaid installments and takes those the amount covers; an
\* amount that is not exactly their sum is refused.
ChooseInstallments(r) ==
  LET take == Covered(sched, Op[r].amount)
  IN /\ pc[r] = "read" /\ Kind(r) = "repay"
     /\ IF take # {} /\ Due(sched, take) = Op[r].amount
        THEN plan' = [plan EXCEPT ![r] = take] /\ Goto(r, "find")
        ELSE UNCHANGED plan /\ Goto(r, "failed")
     /\ UNCHANGED <<dbVars, txVars, row, owed, first>>

\* New versions of the committed rows in S, whatever their status has become.
Restate_Unlinked(S, status, paidBy) ==
  [i \in Numbers |->
     IF i \in S
     THEN [due |-> sched[i].due, status |-> status, paidBy |-> sched[i].paidBy]
     ELSE Absent]
Restate(S, status, paidBy) ==
  [i \in Numbers |->
     IF i \in S
     THEN [due |-> sched[i].due, status |-> status, paidBy |-> paidBy[i]]
     ELSE Absent]

\* Each one is then marked by id, linked to the transaction row: an awaited update for
\* each, in the order they were read.
InTurn_AllAtOnce(r, i) == i \in Left(r)
InTurn(r, i) == i \in Left(r) /\ \A j \in Left(r) : i <= j

AfterUpdate(r, i, next) == Goto(r, IF Left(r) = {i} THEN next ELSE pc[r])

PayInstallments_OutsideTransaction(r) ==
  LET paid == Restate(plan[r], "PAID", [i \in Numbers |-> row[r]])
  IN /\ pc[r] = "pay"
     /\ RowsFree(r, plan[r])
     /\ sched' = [i \in Numbers |-> IF Exists(paid, i) THEN paid[i] ELSE sched[i]]
     /\ Goto(r, "count")
     /\ UNCHANGED <<removed, ledger, loan, txVars, locals>>
PayInstallments(r) ==
  /\ pc[r] = "pay"
  /\ \E i \in Numbers :
       /\ InTurn(r, i)
       /\ RowsFree(r, {i})
       /\ Touch(r, Restate({i}, "PAID", [j \in Numbers |-> row[r]]))
       /\ AfterUpdate(r, i, "count")
  /\ UNCHANGED <<dbVars, draft, loanWrite, locals>>

NoneLeft_OfCommitted(r) == Unpaid(sched) = {}
NoneLeft(r) == Unpaid(View(r)) = {}

CountUnpaid(r) ==
  /\ pc[r] = "count"
  /\ Goto(r, IF NoneLeft(r) THEN "close" ELSE "commit")
  /\ UNCHANGED <<dbVars, txVars, locals>>

CloseLoan(r) == pc[r] = "close" /\ MarkLoan(r, "CLOSED")

-----------------------------------------------------------------------------
(* reschedule *)

ReadUnpaid(r) ==
  /\ pc[r] = "read" /\ Kind(r) = "reschedule"
  /\ IF Unpaid(sched) # {}
     THEN /\ plan' = [plan EXCEPT ![r] = Unpaid(sched)]
          /\ owed' = [owed EXCEPT ![r] = Due(sched, Unpaid(sched)) + Op[r].amount]
          /\ Goto(r, "cancel")
     ELSE UNCHANGED <<plan, owed>> /\ Goto(r, "failed")
  /\ UNCHANGED <<dbVars, txVars, row, first>>

\* updateMany by id: the unpaid installments it read, whatever became of them, one row
\* after the other in the order the database scans them.
CancelInstallments(r) ==
  /\ pc[r] = "cancel"
  /\ \E i \in Left(r) :
       /\ RowsFree(r, {i})
       /\ Touch(r, Restate({i}, "CANCELLED", [j \in Numbers |-> sched[j].paidBy]))
       /\ AfterUpdate(r, i, "number")
  /\ UNCHANGED <<dbVars, draft, loanWrite, locals>>

StartingNumber_NextVal(r) ==
  Max({i \in Numbers : Exists(sched, i) \/ ~RowsFree(None, {i})} \cup {0}) + 1
StartingNumber(r) == Max({i \in Numbers : Exists(View(r), i)} \cup {0}) + 1

NextNumber(r) ==
  /\ pc[r] = "number"
  /\ first' = [first EXCEPT ![r] = StartingNumber(r)]
  /\ Goto(r, "append")
  /\ UNCHANGED <<dbVars, txVars, row, plan, owed>>

AppendInstallments(r) ==
  /\ pc[r] = "append"
  /\ CreateMany(r, first[r], Op[r].months * PerMonth, owed[r], "commit")

-----------------------------------------------------------------------------
(* The overdue job; the end of a transaction *)

StillPending_Unchecked(i) == TRUE
StillPending(i) == sched[i].status = "PENDING"

\* updateMany by id and status.
MarkOverdue(r) ==
  LET i == Op[r].number
  IN /\ pc[r] = "overdue"
     /\ RowsFree(r, {i})
     /\ sched' = [j \in Numbers |->
                    IF j = i /\ StillPending(i)
                    THEN [due |-> sched[i].due, status |-> "OVERDUE",
                          paidBy |-> sched[i].paidBy]
                    ELSE sched[j]]
     /\ Goto(r, "done")
     /\ UNCHANGED <<removed, ledger, loan, txVars, locals>>

Commit(r) ==
  /\ pc[r] = "commit"
  /\ Goto(r, "done")
  /\ ledger' = WithDraft(r)
  /\ sched' = View(r)
  /\ loan' = IF loanWrite[r] # None THEN loanWrite[r] ELSE loan
  /\ EndTransaction(r)
  /\ UNCHANGED <<removed, locals>>

\* Among the reasons for it: PostgreSQL found the transaction in a circle of waits.
Abort(r) == InFlight(r) /\ Rollback(r)

\* r may be waiting for s to end its transaction.
WaitsFor(r, s) ==
  /\ r # s
  /\ \/ pc[r] = "insert" /\ HoldsKey(s, Op[r].key)
     \/ pc[r] = "pay" /\ \E i \in Held(s) : InTurn(r, i)
     \/ pc[r] = "cancel" /\ Left(r) \cap Held(s) # {}
     \/ pc[r] = "overdue" /\ Op[r].number \in Held(s)
     \/ /\ pc[r] = "schedule"
        /\ \E i \in Held(s) : i <= Months * PerMonth
     \/ /\ pc[r] = "append"
        /\ \E i \in Held(s) : i >= first[r] /\ ~Exists(sched, i)
     \/ pc[r] \in {"decide", "disburse", "close"} /\ loanWrite[s] # None

Waiting == {r \in Requests : \E s \in Requests : WaitsFor(r, s)}

\* Requests each of which waits for one of them and is waited for by one of them.
Circle(S) ==
  /\ S # {}
  /\ \A r \in S : /\ \E s \in S : WaitsFor(r, s)
                  /\ \E s \in S : WaitsFor(s, r)

-----------------------------------------------------------------------------

Arrive(r) == \/ SubmitRead(r) \/ ApproveRead(r) \/ RejectRead(r)
             \/ DisburseRead(r) \/ RepayRead(r) \/ RescheduleRead(r)
             \/ OverdueRead(r)

Proceed(r) ==
  \/ Decide(r) \/ FindExisting(r) \/ Insert(r)
  \/ CreateSchedule(r) \/ MarkDisbursed(r)
  \/ ChooseInstallments(r) \/ PayInstallments(r) \/ CountUnpaid(r) \/ CloseLoan(r)
  \/ ReadUnpaid(r) \/ CancelInstallments(r) \/ NextNumber(r) \/ AppendInstallments(r)
  \/ MarkOverdue(r) \/ Commit(r)

Next == \/ CreateLoan
        \/ \E c \in Clients : ClientChanges(c)
        \/ \E r \in Requests : Arrive(r) \/ Proceed(r) \/ Abort(r)

Spec == Init /\ [][Next]_vars

-----------------------------------------------------------------------------
(* Properties *)

TypeOK ==
  /\ TransactionsTypeOK
  /\ loan \in LoanStatuses
  /\ sched \in [Numbers -> Installment]
  /\ touched \in [Requests -> [Numbers -> Installment]]
  /\ loanWrite \in [Requests -> {"DISBURSED", "CLOSED", None}]
  /\ pc \in [Requests -> Points]
  /\ plan \in [Requests -> SUBSET Numbers]
  /\ owed \in [Requests -> Int]
  /\ first \in [Requests -> Int]

Debt == Due(sched, Unpaid(sched))

Repayments == {s \in Requests : Posted(s) /\ ledger[s].type = "LOAN_REPAYMENT"}
Repaid == SumOf([s \in Repayments |-> ledger[s].amount], Repayments)

\* getLoanSchedule, amountPaid: what the booklet of the loan shows as paid.
AmountPaid == Due(sched, {i \in Numbers : sched[i].status = "PAID"})

Penalties ==
  SumOf([s \in Requests |-> Op[s].amount],
        {s \in Requests : Kind(s) = "reschedule" /\ pc[s] = "done"})

Contract == INSTANCE LoanContract WITH
  status <- loan, outstanding <- Debt, repaid <- Repaid

\* Seen through its debt and the rows of the ledger, the loan keeps its contract:
\* it is decided while pending, disbursed once, its debt falls by what the ledger
\* receives, and it is CLOSED by the repayment that leaves no installment unpaid,
\* whatever fails in between and whenever the overdue job runs (disburse,
\* recordRepayment, reschedule).
ContractKept == Contract!ContractSpec

\* Repayments and reschedules that were carried out, and what several of them took.
Takers == {r \in Requests : Kind(r) \in {"repay", "reschedule"} /\ pc[r] = "done"}
Taken == UNION {plan[r] : r \in Takers}
TakenAgain ==
  SumOf([r \in Takers |-> Due(sched, plan[r])], Takers) - Due(sched, Taken)

\* Rounding, splitting, repaying and rescheduling lose and create no money, whatever
\* overlaps: from the disbursement on, what is owed plus what was received is the
\* principal, the interest, the penalties and what overlapping requests took more
\* than once, as long as every repayment has a key of its own
\* (generateInstallmentAmounts, recordRepayment, reschedule).
DebtConserved ==
  (\E i \in Numbers : Exists(sched, i)) =>
    Debt + Repaid = Total + Penalties + TakenAgain

\* No other request took an installment that r took.
TookAlone(r) == \A s \in Takers \ {r} : plan[r] \cap plan[s] = {}

\* As long as every repayment has a key of its own, a repayment row pays for
\* installments of its own that add up to its amount, unless another request took one
\* of them; without that, the booklet shows what the ledger received
\* (recordRepayment, transactionId; getLoanSchedule).
BookletMatchesLedger ==
  /\ \A s \in Repayments :
       TookAlone(s) =>
         Due(sched, {i \in Numbers : sched[i].status = "PAID" /\ sched[i].paidBy = s})
           = ledger[s].amount
  /\ (\A s \in Repayments : TookAlone(s)) => AmountPaid = Repaid

\* Whatever requests overlap, the client is never credited with money that the
\* ledger did not receive and no debt disappears, as long as every repayment has a
\* key of its own: the booklet shows at most what was received, and from the
\* disbursement on what is owed plus what was received is at least the principal, the
\* interest and the penalties.  Two repayments of one installment, or two
\* reschedules, leave the client owing more, never less (recordRepayment,
\* reschedule, without a lock on what they read).
NeverShort ==
  /\ AmountPaid <= Repaid
  /\ (\E i \in Numbers : Exists(sched, i)) => Debt + Repaid >= Total + Penalties

\* Repayments are imputed first in, first out: no installment is paid while an
\* older one, not cancelled, is unpaid (recordRepayment).
PaidInOrder ==
  \A i, j \in Numbers :
    i < j /\ sched[j].status = "PAID" => sched[i].status \in {"PAID", "CANCELLED"}

\* The money leaves once: even when a late approval puts a disbursed loan back to
\* APPROVED, a second disbursement fails on the numbers of its installments.
\* (disburse inserts the schedule before the transaction row.)
DisbursedOnce ==
  \A r, s \in Requests :
    /\ Posted(r) /\ ledger[r].type = "LOAN_DISBURSEMENT"
    /\ Posted(s) /\ ledger[s].type = "LOAN_DISBURSEMENT"
    => r = s

Settled(i) == sched[i].status \in {"PAID", "CANCELLED"}

\* An installment that was paid or cancelled never becomes unpaid again, whatever
\* runs at the same time; the overdue job in particular leaves it alone
\* (overdue.processor.ts:26: deja traite ou paye entre-temps).
SettledStays == [][\A i \in Numbers : Settled(i) => Settled(i)']_vars

\* The numbers of a loan's installments have no gap, however its reschedules and
\* repayments interleave (reschedule, startingNumber).
NumbersHaveNoGap ==
  \A i, j \in Numbers : i < j /\ Exists(sched, j) => Exists(sched, i)

\* A paid installment stays linked to the transaction that paid it
\* (loans.service.ts:477).
PaidOnce ==
  [][\A i \in Numbers :
       sched[i].status = "PAID" /\ sched'[i].status = "PAID"
         => sched'[i].paidBy = sched[i].paidBy]_vars

\* Requests wait for each other in a circle only around a reschedule that has cancelled
\* some of the installments it took and not all of them: disbursements and repayments
\* among themselves never do, since they take keys, installments in the order of their
\* numbers, and the loan, in this order (recordRepayment, disburse, reschedule).
CirclesNeedReschedule ==
  \A S \in SUBSET Waiting :
    Circle(S) => \E r \in S : pc[r] = "cancel" /\ Held(r) # {}
=============================================================================
