---------------------------- MODULE LoansProofs -----------------------------
(***************************************************************************)
(* Theorems about Loans for every set of requests, every loan, every       *)
(* amount and any number of requests in flight: the disbursement, the      *)
(* numbers, the order of payments, the books and who may wait for whom.    *)
(***************************************************************************)
EXTENDS Loans, TransactionsProofs, FiniteSetTheorems

\* The types the proofs need.
Shape ==
  /\ TransactionsTypeOK
  /\ pc \in [Requests -> Points]
  /\ touched = [r \in Requests |-> touched[r]]
  /\ plan \in [Requests -> SUBSET Numbers]

\* Which operations reach which control points.
KindPoints ==
  \A r \in Requests :
    /\ pc[r] \in {"schedule", "disburse"} => Kind(r) = "disburse"
    /\ pc[r] \in {"find", "insert"} => Kind(r) \in {"disburse", "repay"}
    /\ pc[r] \in {"pay", "count", "close"} => Kind(r) = "repay"
    /\ pc[r] \in {"cancel", "number", "append"} => Kind(r) = "reschedule"
    /\ pc[r] = "overdue" => Op[r].number \in Numbers /\ Exists(sched, Op[r].number)

\* A request's row is private until it commits, and keeps what it was given.
RowLifecycle ==
  \A r \in Requests :
    /\ Posted(r) => pc[r] = "done"
    /\ Drafted(r) => /\ pc[r] \in {"disburse", "pay", "count", "close", "commit"}
                     /\ draft[r].key = Op[r].key
                     /\ draft[r].status = "COMPLETED"
                     /\ draft[r].type = "LOAN_DISBURSEMENT" => Kind(r) = "disburse"

\* An installment is held by one request at most.  Who holds one that exists has
\* settled it, who holds one that does not has inserted it.
ClaimInv ==
  \A r \in Requests, i \in Numbers :
    Exists(touched[r], i) =>
      /\ \A s \in Requests \ {r} : ~Exists(touched[s], i)
      /\ IF Exists(sched, i) THEN touched[r][i].status \in {"PAID", "CANCELLED"}
                             ELSE touched[r][i].status = "PENDING"

\* The installments a request took exist, whatever their status has become.
PlanInv == \A r \in Requests : \A i \in plan[r] : Exists(sched, i)

LoanInv == Shape /\ KindPoints /\ RowLifecycle /\ ClaimInv /\ PlanInv

-----------------------------------------------------------------------------

USE DEF Posted, Drafted, Kind, Goto, Starts, DropDraft, TransactionsTypeOK,
        L!LedgerTypeOK, dbVars, txVars, locals, Shape, LoanInv

LEMMA LoanRowType ==
  ASSUME NEW r \in Requests
  PROVE  /\ LoanRow(r) \in L!Rows
         /\ LoanRow(r) # NoRow
         /\ LoanRow(r).key = Op[r].key
         /\ LoanRow(r).status = "COMPLETED"
         /\ LoanRow(r).type = "LOAN_DISBURSEMENT" => Kind(r) = "disburse"
<1>1. Principal \in Int /\ Op[r].amount \in Int /\ Borrower \in Clients
  BY LoansAssumption DEF OpType
<1>2. {"LOAN_DISBURSEMENT", "LOAN_REPAYMENT"} \subseteq L!Types
  BY DEF L!Types
<1>3. CASE Kind(r) = "disburse"
  BY <1>1, <1>2, <1>3, NewRowType DEF LoanRow
<1>4. CASE Kind(r) # "disburse"
  <2>1. LoanRow(r).type = "LOAN_REPAYMENT"
    BY <1>4 DEF LoanRow, NewRow
  <2>2. QED
    BY <1>1, <1>2, <1>4, <2>1, NewRowType DEF LoanRow
<1>5. QED
  BY <1>3, <1>4

LEMMA InitLoan == Init => LoanInv
<1> SUFFICES ASSUME Init PROVE LoanInv
  OBVIOUS
<1>1. Shape
  BY DEF Init, TransactionsInit, Points
<1>2. KindPoints /\ RowLifecycle
  BY DEF Init, TransactionsInit, KindPoints, RowLifecycle
<1>3. ClaimInv /\ PlanInv
  BY DEF Init, ClaimInv, PlanInv, Untouched, Absent, Exists
<1>4. QED
  BY <1>1, <1>2, <1>3

LEMMA RollbackLoan ==
  ASSUME LoanInv, NEW r \in Requests, Rollback(r), pc[r] # "done"
  PROVE  LoanInv'
<1>1. Shape'
  BY DEF Rollback, EndTransaction, Points
<1>2. KindPoints' /\ RowLifecycle'
  BY DEF Rollback, EndTransaction, KindPoints, RowLifecycle
<1>3. ClaimInv' /\ PlanInv'
  BY DEF Rollback, EndTransaction, ClaimInv, PlanInv, Exists, Untouched, Absent
<1>4. QED
  BY <1>1, <1>2, <1>3

\* A step that touches no installment.
LEMMA IdleClaims ==
  ASSUME LoanInv, UNCHANGED <<sched, touched, plan>>
  PROVE  ClaimInv' /\ PlanInv'
BY DEF ClaimInv, PlanInv, Exists

LEMMA ArriveLoan ==
  ASSUME LoanInv, NEW r \in Requests, Arrive(r)
  PROVE  LoanInv'
<1>1. UNCHANGED <<dbVars, txVars, locals>>
  BY DEF Arrive, SubmitRead, ApproveRead, RejectRead, DisburseRead, RepayRead,
     RescheduleRead, OverdueRead, ReadLoan
<1>2. /\ pc[r] = "idle"
      /\ \E point \in Points :
           /\ pc' = [pc EXCEPT ![r] = point]
           /\ point \in {"decide", "failed", "done", "read", "schedule", "overdue"}
           /\ point = "schedule" => Kind(r) = "disburse"
           /\ point = "overdue" => /\ Op[r].number \in Numbers
                                  /\ Exists(sched, Op[r].number)
  <2>1. CASE OverdueRead(r)
    BY <2>1 DEF OverdueRead, Points, Exists
  <2>2. CASE ~OverdueRead(r)
    BY <2>2 DEF Arrive, SubmitRead, ApproveRead, RejectRead, DisburseRead, RepayRead,
       RescheduleRead, ReadLoan, Points
  <2>3. QED
    BY <2>1, <2>2
<1>3. Shape' /\ KindPoints' /\ RowLifecycle'
  BY <1>1, <1>2 DEF KindPoints, RowLifecycle, Exists
<1>4. QED
  BY <1>1, <1>3, IdleClaims

\* What a transaction adds to its private installments: new versions of some that
\* exist, settled, or new ones.
LEMMA TouchLoan ==
  ASSUME LoanInv, NEW r \in Requests, NEW v, Touch(r, v), UNCHANGED <<sched, plan>>,
         \A i \in Numbers :
           Exists(v, i) =>
             /\ \A s \in Requests \ {r} : ~Exists(touched[s], i)
             /\ IF Exists(sched, i) THEN v[i].status \in {"PAID", "CANCELLED"}
                                    ELSE v[i].status = "PENDING"
  PROVE  /\ touched' = [s \in Requests |-> touched'[s]]
         /\ \A i \in Numbers : Exists(touched'[r], i) <=>
                                 Exists(v, i) \/ Exists(touched[r], i)
         /\ ClaimInv' /\ PlanInv'
<1>1. /\ touched' = [s \in Requests |-> touched'[s]]
      /\ \A s \in Requests \ {r} : touched'[s] = touched[s]
      /\ \A i \in Numbers :
           touched'[r][i] = IF Exists(v, i) THEN v[i] ELSE touched[r][i]
  BY DEF Touch
<1>2. ClaimInv'
  BY <1>1 DEF ClaimInv, Exists
<1>3. PlanInv'
  BY DEF PlanInv, Exists
<1>4. \A i \in Numbers : Exists(touched'[r], i) <=>
                           Exists(v, i) \/ Exists(touched[r], i)
  BY <1>1 DEF Exists
<1>5. QED
  BY <1>1, <1>2, <1>3, <1>4

LEMMA NewInstallmentsStatus ==
  ASSUME NEW start, NEW count, NEW total, NEW i \in Numbers
  PROVE  NewInstallments(start, count, total)[i].status =
           IF i \in start..(start + count - 1) THEN "PENDING" ELSE "NONE"
BY DEF NewInstallments, Absent

\* Inserting installments either fails or claims their numbers.
LEMMA CreateManyLoan ==
  ASSUME LoanInv, NEW r \in Requests, NEW start, NEW count, NEW total, NEW next,
         CreateMany(r, start, count, total, next), ~Rollback(r)
  PROVE  /\ touched' = [s \in Requests |-> touched'[s]]
         /\ \A i \in Numbers :
              i \in start..(start + count - 1) => Exists(touched'[r], i)
         /\ ClaimInv' /\ PlanInv'
<1> DEFINE v == NewInstallments(start, count, total)
<1>1. /\ ~NumberTaken(start, count)
      /\ RowsFree(r, {i \in Numbers : i \in start..(start + count - 1)})
      /\ Touch(r, v)
      /\ UNCHANGED <<sched, plan>>
  BY DEF CreateMany
<1>2. \A i \in Numbers : Exists(v, i) <=> i \in start..(start + count - 1)
  BY NewInstallmentsStatus DEF Exists
<1>3. \A i \in Numbers :
        Exists(v, i) => /\ \A s \in Requests \ {r} : ~Exists(touched[s], i)
                        /\ ~Exists(sched, i)
                        /\ v[i].status = "PENDING"
  BY <1>1, <1>2, NewInstallmentsStatus DEF NumberTaken, RowsFree
<1> HIDE DEF v
<1>4. QED
  BY <1>1, <1>2, <1>3, TouchLoan

\* What a repayment, or a reschedule, makes of an installment it took, and where it
\* goes after the last one.
Version(r, i) ==
  IF pc[r] = "pay" THEN [due |-> sched[i].due, status |-> "PAID", paidBy |-> row[r]]
  ELSE [due |-> sched[i].due, status |-> "CANCELLED", paidBy |-> sched[i].paidBy]

AfterLast(r) == IF pc[r] = "pay" THEN "count" ELSE "number"

\* Both update one installment at a time, that nobody else holds.
Updates(r, i) ==
  /\ i \in plan[r] /\ i \in Numbers /\ i \in Left(r)
  /\ pc[r] = "pay" => InTurn(r, i)
  /\ RowsFree(r, {i})
  /\ Touch(r, [j \in Numbers |-> IF j = i THEN Version(r, i) ELSE Absent])
  /\ pc' = [pc EXCEPT ![r] = IF Left(r) = {i} THEN AfterLast(r) ELSE pc[r]]

LEMMA OneRow ==
  ASSUME LoanInv, NEW r \in Requests, PayInstallments(r) \/ CancelInstallments(r)
  PROVE  /\ PayInstallments(r) => pc[r] = "pay" /\ Kind(r) = "repay"
         /\ CancelInstallments(r) => pc[r] = "cancel" /\ Kind(r) = "reschedule"
         /\ UNCHANGED <<dbVars, draft, loanWrite, locals>>
         /\ \E i \in Numbers : Updates(r, i)
<1>1. CASE PayInstallments(r)
  <2>1. pc[r] = "pay" /\ Kind(r) = "repay" /\ UNCHANGED <<dbVars, draft, loanWrite, locals>>
    BY <1>1 DEF PayInstallments, KindPoints
  <2>2. PICK i \in Numbers :
          /\ InTurn(r, i) /\ RowsFree(r, {i}) /\ AfterUpdate(r, i, "count")
          /\ Touch(r, Restate({i}, "PAID", [j \in Numbers |-> row[r]]))
    BY <1>1 DEF PayInstallments
  <2>3. Restate({i}, "PAID", [j \in Numbers |-> row[r]]) =
          [j \in Numbers |-> IF j = i THEN Version(r, i) ELSE Absent]
    BY <2>1 DEF Restate, Version
  <2>4. QED
    BY <2>1, <2>2, <2>3 DEF Updates, AfterUpdate, AfterLast, InTurn, Left, CancelInstallments
<1>2. CASE CancelInstallments(r)
  <2>1. /\ pc[r] = "cancel" /\ Kind(r) = "reschedule"
        /\ UNCHANGED <<dbVars, draft, loanWrite, locals>>
    BY <1>2 DEF CancelInstallments, KindPoints
  <2>2. PICK i \in Left(r) :
          /\ RowsFree(r, {i}) /\ AfterUpdate(r, i, "number")
          /\ Touch(r, Restate({i}, "CANCELLED", [j \in Numbers |-> sched[j].paidBy]))
    BY <1>2 DEF CancelInstallments
  <2>3. i \in Numbers
    BY DEF Left
  <2>4. Restate({i}, "CANCELLED", [j \in Numbers |-> sched[j].paidBy]) =
          [j \in Numbers |-> IF j = i THEN Version(r, i) ELSE Absent]
    BY <2>1, <2>3 DEF Restate, Version
  <2>5. QED
    BY <2>1, <2>2, <2>3, <2>4 DEF Updates, AfterUpdate, AfterLast, Left, PayInstallments
<1>3. QED
  BY <1>1, <1>2

\* Such an update adds one installment, which exists, to those r holds.
LEMMA UpdateLoan ==
  ASSUME LoanInv, NEW r \in Requests, NEW i \in Numbers, Updates(r, i),
         UNCHANGED <<sched, plan>>
  PROVE  /\ touched' = [s \in Requests |-> touched'[s]]
         /\ \A s \in Requests \ {r} : touched'[s] = touched[s]
         /\ \A j \in Numbers :
              touched'[r][j] = IF j = i THEN Version(r, i) ELSE touched[r][j]
         /\ Exists(sched, i) /\ Exists(touched'[r], i)
         /\ ClaimInv' /\ PlanInv'
<1> DEFINE v == [j \in Numbers |-> IF j = i THEN Version(r, i) ELSE Absent]
<1>1. Version(r, i).status \in {"PAID", "CANCELLED"}
  BY DEF Version
<1>2. \A j \in Numbers : Exists(v, j) <=> j = i
  BY <1>1 DEF Exists, Absent
<1>3. v[i] = Version(r, i) /\ Touch(r, v)
  BY DEF Updates
<1>4. Exists(sched, i)
  BY DEF Updates, PlanInv
<1> HIDE DEF v
<1>5. touched' = [s \in Requests |-> touched'[s]] /\ ClaimInv' /\ PlanInv'
  BY <1>1, <1>2, <1>3, <1>4, TouchLoan DEF Updates, RowsFree
<1>6. /\ \A s \in Requests \ {r} : touched'[s] = touched[s]
      /\ \A j \in Numbers : touched'[r][j] = IF Exists(v, j) THEN v[j] ELSE touched[r][j]
  BY <1>3 DEF Touch
<1>7. \A j \in Numbers :
        touched'[r][j] = IF j = i THEN Version(r, i) ELSE touched[r][j]
  BY <1>2, <1>3, <1>6
<1>8. Exists(touched'[r], i)
  BY <1>1, <1>7 DEF Exists
<1>9. QED
  BY <1>4, <1>5, <1>6, <1>7, <1>8

\* Which keeps what every request relies on.
LEMMA RowByRowLoan ==
  ASSUME LoanInv, NEW r \in Requests, PayInstallments(r) \/ CancelInstallments(r)
  PROVE  LoanInv'
<1>1. /\ UNCHANGED <<removed, ledger, sched, draft, row, plan>>
      /\ \/ pc[r] = "pay" /\ Kind(r) = "repay"
         \/ pc[r] = "cancel" /\ Kind(r) = "reschedule"
  BY OneRow
<1>2. PICK i \in Numbers : Updates(r, i)
  BY OneRow
<1>3. touched' = [s \in Requests |-> touched'[s]] /\ ClaimInv' /\ PlanInv'
  BY <1>1, <1>2, UpdateLoan
<1>4. pc' = [pc EXCEPT ![r] = pc[r]] \/ pc' = [pc EXCEPT ![r] = AfterLast(r)]
  BY <1>2 DEF Updates
<1>5. Shape'
  BY <1>1, <1>3, <1>4 DEF AfterLast, Points
<1>6. KindPoints'
  BY <1>1, <1>4 DEF KindPoints, AfterLast, Exists
<1>7. RowLifecycle'
  BY <1>1, <1>4 DEF RowLifecycle, AfterLast
<1>8. QED
  BY <1>3, <1>5, <1>6, <1>7

\* A commit publishes the request's installments and row, and frees them.
LEMMA CommitLoan ==
  ASSUME LoanInv, NEW r \in Requests, Commit(r)
  PROVE  /\ LoanInv'
         /\ \A i \in Numbers :
              sched'[i] = IF Exists(touched[r], i) THEN touched[r][i] ELSE sched[i]
<1>1. /\ pc[r] = "commit" /\ pc' = [pc EXCEPT ![r] = "done"]
      /\ ledger' = WithDraft(r)
      /\ draft' = [draft EXCEPT ![r] = NoRow]
      /\ UNCHANGED <<removed, row, plan>>
  BY DEF Commit, EndTransaction
<1>2. /\ touched' = [s \in Requests |-> touched'[s]]
      /\ \A s \in Requests \ {r} : touched'[s] = touched[s]
      /\ \A i \in Numbers : ~Exists(touched'[r], i)
  BY DEF Commit, EndTransaction, Untouched, Absent, Exists
<1>3. \A i \in Numbers :
        sched'[i] = IF Exists(touched[r], i) THEN touched[r][i] ELSE sched[i]
  BY DEF Commit, View
<1>4. /\ \A s \in Requests \ {r} : ledger'[s] = ledger[s]
      /\ L!LedgerTypeOK'
  BY <1>1 DEF WithDraft
<1>5. Shape'
  BY <1>1, <1>2, <1>4 DEF Points
<1>6. \A i \in Numbers : Exists(sched, i) => Exists(sched', i)
  BY <1>3 DEF Exists
<1>7. KindPoints'
  BY <1>1, <1>6 DEF KindPoints, Exists
<1>8. RowLifecycle'
  BY <1>1, <1>4 DEF RowLifecycle
<1>9. ClaimInv'
  BY <1>2, <1>3 DEF ClaimInv, Exists
<1>10. PlanInv'
  BY <1>1, <1>6 DEF PlanInv, Exists
<1>11. QED
  BY <1>3, <1>5, <1>7, <1>8, <1>9, <1>10

\* A step that changes nothing but the request's control point and private rows.
LEMMA LocalStep ==
  ASSUME LoanInv, NEW r \in Requests, pc[r] \notin {"idle", "done"},
         UNCHANGED <<removed, ledger, sched, draft, row, plan>>,
         NEW point \in Points, pc' = [pc EXCEPT ![r] = point],
         touched' = [s \in Requests |-> touched'[s]], ClaimInv' /\ PlanInv',
         Drafted(r) => point \in {"disburse", "pay", "count", "close", "commit"},
         point \in {"find", "insert"} => Kind(r) \in {"disburse", "repay"},
         point \in {"count", "close"} => Kind(r) = "repay",
         point \in {"number", "append"} => Kind(r) = "reschedule",
         point \notin {"schedule", "disburse", "pay", "cancel", "overdue"}
  PROVE  LoanInv'
<1>1. Shape'
  OBVIOUS
<1>2. KindPoints'
  BY DEF KindPoints, Exists
<1>3. RowLifecycle'
  BY DEF RowLifecycle
<1>4. QED
  BY <1>1, <1>2, <1>3

LEMMA MarkLoanKeeps ==
  ASSUME LoanInv, NEW r \in Requests, pc[r] \in {"disburse", "close"}, NEW status,
         MarkLoan(r, status)
  PROVE  LoanInv'
<1>1. /\ UNCHANGED <<removed, ledger, sched, draft, row, plan, touched>>
      /\ pc' = [pc EXCEPT ![r] = "commit"] /\ "commit" \in Points
  BY DEF MarkLoan, Points
<1>2. QED
  BY <1>1, LocalStep, IdleClaims

LEMMA DisburseLoan ==
  ASSUME LoanInv, NEW r \in Requests, CreateSchedule(r)
  PROVE  LoanInv'
<1>1. CASE Rollback(r)
  BY <1>1, RollbackLoan DEF CreateSchedule
<1>2. CASE ~Rollback(r)
  <2>1. CreateMany(r, 1, Months * PerMonth, Total, "find") /\ pc[r] = "schedule"
    BY DEF CreateSchedule
  <2>2. /\ UNCHANGED <<removed, ledger, sched, draft, row, plan>>
        /\ pc' = [pc EXCEPT ![r] = "find"] /\ "find" \in Points
    BY <1>2, <2>1 DEF CreateMany, Points
  <2>3. ~Drafted(r) /\ Kind(r) = "disburse"
    BY <2>1 DEF RowLifecycle, KindPoints
  <2>4. touched' = [s \in Requests |-> touched'[s]] /\ ClaimInv' /\ PlanInv'
    BY <1>2, <2>1, CreateManyLoan
  <2>5. QED
    BY <2>1, <2>2, <2>3, <2>4, LocalStep
<1>3. QED
  BY <1>1, <1>2

LEMMA RowLoan ==
  ASSUME LoanInv, NEW r \in Requests, FindExisting(r) \/ Insert(r)
  PROVE  LoanInv'
<1>1. CASE Rollback(r)
  BY <1>1, RollbackLoan DEF FindExisting, Insert
<1>2. CASE FindExisting(r) /\ ~Rollback(r)
  <2>1. /\ UNCHANGED <<removed, ledger, draft, sched, touched, plan>>
        /\ row' \in [Requests -> Requests \cup {None}]
        /\ pc[r] = "find"
        /\ \/ pc' = [pc EXCEPT ![r] = AfterRow(r)]
           \/ pc' = [pc EXCEPT ![r] = "insert"]
    BY <1>2 DEF FindExisting, ReturnExisting, FindByKey
  <2>2. Kind(r) \in {"disburse", "repay"} /\ ~Drafted(r)
    BY <2>1 DEF KindPoints, RowLifecycle
  <2>3. AfterRow(r) = IF Kind(r) = "disburse" THEN "disburse" ELSE "pay"
    BY DEF AfterRow
  <2>4. Shape' /\ KindPoints' /\ RowLifecycle'
    BY <2>1, <2>2, <2>3 DEF Points, KindPoints, RowLifecycle, Exists
  <2>5. QED
    BY <2>1, <2>4, IdleClaims
<1>3. CASE Insert(r) /\ ~Rollback(r)
  <2>1. /\ UNCHANGED <<removed, ledger, sched, touched, plan>>
        /\ row' = [row EXCEPT ![r] = r]
        /\ draft' = [draft EXCEPT ![r] = LoanRow(r)]
        /\ pc[r] = "insert"
        /\ pc' = [pc EXCEPT ![r] = AfterRow(r)]
    BY <1>3 DEF Insert, InsertDraft
  <2>2. Kind(r) \in {"disburse", "repay"}
    BY <2>1 DEF KindPoints
  <2>3. AfterRow(r) = IF Kind(r) = "disburse" THEN "disburse" ELSE "pay"
    BY DEF AfterRow
  <2>4. Shape'
    BY <2>1, <2>3, LoanRowType DEF Points
  <2>5. KindPoints' /\ RowLifecycle'
    BY <2>1, <2>2, <2>3, LoanRowType DEF KindPoints, RowLifecycle, Exists
  <2>6. QED
    BY <2>1, <2>4, <2>5, IdleClaims
<1>4. QED
  BY <1>1, <1>2, <1>3

LEMMA CountLoan ==
  ASSUME LoanInv, NEW r \in Requests, CountUnpaid(r)
  PROVE  LoanInv'
<1>1. /\ UNCHANGED <<removed, ledger, sched, draft, row, plan, touched>>
      /\ pc[r] = "count"
      /\ \E point \in {"close", "commit"} : pc' = [pc EXCEPT ![r] = point]
  BY DEF CountUnpaid
<1>2. Kind(r) = "repay" /\ {"close", "commit"} \subseteq Points
  BY <1>1 DEF KindPoints, Points
<1>3. ClaimInv' /\ PlanInv'
  BY <1>1, IdleClaims
<1>4. QED
  BY <1>1, <1>2, <1>3, LocalStep

LEMMA RescheduleLoan ==
  ASSUME LoanInv, NEW r \in Requests,
         NextNumber(r) \/ AppendInstallments(r)
  PROVE  LoanInv'
<1>1. CASE NextNumber(r)
  <2>1. /\ UNCHANGED <<removed, ledger, sched, draft, row, plan, touched>>
        /\ pc[r] = "number" /\ pc' = [pc EXCEPT ![r] = "append"]
        /\ "append" \in Points
    BY <1>1 DEF NextNumber, Points
  <2>2. Kind(r) = "reschedule" /\ ~Drafted(r)
    BY <2>1 DEF KindPoints, RowLifecycle
  <2>3. QED
    BY <2>1, <2>2, LocalStep, IdleClaims
<1>2. CASE AppendInstallments(r) /\ Rollback(r)
  BY <1>2, RollbackLoan DEF AppendInstallments
<1>3. CASE AppendInstallments(r) /\ ~Rollback(r)
  <2>1. /\ CreateMany(r, first[r], Op[r].months * PerMonth, owed[r], "commit")
        /\ pc[r] = "append"
    BY <1>3 DEF AppendInstallments
  <2>2. /\ UNCHANGED <<removed, ledger, sched, draft, row, plan>>
        /\ pc' = [pc EXCEPT ![r] = "commit"] /\ "commit" \in Points
    BY <1>3, <2>1 DEF CreateMany, Points
  <2>3. touched' = [s \in Requests |-> touched'[s]] /\ ClaimInv' /\ PlanInv'
    BY <1>3, <2>1, CreateManyLoan
  <2>4. QED
    BY <2>1, <2>2, <2>3, LocalStep
<1>4. QED
  BY <1>1, <1>2, <1>3

\* Both repay and reschedule take installments they read as unpaid.
LEMMA PlanLoan ==
  ASSUME LoanInv, NEW r \in Requests, ChooseInstallments(r) \/ ReadUnpaid(r)
  PROVE  LoanInv'
<1>1. /\ UNCHANGED <<removed, ledger, sched, draft, row, touched>>
      /\ pc[r] = "read"
      /\ plan' = plan \/ \E S \in SUBSET Unpaid(sched) : plan' = [plan EXCEPT ![r] = S]
      /\ \/ pc' = [pc EXCEPT ![r] = "failed"]
         \/ Kind(r) = "repay" /\ pc' = [pc EXCEPT ![r] = "find"]
         \/ Kind(r) = "reschedule" /\ pc' = [pc EXCEPT ![r] = "cancel"]
  <2>1. CASE ChooseInstallments(r)
    <3>1. Covered(sched, Op[r].amount) \in SUBSET Unpaid(sched)
      BY DEF Covered
    <3>2. QED
      BY <2>1, <3>1 DEF ChooseInstallments
  <2>2. CASE ReadUnpaid(r)
    BY <2>2 DEF ReadUnpaid
  <2>3. QED
    BY <2>1, <2>2
<1>2. Unpaid(sched) \subseteq Numbers /\ \A i \in Unpaid(sched) : Exists(sched, i)
  BY DEF Unpaid, Exists
<1>3. Shape' /\ KindPoints' /\ RowLifecycle'
  BY <1>1, <1>2 DEF Points, KindPoints, RowLifecycle, Exists
<1>4. ClaimInv' /\ PlanInv'
  BY <1>1, <1>2 DEF ClaimInv, PlanInv, Exists
<1>5. QED
  BY <1>3, <1>4

\* Steps outside a transaction: they change the loan's status, or one pending
\* installment that nobody holds.
LEMMA OverdueLoan ==
  ASSUME LoanInv, NEW r \in Requests, MarkOverdue(r)
  PROVE  /\ LoanInv'
         /\ \A i \in Numbers :
              \/ sched'[i] = sched[i]
              \/ sched[i].status = "PENDING" /\ Exists(sched', i)
<1>1. /\ UNCHANGED <<removed, ledger, touched, draft, row, plan>>
      /\ pc[r] = "overdue" /\ pc' = [pc EXCEPT ![r] = "done"]
  BY DEF MarkOverdue
<1>2. \A i \in Numbers :
        \/ sched'[i] = sched[i]
        \/ sched[i].status = "PENDING" /\ sched'[i].status = "OVERDUE"
  BY DEF MarkOverdue, StillPending
<1>3. \A i \in Numbers : Exists(sched, i) <=> Exists(sched', i)
  BY <1>2 DEF Exists
<1>4. Shape' /\ KindPoints' /\ RowLifecycle'
  BY <1>1, <1>3 DEF Points, KindPoints, RowLifecycle, Exists
<1>5. ClaimInv' /\ PlanInv'
  BY <1>1, <1>3 DEF ClaimInv, PlanInv, Exists
<1>6. \A i \in Numbers :
        \/ sched'[i] = sched[i]
        \/ sched[i].status = "PENDING" /\ Exists(sched', i)
  BY <1>2 DEF Exists
<1>7. QED
  BY <1>4, <1>5, <1>6

LEMMA DecideLoan ==
  ASSUME LoanInv, NEW r \in Requests, Decide(r)
  PROVE  LoanInv'
<1>1. /\ UNCHANGED <<removed, ledger, sched, touched, draft, row, plan>>
      /\ pc[r] = "decide" /\ pc' = [pc EXCEPT ![r] = "done"]
  BY DEF Decide
<1>2. Shape' /\ KindPoints' /\ RowLifecycle'
  BY <1>1 DEF Points, KindPoints, RowLifecycle, Exists
<1>3. QED
  BY <1>1, <1>2, IdleClaims

LEMMA ProceedLoan ==
  ASSUME LoanInv, NEW r \in Requests, Proceed(r)
  PROVE  LoanInv'
<1>1. CASE MarkDisbursed(r) \/ CloseLoan(r)
  BY <1>1, MarkLoanKeeps DEF MarkDisbursed, CloseLoan
<1>2. QED
  BY <1>1, DecideLoan, RowLoan, DisburseLoan, RowByRowLoan, CountLoan, RescheduleLoan,
     PlanLoan, OverdueLoan, CommitLoan DEF Proceed

LEMMA NextLoan == LoanInv /\ [Next]_vars => LoanInv'
<1> SUFFICES ASSUME LoanInv, [Next]_vars PROVE LoanInv'
  OBVIOUS
<1>1. ASSUME NEW r \in Requests, Arrive(r) \/ Proceed(r) \/ Abort(r)
      PROVE  LoanInv'
  BY <1>1, ArriveLoan, ProceedLoan, RollbackLoan DEF Abort, InFlight
<1>2. CASE CreateLoan \/ (\E c \in Clients : ClientChanges(c)) \/ UNCHANGED vars
  <2>1. UNCHANGED <<ledger, sched, touched, draft, row, plan, pc>>
    BY <1>2 DEF CreateLoan, ClientChanges, vars
  <2>2. removed' \subseteq Clients
    BY <1>2 DEF CreateLoan, ClientChanges, SoftDelete, Reactivate, vars
  <2>3. KindPoints' /\ RowLifecycle'
    BY <2>1 DEF KindPoints, RowLifecycle, Exists
  <2>4. QED
    BY <2>1, <2>2, <2>3, IdleClaims
<1>3. QED
  BY <1>1, <1>2 DEF Next

LEMMA LoanInvariant == Spec => []LoanInv
BY InitLoan, NextLoan, PTL DEF Spec

-----------------------------------------------------------------------------
(***************************************************************************)
(* The money leaves once.  A disbursement under way holds the first        *)
(* installment as a new one, so only one is under way and none is done; a  *)
(* disbursement that is done has left the first installment behind.        *)
(***************************************************************************)

DisburseInv ==
  /\ \A r \in Requests :
       Kind(r) = "disburse" /\ pc[r] \in {"find", "insert", "disburse", "commit"} =>
         Exists(touched[r], 1) /\ ~Exists(sched, 1)
  /\ \A r \in Requests :
       Posted(r) /\ ledger[r].type = "LOAN_DISBURSEMENT" => Exists(sched, 1)
  /\ DisbursedOnce

LEMMA FirstNumber == 1 \in Numbers /\ 1 \in 1..(1 + Months * PerMonth - 1)
BY LoansAssumption DEF Numbers

\* The disbursement that posts its row held the first installment, new.
LEMMA CommitDisburse ==
  ASSUME LoanInv, DisburseInv, NEW r \in Requests, Commit(r)
  PROVE  DisburseInv'
<1>1. /\ pc[r] = "commit" /\ pc' = [pc EXCEPT ![r] = "done"]
      /\ \A s \in Requests \ {r} : touched'[s] = touched[s] /\ ledger'[s] = ledger[s]
      /\ ledger'[r] = IF Drafted(r) THEN draft[r] ELSE ledger[r]
  BY DEF Commit, EndTransaction, WithDraft
<1>2. \A i \in Numbers :
        sched'[i] = IF Exists(touched[r], i) THEN touched[r][i] ELSE sched[i]
  BY CommitLoan
<1>3. Exists(sched, 1) \/ Exists(touched[r], 1) => Exists(sched', 1)
  BY <1>2, FirstNumber DEF Exists
<1>4. ASSUME NEW s \in Requests, Kind(s) = "disburse",
             pc'[s] \in {"find", "insert", "disburse", "commit"}
      PROVE  Exists(touched'[s], 1) /\ ~Exists(sched', 1)
  <2>1. s # r /\ Exists(touched[s], 1) /\ ~Exists(sched, 1)
    BY <1>1, <1>4 DEF DisburseInv
  <2>2. ~Exists(touched[r], 1)
    BY <2>1, FirstNumber DEF ClaimInv
  <2>3. QED
    BY <1>1, <1>2, <2>1, <2>2, FirstNumber DEF Exists
<1>5. CASE Drafted(r) /\ draft[r].type = "LOAN_DISBURSEMENT"
  <2>1. Kind(r) = "disburse"
    BY <1>5 DEF RowLifecycle
  <2>2. Exists(touched[r], 1) /\ ~Exists(sched, 1)
    BY <1>1, <2>1 DEF DisburseInv
  <2>3. \A s \in Requests : ~(Posted(s) /\ ledger[s].type = "LOAN_DISBURSEMENT")
    BY <2>2 DEF DisburseInv
  <2>4. \A s \in Requests \ {r} :
          ~(Posted(s)' /\ ledger'[s].type = "LOAN_DISBURSEMENT")
    BY <1>1, <2>3
  <2>5. QED
    BY <1>3, <1>4, <2>2, <2>4 DEF DisburseInv, DisbursedOnce
<1>6. CASE ~(Drafted(r) /\ draft[r].type = "LOAN_DISBURSEMENT")
  <2>1. \A s \in Requests :
          Posted(s)' /\ ledger'[s].type = "LOAN_DISBURSEMENT" =>
            Posted(s) /\ ledger[s].type = "LOAN_DISBURSEMENT"
    BY <1>1, <1>6
  <2>2. QED
    BY <1>3, <1>4, <2>1 DEF DisburseInv, DisbursedOnce
<1>7. QED
  BY <1>5, <1>6

\* A step of r that posts nothing and does not take r to such a point, but from one.
LEMMA OtherDisburse ==
  ASSUME LoanInv, DisburseInv, NEW r \in Requests, UNCHANGED ledger,
         \A s \in Requests \ {r} : pc'[s] = pc[s] /\ touched'[s] = touched[s],
         Exists(sched', 1) <=> Exists(sched, 1),
         Kind(r) = "disburse" /\ pc'[r] \in {"find", "insert", "disburse", "commit"} =>
           Exists(touched'[r], 1) /\ ~Exists(sched, 1)
  PROVE  DisburseInv'
BY DEF DisburseInv, DisbursedOnce

LEMMA ProceedDisburse ==
  ASSUME LoanInv, DisburseInv, NEW r \in Requests, Proceed(r), ~Commit(r)
  PROVE  DisburseInv'
<1>1. CASE Rollback(r)
  <2>1. /\ UNCHANGED <<ledger, sched>> /\ pc'[r] = "failed"
        /\ \A s \in Requests \ {r} : pc'[s] = pc[s] /\ touched'[s] = touched[s]
    BY <1>1 DEF Rollback, EndTransaction
  <2>2. QED
    BY <2>1, OtherDisburse
<1>2. CASE CreateSchedule(r) /\ ~Rollback(r)
  <2>1. CreateMany(r, 1, Months * PerMonth, Total, "find")
    BY <1>2 DEF CreateSchedule
  <2>2. /\ UNCHANGED <<ledger, sched>>
        /\ \A s \in Requests \ {r} : pc'[s] = pc[s] /\ touched'[s] = touched[s]
        /\ ~NumberTaken(1, Months * PerMonth)
    BY <1>2, <2>1 DEF CreateMany, Touch
  <2>3. Exists(touched'[r], 1)
    BY <1>2, <2>1, CreateManyLoan, FirstNumber
  <2>4. ~Exists(sched, 1)
    BY <2>2, FirstNumber DEF NumberTaken
  <2>5. QED
    BY <2>2, <2>3, <2>4, OtherDisburse
<1>3. CASE (FindExisting(r) \/ Insert(r) \/ MarkDisbursed(r)) /\ ~Rollback(r)
  <2>1. /\ UNCHANGED <<ledger, sched, touched>>
        /\ \A s \in Requests \ {r} : pc'[s] = pc[s]
        /\ pc[r] \in {"find", "insert", "disburse"}
    BY <1>3 DEF FindExisting, Insert, InsertDraft, MarkDisbursed, MarkLoan
  <2>2. QED
    BY <2>1, OtherDisburse DEF DisburseInv
<1>4. CASE (Decide(r) \/ MarkOverdue(r)) /\ ~Rollback(r)
  <2>1. /\ UNCHANGED <<ledger, touched>> /\ pc'[r] = "done"
        /\ \A s \in Requests \ {r} : pc'[s] = pc[s]
    BY <1>4 DEF Decide, MarkOverdue
  <2>2. Exists(sched', 1) <=> Exists(sched, 1)
    BY <1>4, OverdueLoan, FirstNumber DEF Decide, Exists
  <2>3. QED
    BY <2>1, <2>2, OtherDisburse
<1>5. CASE /\ \/ ChooseInstallments(r) \/ CountUnpaid(r) \/ CloseLoan(r) \/ ReadUnpaid(r)
              \/ NextNumber(r) \/ AppendInstallments(r)
           /\ ~Rollback(r)
  <2>1. /\ UNCHANGED <<ledger, sched>>
        /\ \A s \in Requests \ {r} : pc'[s] = pc[s] /\ touched'[s] = touched[s]
    BY <1>5 DEF ChooseInstallments, CountUnpaid, CloseLoan, MarkLoan,
       ReadUnpaid, NextNumber, AppendInstallments, CreateMany, Touch
  <2>2. Kind(r) = "disburse" => pc'[r] = "failed"
    BY <1>5 DEF ChooseInstallments, CountUnpaid, CloseLoan, ReadUnpaid,
       NextNumber, AppendInstallments, KindPoints
  <2>3. QED
    BY <2>1, <2>2, OtherDisburse
<1>6. CASE PayInstallments(r) \/ CancelInstallments(r)
  <2>1. /\ UNCHANGED <<ledger, sched, plan>> /\ Kind(r) # "disburse"
        /\ \E i \in Numbers : Updates(r, i)
    BY <1>6, OneRow
  <2>2. \A s \in Requests \ {r} : pc'[s] = pc[s] /\ touched'[s] = touched[s]
    BY <2>1 DEF Updates, Touch
  <2>3. QED
    BY <2>1, <2>2, OtherDisburse
<1>7. QED
  BY <1>1, <1>2, <1>3, <1>4, <1>5, <1>6 DEF Proceed

LEMMA NextDisburse == LoanInv /\ DisburseInv /\ [Next]_vars => DisburseInv'
<1> SUFFICES ASSUME LoanInv, DisburseInv, [Next]_vars PROVE DisburseInv'
  OBVIOUS
<1>1. ASSUME NEW r \in Requests, Arrive(r) PROVE DisburseInv'
  <2>1. UNCHANGED <<ledger, sched, touched>>
    BY <1>1 DEF Arrive, SubmitRead, ApproveRead, RejectRead, DisburseRead, RepayRead,
       RescheduleRead, OverdueRead, ReadLoan
  <2>2. /\ pc'[r] \notin {"find", "insert", "disburse", "commit"}
        /\ \A s \in Requests \ {r} : pc'[s] = pc[s]
    BY <1>1 DEF Arrive, SubmitRead, ApproveRead, RejectRead, DisburseRead, RepayRead,
       RescheduleRead, OverdueRead, ReadLoan
  <2>3. QED
    BY <2>1, <2>2, OtherDisburse
<1>2. ASSUME NEW r \in Requests, Proceed(r) PROVE DisburseInv'
  BY <1>2, CommitDisburse, ProceedDisburse
<1>3. ASSUME NEW r \in Requests, Abort(r) PROVE DisburseInv'
  <2>1. /\ UNCHANGED <<ledger, sched>> /\ pc'[r] = "failed"
        /\ \A s \in Requests \ {r} : pc'[s] = pc[s] /\ touched'[s] = touched[s]
    BY <1>3 DEF Abort, Rollback, EndTransaction
  <2>2. QED
    BY <2>1, OtherDisburse
<1>4. CASE CreateLoan \/ (\E c \in Clients : ClientChanges(c)) \/ UNCHANGED vars
  BY <1>4 DEF CreateLoan, ClientChanges, vars, DisburseInv, DisbursedOnce, Exists
<1>5. QED
  BY <1>1, <1>2, <1>3, <1>4 DEF Next

LEMMA DisburseInvariant == Spec => []DisburseInv
<1>1. Init => DisburseInv
  BY DEF Init, TransactionsInit, DisburseInv, DisbursedOnce
<1>2. QED
  BY <1>1, NextDisburse, LoanInvariant, PTL DEF Spec

\* However its approvals, disbursements, repayments and reschedules interleave, a
\* loan is paid out at most once.
THEOREM MoneyLeavesOnce == Spec => []DisbursedOnce
<1>1. DisburseInv => DisbursedOnce
  BY DEF DisburseInv
<1>2. QED
  BY <1>1, DisburseInvariant, PTL

-----------------------------------------------------------------------------
(* Settled installments stay settled *)

LEMMA StepSettles ==
  ASSUME LoanInv, [Next]_vars, NEW i \in Numbers, Settled(i)
  PROVE  Settled(i)'
<1>1. CASE \E r \in Requests : Commit(r)
  <2>1. PICK r \in Requests : Commit(r)
    BY <1>1
  <2>2. Exists(touched[r], i) => touched[r][i].status \in {"PAID", "CANCELLED"}
    BY DEF ClaimInv, Settled, Exists
  <2>3. QED
    BY <2>1, <2>2, CommitLoan DEF Settled
<1>2. CASE \E r \in Requests : MarkOverdue(r)
  BY <1>2, OverdueLoan DEF Settled
<1>3. CASE sched' = sched
  BY <1>3 DEF Settled
<1>4. QED
  BY <1>1, <1>2, <1>3 DEF Next, Arrive, SubmitRead, ApproveRead, RejectRead,
     DisburseRead, RepayRead, RescheduleRead, OverdueRead, ReadLoan, Proceed,
     Decide, FindExisting, Insert, InsertDraft, CreateSchedule, CreateMany, MarkDisbursed,
     CloseLoan, MarkLoan, ChooseInstallments, PayInstallments, CountUnpaid,
     ReadUnpaid, CancelInstallments, NextNumber, AppendInstallments, Abort, Rollback,
     CreateLoan, ClientChanges, vars

\* Whatever runs at the same time, an installment that was paid or cancelled is
\* never unpaid again.
THEOREM SettledForGood == Spec => SettledStays
<1>1. LoanInv /\ [Next]_vars => [\A i \in Numbers : Settled(i) => Settled(i)']_vars
  BY StepSettles
<1>2. QED
  BY <1>1, LoanInvariant, PTL DEF Spec, SettledStays

-----------------------------------------------------------------------------
(* Idempotency keys and the abstract ledger *)

\* Only these steps touch the table of transactions.
LEMMA RowSteps ==
  ASSUME LoanInv, [Next]_vars
  PROVE  \/ \E r \in Requests : Insert(r) /\ ~Rollback(r)
         \/ \E r \in Requests : Commit(r)
         \/ ledger' = ledger /\ draft' = draft
         \/ \E r \in Requests : ledger' = ledger /\ DropDraft(r)
<1>1. ASSUME NEW r \in Requests, Rollback(r)
      PROVE  ledger' = ledger /\ DropDraft(r)
  BY <1>1 DEF Rollback, EndTransaction
<1>2. ASSUME NEW r \in Requests, Arrive(r)
      PROVE  ledger' = ledger /\ draft' = draft
  BY <1>2 DEF Arrive, SubmitRead, ApproveRead, RejectRead, DisburseRead, RepayRead,
     RescheduleRead, OverdueRead, ReadLoan
<1>3. ASSUME NEW r \in Requests, Proceed(r), ~Insert(r), ~Commit(r), ~Rollback(r)
      PROVE  ledger' = ledger /\ draft' = draft
  BY <1>3 DEF Proceed, Decide, FindExisting, CreateSchedule, CreateMany, MarkDisbursed,
     CloseLoan, MarkLoan, ChooseInstallments, PayInstallments, CountUnpaid, ReadUnpaid,
     CancelInstallments, NextNumber, AppendInstallments, MarkOverdue
<1>4. CASE CreateLoan \/ (\E c \in Clients : ClientChanges(c)) \/ UNCHANGED vars
  BY <1>4 DEF CreateLoan, ClientChanges, vars
<1>5. QED
  BY <1>1, <1>2, <1>3, <1>4 DEF Next, Abort

LEMMA InsertLoanRow ==
  ASSUME LoanInv, NEW r \in Requests, Insert(r), ~Rollback(r)
  PROVE  /\ InsertDraft(r, LoanRow(r)) /\ ~InsertWaits(r) /\ KeyFree(r)
         /\ ~Drafted(r) /\ ledger' = ledger
BY DEF Insert, InsertDraft, RowLifecycle

LEMMA NextKey == LoanInv /\ KeyInv /\ [Next]_vars => KeyInv'
<1> SUFFICES ASSUME LoanInv, KeyInv, [Next]_vars PROVE KeyInv'
  OBVIOUS
<1>1. ASSUME NEW r \in Requests, Insert(r), ~Rollback(r) PROVE KeyInv'
  BY <1>1, InsertLoanRow, LoanRowType, InsertKey
<1>2. ASSUME NEW r \in Requests, Commit(r) PROVE KeyInv'
  BY <1>2, CommitKey DEF Commit, EndTransaction
<1>3. CASE ledger' = ledger /\ draft' = draft
  BY <1>3 DEF KeyInv, KeyOnce
<1>4. ASSUME NEW r \in Requests, ledger' = ledger, DropDraft(r) PROVE KeyInv'
  BY <1>4, DropKey
<1>5. QED
  BY <1>1, <1>2, <1>3, <1>4, RowSteps

LEMMA StepRefines ==
  LoanInv /\ KeyInv /\ KeyInv' /\ [Next]_vars => [L!LedgerNext]_ledger
<1> SUFFICES ASSUME LoanInv, KeyInv, KeyInv', [Next]_vars, ledger' # ledger
             PROVE  L!LedgerNext
  OBVIOUS
<1>1. PICK r \in Requests : Commit(r)
  BY RowSteps, InsertLoanRow
<1>2. ledger' = [ledger EXCEPT ![r] = draft[r]] /\ Drafted(r) /\ ~Posted(r)
  BY <1>1 DEF Commit, WithDraft, RowLifecycle
<1>3. draft[r] \in L!Rows /\ draft[r].status = "COMPLETED"
  BY <1>2 DEF RowLifecycle
<1>4. QED
  BY <1>2, <1>3, PostRefines

\* Disbursements and repayments leave the transactions table a ledger too: one row
\* per key, never changed.
THEOREM LoansKeepLedger == Spec => LedgerRefined
<1>1. Init => L!LedgerInit /\ KeyInv
  BY InitKey DEF Init, TransactionsInit, L!LedgerInit
<1>2. QED
  BY <1>1, StepRefines, NextKey, LoanInvariant, PTL DEF Spec, LedgerRefined, L!LedgerSpec
-----------------------------------------------------------------------------
(* Types *)

TypeInv ==
  /\ TypeOK
  /\ \A r \in Requests : pc[r] = "decide" => Kind(r) \in {"submit", "approve", "reject"}

\* A finite set of integers has its largest one.
LEMMA MaxInt ==
  ASSUME NEW S, IsFiniteSet(S), S # {}, \A x \in S : x \in Int
  PROVE  Max(S) \in S /\ \A x \in S : x <= Max(S)
<1> DEFINE Above(x) == {y \in S : y >= x}
           Bad == {T \in SUBSET S : \E x \in S : T = Above(x)}
<1>1. PICK T \in Bad : \A U \in Bad : U \subseteq T => U = T
  <2>1. Bad \subseteq SUBSET S
    OBVIOUS
  <2>2. PICK x \in S : TRUE
    OBVIOUS
  <2>3. Above(x) \in Bad
    BY <2>2
  <2>4. Bad # {}
    BY <2>3
  <2> HIDE DEF Bad
  <2>5. QED
    BY <2>1, <2>4, SmallestSubset
<1>2. PICK m \in S : T = Above(m)
  BY <1>1
<1>3. ASSUME NEW y \in S
      PROVE  y <= m
  <2>1. SUFFICES ASSUME m < y
                 PROVE  FALSE
    OBVIOUS
  <2>2. Above(y) \in Bad /\ Above(y) \subseteq T /\ m \in T /\ m \notin Above(y)
    BY <1>2, <2>1
  <2>3. QED
    BY <1>1, <2>2
<1>4. \E x \in S : \A y \in S : x >= y
  BY <1>3
<1>5. Max(S) = CHOOSE x \in S : \A y \in S : x >= y
  BY DEF Max
<1> DEFINE top == CHOOSE x \in S : \A y \in S : x >= y
<1>6. top \in S /\ \A y \in S : top >= y
  BY <1>4
<1>7. QED
  BY <1>5, <1>6

LEMMA NumbersFinite == IsFiniteSet(Numbers) /\ \A S \in SUBSET Numbers : IsFiniteSet(S)
<1>1. IsFiniteSet(Numbers)
  BY LoansAssumption, FS_Interval DEF Numbers
<1>2. \A S \in SUBSET Numbers : IsFiniteSet(S)
  BY ONLY <1>1, FS_Subset
<1>3. QED
  BY <1>1, <1>2

\* The sum of what installments are due.
LEMMA DueInt ==
  ASSUME NEW v, \A i \in Numbers : v[i].due \in Int, NEW S \in SUBSET Numbers
  PROVE  Due(v, S) \in Int
<1>1. IsFiniteSet(S)
  BY NumbersFinite
<1>2. QED
  BY <1>1, SumInt DEF Due

\* Splitting an amount gives integers.
LEMMA InstallmentDueInt ==
  ASSUME NEW total \in Int, NEW count \in Nat \ {0}, NEW k \in Int
  PROVE  InstallmentDue(total, count, k) \in Int /\ Base(total, count) \in Int
<1>1. Unit \in Nat \ {0} /\ count * Unit \in Nat \ {0}
  BY LoansAssumption
<1>2. total \div (count * Unit) \in Int
  BY <1>1
<1>3. Base(total, count) \in Int
  BY <1>1, <1>2 DEF Base
<1>4. Base(total, count) * (count - 1) \in Int
  BY <1>3
<1>5. QED
  BY <1>3, <1>4 DEF InstallmentDue

LEMMA NewInstallmentsType ==
  ASSUME NEW start \in Int, NEW count \in Nat \ {0}, NEW total \in Int
  PROVE  NewInstallments(start, count, total) \in [Numbers -> Installment]
<1> DEFINE v == NewInstallments(start, count, total)
<1> SUFFICES ASSUME NEW i \in Numbers
             PROVE  v[i] \in Installment
  BY DEF NewInstallments
<1>1. i - start + 1 \in Int
  BY LoansAssumption DEF Numbers
<1>2. InstallmentDue(total, count, i - start + 1) \in Int
  BY <1>1, InstallmentDueInt
<1>3. QED
  BY <1>2 DEF NewInstallments, Installment, Absent

LEMMA TouchType ==
  ASSUME TypeOK, NEW r \in Requests, NEW v \in [Numbers -> Installment], Touch(r, v)
  PROVE  touched' \in [Requests -> [Numbers -> Installment]]
BY DEF Touch, TypeOK

LEMMA VersionType ==
  ASSUME TypeOK, NEW r \in Requests, NEW i \in Numbers
  PROVE  [j \in Numbers |-> IF j = i THEN Version(r, i) ELSE Absent]
           \in [Numbers -> Installment]
<1>1. sched[i] \in Installment /\ row[r] \in Requests \cup {None}
  BY DEF TypeOK
<1>2. Version(r, i) \in Installment /\ Absent \in Installment
  BY <1>1 DEF Version, Installment, Absent
<1>3. QED
  BY <1>2

LEMMA ViewType ==
  ASSUME TypeOK, NEW r \in Requests
  PROVE  View(r) \in [Numbers -> Installment]
BY DEF View, TypeOK

LEMMA UntouchedType == Untouched \in [Numbers -> Installment]
BY DEF Untouched, Absent, Installment

LEMMA InitTypes == Init => TypeInv
<1> SUFFICES ASSUME Init PROVE TypeInv
  OBVIOUS
<1>1. sched \in [Numbers -> Installment] /\ touched \in [Requests -> [Numbers -> Installment]]
  BY UntouchedType DEF Init
<1>2. TransactionsTypeOK /\ pc \in [Requests -> Points] /\ \A r \in Requests : pc[r] = "idle"
  BY DEF Init, TransactionsInit, Points
<1>3. QED
  BY <1>1, <1>2 DEF Init, TypeInv, TypeOK, LoanStatuses

\* A step that leaves the tables the other lemmas know the type of.
LEMMA CreateManyType ==
  ASSUME TypeOK, NEW r \in Requests, NEW start \in Int, NEW count \in Nat \ {0},
         NEW total \in Int, NEW next, CreateMany(r, start, count, total, next)
  PROVE  touched' \in [Requests -> [Numbers -> Installment]]
<1>1. CASE Rollback(r)
  BY <1>1, UntouchedType DEF Rollback, EndTransaction, TypeOK
<1>2. CASE ~Rollback(r)
  BY <1>2, NewInstallmentsType, TouchType DEF CreateMany
<1>3. QED
  BY <1>1, <1>2

LEMMA CountsPositive ==
  /\ Months * PerMonth \in Nat \ {0}
  /\ \A r \in Requests : Op[r].months * PerMonth \in Nat \ {0}
  /\ Total \in Nat \ {0}
  /\ \A r \in Requests : Op[r].amount \in Int
BY LoansAssumption DEF OpType, Total

\* Installments: what the steps of r insert and change, and what a commit publishes.
LEMMA ProceedTouched ==
  ASSUME LoanInv, TypeOK, NEW r \in Requests, Proceed(r) \/ Abort(r)
  PROVE  /\ touched' \in [Requests -> [Numbers -> Installment]]
         /\ sched' \in [Numbers -> Installment]
<1>1. CASE Rollback(r)
  BY <1>1, UntouchedType DEF Rollback, EndTransaction, TypeOK
<1>2. CASE CreateSchedule(r)
  <2>1. CreateMany(r, 1, Months * PerMonth, Total, "find")
    BY <1>2 DEF CreateSchedule
  <2>2. touched' \in [Requests -> [Numbers -> Installment]]
    BY ONLY <2>1, TypeOK, CountsPositive, CreateManyType
  <2>3. sched' = sched
    BY <2>1 DEF CreateMany, Rollback
  <2>4. QED
    BY <2>2, <2>3 DEF TypeOK
<1>3. CASE AppendInstallments(r)
  <2>1. CreateMany(r, first[r], Op[r].months * PerMonth, owed[r], "commit")
    BY <1>3 DEF AppendInstallments
  <2>2. first[r] \in Int /\ owed[r] \in Int
    BY DEF TypeOK
  <2>3. touched' \in [Requests -> [Numbers -> Installment]]
    BY ONLY <2>1, <2>2, TypeOK, CountsPositive, CreateManyType
  <2>4. sched' = sched
    BY <2>1 DEF CreateMany, Rollback
  <2>5. QED
    BY <2>3, <2>4 DEF TypeOK
<1>4. CASE PayInstallments(r) \/ CancelInstallments(r)
  <2>1. PICK i \in Numbers : Updates(r, i)
    BY <1>4, OneRow
  <2>2. touched' \in [Requests -> [Numbers -> Installment]]
    BY <2>1, VersionType, TouchType DEF Updates
  <2>3. sched' = sched
    BY <1>4, OneRow
  <2>4. QED
    BY <2>2, <2>3 DEF TypeOK
<1>5. CASE MarkOverdue(r)
  <2>1. touched' = touched
    BY <1>5 DEF MarkOverdue
  <2>2. sched' \in [Numbers -> Installment]
    BY <1>5 DEF MarkOverdue, TypeOK, Installment
  <2>3. QED
    BY <2>1, <2>2 DEF TypeOK
<1>6. CASE Commit(r)
  BY <1>6, ViewType, UntouchedType DEF Commit, EndTransaction, TypeOK
<1>7. CASE touched' = touched /\ sched' = sched
  BY <1>7 DEF TypeOK
<1>8. QED
  BY <1>1, <1>2, <1>3, <1>4, <1>5, <1>6, <1>7 DEF Proceed, Abort, Decide,
     FindExisting, Insert, MarkDisbursed, CloseLoan, MarkLoan, ChooseInstallments,
     CountUnpaid, ReadUnpaid, NextNumber

\* The loan's status and what is written of it before the commit.
LEMMA ProceedStatus ==
  ASSUME TypeInv, NEW r \in Requests, Proceed(r) \/ Abort(r)
  PROVE  /\ loan' \in LoanStatuses
         /\ loanWrite' \in [Requests -> {"DISBURSED", "CLOSED", None}]
<1>1. loan \in LoanStatuses /\ loanWrite \in [Requests -> {"DISBURSED", "CLOSED", None}]
  BY DEF TypeInv, TypeOK
<1>2. CASE Rollback(r)
  BY <1>1, <1>2 DEF Rollback, EndTransaction
<1>3. CASE Decide(r)
  BY <1>1, <1>3 DEF Decide, Decision, TypeInv, LoanStatuses
<1>4. CASE MarkDisbursed(r) \/ CloseLoan(r)
  BY <1>1, <1>4 DEF MarkDisbursed, CloseLoan, MarkLoan
<1>5. CASE Commit(r)
  <2>1. loanWrite' = [loanWrite EXCEPT ![r] = None]
    BY <1>5 DEF Commit, EndTransaction
  <2>2. loan' \in LoanStatuses
    BY <1>1, <1>5 DEF Commit, LoanStatuses
  <2>3. QED
    BY <1>1, <2>1, <2>2
<1>6. CASE loan' = loan /\ loanWrite' = loanWrite
  BY <1>1, <1>6
<1>7. QED
  BY <1>2, <1>3, <1>4, <1>5, <1>6 DEF Proceed, Abort, FindExisting, Insert, CreateSchedule,
     CreateMany, ChooseInstallments, PayInstallments, CountUnpaid, ReadUnpaid,
     CancelInstallments, NextNumber, AppendInstallments, MarkOverdue

\* What a reschedule computed.
LEMMA ProceedAmounts ==
  ASSUME TypeOK, NEW r \in Requests, Proceed(r) \/ Abort(r)
  PROVE  owed' \in [Requests -> Int] /\ first' \in [Requests -> Int]
<1>1. owed \in [Requests -> Int] /\ first \in [Requests -> Int]
  BY DEF TypeOK
<1>2. CASE ReadUnpaid(r)
  <2>1. \A i \in Numbers : sched[i].due \in Int
    BY DEF TypeOK, Installment
  <2>2. Due(sched, Unpaid(sched)) \in Int
    BY <2>1, DueInt DEF Unpaid
  <2>3. Due(sched, Unpaid(sched)) + Op[r].amount \in Int
    BY <2>2, CountsPositive
  <2>4. QED
    BY <1>1, <1>2, <2>3 DEF ReadUnpaid
<1>3. CASE NextNumber(r)
  <2> DEFINE S == {i \in Numbers : Exists(View(r), i)}
  <2>1. IsFiniteSet(S) /\ S \subseteq Int
    BY NumbersFinite, LoansAssumption DEF Numbers
  <2>2. IsFiniteSet(S \cup {0})
    BY <2>1, FS_AddElement
  <2>3. \A x \in S \cup {0} : x \in Int
    BY <2>1
  <2>4. StartingNumber(r) = Max(S \cup {0}) + 1
    BY DEF StartingNumber
  <2>5. Max(S \cup {0}) \in Int
    <3> HIDE DEF S
    <3>1. S \cup {0} # {}
      OBVIOUS
    <3>2. QED
      BY <2>2, <2>3, <3>1, MaxInt
  <2>6. QED
    <3> HIDE DEF S
    <3>1. QED
      BY <1>1, <1>3, <2>4, <2>5 DEF NextNumber
<1>4. CASE owed' = owed /\ first' = first
  BY <1>1, <1>4
<1>5. QED
  BY <1>2, <1>3, <1>4 DEF Proceed, Abort, Rollback, Decide, FindExisting, Insert,
     CreateSchedule, CreateMany, MarkDisbursed, CloseLoan, MarkLoan, ChooseInstallments,
     PayInstallments, CountUnpaid, CancelInstallments, AppendInstallments, MarkOverdue,
     Commit

LEMMA NextTypes ==
  ASSUME LoanInv, LoanInv', TypeInv, [Next]_vars
  PROVE  TypeInv'
<1>1. ASSUME NEW r \in Requests, Proceed(r) \/ Abort(r)
      PROVE  TypeInv'
  <2>1. TypeOK'
    BY <1>1, ProceedTouched, ProceedStatus, ProceedAmounts DEF TypeInv, TypeOK
  <2>2. \A s \in Requests : pc'[s] = "decide" => pc[s] = "decide"
    BY <1>1 DEF Proceed, Abort, Rollback, Decide, FindExisting, AfterRow, Insert,
     CreateSchedule, CreateMany, MarkDisbursed, CloseLoan, MarkLoan, ChooseInstallments,
     PayInstallments, CountUnpaid, ReadUnpaid, CancelInstallments, AfterUpdate, NextNumber,
     AppendInstallments, MarkOverdue, Commit
  <2>3. QED
    BY <2>1, <2>2 DEF TypeInv
<1>2. ASSUME NEW r \in Requests, Arrive(r)
      PROVE  TypeInv'
  <2>1. UNCHANGED <<dbVars, txVars, locals>>
    BY <1>2 DEF Arrive, SubmitRead, ApproveRead, RejectRead, DisburseRead, RepayRead,
       RescheduleRead, OverdueRead, ReadLoan
  <2>2. \A s \in Requests : pc'[s] = "decide" =>
          pc[s] = "decide" \/ Kind(s) \in {"submit", "approve", "reject"}
    BY <1>2 DEF Arrive, SubmitRead, ApproveRead, RejectRead, DisburseRead, RepayRead,
       RescheduleRead, OverdueRead, ReadLoan
  <2>3. QED
    BY <2>1, <2>2 DEF TypeInv, TypeOK
<1>3. CASE CreateLoan \/ (\E c \in Clients : ClientChanges(c)) \/ UNCHANGED vars
  BY <1>3 DEF CreateLoan, ClientChanges, vars, TypeInv, TypeOK, LoanStatuses
<1>4. QED
  BY <1>1, <1>2, <1>3 DEF Next

LEMMA TypeInvariant == Spec => []TypeInv
BY InitTypes, NextTypes, LoanInvariant, PTL DEF Spec

\* Every variable keeps its type: amounts stay integers through every split, sum and
\* division, numbers stay in range, whatever the requests.
THEOREM TypeCorrect == Spec => []TypeOK
<1>1. TypeInv => TypeOK
  BY DEF TypeInv
<1>2. QED
  BY <1>1, TypeInvariant, PTL

-----------------------------------------------------------------------------
(***************************************************************************)
(* Numbers.  Installments that a request inserted and has not committed    *)
(* extend those that exist, and so does the number a reschedule starts     *)
(* from, however stale it is by the time it inserts.                       *)
(***************************************************************************)

\* The numbers below i exist, or r has inserted them.
Below(r, i) ==
  \A j \in Numbers : j < i => Exists(sched, j) \/ Exists(touched[r], j)

NewInv ==
  \A r \in Requests, i \in Numbers :
    Exists(touched[r], i) /\ ~Exists(sched, i) => Below(r, i)

FirstInv == \A r \in Requests : pc[r] = "append" => first[r] >= 1 /\ Below(r, first[r])

GapInv == NumbersHaveNoGap /\ NewInv /\ FirstInv

\* A step of r that removes no installment, adds none to the committed ones and keeps
\* its own new ones in line.
LEMMA KeepsNumbers ==
  ASSUME LoanInv, GapInv, NEW r \in Requests,
         \A i \in Numbers : Exists(sched', i) <=> Exists(sched, i),
         \A s \in Requests \ {r} : /\ touched'[s] = touched[s] /\ pc'[s] = pc[s]
                                   /\ first'[s] = first[s],
         \A i \in Numbers : Exists(touched[r], i) => Exists(touched'[r], i),
         \A i \in Numbers :
           Exists(touched'[r], i) /\ ~Exists(touched[r], i) =>
             Exists(sched, i) \/ \A j \in Numbers : j < i =>
                                   Exists(sched, j) \/ Exists(touched'[r], j),
         pc'[r] = "append" =>
           /\ first'[r] >= 1
           /\ \A j \in Numbers : j < first'[r] => Exists(sched, j) \/ Exists(touched[r], j)
  PROVE  GapInv'
<1>1. NumbersHaveNoGap'
  BY DEF GapInv, NumbersHaveNoGap
<1>2. NewInv'
  BY DEF GapInv, NewInv, Below
<1>3. FirstInv'
  BY DEF GapInv, FirstInv, Below
<1>4. QED
  BY <1>1, <1>2, <1>3 DEF GapInv

LEMMA RollbackNumbers ==
  ASSUME LoanInv, GapInv, NEW r \in Requests, Rollback(r)
  PROVE  GapInv'
<1>1. /\ UNCHANGED <<sched, first>> /\ pc' = [pc EXCEPT ![r] = "failed"]
      /\ \A s \in Requests \ {r} : touched'[s] = touched[s]
      /\ \A i \in Numbers : ~Exists(touched'[r], i)
  BY DEF Rollback, EndTransaction, Untouched, Absent, Exists
<1>2. \A s \in Requests : pc'[s] = "append" => s # r /\ pc[s] = "append"
  BY <1>1
<1>3. QED
  BY <1>1, <1>2 DEF GapInv, NumbersHaveNoGap, NewInv, FirstInv, Below, Exists

\* A reschedule starts after the last installment it sees.
LEMMA StartAfter ==
  ASSUME NEW r \in Requests
  PROVE  /\ StartingNumber(r) \in Nat \ {0}
         /\ \A i \in Numbers : Exists(View(r), i) => i < StartingNumber(r)
         /\ \/ StartingNumber(r) = 1
            \/ \E i \in Numbers : Exists(View(r), i) /\ StartingNumber(r) = i + 1
<1> DEFINE S == {i \in Numbers : Exists(View(r), i)}
           m == Max(S \cup {0})
<1>1. /\ IsFiniteSet(S \cup {0}) /\ S \cup {0} # {}
      /\ \A x \in S \cup {0} : x \in Int
  <2>1. IsFiniteSet(S)
    BY NumbersFinite
  <2>2. IsFiniteSet(S \cup {0})
    BY <2>1, FS_AddElement
  <2>3. \A x \in S \cup {0} : x \in Int
    BY LoansAssumption DEF Numbers
  <2>4. QED
    BY <2>2, <2>3
<1>2. m \in S \cup {0} /\ \A x \in S \cup {0} : x <= m
  <2> HIDE DEF S
  <2>1. QED
    BY <1>1, MaxInt
<1>3. StartingNumber(r) = m + 1
  BY DEF StartingNumber
<1>4. m \in Int /\ 0 <= m
  <2> HIDE DEF m, S
  <2>1. QED
    BY <1>1, <1>2
<1>5. \A i \in S : i < m + 1
  <2> HIDE DEF m, S
  <2>1. QED
    BY <1>1, <1>2, <1>4
<1> HIDE DEF m
<1>6. QED
  BY <1>2, <1>3, <1>4, <1>5

\* The start a reschedule chooses leaves no number out.
LEMMA StartBelow ==
  ASSUME LoanInv, GapInv, NEW r \in Requests
  PROVE  StartingNumber(r) \in Int /\ StartingNumber(r) >= 1 /\ Below(r, StartingNumber(r))
<1>1. \A i \in Numbers : Exists(View(r), i) <=> Exists(sched, i) \/ Exists(touched[r], i)
  BY DEF View, Exists
<1>2. ASSUME NEW j \in Numbers, j < StartingNumber(r)
      PROVE  Exists(sched, j) \/ Exists(touched[r], j)
  <2>1. j \in Int /\ j >= 1
    BY LoansAssumption DEF Numbers
  <2>2. PICK i \in Numbers : Exists(View(r), i) /\ StartingNumber(r) = i + 1
    BY <1>2, <2>1, StartAfter
  <2>3. j = i \/ j < i
    BY <1>2, <2>1, <2>2, LoansAssumption DEF Numbers
  <2>4. QED
    BY <1>1, <2>2, <2>3 DEF GapInv, NumbersHaveNoGap, NewInv, Below
<1>3. QED
  BY <1>2, StartAfter DEF Below

\* The numbers an insertion claims follow each other, from one whose predecessors exist.
LEMMA InsertNumbers ==
  ASSUME LoanInv, GapInv, NEW r \in Requests, NEW start \in Int, NEW count, NEW total,
         NEW next, CreateMany(r, start, count, total, next), next # "append",
         count \in Nat, Below(r, start)
  PROVE  GapInv'
<1>1. CASE Rollback(r)
  BY <1>1, RollbackNumbers
<1>2. CASE ~Rollback(r)
  <2> DEFINE v == NewInstallments(start, count, total)
  <2>1. /\ Touch(r, v) /\ UNCHANGED <<sched, first>> /\ pc' = [pc EXCEPT ![r] = next]
    BY <1>2 DEF CreateMany
  <2>2. \A i \in Numbers : Exists(v, i) <=> i \in start..(start + count - 1)
    BY NewInstallmentsStatus DEF Exists
  <2>3. /\ \A s \in Requests \ {r} : touched'[s] = touched[s]
        /\ \A i \in Numbers : Exists(touched'[r], i) <=> Exists(v, i) \/ Exists(touched[r], i)
    BY <2>1 DEF Touch, Exists
  <2> HIDE DEF v
  <2>4. ASSUME NEW i \in Numbers, Exists(v, i), NEW j \in Numbers, j < i
        PROVE  Exists(sched, j) \/ Exists(touched'[r], j)
    <3>1. i \in Int /\ j \in Int /\ i <= start + count - 1
      BY <2>2, <2>4, LoansAssumption DEF Numbers
    <3>2. CASE j < start
      BY <2>3, <3>2 DEF Below
    <3>3. CASE start <= j
      <4>1. j \in start..(start + count - 1)
        BY <2>4, <3>1, <3>3
      <4>2. QED
        BY <2>2, <2>3, <4>1
    <3>4. QED
      BY <3>1, <3>2, <3>3
  <2>5. pc'[r] # "append"
    BY <2>1
  <2>6. QED
    BY <2>1, <2>3, <2>4, <2>5, KeepsNumbers DEF Exists
<1>3. QED
  BY <1>1, <1>2

\* A commit adds the numbers its request inserted.
LEMMA CommitNumbers ==
  ASSUME LoanInv, GapInv, NEW r \in Requests, Commit(r)
  PROVE  GapInv'
<1>1. /\ pc' = [pc EXCEPT ![r] = "done"] /\ first' = first
      /\ \A s \in Requests \ {r} : touched'[s] = touched[s]
      /\ \A i \in Numbers : ~Exists(touched'[r], i)
  BY DEF Commit, EndTransaction, Untouched, Absent, Exists
<1>2. \A i \in Numbers : Exists(sched', i) <=> Exists(sched, i) \/ Exists(touched[r], i)
  BY CommitLoan DEF Exists
<1>3. NumbersHaveNoGap'
  BY <1>2 DEF GapInv, NumbersHaveNoGap, NewInv, Below
<1>4. NewInv'
  BY <1>1, <1>2 DEF GapInv, NewInv, Below
<1>5. FirstInv'
  <2>1. \A s \in Requests : pc'[s] = "append" => s # r /\ pc[s] = "append"
    BY <1>1
  <2>2. QED
    BY <1>1, <1>2, <2>1 DEF GapInv, FirstInv, Below
<1>6. QED
  BY <1>3, <1>4, <1>5 DEF GapInv

\* Installments that are paid or cancelled exist.
LEMMA TouchNumbers ==
  ASSUME LoanInv, GapInv, NEW r \in Requests, PayInstallments(r) \/ CancelInstallments(r)
  PROVE  GapInv'
<1>1. /\ UNCHANGED <<sched, first, plan>>
      /\ pc[r] \in {"pay", "cancel"}
  BY OneRow
<1>2. PICK i \in Numbers : Updates(r, i)
  BY OneRow
<1>3. /\ \A s \in Requests \ {r} : touched'[s] = touched[s] /\ pc'[s] = pc[s]
      /\ pc'[r] # "append"
  BY <1>1, <1>2 DEF Updates, Touch, AfterLast
<1>4. /\ Exists(sched, i) /\ Exists(touched'[r], i)
      /\ \A j \in Numbers \ {i} : touched'[r][j] = touched[r][j]
  BY <1>1, <1>2, UpdateLoan
<1>5. QED
  BY <1>1, <1>3, <1>4, KeepsNumbers DEF Exists

LEMMA ProceedNumbers ==
  ASSUME LoanInv, TypeInv, GapInv, NEW r \in Requests, Proceed(r)
  PROVE  GapInv'
<1>1. CASE Rollback(r)
  BY <1>1, RollbackNumbers
<1>2. CASE CreateSchedule(r)
  <2>1. CreateMany(r, 1, Months * PerMonth, Total, "find")
    BY <1>2 DEF CreateSchedule
  <2>2. Below(r, 1) /\ Months * PerMonth \in Nat
    BY LoansAssumption DEF Below, Numbers
  <2>3. QED
    BY <2>1, <2>2, InsertNumbers
<1>3. CASE AppendInstallments(r)
  <2>1. CreateMany(r, first[r], Op[r].months * PerMonth, owed[r], "commit")
        /\ pc[r] = "append"
    BY <1>3 DEF AppendInstallments
  <2>2. first[r] \in Int /\ Op[r].months * PerMonth \in Nat
    BY CountsPositive DEF TypeInv, TypeOK
  <2>3. QED
    BY <2>1, <2>2, InsertNumbers DEF GapInv, FirstInv
<1>4. CASE NextNumber(r)
  <2>1. /\ UNCHANGED <<sched, touched>>
        /\ \A s \in Requests \ {r} : pc'[s] = pc[s] /\ first'[s] = first[s]
    BY <1>4 DEF NextNumber
  <2>2. first'[r] = StartingNumber(r)
    BY <1>4 DEF NextNumber, TypeInv, TypeOK
  <2>3. QED
    BY <2>1, <2>2, StartBelow, KeepsNumbers DEF Below, Exists
<1>5. CASE MarkOverdue(r)
  <2>1. /\ UNCHANGED <<touched, first>> /\ pc'[r] = "done"
        /\ \A s \in Requests \ {r} : pc'[s] = pc[s]
    BY <1>5 DEF MarkOverdue
  <2>2. \A i \in Numbers : Exists(sched', i) <=> Exists(sched, i)
    BY <1>5, OverdueLoan DEF Exists
  <2>3. QED
    BY <2>1, <2>2, KeepsNumbers
<1>6. CASE /\ \/ Decide(r) \/ FindExisting(r) \/ Insert(r) \/ MarkDisbursed(r)
              \/ ChooseInstallments(r) \/ CountUnpaid(r) \/ CloseLoan(r) \/ ReadUnpaid(r)
           /\ ~Rollback(r)
  <2>1. /\ UNCHANGED <<sched, touched, first>> /\ pc'[r] # "append"
        /\ \A s \in Requests \ {r} : pc'[s] = pc[s]
    BY <1>6 DEF Decide, FindExisting, Insert, InsertDraft, AfterRow, MarkDisbursed,
       MarkLoan, ChooseInstallments, CountUnpaid, CloseLoan, ReadUnpaid
  <2>2. QED
    BY <2>1, KeepsNumbers DEF Exists
<1>7. QED
  BY <1>1, <1>2, <1>3, <1>4, <1>5, <1>6, TouchNumbers, CommitNumbers DEF Proceed

LEMMA NextNumbers ==
  ASSUME LoanInv, TypeInv, GapInv, [Next]_vars
  PROVE  GapInv'
<1>1. ASSUME NEW r \in Requests, Arrive(r) PROVE GapInv'
  <2>1. /\ UNCHANGED <<sched, touched, first>> /\ pc'[r] # "append"
        /\ \A s \in Requests \ {r} : pc'[s] = pc[s]
    BY <1>1 DEF Arrive, SubmitRead, ApproveRead, RejectRead, DisburseRead, RepayRead,
       RescheduleRead, OverdueRead, ReadLoan
  <2>2. QED
    BY <2>1, KeepsNumbers DEF Exists
<1>2. CASE CreateLoan \/ (\E c \in Clients : ClientChanges(c)) \/ UNCHANGED vars
  BY <1>2 DEF CreateLoan, ClientChanges, vars, GapInv, NumbersHaveNoGap, NewInv, FirstInv,
     Below, Exists
<1>3. QED
  BY <1>1, <1>2, ProceedNumbers, RollbackNumbers DEF Next, Abort

LEMMA GapInvariant == Spec => []GapInv
<1>1. Init => GapInv
  BY DEF Init, TransactionsInit, GapInv, NumbersHaveNoGap, NewInv, FirstInv, Untouched,
     Absent, Exists
<1>2. QED
  BY <1>1, NextNumbers, LoanInvariant, TypeInvariant, PTL DEF Spec

\* A loan's installments are numbered without a gap, however many reschedules,
\* disbursements and repayments run at once and wherever they fail.
THEOREM NumbersFollow == Spec => []NumbersHaveNoGap
<1>1. GapInv => NumbersHaveNoGap
  BY DEF GapInv
<1>2. QED
  BY <1>1, GapInvariant, PTL

-----------------------------------------------------------------------------
(***************************************************************************)
(* What requests rely on when they overlap.  The installments that a       *)
(* repayment or a reschedule took may have been paid, cancelled or         *)
(* replaced by the time it commits; what they are due never changes.       *)
(***************************************************************************)

Rescheduled == {s \in Requests : Kind(s) = "reschedule" /\ pc[s] = "done"}

Keeps(r, i) == ~Exists(touched[r], i)

\* The points at which r has touched no installment.
Fresh(r) ==
  \/ pc[r] \in {"idle", "decide", "schedule", "read", "overdue", "done", "failed"}
  \/ pc[r] \in {"find", "insert"} /\ Kind(r) = "repay"

FreshOf(r) == Fresh(r) => \A i \in Numbers : Keeps(r, i)

\* The last number a loan can have reached.
LastNumber ==
  PerMonth * (Months + SumOf([s \in Requests |-> Op[s].months], Rescheduled))

Added(r) == Op[r].months * PerMonth

\* A disbursement inserts the first installments of the loan.
DisburseOf(r) ==
  Kind(r) = "disburse" /\ pc[r] \in {"find", "insert", "disburse", "commit"} =>
    \A i \in Numbers : IF i \in 1..(Months * PerMonth)
                       THEN touched[r][i] = NewInstallments(1, Months * PerMonth, Total)[i]
                       ELSE Keeps(r, i)

\* The installments r holds are among those it took, with what they are due.
Retaking(r, status) ==
  \A i \in Held(r) :
    /\ i \in plan[r]
    /\ touched[r][i].due = sched[i].due
    /\ touched[r][i].status = status
    /\ status = "PAID" => touched[r][i].paidBy = row[r]

\* All of them.
Retaken(r, status) == Retaking(r, status) /\ Left(r) = {}

\* A repayment took installments that add up to its amount, whatever became of them, and
\* updates them in the order of their numbers.
RepayingOf(r) ==
  Kind(r) = "repay" =>
    /\ pc[r] \in {"find", "insert", "pay", "count", "close", "commit", "done"} =>
         Due(sched, plan[r]) = Op[r].amount
    /\ pc[r] = "pay" => /\ Retaking(r, "PAID")
                        /\ \A i \in Held(r), j \in Left(r) : i < j
    /\ pc[r] \in {"count", "close", "commit"} => Retaken(r, "PAID")

\* A reschedule spreads what the installments it took are due, and its penalty, over
\* new ones, for which there is room.
ReschedulingOf(r) ==
  Kind(r) = "reschedule" =>
    /\ pc[r] \in {"cancel", "number", "append", "commit", "done"} =>
         plan[r] # {} /\ owed[r] = Due(sched, plan[r]) + Op[r].amount
    /\ pc[r] = "cancel" => Retaking(r, "CANCELLED")
    /\ pc[r] \in {"number", "append"} => Retaken(r, "CANCELLED")
    /\ pc[r] \in {"append", "commit"} => first[r] \in 1..(LastNumber + 1)
    /\ pc[r] = "commit" =>
         \A i \in Numbers :
           IF i \in first[r]..(first[r] + Added(r) - 1)
           THEN touched[r][i] = NewInstallments(first[r], Added(r), owed[r])[i]
           ELSE IF i \in plan[r]
           THEN touched[r][i].due = sched[i].due /\ touched[r][i].status = "CANCELLED"
           ELSE Keeps(r, i)

\* Which operations commit, and when they have written the loan's status.
CommitterOf(r) ==
  /\ pc[r] = "commit" => Kind(r) \in {"disburse", "repay", "reschedule"}
  /\ pc[r] = "overdue" => IsJob(r)
  /\ loanWrite[r] # None => pc[r] = "commit"

OverlapOf(r) ==
  CommitterOf(r) /\ FreshOf(r) /\ RepayingOf(r) /\ ReschedulingOf(r) /\ DisburseOf(r)

\* No installment is negative, nor numbered beyond the months the loan was given.
NumbersBounded ==
  /\ \A i \in Numbers : sched[i].due >= 0
  /\ \A i \in Numbers : Exists(sched, i) => i <= LastNumber

OverlapInv == NumbersBounded /\ \A r \in Requests : OverlapOf(r)

-----------------------------------------------------------------------------
(* What installments are due *)

LEMMA DueSame ==
  ASSUME NEW v, NEW w, NEW S \in SUBSET Numbers, \A i \in S : v[i].due = w[i].due
  PROVE  Due(v, S) = Due(w, S)
<1>1. \A x \in S : [i \in S |-> v[i].due][x] = [i \in S |-> w[i].due][x]
  OBVIOUS
<1>2. IsFiniteSet(S)
  BY NumbersFinite
<1>3. QED
  BY <1>1, <1>2, SumEqual DEF Due

LEMMA DueSplit ==
  ASSUME NEW v, \A i \in Numbers : v[i].due \in Int, NEW S \in SUBSET Numbers,
         NEW P \in SUBSET S
  PROVE  Due(v, S) = Due(v, P) + Due(v, S \ P)
<1> DEFINE f == [i \in S |-> v[i].due]
<1>1. \A x \in S : f[x] \in Int
  OBVIOUS
<1>2. IsFiniteSet(S) /\ IsFiniteSet(P) /\ IsFiniteSet(S \ P)
  BY NumbersFinite
<1>3. SumOf(f, S) = SumOf(f, P) + SumOf(f, S \ P)
  <2> HIDE DEF f
  <2>1. QED
    BY ONLY <1>1, <1>2, P \in SUBSET S, SumSplit
<1>4. SumOf(f, P) = Due(v, P) /\ SumOf(f, S \ P) = Due(v, S \ P)
  <2>1. /\ \A x \in P : f[x] = [i \in P |-> v[i].due][x]
        /\ \A x \in S \ P : f[x] = [i \in S \ P |-> v[i].due][x]
    OBVIOUS
  <2> HIDE DEF f
  <2>2. QED
    BY <1>2, <2>1, SumEqual DEF Due
<1>5. SumOf(f, S) = Due(v, S)
  BY DEF Due
<1>6. QED
  BY <1>3, <1>4, <1>5

LEMMA DueNat ==
  ASSUME NEW v, \A i \in Numbers : v[i].due \in Nat, NEW S \in SUBSET Numbers,
         NEW P \in SUBSET S
  PROVE  Due(v, P) \in Nat /\ Due(v, S) \in Nat /\ Due(v, P) <= Due(v, S)
<1>1. \A T \in SUBSET Numbers : Due(v, T) \in Nat
  <2> SUFFICES ASSUME NEW T \in SUBSET Numbers
               PROVE  Due(v, T) \in Nat
    OBVIOUS
  <2>1. \A x \in T : [i \in T |-> v[i].due][x] \in Nat
    OBVIOUS
  <2>2. QED
    BY <2>1, NumbersFinite, SumNat DEF Due
<1>2. Due(v, S) = Due(v, P) + Due(v, S \ P)
  BY DueSplit
<1>3. P \in SUBSET Numbers /\ S \ P \in SUBSET Numbers
  OBVIOUS
<1>4. QED
  BY <1>1, <1>2, <1>3

\* Rounding down never takes more than there is.
LEMMA BaseBounds ==
  ASSUME NEW total \in Nat, NEW count \in Nat \ {0}
  PROVE  /\ Base(total, count) \in Nat
         /\ Base(total, count) * count <= total
         /\ Base(total, count) * (count - 1) \in Nat
         /\ Base(total, count) * (count - 1) + Base(total, count)
              = Base(total, count) * count
<1> DEFINE d == count * Unit
           q == total \div d
<1>1. d \in Nat \ {0} /\ Unit \in Nat \ {0}
  BY LoansAssumption
<1>2. q \in Int /\ d * q <= total /\ total < d * q + d
  <2> HIDE DEF d
  <2>1. QED
    BY <1>1
<1> HIDE DEF q
<1>3. 0 <= q
  <2>1. SUFFICES ASSUME q <= -1
                 PROVE  FALSE
    BY <1>2
  <2> HIDE DEF d
  <2>2. d * q <= d * (-1)
    BY <1>1, <1>2, <2>1
  <2>3. d * (-1) = -d
    BY <1>1
  <2>4. d * q \in Int
    BY <1>1, <1>2
  <2>5. QED
    BY <1>1, <1>2, <2>2, <2>3, <2>4
<1>4. Base(total, count) = Unit * q
  BY DEF Base, q
<1>5. Unit * q \in Nat
  BY <1>1, <1>2, <1>3
<1>6. (Unit * q) * count = d * q
  BY <1>1, <1>2
<1> DEFINE b == Base(total, count)
<1>7. b \in Nat /\ b * count <= total
  BY <1>2, <1>4, <1>5, <1>6
<1> HIDE DEF b
<1>8. b * (count - 1) \in Nat /\ b * (count - 1) + b = b * count
  BY <1>7
<1>9. QED
  BY <1>7, <1>8 DEF b

LEMMA InstallmentDueBounds ==
  ASSUME NEW total \in Nat, NEW count \in Nat \ {0}, NEW k \in Int
  PROVE  /\ InstallmentDue(total, count, k) \in Nat
         /\ total > 0 => InstallmentDue(total, count, count) > 0
<1> DEFINE b == Base(total, count)
           c == b * (count - 1)
<1>1. b \in Nat /\ c \in Nat /\ c + b <= total
  BY BaseBounds
<1>2. InstallmentDue(total, count, k) \in {b, total - c}
      /\ InstallmentDue(total, count, count) = total - c
  BY DEF InstallmentDue
<1>3. total > 0 => c < total
  <2>1. CASE b = 0
    <3>1. c = 0
      BY <2>1
    <3> HIDE DEF c, b
    <3>2. QED
      BY <3>1
  <2>2. CASE b # 0
    <3> HIDE DEF c, b
    <3>1. QED
      BY <1>1, <2>2
  <2>3. QED
    BY <2>1, <2>2
<1> HIDE DEF b, c
<1>4. QED
  BY <1>1, <1>2, <1>3

\* Splitting an amount over installments loses nothing and invents nothing.
LEMMA NewInstallmentsSum ==
  ASSUME NEW start \in Nat \ {0}, NEW count \in Nat \ {0}, NEW total \in Nat,
         start + count - 1 <= MaxNumber
  PROVE  /\ start..(start + count - 1) \subseteq Numbers
         /\ \A i \in start..(start + count - 1) :
              NewInstallments(start, count, total)[i].due \in Nat
         /\ total > 0 => NewInstallments(start, count, total)[start + count - 1].due > 0
         /\ Due(NewInstallments(start, count, total), start..(start + count - 1)) = total
<1> DEFINE v == NewInstallments(start, count, total)
           last == start + count - 1
           S == start..last
           f == [i \in S |-> v[i].due]
           R == start..(last - 1)
           b == Base(total, count)
<1>1. S \subseteq Numbers /\ last \in S /\ last \in Nat
  BY LoansAssumption DEF Numbers
<1>2. \A i \in S : v[i].due = InstallmentDue(total, count, i - start + 1)
  BY <1>1 DEF NewInstallments
<1>3. \A i \in S : v[i].due \in Nat
  <2> SUFFICES ASSUME NEW i \in S
               PROVE  v[i].due \in Nat
    OBVIOUS
  <2>1. i - start + 1 \in Int
    OBVIOUS
  <2>2. InstallmentDue(total, count, i - start + 1) \in Nat
    BY <2>1, InstallmentDueBounds
  <2>3. QED
    BY <1>2, <2>2
<1>4. v[last].due = InstallmentDue(total, count, count)
  <2>1. last - start + 1 = count
    OBVIOUS
  <2>2. v[last].due = InstallmentDue(total, count, last - start + 1)
    BY <1>1, <1>2
  <2> HIDE DEF v, last
  <2>3. QED
    BY <2>1, <2>2
<1>5. v[last].due = total - b * (count - 1)
  BY <1>4 DEF InstallmentDue
<1>6. \A i \in R : f[i] = b
  <2> SUFFICES ASSUME NEW i \in R
               PROVE  f[i] = b
    OBVIOUS
  <2>1. i \in S /\ i - start + 1 < count /\ i - start + 1 \in Int
    OBVIOUS
  <2>2. QED
    BY <1>2, <2>1 DEF InstallmentDue
<1>7. SumOf(f, R) = b * (count - 1)
  <2>1. IsFiniteSet(R) /\ Cardinality(R) = count - 1
    <3>1. IsFiniteSet(R) /\ Cardinality(R) = IF start > last - 1 THEN 0 ELSE (last - 1) - start + 1
      BY <1>1, FS_Interval
    <3>2. QED
      BY <3>1
  <2>2. b \in Int
    BY BaseBounds
  <2> HIDE DEF R, f, b
  <2>3. SumOf(f, R) = b * Cardinality(R)
    BY <1>6, <2>1, <2>2, SumConstant
  <2>4. QED
    BY <2>1, <2>3
<1>8. SumOf(f, S) = f[last] + SumOf(f, S \ {last})
  <2>1. IsFiniteSet(S) /\ \A x \in S : f[x] \in Int
    BY <1>1, <1>3, NumbersFinite
  <2> HIDE DEF S, f, last
  <2>2. QED
    BY ONLY <1>1, <2>1, SumRemove
<1>9. S \ {last} = R
  BY <1>1
<1>10. f[last] = v[last].due
  BY <1>1
<1>11. b * (count - 1) \in Nat
  BY BaseBounds
<1>12. SumOf(f, S) = total
  <2>1. SumOf(f, S \ {last}) = b * (count - 1)
    BY <1>7, <1>9, Zenon
  <2> DEFINE c == b * (count - 1)
  <2>2. f[last] = total - c /\ SumOf(f, S) = f[last] + c /\ c \in Nat
    BY ONLY <1>5, <1>8, <1>10, <1>11, <2>1
  <2> HIDE DEF S, f, last, c
  <2>3. QED
    BY <2>2
<1>13. total > 0 => v[last].due > 0
  <2> HIDE DEF v, last
  <2>1. QED
    BY <1>4, InstallmentDueBounds
<1>14. QED
  BY <1>1, <1>3, <1>12, <1>13 DEF Due

\* What the split of the principal and interest amounts to.
LEMMA FirstSchedule ==
  ASSUME NEW N, N = 1..(Months * PerMonth),
         NEW v, v = NewInstallments(1, Months * PerMonth, Total)
  PROVE  /\ \A i \in N : v[i].due \in Nat
         /\ v[Months * PerMonth].due > 0
         /\ Due(v, N) = Total
<1> DEFINE c == Months * PerMonth
<1>1. c \in Nat \ {0} /\ Total \in Nat \ {0} /\ c <= MaxNumber /\ 1 + c - 1 = c
  BY CountsPositive, LoansAssumption
<1> HIDE DEF c
<1>2. /\ 1 + c - 1 <= MaxNumber /\ 1 \in Nat \ {0} /\ Total \in Nat /\ Total > 0
  BY <1>1
<1>3. /\ \A i \in 1..(1 + c - 1) : NewInstallments(1, c, Total)[i].due \in Nat
      /\ NewInstallments(1, c, Total)[1 + c - 1].due > 0
      /\ Due(NewInstallments(1, c, Total), 1..(1 + c - 1)) = Total
  BY <1>1, <1>2, NewInstallmentsSum
<1>4. QED
  BY <1>1, <1>3 DEF c

-----------------------------------------------------------------------------
(* What a step changes *)

\* The installments keep what an operation relies on.
SameSchedule ==
  \A i \in Numbers :
    /\ sched'[i].due = sched[i].due
    /\ sched'[i].paidBy = sched[i].paidBy
    /\ sched'[i].status \in {"PENDING", "OVERDUE"} <=> sched[i].status \in {"PENDING", "OVERDUE"}
    /\ sched'[i].status = sched[i].status \/ sched[i].status = "PENDING"

\* The job leaves the debt and what is settled as they are.
LEMMA OverdueSame ==
  ASSUME NEW r \in Requests, MarkOverdue(r)
  PROVE  SameSchedule
BY DEF MarkOverdue, StillPending, SameSchedule

\* The bound on the numbers leaves room for every reschedule that is still to come.
LEMMA Room ==
  ASSUME TypeInv
  PROVE  /\ LastNumber \in Nat
         /\ \A r \in Requests : Kind(r) = "reschedule" /\ r \notin Rescheduled =>
              LastNumber + Added(r) <= MaxNumber
<1> DEFINE f == [s \in Requests |-> Op[s].months]
           R == {s \in Requests : Kind(s) = "reschedule"}
<1>1. /\ IsFiniteSet(R) /\ Rescheduled \subseteq R /\ IsFiniteSet(Rescheduled)
      /\ \A s \in R : f[s] \in Nat
  <2>1. R \subseteq Requests /\ Rescheduled \subseteq R /\ Rescheduled \subseteq Requests
    BY DEF Rescheduled
  <2>2. \A s \in R : f[s] \in Nat
    BY LoansAssumption DEF OpType
  <2>3. IsFiniteSet(R) /\ IsFiniteSet(Rescheduled)
    BY <2>1, TransactionsAssumption, FS_Subset
  <2>4. QED
    BY <2>1, <2>2, <2>3
<1>2. NewMonths = SumOf(f, R) /\ LastNumber = PerMonth * (Months + SumOf(f, Rescheduled))
  BY DEF NewMonths, LastNumber
<1>3. SumOf(f, Rescheduled) \in Nat /\ SumOf(f, R) \in Nat
  <2> HIDE DEF f, R
  <2>1. QED
    BY <1>1, SumGrows
<1>4. ASSUME NEW r \in Requests, Kind(r) = "reschedule", r \notin Rescheduled
      PROVE  LastNumber + Added(r) <= MaxNumber
  <2> DEFINE T == Rescheduled \cup {r}
  <2>1. T \subseteq R /\ T \ {r} = Rescheduled /\ f[r] = Op[r].months /\ r \in T
    BY <1>1, <1>4
  <2>2. IsFiniteSet(T) /\ \A x \in T : f[x] \in Int
    <3>1. IsFiniteSet(T)
      BY <1>1, FS_AddElement
    <3>2. QED
      BY <1>1, <2>1, <3>1
  <2>3. SumOf(f, T) = f[r] + SumOf(f, Rescheduled)
    <3> HIDE DEF f, R, T
    <3>1. SumOf(f, T) = f[r] + SumOf(f, T \ {r})
      BY ONLY <2>1, <2>2, SumRemove
    <3>2. QED
      BY <2>1, <3>1
  <2>4. SumOf(f, T) <= SumOf(f, R)
    <3> HIDE DEF f, R, T
    <3>1. QED
      BY ONLY <1>1, <2>1, SumGrows
  <2> DEFINE a == SumOf(f, Rescheduled)
             b == SumOf(f, R)
             m == Op[r].months
  <2>5. a \in Nat /\ b \in Nat /\ m \in Nat /\ m + a <= b
    BY <1>3, <2>1, <2>3, <2>4, LoansAssumption DEF OpType
  <2>6. PerMonth \in Nat \ {0} /\ Months \in Nat /\ MaxNumber \in Nat
        /\ MaxNumber >= PerMonth * (Months + b)
    BY <1>2, LoansAssumption, RoomAssumption
  <2>7. LastNumber + Added(r) = PerMonth * (Months + a) + m * PerMonth
    BY <1>2 DEF Added
  <2> HIDE DEF a, b, m
  <2>8. PerMonth * (Months + a) + m * PerMonth = PerMonth * (Months + (m + a))
    BY <2>5, <2>6
  <2>9. PerMonth * (Months + (m + a)) <= PerMonth * (Months + b)
    BY <2>5, <2>6
  <2> DEFINE p == PerMonth * (Months + b)
             q == PerMonth * (Months + (m + a))
  <2>10. p \in Int /\ q \in Int /\ q <= p /\ p <= MaxNumber /\ LastNumber + Added(r) = q
    BY <2>5, <2>6, <2>7, <2>8, <2>9
  <2> HIDE DEF p, q
  <2>11. QED
    BY <2>6, <2>10
<1>5. LastNumber \in Nat
  BY <1>2, <1>3, LoansAssumption
<1>6. QED
  BY <1>4, <1>5

LEMMA MoreMonths ==
  ASSUME NEW r \in Requests, Rescheduled' = Rescheduled \cup {r}, r \notin Rescheduled
  PROVE  LastNumber' = LastNumber + Added(r)
<1> DEFINE f == [s \in Requests |-> Op[s].months]
           T == Rescheduled \cup {r}
<1>1. Rescheduled \subseteq Requests /\ IsFiniteSet(Rescheduled)
  BY TransactionsAssumption, FS_Subset DEF Rescheduled
<1>2. IsFiniteSet(T) /\ T \subseteq Requests
  BY <1>1, FS_AddElement
<1>3. \A x \in Requests : f[x] \in Nat
  BY LoansAssumption DEF OpType
<1>4. r \in T /\ T \ {r} = Rescheduled /\ f[r] = Op[r].months
  OBVIOUS
<1>5. LastNumber' = PerMonth * (Months + SumOf(f, Rescheduled'))
  BY DEF LastNumber
<1>6. LastNumber = PerMonth * (Months + SumOf(f, Rescheduled))
  BY DEF LastNumber
<1> HIDE DEF f
<1>7. \A x \in T : f[x] \in Int
  BY <1>2, <1>3
<1>8. SumOf(f, Rescheduled') = f[r] + SumOf(f, Rescheduled)
  <2>1. Rescheduled' = T
    OBVIOUS
  <2> HIDE DEF T
  <2>2. SumOf(f, T) = f[r] + SumOf(f, T \ {r})
    BY ONLY <1>2, <1>4, <1>7, SumRemove
  <2>3. QED
    BY <1>4, <2>1, <2>2
<1>9. SumOf(f, Rescheduled) \in Int
  BY <1>1, <1>3, SumInt
<1> DEFINE a == SumOf(f, Rescheduled)
           m == Op[r].months
<1>10. LastNumber' = PerMonth * (Months + (m + a)) /\ LastNumber = PerMonth * (Months + a)
       /\ Added(r) = m * PerMonth
  BY <1>4, <1>5, <1>6, <1>8 DEF Added
<1>11. a \in Int /\ m \in Nat /\ PerMonth \in Nat /\ Months \in Nat
  BY <1>9, LoansAssumption DEF OpType
<1> HIDE DEF a, m
<1>12. PerMonth * (Months + (m + a)) = PerMonth * (Months + a) + m * PerMonth
  BY <1>11
<1>13. QED
  BY <1>10, <1>12

\* A step of r leaves alone what the others hold.
LEMMA Private ==
  ASSUME TypeInv, NEW r \in Requests, Arrive(r) \/ Proceed(r) \/ Abort(r)
  PROVE  \A s \in Requests \ {r} :
           /\ pc'[s] = pc[s] /\ touched'[s] = touched[s] /\ loanWrite'[s] = loanWrite[s]
           /\ plan'[s] = plan[s] /\ row'[s] = row[s] /\ owed'[s] = owed[s]
           /\ first'[s] = first[s]
<1> USE DEF TypeInv, TypeOK
<1>1. CASE Arrive(r)
  BY <1>1 DEF Arrive, SubmitRead, ApproveRead, RejectRead, DisburseRead, RepayRead,
     RescheduleRead, OverdueRead, ReadLoan
<1>2. CASE Rollback(r)
  BY <1>2 DEF Rollback, EndTransaction
<1>3. CASE CreateSchedule(r) \/ AppendInstallments(r)
  BY <1>2, <1>3 DEF CreateSchedule, AppendInstallments, CreateMany, Touch
<1>4. CASE FindExisting(r) \/ Insert(r)
  BY <1>2, <1>4 DEF FindExisting, ReturnExisting, Insert, InsertDraft
<1>5. CASE MarkDisbursed(r) \/ CloseLoan(r) \/ CountUnpaid(r) \/ Decide(r) \/ MarkOverdue(r)
  BY <1>5 DEF MarkDisbursed, CloseLoan, MarkLoan, CountUnpaid, Decide, MarkOverdue
<1>6. CASE ChooseInstallments(r) \/ ReadUnpaid(r) \/ NextNumber(r)
  BY <1>6 DEF ChooseInstallments, ReadUnpaid, NextNumber
<1>7. CASE PayInstallments(r) \/ CancelInstallments(r)
  BY <1>7 DEF PayInstallments, CancelInstallments, AfterUpdate, Touch
<1>8. CASE Commit(r)
  BY <1>8 DEF Commit, EndTransaction
<1>9. QED
  BY <1>1, <1>2, <1>3, <1>4, <1>5, <1>6, <1>7, <1>8 DEF Proceed, Abort

\* Only commits and the overdue job change installments, only commits and decisions the
\* loan's status, and only commits end a repayment or a reschedule.
LEMMA Quiet ==
  ASSUME LoanInv, TypeInv, NEW r \in Requests, pc[r] = "overdue" => IsJob(r),
         Arrive(r) \/ Proceed(r) \/ Abort(r), ~Commit(r)
  PROVE  /\ sched' = sched \/ MarkOverdue(r)
         /\ loan' = loan \/ Decide(r)
         /\ Rescheduled' = Rescheduled /\ Takers' = Takers
<1>1. /\ sched' = sched \/ MarkOverdue(r)
      /\ loan' = loan \/ Decide(r)
  BY DEF Arrive, SubmitRead, ApproveRead, RejectRead, DisburseRead, RepayRead,
     RescheduleRead, OverdueRead, ReadLoan, Proceed, Abort, Rollback, Decide, FindExisting,
     Insert, CreateSchedule, CreateMany, MarkDisbursed, CloseLoan, MarkLoan,
     ChooseInstallments, PayInstallments, CountUnpaid, ReadUnpaid, CancelInstallments,
     NextNumber, AppendInstallments, MarkOverdue
<1>2. pc[r] = "done" => FALSE
  BY DEF Arrive, SubmitRead, ApproveRead, RejectRead, DisburseRead, RepayRead,
     RescheduleRead, OverdueRead, ReadLoan, Proceed, Abort, InFlight, Decide, FindExisting,
     Insert, CreateSchedule, CreateMany, MarkDisbursed, CloseLoan, MarkLoan,
     ChooseInstallments, PayInstallments, CountUnpaid, ReadUnpaid, CancelInstallments,
     NextNumber, AppendInstallments, MarkOverdue
<1>3. Kind(r) \in {"repay", "reschedule"} => pc'[r] # "done"
  <2>1. CASE Arrive(r)
    BY <2>1 DEF Arrive, SubmitRead, ApproveRead, RejectRead, DisburseRead, RepayRead,
       RescheduleRead, OverdueRead, ReadLoan
  <2>2. CASE Rollback(r)
    BY <2>2 DEF Rollback
  <2>3. CASE Decide(r)
    BY <2>3 DEF Decide, TypeInv
  <2>4. CASE MarkOverdue(r) /\ Kind(r) \in {"repay", "reschedule"}
    BY <2>4 DEF MarkOverdue, IsJob
  <2>5. QED
    BY <2>1, <2>2, <2>3, <2>4 DEF Proceed, Abort, FindExisting, AfterRow, Insert,
       CreateSchedule, CreateMany, MarkDisbursed, CloseLoan, MarkLoan, ChooseInstallments,
       PayInstallments, CountUnpaid, ReadUnpaid, CancelInstallments, AfterUpdate,
       NextNumber, AppendInstallments, MarkOverdue
<1>4. \A s \in Requests \ {r} : pc'[s] = pc[s]
  BY Private
<1>5. Rescheduled' = Rescheduled /\ Takers' = Takers
  BY <1>2, <1>3, <1>4 DEF Rescheduled, Takers
<1>6. QED
  BY <1>1, <1>5

-----------------------------------------------------------------------------
(* What the others rely on while one moves, and what the one that moves does *)

\* A step of another request leaves s what it relies on: the installments that exist keep
\* what they are due, whatever becomes of their status.
LEMMA OverlapFrame ==
  ASSUME LoanInv, TypeInv, NEW s \in Requests, OverlapOf(s),
         \A i \in Numbers : Exists(sched, i) => sched'[i].due = sched[i].due,
         LastNumber \in Nat, LastNumber' \in Nat, LastNumber <= LastNumber',
         pc'[s] = pc[s], touched'[s] = touched[s], plan'[s] = plan[s], row'[s] = row[s],
         owed'[s] = owed[s], first'[s] = first[s], loanWrite'[s] = loanWrite[s]
  PROVE  OverlapOf(s)'
<1>1. /\ plan[s] \subseteq Numbers
      /\ \A i \in plan[s] : i \in Numbers /\ sched'[i].due = sched[i].due
  BY DEF PlanInv, TypeInv, TypeOK
<1>2. Due(sched', plan[s]) = Due(sched, plan[s])
  BY <1>1, DueSame
<1>3. Held(s)' = Held(s) /\ Left(s)' = Left(s)
  BY DEF Held, Left, Exists
<1>4. \A status : /\ Retaking(s, status) => Retaking(s, status)'
                  /\ Retaken(s, status) => Retaken(s, status)'
  BY <1>1, <1>3 DEF Retaken, Retaking
<1>5. CommitterOf(s)' /\ FreshOf(s)' /\ DisburseOf(s)'
  BY DEF OverlapOf, CommitterOf, IsJob, FreshOf, Fresh, Keeps, Exists, DisburseOf
<1>6. RepayingOf(s)'
  BY <1>2, <1>3, <1>4 DEF OverlapOf, RepayingOf
<1>7. ReschedulingOf(s)'
  <2> SUFFICES ASSUME Kind(s) = "reschedule" PROVE ReschedulingOf(s)'
    BY DEF ReschedulingOf
  <2>1. pc[s] \in {"append", "commit"} => first[s] \in 1..(LastNumber' + 1)
    BY DEF OverlapOf, ReschedulingOf
  <2>2. /\ pc[s] \in {"cancel", "number", "append", "commit", "done"} =>
             plan[s] # {} /\ owed[s] = Due(sched', plan[s]) + Op[s].amount
        /\ pc[s] = "cancel" => Retaking(s, "CANCELLED")'
        /\ pc[s] \in {"number", "append"} => Retaken(s, "CANCELLED")'
    BY <1>2, <1>4 DEF OverlapOf, ReschedulingOf
  <2>3. pc[s] = "commit" =>
          \A i \in Numbers :
            IF i \in first[s]..(first[s] + Added(s) - 1)
            THEN touched[s][i] = NewInstallments(first[s], Added(s), owed[s])[i]
            ELSE IF i \in plan[s]
            THEN touched[s][i].due = sched'[i].due /\ touched[s][i].status = "CANCELLED"
            ELSE Keeps(s, i)
    BY <1>1 DEF OverlapOf, ReschedulingOf
  <2>4. QED
    BY <2>1, <2>2, <2>3 DEF ReschedulingOf, Keeps, Exists, Added
<1>8. QED
  BY <1>5, <1>6, <1>7 DEF OverlapOf

\* What a request that is done leaves true.
Carried(r) ==
  /\ Kind(r) = "repay" => Due(sched, plan[r]) = Op[r].amount
  /\ Kind(r) = "reschedule" =>
       plan[r] # {} /\ owed[r] = Due(sched, plan[r]) + Op[r].amount

\* At these points a request relies on nothing.
LEMMA OverlapRest ==
  ASSUME NEW r \in Requests,
         pc'[r] \in {"idle", "decide", "schedule", "read", "overdue", "done", "failed"},
         pc'[r] = "overdue" => IsJob(r), loanWrite'[r] = None,
         pc'[r] = "done" => Carried(r)',
         \A i \in Numbers : ~Exists(touched'[r], i)
  PROVE  OverlapOf(r)'
<1>1. CommitterOf(r)' /\ FreshOf(r)'
  BY DEF CommitterOf, IsJob, FreshOf, Keeps
<1>2. RepayingOf(r)' /\ ReschedulingOf(r)' /\ DisburseOf(r)'
  BY DEF RepayingOf, ReschedulingOf, DisburseOf, Carried
<1>3. QED
  BY <1>1, <1>2 DEF OverlapOf

LEMMA ArriveOverlap ==
  ASSUME LoanInv, NEW r \in Requests, OverlapOf(r), Arrive(r)
  PROVE  OverlapOf(r)'
<1>1. /\ pc[r] = "idle" /\ UNCHANGED <<touched, plan, loanWrite>>
      /\ pc'[r] \in {"decide", "schedule", "read", "overdue", "done", "failed"}
      /\ pc'[r] \in {"overdue", "done"} => IsJob(r)
  BY DEF Arrive, SubmitRead, ApproveRead, RejectRead, DisburseRead, RepayRead,
     RescheduleRead, OverdueRead, ReadLoan, IsJob
<1>2. loanWrite[r] = None /\ \A i \in Numbers : ~Exists(touched[r], i)
  BY <1>1 DEF OverlapOf, CommitterOf, FreshOf, Fresh, Keeps
<1>3. pc'[r] = "done" => Carried(r)'
  BY <1>1 DEF Carried, IsJob
<1>4. QED
  BY <1>1, <1>2, <1>3, OverlapRest DEF IsJob

LEMMA RollbackOverlap ==
  ASSUME LoanInv, TypeInv, NEW r \in Requests, Rollback(r)
  PROVE  OverlapOf(r)'
<1>1. pc'[r] = "failed" /\ touched'[r] = Untouched /\ loanWrite'[r] = None
  BY DEF Rollback, EndTransaction, TypeInv, TypeOK
<1>2. \A i \in Numbers : ~Exists(touched'[r], i)
  BY <1>1 DEF Untouched, Absent, Exists
<1>3. QED
  BY <1>1, <1>2, OverlapRest

LEMMA DoneOverlap ==
  ASSUME LoanInv, TypeInv, NEW r \in Requests, OverlapOf(r), Decide(r) \/ MarkOverdue(r)
  PROVE  OverlapOf(r)'
<1>1. /\ pc[r] \in {"decide", "overdue"} /\ pc'[r] = "done" /\ UNCHANGED <<touched, loanWrite>>
      /\ Kind(r) \notin {"repay", "reschedule"}
  BY DEF Decide, MarkOverdue, TypeInv, OverlapOf, CommitterOf, IsJob
<1>2. loanWrite[r] = None /\ \A i \in Numbers : ~Exists(touched[r], i)
  BY <1>1 DEF OverlapOf, CommitterOf, FreshOf, Fresh, Keeps
<1>3. Carried(r)'
  BY <1>1 DEF Carried
<1>4. QED
  BY <1>1, <1>2, <1>3, OverlapRest

LEMMA ScheduleOverlap ==
  ASSUME LoanInv, TypeInv, NEW r \in Requests, OverlapOf(r), CreateSchedule(r), ~Rollback(r)
  PROVE  OverlapOf(r)'
<1> DEFINE v == NewInstallments(1, Months * PerMonth, Total)
<1>1. pc[r] = "schedule" /\ pc'[r] = "find" /\ Touch(r, v) /\ loanWrite' = loanWrite
  BY DEF CreateSchedule, CreateMany
<1>2. Kind(r) = "disburse"
  BY <1>1 DEF KindPoints
<1>3. \A i \in Numbers : ~Exists(touched[r], i)
  BY <1>1 DEF OverlapOf, FreshOf, Fresh, Keeps
<1>4. \A i \in Numbers : Exists(v, i) <=> i \in 1..(Months * PerMonth)
  <2>1. 1 + Months * PerMonth - 1 = Months * PerMonth
    BY CountsPositive
  <2>2. QED
    BY <2>1, NewInstallmentsStatus DEF Exists
<1> HIDE DEF v
<1>5. \A i \in Numbers : touched'[r][i] = IF Exists(v, i) THEN v[i] ELSE touched[r][i]
  BY <1>1 DEF Touch, TypeInv, TypeOK
<1>6. DisburseOf(r)'
  BY <1>3, <1>4, <1>5 DEF DisburseOf, Keeps, Exists, v
<1>7. CommitterOf(r)' /\ FreshOf(r)' /\ RepayingOf(r)' /\ ReschedulingOf(r)'
  BY <1>1, <1>2 DEF OverlapOf, CommitterOf, FreshOf, Fresh, RepayingOf, ReschedulingOf
<1>8. QED
  BY <1>6, <1>7 DEF OverlapOf

\* A step within a transaction that touches no installment and takes none.
LEMMA LocalOverlap ==
  ASSUME LoanInv, TypeInv, NEW r \in Requests, OverlapOf(r),
         FindExisting(r) \/ Insert(r) \/ MarkDisbursed(r) \/ CountUnpaid(r) \/ CloseLoan(r),
         ~Rollback(r)
  PROVE  OverlapOf(r)'
<1>1. UNCHANGED <<sched, touched, plan>>
  BY DEF FindExisting, Insert, MarkDisbursed, CountUnpaid, CloseLoan, MarkLoan
<1>2. \/ /\ pc[r] \in {"find", "insert"} /\ Kind(r) \in {"disburse", "repay"}
         /\ pc'[r] \in {"insert", IF Kind(r) = "disburse" THEN "disburse" ELSE "pay"}
      \/ Kind(r) = "disburse" /\ pc[r] = "disburse" /\ pc'[r] = "commit"
      \/ /\ Kind(r) = "repay" /\ pc[r] \in {"count", "close"} /\ row' = row
         /\ pc'[r] \in {"close", "commit"}
  BY DEF FindExisting, Insert, AfterRow, MarkDisbursed, CountUnpaid, CloseLoan, MarkLoan,
     KindPoints
<1>3. Held(r)' = Held(r) /\ Left(r)' = Left(r)
  BY <1>1 DEF Held, Left, Exists
<1>4. CommitterOf(r)'
  BY <1>2 DEF OverlapOf, CommitterOf, FindExisting, Insert, MarkDisbursed, CountUnpaid,
     CloseLoan, MarkLoan
<1>5. FreshOf(r)'
  BY <1>1, <1>2 DEF OverlapOf, FreshOf, Fresh, Keeps, Exists
<1>6. RepayingOf(r)'
  <2> SUFFICES ASSUME Kind(r) = "repay" PROVE RepayingOf(r)'
    BY DEF RepayingOf
  <2>1. Due(sched, plan[r])' = Op[r].amount
    BY <1>1, <1>2 DEF OverlapOf, RepayingOf
  <2>2. pc'[r] = "pay" => Held(r)' = {}
    BY <1>1, <1>2, <1>3 DEF OverlapOf, FreshOf, Fresh, Keeps, Held
  <2>3. pc'[r] \in {"close", "commit"} => Retaken(r, "PAID")'
    BY <1>1, <1>2, <1>3 DEF OverlapOf, RepayingOf, Retaken, Retaking
  <2>4. QED
    BY <1>2, <2>1, <2>2, <2>3 DEF RepayingOf, Retaking
<1>7. ReschedulingOf(r)' /\ DisburseOf(r)'
  BY <1>1, <1>2 DEF OverlapOf, ReschedulingOf, DisburseOf, Keeps, Exists
<1>8. QED
  BY <1>4, <1>5, <1>6, <1>7 DEF OverlapOf

LEMMA TakeOverlap ==
  ASSUME LoanInv, TypeInv, NEW r \in Requests, OverlapOf(r),
         ChooseInstallments(r) \/ ReadUnpaid(r)
  PROVE  OverlapOf(r)'
<1>1. /\ pc[r] = "read" /\ UNCHANGED <<sched, touched, loanWrite>>
      /\ \/ pc'[r] = "failed"
         \/ /\ Kind(r) = "repay" /\ pc'[r] = "find"
            /\ Due(sched, plan'[r]) = Op[r].amount
         \/ /\ Kind(r) = "reschedule" /\ pc'[r] = "cancel" /\ plan'[r] # {}
            /\ owed'[r] = Due(sched, plan'[r]) + Op[r].amount
  BY DEF ChooseInstallments, ReadUnpaid, TypeInv, TypeOK
<1>2. loanWrite[r] = None /\ \A i \in Numbers : ~Exists(touched[r], i)
  BY <1>1 DEF OverlapOf, CommitterOf, FreshOf, Fresh, Keeps
<1>3. CASE pc'[r] = "failed"
  BY <1>1, <1>2, <1>3, OverlapRest
<1>4. CASE pc'[r] # "failed"
  <2>1. CommitterOf(r)' /\ FreshOf(r)' /\ DisburseOf(r)'
    BY <1>1, <1>2, <1>4 DEF CommitterOf, FreshOf, Keeps, DisburseOf
  <2>2. Held(r)' = {}
    BY <1>1, <1>2 DEF Held, Exists
  <2>3. RepayingOf(r)' /\ ReschedulingOf(r)'
    BY <1>1, <1>4, <2>2 DEF RepayingOf, ReschedulingOf, Retaking
  <2>4. QED
    BY <2>1, <2>3 DEF OverlapOf
<1>5. QED
  BY <1>3, <1>4

\* One more of the installments it took; after the last one, all of them.
LEMMA TouchOverlap ==
  ASSUME LoanInv, TypeInv, NEW r \in Requests, OverlapOf(r),
         PayInstallments(r) \/ CancelInstallments(r)
  PROVE  OverlapOf(r)'
<1>1. /\ \/ pc[r] = "pay" /\ Kind(r) = "repay"
         \/ pc[r] = "cancel" /\ Kind(r) = "reschedule"
      /\ UNCHANGED <<sched, loanWrite, row, plan, owed, first>>
  BY OneRow
<1>2. PICK i \in Numbers : Updates(r, i)
  BY OneRow
<1>3. /\ \A j \in Numbers :
           touched'[r][j] = IF j = i THEN Version(r, i) ELSE touched[r][j]
      /\ Exists(touched'[r], i)
  BY <1>1, <1>2, UpdateLoan
<1>4. /\ i \in plan[r] /\ i \in Left(r)
      /\ pc[r] = "pay" => \A j \in Left(r) : i <= j
      /\ pc'[r] = IF Left(r) = {i} THEN AfterLast(r) ELSE pc[r]
  BY <1>2 DEF Updates, InTurn
<1>5. Held(r)' = Held(r) \cup {i} /\ Left(r)' = Left(r) \ {i}
  BY <1>1, <1>3 DEF Held, Left, Exists
<1>6. /\ \A j \in Held(r)' : j = i \/ (j \in Held(r) /\ touched'[r][j] = touched[r][j])
      /\ touched'[r][i] = Version(r, i)
  BY <1>3, <1>5 DEF Held
<1>7. CommitterOf(r)' /\ FreshOf(r)' /\ DisburseOf(r)'
  BY <1>1, <1>4 DEF OverlapOf, CommitterOf, AfterLast, FreshOf, Fresh, DisburseOf
<1>8. CASE pc[r] = "pay"
  <2>1. Kind(r) = "repay" /\ Retaking(r, "PAID") /\ Due(sched, plan[r])' = Op[r].amount
        /\ \A j \in Held(r), k \in Left(r) : j < k
    BY <1>1, <1>8 DEF OverlapOf, RepayingOf
  <2>2. /\ Version(r, i).due = sched[i].due /\ Version(r, i).status = "PAID"
        /\ Version(r, i).paidBy = row[r]
    BY <1>8 DEF Version
  <2>3. Retaking(r, "PAID")'
    BY <1>1, <1>4, <1>6, <2>1, <2>2 DEF Retaking
  <2>4. \A j \in Held(r)', k \in Left(r)' : j < k
    <3>1. \A k \in Left(r) : k \in Int /\ i \in Int /\ i <= k
      BY <1>4, <1>8, LoansAssumption DEF Left, Numbers, TypeInv, TypeOK
    <3>2. QED
      BY <1>5, <2>1, <3>1
  <2>5. pc'[r] = "count" => Left(r)' = {}
    BY <1>4, <1>5, <1>8
  <2>6. RepayingOf(r)'
    BY <1>4, <1>8, <2>1, <2>3, <2>4, <2>5 DEF RepayingOf, Retaken, AfterLast
  <2>7. QED
    BY <1>7, <2>1, <2>6 DEF OverlapOf, ReschedulingOf
<1>9. CASE pc[r] = "cancel"
  <2>1. Kind(r) = "reschedule" /\ Retaking(r, "CANCELLED")
        /\ plan[r] # {} /\ owed[r] = Due(sched, plan[r]) + Op[r].amount
    BY <1>1, <1>9 DEF OverlapOf, ReschedulingOf
  <2>2. Version(r, i).due = sched[i].due /\ Version(r, i).status = "CANCELLED"
    BY <1>9 DEF Version
  <2>3. Retaking(r, "CANCELLED")'
    BY <1>1, <1>4, <1>6, <2>1, <2>2 DEF Retaking
  <2>4. pc'[r] = "number" => Left(r)' = {}
    BY <1>4, <1>5, <1>9
  <2>5. ReschedulingOf(r)'
    BY <1>1, <1>4, <1>9, <2>1, <2>3, <2>4 DEF ReschedulingOf, Retaken, AfterLast
  <2>6. QED
    BY <1>7, <2>1, <2>5 DEF OverlapOf, RepayingOf
<1>10. QED
  BY <1>1, <1>8, <1>9

\* The number a reschedule starts from is one that the loan can have reached.
LEMMA NumberOverlap ==
  ASSUME LoanInv, TypeInv, NumbersBounded, NEW r \in Requests, OverlapOf(r), NextNumber(r)
  PROVE  OverlapOf(r)'
<1>1. /\ pc[r] = "number" /\ pc'[r] = "append"
      /\ UNCHANGED <<sched, touched, plan, owed, row, loanWrite>>
      /\ first'[r] = StartingNumber(r)
      /\ pc' = [pc EXCEPT ![r] = "append"]
  BY DEF NextNumber, TypeInv, TypeOK
<1>2. Kind(r) = "reschedule"
  BY <1>1 DEF KindPoints
<1>3. Retaken(r, "CANCELLED")
  BY <1>1, <1>2 DEF OverlapOf, ReschedulingOf
<1>4. \A i \in Numbers : Exists(View(r), i) <=> Exists(sched, i)
  BY <1>3 DEF Retaken, Retaking, Held, PlanInv, View, Exists
<1>5. Rescheduled' = Rescheduled
  BY <1>1 DEF Rescheduled
<1>6. LastNumber' = LastNumber
  BY <1>5 DEF LastNumber
<1>7. StartingNumber(r) \in 1..(LastNumber + 1)
  <2>1. LastNumber \in Nat
    BY Room
  <2>2. \A i \in Numbers : Exists(sched, i) => i <= LastNumber
    BY DEF NumbersBounded
  <2>3. StartingNumber(r) \in Nat \ {0} /\ StartingNumber(r) <= LastNumber + 1
    BY <1>4, <2>1, <2>2, StartAfter, LoansAssumption DEF Numbers
  <2>4. QED
    BY <2>1, <2>3
<1>8. Retaken(r, "CANCELLED")'
  <2>1. Held(r)' = Held(r) /\ Left(r)' = Left(r)
    BY <1>1 DEF Held, Left, Exists
  <2>2. QED
    BY <1>1, <1>3, <2>1 DEF Retaken, Retaking
<1>9. ReschedulingOf(r)'
  BY <1>1, <1>2, <1>6, <1>7, <1>8 DEF OverlapOf, ReschedulingOf
<1>10. CommitterOf(r)' /\ FreshOf(r)' /\ RepayingOf(r)' /\ DisburseOf(r)'
  BY <1>1, <1>2 DEF OverlapOf, CommitterOf, FreshOf, Fresh, RepayingOf, DisburseOf
<1>11. QED
  BY <1>9, <1>10 DEF OverlapOf

LEMMA AppendOverlap ==
  ASSUME LoanInv, TypeInv, NEW r \in Requests, OverlapOf(r), AppendInstallments(r),
         ~Rollback(r)
  PROVE  OverlapOf(r)'
<1> DEFINE v == NewInstallments(first[r], Added(r), owed[r])
           N == first[r]..(first[r] + Added(r) - 1)
<1>1. /\ pc[r] = "append" /\ pc' = [pc EXCEPT ![r] = "commit"]
      /\ UNCHANGED <<sched, plan, owed, first, loanWrite>>
      /\ Touch(r, v)
  BY DEF AppendInstallments, CreateMany, Added
<1>2. Kind(r) = "reschedule"
  BY <1>1 DEF KindPoints
<1>3. \A i \in Numbers : Exists(v, i) <=> i \in N
  BY NewInstallmentsStatus DEF Exists
<1> HIDE DEF v, N
<1>4. \A i \in Numbers : touched'[r][i] = IF Exists(v, i) THEN v[i] ELSE touched[r][i]
  BY <1>1 DEF Touch, TypeInv, TypeOK
<1>5. Retaken(r, "CANCELLED")
  BY <1>1, <1>2 DEF OverlapOf, ReschedulingOf
<1>6. Rescheduled' = Rescheduled
  BY <1>1 DEF Rescheduled
<1>7. LastNumber' = LastNumber
  BY <1>6 DEF LastNumber
<1>8. \A i \in Numbers :
        IF i \in N THEN touched'[r][i] = v[i]
        ELSE IF i \in plan[r]
        THEN touched'[r][i].due = sched[i].due /\ touched'[r][i].status = "CANCELLED"
        ELSE ~Exists(touched'[r], i)
  BY <1>3, <1>4, <1>5 DEF Retaken, Retaking, Held, Left, Exists
<1>9. ReschedulingOf(r)'
  <2>1. /\ plan[r] # {} /\ owed[r] = Due(sched, plan[r]) + Op[r].amount
        /\ first[r] \in 1..(LastNumber + 1)
    BY <1>1, <1>2 DEF OverlapOf, ReschedulingOf
  <2>2. QED
    BY <1>1, <1>7, <1>8, <2>1 DEF ReschedulingOf, Keeps, Added, v, N
<1>10. CommitterOf(r)' /\ FreshOf(r)' /\ RepayingOf(r)' /\ DisburseOf(r)'
  BY <1>1, <1>2 DEF OverlapOf, CommitterOf, FreshOf, Fresh, RepayingOf, DisburseOf
<1>11. QED
  BY <1>9, <1>10 DEF OverlapOf

LEMMA CommitOverlap ==
  ASSUME LoanInv, TypeInv, NEW r \in Requests, OverlapOf(r), Commit(r),
         \A i \in Numbers : Exists(sched, i) => sched'[i].due = sched[i].due
  PROVE  OverlapOf(r)'
<1>1. /\ pc[r] = "commit" /\ pc'[r] = "done" /\ touched'[r] = Untouched
      /\ loanWrite'[r] = None /\ plan' = plan /\ owed' = owed
  BY DEF Commit, EndTransaction, TypeInv, TypeOK
<1>2. \A i \in Numbers : ~Exists(touched'[r], i)
  BY <1>1 DEF Untouched, Absent, Exists
<1>3. Due(sched', plan[r]) = Due(sched, plan[r])
  <2>1. plan[r] \in SUBSET Numbers /\ \A i \in plan[r] : sched'[i].due = sched[i].due
    BY DEF PlanInv, TypeInv, TypeOK
  <2>2. QED
    BY <2>1, DueSame
<1>4. Carried(r)'
  BY <1>1, <1>3 DEF OverlapOf, RepayingOf, ReschedulingOf, Carried
<1>5. QED
  BY <1>1, <1>2, <1>4, OverlapRest

LEMMA ProceedOverlap ==
  ASSUME LoanInv, TypeInv, NumbersBounded, NEW r \in Requests, OverlapOf(r),
         Proceed(r) \/ Abort(r),
         \A i \in Numbers : Exists(sched, i) => sched'[i].due = sched[i].due
  PROVE  OverlapOf(r)'
<1>1. CASE Rollback(r)
  BY <1>1, RollbackOverlap
<1>2. CASE ~Rollback(r)
  BY <1>2, DoneOverlap, ScheduleOverlap, LocalOverlap, TakeOverlap, TouchOverlap,
     NumberOverlap, AppendOverlap, CommitOverlap DEF Proceed, Abort
<1>3. QED
  BY <1>1, <1>2

-----------------------------------------------------------------------------
(* What the installments are worth, and what a commit does to them *)

LEMMA DuesNat ==
  ASSUME TypeInv, NumbersBounded
  PROVE  \A i \in Numbers : sched[i].due \in Nat
BY DEF TypeInv, TypeOK, Installment, NumbersBounded

\* An amount covers the oldest installments first.
LEMMA CoveredOldest ==
  ASSUME TypeInv, NumbersBounded, NEW amount \in Int, NEW i \in Covered(sched, amount),
         NEW j \in Unpaid(sched), j < i
  PROVE  j \in Covered(sched, amount)
<1> DEFINE I == {k \in Unpaid(sched) : k <= i}
           J == {k \in Unpaid(sched) : k <= j}
<1>1. \A k \in Numbers : sched[k].due \in Nat
  BY DuesNat
<1>2. I \in SUBSET Numbers /\ J \in SUBSET I
  BY LoansAssumption DEF Unpaid, Covered, Numbers
<1>3. Due(sched, I) <= amount
  BY DEF Covered
<1>4. Due(sched, J) \in Nat /\ Due(sched, I) \in Nat /\ Due(sched, J) <= Due(sched, I)
  <2> HIDE DEF I, J
  <2>1. QED
    BY <1>1, <1>2, DueNat
<1>5. Due(sched, J) <= amount
  <2> HIDE DEF I, J
  <2>1. QED
    BY <1>3, <1>4
<1>6. QED
  BY <1>5 DEF Covered

\* A repayment marks what it took as paid, linked to its row.
LEMMA RepayCommits ==
  ASSUME LoanInv, NEW r \in Requests, OverlapOf(r), Commit(r), Kind(r) = "repay"
  PROVE  \A i \in Numbers :
           IF i \in plan[r]
           THEN /\ sched'[i].due = sched[i].due
                /\ sched'[i].status = "PAID" /\ sched'[i].paidBy = row[r]
           ELSE sched'[i] = sched[i]
<1>1. Retaken(r, "PAID")
  BY DEF Commit, OverlapOf, RepayingOf
<1>2. \A i \in Numbers :
        sched'[i] = IF Exists(touched[r], i) THEN touched[r][i] ELSE sched[i]
  BY CommitLoan
<1>3. QED
  BY <1>1, <1>2 DEF Retaken, Retaking, Held, Left

\* The installments a commit of a reschedule adds.
AddedBy(r) == first[r]..(first[r] + Added(r) - 1)

\* A reschedule cancels what it took and adds as many new installments as it was asked,
\* due what it took and the penalty.
LEMMA RescheduleCommits ==
  ASSUME LoanInv, TypeInv, NumbersBounded, NEW r \in Requests, OverlapOf(r), Commit(r),
         Kind(r) = "reschedule"
  PROVE  /\ AddedBy(r) \subseteq Numbers /\ AddedBy(r) \cap plan[r] = {}
         /\ Due(sched', AddedBy(r)) = owed[r]
         /\ \A i \in Numbers :
              IF i \in AddedBy(r)
              THEN /\ ~Exists(sched, i) /\ sched'[i].status = "PENDING"
                   /\ sched'[i].due \in Nat
              ELSE IF i \in plan[r]
              THEN sched'[i].due = sched[i].due /\ sched'[i].status = "CANCELLED"
              ELSE sched'[i] = sched[i]
         /\ Rescheduled' = Rescheduled \cup {r} /\ r \notin Rescheduled
         /\ LastNumber \in Nat /\ LastNumber' = LastNumber + Added(r) /\ Added(r) \in Nat
         /\ \A i \in AddedBy(r) : i <= LastNumber'
<1> DEFINE N == AddedBy(r)
           v == NewInstallments(first[r], Added(r), owed[r])
           P == plan[r]
<1>1. pc[r] = "commit" /\ pc' = [pc EXCEPT ![r] = "done"]
  BY DEF Commit
<1>2. /\ owed[r] = Due(sched, P) + Op[r].amount
      /\ first[r] \in 1..(LastNumber + 1)
      /\ \A i \in Numbers :
           IF i \in N THEN touched[r][i] = v[i]
           ELSE IF i \in P
           THEN touched[r][i].due = sched[i].due /\ touched[r][i].status = "CANCELLED"
           ELSE ~Exists(touched[r], i)
  BY <1>1 DEF OverlapOf, ReschedulingOf, Keeps, AddedBy
<1>3. P \in SUBSET Numbers /\ \A i \in P : Exists(sched, i)
  BY DEF TypeInv, TypeOK, PlanInv
<1>4. Rescheduled' = Rescheduled \cup {r} /\ r \notin Rescheduled
  BY <1>1 DEF Rescheduled
<1>5. LastNumber \in Nat /\ LastNumber + Added(r) <= MaxNumber /\ Added(r) \in Nat \ {0}
  BY <1>4, Room, CountsPositive DEF Added
<1>6. /\ first[r] \in Nat \ {0}
      /\ first[r] + Added(r) - 1 <= LastNumber + Added(r)
      /\ first[r] + Added(r) - 1 <= MaxNumber
  BY <1>2, <1>5, LoansAssumption
<1>7. owed[r] \in Nat
  <2>1. Op[r].amount \in Nat
    BY PenaltyAssumption, CountsPositive
  <2>2. Due(sched, P) \in Nat
    BY <1>3, DuesNat, DueNat
  <2>3. QED
    BY <1>2, <2>1, <2>2
<1>8. N \subseteq Numbers /\ (\A i \in N : v[i].due \in Nat) /\ Due(v, N) = owed[r]
  BY <1>5, <1>6, <1>7, NewInstallmentsSum DEF AddedBy
<1>9. \A i \in N : v[i].status = "PENDING"
  BY <1>8, NewInstallmentsStatus DEF AddedBy
<1>10. \A i \in N : ~Exists(sched, i)
  <2> SUFFICES ASSUME NEW i \in N, Exists(sched, i) PROVE FALSE
    OBVIOUS
  <2>1. i \in Numbers /\ touched[r][i].status = "PENDING"
    BY <1>2, <1>8, <1>9
  <2>2. touched[r][i].status \in {"PAID", "CANCELLED"}
    BY <2>1 DEF ClaimInv, Exists
  <2>3. QED
    BY <2>1, <2>2
<1>11. \A i \in N : i <= first[r] + Added(r) - 1 /\ i \in Int
  BY <1>5, <1>6 DEF AddedBy
<1>12. \A i \in Numbers :
         sched'[i] = IF Exists(touched[r], i) THEN touched[r][i] ELSE sched[i]
  BY CommitLoan
<1> HIDE DEF N, v, P
<1>13. P \cap N = {}
  BY <1>3, <1>10
<1>14. \A i \in N : sched'[i] = v[i]
  BY <1>2, <1>8, <1>9, <1>12 DEF Exists
<1>15. \A i \in P : sched'[i].due = sched[i].due /\ sched'[i].status = "CANCELLED"
  BY <1>2, <1>3, <1>12, <1>13 DEF Exists
<1>16. \A i \in Numbers : i \notin N /\ i \notin P => sched'[i] = sched[i]
  BY <1>2, <1>12
<1>17. Due(sched', N) = owed[r]
  BY <1>8, <1>14, DueSame
<1>18. LastNumber' = LastNumber + Added(r)
  BY <1>4, MoreMonths
<1>19. \A i \in N : i <= LastNumber'
  BY <1>5, <1>6, <1>11, <1>18
<1>20. QED
  BY <1>4, <1>5, <1>8, <1>9, <1>10, <1>13, <1>14, <1>15, <1>16, <1>17, <1>18, <1>19
  DEF N, P

FirstOnes == 1..(Months * PerMonth)

\* A disbursement finds a loan without installments, of which nobody took any, and gives
\* it the first ones.
LEMMA DisburseCommits ==
  ASSUME LoanInv, TypeInv, GapInv, OverlapInv, NEW r \in Requests, Commit(r),
         Kind(r) = "disburse"
  PROVE  /\ \A i \in Numbers : ~Exists(sched, i)
         /\ FirstOnes \subseteq Numbers /\ FirstOnes # {} /\ Due(sched', FirstOnes) = Total
         /\ \A i \in Numbers :
              IF i \in FirstOnes
              THEN sched'[i].status = "PENDING" /\ sched'[i].due \in Nat
              ELSE sched'[i] = sched[i]
         /\ \A s \in Requests : plan[s] = {}
         /\ Rescheduled = {} /\ Rescheduled' = {} /\ LastNumber' = Months * PerMonth
<1> DEFINE N == FirstOnes
           v == NewInstallments(1, Months * PerMonth, Total)
<1>1. pc[r] = "commit" /\ pc' = [pc EXCEPT ![r] = "done"]
  BY DEF Commit
<1>2. \A i \in Numbers : IF i \in N THEN touched[r][i] = v[i] ELSE ~Exists(touched[r], i)
  BY <1>1 DEF OverlapInv, OverlapOf, DisburseOf, Keeps, FirstOnes
<1>3. N \subseteq Numbers /\ 1 \in N
  BY CountsPositive, LoansAssumption DEF Numbers, FirstOnes
<1>4. \A i \in N : v[i].status = "PENDING"
  <2>1. 1 + Months * PerMonth - 1 = Months * PerMonth
    BY CountsPositive
  <2>2. QED
    BY <1>3, <2>1, NewInstallmentsStatus DEF FirstOnes
<1>5. (\A i \in N : v[i].due \in Nat) /\ Due(v, N) = Total
  BY FirstSchedule DEF FirstOnes
<1> HIDE DEF v
<1>6. ~Exists(sched, 1)
  <2>1. 1 \in Numbers /\ touched[r][1].status = "PENDING"
    BY <1>2, <1>3, <1>4
  <2>2. QED
    BY <2>1 DEF ClaimInv, Exists
<1>7. \A i \in Numbers : ~Exists(sched, i)
  <2> SUFFICES ASSUME NEW i \in Numbers, Exists(sched, i) PROVE FALSE
    OBVIOUS
  <2>1. i # 1 /\ 1 < i
    BY <1>6, LoansAssumption DEF Numbers
  <2>2. QED
    BY <1>3, <1>6, <2>1 DEF GapInv, NumbersHaveNoGap
<1>8. \A s \in Requests : plan[s] = {}
  BY <1>7 DEF PlanInv, TypeInv, TypeOK
<1>9. Rescheduled = {} /\ Rescheduled' = {}
  <2>1. Rescheduled = {}
    BY <1>8 DEF Rescheduled, OverlapInv, OverlapOf, ReschedulingOf
  <2>2. QED
    BY <1>1, <2>1 DEF Rescheduled
<1>10. /\ \A i \in N : sched'[i] = v[i]
       /\ \A i \in Numbers : i \notin N => sched'[i] = sched[i]
  <2>1. \A i \in Numbers :
          sched'[i] = IF Exists(touched[r], i) THEN touched[r][i] ELSE sched[i]
    BY CommitLoan
  <2>2. QED
    BY <1>2, <1>3, <1>4, <2>1 DEF Exists
<1>11. Due(sched', N) = Total
  <2>1. \A i \in N : sched'[i].due = v[i].due
    BY <1>10
  <2> HIDE DEF N
  <2>2. Due(sched', N) = Due(v, N)
    BY <1>3, <2>1, DueSame
  <2>3. QED
    BY <1>5, <2>2
<1>12. LastNumber' = Months * PerMonth
  <2>1. LastNumber' = PerMonth * (Months + SumOf([s \in Requests |-> Op[s].months], {}))
    BY <1>9 DEF LastNumber
  <2>2. SumOf([s \in Requests |-> Op[s].months], {}) = 0
    BY SumEmpty
  <2>3. QED
    BY <2>1, <2>2, LoansAssumption
<1>13. QED
  BY <1>3, <1>4, <1>5, <1>7, <1>8, <1>9, <1>10, <1>11, <1>12

\* What one more request carries out changes.
LEMMA StepNumbers ==
  ASSUME LoanInv, TypeInv, GapInv, OverlapInv, NEW r \in Requests,
         Arrive(r) \/ Proceed(r) \/ Abort(r)
  PROVE  /\ NumbersBounded'
         /\ \A i \in Numbers : Exists(sched, i) => sched'[i].due = sched[i].due
         /\ LastNumber \in Nat /\ LastNumber' \in Nat /\ LastNumber <= LastNumber'
<1>1. OverlapOf(r) /\ NumbersBounded /\ LastNumber \in Nat
  BY Room DEF OverlapInv
<1>2. CASE Commit(r) /\ Kind(r) = "repay"
  <2>1. Rescheduled' = Rescheduled
    BY <1>2 DEF Commit, Rescheduled
  <2>2. LastNumber' = LastNumber
    BY <2>1 DEF LastNumber
  <2>3. \A i \in Numbers :
          sched'[i].due = sched[i].due /\ (Exists(sched', i) => Exists(sched, i))
    BY <1>1, <1>2, RepayCommits DEF PlanInv, Exists
  <2>4. QED
    BY <1>1, <2>2, <2>3 DEF NumbersBounded
<1>3. CASE Commit(r) /\ Kind(r) = "reschedule"
  <2>1. /\ LastNumber' = LastNumber + Added(r) /\ Added(r) \in Nat
        /\ \A i \in AddedBy(r) : i <= LastNumber'
        /\ \A i \in Numbers :
             IF i \in AddedBy(r)
             THEN ~Exists(sched, i) /\ sched'[i].due \in Nat
             ELSE sched'[i].due = sched[i].due /\ (Exists(sched', i) => Exists(sched, i))
    BY <1>1, <1>3, RescheduleCommits DEF PlanInv, Exists
  <2>2. LastNumber' \in Nat /\ LastNumber <= LastNumber'
    BY <1>1, <2>1
  <2>3. \A i \in Numbers : i \in Int
    BY LoansAssumption DEF Numbers
  <2>4. ASSUME NEW i \in Numbers PROVE sched'[i].due >= 0
    BY <1>1, <2>1 DEF NumbersBounded
  <2>5. ASSUME NEW i \in Numbers, Exists(sched', i) PROVE i <= LastNumber'
    <3>1. CASE i \in AddedBy(r)
      BY <2>1, <3>1
    <3>2. CASE i \notin AddedBy(r)
      <4>1. i <= LastNumber
        BY <1>1, <2>1, <2>5, <3>2 DEF NumbersBounded
      <4>2. QED
        BY ONLY <1>1, <2>2, <2>3, <4>1, i \in Numbers
    <3>3. QED
      BY <3>1, <3>2
  <2>6. QED
    BY <1>1, <2>1, <2>2, <2>4, <2>5 DEF NumbersBounded
<1>4. CASE Commit(r) /\ Kind(r) = "disburse"
  <2>1. /\ \A i \in Numbers : ~Exists(sched, i)
        /\ \A i \in Numbers :
             IF i \in FirstOnes THEN sched'[i].due \in Nat ELSE sched'[i] = sched[i]
        /\ Rescheduled' = Rescheduled /\ LastNumber' = Months * PerMonth
    BY <1>4, DisburseCommits
  <2>2. LastNumber' = LastNumber
    BY <2>1 DEF LastNumber
  <2>3. \A i \in Numbers : Exists(sched', i) => i \in FirstOnes
    BY <2>1 DEF Exists
  <2>4. \A i \in FirstOnes : i <= Months * PerMonth
    BY CountsPositive DEF FirstOnes
  <2>5. QED
    BY <1>1, <2>1, <2>2, <2>3, <2>4 DEF NumbersBounded
<1>5. CASE ~Commit(r)
  <2>1. (sched' = sched \/ MarkOverdue(r)) /\ Rescheduled' = Rescheduled
    BY <1>1, <1>5, Quiet DEF OverlapOf, CommitterOf
  <2>2. SameSchedule
    BY <2>1, OverdueSame DEF SameSchedule
  <2>3. LastNumber' = LastNumber
    BY <2>1 DEF LastNumber
  <2>4. QED
    BY <1>1, <2>2, <2>3 DEF SameSchedule, NumbersBounded, Exists
<1>6. QED
  BY <1>1, <1>2, <1>3, <1>4, <1>5 DEF Commit, OverlapOf, CommitterOf

LEMMA NextOverlap ==
  ASSUME LoanInv, TypeInv, GapInv, OverlapInv, [Next]_vars
  PROVE  OverlapInv'
<1>1. ASSUME NEW r \in Requests, Arrive(r) \/ Proceed(r) \/ Abort(r)
      PROVE  OverlapInv'
  <2>1. /\ NumbersBounded'
        /\ \A i \in Numbers : Exists(sched, i) => sched'[i].due = sched[i].due
        /\ LastNumber \in Nat /\ LastNumber' \in Nat /\ LastNumber <= LastNumber'
    BY <1>1, StepNumbers
  <2>2. OverlapOf(r)'
    BY <1>1, <2>1, ArriveOverlap, ProceedOverlap DEF OverlapInv
  <2>3. ASSUME NEW s \in Requests \ {r}
        PROVE  OverlapOf(s)'
    <3>1. /\ pc'[s] = pc[s] /\ touched'[s] = touched[s] /\ plan'[s] = plan[s]
          /\ owed'[s] = owed[s] /\ first'[s] = first[s] /\ row'[s] = row[s]
          /\ loanWrite'[s] = loanWrite[s]
      BY <1>1, Private
    <3>2. OverlapOf(s)
      BY DEF OverlapInv
    <3>3. QED
      BY <2>1, <3>1, <3>2, OverlapFrame
  <2>4. QED
    BY <2>1, <2>2, <2>3 DEF OverlapInv
<1>2. CASE CreateLoan \/ (\E c \in Clients : ClientChanges(c)) \/ UNCHANGED vars
  <2>1. UNCHANGED <<sched, touched, pc, plan, owed, first, row, loanWrite>>
    BY <1>2 DEF CreateLoan, ClientChanges, vars
  <2>2. LastNumber \in Nat /\ LastNumber' = LastNumber
    BY <2>1, Room DEF LastNumber, Rescheduled
  <2>3. NumbersBounded'
    BY <2>1, <2>2 DEF OverlapInv, NumbersBounded
  <2>4. \A s \in Requests : OverlapOf(s)'
    BY <2>1, <2>2, OverlapFrame DEF OverlapInv
  <2>5. QED
    BY <2>3, <2>4 DEF OverlapInv
<1>3. QED
  BY <1>1, <1>2 DEF Next

LEMMA InitOverlap == Init => OverlapInv
<1> SUFFICES ASSUME Init PROVE OverlapInv
  OBVIOUS
<1>1. \A r \in Requests : pc[r] = "idle" /\ touched[r] = Untouched /\ loanWrite[r] = None
  BY DEF Init, TransactionsInit
<1>2. \A i \in Numbers : ~Exists(sched, i) /\ sched[i].due = 0 /\ ~Exists(Untouched, i)
  BY DEF Init, Untouched, Absent, Exists
<1>3. \A r \in Requests : OverlapOf(r)
  BY <1>1, <1>2 DEF OverlapOf, CommitterOf, FreshOf, Keeps, RepayingOf, ReschedulingOf,
     DisburseOf
<1>4. NumbersBounded
  BY <1>2 DEF NumbersBounded
<1>5. QED
  BY <1>3, <1>4 DEF OverlapInv

LEMMA OverlapInvariant == Spec => []OverlapInv
<1>1. LoanInv /\ TypeInv /\ GapInv /\ OverlapInv /\ [Next]_vars => OverlapInv'
  BY NextOverlap
<1>2. QED
  BY <1>1, InitOverlap, LoanInvariant, TypeInvariant, GapInvariant, PTL DEF Spec

-----------------------------------------------------------------------------
(***************************************************************************)
(* Who settled an installment.  One that is paid or cancelled is among     *)
(* those of a repayment or a reschedule that was carried out, and what     *)
(* these took is settled.                                                  *)
(***************************************************************************)

TakenInv ==
  \A i \in Numbers :
    /\ sched[i].status = "PAID" => \E s \in Takers : Kind(s) = "repay" /\ i \in plan[s]
    /\ sched[i].status = "CANCELLED" =>
         \E s \in Takers : Kind(s) = "reschedule" /\ i \in plan[s]
    /\ i \in Taken => Settled(i)

\* The requests that are done keep what they took.
LEMMA TakersStay ==
  ASSUME LoanInv, TypeInv, NEW r \in Requests, Arrive(r) \/ Proceed(r) \/ Abort(r)
  PROVE  \A s \in Takers : s # r /\ plan'[s] = plan[s]
<1>1. pc[r] # "done"
  BY DEF Arrive, SubmitRead, ApproveRead, RejectRead, DisburseRead, RepayRead,
     RescheduleRead, OverdueRead, ReadLoan, Proceed, Abort, InFlight, Decide, FindExisting,
     Insert, CreateSchedule, CreateMany, MarkDisbursed, CloseLoan, MarkLoan,
     ChooseInstallments, PayInstallments, CountUnpaid, ReadUnpaid, CancelInstallments,
     NextNumber, AppendInstallments, MarkOverdue, Commit
<1>2. QED
  BY <1>1, Private DEF Takers

\* A commit adds the request to them, if it is one of them.
LEMMA CommitTakes ==
  ASSUME LoanInv, TypeInv, NEW r \in Requests, Commit(r)
  PROVE  /\ r \notin Takers
         /\ Takers' = IF Kind(r) \in {"repay", "reschedule"} THEN Takers \cup {r} ELSE Takers
         /\ plan' = plan
         /\ Taken' = IF Kind(r) \in {"repay", "reschedule"} THEN Taken \cup plan[r] ELSE Taken
<1>1. pc[r] = "commit" /\ pc' = [pc EXCEPT ![r] = "done"] /\ plan' = plan
  BY DEF Commit
<1>2. CASE Kind(r) \in {"repay", "reschedule"}
  <2>1. Takers' = Takers \cup {r} /\ r \notin Takers
    BY <1>1, <1>2 DEF Takers
  <2>2. QED
    BY <1>1, <1>2, <2>1 DEF Taken
<1>3. CASE Kind(r) \notin {"repay", "reschedule"}
  <2>1. Takers' = Takers /\ r \notin Takers
    BY <1>1, <1>3 DEF Takers
  <2>2. QED
    BY <1>1, <1>3, <2>1 DEF Taken
<1>4. QED
  BY <1>2, <1>3

LEMMA NextTaken ==
  ASSUME LoanInv, TypeInv, GapInv, OverlapInv, TakenInv, [Next]_vars
  PROVE  TakenInv'
<1>1. ASSUME NEW r \in Requests, Commit(r)
      PROVE  TakenInv'
  <2>1. OverlapOf(r) /\ NumbersBounded /\ Kind(r) \in {"disburse", "repay", "reschedule"}
    BY <1>1 DEF OverlapInv, OverlapOf, CommitterOf, Commit
  <2>2. CASE Kind(r) = "repay"
    <3>1. Takers' = Takers \cup {r} /\ plan' = plan /\ Taken' = Taken \cup plan[r]
      BY <1>1, <2>2, CommitTakes
    <3>2. \A i \in Numbers :
            IF i \in plan[r] THEN sched'[i].status = "PAID" ELSE sched'[i] = sched[i]
      BY <1>1, <2>1, <2>2, RepayCommits
    <3>3. QED
      BY <2>2, <3>1, <3>2 DEF TakenInv, Settled
  <2>3. CASE Kind(r) = "reschedule"
    <3>1. Takers' = Takers \cup {r} /\ plan' = plan /\ Taken' = Taken \cup plan[r]
      BY <1>1, <2>3, CommitTakes
    <3>2. \A i \in Numbers :
            \/ i \notin plan[r] /\ ~Exists(sched, i) /\ sched'[i].status = "PENDING"
            \/ i \in plan[r] /\ sched'[i].status = "CANCELLED"
            \/ i \notin plan[r] /\ sched'[i] = sched[i]
      BY <1>1, <2>1, <2>3, RescheduleCommits
    <3>3. QED
      BY <2>3, <3>1, <3>2 DEF TakenInv, Settled, Exists
  <2>4. CASE Kind(r) = "disburse"
    <3>1. Takers' = Takers /\ plan' = plan /\ Taken' = Taken
      BY <1>1, <2>4, CommitTakes
    <3>2. \A i \in Numbers :
            \/ ~Exists(sched, i) /\ sched'[i].status = "PENDING"
            \/ sched'[i] = sched[i]
      BY <1>1, <2>4, DisburseCommits
    <3>3. QED
      BY <3>1, <3>2 DEF TakenInv, Settled, Exists
  <2>5. QED
    BY <2>1, <2>2, <2>3, <2>4
<1>2. ASSUME NEW r \in Requests, Arrive(r) \/ Proceed(r) \/ Abort(r), ~Commit(r)
      PROVE  TakenInv'
  <2>1. (sched' = sched \/ MarkOverdue(r)) /\ Takers' = Takers
    BY <1>2, Quiet DEF OverlapInv, OverlapOf, CommitterOf
  <2>2. SameSchedule
    BY <2>1, OverdueSame DEF SameSchedule
  <2>3. \A s \in Takers : plan'[s] = plan[s]
    BY <1>2, TakersStay
  <2>4. Taken' = Taken
    BY <2>1, <2>3 DEF Taken
  <2>5. \A i \in Numbers : /\ Settled(i) => sched'[i].status = sched[i].status
                           /\ Settled(i)' => sched'[i].status = sched[i].status
    BY <2>2 DEF SameSchedule, Settled
  <2>6. QED
    BY <2>1, <2>3, <2>4, <2>5 DEF TakenInv, Settled
<1>3. CASE CreateLoan \/ (\E c \in Clients : ClientChanges(c)) \/ UNCHANGED vars
  <2>1. UNCHANGED <<sched, pc, plan>>
    BY <1>3 DEF CreateLoan, ClientChanges, vars
  <2>2. QED
    BY <2>1 DEF TakenInv, Takers, Taken, Settled
<1>4. QED
  BY <1>1, <1>2, <1>3 DEF Next

LEMMA TakenInvariant == Spec => []TakenInv
<1>1. Init => TakenInv
  BY DEF Init, TransactionsInit, TakenInv, Taken, Takers, Settled, Untouched, Absent
<1>2. LoanInv /\ TypeInv /\ GapInv /\ OverlapInv /\ TakenInv /\ [Next]_vars => TakenInv'
  BY NextTaken
<1>3. QED
  BY <1>1, <1>2, LoanInvariant, TypeInvariant, GapInvariant, OverlapInvariant, PTL DEF Spec

-----------------------------------------------------------------------------
(***************************************************************************)
(* First in, first out.  A repayment takes, with an installment, the older *)
(* ones that are not settled; what others settle meanwhile stays settled.  *)
(***************************************************************************)

FifoInv ==
  \A r \in Requests : Kind(r) = "repay" =>
    \A j \in plan[r], i \in Numbers : i < j => i \in plan[r] \/ Settled(i)

\* Only reading unpaid installments changes what a request took.
LEMMA PlanStep ==
  ASSUME LoanInv, TypeInv, NEW r \in Requests, Arrive(r) \/ Proceed(r) \/ Abort(r)
  PROVE  \/ plan' = plan
         \/ /\ Kind(r) = "repay" /\ plan' = [plan EXCEPT ![r] = Covered(sched, Op[r].amount)]
            /\ sched' = sched
         \/ Kind(r) = "reschedule" /\ plan' = [plan EXCEPT ![r] = Unpaid(sched)]
<1>1. CASE Arrive(r)
  BY <1>1 DEF Arrive, SubmitRead, ApproveRead, RejectRead, DisburseRead, RepayRead,
     RescheduleRead, OverdueRead, ReadLoan
<1>2. CASE Rollback(r)
  BY <1>2 DEF Rollback
<1>3. QED
  BY <1>1, <1>2 DEF Proceed, Abort, Decide, FindExisting, Insert, CreateSchedule,
     CreateMany, MarkDisbursed, CloseLoan, MarkLoan, ChooseInstallments, PayInstallments,
     CountUnpaid, ReadUnpaid, CancelInstallments, NextNumber, AppendInstallments,
     MarkOverdue, Commit

LEMMA NextFifo ==
  ASSUME LoanInv, TypeInv, GapInv, OverlapInv, FifoInv, [Next]_vars
  PROVE  FifoInv'
<1>1. \A i \in Numbers : Settled(i) => Settled(i)'
  BY StepSettles
<1>2. CASE plan' = plan
  BY <1>1, <1>2 DEF FifoInv
<1>3. ASSUME NEW r \in Requests, Kind(r) = "repay", sched' = sched,
             plan' = [plan EXCEPT ![r] = Covered(sched, Op[r].amount)]
      PROVE  FifoInv'
  <2>1. ASSUME NEW j \in Covered(sched, Op[r].amount), NEW i \in Numbers, i < j,
               ~Settled(i)
        PROVE  i \in Covered(sched, Op[r].amount)
    <3>1. j \in Numbers /\ Exists(sched, j)
      BY DEF Covered, Unpaid, Exists
    <3>2. Exists(sched, i)
      BY <2>1, <3>1 DEF GapInv, NumbersHaveNoGap
    <3>3. i \in Unpaid(sched)
      BY <2>1, <3>2 DEF Exists, Settled, Unpaid, TypeInv, TypeOK, Installment
    <3>4. QED
      BY <2>1, <3>3, CoveredOldest, CountsPositive DEF OverlapInv
  <2>2. \A s \in Requests : plan'[s] = IF s = r THEN Covered(sched, Op[r].amount) ELSE plan[s]
    BY <1>3 DEF TypeInv, TypeOK
  <2>3. QED
    BY <1>1, <2>1, <2>2 DEF FifoInv
<1>4. ASSUME NEW r \in Requests, Kind(r) = "reschedule",
             plan' = [plan EXCEPT ![r] = Unpaid(sched)]
      PROVE  FifoInv'
  <2>1. \A s \in Requests \ {r} : plan'[s] = plan[s]
    BY <1>4 DEF TypeInv, TypeOK
  <2>2. QED
    BY <1>1, <1>4, <2>1 DEF FifoInv
<1>5. CASE CreateLoan \/ (\E c \in Clients : ClientChanges(c)) \/ UNCHANGED vars
  <2>1. plan' = plan
    BY <1>5 DEF CreateLoan, ClientChanges, vars
  <2>2. QED
    BY <1>2, <2>1
<1>6. QED
  BY <1>2, <1>3, <1>4, <1>5, PlanStep DEF Next

LEMMA FifoInvariant == Spec => []FifoInv
<1>1. Init => FifoInv
  BY DEF Init, FifoInv
<1>2. LoanInv /\ TypeInv /\ GapInv /\ OverlapInv /\ FifoInv /\ [Next]_vars => FifoInv'
  BY NextFifo
<1>3. QED
  BY <1>1, <1>2, LoanInvariant, TypeInvariant, GapInvariant, OverlapInvariant, PTL DEF Spec

\* Whatever overlaps, a paid installment is one that a repayment took, with the older
\* ones that were not settled yet.
LEMMA OrderFollows ==
  ASSUME TypeInv, GapInv, TakenInv, FifoInv
  PROVE  PaidInOrder
<1> SUFFICES ASSUME NEW i \in Numbers, NEW j \in Numbers, i < j, sched[j].status = "PAID"
             PROVE  Settled(i)
  BY DEF PaidInOrder, Settled
<1>1. PICK s \in Takers : Kind(s) = "repay" /\ j \in plan[s]
  BY DEF TakenInv
<1>2. s \in Requests /\ (i \in plan[s] \/ Settled(i))
  BY <1>1 DEF FifoInv, Takers
<1>3. i \in plan[s] => i \in Taken
  BY <1>1 DEF Taken
<1>4. QED
  BY <1>2, <1>3 DEF TakenInv

\* Repayments pay the oldest installments first, whatever other repayments, reschedules
\* and overdue jobs run meanwhile.
THEOREM PaidOldestFirst == Spec => []PaidInOrder
BY OrderFollows, TypeInvariant, GapInvariant, TakenInvariant, FifoInvariant, PTL

-----------------------------------------------------------------------------
(* Sums over requests *)

LEMMA OneMore ==
  ASSUME NEW f, \A x \in Requests : f[x] \in Int, NEW S \in SUBSET Requests,
         NEW r \in Requests, r \notin S
  PROVE  /\ SumOf(f, S) \in Int
         /\ SumOf(f, S \cup {r}) = SumOf(f, S) + f[r]
<1> DEFINE T == S \cup {r}
<1>1. IsFiniteSet(S)
  BY TransactionsAssumption, FS_Subset
<1>2. IsFiniteSet(T) /\ T \subseteq Requests /\ T \ {r} = S /\ r \in T
  BY <1>1, FS_AddElement
<1> HIDE DEF T
<1>3. (\A x \in T : f[x] \in Int) /\ \A x \in S : f[x] \in Int
  BY <1>2
<1>4. SumOf(f, T) = f[r] + SumOf(f, T \ {r})
  BY ONLY <1>2, <1>3, SumRemove
<1>5. SumOf(f, S) \in Int
  BY <1>1, <1>3, SumInt
<1>6. SumOf(f, T) = SumOf(f, S) + f[r]
  <2>1. SumOf(f, T \ {r}) = SumOf(f, S)
    BY ONLY <1>2
  <2>2. f[r] \in Int
    OBVIOUS
  <2>3. QED
    BY <1>4, <1>5, <2>1, <2>2
<1>7. QED
  BY <1>5, <1>6 DEF T

\* Term by term.
LEMMA SumAdd ==
  ASSUME NEW S, IsFiniteSet(S), NEW f, NEW g, NEW h,
         \A x \in S : f[x] \in Int /\ g[x] \in Int /\ h[x] = f[x] + g[x]
  PROVE  SumOf(h, S) = SumOf(f, S) + SumOf(g, S)
<1> DEFINE Bad == {T \in SUBSET S : SumOf(h, T) # SumOf(f, T) + SumOf(g, T)}
<1> SUFFICES ASSUME Bad # {} PROVE FALSE
  OBVIOUS
<1>1. PICK T \in Bad : \A U \in Bad : U \subseteq T => U = T
  <2>1. Bad \subseteq SUBSET S
    OBVIOUS
  <2> HIDE DEF Bad
  <2>2. QED
    BY <2>1, SmallestSubset
<1>2. T \in SUBSET S /\ SumOf(h, T) # SumOf(f, T) + SumOf(g, T) /\ IsFiniteSet(T)
  BY FS_Subset
<1>3. T # {}
  <2>1. SumOf(h, {}) = 0 /\ SumOf(f, {}) = 0 /\ SumOf(g, {}) = 0
    BY SumEmpty
  <2>2. SUFFICES ASSUME T = {} PROVE FALSE
    OBVIOUS
  <2> HIDE DEF Bad
  <2>3. SumOf(h, T) = 0 /\ SumOf(f, T) = 0 /\ SumOf(g, T) = 0
    BY <2>1, <2>2, Zenon
  <2>4. QED
    BY <1>2, <2>3
<1>4. PICK a \in T : TRUE
  BY <1>3
<1> DEFINE U == T \ {a}
<1>5. U \in SUBSET S /\ SumOf(h, U) = SumOf(f, U) + SumOf(g, U) /\ IsFiniteSet(U)
  <2>1. U \in SUBSET S /\ U \subseteq T /\ U # T
    BY <1>2, <1>4
  <2>2. SumOf(h, U) = SumOf(f, U) + SumOf(g, U)
    BY <1>1, <2>1
  <2>3. QED
    BY <2>1, <2>2, FS_Subset
<1> HIDE DEF Bad
<1>6. /\ \A x \in T : f[x] \in Int /\ g[x] \in Int /\ h[x] \in Int
      /\ h[a] = f[a] + g[a] /\ f[a] \in Int /\ g[a] \in Int
  BY <1>2
<1>7. /\ SumOf(f, T) = f[a] + SumOf(f, U) /\ SumOf(g, T) = g[a] + SumOf(g, U)
      /\ SumOf(h, T) = h[a] + SumOf(h, U)
  BY ONLY <1>2, <1>4, <1>6, SumRemove
<1>8. SumOf(f, U) \in Int /\ SumOf(g, U) \in Int
  BY <1>5, <1>6, SumInt
<1> HIDE DEF U
<1>9. QED
  BY <1>2, <1>5, <1>6, <1>7, <1>8

AllOf(p, S) == UNION {p[x] : x \in S}
Apart(p, S) == \A x, y \in S : x # y => p[x] \cap p[y] = {}

\* What sets of installments are due together: at most the sum of what each is, which it
\* is when no two of them share an installment.
LEMMA UnionDue ==
  ASSUME NEW v, \A i \in Numbers : v[i].due \in Nat,
         NEW p, \A x \in Requests : p[x] \in SUBSET Numbers, NEW S \in SUBSET Requests,
         NEW f, \A x \in Requests : f[x] = Due(v, p[x])
  PROVE  /\ Due(v, AllOf(p, S)) <= SumOf(f, S)
         /\ Apart(p, S) => Due(v, AllOf(p, S)) = SumOf(f, S)
<1> DEFINE Good(T) == /\ Due(v, AllOf(p, T)) <= SumOf(f, T)
                      /\ Apart(p, S) => Due(v, AllOf(p, T)) = SumOf(f, T)
           Bad == {T \in SUBSET S : ~Good(T)}
<1> SUFFICES ASSUME Bad # {} PROVE FALSE
  OBVIOUS
<1>0. IsFiniteSet(S)
  BY TransactionsAssumption, FS_Subset
<1>1. PICK T \in Bad : \A U \in Bad : U \subseteq T => U = T
  <2>1. Bad \subseteq SUBSET S
    OBVIOUS
  <2> HIDE DEF Bad
  <2>2. QED
    BY <1>0, <2>1, SmallestSubset
<1>2. T \in SUBSET S /\ ~Good(T) /\ IsFiniteSet(T)
  BY <1>0, FS_Subset
<1>3. T # {}
  <2>1. SumOf(f, {}) = 0 /\ Due(v, {}) = 0
    BY SumEmpty DEF Due
  <2>2. SUFFICES ASSUME T = {} PROVE FALSE
    OBVIOUS
  <2>3. AllOf(p, T) = {}
    BY <2>2 DEF AllOf
  <2> HIDE DEF Bad
  <2>4. Due(v, AllOf(p, T)) = 0 /\ SumOf(f, T) = 0
    BY <2>1, <2>2, <2>3, Zenon
  <2>5. QED
    BY <1>2, <2>4
<1>4. PICK a \in T : TRUE
  BY <1>3
<1> DEFINE U == T \ {a}
           A == AllOf(p, T)
           B == AllOf(p, U)
<1>5. U \in SUBSET S /\ Good(U)
  BY <1>1, <1>2, <1>4
<1>6. /\ A \in SUBSET Numbers /\ B \in SUBSET A /\ A \ B \in SUBSET p[a]
      /\ p[a] \in SUBSET Numbers /\ A \ B \in SUBSET Numbers /\ B \in SUBSET Numbers
      /\ Apart(p, S) => A \ B = p[a]
  <2>1. \A x \in T : x \in S /\ x \in Requests
    BY <1>2
  <2>2. A = B \cup p[a]
    BY <1>4 DEF AllOf
  <2>3. A \in SUBSET Numbers /\ p[a] \in SUBSET Numbers
    BY <2>1 DEF AllOf
  <2>4. Apart(p, S) => B \cap p[a] = {}
    BY <2>1 DEF AllOf, Apart
  <2> HIDE DEF A, B
  <2>5. QED
    BY <2>2, <2>3, <2>4
<1>7. /\ SumOf(f, T) = SumOf(f, U) + f[a] /\ SumOf(f, U) \in Int /\ f[a] = Due(v, p[a])
  <2>1. \A x \in Requests : f[x] \in Int
    <3>1. \A x \in Requests : Due(v, p[x]) \in Int
      BY DueNat
    <3>2. QED
      BY <3>1
  <2>2. U \in SUBSET Requests /\ a \in Requests /\ a \notin U /\ U \cup {a} = T
    BY <1>2, <1>4
  <2> HIDE DEF U, Bad
  <2>3. QED
    BY <2>1, <2>2, OneMore
<1>8. /\ Due(v, B) <= SumOf(f, U) /\ (Apart(p, S) => Due(v, B) = SumOf(f, U))
      /\ ~(Due(v, A) <= SumOf(f, T)) \/ (Apart(p, S) /\ Due(v, A) # SumOf(f, T))
  <2> HIDE DEF A, B, U, Bad
  <2>1. QED
    BY <1>2, <1>5 DEF A, B
<1> HIDE DEF A, B, U, Bad, Good
<1>9. \A i \in Numbers : v[i].due \in Int
  OBVIOUS
<1>10. Due(v, A) = Due(v, B) + Due(v, A \ B)
  <2>1. A \in SUBSET Numbers /\ B \in SUBSET A
    BY <1>6
  <2>2. QED
    BY ONLY <1>9, <2>1, DueSplit
<1>11. /\ Due(v, A \ B) \in Nat /\ Due(v, p[a]) \in Nat /\ Due(v, A \ B) <= Due(v, p[a])
       /\ Due(v, B) \in Nat
  BY <1>6, DueNat
<1>12. Apart(p, S) => Due(v, A \ B) = Due(v, p[a])
  BY <1>6
<1>13. QED
  BY <1>7, <1>8, <1>10, <1>11, <1>12

-----------------------------------------------------------------------------
(***************************************************************************)
(* What the loan was given.  All the installments it ever had are due what *)
(* it was disbursed for, and what every reschedule spread over new ones.   *)
(***************************************************************************)

Created == {i \in Numbers : Exists(sched, i)}

Spread == SumOf([s \in Requests |-> owed[s]], Rescheduled)

CreatedInv == Created # {} => Due(sched, Created) = Total + Spread

\* A step that creates nothing and ends no reschedule.
LEMMA CreatedFrame ==
  ASSUME CreatedInv, Rescheduled' = Rescheduled, \A s \in Rescheduled : owed'[s] = owed[s],
         \A i \in Numbers :
           (Exists(sched', i) <=> Exists(sched, i)) /\ sched'[i].due = sched[i].due
  PROVE  CreatedInv'
<1>1. Created' = Created /\ Created \in SUBSET Numbers
  BY DEF Created
<1>2. Due(sched', Created) = Due(sched, Created)
  BY <1>1, DueSame
<1>3. Rescheduled \subseteq Requests /\ IsFiniteSet(Rescheduled)
  BY TransactionsAssumption, FS_Subset DEF Rescheduled
<1> DEFINE f == [s \in Requests |-> owed[s]]
           g == [s \in Requests |-> owed'[s]]
<1>4. \A x \in Rescheduled : f[x] = g[x]
  BY <1>3
<1>5. Spread = SumOf(f, Rescheduled) /\ Spread' = SumOf(g, Rescheduled')
  BY DEF Spread
<1> HIDE DEF f, g
<1>6. SumOf(f, Rescheduled) = SumOf(g, Rescheduled)
  BY <1>3, <1>4, SumEqual
<1>7. Spread' = Spread
  BY <1>5, <1>6
<1>8. QED
  BY <1>1, <1>2, <1>7 DEF CreatedInv

LEMMA RescheduleCreates ==
  ASSUME LoanInv, TypeInv, OverlapInv, CreatedInv, NEW r \in Requests, Commit(r),
         Kind(r) = "reschedule"
  PROVE  CreatedInv'
<1> DEFINE N == AddedBy(r)
           C == Created
<1>1. /\ N \subseteq Numbers /\ Due(sched', N) = owed[r]
      /\ \A i \in Numbers :
           IF i \in N
           THEN ~Exists(sched, i) /\ sched'[i].status = "PENDING" /\ sched'[i].due \in Nat
           ELSE /\ sched'[i].due = sched[i].due
                /\ (Exists(sched', i) <=> Exists(sched, i))
      /\ Rescheduled' = Rescheduled \cup {r} /\ r \notin Rescheduled
  BY RescheduleCommits DEF OverlapInv, PlanInv, Exists
<1>2. plan[r] # {} /\ owed' = owed /\ plan[r] \subseteq Numbers
  BY DEF OverlapInv, OverlapOf, ReschedulingOf, Commit, TypeInv, TypeOK
<1>3. C # {}
  BY <1>2 DEF PlanInv, Created
<1>4. Due(sched, C) = Total + Spread
  BY <1>3 DEF CreatedInv
<1>5. Created' = C \cup N /\ C \cap N = {} /\ C \in SUBSET Numbers
  BY <1>1 DEF Created, Exists
<1> HIDE DEF N, C
<1>6. \A i \in Numbers : sched'[i].due \in Int
  BY <1>1 DEF TypeInv, TypeOK, Installment
<1>7. C \cup N \in SUBSET Numbers /\ N \in SUBSET (C \cup N) /\ (C \cup N) \ N = C
  BY <1>1, <1>5
<1>8. Due(sched', C \cup N) = Due(sched', N) + Due(sched', (C \cup N) \ N)
  BY ONLY <1>6, <1>7, DueSplit
<1>9. Due(sched', C) = Due(sched, C)
  <2>1. \A i \in C : sched'[i].due = sched[i].due
    BY <1>1, <1>5
  <2>2. QED
    BY <1>5, <2>1, DueSame
<1> DEFINE f == [s \in Requests |-> owed[s]]
<1>10. /\ \A x \in Requests : f[x] \in Int
       /\ f[r] = owed[r]
       /\ Rescheduled \in SUBSET Requests
  BY DEF TypeInv, TypeOK, Rescheduled
<1>11. Spread = SumOf(f, Rescheduled) /\ Spread' = SumOf(f, Rescheduled \cup {r})
  BY <1>1, <1>2 DEF Spread
<1> HIDE DEF f
<1>12. Spread \in Int /\ Spread' = Spread + owed[r] /\ owed[r] \in Int
  BY <1>1, <1>10, <1>11, OneMore
<1>13. Due(sched', Created') = owed[r] + Due(sched, C)
  BY ONLY <1>1, <1>5, <1>7, <1>8, <1>9
<1>14. Due(sched', Created') = Total + Spread'
  BY ONLY <1>4, <1>12, <1>13, CountsPositive
<1>15. QED
  BY <1>14 DEF CreatedInv

LEMMA NextCreated ==
  ASSUME LoanInv, TypeInv, GapInv, OverlapInv, CreatedInv, [Next]_vars
  PROVE  CreatedInv'
<1>1. ASSUME NEW r \in Requests, Commit(r)
      PROVE  CreatedInv'
  <2>1. OverlapOf(r) /\ Kind(r) \in {"disburse", "repay", "reschedule"}
    BY <1>1 DEF OverlapInv, OverlapOf, CommitterOf, Commit
  <2>2. CASE Kind(r) = "repay"
    <3>1. Rescheduled' = Rescheduled /\ owed' = owed
      BY <1>1, <2>2 DEF Commit, Rescheduled
    <3>2. \A i \in Numbers :
            (Exists(sched', i) <=> Exists(sched, i)) /\ sched'[i].due = sched[i].due
      BY <1>1, <2>1, <2>2, RepayCommits DEF PlanInv, Exists
    <3>3. QED
      BY <3>1, <3>2, CreatedFrame
  <2>3. CASE Kind(r) = "disburse"
    <3>1. /\ \A i \in Numbers : ~Exists(sched, i)
          /\ FirstOnes \subseteq Numbers /\ Due(sched', FirstOnes) = Total
          /\ \A i \in Numbers :
               IF i \in FirstOnes THEN sched'[i].status = "PENDING" ELSE sched'[i] = sched[i]
          /\ Rescheduled' = {}
      BY <1>1, <2>3, DisburseCommits
    <3>2. Created' = FirstOnes
      BY <3>1 DEF Created, Exists
    <3>3. Spread' = 0
      BY <3>1, SumEmpty DEF Spread
    <3>4. QED
      BY <3>1, <3>2, <3>3, CountsPositive DEF CreatedInv
  <2>4. QED
    BY <1>1, <2>1, <2>2, <2>3, RescheduleCreates
<1>2. ASSUME NEW r \in Requests, Arrive(r) \/ Proceed(r) \/ Abort(r), ~Commit(r)
      PROVE  CreatedInv'
  <2>1. (sched' = sched \/ MarkOverdue(r)) /\ Rescheduled' = Rescheduled
    BY <1>2, Quiet DEF OverlapInv, OverlapOf, CommitterOf
  <2>2. SameSchedule
    BY <2>1, OverdueSame DEF SameSchedule
  <2>3. \A s \in Rescheduled : owed'[s] = owed[s]
    <3>1. Rescheduled \subseteq Takers
      BY DEF Rescheduled, Takers
    <3>2. QED
      BY <1>2, <3>1, TakersStay, Private DEF Takers
  <2>4. \A i \in Numbers :
          (Exists(sched', i) <=> Exists(sched, i)) /\ sched'[i].due = sched[i].due
    BY <2>2 DEF SameSchedule, Exists
  <2>5. QED
    BY <2>1, <2>3, <2>4, CreatedFrame
<1>3. CASE CreateLoan \/ (\E c \in Clients : ClientChanges(c)) \/ UNCHANGED vars
  <2>1. UNCHANGED <<sched, pc, owed>>
    BY <1>3 DEF CreateLoan, ClientChanges, vars
  <2>2. QED
    BY <2>1, CreatedFrame DEF Rescheduled
<1>4. QED
  BY <1>1, <1>2, <1>3 DEF Next

LEMMA CreatedInvariant == Spec => []CreatedInv
<1>1. Init => CreatedInv
  BY DEF Init, CreatedInv, Created, Exists, Untouched, Absent
<1>2. LoanInv /\ TypeInv /\ GapInv /\ OverlapInv /\ CreatedInv /\ [Next]_vars => CreatedInv'
  BY NextCreated
<1>3. QED
  BY <1>1, <1>2, LoanInvariant, TypeInvariant, GapInvariant, OverlapInvariant, PTL DEF Spec

-----------------------------------------------------------------------------
(***************************************************************************)
(* The books.  As long as no other call posts its row under the key of a   *)
(* repayment, a repayment that is done has posted its own, and the         *)
(* installments it paid are linked to it.                                  *)
(***************************************************************************)

\* No repayment shares its key with another call that posts a row.
RepaymentKeys ==
  \A r, s \in Requests :
    /\ Kind(r) = "repay" /\ Kind(s) \in {"repay", "disburse"}
    /\ Op[r].key = Op[s].key
    => r = s

\* The rows are those of the requests that posted them, and a repayment has its own.
OwnRows ==
  \A r \in Requests :
    /\ Posted(r) => Kind(r) \in {"repay", "disburse"} /\ ledger[r] = LoanRow(r)
    /\ Drafted(r) => /\ Kind(r) \in {"repay", "disburse"}
                     /\ row[r] = r /\ draft[r] = LoanRow(r)
    /\ Kind(r) = "repay" /\ pc[r] \in {"pay", "count", "close", "commit"} => Drafted(r)
    /\ Kind(r) = "repay" /\ pc[r] = "done" => Posted(r)

\* No row has the key of a repayment that has not posted its own.
LEMMA OwnKey ==
  ASSUME RepaymentKeys, LoanInv, OwnRows, NEW r \in Requests, Kind(r) = "repay",
         pc[r] # "done"
  PROVE  FindByKey(Op[r].key) = {}
<1> SUFFICES ASSUME NEW s \in Requests, Posted(s), ledger[s].key = Op[r].key
             PROVE  FALSE
  BY DEF FindByKey
<1>1. Kind(s) \in {"repay", "disburse"} /\ Op[s].key = Op[r].key
  BY LoanRowType DEF OwnRows
<1>2. s = r
  BY <1>1 DEF RepaymentKeys
<1>3. QED
  BY <1>2 DEF RowLifecycle

\* A step of r that leaves the ledger, and the row r works on unless it has none.
LEMMA RowsFrame ==
  ASSUME OwnRows, NEW r \in Requests, ledger' = ledger,
         draft' = draft \/ ~Drafted(r)', \A s \in Requests \ {r} : draft'[s] = draft[s],
         \A s \in Requests \ {r} : pc'[s] = pc[s] /\ row'[s] = row[s],
         Drafted(r)' => row'[r] = row[r],
         Kind(r) = "repay" /\ pc'[r] \in {"pay", "count", "close", "commit"} => Drafted(r)',
         Kind(r) = "repay" => pc'[r] # "done"
  PROVE  OwnRows'
BY DEF OwnRows, LoanRow, NewRow

LEMMA NextRows ==
  ASSUME RepaymentKeys, LoanInv, TypeInv, OverlapInv, OwnRows, [Next]_vars
  PROVE  OwnRows'
<1>1. ASSUME NEW r \in Requests, Rollback(r)
      PROVE  OwnRows'
  <2>1. /\ ledger' = ledger /\ row' = row /\ pc' = [pc EXCEPT ![r] = "failed"]
        /\ draft' = [draft EXCEPT ![r] = NoRow]
    BY <1>1 DEF Rollback, EndTransaction
  <2>2. QED
    BY <2>1, RowsFrame
<1>2. ASSUME NEW r \in Requests, Arrive(r)
      PROVE  OwnRows'
  <2>1. /\ ledger' = ledger /\ draft' = draft /\ row' = row
        /\ \A s \in Requests \ {r} : pc'[s] = pc[s]
        /\ pc'[r] \notin {"pay", "count", "close", "commit"}
        /\ Kind(r) = "repay" => pc'[r] # "done"
    BY <1>2 DEF Arrive, SubmitRead, ApproveRead, RejectRead, DisburseRead, RepayRead,
       RescheduleRead, OverdueRead, ReadLoan
  <2>2. QED
    BY <2>1, RowsFrame
<1>3. ASSUME NEW r \in Requests, FindExisting(r), ~Rollback(r)
      PROVE  OwnRows'
  <2>1. /\ ledger' = ledger /\ draft' = draft /\ pc[r] = "find"
        /\ \A s \in Requests \ {r} : pc'[s] = pc[s] /\ row'[s] = row[s]
        /\ \/ ReturnExisting(r)
           \/ pc'[r] = "insert" /\ row' = row
    BY <1>3 DEF FindExisting, ReturnExisting
  <2>2. Kind(r) \in {"disburse", "repay"} /\ ~Drafted(r) /\ pc'[r] \in {"insert", AfterRow(r)}
    BY <1>3, <2>1 DEF FindExisting, KindPoints, RowLifecycle
  <2>3. Kind(r) = "repay" => pc'[r] = "insert"
    BY <2>1, <2>2, OwnKey DEF ReturnExisting, AfterRow
  <2>4. QED
    BY <2>1, <2>2, <2>3, RowsFrame
<1>4. ASSUME NEW r \in Requests, Insert(r), ~Rollback(r)
      PROVE  OwnRows'
  <2>1. /\ row' = [row EXCEPT ![r] = r] /\ draft' = [draft EXCEPT ![r] = LoanRow(r)]
        /\ ledger' = ledger /\ pc[r] = "insert" /\ pc' = [pc EXCEPT ![r] = AfterRow(r)]
    BY <1>4 DEF Insert, InsertDraft
  <2>2. Kind(r) \in {"disburse", "repay"} /\ LoanRow(r) # NoRow
    BY <2>1, LoanRowType DEF KindPoints
  <2>3. \A s \in Requests : LoanRow(s)' = LoanRow(s)
    BY DEF LoanRow, NewRow
  <2>4. pc'[r] \in {"pay", "disburse"}
    BY <2>1 DEF AfterRow
  <2>5. \A s \in Requests \ {r} :
          pc'[s] = pc[s] /\ draft'[s] = draft[s] /\ row'[s] = row[s]
    BY <2>1
  <2>6. row'[r] = r /\ draft'[r] = LoanRow(r) /\ Drafted(r)' /\ ~Posted(r)
    BY <2>1, <2>2 DEF RowLifecycle
  <2>7. QED
    BY <2>1, <2>2, <2>3, <2>4, <2>5, <2>6 DEF OwnRows
<1>5. ASSUME NEW r \in Requests, Commit(r)
      PROVE  OwnRows'
  <2>1. /\ ledger' = WithDraft(r) /\ draft' = [draft EXCEPT ![r] = NoRow]
        /\ row' = row /\ pc' = [pc EXCEPT ![r] = "done"]
    BY <1>5 DEF Commit, EndTransaction
  <2>2. \A s \in Requests : LoanRow(s)' = LoanRow(s)
    BY DEF LoanRow, NewRow
  <2>3. \A s \in Requests \ {r} : ledger'[s] = ledger[s]
    BY <2>1 DEF WithDraft
  <2>4. ledger'[r] = IF Drafted(r) THEN draft[r] ELSE ledger[r]
    BY <2>1 DEF WithDraft
  <2>5. pc[r] = "commit" /\ pc'[r] = "done" /\ ~Drafted(r)'
    BY <1>5, <2>1 DEF Commit
  <2>6. Kind(r) = "repay" => Posted(r)'
    BY <2>4, <2>5 DEF OwnRows
  <2>7. Posted(r)' => Kind(r) \in {"repay", "disburse"} /\ ledger'[r] = LoanRow(r)
    BY <2>4 DEF OwnRows
  <2>8. \A s \in Requests \ {r} :
          pc'[s] = pc[s] /\ draft'[s] = draft[s] /\ row'[s] = row[s]
    BY <2>1
  <2>9. QED
    BY <2>2, <2>3, <2>5, <2>6, <2>7, <2>8 DEF OwnRows
<1>6. ASSUME NEW r \in Requests, Proceed(r), ~Rollback(r), ~FindExisting(r), ~Insert(r),
             ~Commit(r)
      PROVE  OwnRows'
  <2>1. /\ ledger' = ledger /\ draft' = draft /\ row' = row
        /\ \A s \in Requests \ {r} : pc'[s] = pc[s]
    BY <1>6 DEF Proceed, Decide, CreateSchedule, CreateMany, MarkDisbursed, CloseLoan,
       MarkLoan, ChooseInstallments, PayInstallments, CountUnpaid, ReadUnpaid,
       CancelInstallments, AfterUpdate, NextNumber, AppendInstallments, MarkOverdue
  <2>2. Kind(r) = "repay" /\ pc'[r] \in {"pay", "count", "close", "commit"} =>
          pc[r] \in {"pay", "count", "close", "commit"}
    BY <1>6 DEF Proceed, Decide, CreateSchedule, CreateMany, MarkDisbursed, CloseLoan,
       MarkLoan, ChooseInstallments, PayInstallments, CountUnpaid, ReadUnpaid,
       CancelInstallments, AfterUpdate, NextNumber, AppendInstallments, MarkOverdue,
       KindPoints
  <2>3. Kind(r) = "repay" => pc'[r] # "done"
    BY <1>6 DEF Proceed, Decide, CreateSchedule, CreateMany, MarkDisbursed, CloseLoan,
       MarkLoan, ChooseInstallments, PayInstallments, CountUnpaid, ReadUnpaid, AfterUpdate,
       CancelInstallments, NextNumber, AppendInstallments, MarkOverdue, KindPoints, TypeInv,
       OverlapInv, OverlapOf, CommitterOf, IsJob
  <2>4. QED
    BY <2>1, <2>2, <2>3, RowsFrame DEF OwnRows
<1>7. CASE CreateLoan \/ (\E c \in Clients : ClientChanges(c)) \/ UNCHANGED vars
  <2>1. UNCHANGED <<ledger, draft, row, pc>>
    BY <1>7 DEF CreateLoan, ClientChanges, vars
  <2>2. QED
    BY <2>1 DEF OwnRows, LoanRow, NewRow
<1>8. QED
  BY <1>1, <1>2, <1>3, <1>4, <1>5, <1>6, <1>7 DEF Next, Abort

LEMMA RowsInvariant == ASSUME RepaymentKeys PROVE Spec => []OwnRows
<1>1. Init => OwnRows
  BY DEF Init, TransactionsInit, OwnRows
<1>2. LoanInv /\ TypeInv /\ OverlapInv /\ OwnRows /\ [Next]_vars => OwnRows'
  BY NextRows
<1>3. QED
  BY <1>1, <1>2, LoanInvariant, TypeInvariant, OverlapInvariant, PTL DEF Spec

-----------------------------------------------------------------------------
(* What the ledger received *)

LEMMA RepaymentRows ==
  ASSUME LoanInv, OwnRows
  PROVE  /\ \A s \in Requests :
              s \in Repayments <=> Posted(s) /\ Kind(s) = "repay"
         /\ \A s \in Repayments : ledger[s].amount = Op[s].amount
         /\ IsFiniteSet(Repayments)
<1>1. \A s \in Requests : Posted(s) =>
        /\ Kind(s) = "repay" <=> ledger[s].type = "LOAN_REPAYMENT"
        /\ Kind(s) = "repay" => ledger[s].amount = Op[s].amount
  BY DEF OwnRows, LoanRow, NewRow
<1>2. IsFiniteSet(Repayments)
  BY TransactionsAssumption, FS_Subset DEF Repayments
<1>3. QED
  BY <1>1, <1>2 DEF Repayments

\* The ledger says it in the amounts that were asked for.
LEMMA RepaidOps ==
  ASSUME LoanInv, OwnRows
  PROVE  Repaid = SumOf([s \in Requests |-> Op[s].amount], Repayments)
<1> DEFINE f == [s \in Repayments |-> ledger[s].amount]
           g == [s \in Requests |-> Op[s].amount]
<1>1. Repayments \subseteq Requests
  BY DEF Repayments
<1>2. \A s \in Repayments : f[s] = g[s]
  BY <1>1, RepaymentRows
<1>3. IsFiniteSet(Repayments)
  BY RepaymentRows
<1> HIDE DEF f, g
<1>4. SumOf(f, Repayments) = SumOf(g, Repayments)
  BY <1>2, <1>3, SumEqual
<1>5. QED
  BY <1>4 DEF Repaid, f, g


\* A paid installment is linked to the repayment that paid it last.
LinkInv ==
  \A i \in Numbers :
    sched[i].status = "PAID" =>
      /\ sched[i].paidBy \in Takers
      /\ Kind(sched[i].paidBy) = "repay"
      /\ i \in plan[sched[i].paidBy]

LEMMA NextLink ==
  ASSUME LoanInv, TypeInv, GapInv, OverlapInv, OwnRows, LinkInv, [Next]_vars
  PROVE  LinkInv'
<1>1. ASSUME NEW r \in Requests, Commit(r)
      PROVE  LinkInv'
  <2>1. OverlapOf(r) /\ NumbersBounded /\ Kind(r) \in {"disburse", "repay", "reschedule"}
    BY <1>1 DEF OverlapInv, OverlapOf, CommitterOf, Commit
  <2>2. Takers \subseteq Takers' /\ plan' = plan
    BY <1>1, CommitTakes
  <2>3. CASE Kind(r) = "repay"
    <3>1. r \in Takers' /\ row[r] = r
      BY <1>1, <2>3, CommitTakes DEF OwnRows, Commit
    <3>2. \A i \in Numbers :
            IF i \in plan[r] THEN sched'[i].status = "PAID" /\ sched'[i].paidBy = r
            ELSE sched'[i] = sched[i]
      BY <1>1, <2>1, <2>3, <3>1, RepayCommits
    <3>3. QED
      BY <2>2, <2>3, <3>1, <3>2 DEF LinkInv
  <2>4. CASE Kind(r) = "reschedule"
    <3>1. \A i \in Numbers :
            sched'[i].status \in {"PENDING", "CANCELLED"} \/ sched'[i] = sched[i]
      BY <1>1, <2>1, <2>4, RescheduleCommits
    <3>2. QED
      BY <2>2, <3>1 DEF LinkInv
  <2>5. CASE Kind(r) = "disburse"
    <3>1. \A i \in Numbers : sched'[i].status = "PENDING" \/ sched'[i] = sched[i]
      BY <1>1, <2>5, DisburseCommits
    <3>2. QED
      BY <2>2, <3>1 DEF LinkInv
  <2>6. QED
    BY <2>1, <2>3, <2>4, <2>5
<1>2. ASSUME NEW r \in Requests, Arrive(r) \/ Proceed(r) \/ Abort(r), ~Commit(r)
      PROVE  LinkInv'
  <2>1. (sched' = sched \/ MarkOverdue(r)) /\ Takers' = Takers
    BY <1>2, Quiet DEF OverlapInv, OverlapOf, CommitterOf
  <2>2. SameSchedule
    BY <2>1, OverdueSame DEF SameSchedule
  <2>3. \A s \in Takers : plan'[s] = plan[s]
    BY <1>2, TakersStay
  <2>4. \A i \in Numbers : sched'[i].status = "PAID" =>
          sched[i].status = "PAID" /\ sched'[i].paidBy = sched[i].paidBy
    BY <2>2 DEF SameSchedule
  <2>5. QED
    BY <2>1, <2>3, <2>4 DEF LinkInv
<1>3. CASE CreateLoan \/ (\E c \in Clients : ClientChanges(c)) \/ UNCHANGED vars
  <2>1. UNCHANGED <<sched, pc, plan>>
    BY <1>3 DEF CreateLoan, ClientChanges, vars
  <2>2. QED
    BY <2>1 DEF LinkInv, Takers
<1>4. QED
  BY <1>1, <1>2, <1>3 DEF Next

LEMMA LinkInvariant == ASSUME RepaymentKeys PROVE Spec => []LinkInv
<1>1. Init => LinkInv
  BY DEF Init, LinkInv, Untouched, Absent
<1>2. /\ LoanInv /\ TypeInv /\ GapInv /\ OverlapInv /\ OwnRows /\ LinkInv /\ [Next]_vars
      => LinkInv'
  BY NextLink
<1>3. QED
  BY <1>1, <1>2, LoanInvariant, TypeInvariant, GapInvariant, OverlapInvariant, RowsInvariant,
     PTL DEF Spec

-----------------------------------------------------------------------------
(* What the books amount to *)

DueOf == [s \in Requests |-> Due(sched, plan[s])]
AmountOf == [s \in Requests |-> Op[s].amount]

LEMMA DueOfNat ==
  ASSUME TypeInv, OverlapInv
  PROVE  /\ \A i \in Numbers : sched[i].due \in Nat
         /\ \A s \in Requests : plan[s] \in SUBSET Numbers /\ DueOf[s] = Due(sched, plan[s])
         /\ \A s \in Requests : DueOf[s] \in Nat
<1>1. \A i \in Numbers : sched[i].due \in Nat
  BY DuesNat DEF OverlapInv
<1>2. \A s \in Requests : plan[s] \in SUBSET Numbers
  BY DEF TypeInv, TypeOK
<1>3. \A s \in Requests : Due(sched, plan[s]) \in Nat
  BY <1>1, <1>2, DueNat
<1>4. QED
  BY <1>1, <1>2, <1>3 DEF DueOf

\* The requests that took installments are the repayments and the reschedules.
LEMMA TakersAre ==
  ASSUME LoanInv, TypeInv, OwnRows
  PROVE  /\ Repayments \subseteq Takers /\ Takers \ Repayments = Rescheduled
         /\ Takers \subseteq Requests
         /\ IsFiniteSet(Takers) /\ IsFiniteSet(Repayments) /\ IsFiniteSet(Rescheduled)
         /\ \A s \in Takers : s \in Repayments <=> Kind(s) = "repay"
<1>1. \A s \in Requests : s \in Repayments <=> Kind(s) = "repay" /\ pc[s] = "done"
  BY RepaymentRows DEF OwnRows, RowLifecycle
<1>2. Takers \subseteq Requests /\ Repayments \subseteq Requests
  BY DEF Takers, Repayments
<1>3. Repayments \subseteq Takers /\ Takers \ Repayments = Rescheduled
  BY <1>1, <1>2 DEF Takers, Rescheduled
<1>4. IsFiniteSet(Takers) /\ IsFiniteSet(Repayments) /\ IsFiniteSet(Rescheduled)
  <2>1. Takers \subseteq Requests /\ Repayments \subseteq Requests /\ Rescheduled \subseteq Requests
    BY <1>2 DEF Rescheduled
  <2>2. QED
    BY <2>1, TransactionsAssumption, FS_Subset
<1>5. QED
  BY <1>1, <1>2, <1>3, <1>4 DEF Takers

\* The ledger received what the repayments took was due; the reschedules spread what they
\* took was due, and the penalties.
LEMMA TakersSums ==
  ASSUME LoanInv, TypeInv, OverlapInv, OwnRows
  PROVE  /\ Repaid = SumOf(DueOf, Repayments)
         /\ Spread = SumOf(DueOf, Rescheduled) + Penalties
         /\ SumOf(DueOf, Takers) = SumOf(DueOf, Repayments) + SumOf(DueOf, Rescheduled)
         /\ SumOf(DueOf, Repayments) \in Int /\ SumOf(DueOf, Rescheduled) \in Int
         /\ Penalties \in Int
         /\ TakenAgain = SumOf(DueOf, Takers) - Due(sched, Taken)
<1>1. \A s \in Requests : DueOf[s] \in Int /\ DueOf[s] = Due(sched, plan[s])
  BY DueOfNat
<1>2. \A s \in Requests : AmountOf[s] = Op[s].amount /\ AmountOf[s] \in Int
  BY CountsPositive DEF AmountOf
<1>3. Rescheduled \subseteq Requests /\ Repayments \subseteq Requests /\ Takers \subseteq Requests
  BY TakersAre DEF Rescheduled
<1>4. Repaid = SumOf(DueOf, Repayments)
  <2>1. \A s \in Repayments : DueOf[s] = AmountOf[s]
    <3>1. \A s \in Repayments : Kind(s) = "repay" /\ pc[s] = "done"
      BY <1>3, TakersAre DEF Takers
    <3>2. \A s \in Repayments : Due(sched, plan[s]) = Op[s].amount
      BY <1>3, <3>1 DEF OverlapInv, OverlapOf, RepayingOf
    <3>3. QED
      BY <1>1, <1>2, <1>3, <3>2
  <2>2. SumOf(DueOf, Repayments) = SumOf(AmountOf, Repayments)
    BY <2>1, SumEqual, TakersAre
  <2>3. Repaid = SumOf(AmountOf, Repayments)
    BY RepaidOps DEF AmountOf
  <2>4. QED
    BY <2>2, <2>3
<1>5. Spread = SumOf(DueOf, Rescheduled) + SumOf(AmountOf, Rescheduled)
  <2> DEFINE h == [s \in Requests |-> owed[s]]
  <2>1. \A s \in Rescheduled : owed[s] = Due(sched, plan[s]) + Op[s].amount
    BY DEF Rescheduled, OverlapInv, OverlapOf, ReschedulingOf
  <2>2. \A s \in Rescheduled :
          DueOf[s] \in Int /\ AmountOf[s] \in Int /\ h[s] = DueOf[s] + AmountOf[s]
    BY <1>1, <1>2, <1>3, <2>1
  <2>3. Spread = SumOf(h, Rescheduled)
    BY DEF Spread
  <2> HIDE DEF h
  <2>4. SumOf(h, Rescheduled) = SumOf(DueOf, Rescheduled) + SumOf(AmountOf, Rescheduled)
    BY <2>2, SumAdd, TakersAre
  <2>5. QED
    BY <2>3, <2>4
<1>6. Penalties = SumOf(AmountOf, Rescheduled)
  BY DEF Penalties, Rescheduled, AmountOf
<1>7. /\ SumOf(DueOf, Repayments) \in Int /\ SumOf(DueOf, Rescheduled) \in Int
      /\ SumOf(AmountOf, Rescheduled) \in Int
  <2>1. /\ \A s \in Repayments : DueOf[s] \in Int
        /\ \A s \in Rescheduled : DueOf[s] \in Int /\ AmountOf[s] \in Int
    BY <1>1, <1>2, <1>3
  <2>2. QED
    BY <2>1, SumInt, TakersAre
<1>8. SumOf(DueOf, Takers) = SumOf(DueOf, Repayments) + SumOf(DueOf, Takers \ Repayments)
  <2>1. \A s \in Takers : DueOf[s] \in Int
    BY <1>1, <1>3
  <2>2. Repayments \in SUBSET Takers /\ IsFiniteSet(Takers)
    BY TakersAre
  <2>3. QED
    BY ONLY <2>1, <2>2, SumSplit
<1>9. Takers \ Repayments = Rescheduled
  BY TakersAre
<1>10. TakenAgain = SumOf(DueOf, Takers) - Due(sched, Taken)
  <2> DEFINE h == [s \in Takers |-> Due(sched, plan[s])]
  <2>1. \A s \in Takers : h[s] = DueOf[s]
    BY <1>1, <1>3
  <2>2. TakenAgain = SumOf(h, Takers) - Due(sched, Taken)
    BY DEF TakenAgain
  <2> HIDE DEF h
  <2>3. SumOf(h, Takers) = SumOf(DueOf, Takers)
    BY <2>1, SumEqual, TakersAre
  <2>4. QED
    BY <2>2, <2>3
<1>11. QED
  BY <1>4, <1>5, <1>6, <1>7, <1>8, <1>9, <1>10

\* What is owed is what was created and not taken.
LEMMA DebtLeft ==
  ASSUME LoanInv, TypeInv, OverlapInv, TakenInv
  PROVE  /\ Debt \in Nat /\ Due(sched, Taken) \in Nat
         /\ Due(sched, Created) = Debt + Due(sched, Taken)
<1>1. Taken \subseteq Created /\ Created \in SUBSET Numbers /\ Takers \subseteq Requests
  BY DEF Taken, Takers, Created, PlanInv, TypeInv, TypeOK
<1>2. Unpaid(sched) = Created \ Taken
  <2>1. \A i \in Numbers :
          sched[i].status \in {"NONE", "PENDING", "PAID", "OVERDUE", "CANCELLED"}
    BY DEF TypeInv, TypeOK, Installment
  <2>2. \A i \in Numbers : Settled(i) <=> i \in Taken
    BY DEF TakenInv, Taken, Settled
  <2>3. QED
    BY <1>1, <2>1, <2>2 DEF Unpaid, Created, Exists, Settled
<1>3. \A i \in Numbers : sched[i].due \in Nat
  BY DueOfNat
<1>4. Created \ Taken \in SUBSET Numbers /\ Taken \in SUBSET Numbers /\ Taken \in SUBSET Created
  BY <1>1
<1>5. Due(sched, Created) = Due(sched, Taken) + Due(sched, Created \ Taken)
  <2>1. \A i \in Numbers : sched[i].due \in Int
    BY <1>3
  <2>2. QED
    BY ONLY <1>1, <1>4, <2>1, DueSplit
<1>6. Due(sched, Taken) \in Nat /\ Due(sched, Created \ Taken) \in Nat
  BY <1>3, <1>4, DueNat
<1>7. QED
  BY <1>2, <1>5, <1>6 DEF Debt

\* Hence the debt: each time an installment was taken again, it was paid, or spread over
\* new ones, once more.
LEMMA DebtFollows ==
  ASSUME LoanInv, TypeInv, OverlapInv, TakenInv, CreatedInv, OwnRows
  PROVE  DebtConserved
<1> SUFFICES ASSUME Created # {} PROVE Debt + Repaid = Total + Penalties + TakenAgain
  BY DEF DebtConserved, Created
<1>1. Debt + Due(sched, Taken) = Total + Spread /\ Debt \in Nat /\ Due(sched, Taken) \in Nat
  BY DebtLeft DEF CreatedInv
<1> DEFINE a == SumOf(DueOf, Repayments)
           b == SumOf(DueOf, Rescheduled)
           t == Due(sched, Taken)
<1>2. /\ Repaid = a /\ Spread = b + Penalties /\ TakenAgain = (a + b) - t
      /\ a \in Int /\ b \in Int /\ Penalties \in Int
  BY TakersSums
<1>3. Total \in Nat
  BY CountsPositive
<1> HIDE DEF a, b, t
<1>4. Debt + t = Total + (b + Penalties) /\ t \in Nat
  BY <1>1, <1>2 DEF t
<1>5. QED
  BY <1>1, <1>2, <1>3, <1>4

\* Rounding, splitting, repaying and rescheduling lose and create no money, whatever
\* overlaps: what overlapping requests took more than once is all the books are off by.
THEOREM DebtAddsUp == ASSUME RepaymentKeys PROVE Spec => []DebtConserved
BY DebtFollows, LoanInvariant, TypeInvariant, OverlapInvariant, TakenInvariant,
   CreatedInvariant, RowsInvariant, PTL

\* What is paid is among what the repayments took, and nothing is taken less than once.
LEMMA ShortFollows ==
  ASSUME LoanInv, TypeInv, OverlapInv, TakenInv, OwnRows, DebtConserved
  PROVE  NeverShort
<1> DEFINE P == {i \in Numbers : sched[i].status = "PAID"}
           R == AllOf(plan, Repayments)
<1>1. /\ \A i \in Numbers : sched[i].due \in Nat
      /\ \A s \in Requests : plan[s] \in SUBSET Numbers /\ DueOf[s] = Due(sched, plan[s])
      /\ Repayments \in SUBSET Requests /\ Takers \in SUBSET Requests
  BY DueOfNat, TakersAre
<1>2. Due(sched, R) <= SumOf(DueOf, Repayments)
  BY <1>1, UnionDue
<1>3. P \in SUBSET R /\ R \in SUBSET Numbers
  BY <1>1, TakersAre DEF TakenInv, AllOf
<1>4. Due(sched, P) \in Nat /\ Due(sched, R) \in Nat /\ Due(sched, P) <= Due(sched, R)
  <2> HIDE DEF P, R
  <2>1. QED
    BY <1>1, <1>3, DueNat
<1>5. AmountPaid <= Repaid
  <2>1. AmountPaid = Due(sched, P)
    BY DEF AmountPaid
  <2> HIDE DEF P, R
  <2>2. QED
    BY <1>2, <1>4, <2>1, TakersSums
<1>6. TakenAgain \in Nat
  <2>1. Due(sched, AllOf(plan, Takers)) <= SumOf(DueOf, Takers)
    BY <1>1, UnionDue
  <2>2. Due(sched, Taken) <= SumOf(DueOf, Takers)
    BY <2>1 DEF Taken, AllOf
  <2>3. Due(sched, Taken) \in Nat
    BY DebtLeft
  <2>4. QED
    BY <2>2, <2>3, TakersSums
<1>7. Penalties \in Int /\ Total \in Nat
  BY TakersSums, CountsPositive
<1>8. ASSUME NEW i \in Numbers, Exists(sched, i)
      PROVE  Debt + Repaid >= Total + Penalties
  <2>1. Debt + Repaid = Total + Penalties + TakenAgain
    BY <1>8 DEF DebtConserved
  <2>2. QED
    BY <1>6, <1>7, <2>1
<1>9. QED
  BY <1>5, <1>8 DEF NeverShort

\* Whatever repayments, reschedules, late decisions and overdue jobs overlap, nothing is
\* shown as paid that the ledger did not receive, and no debt disappears: what double
\* work can do is to leave the client owing more.
THEOREM BooksNeverShort == ASSUME RepaymentKeys PROVE Spec => []NeverShort
BY ShortFollows, DebtAddsUp, LoanInvariant, TypeInvariant, OverlapInvariant, TakenInvariant,
   RowsInvariant, PTL

\* The installments linked to a repayment nobody interfered with are those it took.
LEMMA BookletFollows ==
  ASSUME LoanInv, TypeInv, OverlapInv, TakenInv, OwnRows, LinkInv
  PROVE  BookletMatchesLedger
<1>1. /\ \A s \in Requests : plan[s] \in SUBSET Numbers /\ DueOf[s] = Due(sched, plan[s])
      /\ Repayments \in SUBSET Requests
      /\ \A i \in Numbers : sched[i].due \in Nat
  BY DueOfNat, TakersAre
<1>2. ASSUME NEW s \in Repayments, TookAlone(s), NEW i \in plan[s]
      PROVE  sched[i].status = "PAID" /\ sched[i].paidBy = s
  <2>1. i \in Numbers /\ s \in Takers /\ Kind(s) = "repay" /\ s \in Requests
    BY <1>1, TakersAre DEF Takers
  <2>2. \A t \in Takers : i \in plan[t] => t = s
    BY <1>2 DEF TookAlone
  <2>3. Settled(i)
    BY <2>1 DEF TakenInv, Taken
  <2>4. sched[i].status = "PAID"
    BY <2>1, <2>2, <2>3 DEF TakenInv, Settled
  <2>5. QED
    BY <2>1, <2>2, <2>4 DEF LinkInv
<1>3. ASSUME NEW s \in Repayments, TookAlone(s)
      PROVE  Due(sched, {i \in Numbers : sched[i].status = "PAID" /\ sched[i].paidBy = s})
               = ledger[s].amount
  <2>1. {i \in Numbers : sched[i].status = "PAID" /\ sched[i].paidBy = s} = plan[s]
    BY <1>1, <1>2, <1>3 DEF LinkInv
  <2>2. Due(sched, plan[s]) = Op[s].amount
    BY <1>1, TakersAre DEF OverlapInv, OverlapOf, RepayingOf, Takers
  <2>3. QED
    BY <2>1, <2>2, RepaymentRows
<1>4. ASSUME \A s \in Repayments : TookAlone(s)
      PROVE  AmountPaid = Repaid
  <2>1. Apart(plan, Repayments)
    BY <1>4, TakersAre DEF TookAlone, Apart
  <2>2. Due(sched, AllOf(plan, Repayments)) = SumOf(DueOf, Repayments)
    BY <1>1, <2>1, UnionDue
  <2>3. {i \in Numbers : sched[i].status = "PAID"} = AllOf(plan, Repayments)
    <3>1. \A s \in Repayments : \A i \in plan[s] : i \in Numbers /\ sched[i].status = "PAID"
      BY <1>1, <1>2, <1>4
    <3>2. \A i \in Numbers : sched[i].status = "PAID" =>
            \E s \in Repayments : i \in plan[s]
      BY TakersAre DEF TakenInv
    <3>3. QED
      BY <3>1, <3>2 DEF AllOf
  <2>4. AmountPaid = Due(sched, AllOf(plan, Repayments))
    BY <2>3 DEF AmountPaid
  <2>5. QED
    BY <2>2, <2>4, TakersSums
<1>5. QED
  BY <1>3, <1>4 DEF BookletMatchesLedger

\* The booklet a client sees and the rows the ledger holds say the same of every
\* repayment whose installments no other request took.
THEOREM BookletMatches == ASSUME RepaymentKeys PROVE Spec => []BookletMatchesLedger
BY BookletFollows, LoanInvariant, TypeInvariant, OverlapInvariant, TakenInvariant,
   RowsInvariant, LinkInvariant, PTL

-----------------------------------------------------------------------------
(***************************************************************************)
(* Waiting in a circle.  Who is waited for holds a key, installments or    *)
(* the loan.  Whoever has written the loan only has to commit; a           *)
(* disbursement and a reschedule exclude each other by the numbers of the  *)
(* first installments; a repayment waits for a higher number than those    *)
(* it holds.                                                               *)
(***************************************************************************)

\* What r holds when another request waits for it, at the points where r itself waits.
LEMMA WaitedFor ==
  ASSUME LoanInv, OverlapInv, NEW q \in Requests, NEW r \in Requests, WaitsFor(q, r),
         pc[r] \in {"insert", "pay", "cancel", "overdue", "schedule", "append", "decide",
                    "disburse", "close"}
  PROVE  /\ pc[q] \notin {"decide", "disburse", "close"}
         /\ Held(r) # {} \/ pc[r] \in {"pay", "disburse", "close"}
         /\ pc[r] = "insert" => pc[q] # "insert"
<1>1. loanWrite[r] = None
  BY DEF OverlapInv, OverlapOf, CommitterOf
<1>2. HoldsKey(r, Op[q].key) => pc[r] \in {"pay", "disburse", "close"}
  BY DEF HoldsKey, RowLifecycle
<1>3. QED
  BY <1>1, <1>2 DEF WaitsFor

LEMMA Waits ==
  ASSUME NEW r \in Requests, NEW s \in Requests, WaitsFor(r, s)
  PROVE  pc[r] \in {"insert", "pay", "cancel", "overdue", "schedule", "append", "decide",
                    "disburse", "close"}
BY DEF WaitsFor

\* A request that has inserted the first installments shares the loan with none that took
\* some.
LEMMA NoneTakenYet ==
  ASSUME LoanInv, GapInv, DisburseInv, NEW r \in Requests, pc[r] = "insert",
         Kind(r) = "disburse"
  PROVE  \A i \in Numbers : ~Exists(sched, i)
<1>1. ~Exists(sched, 1)
  BY DEF DisburseInv
<1>2. QED
  BY <1>1, FirstNumber, LoansAssumption DEF GapInv, NumbersHaveNoGap, Numbers

LEMMA CirclesFollow ==
  ASSUME LoanInv, TypeInv, GapInv, DisburseInv, OverlapInv
  PROVE  CirclesNeedReschedule
<1> SUFFICES ASSUME NEW S \in SUBSET Waiting, Circle(S),
                    \A r \in S : ~(pc[r] = "cancel" /\ Held(r) # {})
             PROVE  FALSE
  BY DEF CirclesNeedReschedule
<1>1. S \subseteq Requests /\ S # {}
  BY DEF Waiting, Circle
<1>2. \A r \in S : \E s \in S : WaitsFor(r, s)
  BY DEF Circle
<1>3. \A r \in S : \E q \in S : WaitsFor(q, r)
  BY DEF Circle
<1>4. \A r \in S :
        pc[r] \in {"insert", "pay", "cancel", "overdue", "schedule", "append", "decide",
                   "disburse", "close"}
  BY <1>1, <1>2, Waits
<1>5. \A q, r \in S : WaitsFor(q, r) =>
        /\ pc[q] \notin {"decide", "disburse", "close"}
        /\ Held(r) # {} \/ pc[r] \in {"pay", "disburse", "close"}
        /\ pc[r] = "insert" => pc[q] # "insert"
  BY <1>1, <1>4, WaitedFor
<1>6. \A r \in S : pc[r] \notin {"decide", "disburse", "close"}
  BY <1>2, <1>5
<1>7. \A r \in S : Held(r) # {} \/ pc[r] = "pay"
  BY <1>3, <1>5, <1>6
<1>8. \A r \in S : pc[r] \in {"insert", "pay", "append"}
  <2>1. \A r \in S : pc[r] \in {"overdue", "schedule"} => Held(r) = {}
    BY <1>1 DEF OverlapInv, OverlapOf, FreshOf, Fresh, Keeps, Held
  <2>2. QED
    BY <1>4, <1>6, <1>7, <2>1
<1>9. \A r \in S : pc[r] \in {"pay", "append"} => \A i \in Held(r) : Exists(sched, i)
  BY <1>1 DEF OverlapInv, OverlapOf, RepayingOf, ReschedulingOf, Retaken, Retaking,
     KindPoints, PlanInv
<1>10. \A r \in S : pc[r] = "insert" => \A i \in Numbers : ~Exists(sched, i)
  <2>1. \A r \in S : pc[r] = "insert" => Kind(r) = "disburse"
    <3>1. \A r \in S : pc[r] = "insert" /\ Kind(r) = "repay" => Held(r) = {}
      BY <1>1 DEF OverlapInv, OverlapOf, FreshOf, Fresh, Keeps, Held
    <3>2. QED
      BY <1>1, <1>7, <3>1 DEF KindPoints
  <2>2. QED
    BY <1>1, <2>1, NoneTakenYet
<1>11. \A r \in S : pc[r] # "append"
  <2> SUFFICES ASSUME NEW r \in S, pc[r] = "append" PROVE FALSE
    OBVIOUS
  <2>1. PICK s \in S : WaitsFor(r, s)
    BY <1>2
  <2>2. PICK i \in Held(s) : ~Exists(sched, i)
    BY <2>1 DEF WaitsFor
  <2>3. pc[s] = "insert"
    BY <1>8, <1>9, <2>2
  <2>4. \E j \in Numbers : Exists(sched, j)
    <3>1. Kind(r) = "reschedule" /\ plan[r] \subseteq Numbers
      BY <1>1 DEF KindPoints, TypeInv, TypeOK
    <3>2. plan[r] # {}
      BY <1>1, <3>1 DEF OverlapInv, OverlapOf, ReschedulingOf
    <3>3. QED
      BY <1>1, <3>1, <3>2 DEF PlanInv
  <2>5. QED
    BY <1>10, <2>3, <2>4
<1>12. \A r \in S : pc[r] = "pay"
  <2> SUFFICES ASSUME NEW r \in S, pc[r] = "insert" PROVE FALSE
    BY <1>8, <1>11
  <2>1. PICK q \in S : WaitsFor(q, r)
    BY <1>3
  <2>2. pc[q] = "pay"
    BY <1>5, <1>8, <1>11, <2>1
  <2>3. PICK i \in Held(r) : InTurn(q, i)
    BY <2>1, <2>2 DEF WaitsFor
  <2>4. i \in Numbers /\ i \in plan[q]
    BY <2>3 DEF InTurn, Left, Held
  <2>5. Exists(sched, i)
    BY <1>1, <2>4 DEF PlanInv
  <2>6. QED
    BY <1>10, <2>4, <2>5
<1> DEFINE Turns == {i \in Numbers : \E r \in S : InTurn(r, i)}
<1>13. \A r \in S : \E s \in S, i \in Numbers : InTurn(r, i) /\ i \in Held(s)
  <2> SUFFICES ASSUME NEW r \in S
               PROVE  \E s \in S, i \in Numbers : InTurn(r, i) /\ i \in Held(s)
    OBVIOUS
  <2>1. PICK s \in S : WaitsFor(r, s)
    BY <1>2
  <2>2. \E i \in Held(s) : InTurn(r, i)
    BY <1>12, <2>1 DEF WaitsFor
  <2>3. Held(s) \subseteq Numbers
    BY DEF Held
  <2>4. QED
    BY <2>2, <2>3
<1>14. Turns # {} /\ IsFiniteSet(Turns) /\ \A i \in Numbers : i \in Int
  <2>1. \E r \in S : TRUE
    BY <1>1
  <2>2. Turns # {}
    BY <1>13, <2>1
  <2>3. Turns \in SUBSET Numbers
    OBVIOUS
  <2> HIDE DEF Turns
  <2>4. QED
    BY <2>2, <2>3, NumbersFinite, LoansAssumption DEF Numbers
<1>15. PICK m \in Turns : \A i \in Turns : i <= m
  <2>1. Turns # {} /\ IsFiniteSet(Turns) /\ \A i \in Turns : i \in Int
    BY <1>14
  <2> HIDE DEF Turns
  <2>2. QED
    BY ONLY <2>1, MaxInt
<1>16. PICK r \in S : InTurn(r, m)
  OBVIOUS
<1>17. PICK s \in S : m \in Held(s)
  <2>1. PICK s \in S, i \in Numbers : InTurn(r, i) /\ i \in Held(s)
    BY <1>13
  <2>2. i <= m /\ m <= i /\ i \in Int /\ m \in Int
    BY <1>14, <1>16, <2>1 DEF InTurn
  <2>3. i = m
    BY <2>2
  <2>4. QED
    BY <2>1, <2>3
<1>18. PICK j \in Numbers : InTurn(s, j)
  BY <1>13
<1>19. m < j
  <2>1. j \in Left(s) /\ s \in Requests /\ pc[s] = "pay" /\ Kind(s) = "repay"
    BY <1>1, <1>12, <1>18 DEF InTurn, KindPoints
  <2>2. QED
    BY <1>17, <2>1 DEF OverlapInv, OverlapOf, RepayingOf
<1>20. j <= m
  BY <1>15, <1>18
<1>21. QED
  BY <1>14, <1>19, <1>20

\* Whatever disbursements, repayments and reschedules overlap, they wait for each other
\* in a circle only around a reschedule that holds some of its installments and waits
\* for others.
THEOREM CirclesOnlyAroundReschedules == Spec => []CirclesNeedReschedule
BY CirclesFollow, LoanInvariant, TypeInvariant, GapInvariant, DisburseInvariant,
   OverlapInvariant, PTL
=============================================================================
