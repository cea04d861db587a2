---------------------------- MODULE LoanContract -----------------------------
(***************************************************************************)
(* What a loan promises, without its installments, requests or database:   *)
(* it is decided once, handed out once, and every amount received lowers   *)
(* the debt by exactly that amount until it is closed.                     *)
(***************************************************************************)
EXTENDS Integers

CONSTANT Total   \* principal and interest

VARIABLES
  status,
  outstanding,   \* what the borrower still owes
  repaid         \* what the ledger says was received

contract == <<status, outstanding, repaid>>

ContractInit == status = "NONE" /\ outstanding = 0 /\ repaid = 0

Moves(from, to) == status = from /\ status' = to /\ UNCHANGED <<outstanding, repaid>>

Create  == Moves("NONE", "DRAFT")
Submit  == Moves("DRAFT", "PENDING_APPROVAL")
Approve == Moves("PENDING_APPROVAL", "APPROVED")
Reject  == Moves("PENDING_APPROVAL", "REJECTED")

Disburse ==
  /\ status = "APPROVED" /\ status' = "DISBURSED"
  /\ outstanding' = Total
  /\ UNCHANGED repaid

\* The repayment that brings the debt to zero closes the loan.
Repay ==
  /\ status = "DISBURSED"
  /\ repaid' > repaid
  /\ outstanding' = outstanding - (repaid' - repaid)
  /\ outstanding' >= 0
  /\ status' = IF outstanding' = 0 THEN "CLOSED" ELSE status

\* A reschedule may add a penalty, and only to a debt that is left.
Reschedule ==
  /\ status = "DISBURSED" /\ outstanding > 0
  /\ outstanding' >= outstanding
  /\ UNCHANGED <<status, repaid>>

ContractNext == \/ Create \/ Submit \/ Approve \/ Reject
                \/ Disburse \/ Repay \/ Reschedule

ContractSpec == ContractInit /\ [][ContractNext]_contract
=============================================================================
