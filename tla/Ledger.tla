------------------------------- MODULE Ledger -------------------------------
(***************************************************************************)
(* What the transactions table promises to everything that reads it: the   *)
(* statement of a client, the monthly report, the receipt worker.  A row   *)
(* is posted once, under an idempotency key no other row has; afterwards   *)
(* nothing about it changes except that a deposit or a withdrawal may be   *)
(* cancelled, for good.                                                    *)
(***************************************************************************)
CONSTANTS Ids,      \* the rows that may ever be posted
          Keys,     \* idempotency keys
          Clients,
          Amounts,
          NoRow     \* stands for a row that was never posted

VARIABLE ledger

-----------------------------------------------------------------------------

\* The two statuses of a row (enum TransactionStatus).
Statuses == {"COMPLETED", "CANCELLED"}

\* The six movements of enum TransactionType.
Types == {"DEPOSIT", "WITHDRAWAL", "LOAN_DISBURSEMENT", "LOAN_REPAYMENT",
          "TONTINE_COLLECTION", "TONTINE_PAYOUT"}

\* Only these may be cancelled.
Reversible == {"DEPOSIT", "WITHDRAWAL"}

Rows == [key: Keys, type: Types, amount: Amounts, client: Clients,
         status: Statuses]

Posted(id) == ledger[id] # NoRow

LedgerTypeOK == ledger \in [Ids -> Rows \cup {NoRow}]

LedgerInit == ledger = [id \in Ids |-> NoRow]

\* A new completed row under a key of its own.
Post(id) ==
  /\ ~Posted(id)
  /\ ledger'[id] \in Rows
  /\ ledger'[id].status = "COMPLETED"
  /\ \A other \in Ids : Posted(other) => ledger[other].key # ledger'[id].key
  /\ ledger' = [ledger EXCEPT ![id] = ledger'[id]]

\* A reversible row is cancelled; nothing else about it changes.
Cancel(id) ==
  /\ Posted(id)
  /\ ledger[id].type \in Reversible
  /\ ledger' = [ledger EXCEPT ![id].status = "CANCELLED"]

LedgerNext == \E id \in Ids : Post(id) \/ Cancel(id)

LedgerSpec == LedgerInit /\ [][LedgerNext]_ledger
=============================================================================
