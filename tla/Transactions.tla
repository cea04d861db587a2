---------------------------- MODULE Transactions ----------------------------
(***************************************************************************)
(* The transactions table and TransactionsService.createTransaction, as    *)
(* the savings, loan and tontine services use them: inside a PostgreSQL    *)
(* transaction at READ COMMITTED, the isolation level Prisma opens its     *)
(* interactive transactions with.                                          *)
(*                                                                         *)
(* A request (an HTTP call or one execution of a queue job) is a process   *)
(* whose atomic steps are its SQL statements.  A statement reads what is   *)
(* committed when it runs.  A row it inserts stays private (draft) until   *)
(* its transaction commits; meanwhile it holds the unique-index entry of   *)
(* the idempotency key.                                                    *)
(*                                                                         *)
(* In this module and those that extend it, a definition Name_Variant is   *)
(* not part of the model: it is Name with the mistake its variant says,    *)
(* kept to see the properties fail.                                        *)
(***************************************************************************)
EXTENDS Integers, FiniteSets, FiniteSetsExt

CONSTANTS
  Clients,
  Keys,       \* idempotency keys
  Requests,   \* requests the system receives, each served once
  Op,         \* what a request asks for: a record with at least kind and key
  InScope,    \* requests whose caller may act for the client (branch, portfolio)
  NoRow, None

VARIABLES
  removed,    \* clients with deletedAt set
  ledger,     \* committed transaction row each request created
  draft,      \* row a request inserted and has not committed
  row,        \* row a request works on: its own, one with its key, or none
  pc          \* control point of each request

L == INSTANCE Ledger WITH Ids <- Requests, Amounts <- Int

Kind(r) == Op[r].kind

ASSUME TransactionsAssumption ==
  /\ \A r \in Requests : Op[r].key \in Keys
  /\ IsFiniteSet(Requests)
  /\ InScope \subseteq Requests
  /\ None \notin Requests
  /\ NoRow \notin L!Rows

\* At "idle" a request has not arrived, at "done" it was answered, at "failed" it
\* was answered with an error and left nothing behind.
InFlight(r) == pc[r] \notin {"idle", "done", "failed"}

Goto(r, point) == pc' = [pc EXCEPT ![r] = point]

Starts(r, kind) == pc[r] = "idle" /\ Kind(r) = kind

\* The sum of f[x], for x in S.
SumOf(f, S) == MapThenSumSet(LAMBDA x : f[x], S)

-----------------------------------------------------------------------------
(* createTransaction *)

Posted(s) == ledger[s] # NoRow
Drafted(s) == draft[s] # NoRow

\* The rows a findUnique on idempotencyKey can return: committed ones only.
FindByKey_Dirty(key) ==
  {s \in Requests : \/ Posted(s) /\ ledger[s].key = key
                    \/ Drafted(s) /\ draft[s].key = key}
FindByKey(key) == {s \in Requests : Posted(s) /\ ledger[s].key = key}

\* A transaction that inserted a row holds the unique-index entry of its key until
\* it ends; its number comes from a sequence, which holds nothing.
HoldsKey_Counter(s, key) == Drafted(s)
HoldsKey(s, key) == Drafted(s) /\ draft[s].key = key

KeyClaimed_Never(r, key) == FALSE
KeyClaimed(r, key) == \E s \in Requests \ {r} : HoldsKey(s, key)

\* The client must exist and be in the caller's scope.
MayPost(r, client) == client \notin removed /\ r \in InScope

NewRow_Pending(r, type, client, amount) ==
  [key |-> Op[r].key, type |-> type, amount |-> amount, client |-> client,
   status |-> "PENDING"]
NewRow(r, type, client, amount) ==
  [key |-> Op[r].key, type |-> type, amount |-> amount, client |-> client,
   status |-> "COMPLETED"]

\* A row with the request's key is returned as it is.
ReturnExisting(r) == \E s \in FindByKey(Op[r].key) : row' = [row EXCEPT ![r] = s]

\* No row has the key: go on if the client may be served, give up otherwise.
KeyFree(r) == FindByKey(Op[r].key) = {}

\* The insert waits while another transaction holds the key, and fails on the
\* unique index if that one committed.
InsertWaits(r) == KeyClaimed(r, Op[r].key)

\* The new row is private until its transaction commits.
InsertDraft_OutsideTransaction(r, t) ==
  /\ row' = [row EXCEPT ![r] = r]
  /\ ledger' = [ledger EXCEPT ![r] = t]
  /\ UNCHANGED draft
InsertDraft(r, t) ==
  /\ row' = [row EXCEPT ![r] = r]
  /\ draft' = [draft EXCEPT ![r] = t]
  /\ UNCHANGED ledger

\* Outside a transaction it is committed at once.
InsertCommitted(r, t) ==
  /\ row' = [row EXCEPT ![r] = r]
  /\ ledger' = [ledger EXCEPT ![r] = t]
  /\ UNCHANGED draft

\* The committed ledger once r commits the row it inserted, if any.
WithDraft(r) == IF Drafted(r) THEN [ledger EXCEPT ![r] = draft[r]] ELSE ledger

DropDraft(r) == draft' = [draft EXCEPT ![r] = NoRow]

-----------------------------------------------------------------------------
(* Clients: soft deletion and its reversal, by an administrator *)

SoftDelete(c) == c \notin removed /\ removed' = removed \cup {c}
Reactivate(c) == c \in removed /\ removed' = removed \ {c}

-----------------------------------------------------------------------------
(* Properties *)

TransactionsTypeOK ==
  /\ removed \subseteq Clients
  /\ L!LedgerTypeOK
  /\ draft \in [Requests -> L!Rows \cup {NoRow}]
  /\ row \in [Requests -> Requests \cup {None}]

TransactionsInit ==
  /\ removed = {}
  /\ ledger = [r \in Requests |-> NoRow]
  /\ draft = [r \in Requests |-> NoRow]
  /\ row = [r \in Requests |-> None]
  /\ pc = [r \in Requests |-> "idle"]

\* No two committed rows share an idempotency key, although createTransaction
\* looks for the key and inserts it in two statements.
KeyOnce ==
  \A r, s \in Requests :
    Posted(r) /\ Posted(s) /\ ledger[r].key = ledger[s].key => r = s

\* The transactions table behaves as the abstract ledger.
LedgerRefined == L!LedgerSpec
=============================================================================
