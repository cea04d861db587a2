------------------------------ MODULE Savings -------------------------------
(***************************************************************************)
(* Savings accounts: deposit and withdraw of SavingsService, the savings   *)
(* side of TransactionsService (cancelTransaction, POST /transactions) and *)
(* the monthly interest job, run concurrently.                             *)
(*                                                                         *)
(* Besides the rows of Transactions, what a request does to a balance      *)
(* stays private (delta) until it commits; meanwhile it holds the lock of  *)
(* the account row it wrote or read FOR UPDATE.  Any transaction in flight *)
(* may roll back: Prisma gives it five seconds, a connection may drop, the *)
(* process may crash.                                                      *)
(***************************************************************************)
EXTENDS Transactions

CONSTANTS
  Accounts,
  Owner,           \* [Accounts -> Clients]: the client an account is opened for
  InterestWorkers, \* interest jobs that run at a time: one per Node process
  RateNum, RateDen \* savings.interest_rate, as a fraction

VARIABLES
  opened,     \* accounts that exist; all are ACTIVE, nothing closes one
  balance,    \* committed balance of each account, in cents
  lock,       \* request that holds the row lock of each account
  delta,      \* balance change a request made and has not committed
  acct, amt   \* account and amount a request works with

dbVars == <<opened, removed, balance, ledger>>
txVars == <<lock, draft, delta>>
locals == <<row, acct, amt>>
vars   == <<dbVars, txVars, pc, locals>>

-----------------------------------------------------------------------------
(* Requests *)

Kinds == {"deposit", "withdraw", "interest", "cancel", "post"}

\* A deposit, withdrawal or interest job names an account; a post is a call of
\* POST /transactions, which creates a row of any type and touches no account.
OpType == [kind: Kinds, account: Accounts, type: L!Types, amount: Int,
           key: Keys]

ASSUME SavingsAssumption ==
  /\ IsFiniteSet(Accounts)
  /\ Owner \in [Accounts -> Clients]
  /\ Op \in [Requests -> OpType]
  /\ InterestWorkers \in Nat \ {0}
  /\ RateNum \in Nat /\ RateDen \in Nat \ {0}

\* The DTOs validate IsPositive on every amount a caller sends, and each
\* service passes its own transaction type.
ASSUME RequestAssumption ==
  \A r \in Requests :
    /\ Kind(r) \in {"deposit", "withdraw", "post"} => Op[r].amount > 0
    /\ Kind(r) \in {"deposit", "interest"} => Op[r].type = "DEPOSIT"
    /\ Kind(r) = "withdraw" => Op[r].type = "WITHDRAWAL"

Points == {"idle", "already", "find", "insert", "account", "update", "mark",
           "commit", "done", "failed"}

-----------------------------------------------------------------------------
(* The database *)

LockFree(r, a) == lock[a] \in {None, r}

\* SELECT ... FOR UPDATE takes the lock of the row it reads.
ForUpdate_Plain(r) == UNCHANGED lock
ForUpdate(r) == lock' = [lock EXCEPT ![acct[r]] = r]

\* Roll back: private writes are dropped and locks released.
Rollback(r) ==
  /\ Goto(r, "failed")
  /\ DropDraft(r)
  /\ delta' = [delta EXCEPT ![r] = 0]
  /\ lock' = [a \in Accounts |-> IF lock[a] = r THEN None ELSE lock[a]]
  /\ UNCHANGED <<dbVars, locals>>

Init ==
  /\ TransactionsInit
  /\ opened = {}
  /\ balance = [a \in Accounts |-> 0]
  /\ lock = [a \in Accounts |-> None]
  /\ delta = [r \in Requests |-> 0]
  /\ acct = [r \in Requests |-> Op[r].account]
  /\ amt = [r \in Requests |-> Op[r].amount]

-----------------------------------------------------------------------------
(* Accounts and clients *)

\* openAccount, for a client that is not deleted.  A client may own several.
OpenAccount(a) ==
  /\ a \notin opened
  /\ Owner[a] \notin removed
  /\ opened' = opened \cup {a}
  /\ UNCHANGED <<removed, balance, ledger, txVars, pc, locals>>

ClientChanges(c) ==
  /\ SoftDelete(c) \/ Reactivate(c)
  /\ UNCHANGED <<opened, balance, ledger, txVars, pc, locals>>

-----------------------------------------------------------------------------
(* How each operation begins *)

\* deposit reads the account without a lock.
DepositRead(r) ==
  /\ Starts(r, "deposit")
  /\ Goto(r, IF acct[r] \in opened THEN "find" ELSE "failed")
  /\ UNCHANGED <<dbVars, txVars, locals>>

\* withdraw reads it FOR UPDATE: the statement waits for the row lock, then
\* sees the latest committed balance.
WithdrawRead(r) ==
  /\ Starts(r, "withdraw")
  /\ LockFree(r, acct[r])
  /\ IF acct[r] \in opened /\ balance[acct[r]] >= amt[r]
     THEN ForUpdate(r) /\ Goto(r, "find")
     ELSE UNCHANGED lock /\ Goto(r, "failed")
  /\ UNCHANGED <<dbVars, draft, delta, locals>>

\* Balance times rate, rounded to the two decimals of the column.
Interest(b) == (2 * b * RateNum + RateDen) \div (2 * RateDen)

\* The interest job reads the account without a lock and keeps its balance.
InterestRead(r) ==
  /\ Starts(r, "interest")
  /\ Cardinality({s \in Requests : Kind(s) = "interest" /\ InFlight(s)})
       < InterestWorkers
  /\ IF acct[r] \in opened
     THEN /\ Goto(r, "already")
          /\ amt' = [amt EXCEPT ![r] = balance[acct[r]]]
     ELSE Goto(r, "done") /\ UNCHANGED amt
  /\ UNCHANGED <<dbVars, txVars, row, acct>>

\* It gives up when this month's row exists or no interest is due, before rounding.
AlreadyProcessed_Unchecked(r) == FALSE
AlreadyProcessed(r) == ~KeyFree(r)

InterestCheck(r) ==
  /\ pc[r] = "already"
  /\ Goto(r, IF AlreadyProcessed(r) \/ amt[r] * RateNum <= 0 THEN "done" ELSE "find")
  /\ amt' = [amt EXCEPT ![r] = Interest(amt[r])]
  /\ UNCHANGED <<dbVars, txVars, row, acct>>

PostRead(r) ==
  /\ Starts(r, "post")
  /\ Goto(r, "find")
  /\ UNCHANGED <<dbVars, txVars, locals>>

\* cancelTransaction looks its row up by id; an id that has no row, is already
\* cancelled or is not of a savings type is refused.
Cancellable_AnyType(t) == Posted(t) /\ ledger[t].status = "COMPLETED"
Cancellable(t) ==
  /\ Posted(t)
  /\ ledger[t].status = "COMPLETED"
  /\ ledger[t].type \in L!Reversible

CancelRead(r) ==
  /\ Starts(r, "cancel")
  /\ \E t \in Requests :
       IF Cancellable(t)
       THEN Goto(r, "account") /\ row' = [row EXCEPT ![r] = t]
       ELSE Goto(r, "failed") /\ UNCHANGED row
  /\ UNCHANGED <<dbVars, txVars, acct, amt>>

\* It then takes an active account of the row's client: the first one found,
\* without a lock, whichever account the row was about.  A deposit is not
\* reversed when the balance just read does not cover it.
CancelAccount(r) ==
  LET t == ledger[row[r]]
      found == {a \in opened : Owner[a] = t.client}
      short(a) == t.type = "DEPOSIT" /\ balance[a] < t.amount
  IN /\ pc[r] = "account"
     /\ \/ found = {} /\ Goto(r, "failed") /\ UNCHANGED acct
        \/ \E a \in found :
             IF short(a)
             THEN Goto(r, "failed") /\ UNCHANGED acct
             ELSE Goto(r, "update") /\ acct' = [acct EXCEPT ![r] = a]
     /\ UNCHANGED <<dbVars, txVars, row, amt>>

-----------------------------------------------------------------------------
(* createTransaction *)

AccountRow(r) == NewRow(r, Op[r].type, Owner[Op[r].account], amt[r])

\* A post stops here when its key has a row: it is answered with that row.
FindExisting(r) ==
  /\ pc[r] = "find"
  /\ \/ /\ ReturnExisting(r)
        /\ Goto(r, IF Kind(r) = "post" THEN "done" ELSE "update")
        /\ UNCHANGED <<dbVars, txVars, acct, amt>>
     \/ /\ KeyFree(r) /\ MayPost(r, Owner[Op[r].account])
        /\ Goto(r, "insert")
        /\ UNCHANGED <<dbVars, txVars, locals>>
     \/ /\ KeyFree(r) /\ ~MayPost(r, Owner[Op[r].account])
        /\ Rollback(r)

\* A post runs outside a transaction: its row is committed and it is answered.
Insert(r) ==
  /\ pc[r] = "insert"
  /\ ~InsertWaits(r)
  /\ \/ ~KeyFree(r) /\ Rollback(r)
     \/ /\ KeyFree(r)
        /\ IF Kind(r) = "post"
           THEN InsertCommitted(r, AccountRow(r)) /\ Goto(r, "done")
           ELSE InsertDraft(r, AccountRow(r)) /\ Goto(r, "update")
        /\ UNCHANGED <<opened, removed, balance, lock, delta, acct, amt>>

-----------------------------------------------------------------------------
(* Balance, status and commit *)

\* What the operation does to the balance.  Deposits, withdrawals and interest
\* apply their own amount whether or not createTransaction created the row.
Effect(r) ==
  CASE Kind(r) = "withdraw" -> -amt[r]
    [] Kind(r) = "cancel" -> IF ledger[row[r]].type = "DEPOSIT"
                             THEN -ledger[row[r]].amount
                             ELSE ledger[row[r]].amount
    [] OTHER -> amt[r]

\* The balance is updated through the caller's transaction, which its own FOR
\* UPDATE does not stop.
UpdateWaits_OutsideTransaction(r) == lock[acct[r]] # None
UpdateWaits(r) == ~LockFree(r, acct[r])

UpdateBalance(r) ==
  /\ pc[r] = "update"
  /\ ~UpdateWaits(r)
  /\ lock' = [lock EXCEPT ![acct[r]] = r]
  /\ delta' = [delta EXCEPT ![r] = Effect(r)]
  /\ Goto(r, IF Kind(r) = "cancel" THEN "mark" ELSE "commit")
  /\ UNCHANGED <<dbVars, draft, locals>>

\* A cancellation that set the status of its row holds the row.
HoldsRow(s, t) == Kind(s) = "cancel" /\ pc[s] = "commit" /\ row[s] = t

\* cancelTransaction sets the status by id, once nobody else holds the row.
MarkCancelled(r) ==
  /\ pc[r] = "mark"
  /\ \A s \in Requests \ {r} : ~HoldsRow(s, row[r])
  /\ Goto(r, "commit")
  /\ UNCHANGED <<dbVars, txVars, locals>>

\* The committed ledger after r.
Published(r) ==
  IF Kind(r) = "cancel" THEN [ledger EXCEPT ![row[r]].status = "CANCELLED"]
  ELSE WithDraft(r)

Commit(r) ==
  /\ pc[r] = "commit"
  /\ Goto(r, "done")
  /\ balance' = [balance EXCEPT ![acct[r]] = @ + delta[r]]
  /\ ledger' = Published(r)
  /\ DropDraft(r)
  /\ delta' = [delta EXCEPT ![r] = 0]
  /\ lock' = [a \in Accounts |-> IF lock[a] = r THEN None ELSE lock[a]]
  /\ UNCHANGED <<opened, removed, locals>>

\* Timeout, lost connection or crash: the database rolls back.
Abort(r) == InFlight(r) /\ Rollback(r)

-----------------------------------------------------------------------------
(* Who waits for whom *)

\* The statement r is at needs what s holds.  (A withdrawal that waits for its first
\* lock holds nothing yet, so it closes no circle.)
WaitsFor(r, s) ==
  /\ r # s
  /\ \/ pc[r] = "insert" /\ HoldsKey(s, Op[r].key)
     \/ pc[r] = "update" /\ lock[acct[r]] = s
     \/ pc[r] = "mark" /\ HoldsRow(s, row[r])

\* Requests each of which waits for one of them and is waited for by one of them.
Circle(S) ==
  /\ S # {}
  /\ \A r \in S : /\ \E s \in S : WaitsFor(r, s)
                  /\ \E s \in S : WaitsFor(s, r)

\* PostgreSQL finds transactions that wait in a circle and rolls one of them back.
BreakCircle ==
  \E S \in SUBSET Requests : Circle(S) /\ \E r \in S : Abort(r)

-----------------------------------------------------------------------------

Arrive(r) == \/ DepositRead(r) \/ WithdrawRead(r) \/ InterestRead(r)
             \/ PostRead(r) \/ CancelRead(r)

Proceed(r) == \/ InterestCheck(r) \/ CancelAccount(r) \/ FindExisting(r)
              \/ Insert(r) \/ UpdateBalance(r) \/ MarkCancelled(r) \/ Commit(r)

Next == \/ \E a \in Accounts : OpenAccount(a)
        \/ \E c \in Clients : ClientChanges(c)
        \/ \E r \in Requests : Arrive(r) \/ Proceed(r) \/ Abort(r)

Spec == Init /\ [][Next]_vars

\* A request that was received goes on by itself: Node resumes it whenever the
\* database answers, and the database breaks circles.  Nothing else makes a transaction
\* abort, and nothing makes a request arrive.
Fairness == WF_vars(BreakCircle) /\ \A r \in Requests : WF_vars(Proceed(r))
FairSpec == Spec /\ Fairness

-----------------------------------------------------------------------------
(* Properties *)

TypeOK ==
  /\ TransactionsTypeOK
  /\ opened \subseteq Accounts
  /\ balance \in [Accounts -> Int]
  /\ lock \in [Accounts -> Requests \cup {None}]
  /\ delta \in [Requests -> Int]
  /\ pc \in [Requests -> Points]
  /\ acct \in [Requests -> Accounts]
  /\ amt \in [Requests -> Int]

Commits(r) == pc[r] = "commit" /\ pc'[r] = "done"

Signed(t) == IF t.type = "DEPOSIT" THEN t.amount ELSE -t.amount

\* The operations that book a row and move a balance by its amount.
Moving == {"deposit", "withdraw", "interest"}

\* The rows of client c that such operations booked, cancelled since or not.
Booked(c) ==
  {s \in Requests : Kind(s) \in Moving /\ Posted(s) /\ ledger[s].client = c}

\* The client a call is for: the owner of its account, or of the row it cancels.
ServedClient(r) ==
  IF Kind(r) = "cancel" THEN ledger[row[r]].client ELSE Owner[Op[r].account]

\* The calls that moved a balance of client c and booked no row of their own: those
\* answered with the row they found under their key, and the cancellations.
Unbooked(c) ==
  {r \in Requests :
     /\ pc[r] = "done" /\ row[r] \notin {None, r}
     /\ Kind(r) \in Moving \cup {"cancel"}
     /\ ServedClient(r) = c}

ClientBalance(c) == SumOf(balance, {a \in Accounts : Owner[a] = c})

\* What a client owns is what the ledger and the calls account for, to the cent and at
\* every instant, whatever overlaps, is sent twice or rolls back: the rows booked for
\* it, plus what calls answered with somebody else's row moved again, less one reversal
\* for each cancellation answered; and a row is CANCELLED exactly when one was.  (The
\* account update and the row are one $transaction in deposit, withdraw,
\* cancelTransaction and the interest job.)
BalanceMatchesLedger ==
  /\ \A c \in Clients :
       ClientBalance(c) =
         SumOf([s \in Booked(c) |-> Signed(ledger[s])], Booked(c))
           + SumOf([r \in Unbooked(c) |-> Effect(r)], Unbooked(c))
  /\ \A s \in Requests :
       Posted(s) => (ledger[s].status = "CANCELLED" <=>
         \E r \in Requests : Kind(r) = "cancel" /\ pc[r] = "done" /\ row[r] = s)

\* A withdrawal leaves a balance that covers it: between FOR UPDATE and the
\* commit nobody moves the account, so concurrent withdrawals cannot spend the
\* same money (savings-concurrency.e2e-spec.ts).
WithdrawalCovered ==
  [][\A r \in Requests :
       Kind(r) = "withdraw" /\ Commits(r) => balance'[acct[r]] >= 0]_vars

\* An answer is backed by committed rows: a deposit, withdrawal or post answered
\* with success has a row under its key in the ledger, also when the row was
\* somebody else's, and a row whose cancellation was answered is cancelled.
AcknowledgedIsPosted ==
  \A r \in Requests :
    pc[r] = "done" /\ Kind(r) # "interest" =>
      /\ row[r] # None /\ Posted(row[r])
      /\ IF Kind(r) = "cancel" THEN ledger[row[r]].status = "CANCELLED"
                               ELSE ledger[row[r]].key = Op[r].key

\* One monthly interest per account: of two executions of the job for the same
\* account and month, one is ignored (interest.processor.ts:33-39).
InterestOncePerMonth ==
  \A r, s \in Requests :
    /\ Kind(r) = "interest" /\ Kind(s) = "interest" /\ Op[r].key = Op[s].key
    /\ pc[r] = "done" /\ pc[s] = "done" /\ row[r] # None /\ row[s] # None
    => r = s

\* A call whose idempotency key already has a row changes no balance
\* (schema.prisma: the key avoids duplicates when a call is sent twice).
RetryHasNoEffect ==
  [][\A r \in Requests :
       Commits(r) /\ Kind(r) \in {"deposit", "withdraw"} /\ row[r] # r
         => balance' = balance]_vars

\* A row already cancelled is not cancelled again
\* (transactions.service.spec.ts, cancelTransaction).
CancelledOnce ==
  \A r, s \in Requests :
    /\ Kind(r) = "cancel" /\ Kind(s) = "cancel"
    /\ pc[r] = "done" /\ pc[s] = "done" /\ row[r] = row[s]
    => r = s

\* Requests wait for each other in a circle only when a withdrawal and another of them
\* carry one idempotency key: withdraw locks the account and then the key, deposit and
\* the interest job the key and then the account.  Locks alone never close a circle.
CirclesShareKey ==
  \A S \in SUBSET Requests :
    Circle(S) => \E r, s \in S : /\ r # s /\ Op[r].key = Op[s].key
                                  /\ Kind(r) = "withdraw"

\* Every request that was received is answered (withdraw, deposit, cancelTransaction, the
\* interest job), with a success or a refusal, whatever locks and keys it waits for,
\* as long as the database breaks the circles it can see: a request must not wait for
\* what it holds itself through another connection, which it cannot see.
Answered == \A r \in Requests : []<>~InFlight(r)
=============================================================================
