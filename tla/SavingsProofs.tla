--------------------------- MODULE SavingsProofs ----------------------------
(***************************************************************************)
(* Theorems about Savings for every set of clients, accounts and requests, *)
(* any interest rate and any number of interest workers.                   *)
(***************************************************************************)
EXTENDS Savings, TransactionsProofs

\* Which operations reach which control points.
KindPoints ==
  \A r \in Requests :
    /\ pc[r] = "already" => Kind(r) = "interest"
    /\ pc[r] \in {"find", "insert"} => Kind(r) # "cancel"
    /\ pc[r] \in {"account", "mark"} => Kind(r) = "cancel"
    /\ pc[r] \in {"update", "commit"} => Kind(r) # "post"

\* A cancellation under way works on a committed, reversible row.
CancelTarget ==
  \A r \in Requests :
    Kind(r) = "cancel" /\ pc[r] \in {"account", "update", "mark", "commit"} =>
      /\ row[r] \in Requests
      /\ Posted(row[r])
      /\ ledger[row[r]].type \in L!Reversible

\* A request's own row is private while it updates and commits, and public only
\* once it is answered.
RowLifecycle ==
  \A r \in Requests :
    /\ Posted(r) => pc[r] = "done"
    /\ draft[r] # NoRow => /\ pc[r] \in {"update", "commit"}
                          /\ Kind(r) \notin {"cancel", "post"}
                          /\ row[r] = r
                          /\ draft[r].key = Op[r].key
                          /\ draft[r].status = "COMPLETED"

\* TypeOK is inductive only with the facts above: the type of a row after a
\* cancellation depends on the row having been there.
TypeInv == TypeOK /\ KindPoints /\ CancelTarget /\ RowLifecycle

-----------------------------------------------------------------------------

\* The types of the variables and what a step leaves alone are visible throughout.
USE DEF Posted, Drafted, Kind, Goto, Starts, DropDraft, TypeOK, TransactionsTypeOK,
        L!LedgerTypeOK, dbVars, txVars, locals

LEMMA InterestInt ==
  ASSUME NEW b \in Int
  PROVE  Interest(b) \in Int
BY SavingsAssumption DEF Interest

LEMMA InitType == Init => TypeInv
<1> SUFFICES ASSUME Init PROVE TypeInv
  OBVIOUS
<1>1. TypeOK
  BY SavingsAssumption DEF Init, TransactionsInit, OpType, Points
<1>2. KindPoints /\ CancelTarget /\ RowLifecycle
  BY DEF Init, TransactionsInit, KindPoints, CancelTarget, RowLifecycle, RowLifecycle
<1>3. QED
  BY <1>1, <1>2 DEF TypeInv

LEMMA RollbackType ==
  ASSUME TypeInv, NEW r \in Requests, Rollback(r), pc[r] # "done"
  PROVE  TypeInv'
<1> USE DEF TypeInv
<1>1. TypeOK'
  BY DEF Rollback, Points
<1>2. KindPoints' /\ CancelTarget'
  BY DEF Rollback, KindPoints, CancelTarget
<1>3. RowLifecycle'
  BY DEF Rollback, RowLifecycle
<1>4. QED
  BY <1>1, <1>2, <1>3

LEMMA AccountRowType ==
  ASSUME TypeInv, NEW r \in Requests
  PROVE  /\ AccountRow(r) \in L!Rows
         /\ AccountRow(r) # NoRow
         /\ AccountRow(r).key = Op[r].key
         /\ AccountRow(r).status = "COMPLETED"
<1>1. Op[r].type \in L!Types /\ Owner[Op[r].account] \in Clients /\ amt[r] \in Int
  BY SavingsAssumption DEF TypeInv, OpType
<1>2. QED
  BY <1>1, NewRowType DEF AccountRow

LEMMA ArriveType ==
  ASSUME TypeInv, NEW r \in Requests, Arrive(r)
  PROVE  TypeInv'
<1> USE DEF TypeInv
<1>1. CASE DepositRead(r)
  BY <1>1 DEF DepositRead, Points, KindPoints, CancelTarget, RowLifecycle
<1>2. CASE WithdrawRead(r)
  <2>1. TypeOK'
    BY <1>2 DEF WithdrawRead, ForUpdate, Points
  <2>2. KindPoints' /\ CancelTarget' /\ RowLifecycle'
    BY <1>2 DEF WithdrawRead, KindPoints, CancelTarget, RowLifecycle
  <2>3. QED
    BY <2>1, <2>2
<1>3. CASE InterestRead(r)
  <2>1. TypeOK'
    <3>1. amt' \in [Requests -> Int]
      BY <1>3 DEF InterestRead
    <3>2. QED
      BY <1>3, <3>1 DEF InterestRead, Points
  <2>2. KindPoints' /\ CancelTarget' /\ RowLifecycle'
    BY <1>3 DEF InterestRead, KindPoints, CancelTarget, RowLifecycle
  <2>3. QED
    BY <2>1, <2>2
<1>4. CASE PostRead(r)
  BY <1>4 DEF PostRead, Points, KindPoints, CancelTarget, RowLifecycle
<1>5. CASE CancelRead(r)
  <2>1. TypeOK'
    BY <1>5 DEF CancelRead, Points
  <2>2. KindPoints' /\ CancelTarget' /\ RowLifecycle'
    BY <1>5 DEF CancelRead, Cancellable, KindPoints, CancelTarget, RowLifecycle
  <2>3. QED
    BY <2>1, <2>2
<1>6. QED
  BY <1>1, <1>2, <1>3, <1>4, <1>5 DEF Arrive

\* What a commit does to the table: it cancels a row, posts its own, or nothing.
LEMMA CommitLedger ==
  ASSUME TypeInv, NEW r \in Requests, Commit(r)
  PROVE  \/ /\ Kind(r) = "cancel"
            /\ row[r] \in Requests /\ Posted(row[r])
            /\ ledger[row[r]].type \in L!Reversible
            /\ ledger' = [ledger EXCEPT ![row[r]].status = "CANCELLED"]
         \/ /\ Kind(r) # "cancel"
            /\ ledger' = WithDraft(r)
            /\ Drafted(r) => /\ draft[r] \in L!Rows
                             /\ draft[r].status = "COMPLETED"
                             /\ ~Posted(r)
<1>1. CASE Kind(r) = "cancel"
  BY <1>1 DEF Commit, Published, TypeInv, CancelTarget
<1>2. CASE Kind(r) # "cancel"
  BY <1>2 DEF Commit, Published, TypeInv, RowLifecycle
<1>3. QED
  BY <1>1, <1>2

LEMMA CommitType ==
  ASSUME TypeInv, NEW r \in Requests, Commit(r)
  PROVE  TypeInv'
<1> USE DEF TypeInv
<1>1. /\ L!LedgerTypeOK'
      /\ \A s \in Requests : Posted(s) =>
           Posted(s)' /\ ledger'[s].type = ledger[s].type
      /\ \A s \in Requests : Posted(s)' => Posted(s) \/ s = r
  <2>1. CASE Kind(r) = "cancel"
    BY <2>1, CommitLedger, CancelRow DEF RowsStay
  <2>2. CASE Kind(r) # "cancel"
    BY <2>2, CommitLedger DEF WithDraft
  <2>3. QED
    BY <2>1, <2>2
<1>2. TypeOK'
  <2>1. balance' \in [Accounts -> Int]
    BY DEF Commit
  <2>2. lock' \in [Accounts -> Requests \cup {None}]
    BY DEF Commit
  <2>3. /\ draft' \in [Requests -> L!Rows \cup {NoRow}]
        /\ delta' \in [Requests -> Int]
        /\ pc' \in [Requests -> Points]
    BY DEF Commit, Points
  <2>4. QED
    BY <1>1, <2>1, <2>2, <2>3 DEF Commit
<1>3. KindPoints' /\ CancelTarget'
  BY <1>1 DEF Commit, KindPoints, CancelTarget
<1>4. RowLifecycle'
  BY <1>1 DEF Commit, RowLifecycle
<1>5. QED
  BY <1>2, <1>3, <1>4

LEMMA ProceedType ==
  ASSUME TypeInv, NEW r \in Requests, Proceed(r)
  PROVE  TypeInv'
<1> USE DEF TypeInv
<1>1. CASE InterestCheck(r)
  <2>1. TypeOK'
    BY <1>1, InterestInt DEF InterestCheck, Points
  <2>2. KindPoints' /\ CancelTarget' /\ RowLifecycle'
    BY <1>1 DEF InterestCheck, KindPoints, CancelTarget, RowLifecycle
  <2>3. QED
    BY <2>1, <2>2
<1>2. CASE CancelAccount(r)
  <2>1. TypeOK'
    BY <1>2 DEF CancelAccount, Points
  <2>2. KindPoints' /\ CancelTarget' /\ RowLifecycle'
    BY <1>2 DEF CancelAccount, KindPoints, CancelTarget, RowLifecycle
  <2>3. QED
    BY <2>1, <2>2
<1>3. CASE FindExisting(r)
  <2>1. CASE Rollback(r)
    BY <1>3, <2>1, RollbackType DEF FindExisting
  <2>2. CASE ~Rollback(r)
    <3>1. TypeOK'
      BY <1>3, <2>2 DEF FindExisting, ReturnExisting, FindByKey, Points
    <3>2. KindPoints' /\ CancelTarget' /\ RowLifecycle'
      BY <1>3, <2>2 DEF FindExisting, ReturnExisting, FindByKey, KindPoints, CancelTarget,
         RowLifecycle
    <3>3. QED
      BY <3>1, <3>2
  <2>3. QED
    BY <2>1, <2>2
<1>4. CASE Insert(r)
  <2>1. CASE Rollback(r)
    BY <1>4, <2>1, RollbackType DEF Insert
  <2>2. CASE ~Rollback(r)
    <3>1. /\ pc[r] = "insert"
          /\ row' = [row EXCEPT ![r] = r]
          /\ UNCHANGED <<opened, removed, balance, lock, delta, acct, amt>>
      BY <1>4, <2>2 DEF Insert, InsertCommitted, InsertDraft
    <3>2. \/ /\ Kind(r) = "post"
             /\ ledger' = [ledger EXCEPT ![r] = AccountRow(r)]
             /\ pc' = [pc EXCEPT ![r] = "done"]
             /\ draft' = draft
          \/ /\ Kind(r) # "post"
             /\ ledger' = ledger
             /\ pc' = [pc EXCEPT ![r] = "update"]
             /\ draft' = [draft EXCEPT ![r] = AccountRow(r)]
      BY <1>4, <2>2 DEF Insert, InsertCommitted, InsertDraft
    <3>3. TypeOK'
      <4>1. L!LedgerTypeOK' /\ draft' \in [Requests -> L!Rows \cup {NoRow}]
        BY <3>2, AccountRowType
      <4>2. pc' \in [Requests -> Points]
        BY <3>2 DEF Points
      <4>3. QED
        BY <3>1, <4>1, <4>2
    <3>4. KindPoints' /\ CancelTarget'
      <4>1. \A s \in Requests : Posted(s) =>
              Posted(s)' /\ (s # r => ledger'[s] = ledger[s])
        BY <3>2, AccountRowType
      <4>2. ~Posted(r)
        BY <3>1 DEF RowLifecycle
      <4>3. QED
        BY <3>1, <3>2, <4>1, <4>2 DEF KindPoints, CancelTarget
    <3>5. RowLifecycle'
      BY <3>1, <3>2, AccountRowType DEF KindPoints, RowLifecycle
    <3>6. QED
      BY <3>3, <3>4, <3>5
  <2>3. QED
    BY <2>1, <2>2
<1>5. CASE UpdateBalance(r)
  <2>1. Effect(r) \in Int
    BY <1>5 DEF UpdateBalance, Effect, CancelTarget, L!Rows
  <2>2. TypeOK'
    BY <1>5, <2>1 DEF UpdateBalance, Points
  <2>3. KindPoints' /\ CancelTarget' /\ RowLifecycle'
    BY <1>5 DEF UpdateBalance, KindPoints, CancelTarget, RowLifecycle
  <2>4. QED
    BY <2>2, <2>3
<1>6. CASE MarkCancelled(r)
  <2>1. TypeOK'
    BY <1>6 DEF MarkCancelled, Points
  <2>2. KindPoints' /\ CancelTarget' /\ RowLifecycle'
    BY <1>6 DEF MarkCancelled, KindPoints, CancelTarget, RowLifecycle
  <2>3. QED
    BY <2>1, <2>2
<1>7. CASE Commit(r)
  BY <1>7, CommitType
<1>8. QED
  BY <1>1, <1>2, <1>3, <1>4, <1>5, <1>6, <1>7 DEF Proceed

LEMMA NextType == TypeInv /\ [Next]_vars => TypeInv'
<1> SUFFICES ASSUME TypeInv, [Next]_vars PROVE TypeInv'
  OBVIOUS
<1>1. ASSUME NEW a \in Accounts, OpenAccount(a) PROVE TypeInv'
  BY <1>1 DEF OpenAccount, TypeInv, KindPoints, CancelTarget, RowLifecycle
<1>2. ASSUME NEW c \in Clients, ClientChanges(c)
      PROVE  TypeInv'
  BY <1>2 DEF ClientChanges, SoftDelete, Reactivate, TypeInv, KindPoints, CancelTarget,
     RowLifecycle
<1>3. ASSUME NEW r \in Requests, Arrive(r) \/ Proceed(r) \/ Abort(r)
      PROVE  TypeInv'
  BY <1>3, ArriveType, ProceedType, RollbackType DEF Abort, InFlight
<1>4. CASE UNCHANGED vars
  BY <1>4 DEF vars, TypeInv, KindPoints, CancelTarget, RowLifecycle
<1>5. QED
  BY <1>1, <1>2, <1>3, <1>4 DEF Next

\* Every variable keeps its type: in particular amounts stay integers, rows keep
\* the columns of the table, and a cancellation never touches a missing row.
THEOREM TypeCorrect == Spec => []TypeOK
<1>1. Init => TypeInv
  BY InitType
<1>2. TypeInv /\ [Next]_vars => TypeInv'
  BY NextType
<1>3. TypeInv => TypeOK
  BY DEF TypeInv
<1>4. QED
  BY <1>1, <1>2, <1>3, PTL DEF Spec

LEMMA TypeInvariant == Spec => []TypeInv
BY InitType, NextType, PTL DEF Spec

-----------------------------------------------------------------------------
(***************************************************************************)
(* Row locks.  Whoever is about to commit a balance holds its row, and a   *)
(* withdrawal holds it since it read the balance.                          *)
(***************************************************************************)

LockInv ==
  \A r \in Requests :
    /\ pc[r] \in {"mark", "commit"} => lock[acct[r]] = r
    /\ Kind(r) = "withdraw" /\ pc[r] \in {"find", "insert", "update", "commit"} =>
         lock[acct[r]] = r /\ balance[acct[r]] >= amt[r]
    /\ Kind(r) = "withdraw" /\ pc[r] = "commit" => delta[r] = -amt[r]

LEMMA RollbackLock ==
  ASSUME TypeInv, LockInv, NEW r \in Requests, Rollback(r)
  PROVE  LockInv'
BY TransactionsAssumption DEF TypeInv, LockInv, Rollback

LEMMA ArriveLock ==
  ASSUME TypeInv, LockInv, NEW r \in Requests, Arrive(r)
  PROVE  LockInv'
<1> USE DEF TypeInv, LockInv
<1>1. CASE DepositRead(r)
  BY <1>1 DEF DepositRead
<1>2. CASE WithdrawRead(r)
  BY <1>2, TransactionsAssumption DEF WithdrawRead, ForUpdate, LockFree
<1>3. CASE InterestRead(r)
  BY <1>3 DEF InterestRead
<1>4. CASE PostRead(r)
  BY <1>4 DEF PostRead
<1>5. CASE CancelRead(r)
  BY <1>5 DEF CancelRead
<1>6. QED
  BY <1>1, <1>2, <1>3, <1>4, <1>5 DEF Arrive

LEMMA ProceedLock ==
  ASSUME TypeInv, LockInv, NEW r \in Requests, Proceed(r)
  PROVE  LockInv'
<1> USE DEF TypeInv, LockInv
<1>1. CASE InterestCheck(r)
  BY <1>1 DEF InterestCheck, KindPoints
<1>2. CASE CancelAccount(r)
  BY <1>2 DEF CancelAccount, KindPoints
<1>3. CASE FindExisting(r)
  <2>1. CASE Rollback(r)
    BY <2>1, RollbackLock
  <2>2. CASE ~Rollback(r)
    BY <1>3, <2>2 DEF FindExisting
  <2>3. QED
    BY <2>1, <2>2
<1>4. CASE Insert(r)
  <2>1. CASE Rollback(r)
    BY <2>1, RollbackLock
  <2>2. CASE ~Rollback(r)
    BY <1>4, <2>2 DEF Insert, InsertDraft, InsertCommitted
  <2>3. QED
    BY <2>1, <2>2
<1>5. CASE UpdateBalance(r)
  <2>1. Kind(r) = "withdraw" => Effect(r) = -amt[r]
    BY DEF Effect
  <2>2. QED
    BY <1>5, <2>1, TransactionsAssumption DEF UpdateBalance, UpdateWaits, LockFree, KindPoints
<1>6. CASE MarkCancelled(r)
  BY <1>6 DEF MarkCancelled, KindPoints
<1>7. CASE Commit(r)
  BY <1>7, TransactionsAssumption DEF Commit
<1>8. QED
  BY <1>1, <1>2, <1>3, <1>4, <1>5, <1>6, <1>7 DEF Proceed

LEMMA NextLock == TypeInv /\ LockInv /\ [Next]_vars => LockInv'
<1> SUFFICES ASSUME TypeInv, LockInv, [Next]_vars PROVE LockInv'
  OBVIOUS
<1>1. ASSUME NEW r \in Requests, Arrive(r) \/ Proceed(r) \/ Abort(r)
      PROVE  LockInv'
  BY <1>1, ArriveLock, ProceedLock, RollbackLock DEF Abort
<1>2. CASE \/ \E a \in Accounts : OpenAccount(a)
           \/ \E c \in Clients : ClientChanges(c)
           \/ UNCHANGED vars
  BY <1>2 DEF OpenAccount, ClientChanges, LockInv, vars
<1>3. QED
  BY <1>1, <1>2 DEF Next

\* Only a commit moves a balance, and the committer holds the row.
LEMMA CommitCovers ==
  ASSUME TypeInv, LockInv, NEW r \in Requests, Kind(r) = "withdraw", Commits(r),
         [Next]_vars
  PROVE  balance'[acct[r]] >= 0
<1>1. Commit(r)
  <2>1. ASSUME NEW s \in Requests, Arrive(s)
        PROVE  FALSE
    BY <2>1 DEF Commits, Arrive, DepositRead, WithdrawRead, InterestRead, PostRead,
       CancelRead, TypeInv
  <2>2. ASSUME NEW s \in Requests, Abort(s)
        PROVE  FALSE
    BY <2>2 DEF Commits, Abort, Rollback, TypeInv
  <2>3. ASSUME NEW s \in Requests, Proceed(s), ~Commit(r)
        PROVE  FALSE
    BY <2>3 DEF Commits, Proceed, InterestCheck, CancelAccount, FindExisting,
       Insert, InsertDraft, InsertCommitted, UpdateBalance, MarkCancelled, Commit, Rollback, TypeInv
  <2>4. QED
    BY <2>1, <2>2, <2>3 DEF Next, Commits, OpenAccount, ClientChanges, vars
<1>2. QED
  BY <1>1 DEF Commit, LockInv, TypeInv

\* Whatever runs concurrently, a withdrawal that commits was covered by the
\* balance it was taken from.
THEOREM WithdrawalsCovered == Spec => WithdrawalCovered
<1>1. Init => LockInv
  BY DEF Init, TransactionsInit, LockInv
<1>2. TypeInv /\ LockInv /\ [Next]_vars =>
        [\A r \in Requests :
           Kind(r) = "withdraw" /\ Commits(r) => balance'[acct[r]] >= 0]_vars
  BY CommitCovers
<1>3. QED
  BY <1>1, <1>2, NextLock, TypeInvariant, PTL DEF Spec, WithdrawalCovered

-----------------------------------------------------------------------------
(* Idempotency keys and the abstract ledger *)

LEMMA InsertKeeps ==
  ASSUME TypeInv, KeyInv, NEW r \in Requests, Insert(r)
  PROVE  KeyInv'
<1>1. CASE Rollback(r)
  BY <1>1, DropKey DEF Rollback, TypeInv
<1>2. CASE ~Rollback(r)
  <2>1. /\ InsertDraft(r, AccountRow(r)) \/ InsertCommitted(r, AccountRow(r))
        /\ ~InsertWaits(r) /\ KeyFree(r) /\ ~Drafted(r)
    BY <1>2 DEF Insert, TypeInv, RowLifecycle
  <2>2. QED
    BY <2>1, InsertKey, AccountRowType DEF TypeInv
<1>3. QED
  BY <1>1, <1>2

LEMMA CommitKeeps ==
  ASSUME TypeInv, KeyInv, NEW r \in Requests, Commit(r)
  PROVE  KeyInv'
<1>1. DropDraft(r) /\ TransactionsTypeOK
  BY DEF Commit, TypeInv
<1>2. QED
  BY <1>1, CommitLedger, CommitKey, CancelKey

LEMMA NextKey == TypeInv /\ KeyInv /\ [Next]_vars => KeyInv'
<1> SUFFICES ASSUME TypeInv, KeyInv, [Next]_vars PROVE KeyInv'
  OBVIOUS
<1>1. ASSUME NEW r \in Requests, Arrive(r)
      PROVE  KeyInv'
  <2>1. ledger' = ledger /\ draft' = draft
    BY <1>1 DEF Arrive, DepositRead, WithdrawRead, InterestRead, PostRead,
       CancelRead
  <2>2. QED
    BY <1>1, <2>1, DropKey DEF TypeInv
<1>2. ASSUME NEW r \in Requests, Proceed(r)
      PROVE  KeyInv'
  <2>1. CASE Insert(r)
    BY <2>1, InsertKeeps
  <2>2. CASE Commit(r)
    BY <2>2, CommitKeeps
  <2>3. CASE \/ InterestCheck(r) \/ CancelAccount(r) \/ FindExisting(r)
             \/ UpdateBalance(r) \/ MarkCancelled(r)
    <3>1. ledger' = ledger /\ (draft' = draft \/ draft' = [draft EXCEPT ![r] = NoRow])
      BY <2>3 DEF InterestCheck, CancelAccount, FindExisting, UpdateBalance,
         MarkCancelled, Rollback
    <3>2. QED
      BY <3>1, DropKey DEF TypeInv
  <2>4. QED
    BY <1>2, <2>1, <2>2, <2>3 DEF Proceed
<1>3. ASSUME NEW r \in Requests, Abort(r)
      PROVE  KeyInv'
  BY <1>3, DropKey DEF Abort, Rollback, TypeInv
<1>4. CASE \/ \E a \in Accounts : OpenAccount(a)
           \/ \E c \in Clients : ClientChanges(c)
           \/ UNCHANGED vars
  BY <1>4 DEF OpenAccount, ClientChanges, KeyInv, KeyOnce, vars
<1>5. QED
  BY <1>1, <1>2, <1>3, <1>4 DEF Next

\* createTransaction never commits two rows under one idempotency key, however
\* many calls race with it.
THEOREM KeysUnique == Spec => []KeyOnce
<1>1. Init => KeyInv
  BY InitKey DEF Init
<1>2. KeyInv => KeyOnce
  BY DEF KeyInv
<1>3. QED
  BY <1>1, <1>2, NextKey, TypeInvariant, PTL DEF Spec

LEMMA StepRefines ==
  TypeInv /\ KeyInv /\ KeyInv' /\ [Next]_vars => [L!LedgerNext]_ledger
<1> SUFFICES ASSUME TypeInv, KeyInv, KeyInv', [Next]_vars, ledger' # ledger
             PROVE  L!LedgerNext
  OBVIOUS
<1>1. PICK r \in Requests : Insert(r) \/ Commit(r)
  BY DEF Next, Arrive, Proceed, Abort, DepositRead, WithdrawRead, InterestRead,
     PostRead, CancelRead, InterestCheck, CancelAccount, FindExisting,
     UpdateBalance, MarkCancelled, Rollback, OpenAccount, ClientChanges, vars
<1>2. CASE Insert(r)
  <2>1. ledger' = [ledger EXCEPT ![r] = AccountRow(r)] /\ ~Posted(r)
    BY <1>2 DEF Insert, InsertDraft, InsertCommitted, Rollback, TypeInv, RowLifecycle
  <2>2. QED
    BY <2>1, AccountRowType, PostRefines DEF TypeInv
<1>3. CASE Commit(r)
  <2>1. CASE Kind(r) = "cancel"
    BY <1>3, <2>1, CommitLedger, CancelRefines
  <2>2. CASE Kind(r) # "cancel"
    BY <1>3, <2>2, CommitLedger, PostRefines DEF WithDraft, TypeInv
  <2>3. QED
    BY <2>1, <2>2
<1>4. QED
  BY <1>1, <1>2, <1>3

\* The savings operations leave the transactions table a ledger: rows are posted
\* once under their own key and change only by being cancelled for good.
THEOREM LedgerImplemented == Spec => LedgerRefined
<1>1. Init => L!LedgerInit /\ KeyInv
  BY InitKey DEF Init, TransactionsInit, L!LedgerInit
<1>2. QED
  BY <1>1, StepRefines, NextKey, TypeInvariant, PTL
 DEF Spec, LedgerRefined, L!LedgerSpec

-----------------------------------------------------------------------------
(***************************************************************************)
(* Answers.  A success is backed by committed rows from then on.           *)
(***************************************************************************)

\* The row an operation works on is its own draft or a committed row with its key.
RowInv ==
  \A r \in Requests :
    pc[r] \in {"update", "commit"} /\ Kind(r) # "cancel" =>
      /\ row[r] \in Requests
      /\ \/ row[r] = r /\ draft[r] # NoRow
         \/ Posted(row[r]) /\ ledger[row[r]].key = Op[r].key

AnswerInv == RowInv /\ AcknowledgedIsPosted

LEMMA InsertRowsStay ==
  ASSUME TypeInv, NEW r \in Requests, Insert(r)
  PROVE  RowsStay
<1>1. \/ ledger' = ledger
      \/ ledger' = [ledger EXCEPT ![r] = AccountRow(r)] /\ ~Posted(r)
  BY DEF Insert, InsertDraft, InsertCommitted, Rollback, TypeInv, RowLifecycle
<1>2. QED
  BY <1>1, PostStays DEF RowsStay, TypeInv

LEMMA CommitRowsStay ==
  ASSUME TypeInv, NEW r \in Requests, Commit(r)
  PROVE  RowsStay
<1>1. CASE Kind(r) = "cancel"
  BY <1>1, CommitLedger, CancelRow DEF TypeInv
<1>2. CASE Kind(r) # "cancel"
  BY <1>2, CommitLedger, PostStays DEF WithDraft, RowsStay, TypeInv
<1>3. QED
  BY <1>1, <1>2

\* A step of r that leaves every other request, its row and its draft alone.
LEMMA OthersKeepAnswers ==
  ASSUME TypeInv, AnswerInv, RowsStay, NEW r \in Requests, NEW s \in Requests \ {r},
         pc'[s] = pc[s], row'[s] = row[s], draft'[s] = draft[s]
  PROVE  /\ pc'[s] \in {"update", "commit"} /\ Kind(s) # "cancel" =>
              /\ row'[s] \in Requests
              /\ \/ row'[s] = s /\ draft'[s] # NoRow
                 \/ Posted(row[s])' /\ ledger'[row'[s]].key = Op[s].key
         /\ pc'[s] = "done" /\ Kind(s) # "interest" =>
              /\ row'[s] # None /\ Posted(row[s])'
              /\ IF Kind(s) = "cancel" THEN ledger'[row'[s]].status = "CANCELLED"
                                       ELSE ledger'[row'[s]].key = Op[s].key
<1>1. CASE pc[s] \in {"update", "commit"} /\ Kind(s) # "cancel"
  BY <1>1 DEF AnswerInv, RowInv, RowsStay
<1>2. CASE pc[s] = "done" /\ Kind(s) # "interest"
  <2>1. row[s] \in Requests /\ Posted(row[s])
    BY <1>2 DEF AnswerInv, AcknowledgedIsPosted, TypeInv
  <2>2. QED
    BY <1>2, <2>1 DEF AnswerInv, AcknowledgedIsPosted, RowsStay
<1>3. QED
  BY <1>1, <1>2

\* The same two facts for the request that takes the step.
OwnAnswer(r) ==
  /\ pc[r] \in {"update", "commit"} /\ Kind(r) # "cancel" =>
       /\ row[r] \in Requests
       /\ \/ row[r] = r /\ draft[r] # NoRow
          \/ Posted(row[r]) /\ ledger[row[r]].key = Op[r].key
  /\ pc[r] = "done" /\ Kind(r) # "interest" =>
       /\ row[r] # None /\ Posted(row[r])
       /\ IF Kind(r) = "cancel" THEN ledger[row[r]].status = "CANCELLED"
                                ELSE ledger[row[r]].key = Op[r].key

LEMMA CommitPosts ==
  ASSUME TypeInv, AnswerInv, NEW r \in Requests, Commit(r), Kind(r) # "cancel"
  PROVE  /\ row[r] \in Requests
         /\ Posted(row[r])'
         /\ ledger'[row[r]].key = Op[r].key
<1>1. row' = row /\ RowsStay
  BY CommitRowsStay DEF Commit
<1>2. /\ row[r] \in Requests
      /\ \/ row[r] = r /\ Drafted(r)
         \/ Posted(row[r]) /\ ledger[row[r]].key = Op[r].key
  BY DEF Commit, AnswerInv, RowInv
<1>3. CASE row[r] = r /\ Drafted(r)
  <2>1. ledger'[r] = draft[r] /\ draft[r].key = Op[r].key
    BY <1>3 DEF Commit, Published, WithDraft, TypeInv, RowLifecycle
  <2>2. QED
    BY <1>1, <1>3, <2>1
<1>4. CASE Posted(row[r]) /\ ledger[row[r]].key = Op[r].key
  BY <1>1, <1>2, <1>4 DEF RowsStay
<1>5. QED
  BY <1>2, <1>3, <1>4

LEMMA CommitAnswer ==
  ASSUME TypeInv, AnswerInv, NEW r \in Requests, Commit(r)
  PROVE  OwnAnswer(r)'
<1>1. pc'[r] = "done" /\ row' = row /\ RowsStay
  BY CommitRowsStay DEF Commit, TypeInv
<1>2. CASE Kind(r) = "cancel"
  <2>1. row[r] \in Requests /\ Posted(row[r]) /\ ledger'[row[r]].status = "CANCELLED"
    BY <1>2, CommitLedger, CancelRow DEF TypeInv
  <2>2. QED
    BY <1>1, <1>2, <2>1, TransactionsAssumption DEF OwnAnswer, RowsStay
<1>3. CASE Kind(r) # "cancel"
  BY <1>1, <1>3, CommitPosts, TransactionsAssumption DEF OwnAnswer
<1>4. QED
  BY <1>2, <1>3

LEMMA StepAnswer ==
  ASSUME TypeInv, AnswerInv, NEW r \in Requests,
         Arrive(r) \/ Proceed(r) \/ Abort(r)
  PROVE  OwnAnswer(r)' /\ RowsStay
<1> USE DEF TypeInv
<1>1. CASE Arrive(r)
  <2>1. pc'[r] \in {"already", "find", "account", "failed"} \/ Kind(r) = "interest"
    BY <1>1 DEF Arrive, DepositRead, WithdrawRead, InterestRead, PostRead,
       CancelRead
  <2>2. pc'[r] \notin {"update", "commit"}
    BY <1>1 DEF Arrive, DepositRead, WithdrawRead, InterestRead, PostRead,
       CancelRead
  <2>3. ledger' = ledger
    BY <1>1 DEF Arrive, DepositRead, WithdrawRead, InterestRead, PostRead,
       CancelRead
  <2>4. QED
    BY <2>1, <2>2, <2>3 DEF OwnAnswer, RowsStay
<1>2. CASE Rollback(r)
  <2>1. pc'[r] = "failed" /\ ledger' = ledger
    BY <1>2 DEF Rollback
  <2>2. QED
    BY <2>1 DEF OwnAnswer, RowsStay
<1>3. CASE InterestCheck(r) \/ CancelAccount(r)
  <2>1. \/ pc'[r] \in {"done", "find"} /\ Kind(r) = "interest"
        \/ pc'[r] \in {"failed", "update"} /\ Kind(r) = "cancel"
    BY <1>3 DEF InterestCheck, CancelAccount, KindPoints
  <2>2. ledger' = ledger
    BY <1>3 DEF InterestCheck, CancelAccount
  <2>3. QED
    BY <2>1, <2>2 DEF OwnAnswer, RowsStay
<1>4. CASE FindExisting(r) /\ ~Rollback(r)
  <2>1. ledger' = ledger
    BY <1>4 DEF FindExisting
  <2>2. \/ pc'[r] = "insert"
        \/ /\ row'[r] \in Requests
           /\ Posted(row[r])' /\ ledger'[row'[r]].key = Op[r].key
    BY <1>4, <2>1 DEF FindExisting, ReturnExisting, FindByKey
  <2>3. Kind(r) # "cancel"
    BY <1>4 DEF FindExisting, KindPoints
  <2>4. CASE pc'[r] = "insert"
    BY <2>1, <2>4 DEF OwnAnswer, RowsStay
  <2>5. CASE pc'[r] # "insert"
    <3>1. row'[r] # None
      BY <2>2, <2>5, TransactionsAssumption
    <3>2. QED
      BY <2>1, <2>2, <2>3, <2>5, <3>1 DEF OwnAnswer, RowsStay
  <2>6. QED
    BY <2>4, <2>5
<1>5. CASE Insert(r) /\ ~Rollback(r)
  <2>1. AccountRow(r) # NoRow /\ AccountRow(r).key = Op[r].key
    BY AccountRowType
  <2>2. /\ row'[r] = r
        /\ \/ pc'[r] = "done" /\ ledger'[r] = AccountRow(r)
           \/ pc'[r] = "update" /\ draft'[r] = AccountRow(r)
    BY <1>5 DEF Insert, InsertDraft, InsertCommitted
  <2>3. Kind(r) # "cancel" /\ RowsStay
    BY <1>5, InsertRowsStay DEF Insert, KindPoints
  <2>4. QED
    BY <2>1, <2>2, <2>3, TransactionsAssumption DEF OwnAnswer
<1>6. CASE UpdateBalance(r) \/ MarkCancelled(r)
  <2>1. /\ pc'[r] \in {"mark", "commit"}
        /\ Kind(r) = "cancel" \/ pc[r] = "update"
        /\ UNCHANGED <<ledger, draft, row>>
    BY <1>6 DEF UpdateBalance, MarkCancelled, KindPoints
  <2>2. QED
    BY <2>1 DEF OwnAnswer, RowsStay, AnswerInv, RowInv
<1>7. CASE Commit(r)
  BY <1>7, CommitAnswer, CommitRowsStay
<1>8. QED
  BY <1>1, <1>2, <1>3, <1>4, <1>5, <1>6, <1>7 DEF Proceed, Abort

LEMMA StepOthers ==
  ASSUME TypeInv, NEW r \in Requests, Arrive(r) \/ Proceed(r) \/ Abort(r),
         NEW s \in Requests \ {r}
  PROVE  pc'[s] = pc[s] /\ row'[s] = row[s] /\ draft'[s] = draft[s]
<1> USE DEF TypeInv
<1>1. CASE Arrive(r)
  BY <1>1 DEF Arrive, DepositRead, WithdrawRead, InterestRead, PostRead, CancelRead
<1>2. CASE Rollback(r)
  BY <1>2 DEF Rollback
<1>3. CASE Proceed(r) /\ ~Rollback(r)
  BY <1>3 DEF Proceed, InterestCheck, CancelAccount, FindExisting, ReturnExisting,
     Insert, InsertDraft, InsertCommitted, UpdateBalance, MarkCancelled, Commit
<1>4. QED
  BY <1>1, <1>2, <1>3 DEF Abort

LEMMA NextAnswer == TypeInv /\ AnswerInv /\ [Next]_vars => AnswerInv'
<1> SUFFICES ASSUME TypeInv, AnswerInv, [Next]_vars PROVE AnswerInv'
  OBVIOUS
<1>1. ASSUME NEW r \in Requests, Arrive(r) \/ Proceed(r) \/ Abort(r)
      PROVE  AnswerInv'
  <2>1. OwnAnswer(r)' /\ RowsStay
    BY <1>1, StepAnswer
  <2>2. ASSUME NEW s \in Requests \ {r} PROVE OwnAnswer(s)'
    <3>1. pc'[s] = pc[s] /\ row'[s] = row[s] /\ draft'[s] = draft[s]
      BY <1>1, StepOthers
    <3>2. QED
      BY <2>1, <3>1, OthersKeepAnswers DEF OwnAnswer
  <2>3. \A s \in Requests : OwnAnswer(s)'
    BY <2>1, <2>2
  <2>4. QED
    BY <2>3 DEF OwnAnswer, AnswerInv, RowInv, AcknowledgedIsPosted
<1>2. CASE \/ \E a \in Accounts : OpenAccount(a)
           \/ \E c \in Clients : ClientChanges(c)
           \/ UNCHANGED vars
  BY <1>2 DEF OpenAccount, ClientChanges, AnswerInv, RowInv, AcknowledgedIsPosted,
     vars
<1>3. QED
  BY <1>1, <1>2 DEF Next

\* A success answered to the caller is never contradicted by the ledger: the row it
\* names is committed under the key that was sent, and a cancellation is recorded.
THEOREM AnswersBacked == Spec => []AcknowledgedIsPosted
<1>1. Init => AnswerInv
  BY DEF Init, TransactionsInit, AnswerInv, RowInv, AcknowledgedIsPosted
<1>2. AnswerInv => AcknowledgedIsPosted
  BY DEF AnswerInv
<1>3. QED
  BY <1>1, <1>2, NextAnswer, TypeInvariant, PTL DEF Spec

-----------------------------------------------------------------------------
(***************************************************************************)
(* One interest a month.  Two interest jobs never run at a time, so the    *)
(* row of a job that paid is there when the next one looks for it.         *)
(***************************************************************************)

IsInterest(r) == Kind(r) = "interest"

\* An interest job that paid, or was answered with the row of this month.
Paid(r) == IsInterest(r) /\ pc[r] = "done" /\ row[r] # None

OnceInv ==
  /\ \A r, s \in Requests :
       IsInterest(r) /\ InFlight(r) /\ IsInterest(s) /\ InFlight(s) => r = s
  /\ \A r \in Requests :
       IsInterest(r) /\ pc[r] \in {"idle", "already", "find", "insert"} => row[r] = None
  /\ \A r \in Requests : Paid(r) => ~KeyFree(r)
  /\ \A r, s \in Requests :
       IsInterest(r) /\ pc[r] \in {"find", "insert", "update", "commit"} /\ Paid(s)
         => Op[r].key # Op[s].key
  /\ \A r, s \in Requests : Paid(r) /\ Paid(s) /\ Op[r].key = Op[s].key => r = s

\* What the step of an interest job may do.
LEMMA InterestStep ==
  ASSUME InterestWorkers = 1, TypeInv, AnswerInv, NEW r \in Requests, IsInterest(r),
         Arrive(r) \/ Proceed(r) \/ Abort(r)
  PROVE  /\ InFlight(r)' =>
              InFlight(r) \/ \A s \in Requests : IsInterest(s) => ~InFlight(s)
         /\ pc'[r] \in {"idle", "already", "find", "insert"} =>
              pc[r] \in {"idle", "already", "find", "insert"} /\ row'[r] = row[r]
         /\ pc'[r] \in {"find", "insert", "update", "commit"} =>
              \/ pc[r] \in {"find", "insert", "update", "commit"}
              \/ KeyFree(r)
         /\ pc'[r] = "done" =>
              \/ pc[r] \in {"idle", "already"} /\ row'[r] = row[r]
              \/ pc[r] = "commit" /\ ~KeyFree(r)'
<1> USE DEF TypeInv
<1>1. CASE Arrive(r)
  <2>1. CASE InterestRead(r)
    <3> DEFINE busy == {s \in Requests : Kind(s) = "interest" /\ InFlight(s)}
    <3>1. Cardinality(busy) < 1
      BY <2>1 DEF InterestRead
    <3>2. busy = {}
      <4>1. IsFiniteSet(busy)
        BY FS_Subset, TransactionsAssumption
      <4>2. Cardinality(busy) \in Nat
        <5> HIDE DEF busy
        <5> QED BY <4>1, FS_CardinalityType
      <4>3. QED
        <5> HIDE DEF busy
        <5> QED BY <3>1, <4>1, <4>2, FS_EmptySet
    <3>3. pc'[r] \in {"already", "done"} /\ pc[r] = "idle" /\ row' = row
      BY <2>1 DEF InterestRead
    <3>4. \A s \in Requests : IsInterest(s) => ~InFlight(s)
      BY <3>2 DEF IsInterest
    <3>5. pc[r] # "commit" /\ pc'[r] \notin {"find", "insert", "update", "commit"}
      BY <3>3
    <3>6. QED
      BY <3>3, <3>4, <3>5
  <2>2. QED
    BY <1>1, <2>1 DEF Arrive, DepositRead, WithdrawRead, PostRead, CancelRead, IsInterest
<1>2. CASE Rollback(r)
  BY <1>2 DEF Rollback, InFlight
<1>3. CASE Proceed(r) /\ ~Rollback(r)
  <2>1. CASE InterestCheck(r)
    BY <2>1 DEF InterestCheck, AlreadyProcessed, InFlight
  <2>2. CASE FindExisting(r)
    <3>1. /\ pc[r] = "find"
          /\ pc'[r] = "update" \/ (pc'[r] = "insert" /\ row' = row)
      BY <1>3, <2>2 DEF FindExisting, IsInterest
    <3>2. QED
      BY <3>1 DEF InFlight
  <2>3. CASE Insert(r)
    BY <1>3, <2>3 DEF Insert, InFlight, IsInterest
  <2>4. CASE UpdateBalance(r)
    BY <2>4 DEF UpdateBalance, InFlight, IsInterest
  <2>5. CASE Commit(r)
    <3>1. /\ row[r] \in Requests
          /\ Posted(row[r])'
          /\ ledger'[row[r]].key = Op[r].key
      BY <2>5, CommitPosts DEF IsInterest
    <3>2. ~KeyFree(r)'
      <4>1. row[r] \in FindByKey(Op[r].key)'
        BY <2>5, <3>1 DEF FindByKey, Commit
      <4>2. QED
        BY <4>1 DEF KeyFree
    <3>3. pc[r] = "commit" /\ pc'[r] = "done"
      BY <2>5 DEF Commit
    <3>4. InFlight(r)
      BY <3>3 DEF InFlight
    <3>5. QED
      BY <3>2, <3>3, <3>4
  <2>6. CASE CancelAccount(r) \/ MarkCancelled(r)
    BY <2>6 DEF CancelAccount, MarkCancelled, KindPoints, IsInterest
  <2>7. QED
    BY <1>3, <2>1, <2>2, <2>3, <2>4, <2>5, <2>6 DEF Proceed
<1>4. QED
  BY <1>1, <1>2, <1>3 DEF Abort

LEMMA NextOnce ==
  ASSUME InterestWorkers = 1
  PROVE  TypeInv /\ AnswerInv /\ OnceInv /\ [Next]_vars => OnceInv'
<1> SUFFICES ASSUME TypeInv, AnswerInv, OnceInv, [Next]_vars PROVE OnceInv'
  OBVIOUS
<1>1. ASSUME NEW r \in Requests, Arrive(r) \/ Proceed(r) \/ Abort(r)
      PROVE  OnceInv'
  <2>1. \A s \in Requests \ {r} : pc'[s] = pc[s] /\ row'[s] = row[s]
    BY <1>1, StepOthers
  <2>2. \A s \in Requests : ~KeyFree(s) => ~KeyFree(s)'
    <3>1. RowsStay
      BY <1>1, StepAnswer
    <3>2. QED
      BY <3>1 DEF RowsStay, KeyFree, FindByKey
  <2>3. \A s \in Requests : Paid(s) => pc[s] = "done"
    BY DEF Paid
  <2>4. pc[r] # "done"
    BY <1>1 DEF Arrive, DepositRead, WithdrawRead, InterestRead, PostRead, CancelRead,
       Proceed, InterestCheck, CancelAccount, FindExisting, Insert, UpdateBalance,
       MarkCancelled, Commit, Abort, InFlight
  <2>5. \A s \in Requests \ {r} : Paid(s)' <=> Paid(s)
    BY <2>1 DEF Paid
  <2>6. CASE ~IsInterest(r)
    <3>1. ~Paid(r)'
      BY <2>6 DEF Paid, IsInterest
    <3>2. QED
      BY <2>1, <2>2, <2>5, <2>6, <3>1 DEF OnceInv, InFlight, IsInterest
  <2>7. CASE IsInterest(r)
    <3>1. /\ InFlight(r)' =>
               InFlight(r) \/ \A s \in Requests : IsInterest(s) => ~InFlight(s)
          /\ pc'[r] \in {"idle", "already", "find", "insert"} =>
               pc[r] \in {"idle", "already", "find", "insert"} /\ row'[r] = row[r]
          /\ pc'[r] \in {"find", "insert", "update", "commit"} =>
               \/ pc[r] \in {"find", "insert", "update", "commit"}
               \/ KeyFree(r)
          /\ pc'[r] = "done" =>
               \/ pc[r] \in {"idle", "already"} /\ row'[r] = row[r]
               \/ pc[r] = "commit" /\ ~KeyFree(r)'
      BY <1>1, <2>7, InterestStep
    <3>2. Paid(r)' => pc[r] = "commit" /\ ~KeyFree(r)'
      BY <2>7, <3>1 DEF Paid, OnceInv
    <3>3. \A p, s \in Requests :
            IsInterest(p) /\ InFlight(p)' /\ IsInterest(s) /\ InFlight(s)' => p = s
      BY <2>1, <3>1 DEF OnceInv, InFlight
    <3>4. \A s \in Requests :
            IsInterest(s) /\ pc'[s] \in {"idle", "already", "find", "insert"}
              => row'[s] = None
      BY <2>1, <2>7, <3>1 DEF OnceInv
    <3>5. \A s \in Requests : Paid(s)' => ~KeyFree(s)'
      BY <2>2, <2>5, <3>2 DEF OnceInv
    <3>6. \A p, s \in Requests :
            IsInterest(p) /\ pc'[p] \in {"find", "insert", "update", "commit"} /\ Paid(s)'
              => Op[p].key # Op[s].key
      <4>1. SUFFICES ASSUME NEW p \in Requests, NEW s \in Requests, IsInterest(p), Paid(s)',
                            pc'[p] \in {"find", "insert", "update", "commit"}
                     PROVE  Op[p].key # Op[s].key
        OBVIOUS
      <4>2. CASE s = r
        <5>1. InFlight(r) /\ pc'[r] = "done" /\ p # r
          BY <3>2, <4>1, <4>2 DEF Paid, InFlight
        <5>2. InFlight(p)
          BY <2>1, <4>1, <5>1 DEF InFlight
        <5>3. QED
          BY <2>7, <4>1, <5>1, <5>2 DEF OnceInv
      <4>3. CASE s # r /\ p # r
        BY <2>1, <2>5, <4>1, <4>3 DEF OnceInv
      <4>4. CASE s # r /\ p = r
        <5>1. Paid(s)
          BY <2>5, <4>1, <4>4
        <5>2. CASE KeyFree(r)
          BY <4>4, <5>1, <5>2 DEF OnceInv, KeyFree
        <5>3. CASE pc[r] \in {"find", "insert", "update", "commit"}
          BY <4>1, <4>4, <5>1, <5>3 DEF OnceInv
        <5>4. QED
          BY <3>1, <4>1, <4>4, <5>2, <5>3
      <4>5. QED
        BY <4>2, <4>3, <4>4
    <3>7. \A p, s \in Requests : Paid(p)' /\ Paid(s)' /\ Op[p].key = Op[s].key => p = s
      <4>1. \A s \in Requests \ {r} : Paid(r)' /\ Paid(s) => Op[r].key # Op[s].key
        BY <2>7, <3>2 DEF OnceInv
      <4>2. QED
        BY <2>5, <4>1 DEF OnceInv
    <3>8. QED
      BY <3>3, <3>4, <3>5, <3>6, <3>7 DEF OnceInv, IsInterest
  <2>8. QED
    BY <2>6, <2>7
<1>2. CASE \/ \E a \in Accounts : OpenAccount(a)
           \/ \E c \in Clients : ClientChanges(c)
           \/ UNCHANGED vars
  BY <1>2 DEF OpenAccount, ClientChanges, OnceInv, Paid, KeyFree, FindByKey, InFlight, vars
<1>3. QED
  BY <1>1, <1>2 DEF Next

LEMMA AnswerInvariant == Spec => []AnswerInv
<1>1. Init => AnswerInv
  BY DEF Init, TransactionsInit, AnswerInv, RowInv, AcknowledgedIsPosted
<1>2. QED
  BY <1>1, NextAnswer, TypeInvariant, PTL DEF Spec

LEMMA OnceInvariant ==
  ASSUME InterestWorkers = 1
  PROVE  Spec => []OnceInv
<1>1. Init => OnceInv
  BY DEF Init, TransactionsInit, OnceInv, Paid, InFlight
<1>2. QED
  BY <1>1, NextOnce, TypeInvariant, AnswerInvariant, PTL DEF Spec

\* With one interest job at a time, an account is paid this month's interest once,
\* whatever fails, is retried, or posts a row under the same key meanwhile.
THEOREM InterestPaidOnce ==
  ASSUME InterestWorkers = 1
  PROVE  Spec => []InterestOncePerMonth
<1>1. OnceInv => InterestOncePerMonth
  BY DEF OnceInv, Paid, IsInterest, InterestOncePerMonth
<1>2. QED
  BY <1>1, OnceInvariant, PTL

-----------------------------------------------------------------------------
(***************************************************************************)
(* Balances and the ledger                                                 *)
(***************************************************************************)

\* What is private is the row of the operation; what is committed came from it.
OwnRow(r) ==
  /\ Kind(r) # "cancel" => acct[r] = Op[r].account
  /\ Drafted(r) => draft[r] = AccountRow(r)
  /\ Posted(r) => Kind(r) # "cancel" /\ row[r] = r
  /\ pc[r] \in {"idle", "already", "find", "insert"} => row[r] = None

OwnRows == \A r \in Requests : OwnRow(r)

\* A cancellation under way.
Cancelling(r) == Kind(r) = "cancel" /\ pc[r] \in {"account", "update", "mark", "commit"}

\* A cancellation works on an account of its row's client; what a request has done to a
\* balance and not committed is the effect of its operation.
Reversal(r) ==
  /\ Cancelling(r) /\ pc[r] # "account" => Owner[acct[r]] = ledger[row[r]].client
  /\ pc[r] \in {"mark", "commit"} => delta[r] = Effect(r)

Reversals == \A r \in Requests : Reversal(r)

BookInv == OwnRows /\ Reversals /\ BalanceMatchesLedger

BookedSum(c) == SumOf([s \in Booked(c) |-> Signed(ledger[s])], Booked(c))
UnbookedSum(c) == SumOf([r \in Unbooked(c) |-> Effect(r)], Unbooked(c))

\* An account moves: so does the balance of the client it was opened for, alone.
LEMMA BalanceMoves ==
  ASSUME balance \in [Accounts -> Int], NEW a \in Accounts, NEW d \in Int,
         balance' = [balance EXCEPT ![a] = @ + d],
         NEW c \in Clients
  PROVE  /\ ClientBalance(c) \in Int
         /\ ClientBalance(c)' = ClientBalance(c) + (IF Owner[a] = c THEN d ELSE 0)
<1> DEFINE S == {b \in Accounts : Owner[b] = c}
<1>1. IsFiniteSet(S)
  BY FS_Subset, SavingsAssumption
<1>2. /\ \A x \in S : balance[x] \in Int
      /\ \A x \in S : balance'[x] \in Int
      /\ \A x \in S \ {a} : balance[x] = balance'[x]
      /\ balance'[a] = balance[a] + d
      /\ balance[a] \in Int
      /\ a \in S <=> Owner[a] = c
  OBVIOUS
<1>3. SumOf(balance, S) \in Int /\ SumOf(balance', S) \in Int
  <2> HIDE DEF S
  <2> QED BY <1>1, <1>2, SumInt
<1>4. SumOf(balance', S) - (IF a \in S THEN balance'[a] ELSE 0)
        = SumOf(balance, S) - (IF a \in S THEN balance[a] ELSE 0)
  <2> HIDE DEF S
  <2> QED BY ONLY <1>1, <1>2, SumChange
<1>5. ClientBalance(c) = SumOf(balance, S) /\ ClientBalance(c)' = SumOf(balance', S)
  BY DEF ClientBalance
<1> HIDE DEF S
<1>6. QED
  BY <1>2, <1>3, <1>4, <1>5

\* One request enters the set a sum is over, and no other term changes.
LEMMA SumGains ==
  ASSUME NEW S \in SUBSET Requests, NEW T \in SUBSET Requests, NEW f, NEW g,
         NEW r \in Requests, r \notin S,
         \A s \in Requests \ {r} : s \in S <=> s \in T,
         \A s \in S : f[s] \in Int, \A s \in T : g[s] \in Int,
         \A s \in S : f[s] = g[s]
  PROVE  /\ SumOf(f, S) \in Int
         /\ SumOf(g, T) = SumOf(f, S) + (IF r \in T THEN g[r] ELSE 0)
<1>1. IsFiniteSet(S) /\ IsFiniteSet(T)
  BY FS_Subset, TransactionsAssumption
<1>2. S \ {r} = T \ {r}
  OBVIOUS
<1>3. SumOf(f, S) \in Int /\ SumOf(g, T) \in Int
  BY <1>1, SumInt
<1>4. SumOf(g, T) - (IF r \in T THEN g[r] ELSE 0) = SumOf(f, S) - (IF r \in S THEN f[r] ELSE 0)
  <2>1. \A s \in S \ {r} : f[s] = g[s]
    OBVIOUS
  <2> QED BY ONLY <1>1, <1>2, <2>1, \A s \in S : f[s] \in Int, \A s \in T : g[s] \in Int,
             SumChange
<1>5. r \in T => g[r] \in Int
  OBVIOUS
<1>6. QED
  BY <1>3, <1>4, <1>5

\* What a step does to the table, in one place.
LEMMA LedgerStep ==
  ASSUME TypeInv, NEW r \in Requests, Arrive(r) \/ Proceed(r) \/ Abort(r)
  PROVE  \/ UNCHANGED <<ledger, balance>>
         \/ /\ Insert(r) /\ Kind(r) = "post" /\ ~Posted(r) /\ row'[r] = r
            /\ ledger' = [ledger EXCEPT ![r] = AccountRow(r)]
            /\ UNCHANGED balance
         \/ /\ Commit(r) /\ Kind(r) # "cancel" /\ Kind(r) # "post"
            /\ ledger' = WithDraft(r)
            /\ Drafted(r) => ~Posted(r) /\ row[r] = r
         \/ /\ Commit(r) /\ Kind(r) = "cancel"
            /\ row[r] \in Requests /\ Posted(row[r])
            /\ ledger[row[r]].type \in L!Reversible
            /\ ledger' = [ledger EXCEPT ![row[r]].status = "CANCELLED"]
<1>1. CASE Insert(r) /\ ~Rollback(r)
  BY <1>1 DEF Insert, InsertDraft, InsertCommitted, TypeInv, RowLifecycle
<1>2. CASE Commit(r)
  <2>1. CASE Kind(r) = "cancel"
    BY <1>2, <2>1, CommitLedger
  <2>2. CASE Kind(r) # "cancel"
    BY <1>2, <2>2, CommitLedger DEF Commit, TypeInv, KindPoints, RowLifecycle
  <2>3. QED
    BY <2>1, <2>2
<1>3. CASE ~(Insert(r) /\ ~Rollback(r)) /\ ~Commit(r)
  BY <1>3 DEF Arrive, Proceed, Abort, DepositRead, WithdrawRead, InterestRead,
     PostRead, CancelRead, InterestCheck, CancelAccount, FindExisting,
     UpdateBalance, MarkCancelled, Rollback
<1>4. QED
  BY <1>1, <1>2, <1>3

\* Except for being cancelled, a row never changes.
LEMMA RowsKept ==
  ASSUME TypeInv, NEW r \in Requests, Arrive(r) \/ Proceed(r) \/ Abort(r)
  PROVE  /\ \A s \in Requests :
              Posted(s) => /\ Posted(s)'
                           /\ ledger'[s].key = ledger[s].key
                           /\ ledger'[s].type = ledger[s].type
                           /\ ledger'[s].client = ledger[s].client
                           /\ ledger'[s].amount = ledger[s].amount
                           /\ \/ ledger'[s].status = ledger[s].status
                              \/ Commit(r) /\ Kind(r) = "cancel" /\ s = row[r]
         /\ \A s \in Requests \ {r} : Posted(s)' => Posted(s)
<1>1. CASE UNCHANGED ledger
  BY <1>1
<1>2. CASE /\ Insert(r) /\ ~Posted(r)
           /\ ledger' = [ledger EXCEPT ![r] = AccountRow(r)]
  BY <1>2 DEF TypeInv
<1>3. CASE ledger' = WithDraft(r) /\ (Drafted(r) => ~Posted(r))
  BY <1>3 DEF WithDraft, TypeInv
<1>4. CASE /\ Commit(r) /\ Kind(r) = "cancel" /\ row[r] \in Requests /\ Posted(row[r])
           /\ ledger' = [ledger EXCEPT ![row[r]].status = "CANCELLED"]
  <2>1. /\ \A s \in Requests \ {row[r]} : ledger'[s] = ledger[s]
        /\ ledger'[row[r]] = [ledger[row[r]] EXCEPT !.status = "CANCELLED"]
        /\ ledger[row[r]] \in L!Rows
    BY <1>4 DEF TypeInv
  <2>2. /\ Posted(row[r]) /\ ledger'[row[r]] # NoRow
        /\ ledger'[row[r]].key = ledger[row[r]].key
        /\ ledger'[row[r]].type = ledger[row[r]].type
        /\ ledger'[row[r]].client = ledger[row[r]].client
        /\ ledger'[row[r]].amount = ledger[row[r]].amount
    <3>1. ledger'[row[r]] # NoRow
      BY <1>4, CancelRow DEF TypeInv, RowsStay
    <3>2. QED
      BY <1>4, <2>1, <3>1 DEF L!Rows
  <2>3. QED
    BY <1>4, <2>1, <2>2
<1>5. QED
  BY <1>1, <1>2, <1>3, <1>4, LedgerStep

\* A step of r leaves what the other requests keep of theirs.
LEMMA OthersKeep ==
  ASSUME TypeInv, NEW r \in Requests, Arrive(r) \/ Proceed(r) \/ Abort(r),
         NEW s \in Requests \ {r}
  PROVE  /\ pc'[s] = pc[s] /\ row'[s] = row[s] /\ draft'[s] = draft[s]
         /\ acct'[s] = acct[s] /\ amt'[s] = amt[s] /\ delta'[s] = delta[s]
<1> USE DEF TypeInv
<1>1. CASE Arrive(r)
  BY <1>1, StepOthers DEF Arrive, DepositRead, WithdrawRead, InterestRead, PostRead, CancelRead
<1>2. CASE Rollback(r)
  BY <1>2 DEF Rollback
<1>3. CASE Proceed(r) /\ ~Rollback(r)
  <2>1. acct'[s] = acct[s] /\ amt'[s] = amt[s] /\ delta'[s] = delta[s]
    BY <1>3 DEF Proceed, InterestCheck, CancelAccount, FindExisting, Insert,
       UpdateBalance, MarkCancelled, Commit
  <2>2. QED
    BY <1>3, <2>1, StepOthers
<1>4. QED
  BY <1>1, <1>2, <1>3 DEF Abort

LEMMA StepOwnRow ==
  ASSUME TypeInv, TypeInv', OwnRows, NEW r \in Requests,
         Arrive(r) \/ Proceed(r) \/ Abort(r)
  PROVE  OwnRow(r)'
<1> USE DEF TypeInv
<1>1. CASE Arrive(r)
  <2>1. /\ UNCHANGED <<ledger, draft, acct>>
        /\ pc[r] = "idle" /\ ~Drafted(r) /\ ~Posted(r)
    BY <1>1 DEF Arrive, DepositRead, WithdrawRead, InterestRead, PostRead, CancelRead,
       RowLifecycle
  <2>2. pc'[r] \in {"idle", "already", "find", "insert"} => row'[r] = row[r]
    BY <1>1 DEF Arrive, DepositRead, WithdrawRead, InterestRead, PostRead, CancelRead
  <2>3. QED
    BY <2>1, <2>2 DEF OwnRow, OwnRows
<1>2. CASE Rollback(r)
  <2>1. /\ pc'[r] = "failed" /\ ledger' = ledger /\ acct' = acct /\ ~Drafted(r)' /\ row' = row
    BY <1>2 DEF Rollback
  <2>2. QED
    BY <2>1 DEF OwnRow, OwnRows
<1>3. CASE InterestCheck(r) \/ MarkCancelled(r)
  <2>1. /\ UNCHANGED <<ledger, draft, acct, row>>
        /\ ~Posted(r)
        /\ pc'[r] \in {"idle", "already", "find", "insert"} => pc[r] = "already"
        /\ Kind(r) = "cancel" \/ ~Drafted(r)
    BY <1>3 DEF InterestCheck, MarkCancelled, KindPoints, RowLifecycle
  <2>2. ~Drafted(r)
    BY <2>1 DEF RowLifecycle
  <2>3. QED
    BY <2>1, <2>2 DEF OwnRow, OwnRows
<1>4. CASE CancelAccount(r)
  BY <1>4 DEF CancelAccount, OwnRow, OwnRows, KindPoints, RowLifecycle
<1>5. CASE FindExisting(r) /\ ~Rollback(r)
  <2>1. /\ pc[r] = "find" /\ UNCHANGED <<ledger, draft, acct>> /\ ~Posted(r) /\ ~Drafted(r)
        /\ pc'[r] \in {"idle", "already", "find", "insert"} => row' = row
    BY <1>5 DEF FindExisting, ReturnExisting, RowLifecycle
  <2>2. QED
    BY <2>1 DEF OwnRow, OwnRows
<1>6. CASE Insert(r) /\ ~Rollback(r)
  <2>1. AccountRow(r)' = AccountRow(r)
    BY <1>6 DEF Insert, AccountRow, NewRow
  <2>2. /\ pc[r] = "insert" /\ acct' = acct /\ row'[r] = r
        /\ ~Posted(r) /\ ~Drafted(r) /\ Kind(r) # "cancel"
        /\ pc'[r] \in {"update", "done"}
    BY <1>6 DEF Insert, InsertDraft, InsertCommitted, RowLifecycle, KindPoints
  <2>3. \/ /\ Kind(r) = "post" /\ ledger'[r] = AccountRow(r) /\ draft' = draft
        \/ /\ ledger' = ledger /\ draft'[r] = AccountRow(r)
    BY <1>6 DEF Insert, InsertDraft, InsertCommitted
  <2>4. QED
    BY <2>1, <2>2, <2>3 DEF OwnRow, OwnRows
<1>7. CASE UpdateBalance(r)
  <2>1. /\ UNCHANGED <<ledger, draft, acct, row, amt>>
        /\ pc'[r] \in {"mark", "commit"}
    BY <1>7 DEF UpdateBalance
  <2>2. AccountRow(r)' = AccountRow(r)
    BY <2>1 DEF AccountRow, NewRow
  <2>3. QED
    BY <2>1, <2>2 DEF OwnRow, OwnRows
<1>8. CASE Commit(r)
  <2>1. pc'[r] = "done" /\ ~Drafted(r)' /\ acct' = acct /\ row' = row /\ ~Posted(r)
    BY <1>8 DEF Commit, RowLifecycle
  <2>2. CASE Kind(r) = "cancel"
    <3>1. ~Posted(r)'
      BY <1>8, <2>1, <2>2, CommitLedger, CancelRow
    <3>2. QED
      BY <2>1, <2>2, <3>1 DEF OwnRow
  <2>3. CASE Kind(r) # "cancel"
    <3>1. Posted(r)' => row[r] = r
      BY <1>8, <2>1, <2>3, CommitLedger DEF WithDraft, RowLifecycle
    <3>2. QED
      BY <2>1, <2>3, <3>1 DEF OwnRow, OwnRows
  <2>4. QED
    BY <2>2, <2>3
<1>9. QED
  BY <1>1, <1>2, <1>3, <1>4, <1>5, <1>6, <1>7, <1>8 DEF Proceed, Abort

LEMMA NextOwnRows ==
  ASSUME TypeInv, TypeInv', OwnRows, NEW r \in Requests,
         Arrive(r) \/ Proceed(r) \/ Abort(r)
  PROVE  OwnRows'
<1>1. OwnRow(r)'
  BY StepOwnRow
<1>2. ASSUME NEW s \in Requests \ {r} PROVE OwnRow(s)'
  <2>1. /\ pc'[s] = pc[s] /\ row'[s] = row[s] /\ draft'[s] = draft[s]
        /\ acct'[s] = acct[s] /\ amt'[s] = amt[s]
    BY OthersKeep
  <2>2. Posted(s)' => Posted(s)
    BY RowsKept
  <2>3. QED
    BY <2>1, <2>2 DEF OwnRow, OwnRows, AccountRow, NewRow
<1>3. QED
  BY <1>1, <1>2 DEF OwnRows

LEMMA StepReversal ==
  ASSUME TypeInv, TypeInv', Reversals, NEW r \in Requests,
         Arrive(r) \/ Proceed(r) \/ Abort(r)
  PROVE  Reversal(r)'
<1> USE DEF TypeInv
<1>1. CASE Arrive(r)
  <2>1. pc'[r] \notin {"mark", "commit", "update"}
    BY <1>1 DEF Arrive, DepositRead, WithdrawRead, InterestRead, PostRead, CancelRead
  <2>2. QED
    BY <2>1 DEF Reversal, Cancelling
<1>2. CASE Rollback(r)
  BY <1>2 DEF Rollback, Reversal, Cancelling
<1>3. CASE InterestCheck(r)
  BY <1>3 DEF InterestCheck, Reversal, Cancelling, KindPoints
<1>4. CASE CancelAccount(r)
  BY <1>4 DEF CancelAccount, Reversal, Cancelling, KindPoints
<1>5. CASE (FindExisting(r) \/ Insert(r)) /\ ~Rollback(r)
  BY <1>5 DEF FindExisting, Insert, Reversal, Cancelling, KindPoints
<1>6. CASE UpdateBalance(r)
  <2>1. Effect(r)' = Effect(r)
    BY <1>6 DEF UpdateBalance, Effect
  <2>2. /\ delta'[r] = Effect(r) /\ pc[r] = "update"
        /\ UNCHANGED <<ledger, row, acct>>
    BY <1>6 DEF UpdateBalance
  <2>3. QED
    BY <2>1, <2>2 DEF Reversal, Reversals, Cancelling
<1>7. CASE MarkCancelled(r)
  <2>1. Effect(r)' = Effect(r)
    BY <1>7 DEF MarkCancelled, Effect
  <2>2. /\ pc[r] = "mark" /\ UNCHANGED <<ledger, row, acct, delta>>
    BY <1>7 DEF MarkCancelled
  <2>3. QED
    BY <2>1, <2>2 DEF Reversal, Reversals, Cancelling
<1>8. CASE Commit(r)
  BY <1>8 DEF Commit, Reversal, Cancelling
<1>9. QED
  BY <1>1, <1>2, <1>3, <1>4, <1>5, <1>6, <1>7, <1>8 DEF Proceed, Abort

LEMMA NextReversals ==
  ASSUME TypeInv, TypeInv', Reversals, NEW r \in Requests,
         Arrive(r) \/ Proceed(r) \/ Abort(r)
  PROVE  Reversals'
<1>1. Reversal(r)'
  BY StepReversal
<1>2. ASSUME NEW s \in Requests \ {r} PROVE Reversal(s)'
  <2>1. /\ pc'[s] = pc[s] /\ row'[s] = row[s]
        /\ acct'[s] = acct[s] /\ amt'[s] = amt[s] /\ delta'[s] = delta[s]
    BY OthersKeep
  <2>2. CASE Cancelling(s)
    <3>1. row[s] \in Requests /\ Posted(row[s])
      BY <2>2 DEF Cancelling, TypeInv, CancelTarget
    <3>2. /\ ledger'[row[s]].client = ledger[row[s]].client
          /\ ledger'[row[s]].type = ledger[row[s]].type
          /\ ledger'[row[s]].amount = ledger[row[s]].amount
      BY <3>1, RowsKept
    <3>3. Effect(s)' = Effect(s)
      BY <2>1, <2>2, <3>2 DEF Effect, Cancelling
    <3>4. QED
      BY <2>1, <2>2, <3>2, <3>3 DEF Reversal, Reversals, Cancelling
  <2>3. CASE ~Cancelling(s)
    <3>1. pc[s] \in {"mark", "commit"} => Effect(s)' = Effect(s)
      BY <2>1, <2>3 DEF Effect, Cancelling
    <3>2. QED
      BY <2>1, <2>3, <3>1 DEF Reversal, Reversals, Cancelling
  <2>4. QED
    BY <2>2, <2>3
<1>3. QED
  BY <1>1, <1>2 DEF Reversals

\* The call a step answers, if it moves a balance, commits: a post and an ignored
\* interest job move none.
LEMMA AnswerMoves ==
  ASSUME TypeInv, OwnRows, NEW r \in Requests, Arrive(r) \/ Proceed(r) \/ Abort(r), ~Commit(r),
         pc'[r] = "done"
  PROVE  Kind(r) = "post" \/ (Kind(r) = "interest" /\ row'[r] = None)
<1> USE DEF TypeInv
<1>1. CASE Arrive(r)
  BY <1>1 DEF Arrive, DepositRead, WithdrawRead, InterestRead, PostRead, CancelRead, OwnRows,
     OwnRow
<1>2. CASE Rollback(r)
  BY <1>2 DEF Rollback
<1>3. CASE Proceed(r) /\ ~Rollback(r)
  BY <1>3 DEF Proceed, InterestCheck, CancelAccount, FindExisting, Insert, UpdateBalance,
     MarkCancelled, KindPoints, OwnRows, OwnRow
<1>4. QED
  BY <1>1, <1>2, <1>3 DEF Abort

\* The rows booked for a client gain at most the row of the request that steps.
LEMMA BookedStep ==
  ASSUME TypeInv, TypeInv', NEW r \in Requests, Arrive(r) \/ Proceed(r) \/ Abort(r),
         NEW c \in Clients
  PROVE  /\ BookedSum(c) \in Int
         /\ BookedSum(c)' = BookedSum(c) + (IF r \in Booked(c)' THEN Signed(ledger'[r]) ELSE 0)
<1> DEFINE S == Booked(c)
           T == Booked(c)'
           f == [s \in S |-> Signed(ledger[s])]
           g == [s \in T |-> Signed(ledger'[s])]
<1>1. ~Posted(r)
  BY DEF TypeInv, RowLifecycle, Arrive, DepositRead, WithdrawRead, InterestRead, PostRead,
     CancelRead, Proceed, InterestCheck, CancelAccount, FindExisting, Insert, UpdateBalance,
     MarkCancelled, Commit, Abort, InFlight
<1>2. S \in SUBSET Requests /\ T \in SUBSET Requests /\ r \notin S
  BY <1>1 DEF Booked
<1>3. \A s \in Requests : Posted(s) => Posted(s)' /\ Signed(ledger'[s]) = Signed(ledger[s])
                                       /\ ledger'[s].client = ledger[s].client
  BY RowsKept DEF Signed
<1>4. \A s \in Requests \ {r} : s \in S <=> s \in T
  BY <1>3, RowsKept DEF Booked
<1>5. /\ \A s \in S : f[s] = Signed(ledger[s]) /\ f[s] \in Int /\ f[s] = Signed(ledger'[s])
      /\ \A s \in T : g[s] = Signed(ledger'[s]) /\ g[s] \in Int
  <2>1. /\ \A s \in S : Posted(s) /\ ledger[s] \in L!Rows
        /\ \A s \in T : ledger'[s] \in L!Rows
    BY DEF Booked, TypeInv
  <2>2. \A t \in L!Rows : Signed(t) \in Int
    BY DEF Signed, L!Rows
  <2>3. QED
    BY <1>2, <1>3, <2>1, <2>2
<1>6. BookedSum(c) = SumOf(f, S) /\ BookedSum(c)' = SumOf(g, T)
  BY DEF BookedSum
<1>7. /\ \A s \in S : f[s] \in Int
      /\ \A s \in T : g[s] \in Int
      /\ \A s \in S : f[s] = g[s]
      /\ r \in T => g[r] = Signed(ledger'[r])
  <2> HIDE DEF S, T, f, g
  <2> QED BY <1>2, <1>4, <1>5
<1> HIDE DEF S, T, f, g
<1>8. /\ SumOf(f, S) \in Int
      /\ SumOf(g, T) = SumOf(f, S) + (IF r \in T THEN g[r] ELSE 0)
  BY <1>2, <1>4, <1>7, SumGains
<1>9. QED
  BY <1>6, <1>7, <1>8 DEF T

\* The calls without a row of their own gain at most the request that steps.
LEMMA UnbookedStep ==
  ASSUME TypeInv, TypeInv', AnswerInv, AnswerInv', NEW c \in Clients,
         NEW r \in Requests, Arrive(r) \/ Proceed(r) \/ Abort(r)
  PROVE  /\ UnbookedSum(c) \in Int
         /\ UnbookedSum(c)' = UnbookedSum(c) + (IF r \in Unbooked(c)' THEN Effect(r)' ELSE 0)
<1> DEFINE S == Unbooked(c)
           T == Unbooked(c)'
           f == [s \in S |-> Effect(s)]
           g == [s \in T |-> Effect(s)']
<1>1. pc[r] # "done"
  BY DEF Arrive, DepositRead, WithdrawRead, InterestRead, PostRead,
     CancelRead, Proceed, InterestCheck, CancelAccount, FindExisting, Insert, UpdateBalance,
     MarkCancelled, Commit, Abort, InFlight
<1>2. S \in SUBSET Requests /\ T \in SUBSET Requests /\ r \notin S
  BY <1>1 DEF Unbooked
<1>3. ASSUME NEW s \in Requests \ {r}, pc[s] = "done"
      PROVE  ServedClient(s)' = ServedClient(s) /\ Effect(s)' = Effect(s)
  <2>1. pc'[s] = pc[s] /\ row'[s] = row[s] /\ amt'[s] = amt[s]
    BY <1>3, OthersKeep
  <2>2. CASE Kind(s) = "cancel"
    <3>1. row[s] \in Requests /\ Posted(row[s])
      BY <1>3, <2>2 DEF AnswerInv, AcknowledgedIsPosted, TypeInv
    <3>2. /\ ledger'[row[s]].client = ledger[row[s]].client
          /\ ledger'[row[s]].type = ledger[row[s]].type
          /\ ledger'[row[s]].amount = ledger[row[s]].amount
      BY <3>1, RowsKept
    <3>3. QED
      BY <2>1, <2>2, <3>2 DEF ServedClient, Effect
  <2>3. CASE Kind(s) # "cancel"
    BY <2>1, <2>3 DEF ServedClient, Effect
  <2>4. QED
    BY <2>2, <2>3
<1>4. \A s \in Requests \ {r} : s \in S <=> s \in T
  <2>1. \A s \in Requests \ {r} : pc'[s] = pc[s] /\ row'[s] = row[s]
    BY OthersKeep
  <2>2. QED
    BY <1>3, <2>1 DEF Unbooked
<1>5. /\ \A s \in S : f[s] = Effect(s) /\ Effect(s) \in Int
      /\ \A s \in T : g[s] = Effect(s)' /\ Effect(s)' \in Int
  <2>1. \A s \in S : Effect(s) \in Int
    <3>1. \A s \in S : Kind(s) = "cancel" => ledger[row[s]] \in L!Rows
      BY DEF Unbooked, AnswerInv, AcknowledgedIsPosted, TypeInv
    <3>2. QED
      BY <1>2, <3>1 DEF Effect, L!Rows, TypeInv
  <2>2. \A s \in T : Effect(s)' \in Int
    <3>1. \A s \in T : Kind(s) = "cancel" => ledger'[row'[s]] \in L!Rows
      BY DEF Unbooked, AnswerInv, AcknowledgedIsPosted, TypeInv
    <3>2. QED
      BY <1>2, <3>1 DEF Effect, L!Rows, TypeInv
  <2>3. QED
    BY <2>1, <2>2
<1>6. UnbookedSum(c) = SumOf(f, S) /\ UnbookedSum(c)' = SumOf(g, T)
  BY DEF UnbookedSum
<1>7. /\ \A s \in S : f[s] \in Int
      /\ \A s \in T : g[s] \in Int
      /\ \A s \in S : f[s] = g[s]
      /\ r \in T => g[r] = Effect(r)'
  <2>1. \A s \in S : s \in T /\ Effect(s)' = Effect(s)
    BY <1>2, <1>3, <1>4 DEF Unbooked
  <2>2. QED
    <3> HIDE DEF S, T, f, g
    <3> QED BY <1>5, <2>1
<1> HIDE DEF S, T, f, g
<1>8. /\ SumOf(f, S) \in Int
      /\ SumOf(g, T) = SumOf(f, S) + (IF r \in T THEN g[r] ELSE 0)
  BY <1>2, <1>4, <1>7, SumGains
<1>9. QED
  BY <1>6, <1>7, <1>8 DEF T

\* A commit moves the balance of one client by what it adds to its account.
LEMMA CommitKeepsBooks ==
  ASSUME TypeInv, TypeInv', AnswerInv, AnswerInv', OwnRows, Reversals, NEW r \in Requests,
         Commit(r), NEW c \in Clients, ClientBalance(c) = BookedSum(c) + UnbookedSum(c)
  PROVE  ClientBalance(c)' = BookedSum(c)' + UnbookedSum(c)'
<1> USE DEF TypeInv
<1>1. /\ delta[r] \in Int /\ acct[r] \in Accounts /\ delta[r] = Effect(r)
      /\ pc[r] = "commit" /\ pc'[r] = "done" /\ row' = row /\ amt' = amt /\ acct' = acct
  BY DEF Commit, Reversals, Reversal
<1>2. /\ ClientBalance(c) \in Int
      /\ ClientBalance(c)' = ClientBalance(c) + (IF Owner[acct[r]] = c THEN delta[r] ELSE 0)
  BY <1>1, BalanceMoves DEF Commit
<1>3. /\ BookedSum(c) \in Int /\ UnbookedSum(c) \in Int
      /\ BookedSum(c)' = BookedSum(c) + (IF r \in Booked(c)' THEN Signed(ledger'[r]) ELSE 0)
      /\ UnbookedSum(c)' = UnbookedSum(c) + (IF r \in Unbooked(c)' THEN Effect(r)' ELSE 0)
  BY BookedStep, UnbookedStep DEF Proceed
<1>4. CASE Kind(r) = "cancel"
  <2>1. /\ row[r] \in Requests /\ Posted(row[r])
        /\ ledger'[row[r]].client = ledger[row[r]].client
        /\ ledger'[row[r]].type = ledger[row[r]].type
        /\ ledger'[row[r]].amount = ledger[row[r]].amount
    <3>1. row[r] \in Requests /\ Posted(row[r])
      BY <1>4, CommitLedger
    <3>2. QED
      BY <3>1, RowsKept DEF Proceed
  <2>2. Effect(r)' = Effect(r)
    BY <1>1, <1>4, <2>1 DEF Effect
  <2>3. Owner[acct[r]] = ledger[row[r]].client
    BY <1>1, <1>4 DEF Reversals, Reversal, Cancelling
  <2>4. r \notin Booked(c)'
    BY <1>4 DEF Booked, Moving
  <2>5. r \in Unbooked(c)' <=> Owner[acct[r]] = c
    <3>1. row[r] # None /\ row[r] # r
      BY <1>4, <2>1, TransactionsAssumption DEF OwnRows, OwnRow
    <3>2. ServedClient(r)' = ledger[row[r]].client
      BY <1>1, <1>4, <2>1 DEF ServedClient
    <3>3. QED
      BY <1>1, <1>4, <2>3, <3>1, <3>2 DEF Unbooked
  <2>6. QED
    BY <1>1, <1>2, <1>3, <2>2, <2>4, <2>5
<1>5. CASE Kind(r) # "cancel"
  <2>1. Kind(r) \in Moving /\ acct[r] = Op[r].account
    <3>1. Kind(r) \in Kinds /\ Kind(r) # "post"
      BY <1>1, SavingsAssumption DEF KindPoints, OpType
    <3>2. QED
      BY <1>5, <3>1 DEF Kinds, Moving, OwnRows, OwnRow
  <2>2. Effect(r)' = Effect(r)
    BY <1>1, <1>5 DEF Effect
  <2>3. ServedClient(r)' = Owner[acct[r]]
    BY <1>5, <2>1 DEF ServedClient
  <2>4. ~Posted(r) /\ row[r] \in Requests /\ row[r] # None
    BY <1>1, <1>5, TransactionsAssumption DEF RowLifecycle, AnswerInv, RowInv
  <2>5. CASE row[r] = r
    <3>1. Drafted(r) /\ draft[r] = AccountRow(r)
      BY <1>1, <1>5, <2>4, <2>5 DEF AnswerInv, RowInv, OwnRows, OwnRow
    <3>2. ledger'[r] = AccountRow(r) /\ Posted(r)'
      BY <1>5, <3>1, CommitLedger, AccountRowType DEF WithDraft
    <3>3. Signed(ledger'[r]) = Effect(r)
      BY <2>1, <3>2, RequestAssumption DEF Signed, Effect, AccountRow, NewRow, Moving
    <3>4. r \in Booked(c)' <=> Owner[acct[r]] = c
      BY <2>1, <3>2 DEF Booked, AccountRow, NewRow
    <3>5. r \notin Unbooked(c)'
      BY <1>1, <2>5 DEF Unbooked
    <3>6. QED
      BY <1>1, <1>2, <1>3, <3>3, <3>4, <3>5
  <2>6. CASE row[r] # r
    <3>1. ~Posted(r)'
      BY <1>5, <2>4, <2>6, CommitLedger DEF WithDraft, RowLifecycle
    <3>2. r \notin Booked(c)'
      BY <3>1 DEF Booked
    <3>3. r \in Unbooked(c)' <=> Owner[acct[r]] = c
      BY <1>1, <2>1, <2>3, <2>4, <2>6 DEF Unbooked
    <3>4. QED
      BY <1>1, <1>2, <1>3, <2>2, <3>2, <3>3
  <2>7. QED
    BY <2>5, <2>6
<1>6. QED
  BY <1>4, <1>5

\* No other step moves a balance, books a row for an operation or answers a call that
\* moves one.
LEMMA StepKeepsBooks ==
  ASSUME TypeInv, TypeInv', AnswerInv, AnswerInv', OwnRows, NEW r \in Requests,
         Arrive(r) \/ Proceed(r) \/ Abort(r), ~Commit(r),
         NEW c \in Clients, ClientBalance(c) = BookedSum(c) + UnbookedSum(c)
  PROVE  ClientBalance(c)' = BookedSum(c)' + UnbookedSum(c)'
<1>1. balance' = balance /\ (Posted(r)' => Kind(r) = "post")
  <2>1. ~Posted(r)
    BY DEF TypeInv, RowLifecycle, Arrive, DepositRead, WithdrawRead, InterestRead, PostRead,
       CancelRead, Proceed, InterestCheck, CancelAccount, FindExisting, Insert, UpdateBalance,
       MarkCancelled, Commit, Abort, InFlight
  <2>2. QED
    BY <2>1, LedgerStep
<1>2. ClientBalance(c)' = ClientBalance(c)
  BY <1>1 DEF ClientBalance
<1>3. r \notin Booked(c)'
  BY <1>1 DEF Booked, Moving
<1>4. r \notin Unbooked(c)'
  BY AnswerMoves DEF Unbooked, Moving
<1>5. /\ BookedSum(c) \in Int /\ UnbookedSum(c) \in Int
      /\ BookedSum(c)' = BookedSum(c) + (IF r \in Booked(c)' THEN Signed(ledger'[r]) ELSE 0)
      /\ UnbookedSum(c)' = UnbookedSum(c) + (IF r \in Unbooked(c)' THEN Effect(r)' ELSE 0)
  BY BookedStep, UnbookedStep
<1>6. QED
  BY <1>2, <1>3, <1>4, <1>5

\* The rows cancelled are those of the cancellations answered.
CancelsAnswered ==
  \A s \in Requests :
    Posted(s) => (ledger[s].status = "CANCELLED" <=>
      \E r \in Requests : Kind(r) = "cancel" /\ pc[r] = "done" /\ row[r] = s)

LEMMA StepCancels ==
  ASSUME TypeInv, AnswerInv, AnswerInv', CancelsAnswered, NEW r \in Requests,
         Arrive(r) \/ Proceed(r) \/ Abort(r)
  PROVE  CancelsAnswered'
<1> SUFFICES ASSUME NEW s \in Requests, Posted(s)'
             PROVE  ledger'[s].status = "CANCELLED" <=>
                      \E p \in Requests : Kind(p) = "cancel" /\ pc'[p] = "done" /\ row'[p] = s
  BY DEF CancelsAnswered
<1>1. ASSUME NEW p \in Requests, Kind(p) = "cancel", pc'[p] = "done", row'[p] = s
      PROVE  ledger'[s].status = "CANCELLED"
  BY <1>1 DEF AnswerInv, AcknowledgedIsPosted
<1>2. ASSUME ledger'[s].status = "CANCELLED"
      PROVE  \E p \in Requests : Kind(p) = "cancel" /\ pc'[p] = "done" /\ row'[p] = s
  <2>1. CASE Posted(s) /\ ledger[s].status = "CANCELLED"
    <3>1. PICK p \in Requests : Kind(p) = "cancel" /\ pc[p] = "done" /\ row[p] = s
      BY <2>1 DEF CancelsAnswered
    <3>2. p # r
      BY <3>1 DEF Arrive, DepositRead, WithdrawRead, InterestRead, PostRead,
         CancelRead, Proceed, InterestCheck, CancelAccount, FindExisting, Insert, UpdateBalance,
         MarkCancelled, Commit, Abort, InFlight
    <3>3. pc'[p] = pc[p] /\ row'[p] = row[p]
      BY <3>2, OthersKeep
    <3>4. QED
      BY <3>1, <3>3
  <2>2. CASE Posted(s) /\ ledger[s].status # "CANCELLED"
    <3>1. Commit(r) /\ Kind(r) = "cancel" /\ s = row[r]
      BY <1>2, <2>2, RowsKept
    <3>2. pc'[r] = "done" /\ row' = row
      BY <3>1 DEF Commit, TypeInv
    <3>3. QED
      BY <3>1, <3>2
  <2>3. CASE ~Posted(s)
    <3>1. ledger'[s].status = "COMPLETED"
      <4>1. s = r
        BY <2>3, RowsKept
      <4>2. CASE ledger' = [ledger EXCEPT ![r] = AccountRow(r)]
        BY <4>1, <4>2, AccountRowType DEF TypeInv
      <4>3. CASE Commit(r) /\ Kind(r) # "cancel" /\ ledger' = WithDraft(r)
        BY <2>3, <4>1, <4>3 DEF WithDraft, TypeInv, RowLifecycle
      <4>4. CASE /\ Commit(r) /\ Kind(r) = "cancel" /\ row[r] \in Requests /\ Posted(row[r])
                 /\ ledger' = [ledger EXCEPT ![row[r]].status = "CANCELLED"]
        BY <2>3, <4>4, CancelRow DEF TypeInv
      <4>5. QED
        BY <2>3, <4>2, <4>3, <4>4, LedgerStep
    <3>2. QED
      BY <1>2, <3>1
  <2>4. QED
    BY <2>1, <2>2, <2>3
<1>3. QED
  BY <1>1, <1>2

LEMMA NextBook ==
  TypeInv /\ TypeInv' /\ AnswerInv /\ AnswerInv' /\ BookInv /\ [Next]_vars => BookInv'
<1> SUFFICES ASSUME TypeInv, TypeInv', AnswerInv, AnswerInv', BookInv, [Next]_vars
             PROVE  BookInv'
  OBVIOUS
<1>1. ASSUME NEW r \in Requests, Arrive(r) \/ Proceed(r) \/ Abort(r)
      PROVE  BookInv'
  <2>1. OwnRows' /\ Reversals'
    BY <1>1, NextOwnRows, NextReversals DEF BookInv
  <2>2. ASSUME NEW c \in Clients PROVE ClientBalance(c)' = BookedSum(c)' + UnbookedSum(c)'
    <3>1. ClientBalance(c) = BookedSum(c) + UnbookedSum(c)
      BY DEF BookInv, BalanceMatchesLedger, BookedSum, UnbookedSum
    <3>2. OwnRows /\ Reversals
      BY DEF BookInv
    <3>3. CASE Commit(r)
      BY <3>1, <3>2, <3>3, CommitKeepsBooks
    <3>4. CASE ~Commit(r)
      BY <1>1, <3>1, <3>2, <3>4, StepKeepsBooks
    <3>5. QED
      BY <3>3, <3>4
  <2>3. CancelsAnswered'
    BY <1>1, StepCancels DEF BookInv, BalanceMatchesLedger, CancelsAnswered
  <2>4. QED
    BY <2>1, <2>2, <2>3 DEF BookInv, BalanceMatchesLedger, BookedSum, UnbookedSum, CancelsAnswered
<1>2. ASSUME \/ \E a \in Accounts : OpenAccount(a)
             \/ \E c \in Clients : ClientChanges(c)
             \/ UNCHANGED vars
      PROVE  BookInv'
  <2>1. UNCHANGED <<balance, ledger, draft, row, pc, acct, amt, delta>>
    BY <1>2 DEF OpenAccount, ClientChanges, vars
  <2>2. OwnRows' /\ Reversals'
    BY <2>1 DEF BookInv, OwnRows, OwnRow, Reversals, Reversal, AccountRow, NewRow, Effect,
       Cancelling
  <2>3. BalanceMatchesLedger'
    <3>1. \A c \in Clients : Booked(c)' = Booked(c) /\ Unbooked(c)' = Unbooked(c)
      BY <2>1 DEF Booked, Unbooked, ServedClient
    <3>2. ASSUME NEW c \in Clients
          PROVE  BookedSum(c)' = BookedSum(c) /\ UnbookedSum(c)' = UnbookedSum(c)
      BY <2>1, <3>1 DEF BookedSum, UnbookedSum, Effect
    <3>3. QED
      BY <2>1, <3>2 DEF BookInv, BalanceMatchesLedger, ClientBalance, BookedSum, UnbookedSum
  <2>4. QED
    BY <2>2, <2>3 DEF BookInv
<1>3. QED
  BY <1>1, <1>2 DEF Next

LEMMA InitBook == Init => BookInv
<1> SUFFICES ASSUME Init PROVE BookInv
  OBVIOUS
<1>1. OwnRows /\ Reversals
  BY DEF Init, TransactionsInit, OwnRows, OwnRow, Reversals, Reversal, Cancelling
<1>2. ASSUME NEW c \in Clients PROVE ClientBalance(c) = BookedSum(c) + UnbookedSum(c)
  <2>1. Booked(c) = {} /\ Unbooked(c) = {}
    BY DEF Init, TransactionsInit, Booked, Unbooked
  <2>2. BookedSum(c) = 0 /\ UnbookedSum(c) = 0
    BY <2>1, SumEmpty DEF BookedSum, UnbookedSum
  <2>3. ClientBalance(c) = 0
    BY SumZero, SavingsAssumption, FS_Subset DEF ClientBalance, Init
  <2>4. QED
    BY <2>2, <2>3
<1>3. QED
  BY <1>1, <1>2 DEF BookInv, BalanceMatchesLedger, BookedSum, UnbookedSum, Init, TransactionsInit

\* What a client owns is accounted for to the cent, at every instant, for any accounts,
\* amounts, rate, keys and number of interest workers, whatever overlaps or rolls back.
THEOREM BalancesMatch == Spec => []BalanceMatchesLedger
<1>1. Init => BookInv
  BY InitBook
<1>2. BookInv => BalanceMatchesLedger
  BY DEF BookInv
<1>3. TypeInv /\ TypeInv' /\ AnswerInv /\ AnswerInv' /\ BookInv /\ [Next]_vars => BookInv'
  BY NextBook
<1>4. QED
  BY <1>1, <1>2, <1>3, TypeInvariant, AnswerInvariant, PTL DEF Spec

-----------------------------------------------------------------------------
(***************************************************************************)
(* Circles.  Of the requests that hold an account, only a withdrawal may   *)
(* still have to wait, and only for a key.                                 *)
(***************************************************************************)

HoldersInv ==
  \A a \in Accounts :
    lock[a] # None =>
      /\ acct[lock[a]] = a
      /\ \/ pc[lock[a]] = "commit"
         \/ pc[lock[a]] = "mark"
         \/ Kind(lock[a]) = "withdraw" /\ pc[lock[a]] \in {"find", "insert", "update"}

LEMMA RollbackHolders ==
  ASSUME TypeInv, HoldersInv, NEW r \in Requests, Rollback(r)
  PROVE  HoldersInv'
<1>1. \A a \in Accounts : lock'[a] # None => lock'[a] = lock[a] /\ lock[a] # r
  BY DEF Rollback
<1>2. \A s \in Requests \ {r} : pc'[s] = pc[s] /\ acct'[s] = acct[s]
  BY DEF Rollback, TypeInv
<1>3. QED
  BY <1>1, <1>2 DEF HoldersInv, TypeInv

\* A step that takes and frees no lock, and leaves a holder where holders may be.
LEMMA KeepHolders ==
  ASSUME TypeInv, HoldersInv, NEW r \in Requests, lock' = lock,
         \A s \in Requests \ {r} : pc'[s] = pc[s] /\ acct'[s] = acct[s],
         \/ pc[r] \notin {"commit", "mark"} /\ Kind(r) # "withdraw"
         \/ pc[r] \in {"idle", "done", "failed"}
         \/ /\ acct'[r] = acct[r]
            /\ pc'[r] = "commit" \/ (Kind(r) = "withdraw" /\ pc'[r] \in {"insert", "update"})
  PROVE  HoldersInv'
BY DEF HoldersInv, TypeInv

LEMMA NextHolders == TypeInv /\ HoldersInv /\ [Next]_vars => HoldersInv'
<1> SUFFICES ASSUME TypeInv, HoldersInv, [Next]_vars PROVE HoldersInv'
  OBVIOUS
<1> USE DEF TypeInv
<1>1. ASSUME NEW r \in Requests, Arrive(r) \/ Proceed(r) \/ Abort(r)
      PROVE  HoldersInv'
  <2>0. \A s \in Requests \ {r} : pc'[s] = pc[s] /\ acct'[s] = acct[s]
    BY <1>1, OthersKeep
  <2>1. CASE DepositRead(r) \/ InterestRead(r) \/ PostRead(r) \/ CancelRead(r)
    <3>1. lock' = lock /\ pc[r] = "idle"
      BY <2>1 DEF DepositRead, InterestRead, PostRead, CancelRead
    <3>2. QED
      BY <2>0, <3>1, KeepHolders
  <2>2. CASE WithdrawRead(r)
    <3>1. /\ pc[r] = "idle" /\ acct' = acct
          /\ \/ lock' = lock
             \/ /\ lock' = [lock EXCEPT ![acct[r]] = r]
                /\ pc'[r] = "find" /\ Kind(r) = "withdraw"
      BY <2>2 DEF WithdrawRead, ForUpdate
    <3>2. CASE lock' = lock
      BY <2>0, <3>1, <3>2, KeepHolders
    <3>3. CASE lock' = [lock EXCEPT ![acct[r]] = r] /\ pc'[r] = "find" /\ Kind(r) = "withdraw"
      BY <2>0, <3>1, <3>3 DEF HoldersInv
    <3>4. QED
      BY <3>1, <3>2, <3>3
  <2>3. CASE InterestCheck(r) \/ CancelAccount(r)
    <3>1. lock' = lock /\ pc[r] \notin {"commit", "mark"} /\ Kind(r) # "withdraw"
      BY <2>3 DEF InterestCheck, CancelAccount, KindPoints
    <3>2. QED
      BY <2>0, <3>1, KeepHolders
  <2>4. CASE (FindExisting(r) \/ Insert(r)) /\ ~Rollback(r)
    <3>1. /\ lock' = lock /\ acct' = acct /\ pc[r] \in {"find", "insert"}
          /\ Kind(r) = "withdraw" => pc'[r] \in {"insert", "update"}
      BY <2>4 DEF FindExisting, Insert
    <3>2. QED
      BY <2>0, <3>1, KeepHolders
  <2>5. CASE UpdateBalance(r)
    <3>1. /\ lock' = [lock EXCEPT ![acct[r]] = r] /\ acct' = acct
          /\ pc'[r] \in {"mark", "commit"}
      BY <2>5 DEF UpdateBalance
    <3>2. QED
      BY <2>0, <3>1 DEF HoldersInv
  <2>6. CASE MarkCancelled(r)
    <3>1. lock' = lock /\ acct' = acct /\ pc'[r] = "commit"
      BY <2>6 DEF MarkCancelled
    <3>2. QED
      BY <2>0, <3>1, KeepHolders
  <2>7. CASE Commit(r)
    <3>1. \A a \in Accounts : lock'[a] # None => lock'[a] = lock[a] /\ lock[a] # r
      BY <2>7 DEF Commit
    <3>2. QED
      BY <2>0, <3>1 DEF HoldersInv
  <2>8. CASE Rollback(r)
    BY <2>8, RollbackHolders
  <2>9. QED
    BY <1>1, <2>1, <2>2, <2>3, <2>4, <2>5, <2>6, <2>7, <2>8 DEF Arrive, Proceed, Abort
<1>2. CASE \/ \E a \in Accounts : OpenAccount(a)
           \/ \E c \in Clients : ClientChanges(c)
           \/ UNCHANGED vars
  BY <1>2 DEF OpenAccount, ClientChanges, HoldersInv, vars
<1>3. QED
  BY <1>1, <1>2 DEF Next

\* Follow a circle: whoever waits for a key waits for somebody who waits for an account,
\* and the holder of that account, who waits too, is a withdrawal that waits for a key.
LEMMA CircleShares ==
  ASSUME TypeInv, HoldersInv
  PROVE  CirclesShareKey
<1> SUFFICES ASSUME NEW S \in SUBSET Requests, Circle(S)
             PROVE  \E r, s \in S : /\ r # s /\ Op[r].key = Op[s].key
                                    /\ Kind(r) = "withdraw"
  BY DEF CirclesShareKey
<1>1. /\ S # {}
      /\ \A r \in S : \E s \in S : WaitsFor(r, s)
  BY DEF Circle
<1>2. \A r \in S : pc[r] \in {"insert", "update", "mark"}
  BY <1>1 DEF WaitsFor
<1>3. \A r \in S : pc[r] # "mark"
  BY <1>1, <1>2 DEF WaitsFor, HoldsRow
<1>4. ASSUME NEW r \in S, pc[r] = "insert"
      PROVE  \E s \in S : r # s /\ Op[s].key = Op[r].key /\ pc[s] = "update"
  <2>1. PICK s \in S : r # s /\ Drafted(s) /\ draft[s].key = Op[r].key
    BY <1>1, <1>4 DEF WaitsFor, HoldsKey
  <2>2. Op[s].key = Op[r].key
    BY <2>1 DEF TypeInv, RowLifecycle
  <2>3. pc[s] = "update"
    BY <1>2, <2>1 DEF TypeInv, RowLifecycle
  <2>4. QED
    BY <2>1, <2>2, <2>3
<1>5. PICK u \in S : pc[u] = "update"
  BY <1>1, <1>2, <1>3, <1>4
<1>6. PICK h \in S : u # h /\ lock[acct[u]] = h
  BY <1>1, <1>5 DEF WaitsFor
<1>7. /\ acct[h] = acct[u]
      /\ \/ pc[h] = "commit"
         \/ pc[h] = "mark"
         \/ Kind(h) = "withdraw" /\ pc[h] \in {"find", "insert", "update"}
  <2>1. acct[u] \in Accounts /\ h # None
    BY TransactionsAssumption DEF TypeInv
  <2>2. QED
    BY <1>6, <2>1 DEF HoldersInv
<1>8. pc[h] # "update"
  <2>1. ASSUME pc[h] = "update" PROVE FALSE
    <3>1. PICK x \in S : h # x /\ lock[acct[h]] = x
      BY <1>1, <2>1 DEF WaitsFor
    <3>2. QED
      BY <1>6, <1>7, <3>1
  <2>2. QED
    BY <2>1
<1>9. Kind(h) = "withdraw" /\ pc[h] = "insert"
  BY <1>2, <1>3, <1>7, <1>8
<1>10. QED
  BY <1>4, <1>9

\* Callers wait for each other in a circle only if a withdrawal and another of them were
\* given one key: for any accounts, keys and requests.
THEOREM CirclesNeedSharedKey == Spec => []CirclesShareKey
<1>1. Init => HoldersInv
  BY DEF Init, TransactionsInit, HoldersInv
<1>2. TypeInv /\ HoldersInv => CirclesShareKey
  BY CircleShares
<1>3. QED
  BY <1>1, <1>2, NextHolders, TypeInvariant, PTL DEF Spec
=============================================================================
