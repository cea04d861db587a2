# AUTOGO: models, checks and proofs

AUTOGO is the back end of a microfinance institution (NestJS, Prisma, PostgreSQL,
Redis with BullMQ queues). Agents of a branch open accounts for clients, take
deposits, collect tontines, lend and receive repayments; jobs pay interest and mark
what is late. What the code must get right is money under concurrency: a row of the
ledger and the balance, installment or collection it stands for are written by
different statements, clients retry calls under an idempotency key, and almost
nothing is read `FOR UPDATE`.

The modules here state what those operations do at PostgreSQL's READ COMMITTED, TLC
checks small instances of them, and TLAPS proves the most important results for
every value of the constants.

## 1. The system

| Component | State | Operations | Interacts with |
|---|---|---|---|
| Ledger (`modules/transactions`) | `transactions` rows, key unique, status COMPLETED or CANCELLED | `createTransaction` (within a caller's transaction, or alone for `POST /transactions`), `cancelTransaction` | called by savings, loans, tontines; queues receipts; a cancellation writes savings balances |
| Savings (`modules/savings`) | `savings_accounts.balance` | `openAccount`, `deposit`, `withdraw`, passbook | ledger, settings (rate) |
| Interest (`interest.processor`, its scheduler) | a queue | monthly job per active account | savings, ledger |
| Loans (`modules/loans`) | `loans.status`, `loan_schedules` | create, submit, approve, reject, disburse, repay, reschedule | ledger, settings, e-mail |
| Overdue check (`overdue.processor`, its scheduler) | a queue | daily job per late installment | loans |
| Tontines (`modules/tontines`) | `tontine_cycles.status`, `tontine_collections` | createCycle, validateCollection, closeCycle | ledger, settings, e-mail |
| Missed collections (processor, scheduler) | a queue | nightly job per late day | tontines |
| Clients (`modules/clients`) | `clients`, phone unique, `deletedAt` | create, update, remove, reactivate | read by every operation above |
| Users, branches (`modules/users`, `branches`) | `users`, e-mail unique; `branches`, code unique; `deletedAt` | create, update, remove, reactivate | read by the guards |
| Own account (`modules/auth`) | code and secret of a user | change contact, send and check a code, set up the second factor | users, e-mail, SMS |
| Client portal (`modules/client-portal`) | password of a client | activate, log in, read | clients |
| Receipts (`modules/notifications`) | `transactions.receiptUrl`, a queue | generate a PDF, store its address | ledger, uploads |
| Sessions (`modules/auth`) | `refresh_tokens` in families | login, refresh (rotation), logout, revoke | users |
| Settings (`modules/settings`) | a row per key, a Redis entry for an hour | get, set | loans, tontines, savings |
| Seed (`prisma/seed.ts`) | roles, permissions, grants, first user, settings | one run | guards, settings |
| Calendars (in `loans`, `tontines`) | none | due dates of a loan, days of a cycle | loans, tontines |
| Dashboard, reports (`modules/dashboard`) | `reports.status`, a queue | request, generate | SQL views over the ledger |
| Audit, uploads, filters, guards, health | none, or write-only | | |

What is hard, and what is correct, component by component:

- **Ledger.** Two calls under one key race between `findUnique` and `create`; a call may be
  refused, rolled back after its insert, or answered with the row of another. Correct: one
  row per key, a success is backed by a committed row, a row only goes from COMPLETED to
  CANCELLED and only if its type can be reversed.
- **Savings.** Two writes per operation, locks taken in different orders. Correct: balances
  are what the ledger and the answered calls account for, a withdrawal is covered, requests wait in a
  circle only where a withdrawal and another call carry one key, and PostgreSQL breaks that circle.
- **Interest.** A job may be queued twice. Correct: once per account and month.
- **Loans.** A status machine whose steps read, wait, and set by id; a schedule that several
  requests pay, cancel and extend. Correct: the contract (`LoanContract`), the
  money leaves once, no cent is lost, settled installments stay settled, requests wait in a circle only
  around a reschedule.
- **Tontines.** Correct: every collected day has its own row, as many rows as days, the client
  gets back no more than what was collected less the commission, and twice only by closings that overlap.
- **Sessions.** A refresh is a read, a revocation and an insert, each committed by itself. Correct:
  an exchanged token is never usable next to its successor, a session that ended stays ended,
  a family has one usable token unless two refreshes exchanged the same one.
- **Receipts and reports.** A row in PostgreSQL and a job in Redis share no transaction. Correct: a
  report that is asked for leaves PENDING, and what it shows in the end is not older than
  the last request; a posting gets its receipt, which the code does not ensure (section 5).
- **Settings and views** are copied to Redis by readers that may be older than the write. Correct:
  the copy only ever holds what the table held, differs from it only after calls that
  overlapped or died, and agrees again in the end.
- **Seed.** Upserts that commit one by one, on whatever an earlier run left. Correct: a run
  that ends has repaired everything and overwrites no rate.
- **Clients, users, branches, portal.** A check and a write by id, in separate statements.
  Correct: a key has one row, removed ones included; a removal is undone by a reactivation only; an
  e-mail opens one client's account unless it was given by an edit or by activations that overlap.
- **Own account.** One column serves two kinds of code, and every call reads, then writes.
  Correct: the last code sent works, once; a login that asks for a code has a secret; both but for calls
  that overlap.
- **Calendars.** Loops over days with JavaScript's rules for months and Sundays. Correct: in order, no
  allowed day skipped or added, no drift, and the loop ends.

`PROJECT.json` lists the hazards, each at its line, and the properties that watch it.

## 2. Modules

| Module | What it models |
|---|---|
| `Ledger` | what the table of transactions promises its readers: post a row, cancel a reversible one, nothing else |
| `Transactions` | `createTransaction` and what every caller shares: requests, keys, drafts (rows inserted and not committed), clients removed |
| `Savings` | accounts, the four requests on them, `POST /transactions`, `cancelTransaction`, the interest job |
| `LoanContract` | the life of a loan seen from outside, as its status |
| `Loans` | one loan: the seven operations and the overdue job |
| `Tontine` | one cycle: creation, collections, closing, the missed job |
| `Sessions` | the refresh tokens of one user: login, refresh, logout, revocations, reset, expiry, crashes |
| `Documents` | receipts against the commit of their row; monthly reports, their requests, queue and worker |
| `Setup` | the batches of the seed, its runs, and the grants that the permission guard reads |
| `Settings` | get and set of a setting, the cached views of the dashboard, and the seed next to them |
| `Directory` | users, clients and branches: creation, edits, removal, reactivation; activation in the portal |
| `Accounts` | what a user does to its own account: contact, codes, second factor; next to `Directory` |
| `Calendar` | the loops that compute the due dates of a loan and the days of a cycle |
| `TransactionsProofs`, `SavingsProofs`, `LoansProofs`, `TontineProofs`, `SessionsProofs`, `DocumentsProofs`, `SettingsProofs`, `AccountsProofs` | theorems |
| `MCSavings`, `MCLoans`, `MCTontine`, `MCSessions`, `MCDocuments`, `MCSettings`, `MCAccounts`, `MCCalendar` | instances for TLC |

`Savings`, `Loans` and `Tontine` each EXTEND `Transactions`. They do not share state other than
the ledger's rows and keys and the clients, which is why they are checked apart. `Sessions` and
`Documents` stand alone: no handler of theirs opens a `$transaction`, so every statement commits
by itself and a failure (`Crash`, `Abort`, `Throw`) leaves what was done before it. In `Sessions` a token
is named by the request that issued it. In `Documents` the figures of a report are the set of
postings that were committed when the job ran its queries; `waiting` counts the jobs of a report, in
any order, which includes the order of the queue; `given` records the reports whose job was
lost by a failure that nothing repairs.

`Settings` EXTENDS `Setup`: the seed and the handlers write the same table of settings, and the
guard of `set` reads the grants that a run of the seed may not have written yet. A setting and a
cached view of the dashboard differ in who changes them: `set` stores its value in Redis after
the upsert, a posting leaves the copy of the view alone. `past` (what the table has held) and
`raced` (what was written while an older value was on its way to the cache) are history variables. So are
`met` in `Tontine`, `Directory` and `Accounts` (calls that were in flight together, of the kinds whose overlap can
be told from the result) and `exchanged` and `began` in `Sessions` (who exchanged a token, and what it had
seen exchanged when it read it): they let a property say that an overlap, and nothing else, is the cause.
A run of the seed that fails stops, and another starts from `Leftovers`, any prefix of what a
run writes.

`Accounts` EXTENDS `Directory`: a user changes its own e-mail while an administrator edits or
removes its row; it may change e-mail and phone in one call. The three tables have one set of actions, since their handlers are the
same three statements; `Conflicting` and `BranchCheck` hold what differs. A row, a code and a
secret are named by the request that made them. Failures need no rollback: no handler here
opens a transaction.

In `Calendar` a day is a number and `FirstOf` gives the first day of each month, so that
`setMonth` and `setDate` are arithmetic, overflow into the next month included. Each turn of a loop is
a step. Times of day and time zones are left out: the code adds whole days and months in the
server's zone.

### How the code appears

- A **request** is one call of a handler or one execution of a job, with the arguments
  `Op[r]`. Its `pc` is the `await` it is suspended at; an action runs from one `await`
  to the next, and is what one statement of the database does. An action is named for
  that piece of the handler (`FindExisting` and `Insert` are the two statements of
  `createTransaction`, `InterestCheck` the second read of the job, and so on).
- What a **`$transaction`** has written stays in `draft`, `delta`, `touched`, `loanWrite`,
  `holds` or `closing` until `Commit` publishes it: statements of others read committed
  state only, its own read its writes (`View`). `Rollback` drops it. Row locks and entries of
  unique indexes are held meanwhile, and an action of another request that needs them is not
  enabled: it waits. `FOR UPDATE` exists in one place, `withdraw`.
- **Rows are locked one at a time**, as the code and PostgreSQL do: `PayInstallments` is one turn of the loop of
  awaited updates in `recordRepayment`, `CancelInstallments` one row of the scan of `updateMany` in
  `reschedule`, in any order. A request that holds some rows may wait for others, and circles can form.
- **Circles** are PostgreSQL's to break: its deadlock detector rolls one of the transactions back. In the
  models that is an `Abort`; `BreakCircle`, in the fairness of `Savings`, says that one happens while
  transactions wait in a circle. The detector sees what transactions wait for, and nothing else: a request
  that waited for a lock its own other connection holds would wait for ever.
- A statement outside a transaction (`approve`, the jobs' `updateMany`) commits by itself.
- **`Abort`** rolls an open transaction back at any point: Prisma's timeout, a lost
  connection, a crash of the process. Jobs and calls that come back are other requests
  with the same arguments: a retry after a lost answer is a request with the same key.
- A row of the ledger is named by the request that created it; `row[r]` is the row a request
  was given by `createTransaction`, its own or the one it found.
- **Access rules** (branch, agent, role) are the constant `InScope`: a request outside
  it is refused where its handler checks.
- **Clients** may be removed and reactivated at any point.
- **Amounts** are integers, in cents; rates are fractions; the roundings of the code
  (down to 50 francs for installments, to two decimals for a column) are in the model.
- `Int` is unbounded: `Decimal(15, 2)` is far from its limit, and no property is about it.

External definitions (marked so in the map) are PostgreSQL's locks, unique indexes, commit and
rollback, and Prisma's abort, modelled from how `src/` relies on them.

## 3. Properties

| Module | Property | Meaning |
|---|---|---|
| Savings | `BalanceMatchesLedger` | a client's balances are, at every instant and whatever overlaps, its booked rows, plus what calls answered with a found row moved again, less one reversal per answered cancellation; a row is CANCELLED exactly when a cancellation was answered |
| | `WithdrawalCovered` | no withdrawal commits that the balance does not cover |
| | `InterestOncePerMonth` | the job applies interest once, however often it is queued |
| | `KeyOnce` | two committed rows never share a key |
| | `AcknowledgedIsPosted` | a success is backed by a committed row |
| | `LedgerRefined` | `Savings` implements `Ledger` |
| | `CirclesShareKey` | requests wait in a circle only if a withdrawal and another of them carry one key: locks alone never close one |
| | `Answered` | every request received is answered, while PostgreSQL breaks the circles it sees |
| Loans | `DebtConserved` | what is owed plus what was received is principal, interest, penalties and exactly what overlapping requests took more than once, for repayments with a key each |
| | `PaidInOrder` | oldest installments are paid first |
| | `BookletMatchesLedger` | a repayment row pays for installments of its own that add up to its amount, unless another request took one of them; without that the booklet shows what the ledger received; for repayments with a key each |
| | `ContractKept` | `Loans` implements `LoanContract` |
| | `DisbursedOnce` | the money leaves once |
| | `NumbersHaveNoGap` | installment numbers have no gap |
| | `SettledStays` | a paid or cancelled installment never becomes due again |
| | `NeverShort` | whatever overlaps, no more is shown as paid than was received, and no debt disappears; for repayments with a key each |
| | `CirclesNeedReschedule` | requests wait in a circle only around a reschedule that has cancelled some of its installments and not all |
| Tontine | `CollectionBacked` | each collected day has a committed row of its own |
| | `CollectionsMatchLedger` | the collection rows add up to the collected days |
| | `NeverOverpaid` | no payout exceeds what was collected, less the commission, and two payouts come only from closings that were in flight together |
| | `MissedSparesCollected` | the missed job never undoes a collection |
| Sessions | `RotatedIsRevoked` | a token that was exchanged is revoked once its successor exists |
| | `OneLive` | a family has one usable token, unless two refreshes exchanged one token, each having read it before the other did |
| | `EndedStays` | a session that ended never comes back |
| Documents | `PendingIsServed` | a PENDING report has a job, or a request about to add one, or was given up |
| | `ReadyIsCurrent` | with its jobs over, a READY report has a file that counts what was posted before it was last asked for |
| | `ReportSettles` | a report leaves PENDING in the end, or was given up |
| Setup | `SeedRepairs` | a run of the seed that ends has put everything in place, whatever was there |
| Settings | `ServedWasStored` | no reader is given, and the cache does not hold, what the table has not held |
| | `StaleNeedsRace` | a cached setting is old only after an overlap, a death, or right before its change is published; never because the seed overwrote it |
| | `FreshInTheEnd` | the cache agrees with the table in the end |
| Directory | `KeysUnique` | an e-mail, a phone, a code has one row, removed ones included |
| | `OneAccountPerEmail` | an e-mail opens one client's account, unless an edit gave it or two activations that were under way together did |
| Accounts | `RemovedStays` | only a reactivation undoes a removal, only a removal removes |
| | `SentCodeWorksOnce` | the last code sent is accepted until it expires, once; only a verification that overlaps loses it or accepts it again |
| | `MfaHasSecret` | a login that asks for a code has a secret to check it with, unless an enable and a disable were under way together |
| Calendar | `EveryAllowedDay` | a later number is due later; DAILY dates and days of a cycle are all the allowed days and no other |
| | `MonthlyNearby` | never two dates of a monthly loan in one month, three days of drift at most |
| | `Ends` | every loop ends |

The types of every module but `Calendar` are theorems (`TypeCorrect`), for any instance, and no run
spends its time on them; `MonthlyNearby` and `EveryAllowedDay` speak of every variable of `Calendar`.

## 4. Runs

| Run | Instance | Result |
|---|---|---|
| `savings_core` | a deposit, two withdrawals that it cannot both cover, the interest job twice, two cancellations that may overlap; two accounts; one worker | holds |
| `savings_retry` | a withdrawal, a deposit and a hand-posted row under one key, so that a circle forms; another deposit, the interest job, a cancellation out of scope; fairness | holds |
| `loans_life` | a whole loan with a reschedule and a repayment of zero; one request at a time plus the overdue job, which runs at any point of the others | holds |
| `loans_concurrent` | two approvals, two disbursements, two repayments of both installments, three reschedules with a penalty; two requests at a time | holds |
| `tontine_cycle` | a collection and its retry, another day under the same key, two closings with a key each and a retry of the first, the missed job | holds |
| `sessions_family` | two logins, three refreshes of one family (two of the same token), a logout, a revocation of one session and of the others, a reset; in any overlap | holds |
| `documents_jobs` | a request for a report and the monthly cron on two reports, a posting inside a transaction and one outside, one worker, one death of it; fairness | holds |
| `settings_cache` | a reader and two writers of one rate, a reader and a change of one view, a run of the seed after any partial run; fairness | holds |
| `accounts` | six waves of calls (below) on one branch, one user, two clients and what they create | holds |
| `calendar_dates` | loans of each frequency, asked with Monday to Friday, Tuesday and Thursday, or nothing, and cycles with four choices of weekdays, from eleven days of 2027; fairness | holds |
| `savings_retry_effect` | a deposit sent twice | `RetryHasNoEffect` fails |
| `documents_receipt_missed` | a posting inside a transaction | `ReceiptNotMissed` fails |

Two more configurations, `savings_cancel_twice.cfg` (of `MCSavings`) and `loans_paid_twice.cfg` (of
`MCLoans`), show the disagreements 3 and 4 of section 5; TLC finds `CancelledOnce` and `PaidOnce` violated.

**Bounds.** The instances are the smallest in which each race has its actors: two requests
that collide, the request that created what they collide on, and one bystander (a
job, a removal, a cancellation). A third colliding request adds an order, not a kind of
step: locks are exclusive and keys are compared in pairs. Two accounts of one client are what
a cancellation can confuse; two days are what one row can serve twice; two installments and
a reschedule to three are what imputation, rounding (a remainder, and installments of
zero) and renumbering need. `MaxNumber` is the largest installment number: the assumption
`RoomAssumption` says it leaves room for every reschedule. The table of requests is finite:
each request runs once. A third refresh is what reuse needs, after a rotation; a second report is
what the cron leaves out when it fails half way; `MaxStalls` bounds the deaths of the worker.
`CHECK_DEADLOCK FALSE` in the runs of loans, tontines, sessions, documents, settings, accounts and
calendars: when every request is done, or the loop is over, nothing is left to do.
`Waves` are the calls of `accounts` that may come together, grouped by the rows and columns they touch, so that
checking each wave by itself loses little but their product; activations are in two waves, one with a
second registration and an edit of the phone, one with an edit of the e-mail. Three reschedules, two at a
time, let two append at once after a third has moved the numbers. `Seeds` is one run, after any partial
one. `LastMonth` bounds the calendar: seventeen months from January 2027 hold the longest plan, nine months, from
the latest start, the last of July (`HorizonAssumption` says that every plan ends before the calendar does). The
starts are days whose next months are shorter, a working day and a Sunday.

**Variants.** A definition `Name_Variant` is `Name` with one mistake (a dropped check, a write
outside the transaction, a lock not taken). It is no part of the model: `PROJECT.json` pairs
each property with the variant that breaks it.

**Three constants say how much runs at once.** `InterestWorkers` is the number of interest jobs executing at a
time and `Workers` are the report jobs at a time: one by default in BullMQ and in the code (no
`concurrency` is set), and with more than one the properties about them fail (section 5). `Desks` is a
bound of the runs and of nothing else: the number of loan requests in flight at a time on one loan, one in
`loans_life`, two in `loans_concurrent`. The theorems hold for any number of desks; only the contract of a
loan is checked with one, since late decisions and overlapping requests break it (section 5).

**Overlaps.** Nothing in the code keeps two calls on one loan, cycle, account or session apart, and several
handlers read without a lock and write by id. The properties about them hold in every overlap, and say what
it can cost: `BalanceMatchesLedger`, `DebtConserved` and `BookletMatchesLedger` count what calls moved or took
again, and `NeverOverpaid`, `OneLive`, `OneAccountPerEmail`, `SentCodeWorksOnce` and `MfaHasSecret` name the
calls that must have been under way together for the bad case, which the runs reach.

**Fairness.** `FairSpec` assumes weak fairness of the step each received request is suspended
at: Node resumes a handler when its statement returns, and PostgreSQL grants a lock that
is free. It assumes nothing of arrivals, aborts, removals or reactivations. A weak fairness of
the waiting step is enough, because a request that waits for a lock or key is only ever
delayed by finitely many others, or waits in a circle. Circles do form: in `savings_retry` a withdrawal holds
the account and waits for the key that a deposit has, which waits for the account. `Fairness` of `Savings`
therefore includes `BreakCircle`, PostgreSQL's deadlock detector, and `CirclesShareKey` says where circles
can be. `Answered` does not follow from that alone: a call that waited for a lock of its own through another
connection (a balance updated outside the transaction, its mutant) waits where the detector sees no circle.
In `Loans` liveness is not checked: which circles form is `CirclesNeedReschedule`, and each is an `Abort` away.
In `Documents` it is the request that has begun, and the worker,
that go on: BullMQ gives a waiting job to an idle worker.
In `Settings`, Redis drops an entry when its time is over, and a request that began goes on; nothing
makes requests come or the seed go on. In `Calendar` the loop goes on: it awaits nothing.

## 5. Where the code and its words disagree

Kept as runs, with the counterexample TLC finds and the line it contradicts in `PROJECT.json`:

1. A deposit sent twice under one key makes one row and moves the balance twice
   (`savings.service.ts:100`): `createTransaction` returns the existing row, and the callers do
   not distinguish that from a new one. `schema.prisma:266` says of the key: "evite les doublons en
   cas de double appel reseau".
2. A receipt job that runs before its transaction commits finds no row and is over; the posting
   never gets its receipt (`transactions.service.ts:93`).

With a configuration each, outside the runs:

3. Two cancellations that overlap both reverse the balance (`transactions.service.ts:154`); the test of
   `cancelTransaction` says that a cancelled row is not cancelled again.
4. Two repayments that overlap both pay the first installment (`loans.service.ts:479`): the ledger has two rows,
   the booklet one. `DebtConserved` says by how much the client then owes too much.

Seen in the same models, of the same causes (read without a lock, then written by id; a
returned row taken for a new one), and not kept as runs:

- two reschedules that overlap double the remaining debt (`loans.service.ts:577`); a repayment and a reschedule, or two
  reschedules, can each hold an installment that the other waits for (`:478`, `:557`), and PostgreSQL aborts one;
- two closings that overlap under different keys pay the client twice (`tontines.service.ts:201`);
- two refreshes of one token that overlap leave two usable tokens (`auth.service.ts:128`), and a
  refresh that has rotated and not yet issued survives a logout, revocation or reset (`:309`);
- a job that began before a report was asked for again sets READY over the new PENDING
  (`report.processor.ts:72`), until the next job is over; a failure between the upsert and the
  add leaves PENDING for ever (`dashboard.service.ts:113`);
- with two interest workers, the second job of a month adds the interest again
  (`interest.processor.ts:69`);
- a cancellation acts on the first active account of the client, not the one the row moved
  (`transactions.service.ts:165`), and checks the balance without a lock, so it may leave it
  negative (`:176`), although the comment above says the row is locked;
- a repayment retried under its key pays the *next* installment with the first call's row
  (`loans.service.ts:465`);
- a deposit or withdrawal posted by hand moves no balance, and its cancellation moves one
  (`transactions.controller.ts:44`, `transactions.service.ts:181`);
- an approval and a rejection that overlap overwrite each other (`:118`), even after a
  disbursement; the money leaves once all the same, which `DisbursedOnce` proves;
- a reschedule cancels an installment that a repayment paid meanwhile (`:557`);
- a day collected at the same time under two keys has two rows, and a day collected after, or
  during, the closing of its cycle is never given back (`tontines.service.ts:123`, `:173`);
- a reader that missed the cache stores the old rate after `set` has stored the new one, and
  every loan of the next hour gets it (`settings.service.ts:20`); two overlapping `set` may leave the
  other's value in the cache;
- two activations of one client that overlap both set the password, and the second stays; two
  activations of two clients that overlap open two accounts with one e-mail, as does an edit of a client's
  e-mail, which nothing checks (`client-portal/auth/auth.service.ts:32`, `:49`, `clients.service.ts`). The
  e-mail is compared without case with the client's own (`:38`) and with case with the others' (`:49`);
- a client registered again under the phone of a removed one passes the check, which looks at
  live clients, and fails on the index, which does not (`clients.service.ts:67`);
- `enableMfa` and `disableMfa` that overlap leave a second factor without a secret, and its user cannot log
  in (`auth.service.ts:400`); a new secret replaces that of an account whose second factor is on (`:376`);
- two verifications that overlap both accept one code, and a code sent to the old address
  verifies the new one after `updateContact` (`auth.service.ts:182`); an administrator's edit of a user's e-mail
  (`users.service.ts`) leaves it verified;
- the weekdays a DAILY loan is asked with are checked and not stored (`loans.service.ts:75`), although
  `create-loan.dto.ts:45` says "Jours autorises pour frequence DAILY, lundi-vendredi par defaut"; a cycle
  whose weekdays are outside 1 to 7 has no day at all;
- a MONTHLY loan disbursed on the 29th, 30th or 31st skips a month that is too short, and is due on
  the first days of each month from then on (`loans.service.ts:341`).

`CollectionsMatchLedger`, `InterestOncePerMonth`, `DebtConserved`, `BookletMatchesLedger`, `NeverShort` and
`ReadyIsCurrent` are checked, and proved, for the callers they hold for: a day sent again under its key, one
worker, a key for each repayment. Section 6 says which of these conditions each theorem takes.

## 6. Proofs

tlapm 1.4.5 checks every theorem, for any set of requests, keys, clients, accounts and installments,
from the assumptions named in the modules (types of the constants) and, where a theorem states one, a
condition of the table below.

- `TransactionsProofs`: lemmas on `createTransaction` alone, used by the three others:
  the pieces every caller is built from keep the types, keep keys unique and implement a
  step of `Ledger`. The invariant is that a key with a draft has no committed row and no
  other draft: it is the unique index, seen from a transaction that has not committed.
  And lemmas on sums (below).
- `SavingsProofs`: `TypeCorrect`; `KeysUnique`; `AnswersBacked`; `WithdrawalsCovered`;
  `LedgerImplemented`; `InterestPaidOnce`; `BalancesMatch`; `CirclesNeedSharedKey`. `WithdrawalCovered` is not
  inductive: the strengthening says that a withdrawal past its check still holds the lock of its account and
  that the committed balance covers its amount, so nobody else can have moved it. `InterestOncePerMonth` needs
  that the key of a job that paid is taken, and is not the key of a job that is past its check.
- `BalancesMatch` takes no condition: any keys, any number of workers, cancellations that overlap, rows posted
  by hand. It splits what moved a balance in the rows booked by the call that committed them and the calls
  that committed without a row of their own. The invariant (`BookInv`) says that a draft is the row of its
  operation, that what a request has not published is the effect of the row it was given, and that the row of a
  cancellation under way is posted; a commit then adds the same amount to the balance and to one of the two sums.
- `CirclesNeedSharedKey` rests on `HoldersInv`: of the requests that hold an account, all but a withdrawal only have
  to commit. A circle therefore has a withdrawal that waits for a key, and the one it waits for has a draft
  under that key.
- `LoansProofs`, for any number of requests in flight, in any overlap. `MoneyLeavesOnce` needs that a
  disbursement past `createMany` owns the first installment's number, committed or not, and
  that a number is owned once; a late approval cannot undo that. `SettledForGood` needs that what
  a transaction has touched is settled, or new with a free number. `NumbersFollow` needs that below
  every number a request has inserted, or is about to start from, each number is a committed row's or its own.
  `LoansKeepLedger` and `TypeCorrect` complete these.
- `PaidOldestFirst`, `DebtAddsUp`, `BookletMatches` and `BooksNeverShort` are about amounts. No request can rely on a
  status it read: its installments may have been paid, cancelled or rescheduled by the time it commits. Their
  invariants rest on what nobody changes. `OverlapInv`: what an installment is due, so that the plan of a
  repayment still adds up to its amount and a reschedule still owes what its plan is due and its penalty.
  `TakenInv`: a paid or cancelled installment is in the plan of a repayment or reschedule that was carried
  out, and what these took is settled. `FifoInv`: with an installment, a repayment takes the older ones that
  are not settled, and settled they stay. `CreatedInv`: all the installments there ever were are due the total
  of the loan and what reschedules spread. `OwnRows` and `LinkInv`: a repayment has a row of its own,
  and a paid installment is linked to one that took it. The debt is then what was created less what was taken
  once, and `DebtConserved` is arithmetic; `NeverShort` follows from it, since nothing is taken less than once.
- `CirclesOnlyAroundReschedules`: in a circle without a reschedule half way through its scan, everybody is a
  repayment between two updates. Who has written the loan only has to commit (`WaitedFor`), a disbursement
  that waits for its key shares the loan with nobody who took an installment (`NoneTakenYet`), nor does a
  reschedule that appends wait for anybody else. Of the installments these repayments wait for, take the highest:
  who holds it waits for a higher one, since the loop goes up.
- `TontineProofs`: `TypeCorrect`, `DaysBacked`, `CollectedStays`, `KeysUnique`, `LedgerImplemented`, `BookletMatches`,
  `PaidBackOnce`. That no two collected days share a row needs that a day set
  and not committed is held by one request, that no two requests hold the same row, and
  that a request holds a row it can commit. That rows and days add up needs that each row of
  a collection backs a day, and that whoever still collects a collected day has the key it was
  collected under. That two payouts met needs that a payout leaves the cycle CLOSED, and that every closing past its
  check, or paid, is recorded in `met` with it (`PayoutInv`). The module also extends `Calendar`, which gives a cycle its days: `EveryDayAsked` and
  `MonthlyStaysNear`, for any months of 28 to 31 days and any plans that fit in them, which is what `Calendar`
  assumes of its constants. The invariant (`CalendarInv`) says
  that the days kept so far are the allowed ones among those the cursor has passed, and that a monthly date is
  on its day, or, from the first month too short for it, in the month after by what that month lacked, which
  no later month is too short for. That months follow each other and that every day is in one
  (`MonthsInOrder`, `DayHasMonth`) is an induction over months, made with a least number (`LeastNumber`).

- `SessionsProofs`: `TypeCorrect`, `ExchangedIsRevoked`, `EndedForever` and `OneUsable`, for refreshes in any
  overlap. `OneLive` is not inductive: the strengthening (`BranchInv`) says that a family that is not forked has
  one usable token, that a refresh about to exchange a token nobody exchanged is about to exchange that one, and
  that no other refresh is about to exchange another, which is why the order of the two statements matters.

- `DocumentsProofs`: `TypeCorrect`, `PendingServed`, for any number of workers, and
  `ReadyIsUpToDate` for one. The last needs that a job about to write has seen all that was wanted
  when its report was last asked for, unless another job of it waits: true of one worker only,
  since a second one may take that other job.
- `SettingsProofs`: `ServedWasThere`, `OldOnlyByRace`, `SeedCompletes` and `TypeCorrect`. What a
  reader or a writer has in hand was in the table when it read or wrote it; a value in hand that
  is no longer the table's is one of `raced`. For the seed: whatever run is at batch `n`, all that
  the batches before `n` write is there, and nobody takes it away.
- `AccountsProofs`: `KeysBelongToOne`, `RemovalsStay` and `TypeCorrect`, for any calls in any order: the
  index is the only thing `KeysBelongToOne` rests on, none of the checks. `SecondFactorHasSecret`,
  `CodeWorksOnce` and `EmailOpensOneAccount` hold for any overlap as well. `MetInv` says that calls of the kinds
  that disturb each other are recorded in `met` when both are in flight. What the read of a call found then still
  holds at its write, or the call that changed it has met this one (`SecretInv`, `Fresh` in `CodeInv`,
  `Explained` in `EmailInv`).

Each is laid out the same way: `Init => Inv`, one step per action of `Next`, and a
QED by PTL.

**Sums.** `SumOf(f, S)` is a fold, and induction over the sets it sums is not available to the provers. The
lemmas about it (`SumRemove`, `SumSplit`, `SumEqual`, `SumNat`) rest on the definition of the fold as a
recursive function, and on a smallest counterexample: among the finite sets for which the fact fails there is a
minimal one, and removing an element of it gives the contradiction.

**Conditions.** Some theorems hold under a condition on the calls. None is an assumption of the model, whose
actions allow calls that break it: the last column, and section 5, say what then goes wrong.

| Theorem | Condition | Without it |
|---|---|---|
| `InterestPaidOnce` | `InterestWorkers = 1`, as BullMQ runs it | a second worker applies the interest again |
| `BookletMatches` (tontines) | `KeysOwn`: a collection and a closing do not share a key; `[]CollectsApart`: collections of one day in flight together are retries, with one key | a closing's row backs a day; a day has two rows |
| `DebtAddsUp`, `BookletMatches`, `BooksNeverShort` (loans) | `RepaymentKeys`: a repayment shares its key with no other posting on the loan | the next installment is paid with the first call's row |
| `ReadyIsUpToDate` | `OneWorker`: report jobs run one at a time, as BullMQ runs them | a job that read before the last request may write after the job of that request |

The passing runs `savings_core`, `tontine_cycle`, `loans_life`, `loans_concurrent` and `documents_jobs` have instances
that meet these conditions, so that they are satisfiable together with the interesting cases.

**Only model-checked.** Liveness (`Answered`, `ReportSettles`, `FreshInTheEnd`, `Ends`), which the provers do not
reach, and `ContractKept`, which holds for requests on a loan that are served one after the other: an approval
that comes late, or two repayments that overlap, are steps the contract does not have. Every other property
of a passing run is stated by a theorem.

## 7. Not modelled

Layout (PDFs, formatted numbers, e-mail texts), hashing and one-time codes, the reads (lists,
filters, statistics), wiring and configuration. Sequences (`nextval`) give unique numbers and
nothing depends on their order. E-mail calls have no state; an e-mail that fails inside the
transaction of a closing is one of the causes of `Abort`.

The audit trail is written after the answer and read by nobody. Uploads and the e-mail adapter have no
state. A user's profile has no condition; the name of a branch and the phone of a user are unique like
its code and e-mail, and not told apart from them. Throttling is a library's. Migrations run before
the server. What the SQL views of the dashboard compute is SQL: here a figure is a value that a
posting changes. `PROJECT.json` gives the reason for each component.

## 8. Plan

1. *(done)* `Ledger`, `Transactions`, `Savings` with `savings_*`; theorems of keys, withdrawals, refinement.
2. *(done)* `LoanContract`, `Loans` with `loans_*`; theorems of disbursement and settled installments.
3. *(done)* `Tontine` with `tontine_*`; theorem of collected days.
4. *(done)* `Sessions` with `sessions_family`; theorems of ended sessions and exchanged tokens.
5. *(done)* `Documents` with `documents_*`; theorems of pending and ready reports and of receipts.
6. *(done)* `Setup`, `Settings` with `settings_cache`; theorems of the cache and of the seed.
7. *(done)* `Directory`, `Accounts` with `accounts`; theorems of keys, removals, codes and second factors.
8. *(done)* `Calendar` with `calendar_dates`; theorems of its dates, for any months.
9. *(done)* Theorems on amounts: balances, debts, booklets and restitutions against the ledger; the contract of a
   loan; the numbers and the order of installments; the rows of `Tontine` against `Ledger`.
10. *(done)* What the books of a loan keep when any number of requests overlap: `NeverShort`.
11. *(done)* Calls that overlap: what they can cost is part of the properties of balances, debts, booklets, payouts,
   sessions, codes and e-mails, without a condition on who waits for whom; where requests wait in a circle.
12. Left: how far two cancellations, or a cancellation and a withdrawal, that overlap take a balance below zero; the
   contract of a loan with the moves that late decisions add.
