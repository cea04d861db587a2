------------------------------ MODULE Documents ------------------------------
(***************************************************************************)
(* The documents AuTogo prepares in the background: the receipt of each    *)
(* posting (a row of the transactions table) and the monthly report of a   *)
(* branch.  A request writes a row and adds a job to a BullMQ queue, in    *)
(* two stores that share no transaction; a worker takes the job later.     *)
(*                                                                         *)
(* No job of these queues has a retry.  A job whose worker dies is found   *)
(* stalled: BullMQ puts it back, or gives it up.                           *)
(*                                                                         *)
(* A definition Name_Variant is not part of the model: it is Name with the *)
(* mistake its variant says, kept to see the properties fail.              *)
(***************************************************************************)
EXTENDS Integers, FiniteSets

CONSTANTS
  Postings,    \* transactions rows
  Alone,       \* postings inserted outside any database transaction
  Reports,     \* (branch, month, year) of a monthly report
  Requests,    \* requests for reports, each served once
  Op,          \* kind of a request, and the reports it is about
  Workers,     \* executions of report jobs at a time
  MaxStalls,   \* worker deaths explored
  None

VARIABLES
  posting,     \* state of each transactions row
  receipt,     \* progress of its receipt
  report,      \* reports row: its status, its file and the postings that one counts
  wanted,      \* postings committed when the report was last asked for
  waiting,     \* jobs of the reports queue, by report
  job,         \* what each worker does
  pc, todo,    \* control point of each request, reports it has not dealt with
  current,     \* report a request is dealing with
  given,       \* reports given up since a status was written or a job added
  stalls

receiptVars == <<posting, receipt>>
requestVars == <<pc, todo, current>>
reportVars == <<report, wanted, waiting, job, given, stalls>>
vars == <<receiptVars, requestVars, reportVars>>

-----------------------------------------------------------------------------

OpType == [kind: {"request", "monthly"}, reports: SUBSET Reports]

ASSUME DocumentsAssumption ==
  /\ Alone \subseteq Postings
  /\ Op \in [Requests -> OpType]
  /\ \A r \in Requests : Op[r].kind = "request" => Cardinality(Op[r].reports) = 1
  /\ MaxStalls \in Nat
  /\ None \notin Reports

Report == [status: {"NONE", "PENDING", "READY", "FAILED"},
           file: BOOLEAN, shows: SUBSET Postings]

Job == [report: Reports \cup {None}, at: {"idle", "figures", "write", "failed"},
        saw: SUBSET Postings]

NoJob == [report |-> None, at |-> "idle", saw |-> {}]

Committed == {p \in Postings : posting[p] = "posted"}

Init ==
  /\ posting = [p \in Postings |-> "none"]
  /\ receipt = [p \in Postings |-> "none"]
  /\ report = [k \in Reports |-> [status |-> "NONE", file |-> FALSE, shows |-> {}]]
  /\ wanted = [k \in Reports |-> {}]
  /\ waiting = [k \in Reports |-> 0]
  /\ job = [w \in Workers |-> NoJob]
  /\ pc = [r \in Requests |-> "idle"]
  /\ todo = [r \in Requests |-> {}]
  /\ current = [r \in Requests |-> None]
  /\ given = {}
  /\ stalls = 0

-----------------------------------------------------------------------------
(* Receipts *)

\* The insert, and the job it queues: in the caller's transaction for all but the
\* plain POST.  If adding the job fails, the error is logged.
Inserted(p) == IF p \in Alone THEN "posted" ELSE "inserted"

Insert(p) ==
  /\ posting[p] = "none"
  /\ posting' = [posting EXCEPT ![p] = Inserted(p)]
  /\ \E q \in {"queued", "failed"} : receipt' = [receipt EXCEPT ![p] = q]
  /\ UNCHANGED <<requestVars, reportVars>>

\* The caller's transaction ends, when its other statements have.
EndTransaction(p) ==
  /\ posting[p] = "inserted"
  /\ \E end \in {"posted", "gone"} : posting' = [posting EXCEPT ![p] = end]
  /\ UNCHANGED <<receipt, requestVars, reportVars>>

Visible(p) == posting[p] = "posted"

\* ReceiptProcessor: without a row it returns, and the job is over.
ReceiptRead(p) ==
  /\ receipt[p] = "queued"
  /\ receipt' = [receipt EXCEPT ![p] = IF Visible(p) THEN "printing" ELSE "missed"]
  /\ UNCHANGED <<posting, requestVars, reportVars>>

ReceiptWrite(p) ==
  /\ receipt[p] = "printing"
  /\ \E end \in {"attached", "failed"} : receipt' = [receipt EXCEPT ![p] = end]
  /\ UNCHANGED <<posting, requestVars, reportVars>>

-----------------------------------------------------------------------------
(* Requests for reports *)

\* requestMonthlyReport is about one report, the monthly cron about every branch's.
Start(r) ==
  /\ pc[r] = "idle"
  /\ pc' = [pc EXCEPT ![r] = IF Op[r].reports = {} THEN "done" ELSE "upsert"]
  /\ todo' = [todo EXCEPT ![r] = Op[r].reports]
  /\ UNCHANGED <<current, receiptVars, reportVars>>

\* A request resets the row; the cron only creates it.
Upserted(r, k) ==
  IF Op[r].kind = "request" \/ report[k].status = "NONE"
  THEN [status |-> "PENDING", file |-> FALSE, shows |-> {}]
  ELSE report[k]

Upsert(r) ==
  \E k \in todo[r] :
    /\ pc[r] = "upsert"
    /\ report' = [report EXCEPT ![k] = Upserted(r, k)]
    /\ current' = [current EXCEPT ![r] = k]
    /\ pc' = [pc EXCEPT ![r] = "add"]
    /\ UNCHANGED <<todo, wanted, waiting, job, given, stalls, receiptVars>>

Enqueued_Deduplicated(k) ==
  IF \E w \in Workers : job[w].report = k THEN waiting[k] ELSE waiting[k] + 1
Enqueued(k) == waiting[k] + 1

Add(r) ==
  LET k == current[r]
      left == todo[r] \ {k}
  IN /\ pc[r] = "add"
     /\ waiting' = [waiting EXCEPT ![k] = Enqueued(k)]
     /\ wanted' = [wanted EXCEPT ![k] = Committed]
     /\ given' = given \ {k}
     /\ todo' = [todo EXCEPT ![r] = left]
     /\ current' = [current EXCEPT ![r] = None]
     /\ pc' = [pc EXCEPT ![r] = IF left = {} THEN "done" ELSE "upsert"]
     /\ UNCHANGED <<report, job, stalls, receiptVars>>

\* The process dies, or the database or Redis refuses, between the two stores.
Abort(r) ==
  /\ pc[r] \in {"upsert", "add"}
  /\ pc' = [pc EXCEPT ![r] = "failed"]
  /\ given' = IF pc[r] = "add" THEN given \cup {current[r]} ELSE given
  /\ todo' = [todo EXCEPT ![r] = {}]
  /\ current' = [current EXCEPT ![r] = None]
  /\ UNCHANGED <<report, wanted, waiting, job, stalls, receiptVars>>

-----------------------------------------------------------------------------
(* ReportProcessor *)

At(w, point) == job' = [job EXCEPT ![w].at = point]

Free(w) == job' = [job EXCEPT ![w] = NoJob]

HasJob(k) == waiting[k] > 0

\* The figures come from views over the committed rows; making the file and uploading
\* it changes no row.  Any error leads to the catch block.
Take(w) ==
  \E k \in Reports :
    /\ job[w].at = "idle" /\ HasJob(k)
    /\ waiting' = [waiting EXCEPT ![k] = @ - 1]
    /\ job' = [job EXCEPT ![w] = [report |-> k, at |-> "figures", saw |-> {}]]
    /\ UNCHANGED <<report, wanted, given, stalls, receiptVars, requestVars>>

Figures(w) ==
  /\ job[w].at = "figures"
  /\ job' = [job EXCEPT ![w].at = "write", ![w].saw = Committed]
  /\ UNCHANGED <<report, wanted, waiting, given, stalls, receiptVars, requestVars>>

Throw(w) ==
  /\ job[w].at \in {"figures", "write"}
  /\ At(w, "failed")
  /\ UNCHANGED <<report, wanted, waiting, given, stalls, receiptVars, requestVars>>

Ready_NoFile(w) == [report[job[w].report] EXCEPT !.status = "READY"]
Ready(w) == [status |-> "READY", file |-> TRUE, shows |-> job[w].saw]

Write(w) ==
  /\ job[w].at = "write"
  /\ report' = [report EXCEPT ![job[w].report] = Ready(w)]
  /\ given' = given \ {job[w].report}
  /\ Free(w)
  /\ UNCHANGED <<wanted, waiting, stalls, receiptVars, requestVars>>

FailedStatus_None(k) == report[k].status
FailedStatus(k) == "FAILED"

Fail(w) ==
  LET k == job[w].report
  IN /\ job[w].at = "failed"
     /\ report' = [report EXCEPT ![k].status = FailedStatus(k)]
     /\ given' = given \ {k}
     /\ Free(w)
     /\ UNCHANGED <<wanted, waiting, stalls, receiptVars, requestVars>>

\* Writing FAILED may fail too, and the job is not tried again.
GiveUp(w) ==
  /\ job[w].at = "failed"
  /\ given' = given \cup {job[w].report}
  /\ Free(w)
  /\ UNCHANGED <<report, wanted, waiting, stalls, receiptVars, requestVars>>

\* The worker dies in the middle of a job.
Stall(w) ==
  LET k == job[w].report
  IN /\ k # None /\ stalls < MaxStalls
     /\ stalls' = stalls + 1
     /\ \/ waiting' = [waiting EXCEPT ![k] = @ + 1] /\ UNCHANGED given
        \/ given' = given \cup {k} /\ UNCHANGED waiting
     /\ Free(w)
     /\ UNCHANGED <<report, wanted, receiptVars, requestVars>>

Proceed(r) == Start(r) \/ Upsert(r) \/ Add(r)
Work(w) == \/ Take(w) \/ Figures(w) \/ Throw(w)
           \/ Write(w) \/ Fail(w) \/ GiveUp(w)
Post(p) == Insert(p) \/ EndTransaction(p) \/ ReceiptRead(p) \/ ReceiptWrite(p)

Next == \/ \E p \in Postings : Post(p)
        \/ \E r \in Requests : Proceed(r) \/ Abort(r)
        \/ \E w \in Workers : Work(w) \/ Stall(w)

Spec == Init /\ [][Next]_vars

\* Node serves a request it has begun, and an idle worker takes the next job.
FairSpec ==
  /\ Spec
  /\ \A r \in Requests : WF_vars(Upsert(r) \/ Add(r))
  /\ \A w \in Workers : WF_vars(Work(w))

-----------------------------------------------------------------------------
(* Properties *)

TypeOK ==
  /\ posting \in [Postings -> {"none", "inserted", "posted", "gone"}]
  /\ receipt \in [Postings -> {"none", "queued", "printing", "attached", "missed", "failed"}]
  /\ report \in [Reports -> Report]
  /\ wanted \in [Reports -> SUBSET Postings]
  /\ waiting \in [Reports -> Nat]
  /\ job \in [Workers -> Job]
  /\ pc \in [Requests -> {"idle", "upsert", "add", "done", "failed"}]
  /\ todo \in [Requests -> SUBSET Reports]
  /\ current \in [Requests -> Reports \cup {None}]
  /\ given \subseteq Reports
  /\ stalls \in 0..MaxStalls

Busy(k) == waiting[k] > 0 \/ \E w \in Workers : job[w].report = k

\* A report stays PENDING only while somebody is to finish it: a job that waits or
\* runs, a request about to add one.  Otherwise it was given up, by a failure
\* between the two stores.
PendingIsServed ==
  \A k \in Reports :
    report[k].status = "PENDING" =>
      \/ Busy(k) \/ k \in given
      \/ \E r \in Requests : pc[r] = "add" /\ current[r] = k

\* When the jobs of a report are over, a READY report has a file, which counts every
\* posting committed before it was last asked for, although a job that began earlier
\* may still have written READY since.
ReadyIsCurrent ==
  \A k \in Reports :
    report[k].status = "READY" =>
      /\ report[k].file
      /\ ~Busy(k) /\ k \notin given => wanted[k] \subseteq report[k].shows

\* Whoever asked for a report and polls its status sees it leave PENDING, unless a
\* failure between the two stores gave it up.
ReportSettles ==
  \A k \in Reports :
    []<>(report[k].status # "PENDING" \/ k \in given)

\* What transactions.service.ts:91 relies on: the job comes once the row has its id,
\* so that it finds the row of every posting that is made.
ReceiptNotMissed == \A p \in Postings : posting[p] = "posted" => receipt[p] # "missed"
=============================================================================
