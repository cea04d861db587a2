--------------------------- MODULE DocumentsProofs ---------------------------
(***************************************************************************)
(* Theorems about Documents for any postings, reports, requests and        *)
(* failures: a report asked for is never forgotten, and, with one worker,  *)
(* a report that is ready is up to date.                                   *)
(***************************************************************************)
EXTENDS Documents, TLAPS

\* What is known between the two ends of a job or a request: a worker at work has a
\* report, and a request that is to add a job has one.
PlaceInv ==
  /\ \A w \in Workers : job[w].at # "idle" <=> job[w].report # None
  /\ \A r \in Requests : pc[r] = "add" => current[r] # None

DocumentsInv == TypeOK /\ PlaceInv /\ PendingIsServed

LEMMA DocumentsInit == Init => DocumentsInv
BY DocumentsAssumption
   DEF Init, DocumentsInv, TypeOK, PlaceInv, PendingIsServed, Report, Job, NoJob

\* A step of a receipt: postings and receipts are nobody else's.
LEMMA PostKept ==
  ASSUME DocumentsInv, NEW p \in Postings, Post(p) PROVE DocumentsInv'
<1>1. UNCHANGED <<requestVars, reportVars>>
  BY DEF Post, Insert, EndTransaction, ReceiptRead, ReceiptWrite
<1>2. PendingIsServed'
  BY <1>1 DEF DocumentsInv, PendingIsServed, Busy, requestVars, reportVars
<1>3. TypeOK'
  BY <1>1 DEF Post, Insert, EndTransaction, ReceiptRead, ReceiptWrite, Inserted,
     DocumentsInv, TypeOK, requestVars, reportVars
<1>4. QED
  BY <1>1, <1>2, <1>3 DEF DocumentsInv, PlaceInv, requestVars, reportVars

LEMMA RequestKept ==
  ASSUME DocumentsInv, NEW r \in Requests, Proceed(r) \/ Abort(r) PROVE DocumentsInv'
<1> USE DEF DocumentsInv
<1>1. UNCHANGED <<receiptVars, job, stalls>>
  BY DEF Proceed, Start, Upsert, Add, Abort, reportVars
<1>2. CASE Start(r)
  <2>1. TypeOK'
    BY <1>2, DocumentsAssumption DEF Start, TypeOK, OpType, receiptVars, reportVars
  <2>2. PlaceInv'
    BY <1>2 DEF Start, TypeOK, PlaceInv, receiptVars, reportVars
  <2>3. PendingIsServed'
    BY <1>2 DEF Start, TypeOK, PendingIsServed, Busy, receiptVars, reportVars
  <2>4. QED
    BY <2>1, <2>2, <2>3
<1>3. CASE Upsert(r)
  <2>1. PICK k \in todo[r] : /\ report' = [report EXCEPT ![k] = Upserted(r, k)]
                             /\ current' = [current EXCEPT ![r] = k]
    BY <1>3 DEF Upsert
  <2>2. /\ pc[r] = "upsert" /\ pc' = [pc EXCEPT ![r] = "add"]
        /\ UNCHANGED <<todo, wanted, waiting, given>>
    BY <1>3 DEF Upsert
  <2>3. k \in Reports /\ k # None
    BY DocumentsAssumption DEF TypeOK
  <2>4. Upserted(r, k) \in Report
    BY <2>3 DEF Upserted, Report, TypeOK
  <2>5. TypeOK'
    BY <1>1, <2>1, <2>2, <2>3, <2>4 DEF TypeOK, receiptVars
  <2>6. PlaceInv'
    BY <1>1, <2>1, <2>2, <2>3 DEF TypeOK, PlaceInv, receiptVars
  <2>7. PendingIsServed'
    BY <1>1, <2>1, <2>2, <2>3 DEF TypeOK, PendingIsServed, Busy
  <2>8. QED
    BY <2>5, <2>6, <2>7
<1>4. CASE Add(r)
  <2> DEFINE k == current[r]
  <2>1. /\ pc[r] = "add" /\ pc' = [pc EXCEPT ![r] = IF todo[r] \ {k} = {} THEN "done" ELSE "upsert"]
        /\ waiting' = [waiting EXCEPT ![k] = waiting[k] + 1]
        /\ wanted' = [wanted EXCEPT ![k] = Committed]
        /\ given' = given \ {k} /\ todo' = [todo EXCEPT ![r] = @ \ {k}]
        /\ current' = [current EXCEPT ![r] = None] /\ report' = report
    BY <1>4 DEF Add, Enqueued
  <2>2. k \in Reports
    BY <2>1 DEF TypeOK, PlaceInv
  <2>3. TypeOK'
    BY <1>1, <2>1, <2>2 DEF TypeOK, Committed, receiptVars
  <2>4. PlaceInv'
    BY <1>1, <2>1 DEF TypeOK, PlaceInv, receiptVars
  <2>5. ASSUME NEW j \in Reports, report[j].status = "PENDING"
        PROVE  \/ waiting'[j] > 0 \/ (\E w \in Workers : job[w].report = j) \/ j \in given'
               \/ \E s \in Requests : pc'[s] = "add" /\ current'[s] = j
    <3>1. CASE j = k
      BY <2>1, <2>2, <3>1 DEF TypeOK
    <3>2. CASE j # k
      BY <2>1, <2>2, <2>5, <3>2 DEF TypeOK, PendingIsServed, Busy
    <3>3. QED
      BY <3>1, <3>2
  <2>6. PendingIsServed'
    BY <1>1, <2>1, <2>5 DEF PendingIsServed, Busy
  <2>7. QED
    BY <2>3, <2>4, <2>6
<1>5. CASE Abort(r)
  <2>1. TypeOK'
    BY <1>5 DEF Abort, TypeOK, PlaceInv, receiptVars
  <2>2. PlaceInv'
    BY <1>5 DEF Abort, TypeOK, PlaceInv, receiptVars
  <2>3. PendingIsServed'
    BY <1>5 DEF Abort, TypeOK, PendingIsServed, Busy
  <2>4. QED
    BY <2>1, <2>2, <2>3
<1>6. QED
  BY <1>2, <1>3, <1>4, <1>5 DEF Proceed

\* A worker lets go of its report: the row is no longer PENDING, the report was given
\* up, or its job waits again.
LEMMA WorkerFrees ==
  ASSUME DocumentsInv, NEW w \in Workers, job[w].report # None, Free(w),
         UNCHANGED <<receiptVars, requestVars, wanted>>,
         report' \in [Reports -> Report], waiting' \in [Reports -> Nat],
         given' \subseteq Reports, stalls' \in 0..MaxStalls,
         \A k \in Reports \ {job[w].report} :
           /\ report'[k] = report[k] /\ waiting'[k] = waiting[k]
           /\ k \in given => k \in given',
         \/ report'[job[w].report].status # "PENDING"
         \/ job[w].report \in given' \/ waiting'[job[w].report] > 0
  PROVE  DocumentsInv'
<1> USE DEF DocumentsInv
<1>1. /\ job \in [Workers -> Job] /\ job' \in [Workers -> Job]
      /\ job'[w] = NoJob /\ \A v \in Workers \ {w} : job'[v] = job[v]
  BY DEF Free, TypeOK, NoJob, Job
<1>2. TypeOK'
  BY <1>1 DEF TypeOK, receiptVars, requestVars
<1>3. PlaceInv'
  BY <1>1 DEF PlaceInv, NoJob, receiptVars, requestVars
<1>4. PendingIsServed'
  <2> SUFFICES ASSUME NEW k \in Reports, report'[k].status = "PENDING"
               PROVE  \/ waiting'[k] > 0 \/ (\E v \in Workers : job'[v].report = k) \/ k \in given'
                      \/ \E s \in Requests : pc'[s] = "add" /\ current'[s] = k
    BY DEF PendingIsServed, Busy
  <2>1. CASE k = job[w].report
    BY <2>1
  <2>2. CASE k # job[w].report
    BY <1>1, <2>2 DEF PendingIsServed, Busy, requestVars
  <2>3. QED
    BY <2>1, <2>2
<1>5. QED
  BY <1>2, <1>3, <1>4

LEMMA WorkerKept ==
  ASSUME DocumentsInv, NEW w \in Workers, Work(w) \/ Stall(w) PROVE DocumentsInv'
<1> USE DEF DocumentsInv
<1>1. UNCHANGED <<receiptVars, requestVars, wanted>>
  BY DEF Work, Stall, Take, Figures, Throw, Write, Fail, GiveUp
<1>2. job \in [Workers -> Job]
  BY DEF TypeOK
<1>3. CASE Take(w)
  <2>1. PICK k \in Reports :
          /\ job[w].at = "idle" /\ HasJob(k)
          /\ waiting' = [waiting EXCEPT ![k] = @ - 1]
          /\ job' = [job EXCEPT ![w] = [report |-> k, at |-> "figures", saw |-> {}]]
    BY <1>3 DEF Take
  <2>2. UNCHANGED <<report, given, stalls>>
    BY <1>3 DEF Take
  <2>3. /\ k # None /\ waiting[k] \in Nat /\ waiting[k] > 0
        /\ job'[w] = [report |-> k, at |-> "figures", saw |-> {}]
        /\ \A v \in Workers \ {w} : job'[v] = job[v]
    BY <2>1, <1>2, DocumentsAssumption DEF HasJob, TypeOK
  <2>4. waiting' \in [Reports -> Nat]
    BY <2>1, <2>3 DEF TypeOK
  <2>5. job' \in [Workers -> Job]
    BY <1>2, <2>1 DEF Job
  <2>6. TypeOK'
    BY <1>1, <2>2, <2>4, <2>5 DEF TypeOK, receiptVars, requestVars
  <2>7. PlaceInv'
    BY <1>1, <2>3 DEF PlaceInv, receiptVars, requestVars
  <2>8. ASSUME NEW j \in Reports, report'[j].status = "PENDING"
        PROVE  \/ waiting'[j] > 0 \/ (\E v \in Workers : job'[v].report = j) \/ j \in given'
               \/ \E s \in Requests : pc'[s] = "add" /\ current'[s] = j
    <3>1. CASE j = k
      BY <2>3, <3>1
    <3>2. CASE j # k
      <4>1. waiting'[j] = waiting[j] /\ job[w].report = None
        BY <2>1, <3>2 DEF TypeOK, PlaceInv
      <4>2. j # None
        BY DocumentsAssumption
      <4>3. QED
        BY <1>1, <2>2, <2>3, <2>8, <4>1, <4>2 DEF PendingIsServed, Busy, requestVars
    <3>3. QED
      BY <3>1, <3>2
  <2>9. QED
    BY <2>6, <2>7, <2>8 DEF PendingIsServed, Busy
<1>4. CASE Figures(w) \/ Throw(w)
  <2>1. /\ UNCHANGED <<report, waiting, given, stalls>> /\ job[w].at # "idle"
        /\ job' \in [Workers -> Job]
        /\ \A v \in Workers : job'[v].report = job[v].report
                              /\ (job'[v].at = "idle" <=> job[v].at = "idle")
    <3>1. CASE Figures(w)
      BY <1>2, <3>1 DEF Figures, Job, Committed
    <3>2. CASE Throw(w)
      BY <1>2, <3>2 DEF Throw, At, Job
    <3>3. QED
      BY <1>4, <3>1, <3>2
  <2>2. TypeOK'
    BY <1>1, <2>1 DEF TypeOK, receiptVars, requestVars
  <2>3. PlaceInv'
    BY <1>1, <2>1 DEF PlaceInv, receiptVars, requestVars
  <2>4. PendingIsServed'
    BY <1>1, <2>1 DEF PendingIsServed, Busy, requestVars
  <2>5. QED
    BY <2>2, <2>3, <2>4
<1>5. ASSUME job[w].at # "idle" \/ job[w].report # None
      PROVE  job[w].report # None /\ job[w].report \in Reports
  BY <1>2, <1>5 DEF PlaceInv, Job
<1>6. CASE Write(w)
  <2>1. Ready(w) \in Report /\ Ready(w).status = "READY"
    BY <1>2 DEF Ready, Report, Job
  <2>2. QED
    BY <1>1, <1>5, <1>6, <2>1, WorkerFrees DEF Write, TypeOK
<1>7. CASE Fail(w)
  <2> DEFINE k == job[w].report
  <2>1. k \in Reports /\ report' = [report EXCEPT ![k].status = "FAILED"]
    BY <1>5, <1>7 DEF Fail, FailedStatus
  <2>2. /\ report' \in [Reports -> Report] /\ report'[k].status = "FAILED"
        /\ \A j \in Reports \ {k} : report'[j] = report[j]
    BY <2>1 DEF TypeOK, Report
  <2>3. QED
    BY <1>1, <1>5, <1>7, <2>2, WorkerFrees DEF Fail, TypeOK
<1>8. CASE GiveUp(w)
  BY <1>1, <1>5, <1>8, WorkerFrees DEF GiveUp, TypeOK
<1>9. CASE Stall(w)
  <2>1. stalls' \in 0..MaxStalls
    BY <1>9, DocumentsAssumption DEF Stall, TypeOK
  <2>2. QED
    BY <1>1, <1>5, <1>9, <2>1, WorkerFrees DEF Stall, TypeOK
<1>10. QED
  BY <1>3, <1>4, <1>6, <1>7, <1>8, <1>9 DEF Work

LEMMA DocumentsKept == DocumentsInv /\ [Next]_vars => DocumentsInv'
<1> SUFFICES ASSUME DocumentsInv, [Next]_vars PROVE DocumentsInv'
  OBVIOUS
<1>1. CASE UNCHANGED vars
  BY <1>1 DEF vars, receiptVars, requestVars, reportVars, DocumentsInv, TypeOK, PlaceInv,
     PendingIsServed, Busy
<1>2. QED
  BY <1>1, PostKept, RequestKept, WorkerKept DEF Next

LEMMA DocumentsCorrect == Spec => []DocumentsInv
BY DocumentsInit, DocumentsKept, PTL DEF Spec

\* Every variable has its type, whatever fails (both queues, both kinds of request).
THEOREM TypeCorrect == Spec => []TypeOK
BY DocumentsCorrect, PTL DEF DocumentsInv

\* A report stays PENDING only while a job or a request is to settle it, unless a failure
\* between database and queue gave it up (requestMonthlyReport, the report job).
THEOREM PendingServed == Spec => []PendingIsServed
BY DocumentsCorrect, PTL DEF DocumentsInv

-----------------------------------------------------------------------------
(* One worker: what is ready is up to date *)

OneWorker == \A v, w \in Workers : v = w

\* A posting that was committed stays; a job that is to write has seen what was wanted
\* when its report was last asked for, unless another job for it waits.
CurrentInv ==
  /\ \A k \in Reports : wanted[k] \subseteq Committed
  /\ \A w \in Workers :
       job[w].at = "write" /\ waiting[job[w].report] = 0 =>
         wanted[job[w].report] \subseteq job[w].saw
  /\ ReadyIsCurrent

LEMMA CurrentInit == Init => CurrentInv
BY DEF Init, CurrentInv, ReadyIsCurrent, NoJob

LEMMA CommittedGrows ==
  ASSUME DocumentsInv, [Next]_vars PROVE Committed \subseteq Committed'
<1>1. ASSUME NEW p \in Postings, Post(p) PROVE Committed \subseteq Committed'
  BY <1>1 DEF Post, Insert, EndTransaction, ReceiptRead, ReceiptWrite, Committed,
     DocumentsInv, TypeOK
<1>2. CASE UNCHANGED posting
  BY <1>2 DEF Committed
<1>3. QED
  BY <1>1, <1>2 DEF Next, vars, receiptVars, Proceed, Start, Upsert, Add, Abort,
     Work, Stall, Take, Figures, Throw, Write, Fail, GiveUp

\* A step that leaves jobs, queue and what is given up alone, and makes no report ready.
LEMMA CurrentStays ==
  ASSUME DocumentsInv, CurrentInv, [Next]_vars, UNCHANGED <<wanted, waiting, job>>,
         given \subseteq given',
         \A k \in Reports : report'[k] = report[k] \/ report'[k].status # "READY"
  PROVE  CurrentInv'
BY CommittedGrows DEF CurrentInv, ReadyIsCurrent, Busy

LEMMA AddCurrent ==
  ASSUME DocumentsInv, CurrentInv, [Next]_vars, NEW r \in Requests, Add(r) PROVE CurrentInv'
<1> DEFINE k == current[r]
<1>1. /\ waiting' = [waiting EXCEPT ![k] = waiting[k] + 1]
      /\ wanted' = [wanted EXCEPT ![k] = Committed]
      /\ given' = given \ {k} /\ UNCHANGED <<report, job>>
  BY DEF Add, Enqueued
<1>2. k \in Reports
  BY DEF Add, DocumentsInv, TypeOK, PlaceInv
<1>3. /\ waiting'[k] > 0 /\ waiting'[k] # 0 /\ wanted'[k] = Committed
      /\ \A j \in Reports \ {k} : waiting'[j] = waiting[j] /\ wanted'[j] = wanted[j]
  BY <1>1, <1>2 DEF DocumentsInv, TypeOK
<1>4. \A j \in Reports : wanted'[j] \subseteq Committed'
  BY <1>3, CommittedGrows DEF CurrentInv
<1>5. ASSUME NEW w \in Workers, job[w].at = "write", waiting'[job[w].report] = 0
      PROVE  wanted'[job[w].report] \subseteq job[w].saw
  <2>1. job[w].report \in Reports
    BY <1>5 DEF DocumentsInv, TypeOK, PlaceInv, Job
  <2>2. QED
    BY <1>3, <1>5, <2>1 DEF CurrentInv
<1>6. ASSUME NEW j \in Reports, report[j].status = "READY"
      PROVE  /\ report[j].file
             /\ (waiting'[j] > 0 \/ (\E w \in Workers : job[w].report = j) \/ j \in given'
                 \/ wanted'[j] \subseteq report[j].shows)
  <2>1. CASE j = k
    BY <1>3, <1>6, <2>1 DEF CurrentInv, ReadyIsCurrent
  <2>2. CASE j # k
    BY <1>1, <1>3, <1>6, <2>2 DEF CurrentInv, ReadyIsCurrent, Busy
  <2>3. QED
    BY <2>1, <2>2
<1>7. QED
  BY <1>1, <1>4, <1>5, <1>6 DEF CurrentInv, ReadyIsCurrent, Busy

LEMMA TakeCurrent ==
  ASSUME OneWorker, DocumentsInv, CurrentInv, [Next]_vars, NEW w \in Workers, Take(w)
  PROVE  CurrentInv'
<1>1. PICK k \in Reports :
        /\ job[w].at = "idle" /\ waiting' = [waiting EXCEPT ![k] = @ - 1]
        /\ job' = [job EXCEPT ![w] = [report |-> k, at |-> "figures", saw |-> {}]]
  BY DEF Take
<1>2. UNCHANGED <<report, wanted, given>>
  BY DEF Take
<1>3. /\ job'[w] = [report |-> k, at |-> "figures", saw |-> {}] /\ job[w].report = None
      /\ \A v \in Workers : v = w
      /\ \A j \in Reports \ {k} : waiting'[j] = waiting[j] /\ j # None
  BY <1>1, DocumentsAssumption DEF OneWorker, DocumentsInv, TypeOK, PlaceInv
<1>4. \A j \in Reports : wanted'[j] \subseteq Committed'
  BY <1>2, CommittedGrows DEF CurrentInv
<1>5. \A v \in Workers : job'[v].at # "write"
  BY <1>3
<1>6. ASSUME NEW j \in Reports, report[j].status = "READY"
      PROVE  /\ report[j].file
             /\ (waiting'[j] > 0 \/ (\E v \in Workers : job'[v].report = j) \/ j \in given
                 \/ wanted[j] \subseteq report[j].shows)
  <2>1. CASE j = k
    BY <1>3, <1>6, <2>1 DEF CurrentInv, ReadyIsCurrent
  <2>2. CASE j # k
    BY <1>3, <1>6, <2>2 DEF CurrentInv, ReadyIsCurrent, Busy
  <2>3. QED
    BY <2>1, <2>2
<1>7. QED
  BY <1>2, <1>4, <1>5, <1>6 DEF CurrentInv, ReadyIsCurrent, Busy

LEMMA WorkingCurrent ==
  ASSUME OneWorker, DocumentsInv, CurrentInv, [Next]_vars, NEW w \in Workers,
         Figures(w) \/ Throw(w)
  PROVE  CurrentInv'
<1>1. UNCHANGED <<report, wanted, waiting, given>> /\ job[w].at # "idle"
  BY DEF Figures, Throw
<1>2. job \in [Workers -> Job]
  BY DEF DocumentsInv, TypeOK
<1>3. /\ job'[w].report = job[w].report /\ job[w].report \in Reports
      /\ job'[w].at = "write" => job'[w].saw = Committed
      /\ \A v \in Workers : v = w
  <2>1. job[w].report \in Reports
    BY <1>1, <1>2 DEF DocumentsInv, PlaceInv, Job
  <2>2. CASE Figures(w)
    BY <1>2, <2>1, <2>2 DEF Figures, Job, OneWorker
  <2>3. CASE Throw(w)
    BY <1>2, <2>1, <2>3 DEF Throw, At, Job, OneWorker
  <2>4. QED
    BY <2>2, <2>3
<1>4. \A j \in Reports : wanted'[j] \subseteq Committed'
  BY <1>1, CommittedGrows DEF CurrentInv
<1>5. \A v \in Workers : job'[v].at = "write" => wanted[job'[v].report] \subseteq job'[v].saw
  BY <1>3 DEF CurrentInv
<1>6. \A j \in Reports : Busy(j)' <=> Busy(j)
  BY <1>1, <1>3 DEF Busy
<1>7. QED
  BY <1>1, <1>4, <1>5, <1>6 DEF CurrentInv, ReadyIsCurrent

\* The worker lets go of report k: the row is not READY, it is up to date, it was given
\* up or a job waits.
LEMMA FreesCurrent ==
  ASSUME OneWorker, DocumentsInv, CurrentInv, [Next]_vars, NEW w \in Workers,
         NEW k \in Reports, job[w].report = k, Free(w), wanted' = wanted,
         \A j \in Reports \ {k} : report'[j] = report[j] /\ waiting'[j] = waiting[j]
                                  /\ (j \in given => j \in given'),
         report'[k].status = "READY" => report'[k].file,
         \/ report'[k].status # "READY" \/ waiting'[k] > 0 \/ k \in given'
         \/ wanted[k] \subseteq report'[k].shows
  PROVE  CurrentInv'
<1>1. job'[w] = NoJob /\ \A v \in Workers : v = w
  BY DEF Free, OneWorker, DocumentsInv, TypeOK
<1>2. \A j \in Reports : wanted'[j] \subseteq Committed'
  BY CommittedGrows DEF CurrentInv
<1>3. \A v \in Workers : job'[v].at # "write"
  BY <1>1 DEF NoJob
<1>4. ASSUME NEW j \in Reports, report'[j].status = "READY"
      PROVE  /\ report'[j].file
             /\ (waiting'[j] > 0 \/ j \in given' \/ wanted[j] \subseteq report'[j].shows)
  <2>1. CASE j = k
    BY <1>4, <2>1
  <2>2. CASE j # k
    <3>1. Busy(j) => waiting[j] > 0
      BY <1>1, <2>2 DEF Busy
    <3>2. QED
      BY <1>4, <2>2, <3>1 DEF CurrentInv, ReadyIsCurrent
  <2>3. QED
    BY <2>1, <2>2
<1>5. QED
  BY <1>2, <1>3, <1>4 DEF CurrentInv, ReadyIsCurrent, Busy

LEMMA EndsCurrent ==
  ASSUME OneWorker, DocumentsInv, CurrentInv, [Next]_vars, NEW w \in Workers,
         Write(w) \/ Fail(w) \/ GiveUp(w) \/ Stall(w)
  PROVE  CurrentInv'
<1> DEFINE k == job[w].report
<1>1. k \in Reports /\ job[w] \in Job /\ waiting[k] \in Nat /\ report \in [Reports -> Report]
  BY DEF Write, Fail, GiveUp, Stall, DocumentsInv, TypeOK, PlaceInv, Job
<1>2. Free(w) /\ wanted' = wanted
  BY DEF Write, Fail, GiveUp, Stall
<1>3. CASE Write(w)
  <2>1. /\ report' = [report EXCEPT ![k] = Ready(w)] /\ waiting' = waiting
        /\ given' = given \ {k} /\ job[w].at = "write"
    BY <1>3 DEF Write
  <2>2. report'[k].file /\ report'[k].shows = job[w].saw
    BY <1>1, <2>1 DEF Ready
  <2>3. waiting[k] = 0 => wanted[k] \subseteq report'[k].shows
    BY <2>1, <2>2 DEF CurrentInv
  <2>4. QED
    BY <1>1, <1>2, <2>1, <2>2, <2>3, FreesCurrent
<1>4. CASE Fail(w)
  <2>1. /\ report' = [report EXCEPT ![k].status = "FAILED"] /\ waiting' = waiting
        /\ given' = given \ {k}
    BY <1>4 DEF Fail, FailedStatus
  <2>2. report'[k].status = "FAILED" /\ \A j \in Reports \ {k} : report'[j] = report[j]
    BY <1>1, <2>1 DEF Report
  <2>3. QED
    BY <1>1, <1>2, <2>1, <2>2, FreesCurrent
<1>5. CASE GiveUp(w) \/ Stall(w)
  <2>1. /\ report' = report /\ given \subseteq given'
        /\ k \in given' \/ waiting'[k] > 0
        /\ \A j \in Reports \ {k} : waiting'[j] = waiting[j]
    BY <1>1, <1>5 DEF GiveUp, Stall, DocumentsInv, TypeOK
  <2>2. report[k].status = "READY" => report[k].file
    BY <1>1 DEF CurrentInv, ReadyIsCurrent
  <2>3. QED
    BY <1>1, <1>2, <2>1, <2>2, FreesCurrent
<1>6. QED
  BY <1>3, <1>4, <1>5

LEMMA CurrentKept == OneWorker /\ DocumentsInv /\ CurrentInv /\ [Next]_vars => CurrentInv'
<1> SUFFICES ASSUME OneWorker, DocumentsInv, CurrentInv, [Next]_vars PROVE CurrentInv'
  OBVIOUS
<1>1. CASE UNCHANGED reportVars
  BY <1>1, CurrentStays DEF reportVars
<1>2. ASSUME NEW p \in Postings, Post(p) PROVE UNCHANGED reportVars
  BY <1>2 DEF Post, Insert, EndTransaction, ReceiptRead, ReceiptWrite
<1>3. ASSUME NEW r \in Requests, Proceed(r) \/ Abort(r) PROVE CurrentInv'
  <2>1. CASE Start(r)
    BY <1>1, <2>1 DEF Start
  <2>2. CASE Upsert(r)
    <3>1. PICK k \in Reports : report' = [report EXCEPT ![k] = Upserted(r, k)]
      BY <2>2 DEF Upsert, DocumentsInv, TypeOK
    <3>2. Upserted(r, k) = report[k] \/ Upserted(r, k).status # "READY"
      BY DEF Upserted
    <3>3. \A j \in Reports : report'[j] = report[j] \/ report'[j].status # "READY"
      BY <3>1, <3>2 DEF DocumentsInv, TypeOK
    <3>4. UNCHANGED <<wanted, waiting, job, given>>
      BY <2>2 DEF Upsert
    <3>5. QED
      BY <3>3, <3>4, CurrentStays
  <2>3. CASE Abort(r)
    BY <2>3, CurrentStays DEF Abort
  <2>4. QED
    BY <1>3, <2>1, <2>2, <2>3, AddCurrent DEF Proceed
<1>4. QED
  BY <1>1, <1>2, <1>3, TakeCurrent, WorkingCurrent, EndsCurrent DEF Next, vars, Work

\* With one worker for the queue, a report that is READY with nothing left to do for it
\* has a file that counts every posting committed before it was last asked for, however
\* requests, the cron, failures and repeated jobs interleave (ReportProcessor).
THEOREM ReadyIsUpToDate == OneWorker => (Spec => []ReadyIsCurrent)
<1>1. SUFFICES ASSUME OneWorker PROVE Spec => []ReadyIsCurrent
  OBVIOUS
<1>2. CurrentInv => ReadyIsCurrent
  BY DEF CurrentInv
<1>3. QED
  BY <1>1, <1>2, CurrentInit, CurrentKept, DocumentsCorrect, PTL DEF Spec

=============================================================================
