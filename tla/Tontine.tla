------------------------------ MODULE Tontine --------------------------------
(***************************************************************************)
(* One tontine cycle of a client: TontinesService and the missed-collection *)
(* job, run concurrently.                                                  *)
(*                                                                         *)
(* validateCollection and closeCycle are $transactions without FOR UPDATE: *)
(* they read, and later set by id.  What they set stays private until they *)
(* commit, and holds the row lock of the collection or of the cycle, and   *)
(* the entry of the unique index on transactionId.                         *)
(***************************************************************************)
EXTENDS Transactions

CONSTANTS
  Saver,          \* the cycle's client
  Collections,    \* one per allowed weekday between its two dates
  Amount,         \* amountPerCollection, in cents
  FeeNum, FeeDen  \* commissionRate fixed when the cycle is created, a fraction

VARIABLES
  cycle,      \* committed status of the cycle, "NONE" before it is created
  coll,       \* committed status and transaction row of each collection
  holds,      \* collection a request has set and not committed, or None
  amt,        \* restitutionAmount a request computed
  closing,    \* requests that have set the cycle CLOSED and not committed
  met         \* history: pairs of closings that were in flight together

dbVars == <<removed, ledger, cycle, coll>>
txVars == <<draft, holds, closing>>
locals == <<row, amt>>
vars   == <<dbVars, txVars, pc, locals, met>>

-----------------------------------------------------------------------------

Kinds == {"collect", "close", "missed"}

\* A collect and a missed job name a collection.
OpType == [kind: Kinds, key: Keys, collection: Collections]

ASSUME TontineAssumption ==
  /\ Saver \in Clients
  /\ Op \in [Requests -> OpType]
  /\ Amount \in Nat \ {0}
  /\ FeeNum \in Nat /\ FeeDen \in Nat \ {0} /\ FeeNum <= FeeDen
  /\ IsFiniteSet(Collections)
  /\ None \notin Collections

Points == {"idle", "count", "find", "insert", "collect", "close", "missed",
           "commit", "done", "failed"}

Collection == [status: {"NONE", "A_COLLECTER", "COLLECTE", "MANQUE"},
               paidBy: Requests \cup {None}]

Target(r) == Op[r].collection

Collected == {c \in Collections : coll[c].status = "COLLECTE"}

\* aggregate where status is COLLECTE.
CountedDays == Cardinality(Collected)

\* What n collections give back: their total less the commission, before it is
\* rounded to the two decimals of the column, and after.
Share(n) == n * Amount * (FeeDen - FeeNum)
Restitution(n) == (2 * Share(n) + FeeDen) \div (2 * FeeDen)

-----------------------------------------------------------------------------
(* The database *)

EndTransaction(r) ==
  /\ DropDraft(r)
  /\ holds' = [holds EXCEPT ![r] = None]
  /\ closing' = closing \ {r}

Rollback(r) ==
  /\ Goto(r, "failed")
  /\ EndTransaction(r)
  /\ UNCHANGED <<dbVars, locals, met>>

CollectionFree(r, c) == \A s \in Requests \ {r} : holds[s] # c

Init ==
  /\ TransactionsInit
  /\ cycle = "NONE"
  /\ coll = [c \in Collections |-> [status |-> "NONE", paidBy |-> None]]
  /\ holds = [r \in Requests |-> None]
  /\ closing = {}
  /\ met = {}
  /\ amt = [r \in Requests |-> 0]

-----------------------------------------------------------------------------
(* createCycle: the cycle and its calendar in one transaction; clients *)

CreateCycle ==
  /\ cycle = "NONE"
  /\ Saver \notin removed
  /\ cycle' = "ACTIVE"
  /\ coll' = [c \in Collections |-> [status |-> "A_COLLECTER", paidBy |-> None]]
  /\ UNCHANGED <<removed, ledger, txVars, pc, locals, met>>

ClientChanges(c) ==
  /\ SoftDelete(c) \/ Reactivate(c)
  /\ UNCHANGED <<ledger, cycle, coll, txVars, pc, locals, met>>

-----------------------------------------------------------------------------
(* validateCollection: it reads the collection, which may be missed, and does *)
(* not look at the status of the cycle.                                      *)

NotCollected(c) == coll[c].status \in {"A_COLLECTER", "MANQUE"}

CollectRead(r) ==
  /\ Starts(r, "collect")
  /\ Goto(r, IF NotCollected(Target(r)) /\ r \in InScope THEN "find" ELSE "failed")
  /\ UNCHANGED <<dbVars, txVars, locals, met>>

\* closeCycle reads the cycle, then counts what was collected.
Closable_Whatever == cycle # "NONE"
Closable == cycle = "ACTIVE"

Closing(r) == Kind(r) = "close" /\ InFlight(r)

CloseRead(r) ==
  /\ Starts(r, "close")
  /\ Goto(r, IF Closable /\ r \in InScope THEN "count" ELSE "failed")
  /\ met' = met \cup {{r, s} : s \in {q \in Requests : Closing(q)}}
  /\ UNCHANGED <<dbVars, txVars, locals>>

CountCollected(r) ==
  /\ pc[r] = "count"
  /\ amt' = [amt EXCEPT ![r] = Restitution(CountedDays)]
  /\ Goto(r, IF Share(CountedDays) > 0 THEN "find" ELSE "failed")
  /\ UNCHANGED <<dbVars, txVars, row, met>>

\* The job was queued because its collection was due.
MissedRead(r) ==
  /\ Starts(r, "missed")
  /\ coll[Target(r)].status # "NONE"
  /\ Goto(r, "missed")
  /\ UNCHANGED <<dbVars, txVars, locals, met>>

-----------------------------------------------------------------------------
(* createTransaction *)

TontineRow(r) ==
  IF Kind(r) = "collect" THEN NewRow(r, "TONTINE_COLLECTION", Saver, Amount)
  ELSE NewRow(r, "TONTINE_PAYOUT", Saver, amt[r])

FindExisting(r) ==
  /\ pc[r] = "find"
  /\ \/ /\ ReturnExisting(r)
        /\ Goto(r, Kind(r))
        /\ UNCHANGED <<dbVars, txVars, amt, met>>
     \/ /\ KeyFree(r) /\ MayPost(r, Saver)
        /\ Goto(r, "insert")
        /\ UNCHANGED <<dbVars, txVars, locals, met>>
     \/ /\ KeyFree(r) /\ ~MayPost(r, Saver)
        /\ Rollback(r)

Insert(r) ==
  /\ pc[r] = "insert"
  /\ ~InsertWaits(r)
  /\ \/ ~KeyFree(r) /\ Rollback(r)
     \/ /\ KeyFree(r)
        /\ InsertDraft(r, TontineRow(r))
        /\ Goto(r, Kind(r))
        /\ UNCHANGED <<removed, cycle, coll, holds, closing, amt, met>>

-----------------------------------------------------------------------------
(* The collection, the cycle and the commit *)

\* Another collection refers to the row: the update fails on the unique index.
RowTaken_Never(r) == FALSE
RowTaken(r) ==
  \E c \in Collections \ {Target(r)} : coll[c].paidBy = row[r]

\* Or it waits, while another transaction has set it and not committed.
RowClaimed(r) ==
  \E s \in Requests \ {r} : holds[s] # None /\ row[s] = row[r]

\* Set by id, once nobody else holds the collection or the index entry.
MarkCollected(r) ==
  /\ pc[r] = "collect"
  /\ CollectionFree(r, Target(r)) /\ ~RowClaimed(r)
  /\ \/ RowTaken(r) /\ Rollback(r)
     \/ /\ ~RowTaken(r)
        /\ holds' = [holds EXCEPT ![r] = Target(r)]
        /\ Goto(r, "commit")
        /\ UNCHANGED <<dbVars, draft, closing, locals, met>>

MarkClosed(r) ==
  /\ pc[r] = "close"
  /\ closing \subseteq {r}
  /\ closing' = {r}
  /\ Goto(r, "commit")
  /\ UNCHANGED <<dbVars, draft, holds, locals, met>>

\* updateMany by id and status.
Pending_Uncollected(c) == coll[c].status # "NONE"
Pending(c) == coll[c].status = "A_COLLECTER"

MarkMissed(r) ==
  /\ pc[r] = "missed"
  /\ CollectionFree(r, Target(r))
  /\ coll' = IF Pending(Target(r)) THEN [coll EXCEPT ![Target(r)].status = "MANQUE"]
             ELSE coll
  /\ Goto(r, "done")
  /\ UNCHANGED <<removed, ledger, cycle, txVars, locals, met>>

Commit(r) ==
  /\ pc[r] = "commit"
  /\ Goto(r, "done")
  /\ ledger' = WithDraft(r)
  /\ coll' = [c \in Collections |->
                IF holds[r] = c THEN [status |-> "COLLECTE", paidBy |-> row[r]]
                ELSE coll[c]]
  /\ cycle' = IF r \in closing THEN "CLOSED" ELSE cycle
  /\ EndTransaction(r)
  /\ UNCHANGED <<removed, locals, met>>

Abort(r) == InFlight(r) /\ Rollback(r)

-----------------------------------------------------------------------------

Arrive(r) == CollectRead(r) \/ CloseRead(r) \/ MissedRead(r)

Proceed(r) == \/ CountCollected(r) \/ FindExisting(r) \/ Insert(r)
              \/ MarkCollected(r) \/ MarkClosed(r) \/ MarkMissed(r) \/ Commit(r)

Next == \/ CreateCycle
        \/ \E c \in Clients : ClientChanges(c)
        \/ \E r \in Requests : Arrive(r) \/ Proceed(r) \/ Abort(r)

Spec == Init /\ [][Next]_vars

-----------------------------------------------------------------------------
(* Properties *)

TypeOK ==
  /\ TransactionsTypeOK
  /\ cycle \in {"NONE", "ACTIVE", "CLOSED"}
  /\ coll \in [Collections -> Collection]
  /\ holds \in [Requests -> Collections \cup {None}]
  /\ closing \subseteq Requests
  /\ pc \in [Requests -> Points]
  /\ amt \in [Requests -> Int]
  /\ met \subseteq SUBSET Requests

RowsOf(type) == {s \in Requests : Posted(s) /\ ledger[s].type = type}

AmountOf(S) == SumOf([s \in S |-> ledger[s].amount], S)

\* Every collected day is backed by a committed row of its own: no row serves two
\* days, even when a call reuses the key of another (TontineCollection.transactionId
\* is unique).
CollectionBacked ==
  /\ \A c \in Collected : coll[c].paidBy # None /\ Posted(coll[c].paidBy)
  /\ \A c, d \in Collected : coll[c].paidBy = coll[d].paidBy => c = d

\* A day that was collected is never marked missed, however late the job runs
\* (missed-collection.processor.ts:15-16).
MissedSparesCollected ==
  [][\A c \in Collections :
       coll[c].status = "COLLECTE" => coll'[c].status = "COLLECTE"]_vars

\* getCycleCollections: what the booklet of the cycle shows as collected.
AmountCollected == Cardinality(Collected) * Amount

\* The booklet shows what the ledger received: no retry, and no closing or missed job
\* that comes in between, collects a day without its row or posts a row without its
\* day, when a day is only collected again under its key.
CollectionsMatchLedger ==
  AmountOf(RowsOf("TONTINE_COLLECTION")) = AmountCollected

\* The client is given back once, and never more than was collected, less the
\* commission: only closings that were served at the same time can each pay, since a
\* closed cycle is refused and a retry finds the row of its key (closeCycle reads the
\* status and sets it at the end, without a lock).
NeverOverpaid ==
  \A r, s \in RowsOf("TONTINE_PAYOUT") :
    /\ ledger[r].amount <= Restitution(Cardinality(Collected))
    /\ r # s => {r, s} \in met
=============================================================================
