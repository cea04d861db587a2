--------------------------- MODULE TontineProofs -----------------------------
(***************************************************************************)
(* Theorems about Tontine for every calendar and every set of requests:    *)
(* collected days have rows of their own, and stay collected.  And about   *)
(* Calendar, which gives a cycle its days and a loan its due dates.        *)
(***************************************************************************)
EXTENDS Tontine, Calendar, TransactionsProofs, FiniteSetTheorems, WellFoundedInduction

\* A request that is past createTransaction works on a row that is committed, or
\* that it has inserted itself.
RowReady(r) ==
  /\ row[r] \in Requests
  /\ \/ Posted(row[r])
     \/ row[r] = r /\ Drafted(r)

RowInv == \A r \in Requests : pc[r] \in {"collect", "close", "commit"} => RowReady(r)

\* Who has set a day, and not committed, holds it alone, and its row is neither
\* another day's nor another holder's: the unique index before the commit.
HoldInv ==
  \A r \in Requests :
    holds[r] # None =>
      /\ pc[r] = "commit"
      /\ \A c \in Collections \ {holds[r]} : coll[c].paidBy # row[r]
      /\ \A s \in Requests \ {r} :
           holds[s] # None => holds[s] # holds[r] /\ row[s] # row[r]

\* Nothing happens before the cycle exists.
StartInv ==
  cycle = "NONE" => /\ \A c \in Collections : coll[c].status = "NONE"
                    /\ \A r \in Requests : ~InFlight(r)

DayInv == TypeOK /\ RowInv /\ HoldInv /\ StartInv /\ CollectionBacked

-----------------------------------------------------------------------------

USE DEF Posted, Drafted, Kind, Goto, Starts, DropDraft, TransactionsTypeOK, L!LedgerTypeOK, dbVars,
        txVars, locals, TypeOK, DayInv

LEMMA InitDays == Init => DayInv
BY DEF Init, TransactionsInit, RowInv, HoldInv, StartInv, InFlight, CollectionBacked,
   Collected, Points, Collection

\* What the collected days give back is an integer.
LEMMA RestitutionType ==
  Restitution(CountedDays) \in Int
<1>1. CountedDays \in Nat
  BY TontineAssumption, FS_Subset, FS_CardinalityType DEF CountedDays, Collected
<1>2. CountedDays * Amount \in Int
  BY <1>1, TontineAssumption
<1>3. FeeDen - FeeNum \in Int /\ FeeDen \in Nat \ {0}
  BY TontineAssumption
<1>4. Share(CountedDays) \in Int
  BY <1>2, <1>3 DEF Share
<1>5. 2 * Share(CountedDays) + FeeDen \in Int /\ 2 * FeeDen \in Nat \ {0}
  BY <1>3, <1>4
<1>6. QED
  BY <1>5 DEF Restitution

LEMMA TontineRowType ==
  ASSUME TypeOK, NEW r \in Requests
  PROVE  TontineRow(r) \in L!Rows /\ TontineRow(r) # NoRow
<1>1. {"TONTINE_COLLECTION", "TONTINE_PAYOUT"} \subseteq L!Types
  BY DEF L!Types
<1>2. Saver \in Clients /\ Amount \in Int /\ amt[r] \in Int
  BY TontineAssumption
<1>3. QED
  BY <1>1, <1>2, NewRowType DEF TontineRow

\* A step of a request that sets no day and drops no row: it moves on, and its row
\* is ready if it is past createTransaction.
LEMMA MoveOn ==
  ASSUME DayInv, NEW r \in Requests, holds[r] = None, cycle # "NONE" \/ pc[r] = "idle",
         UNCHANGED <<ledger, cycle, coll, holds>>,
         NEW point \in Points, pc' = [pc EXCEPT ![r] = point],
         cycle = "NONE" => point \in {"done", "failed"},
         \A s \in Requests \ {r} : draft'[s] = draft[s] /\ row'[s] = row[s],
         point \in {"collect", "close", "commit"} => RowReady(r)',
         TypeOK'
  PROVE  DayInv'
<1>1. RowInv'
  BY DEF RowInv, RowReady
<1>2. HoldInv'
  BY DEF HoldInv
<1>3. StartInv'
  BY DEF StartInv, InFlight
<1>4. CollectionBacked'
  BY DEF CollectionBacked, Collected
<1>5. QED
  BY <1>1, <1>2, <1>3, <1>4

\* Only a request about to commit holds a day.
LEMMA HoldsAtCommit ==
  ASSUME DayInv, NEW r \in Requests, pc[r] # "commit"
  PROVE  holds[r] = None
BY DEF HoldInv

LEMMA CreateCycleDays ==
  ASSUME DayInv, CreateCycle
  PROVE  DayInv'
<1>1. /\ cycle' = "ACTIVE" /\ pc' = pc
      /\ UNCHANGED <<removed, ledger, draft, holds, closing, row, amt, met>>
      /\ coll' = [c \in Collections |-> [status |-> "A_COLLECTER", paidBy |-> None]]
  BY DEF CreateCycle
<1>2. TypeOK'
  BY <1>1 DEF Collection
<1>3. RowInv'
  BY <1>1 DEF RowInv, RowReady
<1>4. HoldInv'
  BY <1>1, TransactionsAssumption DEF HoldInv, RowInv, RowReady
<1>5. StartInv' /\ CollectionBacked'
  BY <1>1 DEF StartInv, CollectionBacked, Collected
<1>6. QED
  BY <1>2, <1>3, <1>4, <1>5

LEMMA ClientDays ==
  ASSUME DayInv, NEW c \in Clients, ClientChanges(c)
  PROVE  DayInv'
<1>1. /\ UNCHANGED <<ledger, cycle, coll, draft, holds, closing, pc, row, amt, met>>
      /\ removed' \subseteq Clients
  BY DEF ClientChanges, SoftDelete, Reactivate
<1>2. QED
  BY <1>1 DEF RowInv, RowReady, HoldInv, StartInv, InFlight, CollectionBacked, Collected

LEMMA ArriveDays ==
  ASSUME DayInv, NEW r \in Requests, Arrive(r)
  PROVE  DayInv'
<1>1. /\ pc[r] = "idle" /\ UNCHANGED <<dbVars, txVars, locals>>
      /\ met' \subseteq SUBSET Requests
      /\ \E point \in {"find", "failed", "count", "missed"} :
           /\ pc' = [pc EXCEPT ![r] = point]
           /\ cycle = "NONE" => point = "failed"
  BY TontineAssumption DEF Arrive, CollectRead, CloseRead, MissedRead, StartInv, NotCollected,
     Closable, Target, OpType
<1>2. PICK point \in {"find", "failed", "count", "missed"} :
        pc' = [pc EXCEPT ![r] = point] /\ (cycle = "NONE" => point = "failed")
  BY <1>1
<1>3. point \in Points /\ TypeOK'
  BY <1>1, <1>2 DEF Points
<1>4. QED
  BY <1>1, <1>2, <1>3, MoveOn, HoldsAtCommit

\* A rollback frees what the request held and leaves no row.
LEMMA RollbackDays ==
  ASSUME DayInv, NEW r \in Requests, InFlight(r), Rollback(r)
  PROVE  DayInv'
<1>1. /\ pc' = [pc EXCEPT ![r] = "failed"]
      /\ draft' = [draft EXCEPT ![r] = NoRow]
      /\ holds' = [holds EXCEPT ![r] = None]
      /\ closing' = closing \ {r}
      /\ UNCHANGED <<removed, ledger, cycle, coll, row, amt, met>>
  BY DEF Rollback, EndTransaction
<1>2. TypeOK'
  BY <1>1 DEF Points
<1>3. RowInv' /\ HoldInv'
  BY <1>1 DEF RowInv, RowReady, HoldInv
<1>4. StartInv' /\ CollectionBacked'
  BY <1>1 DEF StartInv, InFlight, CollectionBacked, Collected
<1>5. QED
  BY <1>2, <1>3, <1>4

LEMMA CountDays ==
  ASSUME DayInv, NEW r \in Requests, CountCollected(r)
  PROVE  DayInv'
<1>1. /\ pc[r] = "count" /\ UNCHANGED <<dbVars, txVars, row, met>>
      /\ amt' = [amt EXCEPT ![r] = Restitution(CountedDays)]
      /\ \E point \in {"find", "failed"} : pc' = [pc EXCEPT ![r] = point]
  BY DEF CountCollected
<1>2. PICK point \in {"find", "failed"} : pc' = [pc EXCEPT ![r] = point]
  BY <1>1
<1>3. point \in Points /\ TypeOK'
  BY <1>1, <1>2, RestitutionType DEF Points
<1>4. cycle # "NONE"
  BY <1>1 DEF StartInv, InFlight
<1>5. QED
  BY <1>1, <1>2, <1>3, <1>4, MoveOn, HoldsAtCommit

LEMMA FindDays ==
  ASSUME DayInv, NEW r \in Requests, FindExisting(r)
  PROVE  DayInv'
<1>1. pc[r] = "find" /\ InFlight(r) /\ cycle # "NONE"
  BY DEF FindExisting, StartInv, InFlight
<1>2. CASE Rollback(r)
  BY <1>1, <1>2, RollbackDays
<1>3. CASE /\ ReturnExisting(r) /\ Goto(r, Kind(r))
           /\ UNCHANGED <<dbVars, txVars, amt, met>>
  <2>1. PICK s \in Requests : Posted(s) /\ row' = [row EXCEPT ![r] = s]
    BY <1>3 DEF ReturnExisting, FindByKey
  <2>2. Kind(r) \in Points
    BY TontineAssumption DEF OpType, Kinds, Points
  <2>3. RowReady(r)' /\ TypeOK'
    BY <1>3, <2>1, <2>2 DEF RowReady
  <2>4. /\ UNCHANGED <<ledger, cycle, coll, holds>> /\ holds[r] = None
        /\ pc' = [pc EXCEPT ![r] = Kind(r)]
        /\ \A q \in Requests \ {r} : draft'[q] = draft[q] /\ row'[q] = row[q]
    BY <1>1, <1>3, <2>1, HoldsAtCommit
  <2>5. QED
    BY ONLY <1>1, <2>2, <2>3, <2>4, DayInv, MoveOn
<1>4. CASE Goto(r, "insert") /\ UNCHANGED <<dbVars, txVars, locals, met>>
  <2>1. "insert" \in Points /\ TypeOK'
    BY <1>4 DEF Points
  <2>2. QED
    BY <1>1, <1>4, <2>1, MoveOn, HoldsAtCommit
<1>5. QED
  BY <1>2, <1>3, <1>4 DEF FindExisting

LEMMA InsertDays ==
  ASSUME DayInv, NEW r \in Requests, Insert(r)
  PROVE  DayInv'
<1>1. pc[r] = "insert" /\ InFlight(r) /\ cycle # "NONE"
  BY DEF Insert, StartInv, InFlight
<1>2. CASE Rollback(r)
  BY <1>1, <1>2, RollbackDays
<1>3. CASE /\ InsertDraft(r, TontineRow(r)) /\ Goto(r, Kind(r))
           /\ UNCHANGED <<removed, cycle, coll, holds, closing, amt, met>>
  <2>1. /\ row' = [row EXCEPT ![r] = r]
        /\ draft' = [draft EXCEPT ![r] = TontineRow(r)]
        /\ ledger' = ledger
    BY <1>3 DEF InsertDraft
  <2>2. Kind(r) \in Points
    BY TontineAssumption DEF OpType, Kinds, Points
  <2>3. RowReady(r)' /\ TypeOK'
    BY <1>3, <2>1, <2>2, TontineRowType DEF RowReady
  <2>4. /\ UNCHANGED <<ledger, cycle, coll, holds>> /\ holds[r] = None
        /\ pc' = [pc EXCEPT ![r] = Kind(r)]
        /\ \A q \in Requests \ {r} : draft'[q] = draft[q] /\ row'[q] = row[q]
    BY <1>1, <1>3, <2>1, HoldsAtCommit
  <2>5. QED
    BY ONLY <1>1, <2>2, <2>3, <2>4, DayInv, MoveOn
<1>4. QED
  BY <1>2, <1>3 DEF Insert

\* Setting a day: nobody holds it, and its row is free.
LEMMA MarkCollectedDays ==
  ASSUME DayInv, NEW r \in Requests, MarkCollected(r)
  PROVE  DayInv'
<1>1. pc[r] = "collect" /\ InFlight(r) /\ cycle # "NONE"
  BY DEF MarkCollected, StartInv, InFlight
<1>2. CASE Rollback(r)
  BY <1>1, <1>2, RollbackDays
<1>3. CASE /\ ~RowTaken(r)
           /\ holds' = [holds EXCEPT ![r] = Target(r)]
           /\ Goto(r, "commit")
           /\ UNCHANGED <<dbVars, draft, closing, locals, met>>
  <2>1. Target(r) \in Collections
    BY TontineAssumption DEF Target, OpType
  <2>2. TypeOK'
    BY <1>3, <2>1 DEF Points
  <2>3. RowInv'
    BY <1>1, <1>3 DEF RowInv, RowReady
  <2>4. /\ \A c \in Collections \ {Target(r)} : coll[c].paidBy # row[r]
        /\ \A s \in Requests \ {r} :
             holds[s] # None => holds[s] # Target(r) /\ row[s] # row[r]
    BY <1>3 DEF MarkCollected, RowTaken, CollectionFree, RowClaimed
  <2>5. HoldInv'
    BY <1>1, <1>3, <2>4 DEF HoldInv
  <2>6. StartInv' /\ CollectionBacked'
    BY <1>1, <1>3 DEF StartInv, CollectionBacked, Collected
  <2>7. QED
    BY <2>2, <2>3, <2>5, <2>6
<1>4. QED
  BY <1>2, <1>3 DEF MarkCollected

LEMMA MarkClosedDays ==
  ASSUME DayInv, NEW r \in Requests, MarkClosed(r)
  PROVE  DayInv'
<1>1. /\ pc[r] = "close" /\ pc' = [pc EXCEPT ![r] = "commit"] /\ closing' = {r}
      /\ UNCHANGED <<dbVars, draft, holds, locals, met>>
  BY DEF MarkClosed
<1>2. "commit" \in Points /\ TypeOK'
  BY <1>1 DEF Points
<1>3. RowReady(r)' /\ cycle # "NONE"
  BY <1>1 DEF RowInv, RowReady, StartInv, InFlight
<1>4. QED
  BY <1>1, <1>2, <1>3, MoveOn, HoldsAtCommit

LEMMA MarkMissedDays ==
  ASSUME DayInv, NEW r \in Requests, MarkMissed(r)
  PROVE  DayInv'
<1>1. /\ pc[r] = "missed" /\ pc' = [pc EXCEPT ![r] = "done"]
      /\ UNCHANGED <<removed, ledger, cycle, draft, holds, closing, row, amt, met>>
      /\ \A c \in Collections :
           /\ coll'[c].paidBy = coll[c].paidBy
           /\ \/ coll'[c].status = coll[c].status
              \/ coll[c].status = "A_COLLECTER" /\ coll'[c].status = "MANQUE"
  BY DEF MarkMissed, Pending, Collection
<1>2. TypeOK'
  <2>1. Target(r) \in Collections /\ coll[Target(r)] \in Collection
    BY TontineAssumption DEF Target, OpType
  <2>2. [coll[Target(r)] EXCEPT !.status = "MANQUE"] \in Collection
    BY <2>1 DEF Collection
  <2>3. coll' \in [Collections -> Collection]
    BY <2>1, <2>2 DEF MarkMissed
  <2>4. QED
    BY <1>1, <2>3 DEF Points
<1>3. RowInv' /\ HoldInv'
  BY <1>1 DEF RowInv, RowReady, HoldInv
<1>4. StartInv'
  BY <1>1 DEF StartInv, InFlight
<1>5. CollectionBacked'
  BY <1>1 DEF CollectionBacked, Collected
<1>6. QED
  BY <1>2, <1>3, <1>4, <1>5

\* A commit publishes the day and its row, and frees both.
LEMMA CommitDays ==
  ASSUME DayInv, NEW r \in Requests, Commit(r)
  PROVE  DayInv'
<1>1. /\ pc[r] = "commit" /\ pc' = [pc EXCEPT ![r] = "done"]
      /\ ledger' = WithDraft(r)
      /\ draft' = [draft EXCEPT ![r] = NoRow]
      /\ holds' = [holds EXCEPT ![r] = None]
      /\ closing' = closing \ {r}
      /\ UNCHANGED <<removed, row, amt, met>>
      /\ cycle' \in {cycle, "CLOSED"}
  BY DEF Commit, EndTransaction
<1>2. \A c \in Collections :
        coll'[c] = IF holds[r] = c THEN [status |-> "COLLECTE", paidBy |-> row[r]]
                   ELSE coll[c]
  BY DEF Commit
<1>3. RowReady(r) /\ cycle # "NONE"
  BY <1>1 DEF RowInv, StartInv, InFlight
<1>4. \A s \in Requests : Posted(s) => Posted(s)'
  BY <1>1 DEF WithDraft
<1>5. Posted(row[r])'
  BY <1>1, <1>3, <1>4 DEF RowReady, WithDraft
<1>6. TypeOK'
  BY <1>1, <1>3 DEF Commit, WithDraft, Points, Collection, RowReady
<1>7. RowInv'
  BY <1>1, <1>4 DEF RowInv, RowReady
<1>8. HoldInv'
  <2> SUFFICES ASSUME NEW s \in Requests, holds'[s] # None
               PROVE  /\ pc'[s] = "commit"
                      /\ \A c \in Collections \ {holds'[s]} : coll'[c].paidBy # row[s]
                      /\ \A q \in Requests \ {s} :
                           holds'[q] # None => holds'[q] # holds'[s] /\ row[q] # row[s]
    BY <1>1 DEF HoldInv
  <2>1. s # r /\ holds'[s] = holds[s] /\ pc'[s] = "commit"
    BY <1>1 DEF HoldInv
  <2>2. ASSUME NEW c \in Collections \ {holds[s]}
        PROVE  coll'[c].paidBy # row[s]
    <3>1. coll[c].paidBy # row[s]
      BY <2>1 DEF HoldInv
    <3>2. holds[r] = c => row[r] # row[s]
      BY <2>1, TontineAssumption DEF HoldInv
    <3>3. QED
      BY <1>2, <3>1, <3>2
  <2>3. QED
    BY <1>1, <2>1, <2>2 DEF HoldInv
<1>9. StartInv'
  BY <1>1, <1>3 DEF StartInv
<1>10. CollectionBacked'
  <2>1. ASSUME NEW c \in Collections, coll'[c].status = "COLLECTE"
        PROVE  coll'[c].paidBy # None /\ ledger'[coll'[c].paidBy] # NoRow
    <3>1. CASE holds[r] = c
      BY <1>1, <1>2, <1>3, <1>5, <3>1, TransactionsAssumption DEF RowReady
    <3>2. CASE holds[r] # c
      <4>1. coll'[c] = coll[c] /\ c \in Collected
        BY <1>2, <2>1, <3>2 DEF Collected
      <4>2. coll[c].paidBy # None /\ coll[c].paidBy \in Requests \cup {None}
        BY <4>1 DEF CollectionBacked, Collection
      <4>3. Posted(coll[c].paidBy) /\ coll[c].paidBy \in Requests
        BY <4>1, <4>2 DEF CollectionBacked
      <4>4. QED
        BY <1>4, <4>1, <4>2, <4>3
    <3>3. QED
      BY <3>1, <3>2
  <2>2. ASSUME NEW c \in Collections, NEW d \in Collections,
               coll'[c].status = "COLLECTE", coll'[d].status = "COLLECTE",
               coll'[c].paidBy = coll'[d].paidBy
        PROVE  c = d
    BY <1>2, <2>2, TontineAssumption DEF CollectionBacked, Collected, HoldInv
  <2>3. QED
    BY <2>1, <2>2 DEF CollectionBacked, Collected
<1>11. QED
  BY <1>6, <1>7, <1>8, <1>9, <1>10

LEMMA NextDays ==
  ASSUME DayInv, [Next]_vars
  PROVE  DayInv'
<1>1. CASE CreateCycle
  BY <1>1, CreateCycleDays
<1>2. ASSUME NEW c \in Clients, ClientChanges(c)
      PROVE  DayInv'
  BY <1>2, ClientDays
<1>3. ASSUME NEW r \in Requests, Arrive(r)
      PROVE  DayInv'
  BY <1>3, ArriveDays
<1>4. ASSUME NEW r \in Requests, Proceed(r)
      PROVE  DayInv'
  BY <1>4, CountDays, FindDays, InsertDays, MarkCollectedDays, MarkClosedDays,
     MarkMissedDays, CommitDays DEF Proceed
<1>5. ASSUME NEW r \in Requests, Abort(r)
      PROVE  DayInv'
  BY <1>5, RollbackDays DEF Abort
<1>6. CASE UNCHANGED vars
  BY <1>6 DEF vars, RowInv, RowReady, HoldInv, StartInv, InFlight, CollectionBacked,
     Collected
<1>7. QED
  BY <1>1, <1>2, <1>3, <1>4, <1>5, <1>6 DEF Next

LEMMA DaysInvariant == Spec => []DayInv
<1>1. QED
  BY InitDays, NextDays, PTL DEF Spec

\* Every variable keeps its type, for any calendar, commission and requests.
THEOREM TypeCorrect == Spec => []TypeOK
<1>1. DayInv => TypeOK
  OBVIOUS
<1>2. QED
  BY <1>1, DaysInvariant, PTL

\* Every collected day is backed by a committed row that backs no other day, however
\* collections, retries, reused keys and rollbacks interleave.
THEOREM DaysBacked == Spec => []CollectionBacked
<1>1. DayInv => CollectionBacked
  OBVIOUS
<1>2. QED
  BY <1>1, DaysInvariant, PTL

\* No step takes a collected day back: neither the missed job nor a collection, a
\* rollback or the creation of the cycle.
THEOREM CollectedStays == Spec => MissedSparesCollected
<1>1. ASSUME DayInv, [Next]_vars, NEW c \in Collections, coll[c].status = "COLLECTE"
      PROVE  coll'[c].status = "COLLECTE"
  <2>1. CASE CreateCycle
    BY <1>1, <2>1 DEF CreateCycle, StartInv
  <2>2. ASSUME NEW r \in Requests, MarkMissed(r)
        PROVE  coll'[c].status = "COLLECTE"
    BY <1>1, <2>2 DEF MarkMissed, Pending
  <2>3. ASSUME NEW r \in Requests, Commit(r)
        PROVE  coll'[c].status = "COLLECTE"
    BY <1>1, <2>3 DEF Commit
  <2>4. CASE coll' = coll
    BY <1>1, <2>4
  <2>5. CASE ~CreateCycle /\ \A r \in Requests : ~MarkMissed(r) /\ ~Commit(r)
    BY <1>1, <2>4, <2>5 DEF Next, vars, ClientChanges, Arrive, CollectRead, CloseRead,
       MissedRead, Proceed, CountCollected, FindExisting, Insert, MarkCollected,
       MarkClosed, Abort, Rollback
  <2>6. QED
    BY <2>1, <2>2, <2>3, <2>5
<1>2. DayInv /\ [Next]_vars =>
        [\A c \in Collections :
           coll[c].status = "COLLECTE" => coll'[c].status = "COLLECTE"]_vars
  BY <1>1
<1>3. QED
  BY <1>2, DaysInvariant, PTL DEF Spec, MissedSparesCollected

-----------------------------------------------------------------------------
(***************************************************************************)
(* The booklet and the ledger.  A collection sets its day and posts its    *)
(* row in one commit, and the closing its row, so each service's rows can  *)
(* be followed request by request.                                         *)
(***************************************************************************)

\* What a request has read, set and inserted at each point of its way.
OwnRow(r) ==
  /\ pc[r] \in {"count", "close"} => Kind(r) = "close"
  /\ pc[r] = "collect" => Kind(r) = "collect"
  /\ pc[r] \in {"find", "insert"} => Kind(r) \in {"collect", "close"}
  /\ pc[r] = "commit" => \/ Kind(r) = "collect" /\ holds[r] = Target(r)
                         \/ Kind(r) = "close" /\ holds[r] = None /\ r \in closing
  /\ Drafted(r) => /\ pc[r] \in {"collect", "close", "commit"}
                   /\ row[r] = r
                   /\ draft[r] = TontineRow(r)
  /\ Posted(r) => /\ pc[r] = "done" /\ Kind(r) \in {"collect", "close"}
                  /\ ledger[r] = TontineRow(r)
  /\ pc[r] \in {"collect", "close", "commit"} /\ Posted(row[r]) =>
       ledger[row[r]].key = Op[r].key

OwnRows == \A r \in Requests : OwnRow(r)

\* A step of r leaves the other requests theirs.
LEMMA OthersKeepRows ==
  ASSUME DayInv, OwnRows, NEW r \in Requests, NEW s \in Requests \ {r},
         pc'[s] = pc[s], holds'[s] = holds[s], row'[s] = row[s], draft'[s] = draft[s],
         amt'[s] = amt[s], s \in closing => s \in closing',
         \/ ledger' = ledger
         \/ Drafted(r) /\ ledger' = [ledger EXCEPT ![r] = draft[r]]
  PROVE  OwnRow(s)'
<1>1. OwnRow(s) /\ OwnRow(r)
  BY DEF OwnRows
<1>2. ledger'[s] = ledger[s] /\ TontineRow(s)' = TontineRow(s)
  BY DEF TontineRow, NewRow
<1>3. ASSUME pc[s] \in {"collect", "close", "commit"}, Posted(row[s])'
      PROVE  ledger'[row[s]].key = Op[s].key
  <2>1. row[s] \in Requests /\ (Posted(row[s]) \/ row[s] = s)
    BY <1>3 DEF RowInv, RowReady
  <2>2. Posted(row[s]) /\ row[s] \in Requests
    BY <1>2, <1>3, <2>1
  <2>3. ledger'[row[s]] = ledger[row[s]]
    BY <1>1, <2>2 DEF OwnRow
  <2>4. QED
    BY <1>1, <1>3, <2>2, <2>3 DEF OwnRow
<1>4. QED
  BY <1>1, <1>2, <1>3 DEF OwnRow

LEMMA RollbackRow ==
  ASSUME DayInv, OwnRows, NEW r \in Requests, InFlight(r), Rollback(r)
  PROVE  OwnRow(r)'
<1>1. pc'[r] = "failed" /\ draft'[r] = NoRow /\ ledger' = ledger
  BY DEF Rollback, EndTransaction
<1>2. ~Posted(r)
  BY DEF OwnRows, OwnRow, InFlight
<1>3. QED
  BY <1>1, <1>2 DEF OwnRow

LEMMA TontineRowKey ==
  ASSUME NEW r \in Requests
  PROVE  TontineRow(r).key = Op[r].key /\ TontineRow(r).type
           = IF Kind(r) = "collect" THEN "TONTINE_COLLECTION" ELSE "TONTINE_PAYOUT"
BY DEF TontineRow, NewRow

\* A request that moves on without a row of its own.
LEMMA NoRowYet ==
  ASSUME DayInv, OwnRows, NEW r \in Requests, pc[r] \in {"idle", "count", "find", "missed"},
         ledger' = ledger, draft' = draft,
         pc'[r] \in {"failed", "done", "count", "find", "insert", "missed"},
         pc'[r] = "count" => Kind(r) = "close",
         pc'[r] \in {"find", "insert"} => Kind(r) \in {"collect", "close"}
  PROVE  OwnRow(r)'
<1>1. ~Drafted(r) /\ ~Posted(r)
  BY DEF OwnRows, OwnRow
<1>2. QED
  BY <1>1 DEF OwnRow

LEMMA FindRow ==
  ASSUME DayInv, OwnRows, NEW r \in Requests, FindExisting(r)
  PROVE  OwnRow(r)'
<1>1. pc[r] = "find" /\ ~Drafted(r) /\ ~Posted(r) /\ InFlight(r)
      /\ Kind(r) \in {"collect", "close"}
  BY DEF FindExisting, OwnRows, OwnRow, InFlight
<1>2. CASE Rollback(r)
  BY <1>1, <1>2, RollbackRow
<1>3. CASE /\ ReturnExisting(r) /\ Goto(r, Kind(r))
           /\ UNCHANGED <<dbVars, txVars, amt, met>>
  <2>1. PICK s \in Requests : /\ Posted(s) /\ ledger[s].key = Op[r].key
                              /\ row' = [row EXCEPT ![r] = s]
    BY <1>3 DEF ReturnExisting, FindByKey
  <2>2. row'[r] = s /\ pc'[r] = Kind(r) /\ ledger' = ledger /\ draft' = draft
    BY <1>3, <2>1
  <2>3. QED
    BY <1>1, <2>1, <2>2 DEF OwnRow
<1>4. CASE Goto(r, "insert") /\ UNCHANGED <<dbVars, txVars, locals, met>>
  BY <1>1, <1>4, NoRowYet
<1>5. QED
  BY <1>2, <1>3, <1>4 DEF FindExisting

LEMMA InsertRow ==
  ASSUME DayInv, OwnRows, NEW r \in Requests, Insert(r)
  PROVE  OwnRow(r)'
<1>1. pc[r] = "insert" /\ ~Drafted(r) /\ ~Posted(r) /\ InFlight(r)
      /\ Kind(r) \in {"collect", "close"}
  BY DEF Insert, OwnRows, OwnRow, InFlight
<1>2. CASE Rollback(r)
  BY <1>1, <1>2, RollbackRow
<1>3. CASE /\ InsertDraft(r, TontineRow(r)) /\ Goto(r, Kind(r))
           /\ UNCHANGED <<removed, cycle, coll, holds, closing, amt, met>>
  <2>1. /\ pc'[r] = Kind(r) /\ row'[r] = r /\ draft'[r] = TontineRow(r)
        /\ ledger' = ledger /\ TontineRow(r)' = TontineRow(r)
    BY <1>3 DEF InsertDraft, TontineRow, NewRow
  <2>2. QED
    BY <1>1, <2>1 DEF OwnRow
<1>4. QED
  BY <1>2, <1>3 DEF Insert

LEMMA MarkRow ==
  ASSUME DayInv, OwnRows, NEW r \in Requests, MarkCollected(r) \/ MarkClosed(r)
  PROVE  OwnRow(r)'
<1>1. pc[r] \in {"collect", "close"} /\ InFlight(r) /\ OwnRow(r) /\ holds[r] = None
  BY HoldsAtCommit DEF MarkCollected, MarkClosed, OwnRows, InFlight
<1>2. CASE Rollback(r)
  BY <1>1, <1>2, RollbackRow
<1>3. CASE ~Rollback(r)
  <2>1. /\ pc'[r] = "commit" /\ UNCHANGED <<ledger, draft, row, amt>>
        /\ \/ pc[r] = "collect" /\ holds'[r] = Target(r)
           \/ pc[r] = "close" /\ holds' = holds /\ r \in closing'
    BY <1>3 DEF MarkCollected, MarkClosed
  <2>2. TontineRow(r)' = TontineRow(r)
    BY <2>1 DEF TontineRow, NewRow
  <2>3. QED
    BY <1>1, <2>1, <2>2 DEF OwnRow
<1>4. QED
  BY <1>2, <1>3

\* What a commit does to the ledger, the days and the cycle.
LEMMA CommitRow ==
  ASSUME DayInv, OwnRows, NEW r \in Requests, Commit(r)
  PROVE  /\ OwnRow(r)'
         /\ pc[r] = "commit" /\ Kind(r) \in {"collect", "close"}
         /\ IF Drafted(r) THEN row[r] = r /\ ~Posted(r) /\ draft[r] = TontineRow(r)
                               /\ ledger' = [ledger EXCEPT ![r] = draft[r]]
            ELSE ledger' = ledger /\ row[r] \in Requests /\ Posted(row[r])
                 /\ ledger[row[r]].key = Op[r].key
         /\ IF Kind(r) = "collect"
            THEN coll' = [coll EXCEPT ![Target(r)] =
                            [status |-> "COLLECTE", paidBy |-> row[r]]]
            ELSE coll' = coll /\ cycle' = "CLOSED"
<1>1. /\ pc[r] = "commit" /\ pc'[r] = "done" /\ draft'[r] = NoRow
      /\ ledger' = WithDraft(r) /\ UNCHANGED <<row, amt>>
      /\ OwnRow(r) /\ RowReady(r)
  BY DEF Commit, EndTransaction, OwnRows, RowInv
<1>2. Kind(r) \in {"collect", "close"} /\ ~Posted(r)
  BY <1>1 DEF OwnRow
<1>3. Target(r) \in Collections /\ None \notin Collections
  BY TontineAssumption DEF Target, OpType
<1>4. IF Drafted(r) THEN row[r] = r /\ ~Posted(r) /\ draft[r] = TontineRow(r)
                         /\ ledger' = [ledger EXCEPT ![r] = draft[r]]
      ELSE ledger' = ledger /\ row[r] \in Requests /\ Posted(row[r])
           /\ ledger[row[r]].key = Op[r].key
  BY <1>1, <1>2 DEF WithDraft, OwnRow, RowReady
<1>5. IF Kind(r) = "collect"
      THEN coll' = [coll EXCEPT ![Target(r)] = [status |-> "COLLECTE", paidBy |-> row[r]]]
      ELSE coll' = coll /\ cycle' = "CLOSED"
  BY <1>1, <1>2, <1>3 DEF Commit, OwnRow
<1>6. OwnRow(r)'
  <2>1. TontineRow(r)' = TontineRow(r)
    BY <1>1 DEF TontineRow, NewRow
  <2>2. Posted(r)' => ledger'[r] = TontineRow(r)
    BY <1>1, <1>2, <1>4
  <2>3. QED
    BY <1>1, <1>2, <2>1, <2>2 DEF OwnRow
<1>7. QED
  BY <1>1, <1>2, <1>4, <1>5, <1>6

LEMMA StepOwnRow ==
  ASSUME DayInv, OwnRows, NEW r \in Requests, Arrive(r) \/ Proceed(r) \/ Abort(r)
  PROVE  OwnRow(r)'
<1>1. CASE Arrive(r)
  BY <1>1, NoRowYet DEF Arrive, CollectRead, CloseRead, MissedRead
<1>2. CASE CountCollected(r)
  <2>1. Kind(r) = "close"
    BY <1>2 DEF CountCollected, OwnRows, OwnRow
  <2>2. QED
    BY <1>2, <2>1, NoRowYet DEF CountCollected
<1>3. CASE MarkMissed(r)
  BY <1>3, NoRowYet DEF MarkMissed
<1>4. CASE Abort(r)
  BY <1>4, RollbackRow DEF Abort
<1>5. QED
  BY <1>1, <1>2, <1>3, <1>4, FindRow, InsertRow, MarkRow, CommitRow DEF Proceed

\* What a step of r may touch outside the days and the cycle.
LEMMA StepFrame ==
  ASSUME DayInv, OwnRows, NEW r \in Requests, Arrive(r) \/ Proceed(r) \/ Abort(r)
  PROVE  /\ \A s \in Requests \ {r} :
              /\ pc'[s] = pc[s] /\ holds'[s] = holds[s] /\ row'[s] = row[s]
              /\ draft'[s] = draft[s] /\ amt'[s] = amt[s]
              /\ s \in closing => s \in closing'
         /\ \/ ledger' = ledger
            \/ Drafted(r) /\ Commit(r) /\ ledger' = [ledger EXCEPT ![r] = draft[r]]
<1>1. CASE Rollback(r)
  BY <1>1 DEF Rollback, EndTransaction
<1>2. CASE Arrive(r) \/ CountCollected(r) \/ MarkMissed(r)
  BY <1>2 DEF Arrive, CollectRead, CloseRead, MissedRead, CountCollected, MarkMissed
<1>3. CASE FindExisting(r) /\ ~Rollback(r)
  BY <1>3 DEF FindExisting, ReturnExisting
<1>4. CASE Insert(r) /\ ~Rollback(r)
  BY <1>4 DEF Insert, InsertDraft
<1>5. CASE (MarkCollected(r) \/ MarkClosed(r)) /\ ~Rollback(r)
  BY <1>5 DEF MarkCollected, MarkClosed
<1>6. CASE Commit(r)
  BY <1>6, CommitRow DEF Commit, EndTransaction
<1>7. QED
  BY <1>1, <1>2, <1>3, <1>4, <1>5, <1>6 DEF Proceed, Abort

LEMMA InitRows == Init => OwnRows
BY DEF Init, TransactionsInit, OwnRows, OwnRow

LEMMA NextRows ==
  ASSUME DayInv, OwnRows, [Next]_vars
  PROVE  OwnRows'
<1>1. ASSUME NEW r \in Requests, Arrive(r) \/ Proceed(r) \/ Abort(r)
      PROVE  OwnRows'
  BY <1>1, StepFrame, StepOwnRow, OthersKeepRows DEF OwnRows
<1>2. CASE UNCHANGED <<ledger, pc, row, draft, amt, holds, closing>>
  BY <1>2 DEF OwnRows, OwnRow, TontineRow, NewRow
<1>3. QED
  BY <1>1, <1>2 DEF Next, CreateCycle, ClientChanges, SoftDelete, Reactivate, vars

LEMMA NextKeys ==
  ASSUME DayInv, OwnRows, KeyInv, [Next]_vars
  PROVE  KeyInv'
<1>1. CASE ledger' = ledger /\ draft' = draft
  BY <1>1 DEF KeyInv, KeyOnce
<1>2. ASSUME NEW r \in Requests, Rollback(r)
      PROVE  KeyInv'
  BY <1>2, DropKey DEF Rollback, EndTransaction
<1>3. ASSUME NEW r \in Requests, Insert(r), ~Rollback(r)
      PROVE  KeyInv'
  <2>1. ~InsertWaits(r) /\ KeyFree(r) /\ InsertDraft(r, TontineRow(r)) /\ pc[r] = "insert"
    BY <1>3 DEF Insert
  <2>2. TontineRow(r) \in L!Rows /\ TontineRow(r).key = Op[r].key
    BY TontineRowType, TontineRowKey
  <2>3. ~Drafted(r)
    BY <2>1 DEF OwnRows, OwnRow
  <2>4. QED
    BY <2>1, <2>2, <2>3, InsertKey
<1>4. ASSUME NEW r \in Requests, Commit(r)
      PROVE  KeyInv'
  BY <1>4, CommitKey DEF Commit, EndTransaction
<1>5. ASSUME NEW r \in Requests, Arrive(r) \/ Proceed(r) \/ Abort(r)
      PROVE  KeyInv'
  BY <1>1, <1>2, <1>3, <1>4, <1>5 DEF Arrive, CollectRead, CloseRead, MissedRead,
     Proceed, CountCollected, FindExisting, MarkCollected, MarkClosed, MarkMissed, Abort
<1>6. QED
  BY <1>1, <1>5 DEF Next, CreateCycle, ClientChanges, SoftDelete, Reactivate, vars

\* Days change in three ways: a commit collects one, or nothing is collected.
LEMMA DaysStep ==
  ASSUME DayInv, OwnRows, [Next]_vars
  PROVE  \/ \E r \in Requests : Commit(r)
         \/ /\ ledger' = ledger /\ Collected' = Collected
            /\ \A c \in Collected : coll'[c].paidBy = coll[c].paidBy
<1>1. CASE CreateCycle
  <2>1. Collected = {} /\ Collected' = {} /\ ledger' = ledger
    BY <1>1 DEF CreateCycle, StartInv, Collected
  <2>2. QED
    BY <2>1
<1>2. ASSUME NEW r \in Requests, MarkMissed(r)
      PROVE  /\ ledger' = ledger /\ Collected' = Collected
             /\ \A c \in Collected : coll'[c].paidBy = coll[c].paidBy
  <2>1. /\ ledger' = ledger
        /\ \A c \in Collections :
             \/ coll'[c] = coll[c]
             \/ coll[c].status = "A_COLLECTER" /\ coll'[c].status = "MANQUE"
    BY <1>2 DEF MarkMissed, Pending, Collection
  <2>2. QED
    BY <2>1 DEF Collected
<1>3. CASE ledger' = ledger /\ coll' = coll
  BY <1>3 DEF Collected
<1>4. ASSUME NEW r \in Requests, Arrive(r) \/ Proceed(r) \/ Abort(r),
             ~Commit(r), ~MarkMissed(r)
      PROVE  ledger' = ledger /\ coll' = coll
  <2>1. CASE Insert(r)
    BY <2>1 DEF Insert, InsertDraft, Rollback
  <2>2. CASE ~Insert(r)
    BY <1>4, <2>2 DEF Arrive, CollectRead, CloseRead, MissedRead, Proceed,
       CountCollected, FindExisting, MarkCollected, MarkClosed, Abort, Rollback
  <2>3. QED
    BY <2>1, <2>2
<1>5. QED
  BY <1>1, <1>2, <1>3, <1>4 DEF Next, ClientChanges, SoftDelete, Reactivate, vars

-----------------------------------------------------------------------------

\* A key is the client's name for one kind of operation.
KeysOwn ==
  \A r, s \in Requests :
    Kind(r) = "collect" /\ Kind(s) = "close" => Op[r].key # Op[s].key

Collecting(r) == Kind(r) = "collect" /\ InFlight(r)

\* Collections of the same day that are served at the same time are retries of one
\* call: they have its key.
CollectsApart ==
  \A r, s \in Requests :
    Collecting(r) /\ Collecting(s) /\ Target(r) = Target(s) => Op[r].key = Op[s].key

\* The row of a collected day has the key of whoever is still collecting that day.
DayKeys ==
  \A c \in Collected, r \in Requests :
    Collecting(r) /\ Target(r) = c => ledger[coll[c].paidBy].key = Op[r].key

\* A row posted for a day is the row of a collected day.
RowDays ==
  \A s \in Requests :
    Posted(s) /\ Kind(s) = "collect" => \E c \in Collected : coll[c].paidBy = s

StateInv == DayInv /\ OwnRows /\ KeyInv
BookletInv == DayKeys /\ RowDays /\ CollectionsMatchLedger

\* A collected day's row is some request's.
LEMMA PaidByRequest ==
  ASSUME DayInv, NEW c \in Collected
  PROVE  coll[c].paidBy \in Requests /\ Posted(coll[c].paidBy)
BY DEF CollectionBacked, Collected, Collection

\* A request that arrives for a collected day or a closed cycle is refused.
LEMMA ArrivesRefused ==
  ASSUME DayInv, OwnRows, [Next]_vars, NEW r \in Requests, InFlight(r)', ~InFlight(r)
  PROVE  /\ Kind(r) = "collect" => Target(r) \notin Collected /\ Target(r) \notin Collected'
         /\ Kind(r) = "close" => cycle = "ACTIVE"
         /\ ledger' = ledger /\ coll' = coll /\ cycle' = cycle
<1>1. PICK s \in Requests : Arrive(s) \/ Proceed(s) \/ Abort(s)
  BY DEF Next, CreateCycle, ClientChanges, InFlight, vars
<1>2. s = r
  BY <1>1, StepFrame DEF InFlight
<1>3. Arrive(r)
  BY <1>1, <1>2 DEF Proceed, Abort, CountCollected, FindExisting, Insert, MarkCollected,
     MarkClosed, MarkMissed, Commit, InFlight
<1>4. QED
  BY <1>3 DEF Arrive, CollectRead, CloseRead, MissedRead, NotCollected, Closable, Collected,
     InFlight

LEMMA CollectedFinite ==
  IsFiniteSet(Collected) /\ Cardinality(Collected) \in Nat
BY TontineAssumption, FS_Subset, FS_CardinalityType DEF Collected

\* A commit without a row of its own leaves the ledger; with one, it adds the row's
\* amount to the sum of its type, and to no other.
LEMMA CommitAmount ==
  ASSUME DayInv, OwnRows, DayInv', NEW r \in Requests, Commit(r), NEW type
  PROVE  /\ Drafted(r) /\ TontineRow(r).type = type =>
              AmountOf(RowsOf(type))' = AmountOf(RowsOf(type)) + TontineRow(r).amount
         /\ ~(Drafted(r) /\ TontineRow(r).type = type) =>
              AmountOf(RowsOf(type))' = AmountOf(RowsOf(type))
<1> DEFINE S == RowsOf(type)
           f == [s \in S |-> ledger[s].amount]
<1>1. /\ IsFiniteSet(S) /\ IsFiniteSet(S')
      /\ \A s \in S : s \in Requests /\ ledger[s].amount \in Int
      /\ \A s \in S' : s \in Requests /\ ledger'[s].amount \in Int
      /\ AmountOf(S) \in Int /\ AmountOf(S)' \in Int
  <2>1. S \subseteq Requests /\ S' \subseteq Requests
    BY DEF RowsOf
  <2>2. IsFiniteSet(S) /\ IsFiniteSet(S')
    <3> HIDE DEF S
    <3>1. QED
      BY ONLY <2>1, TransactionsAssumption, FS_Subset
  <2>3. /\ \A s \in S : ledger[s].amount \in Int
        /\ \A s \in S' : ledger'[s].amount \in Int
    BY DEF RowsOf, L!Rows
  <2>4. /\ \A x \in S : f[x] \in Int
        /\ \A x \in S' : f'[x] \in Int
    BY <2>3
  <2>5. SumOf(f, S) \in Int /\ SumOf(f', S') \in Int
    <3> HIDE DEF S, f
    <3>1. SumOf(f, S) \in Int
      BY ONLY <2>2, <2>4, SumInt
    <3>2. SumOf(f', S') \in Int
      BY ONLY <2>2, <2>4, SumInt
    <3>3. QED
      BY <3>1, <3>2
  <2>6. QED
    BY <2>1, <2>2, <2>3, <2>5 DEF AmountOf
<1>2. AmountOf(S) = SumOf(f, S) /\ AmountOf(S)' = SumOf(f', S')
  BY DEF AmountOf
<1>3. CASE Drafted(r)
  <2>1. /\ ledger' = [ledger EXCEPT ![r] = TontineRow(r)] /\ ~Posted(r)
        /\ ledger'[r] = TontineRow(r) /\ TontineRow(r) # NoRow
        /\ \A s \in Requests \ {r} : ledger'[s] = ledger[s]
    BY <1>3, CommitRow, TontineRowType
  <2>2. /\ r \notin S
        /\ S' = IF TontineRow(r).type = type THEN S \cup {r} ELSE S
    BY <2>1 DEF RowsOf
  <2>3. /\ \A x \in S : f[x] \in Int
        /\ \A x \in S' : f'[x] \in Int
        /\ \A x \in S \ {r} : f[x] = f'[x]
        /\ r \in S' => f'[r] = TontineRow(r).amount /\ TontineRow(r).amount \in Int
    BY <1>1, <2>1, <2>2
  <2>4. S \ {r} = S' \ {r}
    BY <2>2
  <2>5. SumOf(f', S') - (IF r \in S' THEN f'[r] ELSE 0)
          = SumOf(f, S) - (IF r \in S THEN f[r] ELSE 0)
    <3> HIDE DEF S, f
    <3>1. QED
      BY ONLY <1>1, <2>3, <2>4, SumChange
  <2>6. QED
    <3> HIDE DEF S, f
    <3>1. QED
      BY <1>1, <1>2, <1>3, <2>2, <2>3, <2>5 DEF S
<1>4. CASE ~Drafted(r)
  <2>1. ledger' = ledger
    BY <1>4, CommitRow
  <2>2. QED
    BY <1>4, <2>1 DEF AmountOf, RowsOf
<1>5. QED
  BY <1>3, <1>4

\* A commit posts the row of a day exactly when it collects that day.
LEMMA CommitDay ==
  ASSUME StateInv, BookletInv, KeysOwn, NEW r \in Requests, Commit(r)
  PROVE  IF Kind(r) = "collect" /\ Drafted(r)
         THEN Target(r) \notin Collected /\ Collected' = Collected \cup {Target(r)}
         ELSE coll' = coll
<1>1. pc[r] = "commit" /\ InFlight(r) /\ Kind(r) \in {"collect", "close"} /\ OwnRow(r)
  BY CommitRow DEF StateInv, OwnRows, InFlight
<1>2. CASE Kind(r) = "close"
  BY <1>2, CommitRow DEF StateInv
<1>3. CASE Kind(r) = "collect" /\ Drafted(r)
  <2>1. Target(r) \notin Collected
    <3> SUFFICES ASSUME Target(r) \in Collected
                 PROVE  FALSE
      OBVIOUS
    <3>1. ledger[coll[Target(r)].paidBy].key = Op[r].key
      BY <1>1, <1>3 DEF BookletInv, DayKeys, Collecting
    <3>2. coll[Target(r)].paidBy \in Requests /\ Posted(coll[Target(r)].paidBy)
      BY PaidByRequest DEF StateInv
    <3>3. draft[r].key = Op[r].key
      BY <1>1, <1>3, TontineRowKey DEF OwnRow
    <3>4. QED
      BY <1>3, <3>1, <3>2, <3>3 DEF StateInv, KeyInv
  <2>2. Target(r) \in Collections
    BY TontineAssumption DEF Target, OpType
  <2>3. Collected' = Collected \cup {Target(r)}
    BY <1>3, <2>2, CommitRow DEF StateInv, Collected
  <2>4. QED
    BY <1>3, <2>1, <2>3
<1>4. CASE Kind(r) = "collect" /\ ~Drafted(r)
  <2>1. row[r] \in Requests /\ Posted(row[r]) /\ ledger[row[r]].key = Op[r].key
    BY <1>4, CommitRow DEF StateInv
  <2>2. Kind(row[r]) = "collect"
    <3>1. OwnRow(row[r])
      BY <2>1 DEF StateInv, OwnRows
    <3>2. Op[row[r]].key = Op[r].key /\ Kind(row[r]) \in {"collect", "close"}
      BY <2>1, <3>1, TontineRowKey DEF OwnRow
    <3>3. QED
      BY <1>4, <2>1, <3>2 DEF KeysOwn
  <2>3. PICK c \in Collected : coll[c].paidBy = row[r]
    BY <2>1, <2>2 DEF BookletInv, RowDays
  <2>4. holds[r] = Target(r) /\ Target(r) \in Collections
    BY <1>1, <1>4, TontineAssumption DEF OwnRow, Target, OpType
  <2>5. c = Target(r)
    BY <2>3, <2>4, TontineAssumption DEF StateInv, HoldInv, Collected
  <2>6. coll[c] = [status |-> "COLLECTE", paidBy |-> row[r]]
    BY <2>3 DEF Collected, Collection, StateInv
  <2>7. QED
    BY <1>4, <2>4, <2>5, <2>6, CommitRow DEF StateInv
<1>5. QED
  BY <1>1, <1>2, <1>3, <1>4

\* Rows and days are added together.
LEMMA CommitBooklet ==
  ASSUME StateInv, StateInv', BookletInv, KeysOwn, CollectsApart,
         NEW r \in Requests, Commit(r)
  PROVE  BookletInv'
<1>1. /\ Kind(r) \in {"collect", "close"}
      /\ pc[r] = "commit" /\ InFlight(r)
      /\ \A s \in Requests : Posted(s) => Posted(s)' /\ ledger'[s] = ledger[s]
      /\ \A s \in Requests : Posted(s)' => Posted(s) \/ (s = r /\ Drafted(r))
  <2>1. /\ Kind(r) \in {"collect", "close"} /\ pc[r] = "commit"
        /\ IF Drafted(r) THEN ~Posted(r) /\ ledger' = [ledger EXCEPT ![r] = draft[r]]
                         ELSE ledger' = ledger
    BY CommitRow DEF StateInv
  <2>2. QED
    BY <2>1 DEF StateInv, InFlight
<1>2. Drafted(r) => row[r] = r /\ ledger'[r] = TontineRow(r) /\ Posted(r)'
  BY CommitRow, TontineRowType DEF StateInv
<1>3. \A q \in Requests : InFlight(q)' => InFlight(q)
  BY DEF Commit, InFlight
<1>4. CASE Kind(r) = "collect" /\ Drafted(r)
  <2>1. Target(r) \notin Collected /\ Collected' = Collected \cup {Target(r)}
        /\ Target(r) \in Collections
    BY <1>4, CommitDay, TontineAssumption DEF Target, OpType
  <2>2. coll'[Target(r)].paidBy = r /\ \A c \in Collected : coll'[c] = coll[c]
    BY <1>2, <1>4, <2>1, CommitRow DEF StateInv, Collected
  <2>3. DayKeys'
    <3> SUFFICES ASSUME NEW c \in Collected', NEW q \in Requests,
                        Collecting(q)', Target(q) = c
                 PROVE  ledger'[coll'[c].paidBy].key = Op[q].key
      BY DEF DayKeys, Target
    <3>1. Collecting(q)
      BY <1>3 DEF Collecting
    <3>2. CASE c \in Collected
      <4>1. ledger[coll[c].paidBy].key = Op[q].key
        BY <3>1, <3>2 DEF BookletInv, DayKeys
      <4>2. coll[c].paidBy \in Requests /\ Posted(coll[c].paidBy)
        BY <3>2, PaidByRequest DEF StateInv
      <4>3. QED
        BY <1>1, <2>2, <3>2, <4>1, <4>2
    <3>3. CASE c = Target(r)
      <4>1. Op[q].key = Op[r].key
        BY <1>1, <1>4, <3>1, <3>3 DEF CollectsApart, Collecting
      <4>2. QED
        BY <1>2, <1>4, <2>2, <3>3, <4>1, TontineRowKey
    <3>4. QED
      BY <2>1, <3>2, <3>3
  <2>4. RowDays'
    BY <1>1, <2>1, <2>2 DEF BookletInv, RowDays
  <2>5. CollectionsMatchLedger'
    <3>1. TontineRow(r).type = "TONTINE_COLLECTION" /\ TontineRow(r).amount = Amount
      BY <1>4 DEF TontineRow, NewRow
    <3>2. AmountOf(RowsOf("TONTINE_COLLECTION"))'
            = AmountOf(RowsOf("TONTINE_COLLECTION")) + Amount
      BY <1>4, <3>1, CommitAmount DEF StateInv
    <3>3. Cardinality(Collected') = Cardinality(Collected) + 1
      BY <2>1, CollectedFinite, FS_AddElement
    <3>4. (Cardinality(Collected) + 1) * Amount = Cardinality(Collected) * Amount + Amount
      BY CollectedFinite, TontineAssumption
    <3>5. QED
      BY <3>2, <3>3, <3>4 DEF BookletInv, CollectionsMatchLedger, AmountCollected
  <2>6. QED
    BY <2>3, <2>4, <2>5 DEF BookletInv
<1>5. CASE ~(Kind(r) = "collect" /\ Drafted(r))
  <2>1. coll' = coll /\ Collected' = Collected
    BY <1>5, CommitDay DEF Collected
  <2>2. DayKeys'
    <3> SUFFICES ASSUME NEW c \in Collected, NEW q \in Requests,
                        Collecting(q)', Target(q) = c
                 PROVE  ledger'[coll[c].paidBy].key = Op[q].key
      BY <2>1 DEF DayKeys, Target
    <3>1. ledger[coll[c].paidBy].key = Op[q].key
      BY <1>3 DEF BookletInv, DayKeys, Collecting
    <3>2. coll[c].paidBy \in Requests /\ Posted(coll[c].paidBy)
      BY PaidByRequest DEF StateInv
    <3>3. QED
      BY <1>1, <3>1, <3>2
  <2>3. RowDays'
    <3>1. \A s \in Requests : Posted(s)' /\ Kind(s)' = "collect" => Posted(s) /\ Kind(s) = "collect"
      BY <1>1, <1>5
    <3>2. QED
      BY <2>1, <3>1 DEF BookletInv, RowDays
  <2>4. CollectionsMatchLedger'
    <3>1. ~(Drafted(r) /\ TontineRow(r).type = "TONTINE_COLLECTION")
      BY <1>1, <1>5, TontineRowKey
    <3>2. AmountOf(RowsOf("TONTINE_COLLECTION"))' = AmountOf(RowsOf("TONTINE_COLLECTION"))
      BY <3>1, CommitAmount DEF StateInv
    <3>3. QED
      BY <2>1, <3>2 DEF BookletInv, CollectionsMatchLedger, AmountCollected
  <2>5. QED
    BY <2>2, <2>3, <2>4 DEF BookletInv
<1>6. QED
  BY <1>4, <1>5

LEMMA NextBooklet ==
  ASSUME StateInv, StateInv', BookletInv, KeysOwn, CollectsApart, [Next]_vars
  PROVE  BookletInv'
<1>1. CASE \E r \in Requests : Commit(r)
  BY <1>1, CommitBooklet
<1>2. CASE ledger' = ledger /\ Collected' = Collected
           /\ \A c \in Collected : coll'[c].paidBy = coll[c].paidBy
  <2>1. DayKeys'
    <3> SUFFICES ASSUME NEW c \in Collected, NEW q \in Requests,
                        Collecting(q)', Target(q) = c
                 PROVE  ledger[coll[c].paidBy].key = Op[q].key
      BY <1>2 DEF DayKeys, Target
    <3>1. InFlight(q)
      BY ArrivesRefused DEF StateInv, Collecting
    <3>2. QED
      BY <3>1 DEF BookletInv, DayKeys, Collecting
  <2>2. RowDays'
    BY <1>2 DEF BookletInv, RowDays
  <2>3. RowsOf("TONTINE_COLLECTION")' = RowsOf("TONTINE_COLLECTION")
    BY <1>2 DEF RowsOf
  <2>4. CollectionsMatchLedger'
    BY <1>2, <2>3 DEF BookletInv, CollectionsMatchLedger, AmountCollected, AmountOf
  <2>5. QED
    BY <2>1, <2>2, <2>4 DEF BookletInv
<1>3. QED
  BY <1>1, <1>2, DaysStep DEF StateInv

LEMMA StateInvariant == Spec => []StateInv
<1>1. Init => StateInv
  BY InitDays, InitRows, InitKey DEF StateInv, Init
<1>2. StateInv /\ [Next]_vars => StateInv'
  BY NextDays, NextRows, NextKeys DEF StateInv
<1>3. QED
  BY <1>1, <1>2, PTL DEF Spec

LEMMA InitBooklet == Init => BookletInv
<1> SUFFICES ASSUME Init PROVE BookletInv
  OBVIOUS
<1>1. Collected = {} /\ RowsOf("TONTINE_COLLECTION") = {} /\ \A s \in Requests : ~Posted(s)
  BY DEF Init, TransactionsInit, Collected, RowsOf
<1>2. AmountOf({}) = 0 /\ Cardinality({}) = 0
  BY SumEmpty, FS_EmptySet DEF AmountOf
<1>3. 0 * Amount = 0
  BY TontineAssumption
<1>4. CollectionsMatchLedger
  BY ONLY <1>1, <1>2, <1>3 DEF CollectionsMatchLedger, AmountCollected
<1>5. QED
  BY <1>1, <1>4 DEF BookletInv, DayKeys, RowDays

\* The booklet shows what the ledger received, however collections, retries, closings,
\* missed jobs and rollbacks interleave, when no key is shared by a collection and a
\* closing and collections of one day served together are retries of one call.
THEOREM BookletMatches ==
  ASSUME KeysOwn
  PROVE  Spec /\ []CollectsApart => []CollectionsMatchLedger
<1>1. StateInv /\ StateInv' /\ BookletInv /\ CollectsApart /\ [Next]_vars => BookletInv'
  BY NextBooklet
<1>2. BookletInv => CollectionsMatchLedger
  BY DEF BookletInv
<1>3. QED
  BY <1>1, <1>2, InitBooklet, StateInvariant, PTL DEF Spec

-----------------------------------------------------------------------------

\* Division by a positive number keeps the order.
LEMMA DivisionGrows ==
  ASSUME NEW a \in Int, NEW b \in Int, a <= b, NEW d \in Nat \ {0}
  PROVE  a \div d \in Int /\ b \div d \in Int /\ a \div d <= b \div d
<1> DEFINE p == a \div d
           q == b \div d
<1>1. /\ p \in Int /\ q \in Int
      /\ d * p <= a /\ a < d * p + d
      /\ d * q <= b /\ b < d * q + d
  OBVIOUS
<1> HIDE DEF p, q
<1>2. SUFFICES ASSUME q + 1 <= p
               PROVE  FALSE
  BY <1>1 DEF p, q
<1>3. d * (q + 1) <= d * p
  BY <1>1, <1>2
<1>4. d * (q + 1) = d * q + d
  BY <1>1
<1>5. QED
  BY <1>1, <1>3, <1>4

\* The more days are collected, the more they give back.
LEMMA RestitutionGrows ==
  ASSUME NEW n \in Nat, NEW m \in Nat, n <= m
  PROVE  Restitution(n) \in Int /\ Restitution(m) \in Int /\ Restitution(n) <= Restitution(m)
<1> DEFINE k == Amount * (FeeDen - FeeNum)
<1>1. FeeDen \in Nat \ {0} /\ FeeDen - FeeNum \in Nat /\ Amount \in Nat
  BY TontineAssumption
<1>2. k \in Nat
  BY <1>1
<1>3. Share(n) = n * k /\ Share(m) = m * k
  BY <1>1 DEF Share
<1> HIDE DEF k
<1>4. n * k \in Int /\ m * k \in Int /\ n * k <= m * k
  BY <1>2
<1>5. 2 * Share(n) + FeeDen \in Int /\ 2 * Share(m) + FeeDen \in Int
      /\ 2 * Share(n) + FeeDen <= 2 * Share(m) + FeeDen /\ 2 * FeeDen \in Nat \ {0}
  BY <1>1, <1>3, <1>4
<1>6. QED
  BY <1>5, DivisionGrows DEF Restitution

LEMMA RestitutionNotNegative ==
  ASSUME NEW n \in Nat
  PROVE  Restitution(n) \in Int /\ 0 <= Restitution(n)
<1>1. FeeDen \in Nat \ {0} /\ FeeDen - FeeNum \in Int /\ Amount \in Nat
  BY TontineAssumption
<1>2. Amount * (FeeDen - FeeNum) \in Int /\ 0 * Amount = 0
  BY <1>1
<1>3. Share(0) = 0
  BY <1>1, <1>2 DEF Share
<1>4. FeeDen \div (2 * FeeDen) = 0
  BY <1>1
<1>5. Restitution(0) = 0
  BY <1>1, <1>3, <1>4 DEF Restitution
<1>6. QED
  BY <1>5, RestitutionGrows

\* What a closing computed is never more than the days collected since give back.
CountInv == \A r \in Requests : amt[r] <= Restitution(Cardinality(Collected))

Payout(s) == Kind(s) = "close" /\ Posted(s)

\* Closings in flight together have met.
MetInv == \A r, s \in Requests : Closing(r) /\ Closing(s) /\ r # s => {r, s} \in met

\* Once a payout is posted the cycle is closed, and its closing has met those that are
\* still closing it and those that were paid.
PayoutInv ==
  \A s \in Requests :
    Payout(s) =>
      /\ cycle = "CLOSED"
      /\ \A r \in Requests \ {s} : Closing(r) \/ Payout(r) => {r, s} \in met

PayInv == CountInv /\ MetInv /\ PayoutInv

\* No step takes a collected day back.
LEMMA DaysGrow ==
  ASSUME DayInv, OwnRows, [Next]_vars
  PROVE  Collected \subseteq Collected'
<1>1. ASSUME NEW r \in Requests, Commit(r)
      PROVE  Collected \subseteq Collected'
  BY <1>1 DEF Commit, Collected
<1>2. QED
  BY <1>1, DaysStep

LEMMA NextCount ==
  ASSUME DayInv, OwnRows, CountInv, [Next]_vars
  PROVE  CountInv'
<1>1. /\ IsFiniteSet(Collected') /\ Cardinality(Collected') \in Nat
      /\ Cardinality(Collected) <= Cardinality(Collected')
  <2>1. Collected' \subseteq Collections
    BY DEF Collected
  <2>2. IsFiniteSet(Collected')
    BY ONLY <2>1, TontineAssumption, FS_Subset
  <2>3. QED
    BY ONLY <2>2, DayInv, OwnRows, [Next]_vars, DaysGrow, FS_Subset, FS_CardinalityType
<1>2. /\ Restitution(Cardinality(Collected)) \in Int
      /\ Restitution(Cardinality(Collected')) \in Int
      /\ Restitution(Cardinality(Collected)) <= Restitution(Cardinality(Collected'))
  BY ONLY <1>1, CollectedFinite, RestitutionGrows
<1>3. ASSUME NEW r \in Requests
      PROVE  amt'[r] = amt[r] \/ amt'[r] = Restitution(Cardinality(Collected))
  <2>1. CASE amt' = amt
    BY <2>1
  <2>2. ASSUME NEW s \in Requests, CountCollected(s)
        PROVE  amt'[r] = amt[r] \/ amt'[r] = Restitution(Cardinality(Collected))
    BY <2>2 DEF CountCollected, CountedDays
  <2>3. CASE \E s \in Requests : CountCollected(s)
    BY <2>2, <2>3
  <2>4. CASE ~\E s \in Requests : CountCollected(s)
    <3>1. amt' = amt
      BY <2>4 DEF Next, CreateCycle, ClientChanges, Arrive, CollectRead, CloseRead,
         MissedRead, Proceed, FindExisting, Insert, MarkCollected, MarkClosed,
         MarkMissed, Commit, Abort, Rollback, vars
    <3>2. QED
      BY <3>1
  <2>5. QED
    BY <2>3, <2>4
<1>4. ASSUME NEW r \in Requests
      PROVE  amt'[r] <= Restitution(Cardinality(Collected'))
  <2>1. amt[r] \in Int /\ amt[r] <= Restitution(Cardinality(Collected))
    BY DEF CountInv
  <2>2. QED
    BY <1>2, <1>3, <2>1
<1>5. QED
  BY <1>4 DEF CountInv, Restitution, Share

\* Closings meet when they arrive, and met is never forgotten.
LEMMA MeetStep ==
  ASSUME StateInv, MetInv, [Next]_vars
  PROVE  met \subseteq met' /\ MetInv'
<1>1. ASSUME NEW r \in Requests, CloseRead(r)
      PROVE  met \subseteq met' /\ MetInv'
  <2>1. /\ met' = met \cup {{r, s} : s \in {q \in Requests : Closing(q)}}
        /\ \A q \in Requests \ {r} : pc'[q] = pc[q]
    BY <1>1 DEF CloseRead, StateInv
  <2>2. ASSUME NEW q \in Requests, NEW s \in Requests, Closing(q)', Closing(s)', q # s
        PROVE  {q, s} \in met'
    <3>1. (q # r => Closing(q)) /\ (s # r => Closing(s))
      BY <2>1, <2>2 DEF Closing, InFlight
    <3>2. CASE q # r /\ s # r
      BY <2>1, <2>2, <3>1, <3>2 DEF MetInv
    <3>3. CASE q = r
      BY <2>1, <2>2, <3>1, <3>3
    <3>4. CASE s = r
      <4>1. {q, s} = {s, q}
        OBVIOUS
      <4>2. QED
        BY <2>1, <2>2, <3>1, <3>4, <4>1
    <3>5. QED
      BY <3>2, <3>3, <3>4
  <2>3. QED
    BY <2>1, <2>2 DEF MetInv
<1>2. CASE ~\E r \in Requests : CloseRead(r)
  <2>1. met' = met
    BY <1>2 DEF Next, CreateCycle, ClientChanges, Arrive, CollectRead, MissedRead, Proceed,
       CountCollected, FindExisting, Insert, MarkCollected, MarkClosed, MarkMissed, Commit,
       Abort, Rollback, vars
  <2>2. ASSUME NEW q \in Requests, Closing(q)'
        PROVE  Closing(q)
    <3>1. CASE InFlight(q)
      BY <2>2, <3>1 DEF Closing
    <3>2. CASE ~InFlight(q)
      <4>1. PICK s \in Requests : Arrive(s) \/ Proceed(s) \/ Abort(s)
        BY <2>2, <3>2 DEF Next, CreateCycle, ClientChanges, Closing, InFlight, vars
      <4>2. s = q
        BY <2>2, <3>2, <4>1, StepFrame DEF StateInv, Closing, InFlight
      <4>3. Arrive(q)
        BY <3>2, <4>1, <4>2 DEF Proceed, Abort, CountCollected, FindExisting, Insert,
           MarkCollected, MarkClosed, MarkMissed, Commit, InFlight
      <4>4. Kind(q) = "close"
        BY <2>2 DEF Closing
      <4>5. QED
        BY <1>2, <4>3, <4>4 DEF Arrive, CollectRead, MissedRead, Starts
    <3>3. QED
      BY <3>1, <3>2
  <2>3. QED
    BY <2>1, <2>2 DEF MetInv
<1>3. QED
  BY <1>1, <1>2

\* Who posts a payout was closing until then.
LEMMA CommitPayout ==
  ASSUME StateInv, MetInv, PayoutInv, NEW r \in Requests, Commit(r), met' = met
  PROVE  PayoutInv'
<1>1. /\ Kind(r) \in {"collect", "close"} /\ pc[r] = "commit" /\ InFlight(r)
      /\ ledger' = ledger \/ ledger' = [ledger EXCEPT ![r] = draft[r]]
      /\ Kind(r) = "close" => cycle' = "CLOSED"
  <2>1. pc[r] = "commit"
    BY DEF Commit
  <2>2. QED
    BY <2>1, CommitRow DEF StateInv, InFlight
<1>2. \A q \in Requests : Closing(q)' => Closing(q)
  BY DEF Commit, InFlight, Closing
<1>3. cycle = "CLOSED" => cycle' = "CLOSED"
  BY DEF Commit
<1>4. \A q \in Requests : Payout(q)' => Payout(q) \/ (q = r /\ Closing(r))
  BY <1>1 DEF Payout, Closing, StateInv
<1>5. ASSUME NEW s \in Requests, Payout(s)'
      PROVE  cycle' = "CLOSED"
  BY <1>1, <1>3, <1>4, <1>5 DEF PayoutInv, Closing
<1>6. ASSUME NEW s \in Requests, Payout(s)', NEW q \in Requests \ {s},
             Closing(q)' \/ Payout(q)'
      PROVE  {q, s} \in met
  <2>1. (Payout(s) \/ Closing(s)) /\ (Payout(q) \/ Closing(q))
    BY <1>2, <1>4, <1>6
  <2>2. {q, s} = {s, q}
    OBVIOUS
  <2>3. QED
    BY <2>1, <2>2 DEF PayoutInv, MetInv
<1>7. QED
  BY <1>5, <1>6 DEF PayoutInv

LEMMA NextPayout ==
  ASSUME StateInv, MetInv, PayoutInv, [Next]_vars
  PROVE  PayoutInv'
<1>1. ASSUME NEW r \in Requests, Commit(r)
      PROVE  PayoutInv'
  <2>1. met' = met
    BY <1>1 DEF Commit
  <2>2. QED
    BY <1>1, <2>1, CommitPayout
<1>2. CASE ledger' = ledger /\ ~\E r \in Requests : Commit(r)
  <2>1. cycle = "CLOSED" => cycle' = "CLOSED"
    BY <1>2 DEF Next, CreateCycle, ClientChanges, Arrive, CollectRead, CloseRead,
       MissedRead, Proceed, CountCollected, FindExisting, Insert, MarkCollected,
       MarkClosed, MarkMissed, Abort, Rollback, vars
  <2>2. \A s \in Requests : Payout(s)' <=> Payout(s)
    BY <1>2 DEF Payout
  <2>3. ASSUME NEW s \in Requests, Payout(s), NEW r \in Requests, Closing(r)'
        PROVE  Closing(r)
    <3>1. Kind(r) = "close" /\ cycle = "CLOSED" /\ InFlight(r)'
      BY <2>3 DEF PayoutInv, Closing
    <3>2. InFlight(r)
      BY <3>1, ArrivesRefused DEF StateInv
    <3>3. QED
      BY <3>1, <3>2 DEF Closing
  <2>4. QED
    BY <2>1, <2>2, <2>3, MeetStep DEF PayoutInv
<1>3. QED
  BY <1>1, <1>2, DaysStep DEF StateInv

LEMMA InitPay == Init => PayInv
<1> SUFFICES ASSUME Init PROVE PayInv
  OBVIOUS
<1>1. Collected = {} /\ \A r \in Requests : amt[r] = 0 /\ ~Posted(r) /\ ~InFlight(r)
  BY DEF Init, TransactionsInit, Collected, InFlight
<1>2. 0 <= Restitution(Cardinality(Collected))
  BY CollectedFinite, RestitutionNotNegative
<1>3. QED
  BY <1>1, <1>2 DEF PayInv, CountInv, MetInv, PayoutInv, Payout, Closing

\* A payout gives back no more than the days collected by now, and who was paid twice
\* closed twice at the same time.
LEMMA PaidNoMore ==
  ASSUME StateInv, PayInv
  PROVE  NeverOverpaid
<1>1. \A s \in RowsOf("TONTINE_PAYOUT") : /\ s \in Requests /\ Payout(s)
                                          /\ ledger[s].amount = amt[s]
  BY DEF RowsOf, Payout, StateInv, OwnRows, OwnRow, TontineRow, NewRow
<1>2. QED
  BY <1>1 DEF NeverOverpaid, PayInv, CountInv, PayoutInv

\* The client is given back once, and never more than was collected, less the
\* commission, however collections, closings, retries and rollbacks interleave: only
\* closings that were served at the same time can each pay.
THEOREM PaidBackOnce == Spec => []NeverOverpaid
<1>1. StateInv /\ PayInv /\ [Next]_vars => PayInv'
  BY NextCount, NextPayout, MeetStep DEF PayInv, StateInv
<1>2. StateInv /\ PayInv => NeverOverpaid
  BY PaidNoMore
<1>3. QED
  BY <1>1, <1>2, InitPay, StateInvariant, PTL DEF Spec

-----------------------------------------------------------------------------

\* No two committed rows share a key, whatever keys the calls of a cycle reuse.
THEOREM KeysUnique == Spec => []KeyOnce
<1>1. StateInv => KeyOnce
  BY DEF StateInv, KeyInv
<1>2. QED
  BY <1>1, StateInvariant, PTL

\* A step posts the row of the request that commits, or nothing.
LEMMA StepRefines ==
  ASSUME StateInv, StateInv', [Next]_vars
  PROVE  [L!LedgerNext]_ledger
<1>1. ASSUME NEW r \in Requests, Commit(r), Drafted(r)
      PROVE  L!LedgerNext
  <2>1. /\ ~Posted(r) /\ draft[r] = TontineRow(r)
        /\ ledger' = [ledger EXCEPT ![r] = draft[r]]
    BY <1>1, CommitRow DEF StateInv
  <2>2. TontineRow(r) \in L!Rows
    BY TontineRowType DEF StateInv
  <2>3. TontineRow(r).status = "COMPLETED"
    BY DEF TontineRow, NewRow
  <2>4. QED
    BY <2>1, <2>2, <2>3, PostRefines DEF StateInv
<1>2. ASSUME NEW r \in Requests, Commit(r), ~Drafted(r)
      PROVE  ledger' = ledger
  BY <1>2 DEF Commit, WithDraft
<1>3. QED
  BY <1>1, <1>2, DaysStep DEF StateInv

\* The tontine operations leave the transactions table a ledger: rows are posted
\* once under their own key, and none of them changes a row.
THEOREM LedgerImplemented == Spec => LedgerRefined
<1>1. Init => L!LedgerInit
  BY DEF Init, TransactionsInit, L!LedgerInit
<1>2. StateInv /\ StateInv' /\ [Next]_vars => [L!LedgerNext]_ledger
  BY StepRefines
<1>3. QED
  BY <1>1, <1>2, StateInvariant, PTL DEF Spec, LedgerRefined, L!LedgerSpec

-----------------------------------------------------------------------------
(* The days of a cycle and the due dates of a loan: Calendar, for any months  *)
(* and any plans that fit in them.                                            *)

MonthLength(m) == FirstOf[m + 1] - FirstOf[m]

\* Every non-empty set of numbers has a least one.
LEMMA LeastNumber ==
  ASSUME NEW S \in SUBSET Nat, S # {}
  PROVE  \E n \in S : \A k \in S : n <= k
<1>. DEFINE Less == {p \in Nat \X Nat : p[1] < p[2]}
<1>1. IsWellFoundedOn(Less, Nat)
  BY NatLessThanWellFounded DEF OpToRel
<1>2. \A k, n \in Nat : k < n => <<k, n>> \in Less
  OBVIOUS
<1>. HIDE DEF Less
<1>3. PICK n \in S : \A k \in S : <<k, n>> \notin Less
  BY <1>1, WFMin
<1>4. \A k \in S : ~(k < n)
  BY <1>2, <1>3
<1>. QED  BY <1>4

\* Months begin one after the other, by induction on their numbers.
LEMMA MonthsInOrder ==
  ASSUME NEW m \in 0..LastMonth, NEW n \in 0..LastMonth, m < n
  PROVE  FirstOf[m] < FirstOf[n]
<1>. DEFINE Late == {k \in 0..LastMonth : m < k /\ ~(FirstOf[m] < FirstOf[k])}
<1>. USE MonthsAssumption
<1>1. SUFFICES ASSUME n \in Late PROVE FALSE
  OBVIOUS
<1>2. Late \in SUBSET Nat
  OBVIOUS
<1>3. PICK k \in Late : \A j \in Late : k <= j
  <2>. HIDE DEF Late
  <2>. QED  BY <1>1, <1>2, LeastNumber
<1>4. k - 1 \in 0..LastMonth - 1 /\ k - 1 \notin Late
  BY <1>3
<1>5. FirstOf[k] - FirstOf[k - 1] \in 28..31
  <2>1. (k - 1) + 1 = k
    BY <1>3
  <2>. QED  BY <1>4, <2>1
<1>6. FirstOf[m] <= FirstOf[k - 1] /\ FirstOf[k - 1] \in Nat /\ FirstOf[k] \in Nat
  BY <1>3, <1>4
<1>. QED  BY <1>3, <1>5, <1>6

\* A day of the calendar is in a month.
LEMMA DayHasMonth ==
  ASSUME NEW d \in Nat, d < FirstOf[LastMonth]
  PROVE  \E m \in 0..LastMonth - 1 : FirstOf[m] <= d /\ d < FirstOf[m + 1]
<1>. DEFINE After == {m \in 0..LastMonth : d < FirstOf[m]}
<1>. USE MonthsAssumption
<1>1. After \in SUBSET Nat /\ LastMonth \in After
  OBVIOUS
<1>2. PICK k \in After : \A j \in After : k <= j
  <2>. HIDE DEF After
  <2>. QED  BY <1>1, LeastNumber
<1>3. k # 0
  BY <1>2
<1>4. k - 1 \in 0..LastMonth - 1 /\ k - 1 \notin After /\ (k - 1) + 1 = k
  BY <1>2, <1>3
<1>. QED  BY <1>2, <1>4

\* The month of a day is the one it is in.
LEMMA MonthOfDay ==
  ASSUME NEW m \in 0..LastMonth - 1, NEW d \in Nat,
         FirstOf[m] <= d, d < FirstOf[m + 1]
  PROVE  MonthOf(d) = m /\ DayInMonth(d) = d - FirstOf[m]
<1>. DEFINE In(k) == FirstOf[k] <= d /\ d < FirstOf[k + 1]
<1>1. ASSUME NEW k \in 0..LastMonth - 1, In(k), k # m PROVE FALSE
  <2>. USE MonthsAssumption
  <2>1. FirstOf[m] \in Nat /\ FirstOf[m + 1] \in Nat /\ FirstOf[k] \in Nat /\ FirstOf[k + 1] \in Nat
    OBVIOUS
  <2>2. CASE k < m
    <3>1. k + 1 = m \/ FirstOf[k + 1] < FirstOf[m]
      BY <2>2, MonthsInOrder
    <3>. QED  BY <1>1, <2>1, <3>1
  <2>3. CASE m < k
    <3>1. m + 1 = k \/ FirstOf[m + 1] < FirstOf[k]
      BY <2>3, MonthsInOrder
    <3>. QED  BY <1>1, <2>1, <3>1
  <2>. QED  BY <1>1, <2>2, <2>3
<1>2. MonthOf(d) = CHOOSE k \in 0..LastMonth - 1 : In(k)
  BY DEF MonthOf
<1>. HIDE DEF In
<1>3. In(m)
  BY DEF In
<1>4. MonthOf(d) = m
  BY <1>1, <1>2, <1>3
<1>. QED  BY <1>4 DEF DayInMonth

\* A day is the n-th of its month, and n is less than the length of that month.
LEMMA MonthType ==
  ASSUME NEW d \in Days
  PROVE  /\ MonthOf(d) \in 0..LastMonth - 1
         /\ DayInMonth(d) \in 0..MonthLength(MonthOf(d)) - 1
         /\ d = FirstOf[MonthOf(d)] + DayInMonth(d)
<1>. USE MonthsAssumption
<1>1. d \in Nat /\ d < FirstOf[LastMonth]
  BY DEF Days, Horizon
<1>2. PICK m \in 0..LastMonth - 1 : FirstOf[m] <= d /\ d < FirstOf[m + 1]
  BY <1>1, DayHasMonth
<1>3. MonthOf(d) = m /\ DayInMonth(d) = d - FirstOf[m]
  BY <1>1, <1>2, MonthOfDay
<1>. QED  BY <1>1, <1>2, <1>3 DEF MonthLength

\* A month has 28 to 31 days.
LEMMA LengthType ==
  ASSUME NEW m \in 0..LastMonth - 1
  PROVE  /\ FirstOf[m] \in Nat /\ FirstOf[m + 1] \in Nat
         /\ MonthLength(m) \in 28..31
         /\ FirstOf[m + 1] = FirstOf[m] + MonthLength(m)
BY MonthsAssumption DEF MonthLength

\* The n-th day of a month is in it, and a month later comes the n-th of the next.
LEMMA OneMonthOn ==
  ASSUME NEW m \in 0..LastMonth - 1, NEW n \in 0..MonthLength(m) - 1,
         NEW d \in Nat, d = FirstOf[m] + n
  PROVE  /\ MonthOf(d) = m
         /\ AddMonths(d, 1) = FirstOf[m + 1] + n
<1>1. MonthOf(d) = m /\ DayInMonth(d) = d - FirstOf[m]
  BY MonthOfDay, LengthType
<1>. QED  BY <1>1, LengthType DEF AddMonths

\* What a plan is made of, and the months it takes.
LEMMA PlanTyped ==
  ASSUME NEW p \in Plans
  PROVE  /\ p.kind \in {"loan", "tontine"} /\ p.frequency \in Frequencies
         /\ p.start \in Days /\ p.start \in Nat /\ p.months \in Nat \ {0}
         /\ p.weekdays \in SUBSET Nat
         /\ MonthOf(p.start) \in 0..LastMonth - 1
         /\ MonthOf(p.start) + p.months + 1 < LastMonth
         /\ Count(p) \in Nat
         /\ EndOf(p) \in Days /\ p.start < EndOf(p)
<1>1. p \in PlanType
  BY PlansAssumption
<1>2. p.start \in Days /\ p.start \in Nat /\ p.months \in Nat \ {0}
  BY <1>1 DEF PlanType, Days
<1>3. MonthOf(p.start) + p.months + 1 < LastMonth
  BY HorizonAssumption
<1>4. Count(p) \in Nat
  BY <1>1, <1>2 DEF PlanType, Count, PerMonth, Frequencies
<1>5. EndOf(p) \in Days /\ p.start < EndOf(p)
  <2>. DEFINE m == MonthOf(p.start)
              n == DayInMonth(p.start)
  <2>1. LastMonth \in Nat
    BY MonthsAssumption
  <2>2. m \in 0..LastMonth - 1 /\ n \in 0..MonthLength(m) - 1 /\ p.start = FirstOf[m] + n
    BY <1>2, MonthType
  <2>3. m + p.months + 1 < LastMonth
    BY <1>3
  <2>4. EndOf(p) = FirstOf[m + p.months] + n
    BY DEF EndOf, AddMonths
  <2>. HIDE DEF m, n
  <2>. DEFINE e == m + p.months
  <2>5. /\ e \in 0..LastMonth - 1 /\ e + 1 \in 0..LastMonth - 1
        /\ (e + 1) + 1 \in 0..LastMonth /\ m < e
    BY <1>2, <2>1, <2>2, <2>3
  <2>6. EndOf(p) = FirstOf[e] + n
    BY <2>4
  <2>. HIDE DEF e
  <2>7. FirstOf[m] \in Nat /\ MonthLength(m) \in 28..31
    BY <2>2, LengthType
  <2>8. /\ FirstOf[e] \in Nat /\ FirstOf[(e + 1) + 1] \in Nat
        /\ FirstOf[e] + 56 <= FirstOf[(e + 1) + 1]
    <3>1. /\ FirstOf[e] \in Nat /\ FirstOf[e + 1] \in Nat
          /\ MonthLength(e) \in 28..31 /\ FirstOf[e + 1] = FirstOf[e] + MonthLength(e)
      BY <2>5, LengthType
    <3>2. /\ FirstOf[(e + 1) + 1] \in Nat
          /\ MonthLength(e + 1) \in 28..31
          /\ FirstOf[(e + 1) + 1] = FirstOf[e + 1] + MonthLength(e + 1)
      BY <2>5, LengthType
    <3>. QED  BY <3>1, <3>2
  <2>9. FirstOf[(e + 1) + 1] <= FirstOf[LastMonth] /\ FirstOf[LastMonth] \in Nat
    <3>1. (e + 1) + 1 = LastMonth \/ FirstOf[(e + 1) + 1] < FirstOf[LastMonth]
      BY <2>1, <2>5, MonthsInOrder
    <3>2. FirstOf[LastMonth] \in Nat
      BY <2>1, MonthsAssumption
    <3>. QED  BY <2>8, <3>1, <3>2
  <2>10. FirstOf[m] < FirstOf[e]
    BY <2>1, <2>2, <2>5, MonthsInOrder
  <2>11. FirstOf[e] + n \in Nat /\ FirstOf[e] + n < FirstOf[LastMonth]
    <3>1. n \in 0..30
      BY <2>2, <2>7
    <3>. QED  BY <3>1, <2>8, <2>9
  <2>12. p.start < FirstOf[e] + n
    BY <2>2, <2>7, <2>8, <2>10
  <2>. QED  BY <2>6, <2>9, <2>11, <2>12 DEF Days, Horizon
<1>. QED  BY <1>1, <1>2, <1>3, <1>4, <1>5, MonthType DEF PlanType

\* Weekday numbers Sunday 7, and the other days by what is left of them.
LEMMA WeekdayNumber ==
  ASSUME NEW d \in Nat
  PROVE  /\ Weekday(d) \in 1..7
         /\ Weekday(d) \in 1..6 => Weekday(d) = (d - Sunday) % 7
         /\ Weekday(d) = 7 <=> (d - Sunday) % 7 = 0
<1>1. Sunday \in 0..6
  BY MonthsAssumption
<1>2. (d - Sunday) % 7 \in 0..6 /\ d % 7 \in 0..6
  BY <1>1
<1>3. d % 7 = Sunday <=> (d - Sunday) % 7 = 0
  BY <1>1
<1>. QED  BY <1>1, <1>2, <1>3 DEF Weekday

\* A day is a working day, or one that the caller asks for, by the remainders.
LEMMA WorkingDay ==
  ASSUME NEW d \in Nat
  PROVE  Weekday(d) \in 1..5 <=> (d - Sunday) % 7 \in 1..5
<1>1. (d - Sunday) % 7 \in 0..6
  BY MonthsAssumption
<1>. QED  BY <1>1, WeekdayNumber

Asked(p) == {w % 7 : w \in p.weekdays \cap (1..7)}

LEMMA AskedDay ==
  ASSUME NEW d \in Nat, NEW p \in Plans
  PROVE  Weekday(d) \in p.weekdays <=> (d - Sunday) % 7 \in Asked(p)
<1>1. (d - Sunday) % 7 \in 0..6
  BY MonthsAssumption
<1>2. Weekday(d) % 7 = (d - Sunday) % 7 /\ Weekday(d) \in 1..7
  BY <1>1, WeekdayNumber
<1>3. \A w \in 1..7 : w % 7 = Weekday(d) % 7 => w = Weekday(d)
  BY <1>2
<1>. QED  BY <1>2, <1>3 DEF Asked

\* The dates that a loop keeps.
KeptDays(s) == {s[i] : i \in 1..Len(s)}

LEMMA KeepOne ==
  ASSUME NEW s \in Seq(Nat), NEW d \in Nat
  PROVE  /\ Append(s, d) \in Seq(Nat)
         /\ Len(Append(s, d)) = Len(s) + 1
         /\ \A i \in 1..Len(s) : Append(s, d)[i] = s[i]
         /\ Append(s, d)[Len(s) + 1] = d
         /\ KeptDays(Append(s, d)) = KeptDays(s) \cup {d}
<1>1. /\ Append(s, d) \in Seq(Nat)
      /\ Len(Append(s, d)) = Len(s) + 1
      /\ \A i \in 1..Len(s) : Append(s, d)[i] = s[i]
      /\ Append(s, d)[Len(s) + 1] = d
      /\ Len(s) \in Nat
  OBVIOUS
<1>2. KeptDays(Append(s, d)) = KeptDays(s) \cup {d}
  <2>. DEFINE t == Append(s, d)
              n == Len(s)
  <2>1. KeptDays(t) = {t[i] : i \in 1..n + 1} /\ KeptDays(s) = {s[i] : i \in 1..n}
    BY <1>1 DEF KeptDays
  <2>2. n \in Nat /\ (\A i \in 1..n : t[i] = s[i]) /\ t[n + 1] = d
    BY <1>1
  <2>. HIDE DEF t, n
  <2>3. 1..n + 1 = (1..n) \cup {n + 1}
    BY <2>2
  <2>4. {t[i] : i \in (1..n) \cup {n + 1}} = {t[i] : i \in 1..n} \cup {t[n + 1]}
    OBVIOUS
  <2>5. {t[i] : i \in 1..n} = {s[i] : i \in 1..n}
    BY <2>2
  <2>6. KeptDays(t) = KeptDays(s) \cup {d}
    BY <2>1, <2>2, <2>3, <2>4, <2>5
  <2>. QED  BY <2>6 DEF t
<1>. QED  BY <1>1, <1>2

\* No date goes back on another, and none is ahead of the day the loop is at, which
\* a cycle has not looked at yet.
OrderInv ==
  /\ plan \in Plans /\ cursor \in Nat /\ dates \in Seq(Nat)
  /\ plan.start <= cursor
  /\ \A i, j \in 1..Len(dates) : i < j => dates[i] < dates[j]
  /\ \A i \in 1..Len(dates) :
       IF plan.kind = "loan" THEN dates[i] <= cursor ELSE dates[i] < cursor

Among(weekdays) == {d \in Days : (d - Sunday) % 7 \in weekdays}

\* The days kept so far are the allowed ones among those that were looked at.
DailyInv ==
  plan.kind = "loan" /\ plan.frequency = "DAILY" =>
    /\ cursor \in Days
    /\ KeptDays(dates) = Among(1..5) \cap (plan.start + 1..cursor)
CycleInv ==
  plan.kind = "tontine" =>
    /\ cursor <= EndOf(plan) + 1
    /\ KeptDays(dates) = Among(Asked(plan)) \cap (plan.start..cursor - 1)

\* The i-th date of a MONTHLY loan is the day it started on, i months later, or, once
\* a month k was too short for that day, as many days into the month after as k
\* lacked: two at most, which no later month is too short for.
StartMonth == MonthOf(plan.start)
StartDay == DayInMonth(plan.start)
TooShort(m) == MonthLength(m) <= StartDay
OnDay(i) == ~TooShort(StartMonth + i) /\ dates[i] = FirstOf[StartMonth + i] + StartDay
OverBy(k, i) ==
  /\ TooShort(StartMonth + k)
  /\ dates[i] = FirstOf[StartMonth + i + 1] + (StartDay - MonthLength(StartMonth + k))
Over(i) == \E k \in 1..i : OverBy(k, i)

MonthlyInv ==
  plan.kind = "loan" /\ plan.frequency = "MONTHLY" =>
    /\ Len(dates) <= plan.months
    /\ cursor = IF dates = <<>> THEN plan.start ELSE dates[Len(dates)]
    /\ \A i \in 1..Len(dates) : OnDay(i) \/ Over(i)
    /\ \A i, j \in 1..Len(dates) : j = i + 1 /\ Over(i) => Over(j)

CalendarInv == OrderInv /\ DailyInv /\ CycleInv /\ MonthlyInv

LEMMA InitCalendar == CalendarInit => CalendarInv
<1>. SUFFICES ASSUME CalendarInit PROVE CalendarInv
  OBVIOUS
<1>1. plan \in Plans /\ cursor = plan.start /\ dates = <<>>
  BY DEF CalendarInit
<1>2. /\ plan.start \in Nat /\ plan.start \in Days
      /\ plan.start < EndOf(plan) /\ plan.months \in Nat
      /\ EndOf(plan) \in Nat
  BY <1>1, PlanTyped DEF Days
<1>3. Len(dates) = 0 /\ dates \in Seq(Nat) /\ KeptDays(dates) = {}
  BY <1>1 DEF KeptDays
<1>4. OrderInv /\ MonthlyInv
  BY <1>1, <1>2, <1>3 DEF OrderInv, MonthlyInv
<1>5. plan.start + 1..cursor = {} /\ plan.start..cursor - 1 = {}
  BY <1>1, <1>2
<1>. QED  BY <1>1, <1>2, <1>3, <1>4, <1>5 DEF CalendarInv, DailyInv, CycleInv

\* A date that is kept comes after those before it.
LEMMA OrderKept ==
  ASSUME OrderInv, NEW d \in Nat, dates' = Append(dates, d),
         cursor' \in Nat, plan' = plan, cursor <= cursor',
         \A i \in 1..Len(dates) : dates[i] < d,
         IF plan.kind = "loan" THEN d <= cursor' ELSE d < cursor'
  PROVE  OrderInv'
<1>1. /\ plan \in Plans /\ dates \in Seq(Nat) /\ Len(dates) \in Nat
      /\ plan.start \in Nat /\ cursor \in Nat /\ plan.start <= cursor
  BY PlanTyped DEF OrderInv
<1>2. /\ dates' \in Seq(Nat)
      /\ Len(dates') = Len(dates) + 1
      /\ \A i \in 1..Len(dates) : dates'[i] = dates[i] /\ dates[i] \in Nat
      /\ dates'[Len(dates) + 1] = d
  BY <1>1, KeepOne
<1>3. \A i \in 1..Len(dates') : i \in 1..Len(dates) \/ i = Len(dates) + 1
  BY <1>1, <1>2
<1>4. \A i, j \in 1..Len(dates') : i < j => dates'[i] < dates'[j]
  <2>1. SUFFICES ASSUME NEW i \in 1..Len(dates'), NEW j \in 1..Len(dates'), i < j
                 PROVE  dates'[i] < dates'[j]
    OBVIOUS
  <2>2. i \in 1..Len(dates)
    BY <1>1, <1>2, <2>1
  <2>3. CASE j \in 1..Len(dates)
    BY <1>2, <2>1, <2>2, <2>3 DEF OrderInv
  <2>4. CASE j = Len(dates) + 1
    BY <1>2, <2>2, <2>4
  <2>. QED  BY <1>3, <2>3, <2>4
<1>5. \A i \in 1..Len(dates') :
        IF plan.kind = "loan" THEN dates'[i] <= cursor' ELSE dates'[i] < cursor'
  <2>1. SUFFICES ASSUME NEW i \in 1..Len(dates')
                 PROVE  IF plan.kind = "loan" THEN dates'[i] <= cursor' ELSE dates'[i] < cursor'
    OBVIOUS
  <2>2. CASE i \in 1..Len(dates)
    BY <1>1, <1>2, <2>2 DEF OrderInv
  <2>3. CASE i = Len(dates) + 1
    BY <1>2, <2>3
  <2>. QED  BY <1>3, <2>2, <2>3
<1>. QED  BY <1>1, <1>2, <1>4, <1>5 DEF OrderInv

\* Nor does a day that is passed over put the dates out of order.
LEMMA OrderPassed ==
  ASSUME OrderInv, cursor' = cursor + 1, UNCHANGED <<plan, dates>>
  PROVE  OrderInv'
<1>1. /\ plan \in Plans /\ dates \in Seq(Nat) /\ Len(dates) \in Nat
      /\ plan.start \in Nat /\ cursor \in Nat /\ plan.start <= cursor
  BY PlanTyped DEF OrderInv
<1>2. \A i \in 1..Len(dates) : dates[i] \in Nat
  BY <1>1
<1>. QED  BY <1>1, <1>2 DEF OrderInv

\* A day of a DAILY loan is kept if it is a working day.
LEMMA DailyStep ==
  ASSUME CalendarInv, LoanDay
  PROVE  CalendarInv'
<1>. DEFINE day == cursor + 1
<1>1. /\ plan.kind = "loan" /\ plan.frequency = "DAILY" /\ day \in Days
      /\ cursor' = day /\ plan' = plan
      /\ IF Weekday(day) \in 1..5 THEN dates' = Append(dates, day) ELSE dates' = dates
  BY DEF LoanDay, Missing, KeepIfAllowed, Keep, Allowed
<1>2. /\ plan \in Plans /\ dates \in Seq(Nat) /\ cursor \in Nat /\ day \in Nat
      /\ plan.start \in Nat /\ plan.start <= cursor /\ Len(dates) \in Nat
      /\ \A i \in 1..Len(dates) : dates[i] \in Nat /\ dates[i] <= cursor
  BY <1>1, PlanTyped DEF CalendarInv, OrderInv
<1>3. KeptDays(dates) = Among(1..5) \cap (plan.start + 1..cursor)
  BY <1>1 DEF CalendarInv, DailyInv
<1>4. plan.start + 1..day = (plan.start + 1..cursor) \cup {day}
  BY <1>2
<1>5. day \in Among(1..5) <=> Weekday(day) \in 1..5
  BY <1>1, <1>2, WorkingDay DEF Among
<1>6. CycleInv' /\ MonthlyInv'
  BY <1>1 DEF CycleInv, MonthlyInv
<1>. HIDE DEF day
<1>7. CASE Weekday(day) \in 1..5
  <2>1. dates' = Append(dates, day) /\ KeptDays(dates') = KeptDays(dates) \cup {day}
    <3>1. KeptDays(Append(dates, day)) = KeptDays(dates) \cup {day}
      BY <1>2, KeepOne
    <3>2. dates' = Append(dates, day)
      BY <1>1, <1>7
    <3>. QED  BY <3>1, <3>2
  <2>2. cursor <= day /\ day <= day /\ \A i \in 1..Len(dates) : dates[i] < day
    BY <1>2 DEF day
  <2>3. OrderInv'
    BY <1>1, <1>2, <2>1, <2>2, OrderKept DEF CalendarInv
  <2>4. KeptDays(dates') = Among(1..5) \cap (plan'.start + 1..cursor')
    BY <1>1, <1>3, <1>4, <1>5, <1>7, <2>1
  <2>. QED  BY <1>1, <1>6, <2>3, <2>4 DEF CalendarInv, DailyInv, Days, Horizon
<1>8. CASE Weekday(day) \notin 1..5
  <2>1. dates' = dates
    BY <1>1, <1>8
  <2>2. OrderInv'
    BY <1>1, <2>1, OrderPassed DEF CalendarInv, day
  <2>3. KeptDays(dates') = Among(1..5) \cap (plan'.start + 1..cursor')
    BY <1>1, <1>3, <1>4, <1>5, <1>8, <2>1
  <2>. QED  BY <1>1, <1>6, <2>2, <2>3 DEF CalendarInv, DailyInv, Days, Horizon
<1>. QED  BY <1>7, <1>8

\* A day of a cycle is kept if the saver chose its weekday.
LEMMA CycleStep ==
  ASSUME CalendarInv, TontineDay
  PROVE  CalendarInv'
<1>1. /\ plan.kind = "tontine" /\ cursor <= EndOf(plan)
      /\ cursor' = cursor + 1 /\ plan' = plan
      /\ IF Weekday(cursor) \in plan.weekdays
         THEN dates' = Append(dates, cursor) ELSE dates' = dates
  BY DEF TontineDay, TontineGoesOn, KeepIfAllowed, Keep, Allowed
<1>2. /\ plan \in Plans /\ dates \in Seq(Nat) /\ cursor \in Nat /\ cursor' \in Nat
      /\ plan.start \in Nat /\ plan.start <= cursor /\ Len(dates) \in Nat
      /\ \A i \in 1..Len(dates) : dates[i] \in Nat /\ dates[i] < cursor
  BY <1>1, PlanTyped DEF CalendarInv, OrderInv
<1>3. EndOf(plan) \in Days /\ EndOf(plan) \in Nat
  BY <1>2, PlanTyped DEF Days
<1>4. cursor \in Days /\ cursor' <= EndOf(plan) + 1
  <2>1. FirstOf[LastMonth] \in Int
    BY MonthsAssumption
  <2>. QED  BY <1>1, <1>2, <1>3, <2>1 DEF Days, Horizon
<1>5. KeptDays(dates) = Among(Asked(plan)) \cap (plan.start..cursor - 1)
  BY <1>1 DEF CalendarInv, CycleInv
<1>6. plan.start..cursor' - 1 = (plan.start..cursor - 1) \cup {cursor}
  BY <1>1, <1>2
<1>7. cursor \in Among(Asked(plan)) <=> Weekday(cursor) \in plan.weekdays
  BY <1>2, <1>4, AskedDay DEF Among
<1>8. DailyInv' /\ MonthlyInv'
  BY <1>1 DEF DailyInv, MonthlyInv
<1>9. CASE Weekday(cursor) \in plan.weekdays
  <2>1. dates' = Append(dates, cursor) /\ KeptDays(dates') = KeptDays(dates) \cup {cursor}
    BY <1>1, <1>2, <1>9, KeepOne
  <2>2. cursor <= cursor' /\ cursor < cursor'
    BY <1>1, <1>2
  <2>3. OrderInv'
    BY <1>1, <1>2, <2>1, <2>2, OrderKept DEF CalendarInv
  <2>4. KeptDays(dates') = Among(Asked(plan)) \cap (plan.start..cursor' - 1)
    BY <1>5, <1>6, <1>7, <1>9, <2>1
  <2>5. CycleInv'
    BY <1>1, <1>4, <2>4 DEF CycleInv, EndOf, AddMonths, Asked, Among, Days,
       Horizon, MonthOf, DayInMonth
  <2>. QED  BY <1>8, <2>3, <2>5 DEF CalendarInv
<1>10. CASE Weekday(cursor) \notin plan.weekdays
  <2>1. dates' = dates
    BY <1>1, <1>10
  <2>2. OrderInv'
    BY <1>1, <2>1, OrderPassed DEF CalendarInv
  <2>3. KeptDays(dates') = Among(Asked(plan)) \cap (plan.start..cursor' - 1)
    BY <1>5, <1>6, <1>7, <1>10, <2>1
  <2>4. CycleInv'
    BY <1>1, <1>4, <2>3 DEF CycleInv, EndOf, AddMonths, Asked, Among, Days,
       Horizon, MonthOf, DayInMonth
  <2>. QED  BY <1>8, <2>2, <2>4 DEF CalendarInv
<1>. QED  BY <1>9, <1>10

\* A WEEKLY loan goes seven days on.
LEMMA WeeklyStep ==
  ASSUME CalendarInv, LoanPeriod, plan.frequency = "WEEKLY"
  PROVE  CalendarInv'
<1>1. /\ plan.kind = "loan" /\ cursor' = cursor + 7 /\ plan' = plan
      /\ dates' = Append(dates, cursor')
  BY DEF LoanPeriod, Missing, Keep
<1>2. /\ cursor \in Nat /\ cursor' \in Nat
      /\ \A i \in 1..Len(dates) : dates[i] \in Nat /\ dates[i] <= cursor
  BY <1>1 DEF CalendarInv, OrderInv
<1>3. cursor <= cursor' /\ \A i \in 1..Len(dates) : dates[i] < cursor'
  BY <1>1, <1>2
<1>4. OrderInv'
  BY <1>1, <1>2, <1>3, OrderKept DEF CalendarInv
<1>. QED  BY <1>1, <1>4 DEF CalendarInv, DailyInv, CycleInv, MonthlyInv

\* Where a MONTHLY loan may be: in months of the calendar that have a next.
LEMMA MonthlyRoom ==
  ASSUME CalendarInv, plan.kind = "loan", plan.frequency = "MONTHLY",
         NEW i \in 0..plan.months
  PROVE  /\ StartMonth + i \in 0..LastMonth - 1
         /\ StartMonth + i + 1 \in 0..LastMonth - 1
         /\ StartMonth \in 0..LastMonth - 1
         /\ StartDay \in 0..30 /\ ~TooShort(StartMonth)
         /\ plan.start = FirstOf[StartMonth] + StartDay
<1>1. /\ plan.start \in Days /\ plan.months \in Nat /\ StartMonth + plan.months + 1 < LastMonth
      /\ StartMonth \in 0..LastMonth - 1
  BY PlanTyped DEF CalendarInv, OrderInv, StartMonth
<1>2. StartDay \in 0..MonthLength(StartMonth) - 1 /\ plan.start = FirstOf[StartMonth] + StartDay
  BY <1>1, MonthType DEF StartMonth, StartDay
<1>3. MonthLength(StartMonth) \in 28..31
  BY <1>1, LengthType
<1>4. LastMonth \in Nat
  BY MonthsAssumption
<1>. QED  BY <1>1, <1>2, <1>3, <1>4 DEF TooShort

\* The month and the day in it of a date, by what became of it.
LEMMA MonthlyDate ==
  ASSUME CalendarInv, plan.kind = "loan", plan.frequency = "MONTHLY",
         NEW i \in 1..Len(dates)
  PROVE  /\ i \in 0..plan.months /\ dates[i] \in Nat
         /\ OnDay(i) =>
              /\ StartDay \in 0..MonthLength(StartMonth + i) - 1
              /\ MonthOf(dates[i]) = StartMonth + i
              /\ AddMonths(dates[i], 1) = FirstOf[StartMonth + i + 1] + StartDay
              /\ ~Over(i)
         /\ \A k \in 1..i : OverBy(k, i) =>
              /\ MonthLength(StartMonth + k) \in 28..30 /\ k \in 0..plan.months
              /\ StartDay - MonthLength(StartMonth + k) \in 0..2
              /\ MonthOf(dates[i]) = StartMonth + i + 1
              /\ AddMonths(dates[i], 1) =
                   FirstOf[(StartMonth + i + 1) + 1] + (StartDay - MonthLength(StartMonth + k))
<1>. DEFINE m == StartMonth + i
<1>1. i \in 0..plan.months /\ dates[i] \in Nat /\ plan.months \in Nat
  BY PlanTyped DEF CalendarInv, OrderInv, MonthlyInv
<1>2. m \in 0..LastMonth - 1 /\ m + 1 \in 0..LastMonth - 1 /\ StartDay \in 0..30
  BY <1>1, MonthlyRoom
<1>3. /\ MonthLength(m) \in 28..31 /\ MonthLength(m + 1) \in 28..31
      /\ FirstOf[m] \in Nat /\ FirstOf[m + 1] \in Nat
      /\ FirstOf[m + 1] = FirstOf[m] + MonthLength(m)
  BY <1>2, LengthType
<1>. HIDE DEF m
<1>4. ASSUME OnDay(i)
      PROVE  /\ StartDay \in 0..MonthLength(m) - 1 /\ dates[i] = FirstOf[m] + StartDay
             /\ MonthOf(dates[i]) = m
             /\ AddMonths(dates[i], 1) = FirstOf[m + 1] + StartDay
  <2>1. StartDay \in 0..MonthLength(m) - 1 /\ dates[i] = FirstOf[m] + StartDay
    BY <1>2, <1>3, <1>4 DEF OnDay, TooShort, m
  <2>. QED  BY <1>1, <1>2, <2>1, OneMonthOn
<1>5. ASSUME NEW k \in 1..i, OverBy(k, i)
      PROVE  /\ MonthLength(StartMonth + k) \in 28..30 /\ k \in 0..plan.months
             /\ StartDay - MonthLength(StartMonth + k) \in 0..2
             /\ dates[i] = FirstOf[m + 1] + (StartDay - MonthLength(StartMonth + k))
             /\ MonthOf(dates[i]) = m + 1
             /\ AddMonths(dates[i], 1) =
                  FirstOf[(m + 1) + 1] + (StartDay - MonthLength(StartMonth + k))
  <2>. DEFINE n == StartDay - MonthLength(StartMonth + k)
  <2>1. k \in 0..plan.months
    BY <1>1
  <2>2. MonthLength(StartMonth + k) \in 28..31
    BY <2>1, MonthlyRoom, LengthType
  <2>3. MonthLength(StartMonth + k) \in 28..30 /\ n \in 0..2 /\ dates[i] = FirstOf[m + 1] + n
    BY <1>2, <1>5, <2>2 DEF OverBy, TooShort, m
  <2>. HIDE DEF n
  <2>4. n \in 0..MonthLength(m + 1) - 1
    BY <1>3, <2>3
  <2>5. /\ MonthOf(dates[i]) = m + 1
        /\ AddMonths(dates[i], 1) = FirstOf[(m + 1) + 1] + n
    BY <1>1, <1>2, <2>3, <2>4, OneMonthOn
  <2>. QED  BY <2>1, <2>3, <2>5 DEF n
<1>6. OnDay(i) => ~Over(i)
  BY <1>3, <1>4, <1>5 DEF Over
<1>. QED  BY <1>1, <1>4, <1>5, <1>6 DEF m

\* Where the next date of a MONTHLY loan falls: later than the last, and on the day
\* the loan started on, or on what it was over by.
LEMMA MonthlyNext ==
  ASSUME CalendarInv, plan.kind = "loan", plan.frequency = "MONTHLY",
         Len(dates) < plan.months
  PROVE  LET n == Len(dates)
             m == StartMonth + n
             day == AddMonths(cursor, 1)
         IN /\ n \in 0..plan.months /\ n + 1 \in 0..plan.months
            /\ day \in Nat /\ cursor < day
            /\ \/ (n > 0 => OnDay(n)) /\ day = FirstOf[m + 1] + StartDay
               \/ /\ n > 0
                  /\ \E k \in 1..n :
                       /\ OverBy(k, n)
                       /\ day = FirstOf[(m + 1) + 1] + (StartDay - MonthLength(StartMonth + k))
<1>. DEFINE n == Len(dates)
            m == StartMonth + n
            day == AddMonths(cursor, 1)
            On == (n > 0 => OnDay(n)) /\ day = FirstOf[m + 1] + StartDay
            Past == n > 0 /\ \E k \in 1..n :
                      /\ OverBy(k, n)
                      /\ day = FirstOf[(m + 1) + 1] + (StartDay - MonthLength(StartMonth + k))
<1>1. /\ n \in Nat /\ plan.months \in Nat /\ n \in 0..plan.months /\ n + 1 \in 0..plan.months
      /\ cursor = IF n = 0 THEN plan.start ELSE dates[n]
      /\ cursor \in Nat /\ (n > 0 => n \in 1..Len(dates))
  <2>1. plan \in Plans /\ dates \in Seq(Nat) /\ cursor \in Nat
    BY DEF CalendarInv, OrderInv
  <2>2. n \in Nat /\ (dates = <<>> <=> n = 0)
    BY <2>1
  <2>3. plan.months \in Nat
    BY <2>1, PlanTyped
  <2>4. cursor = IF dates = <<>> THEN plan.start ELSE dates[n]
    BY DEF CalendarInv, MonthlyInv
  <2>. QED  BY <2>1, <2>2, <2>3, <2>4
<1>2. m \in 0..LastMonth - 1 /\ m + 1 \in 0..LastMonth - 1 /\ StartDay \in 0..30
  BY <1>1, MonthlyRoom
<1>3. CASE n = 0
  <2>1. m = StartMonth /\ cursor = FirstOf[m] + StartDay /\ ~TooShort(m)
    BY <1>1, <1>2, <1>3, MonthlyRoom
  <2>. HIDE DEF n, m
  <2>2. MonthLength(m) \in 28..31 /\ FirstOf[m] \in Nat /\ FirstOf[m + 1] \in Nat
        /\ FirstOf[m] < FirstOf[m + 1]
    BY <1>2, LengthType
  <2>3. StartDay \in 0..MonthLength(m) - 1
    BY <1>2, <2>1, <2>2 DEF TooShort
  <2>4. day = FirstOf[m + 1] + StartDay
    BY <1>1, <1>2, <2>1, <2>3, OneMonthOn
  <2>. HIDE DEF day
  <2>5. day \in Nat /\ cursor < day
    BY <1>2, <2>1, <2>2, <2>4
  <2>. QED  BY <1>1, <1>3, <2>4, <2>5 DEF n, m, day
<1>4. CASE n > 0 /\ OnDay(n)
  <2>1. day = FirstOf[m + 1] + StartDay /\ cursor = FirstOf[m] + StartDay
    BY <1>1, <1>4, MonthlyDate DEF OnDay
  <2>. HIDE DEF n, m, day
  <2>2. FirstOf[m] \in Nat /\ FirstOf[m + 1] \in Nat /\ FirstOf[m] < FirstOf[m + 1]
    BY <1>2, LengthType
  <2>3. day \in Nat /\ cursor < day
    BY <1>2, <2>1, <2>2
  <2>. QED  BY <1>1, <1>4, <2>1, <2>3 DEF n, m, day
<1>5. CASE n > 0 /\ Over(n)
  <2>1. PICK k \in 1..n : OverBy(k, n)
    BY <1>5 DEF Over
  <2>. DEFINE over == StartDay - MonthLength(StartMonth + k)
  <2>2. /\ day = FirstOf[(m + 1) + 1] + over /\ over \in 0..2
        /\ cursor = FirstOf[m + 1] + over
    BY <1>1, <1>5, <2>1, MonthlyDate DEF OverBy
  <2>3. Past
    BY <1>5, <2>1, <2>2
  <2>. HIDE DEF over, n, m, day
  <2>4. /\ FirstOf[m + 1] \in Nat /\ FirstOf[(m + 1) + 1] \in Nat
        /\ FirstOf[m + 1] < FirstOf[(m + 1) + 1]
    BY <1>2, LengthType
  <2>5. day \in Nat /\ cursor < day
    BY <2>2, <2>4
  <2>. QED  BY <1>1, <2>3, <2>5 DEF n, m, day
<1>6. n > 0 => OnDay(n) \/ Over(n)
  BY <1>1 DEF CalendarInv, MonthlyInv
<1>. QED
  <2>. HIDE DEF On, Past
  <2>1. n = 0 \/ (n > 0 /\ OnDay(n)) \/ (n > 0 /\ Over(n))
    BY <1>1, <1>6
  <2>. QED  BY <1>3, <1>4, <1>5, <2>1

\* n names the number of dates before the step, in primed formulas too.
LEMMA MonthlyStep ==
  ASSUME CalendarInv, LoanPeriod, plan.frequency = "MONTHLY"
  PROVE  CalendarInv'
<1>. DEFINE day == AddMonths(cursor, 1)
<1>0. PICK n : n = Len(dates)
  OBVIOUS
<1>. DEFINE m == StartMonth + n
<1>1. /\ plan.kind = "loan" /\ cursor' = day /\ plan' = plan /\ n < plan.months /\ n = Len(dates)
      /\ dates' = Append(dates, day)
  <2>1. Count(plan) = plan.months
    BY PlanTyped DEF CalendarInv, OrderInv, Count, PerMonth
  <2>. QED  BY <1>0, <2>1 DEF LoanPeriod, Missing, Keep
<1>2. /\ n \in 0..plan.months /\ n + 1 \in 0..plan.months
      /\ day \in Nat /\ cursor < day
      /\ \/ (n > 0 => OnDay(n)) /\ day = FirstOf[m + 1] + StartDay
         \/ /\ n > 0
            /\ \E k \in 1..n :
                 /\ OverBy(k, n)
                 /\ day = FirstOf[(m + 1) + 1] + (StartDay - MonthLength(StartMonth + k))
  BY <1>1, MonthlyNext
<1>3. /\ dates \in Seq(Nat) /\ cursor \in Nat /\ plan.months \in Nat
      /\ \A i \in 1..n : dates[i] \in Nat /\ dates[i] <= cursor
  <2>1. /\ plan \in Plans /\ dates \in Seq(Nat) /\ cursor \in Nat
        /\ \A i \in 1..Len(dates) : dates[i] <= cursor
    BY <1>1 DEF CalendarInv, OrderInv
  <2>2. \A i \in 1..Len(dates) : dates[i] \in Nat
    BY <2>1
  <2>3. plan.months \in Nat
    BY <2>1, PlanTyped
  <2>. QED  BY <1>1, <2>1, <2>2, <2>3
<1>. HIDE DEF day
<1>4. /\ Len(dates') = n + 1 /\ dates' # <<>> /\ dates'[n + 1] = day
      /\ \A i \in 1..n : dates'[i] = dates[i]
  <2>1. /\ Len(Append(dates, day)) = n + 1 /\ Append(dates, day)[n + 1] = day
        /\ \A i \in 1..n : Append(dates, day)[i] = dates[i]
    BY <1>0, <1>2, <1>3, KeepOne
  <2>2. Append(dates, day) # <<>>
    <3>1. n + 1 # 0 /\ Len(<<>>) = 0
      BY <1>2, <1>3
    <3>. HIDE DEF m
    <3>. QED  BY <2>1, <3>1
  <2>. QED  BY <1>1, <2>1, <2>2
<1>5. OrderInv'
  <2>1. \A i \in 1..n : dates[i] < day
    BY <1>2, <1>3
  <2>2. cursor <= day /\ day <= day
    BY <1>2, <1>3
  <2>. QED  BY <1>1, <1>2, <2>1, <2>2, OrderKept DEF CalendarInv
<1>6. StartMonth' = StartMonth /\ StartDay' = StartDay
  BY <1>1 DEF StartMonth, StartDay, MonthOf, DayInMonth
<1>7. \A i \in 1..n : /\ OnDay(i)' <=> OnDay(i)
                      /\ \A k \in 1..i : OverBy(k, i)' <=> OverBy(k, i)
                      /\ Over(i)' <=> Over(i)
  BY <1>4, <1>6 DEF OnDay, Over, OverBy, TooShort, MonthLength
<1>8. /\ m \in 0..LastMonth - 1 /\ m + 1 \in 0..LastMonth - 1 /\ StartDay \in 0..30
      /\ m + 1 = StartMonth + (n + 1) /\ (m + 1) + 1 = StartMonth + (n + 1) + 1
      /\ StartMonth \in Nat
  <2>1. m \in 0..LastMonth - 1 /\ m + 1 \in 0..LastMonth - 1 /\ StartDay \in 0..30
    BY <1>1, <1>2, MonthlyRoom
  <2>2. StartMonth \in Nat /\ n \in Nat
    BY <1>1, <1>2, MonthlyRoom
  <2>. QED  BY <2>1, <2>2
<1>. HIDE DEF m
<1>9. /\ OnDay(n + 1)' \/ Over(n + 1)'
      /\ n > 0 /\ Over(n) => Over(n + 1)'
  <2>1. CASE (n > 0 => OnDay(n)) /\ day = FirstOf[m + 1] + StartDay
    <3>1. n > 0 => ~Over(n)
      BY <1>1, <1>2, <2>1, MonthlyDate
    <3>2. CASE ~TooShort(m + 1)
      <4>1. OnDay(n + 1)'
        BY <1>4, <1>6, <1>8, <2>1, <3>2 DEF OnDay, TooShort, MonthLength
      <4>. QED  BY <3>1, <4>1
    <3>3. CASE TooShort(m + 1)
      <4>1. /\ FirstOf[m + 1] \in Nat /\ MonthLength(m + 1) \in 28..31
            /\ FirstOf[(m + 1) + 1] = FirstOf[m + 1] + MonthLength(m + 1)
        BY <1>8, LengthType
      <4>2. day = FirstOf[(m + 1) + 1] + (StartDay - MonthLength(m + 1))
        BY <1>8, <2>1, <4>1
      <4>3. OverBy(n + 1, n + 1)'
        BY <1>4, <1>6, <1>8, <3>3, <4>2 DEF OverBy, TooShort, MonthLength
      <4>4. n + 1 \in 1..n + 1
        BY <1>2
      <4>. QED  BY <4>3, <4>4 DEF Over
    <3>. QED  BY <3>2, <3>3
  <2>2. CASE n > 0 /\ \E k \in 1..n :
               /\ OverBy(k, n)
               /\ day = FirstOf[(m + 1) + 1] + (StartDay - MonthLength(StartMonth + k))
    <3>1. PICK k \in 1..n :
            /\ OverBy(k, n)
            /\ day = FirstOf[(m + 1) + 1] + (StartDay - MonthLength(StartMonth + k))
      BY <2>2
    <3>2. OverBy(k, n + 1)'
      BY <1>4, <1>6, <1>8, <3>1 DEF OverBy, TooShort, MonthLength
    <3>3. k \in 1..n + 1
      BY <1>2
    <3>. QED  BY <3>2, <3>3 DEF Over
  <2>. QED  BY <1>2, <2>1, <2>2
<1>10. /\ \A i \in 1..Len(dates') : OnDay(i)' \/ Over(i)'
       /\ \A i, j \in 1..Len(dates') : j = i + 1 /\ Over(i)' => Over(j)'
  <2>1. n \in Nat /\ 1..Len(dates') = (1..n) \cup {n + 1}
    BY <1>2, <1>4
  <2>2. /\ \A i \in 1..n : OnDay(i) \/ Over(i)
        /\ \A i, j \in 1..n : j = i + 1 /\ Over(i) => Over(j)
    BY <1>1 DEF CalendarInv, MonthlyInv
  <2>3. \A i \in 1..Len(dates') : OnDay(i)' \/ Over(i)'
    BY <1>7, <1>9, <2>1, <2>2
  <2>4. ASSUME NEW i \in 1..Len(dates'), NEW j \in 1..Len(dates'), j = i + 1, Over(i)'
        PROVE  Over(j)'
    <3>1. i \in 1..n
      BY <1>4, <2>1, <2>4
    <3>2. Over(i)
      BY <1>7, <2>4, <3>1
    <3>3. CASE j \in 1..n
      BY <1>7, <2>2, <2>4, <3>1, <3>2, <3>3
    <3>4. CASE j = n + 1
      <4>1. i = n /\ n > 0
        BY <2>1, <2>4, <3>1, <3>4
      <4>. QED  BY <1>9, <3>2, <3>4, <4>1
    <3>. QED  BY <2>1, <3>3, <3>4
  <2>. QED  BY <2>3, <2>4
<1>11. MonthlyInv'
  <2>1. Len(dates') <= plan'.months
    BY <1>1, <1>2, <1>3, <1>4
  <2>2. cursor' = IF dates' = <<>> THEN plan'.start ELSE dates'[Len(dates')]
    BY <1>1, <1>4
  <2>. QED  BY <1>10, <2>1, <2>2 DEF MonthlyInv
<1>. QED  BY <1>1, <1>5, <1>11 DEF CalendarInv, DailyInv, CycleInv

LEMMA NextCalendar == CalendarInv /\ [CalendarNext]_calendarVars => CalendarInv'
<1>. SUFFICES ASSUME CalendarInv, [CalendarNext]_calendarVars
              PROVE  CalendarInv'
  OBVIOUS
<1>1. CASE LoanDay
  BY <1>1, DailyStep
<1>2. CASE LoanPeriod
  <2>1. plan.frequency \in Frequencies /\ plan.frequency # "DAILY"
    BY <1>2, PlanTyped DEF CalendarInv, OrderInv, LoanPeriod
  <2>. QED  BY <1>2, <2>1, WeeklyStep, MonthlyStep DEF Frequencies
<1>3. CASE TontineDay
  BY <1>3, CycleStep
<1>4. CASE UNCHANGED calendarVars
  <2>1. plan' = plan /\ cursor' = cursor /\ dates' = dates
    BY <1>4 DEF calendarVars
  <2>2. OrderInv' /\ DailyInv' /\ CycleInv'
    BY <2>1 DEF CalendarInv, OrderInv, DailyInv, CycleInv
  <2>3. StartMonth' = StartMonth /\ StartDay' = StartDay
    BY <2>1 DEF StartMonth, StartDay
  <2>4. \A i : OnDay(i)' = OnDay(i) /\ Over(i)' = Over(i)
    BY <2>1, <2>3 DEF OnDay, Over, OverBy, TooShort
  <2>5. MonthlyInv'
    BY <2>1, <2>4 DEF CalendarInv, MonthlyInv
  <2>. QED  BY <2>2, <2>5 DEF CalendarInv
<1>. QED  BY <1>1, <1>2, <1>3, <1>4 DEF CalendarNext

LEMMA CalendarInductive == CalendarSpec => []CalendarInv
<1>1. CalendarInit => CalendarInv
  BY InitCalendar
<1>2. CalendarInv /\ [CalendarNext]_calendarVars => CalendarInv'
  BY NextCalendar
<1>. QED  BY <1>1, <1>2, PTL DEF CalendarSpec

\* For any months, any weekdays and any plans that fit in the months: later numbers
\* are due later, a DAILY loan has every working day after its start and no other, and
\* a finished cycle has every day that the saver chose, both ends included
\* (generateScheduleDates, createCycle).
THEOREM EveryDayAsked == CalendarSpec => []EveryAllowedDay
<1>1. ASSUME CalendarInv PROVE EveryAllowedDay
  <2>. USE <1>1
  <2>1. /\ plan \in Plans /\ cursor \in Nat
        /\ \A i, j \in 1..Len(dates) : i < j => dates[i] < dates[j]
    BY DEF CalendarInv, OrderInv
  <2>2. plan.kind = "loan" /\ plan.frequency = "DAILY" =>
          KeptDays(dates) = Among(1..5) \cap (plan.start + 1..cursor)
    BY DEF CalendarInv, DailyInv
  <2>3. plan.kind = "tontine" /\ Finished =>
          KeptDays(dates) = Among(Asked(plan)) \cap (plan.start..EndOf(plan))
    <3>1. SUFFICES ASSUME plan.kind = "tontine", Finished
                   PROVE  KeptDays(dates) = Among(Asked(plan)) \cap (plan.start..EndOf(plan))
      OBVIOUS
    <3>2. ~(cursor <= EndOf(plan)) /\ cursor <= EndOf(plan) + 1
      BY <3>1 DEF CalendarInv, CycleInv, Finished, TontineGoesOn
    <3>3. EndOf(plan) \in Nat
      BY <2>1, PlanTyped DEF Days
    <3>4. cursor - 1 = EndOf(plan)
      BY <2>1, <3>2, <3>3
    <3>. QED  BY <3>1, <3>4 DEF CalendarInv, CycleInv
  <2>. QED  BY <2>1, <2>2, <2>3 DEF EveryAllowedDay, KeptDays, Among, Asked
<1>2. CalendarInv => EveryAllowedDay
  BY <1>1
<1>. QED  BY <1>2, CalendarInductive, PTL

\* For any months and any plans that fit in them: the installments of a MONTHLY loan
\* are due in months of their own, at most one of which is passed over, because one
\* was too short, and within three days of the day the loan started on, on that day
\* when it is the 28th or before (generateScheduleDates).
THEOREM MonthlyStaysNear == CalendarSpec => []MonthlyNearby
<1>1. ASSUME CalendarInv, plan.kind = "loan", plan.frequency = "MONTHLY",
             NEW i \in 1..Len(dates)
      PROVE  /\ dates[i] - (FirstOf[StartMonth + i] + StartDay) \in -3..3
             /\ StartDay < 28 => dates[i] = FirstOf[StartMonth + i] + StartDay
             /\ i > 1 => MonthOf(dates[i - 1]) < MonthOf(dates[i])
             /\ \/ MonthOf(dates[i]) = StartMonth + i
                \/ /\ MonthOf(dates[i]) = StartMonth + i + 1
                   /\ \E k \in 1..i : TooShort(StartMonth + k)
             /\ i \in 0..plan.months
  <2>. USE <1>1
  <2>1. i \in 0..plan.months /\ dates[i] \in Nat
    BY MonthlyDate
  <2>2. /\ FirstOf[StartMonth + i] \in Nat /\ MonthLength(StartMonth + i) \in 28..31
        /\ FirstOf[StartMonth + i + 1] = FirstOf[StartMonth + i] + MonthLength(StartMonth + i)
        /\ StartMonth \in Nat /\ StartDay \in 0..30
    BY <2>1, MonthlyRoom, LengthType
  <2>3. i > 1 => /\ i - 1 \in 1..Len(dates)
                 /\ Over(i - 1) => Over(i)
                 /\ OnDay(i - 1) \/ Over(i - 1)
    BY DEF CalendarInv, MonthlyInv
  <2>4. \A j \in 1..Len(dates) : OnDay(j) => MonthOf(dates[j]) = StartMonth + j /\ ~Over(j)
    BY MonthlyDate
  <2>5. \A j \in 1..Len(dates) : Over(j) => MonthOf(dates[j]) = StartMonth + j + 1
    BY MonthlyDate DEF Over
  <2>6. i > 1 => MonthOf(dates[i - 1]) < MonthOf(dates[i])
    <3>1. OnDay(i) \/ Over(i)
      BY DEF CalendarInv, MonthlyInv
    <3>. QED  BY <2>2, <2>3, <2>4, <2>5, <3>1
  <2>7. CASE OnDay(i)
    BY <2>1, <2>2, <2>4, <2>6, <2>7 DEF OnDay
  <2>8. CASE Over(i)
    <3>1. PICK k \in 1..i : OverBy(k, i)
      BY <2>8 DEF Over
    <3>2. MonthLength(StartMonth + k) \in 28..30
      BY <3>1, MonthlyDate
    <3>3. /\ dates[i] = FirstOf[StartMonth + i + 1] + (StartDay - MonthLength(StartMonth + k))
          /\ TooShort(StartMonth + k) /\ ~(StartDay < 28)
      BY <2>2, <3>1, <3>2 DEF OverBy, TooShort
    <3>4. dates[i] - (FirstOf[StartMonth + i] + StartDay) \in -3..3
      <4>1. dates[i] - (FirstOf[StartMonth + i] + StartDay)
              = MonthLength(StartMonth + i) - MonthLength(StartMonth + k)
        <5>1. \A f, s, a, b \in Int : (f + a) + (s - b) - (f + s) = a - b
          OBVIOUS
        <5>2. dates[i] = (FirstOf[StartMonth + i] + MonthLength(StartMonth + i))
                           + (StartDay - MonthLength(StartMonth + k))
          BY <2>2, <3>3
        <5>3. /\ FirstOf[StartMonth + i] \in Int /\ StartDay \in Int
              /\ MonthLength(StartMonth + i) \in Int /\ MonthLength(StartMonth + k) \in Int
          BY <2>2, <3>2
        <5>. QED  BY ONLY <5>1, <5>2, <5>3
      <4>2. \A a, b \in 28..31 : a - b \in -3..3
        OBVIOUS
      <4>3. MonthLength(StartMonth + i) \in 28..31 /\ MonthLength(StartMonth + k) \in 28..31
        BY <2>2, <3>2
      <4>4. MonthLength(StartMonth + i) - MonthLength(StartMonth + k) \in -3..3
        BY ONLY <4>2, <4>3
      <4>. QED  BY ONLY <4>1, <4>4
    <3>. QED  BY <2>1, <2>5, <2>6, <2>8, <3>1, <3>3, <3>4
  <2>. QED  BY <2>7, <2>8 DEF CalendarInv, MonthlyInv
<1>2. ASSUME CalendarInv PROVE MonthlyNearby
  <2>1. StartMonth = MonthOf(plan.start) /\ StartDay = DayInMonth(plan.start)
    BY DEF StartMonth, StartDay
  <2>2. plan.months \in Nat
    BY <1>2, PlanTyped DEF CalendarInv, OrderInv
  <2>3. \A i \in 1..Len(dates) : \A k \in 1..i : i \in 0..plan.months => k \in 0..plan.months
    BY <2>2
  <2>. QED  BY <1>1, <1>2, <2>1, <2>2, <2>3 DEF MonthlyNearby, TooShort, MonthLength
<1>3. CalendarInv => MonthlyNearby
  BY <1>2
<1>. QED  BY <1>3, CalendarInductive, PTL
=============================================================================
