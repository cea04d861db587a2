--------------------------- MODULE AccountsProofs ----------------------------
(***************************************************************************)
(* Theorems about Directory and Accounts for any calls in any order: keys  *)
(* belong to one row, a removal is undone by a reactivation only; and an   *)
(* e-mail opens one account, a code is neither lost nor used twice and a   *)
(* second factor has a secret, but where calls that overlapped explain it. *)
(***************************************************************************)
EXTENDS Accounts, TLAPS

OwnPoints == {"contact", "code", "verify", "secret", "on", "off"}
Points == {"idle", "branch", "insert", "write", "email", "password", "over"} \cup OwnPoints
RowKinds == {"update", "remove", "reactivate"}

\* What a call that is at a statement has read: which kind of call it is, that its row
\* exists; a creation that is not over has made no row.
PlaceInv ==
  \A r \in Requests :
    /\ pc[r] \in {"branch", "insert"} => Kind(r) = "create"
    /\ Kind(r) = "create" /\ pc[r] # "over" => ~row[r].there
    /\ row[r].live => row[r].there
    /\ pc[r] = "write" => Kind(r) \in RowKinds /\ row[Op[r].target].there
    /\ pc[r] \in {"email", "password"} =>
         Kind(r) = "activate" /\ found[r] \in Requests /\ row[found[r]].there
           /\ Table(found[r]) = "client"
    /\ pc[r] \in OwnPoints => Kind(r) \in OwnKinds /\ row[User(r)].there
    /\ pc[r] = "verify" => Op[r].presents \in Requests

\* The conjuncts of TypeOK about a user's own account, and about the calls that met.
OwnTypes ==
  /\ code \in [Requests -> Requests \cup {None}]
  /\ usable \in [Requests -> BOOLEAN]
  /\ verified \in [Requests -> SUBSET {"email", "phone"}]
  /\ secret \in [Requests -> Requests \cup {None}]
  /\ mfa \in [Requests -> BOOLEAN]
  /\ latest \in [Requests -> Requests \cup {None}]
  /\ accepted \subseteq Requests \X Requests
  /\ met \subseteq SUBSET Requests

RowInv == TypeOK /\ PlaceInv /\ KeysUnique

USE DEF Table, Kind, User, Goto, GotoIf

LEMMA RowInvInit == Init => RowInv
<1> SUFFICES ASSUME Init PROVE RowInv
  OBVIOUS
<1>1. /\ row = [r \in Requests |-> IF r \in Existing THEN New(r) ELSE Absent]
      /\ pc \in [Requests -> {"idle", "over"}]
      /\ \A r \in Existing : pc[r] = "over"
      /\ found = [r \in Requests |-> None]
  BY DirectoryAssumption DEF Init, DirectoryInit
<1>2. PlaceInv
  BY <1>1 DEF PlaceInv, New, Absent, OwnPoints
<1>3. ASSUME NEW x \in Requests
      PROVE  /\ row[x] = Absent \/ (row[x] = New(x) /\ Op[x].key # None)
             /\ row[x].there <=> row[x].key # None
             /\ ~row[x].active
             /\ row[x] \in [there : BOOLEAN, live : BOOLEAN, active : BOOLEAN,
                            key : {Op[r].key : r \in Requests} \cup {None},
                            email : {Op[r].email : r \in Requests} \cup {None}]
  BY <1>1, DirectoryAssumption DEF New, Absent
<1>4. TypeOK
  <2>1. OwnTypes
    BY DEF Init, DirectoryInit, OwnTypes
  <2>2. QED
    BY <1>1, <1>3, <2>1 DEF OwnTypes, TypeOK
<1>5. KeysUnique
  BY <1>1, DirectoryAssumption DEF KeysUnique, New, Absent
<1>6. QED
  BY <1>2, <1>4, <1>5 DEF RowInv

-----------------------------------------------------------------------------
(* Steps *)

\* A step that changes no row moves one call on, having read what its statement needs.
LEMMA Advance ==
  ASSUME RowInv, NEW r \in Requests, NEW p \in Points, pc[r] # "over",
         row' = row, pc' = [pc EXCEPT ![r] = p], OwnTypes',
         found' \in [Requests -> Requests \cup {None}],
         \A s \in Requests \ {r} : found'[s] = found[s],
         p # "idle",
         p \in {"branch", "insert"} => Kind(r) = "create",
         p = "write" => Kind(r) \in RowKinds /\ row[Op[r].target].there,
         p \in {"email", "password"} =>
           /\ Kind(r) = "activate" /\ found'[r] \in Requests
           /\ row[found'[r]].there /\ Table(found'[r]) = "client",
         p \in OwnPoints => Kind(r) \in OwnKinds /\ row[User(r)].there,
         p = "verify" => Op[r].presents \in Requests
  PROVE  RowInv'
<1>1. TypeOK'
  BY DEF RowInv, TypeOK, OwnTypes, Points, OwnPoints
<1>2. PlaceInv'
  <2> SUFFICES ASSUME NEW s \in Requests
               PROVE  /\ pc'[s] \in {"branch", "insert"} => Kind(s) = "create"
                      /\ Kind(s) = "create" /\ pc'[s] # "over" => ~row[s].there
                      /\ row[s].live => row[s].there
                      /\ pc'[s] = "write" => Kind(s) \in RowKinds /\ row[Op[s].target].there
                      /\ pc'[s] \in {"email", "password"} =>
                           /\ Kind(s) = "activate" /\ found'[s] \in Requests
                           /\ row[found'[s]].there /\ Table(found'[s]) = "client"
                      /\ pc'[s] \in OwnPoints => Kind(s) \in OwnKinds /\ row[User(s)].there
                      /\ pc'[s] = "verify" => Op[s].presents \in Requests
    BY DEF PlaceInv
  <2>1. CASE s = r
    BY <2>1 DEF RowInv, TypeOK, PlaceInv
  <2>2. CASE s # r
    BY <2>2 DEF RowInv, TypeOK, PlaceInv
  <2>3. QED
    BY <2>1, <2>2
<1>3. KeysUnique'
  BY DEF RowInv, KeysUnique
<1>4. QED
  BY <1>1, <1>2, <1>3 DEF RowInv

\* A step that changes no own account keeps the types of it.
LEMMA OwnTypesStay ==
  ASSUME RowInv, UNCHANGED accountVars, met' \subseteq SUBSET Requests PROVE OwnTypes'
BY DEF RowInv, TypeOK, OwnTypes, accountVars

\* A call that begins is recorded with every one of the others that is in flight.
LEMMA Meeting ==
  ASSUME RowInv, NEW r \in Requests, NEW others \in SUBSET Requests, Meets(r, others)
  PROVE  /\ met' \subseteq SUBSET Requests /\ met \subseteq met'
         /\ \A s \in others : InFlight(s) => {r, s} \in met'
BY DEF Meets, RowInv, TypeOK

LEMMA RivalsAreCalls == ASSUME NEW r PROVE Rivals(r) \in SUBSET Requests
BY DEF Rivals

LEMMA CreateCheckRow ==
  ASSUME RowInv, NEW r \in Requests, CreateCheck(r), UNCHANGED accountVars PROVE RowInv'
<1>1. /\ pc[r] = "idle" /\ Kind(r) = "create" /\ row' = row /\ found' = found /\ OwnTypes'
      /\ \E p \in {"branch", "insert", "over"} : pc' = [pc EXCEPT ![r] = p]
  BY OwnTypesStay DEF CreateCheck, RowInv, TypeOK
<1>2. QED
  BY <1>1, Advance DEF Points, OwnPoints, RowInv, TypeOK

LEMMA BranchCheckRow ==
  ASSUME RowInv, NEW r \in Requests, BranchCheck(r), UNCHANGED accountVars PROVE RowInv'
BY Advance, OwnTypesStay DEF BranchCheck, Points, OwnPoints, RowInv, TypeOK, PlaceInv

LEMMA FindOneRow ==
  ASSUME RowInv, NEW r \in Requests, FindOne(r), UNCHANGED accountVars PROVE RowInv'
<1>1. /\ pc[r] = "idle" /\ Kind(r) \in RowKinds /\ row' = row /\ found' = found /\ OwnTypes'
      /\ \/ pc' = [pc EXCEPT ![r] = "over"]
         \/ pc' = [pc EXCEPT ![r] = "write"] /\ row[Op[r].target].there
  <2>1. met' \subseteq SUBSET Requests
    BY DEF FindOne, RowInv, TypeOK
  <2>2. QED
    BY <2>1, OwnTypesStay DEF FindOne, RowKinds
<1>2. QED
  BY <1>1, Advance DEF Points, OwnPoints, RowInv, TypeOK

LEMMA ActivateReadRow ==
  ASSUME RowInv, NEW r \in Requests, ActivateRead(r), UNCHANGED accountVars PROVE RowInv'
<1>1. OwnTypes' /\ row' = row /\ pc[r] = "idle" /\ Kind(r) = "activate"
  <2>1. met' \subseteq SUBSET Requests
    <3>1. Activations \ {r} \in SUBSET Requests
      BY DEF Activations
    <3>2. QED
      BY <3>1, Meeting DEF ActivateRead, RowInv, TypeOK
  <2>2. QED
    BY <2>1, OwnTypesStay DEF ActivateRead
<1>2. CASE pc' = [pc EXCEPT ![r] = "over"] /\ UNCHANGED found
  BY <1>1, <1>2, Advance DEF Points, OwnPoints, RowInv, TypeOK
<1>3. ASSUME NEW x \in Requests, row[x].there, Table(x) = "client",
             found' = [found EXCEPT ![r] = x], pc' = [pc EXCEPT ![r] = "email"]
      PROVE  RowInv'
  BY <1>1, <1>3, Advance DEF Points, OwnPoints, RowInv, TypeOK
<1>4. QED
  BY <1>2, <1>3 DEF ActivateRead, LiveClients, Holders

LEMMA EmailReadRow ==
  ASSUME RowInv, NEW r \in Requests, EmailRead(r), UNCHANGED accountVars PROVE RowInv'
<1>1. /\ pc[r] = "email" /\ row' = row /\ found' = found /\ OwnTypes'
      /\ \E p \in {"password", "over"} : pc' = [pc EXCEPT ![r] = p]
  BY OwnTypesStay DEF EmailRead, RowInv, TypeOK
<1>2. /\ found \in [Requests -> Requests \cup {None}] /\ pc[r] # "over"
      /\ Kind(r) = "activate" /\ found[r] \in Requests /\ row[found[r]].there
      /\ Table(found[r]) = "client"
  BY <1>1 DEF RowInv, TypeOK, PlaceInv
<1>3. QED
  BY <1>1, <1>2, Advance DEF Points, OwnPoints

\* The reads of the calls on one's own account.
LEMMA ReadsRow ==
  ASSUME RowInv, NEW r \in Requests, NEW kind \in OwnKinds, NEW cond \in BOOLEAN,
         NEW next \in OwnPoints, next = "verify" /\ cond => Op[r].presents \in Requests,
         Reads(r, kind, cond, next)
  PROVE  RowInv'
<1>1. /\ pc[r] = "idle" /\ Kind(r) \in OwnKinds /\ row[User(r)].there
      /\ row' = row /\ found' = found /\ OwnTypes'
      /\ pc' = [pc EXCEPT ![r] = IF cond THEN next ELSE "over"]
  <2>1. met' \subseteq SUBSET Requests
    BY Meeting, RivalsAreCalls DEF Reads, RowInv, TypeOK
  <2>2. QED
    BY <2>1, OwnTypesStay, AccountsAssumption DEF Reads, Begins, RowInv, PlaceInv
<1>2. QED
  BY <1>1, Advance DEF Points, OwnPoints, RowInv, TypeOK

LEMMA OwnReadsRow ==
  ASSUME RowInv, NEW r \in Requests,
         \/ ContactRead(r) \/ SendRead(r) \/ VerifyRead(r)
         \/ GenerateRead(r) \/ EnableRead(r) \/ DisableRead(r)
  PROVE  RowInv'
<1> USE DEF OwnKinds, OwnPoints
<1>1. CASE ContactRead(r)
  BY <1>1, ReadsRow DEF ContactRead
<1>2. CASE SendRead(r)
  BY <1>2, ReadsRow DEF SendRead
<1>3. CASE VerifyRead(r)
  <2>1. PICK kind \in {"verifyEmail", "verifyPhone"} : Reads(r, kind, Matches(r), "verify")
    BY <1>3 DEF VerifyRead
  <2>2. Matches(r) => Op[r].presents \in Requests
    <3>1. Kind(r) \in OwnKinds /\ User(r) \in Requests
      BY <2>1, AccountsAssumption DEF Reads, Begins
    <3>2. QED
      BY <3>1 DEF Matches, RowInv, TypeOK
  <2>3. Matches(r) \in BOOLEAN
    BY DEF Matches
  <2>4. QED
    BY <2>1, <2>2, <2>3, ReadsRow
<1>4. CASE GenerateRead(r)
  BY <1>4, ReadsRow DEF GenerateRead
<1>5. CASE EnableRead(r) \/ DisableRead(r)
  BY <1>5, ReadsRow DEF EnableRead, DisableRead, Proves
<1>6. QED
  BY <1>1, <1>2, <1>3, <1>4, <1>5

\* Their writes, but for a change of contact.
LEMMA OwnWritesRow ==
  ASSUME RowInv, NEW r \in Requests,
         \/ StoreCode(r) \/ VerifyWrite(r)
         \/ GenerateWrite(r) \/ EnableWrite(r) \/ DisableWrite(r)
  PROVE  RowInv'
<1>1. /\ pc[r] # "over" /\ row' = row /\ found' = found
      /\ pc' = [pc EXCEPT ![r] = "over"]
  BY DEF StoreCode, VerifyWrite, GenerateWrite, EnableWrite, DisableWrite, SetMfa
<1>2. OwnTypes'
  <2>1. CASE StoreCode(r)
    BY <2>1 DEF StoreCode, RowInv, TypeOK, OwnTypes
  <2>2. CASE VerifyWrite(r)
    <3>1. Op[r].presents \in Requests
      BY <2>2 DEF VerifyWrite, RowInv, PlaceInv
    <3>2. /\ verified' = [verified EXCEPT ![User(r)] = @ \cup {Channel(r)}]
          /\ Channel(r) \in {"email", "phone"}
          /\ accepted' = accepted \cup {<<Op[r].presents, r>>}
      BY <2>2 DEF VerifyWrite, Channel
    <3>3. code' \in [Requests -> Requests \cup {None}] /\ usable' \in [Requests -> BOOLEAN]
      BY <2>2 DEF VerifyWrite, ClearCode, RowInv, TypeOK
    <3>4. UNCHANGED <<secret, mfa, latest, met>>
      BY <2>2 DEF VerifyWrite
    <3>5. verified' \in [Requests -> SUBSET {"email", "phone"}]
      BY <3>2 DEF RowInv, TypeOK
    <3>6. accepted' \subseteq Requests \X Requests
      BY <3>1, <3>2 DEF RowInv, TypeOK
    <3>7. QED
      BY <3>3, <3>4, <3>5, <3>6 DEF RowInv, TypeOK, OwnTypes
  <2>3. ASSUME NEW s \in Requests \cup {None}, NEW on \in BOOLEAN, SetMfa(r, s, on)
        PROVE  OwnTypes'
    BY <2>3 DEF SetMfa, RowInv, TypeOK, OwnTypes
  <2>4. CASE GenerateWrite(r) \/ EnableWrite(r) \/ DisableWrite(r)
    <3>1. User(r) \in Requests
      BY <2>4, AccountsAssumption
         DEF GenerateWrite, EnableWrite, DisableWrite, RowInv, PlaceInv, OwnPoints
    <3>2. secret[User(r)] \in Requests \cup {None} /\ mfa[User(r)] \in BOOLEAN
      BY <3>1 DEF RowInv, TypeOK
    <3>3. CASE GenerateWrite(r)
      BY <2>3, <3>2, <3>3 DEF GenerateWrite
    <3>4. CASE EnableWrite(r)
      BY <2>3, <3>2, <3>4 DEF EnableWrite
    <3>5. CASE DisableWrite(r)
      BY <2>3, <3>5 DEF DisableWrite, AfterDisable
    <3>6. QED
      BY <2>4, <3>3, <3>4, <3>5
  <2>5. QED
    BY <2>1, <2>2, <2>4
<1>3. QED
  BY <1>1, <1>2, Advance DEF Points, OwnPoints, RowInv, TypeOK

LEMMA AbortRow == ASSUME RowInv, NEW r \in Requests, Abort(r) PROVE RowInv'
BY Advance, OwnTypesStay DEF Abort, InFlight, Points, OwnPoints, RowInv, TypeOK

LEMMA ExpireCodeRow == ASSUME RowInv, NEW x \in Requests, ExpireCode(x) PROVE RowInv'
BY DEF ExpireCode, directoryVars, RowInv, TypeOK, PlaceInv, KeysUnique

RowType == [there : BOOLEAN, live : BOOLEAN, active : BOOLEAN,
            key : {Op[r].key : r \in Requests} \cup {None},
            email : {Op[r].email : r \in Requests} \cup {None}]

\* The last statement of call r writes row x: a new one of its own, or one that exists.
LEMMA RowChange ==
  ASSUME RowInv, NEW r \in Requests, NEW x \in Requests, NEW new \in RowType,
         row' = [row EXCEPT ![x] = new], pc' = [pc EXCEPT ![r] = "over"], found' = found,
         OwnTypes', x = r \/ row[x].there, new.there,
         new.key # None, new.active => new.email # None,
         KeyFree(Table(x), new.key, x) \/ (row[x].there /\ new.key = row[x].key)
  PROVE  RowInv'
<1>1. /\ row \in [Requests -> RowType] /\ pc \in [Requests -> Points]
      /\ row' \in [Requests -> RowType]
      /\ row'[x] = new /\ \A y \in Requests \ {x} : row'[y] = row[y]
      /\ pc'[r] = "over" /\ \A s \in Requests \ {r} : pc'[s] = pc[s]
  BY DEF RowInv, TypeOK, RowType, Points, OwnPoints
<1>2. TypeOK'
  BY <1>1 DEF RowInv, TypeOK, OwnTypes, RowType, Points, OwnPoints
<1>3. PlaceInv'
  BY <1>1 DEF RowInv, PlaceInv, OwnPoints
<1>4. KeysUnique'
  <2> SUFFICES ASSUME NEW y \in Requests, NEW z \in Requests, row'[y].there, row'[z].there,
                      Table(y) = Table(z), row'[y].key = row'[z].key
               PROVE  y = z
    BY DEF KeysUnique
  <2>1. CASE y # x /\ z # x
    BY <1>1, <2>1 DEF RowInv, KeysUnique
  <2>2. ASSUME NEW u \in Requests \ {x}, row[u].there, Table(u) = Table(x), row[u].key = new.key
        PROVE  FALSE
    BY <2>2 DEF RowInv, KeysUnique, KeyFree, Holders
  <2>3. QED
    BY <1>1, <2>1, <2>2
<1>5. QED
  BY <1>2, <1>3, <1>4 DEF RowInv

LEMMA InsertRow ==
  ASSUME RowInv, NEW r \in Requests, Insert(r), UNCHANGED accountVars PROVE RowInv'
<1>1. /\ pc[r] = "insert" /\ Kind(r) = "create" /\ pc' = [pc EXCEPT ![r] = "over"]
      /\ found' = found /\ OwnTypes' /\ Op[r].key # None
  BY OwnTypesStay, DirectoryAssumption DEF Insert, RowInv, TypeOK, PlaceInv
<1>2. CASE row' = row
  BY <1>1, <1>2, Advance DEF Points, OwnPoints, RowInv, TypeOK
<1>3. CASE row' # row
  <2>1. row' = [row EXCEPT ![r] = New(r)] /\ KeyFree(Table(r), Op[r].key, r)
    BY <1>3 DEF Insert
  <2>2. New(r) \in RowType /\ New(r).there /\ New(r).key = Op[r].key /\ ~New(r).active
    BY DEF New, RowType
  <2>3. QED
    BY <1>1, <2>1, <2>2, RowChange
<1>4. QED
  BY <1>2, <1>3

LEMMA WriteRowKept ==
  ASSUME RowInv, NEW r \in Requests, Write(r), UNCHANGED accountVars PROVE RowInv'
<1> DEFINE x == Op[r].target
           new == Changed(r, row[x])
<1>1. /\ pc[r] = "write" /\ Kind(r) \in RowKinds /\ pc' = [pc EXCEPT ![r] = "over"]
      /\ x \in Requests /\ row[x].there /\ row[x] \in RowType
      /\ found' = found /\ OwnTypes'
  BY OwnTypesStay, DirectoryAssumption
     DEF Write, RowInv, PlaceInv, TypeOK, RowType, RowKinds
<1>2. CASE row' = row
  BY <1>1, <1>2, Advance DEF Points, OwnPoints, RowInv, TypeOK
<1>3. CASE row' # row
  <2>1. row' = [row EXCEPT ![x] = new] /\ KeyFree(Table(x), new.key, x)
    BY <1>1, <1>3 DEF Write, WriteRow, RowInv, TypeOK
  <2>2. /\ new \in RowType /\ new.there /\ new.key # None
        /\ new.active => new.email # None
    BY <1>1 DEF Changed, Renamed, Given, RowType, RowInv, TypeOK
  <2>3. QED
    BY <1>1, <2>1, <2>2, RowChange
<1>4. QED
  BY <1>2, <1>3

LEMMA SetPasswordRow ==
  ASSUME RowInv, NEW r \in Requests, SetPassword(r), UNCHANGED accountVars PROVE RowInv'
<1> DEFINE x == found[r]
           new == [row[x] EXCEPT !.email = Op[r].email, !.active = TRUE]
<1>1. /\ pc[r] = "password" /\ Kind(r) = "activate" /\ pc' = [pc EXCEPT ![r] = "over"]
      /\ x \in Requests /\ row[x].there /\ row[x] \in RowType
      /\ found' = found /\ OwnTypes' /\ Op[r].email # None
  BY OwnTypesStay, DirectoryAssumption
     DEF SetPassword, RowInv, PlaceInv, TypeOK, RowType
<1>2. row' = [row EXCEPT ![x] = new]
  BY <1>1 DEF SetPassword, RowInv, TypeOK, RowType
<1>3. /\ new \in RowType /\ new.there /\ new.key = row[x].key /\ new.key # None
      /\ new.email # None
  BY <1>1 DEF RowType, RowInv, TypeOK
<1>4. QED
  BY <1>1, <1>2, <1>3, RowChange

LEMMA ContactWriteRow ==
  ASSUME RowInv, NEW r \in Requests, ContactWrite(r) PROVE RowInv'
<1> DEFINE x == User(r)
           key == Given(Op[r].key, row[x].key)
           new == [row[x] EXCEPT !.key = key]
<1>1. /\ pc[r] = "contact" /\ pc' = [pc EXCEPT ![r] = "over"] /\ found' = found
      /\ Kind(r) \in OwnKinds /\ row[x].there
  BY DEF ContactWrite, RowInv, PlaceInv, OwnPoints
<1>2. x \in Requests /\ Table(x) = "user" /\ row[x] \in RowType
  BY <1>1, AccountsAssumption DEF RowInv, TypeOK, RowType
<1>3. OwnTypes'
  <2>1. verified' \in [Requests -> SUBSET {"email", "phone"}]
    <3>1. verified' = verified \/ verified' = [verified EXCEPT ![x] = @ \ Replaced(r)]
      BY DEF ContactWrite
    <3>2. verified \in [Requests -> SUBSET {"email", "phone"}]
      BY DEF RowInv, TypeOK
    <3>3. QED
      BY <3>1, <3>2
  <2>2. UNCHANGED <<code, usable, secret, mfa, latest, accepted, met>>
    BY DEF ContactWrite
  <2>3. QED
    BY <2>1, <2>2 DEF RowInv, TypeOK, OwnTypes
<1>4. CASE row' = row
  BY <1>1, <1>3, <1>4, Advance DEF Points, OwnPoints, RowInv, TypeOK
<1>5. CASE row' # row
  <2>1. KeyFree("user", key, x) /\ row' = [row EXCEPT ![x].key = key]
    BY <1>5 DEF ContactWrite
  <2>2. row' = [row EXCEPT ![x] = new]
    BY <1>2, <2>1 DEF RowInv, TypeOK
  <2>3. new \in RowType /\ new.there /\ new.key = key /\ key # None
    BY <1>1, <1>2 DEF Given, RowType, RowInv, TypeOK
  <2>4. new.active => new.email # None
    BY <1>2 DEF RowType, RowInv, TypeOK
  <2>5. KeyFree(Table(x), new.key, x) /\ new.key # None
    BY <1>2, <2>1, <2>3
  <2> HIDE DEF new, key
  <2>6. QED
    BY <1>1, <1>2, <1>3, <2>2, <2>3, <2>4, <2>5, RowChange
<1>6. QED
  BY <1>4, <1>5

LEMMA RowKept == RowInv /\ [Next]_vars => RowInv'
<1> SUFFICES ASSUME RowInv, [Next]_vars PROVE RowInv'
  OBVIOUS
<1>1. CASE UNCHANGED vars
  BY <1>1 DEF vars, directoryVars, accountVars, RowInv, TypeOK, PlaceInv, KeysUnique
<1>2. ASSUME NEW r \in Requests, DirectoryNext(r), UNCHANGED accountVars PROVE RowInv'
  BY <1>2, CreateCheckRow, BranchCheckRow, InsertRow, FindOneRow, WriteRowKept,
     ActivateReadRow, EmailReadRow, SetPasswordRow DEF DirectoryNext
<1>3. ASSUME NEW r \in Requests, OwnNext(r) PROVE RowInv'
  BY <1>3, OwnReadsRow, OwnWritesRow, ContactWriteRow DEF OwnNext
<1>4. QED
  BY <1>1, <1>2, <1>3, AbortRow, ExpireCodeRow DEF Next

\* The rows, the calls under way and the codes have their types, and a call that is to
\* write has read a row that exists (every handler of users, clients, branches).
THEOREM RowsCorrect == Spec => []RowInv
BY RowInvInit, RowKept, PTL DEF Spec

\* Every variable has its type, whatever calls come together.
THEOREM TypeCorrect == Spec => []TypeOK
BY RowsCorrect, PTL DEF RowInv

\* No two users have one e-mail, no two clients one phone, no two branches one code,
\* removed rows included (create, update, updateContact, reactivate).
THEOREM KeysBelongToOne == Spec => []KeysUnique
BY RowsCorrect, PTL DEF RowInv

-----------------------------------------------------------------------------
(* Removals *)

LEMMA RemovalKept ==
  ASSUME RowInv, [Next]_vars, NEW x \in Requests, row[x].there, row'[x].live # row[x].live
  PROVE  \E r \in Requests : /\ pc[r] = "write" /\ pc'[r] = "over" /\ Op[r].target = x
                             /\ Kind(r) = IF row[x].live THEN "remove" ELSE "reactivate"
<1> USE DEF RowInv, TypeOK
<1>1. row' # row
  OBVIOUS
<1>2. PICK r \in Requests : Insert(r) \/ Write(r) \/ SetPassword(r) \/ ContactWrite(r)
  BY <1>1 DEF Next, vars, directoryVars, DirectoryNext, OwnNext, ExpireCode, Abort,
     CreateCheck, BranchCheck, FindOne, ActivateRead, EmailRead, ContactRead, SendRead,
     VerifyRead, GenerateRead, EnableRead, DisableRead, Reads, StoreCode, VerifyWrite,
     GenerateWrite, EnableWrite, DisableWrite, SetMfa
<1>3. ~Insert(r)
  BY DEF Insert, PlaceInv
<1>4. ~SetPassword(r)
  <2>1. row' = [row EXCEPT ![found[r]].email = Op[r].email, ![found[r]].active = TRUE]
        => row'[x].live = row[x].live
    OBVIOUS
  <2>2. QED
    BY <2>1 DEF SetPassword
<1>5. ~ContactWrite(r)
  <2>1. \A key : row' = [row EXCEPT ![User(r)].key = key] => row'[x].live = row[x].live
    OBVIOUS
  <2>2. ContactWrite(r) =>
          row' = row \/ \E key : row' = [row EXCEPT ![User(r)].key = key]
    BY DEF ContactWrite
  <2>3. QED
    BY <1>1, <2>1, <2>2
<1>6. Write(r)
  BY <1>2, <1>3, <1>4, <1>5
<1>7. /\ pc[r] = "write" /\ pc'[r] = "over" /\ Op[r].target = x
      /\ row'[x] = Changed(r, row[x])
  BY <1>1, <1>6 DEF Write, WriteRow
<1>8. Kind(r) = IF row[x].live THEN "remove" ELSE "reactivate"
  <2>1. Kind(r) \in {"update", "remove", "reactivate"} /\ row[x].live \in BOOLEAN
    BY <1>6 DEF Write
  <2>2. CASE Kind(r) = "update"
    <3>1. Changed(r, row[x]) = Renamed(r, row[x])
      BY <2>2 DEF Changed
    <3>2. Renamed(r, row[x]).live = row[x].live
      BY DEF Renamed
    <3>3. QED
      BY <1>7, <3>1, <3>2
  <2>3. CASE Kind(r) = "remove"
    <3>1. row'[x].live = FALSE
      BY <1>7, <2>3 DEF Changed
    <3>2. QED
      BY <2>1, <2>3, <3>1
  <2>4. CASE Kind(r) = "reactivate"
    <3>1. row'[x].live = TRUE
      BY <1>7, <2>4 DEF Changed
    <3>2. QED
      BY <2>1, <2>4, <3>1
  <2>5. QED
    BY <2>1, <2>2, <2>3, <2>4
<1>9. QED
  BY <1>7, <1>8

\* Only a removal removes a row and only a reactivation brings it back: what was under
\* way when it was removed leaves it removed (Changed, SetPassword, ContactWrite).
THEOREM RemovalsStay == Spec => RemovedStays
<1>1. RowInv /\ [Next]_vars =>
        [\A x \in Requests : row[x].there /\ row'[x].live # row[x].live =>
           \E r \in Requests : /\ pc[r] = "write" /\ pc'[r] = "over" /\ Op[r].target = x
                               /\ Kind(r) = IF row[x].live THEN "remove" ELSE "reactivate"
        ]_vars
  BY RemovalKept
<1>2. QED
  BY <1>1, RowsCorrect, PTL DEF Spec, RemovedStays

-----------------------------------------------------------------------------
(* Calls that overlap *)

\* Two calls whose overlap is recorded.
Crossing(r, s) == s \in Rivals(r) \/ (r \in Activations /\ s \in Activations \ {r})

\* Two such calls that are in flight have met, and only calls that began have.
MetInv ==
  /\ \A r, s \in Requests : Crossing(r, s) /\ InFlight(r) /\ InFlight(s) => {r, s} \in met
  /\ \A e \in met : \A r \in e : pc[r] # "idle"

LEMMA CrossingBothWays ==
  ASSUME NEW r \in Requests, NEW s \in Requests, Crossing(r, s)
  PROVE  Crossing(s, r) /\ {r, s} = {s, r} /\ r # s
<1>1. {r, s} = {s, r}
  OBVIOUS
<1>2. CASE s \in Rivals(r)
  <2>1. /\ s # r /\ Kind(s) \in OwnKinds /\ User(s) = User(r)
        /\ \/ Verifies(r) /\ (Verifies(s) \/ Sends(s))
           \/ Sends(r) /\ Verifies(s)
           \/ {Kind(r), Kind(s)} = {"enable", "disable"}
    BY <1>2 DEF Rivals
  <2>2. Kind(r) \in OwnKinds
    BY <2>1 DEF Verifies, Sends, OwnKinds
  <2>3. {Kind(r), Kind(s)} = {Kind(s), Kind(r)}
    OBVIOUS
  <2>4. r \in Rivals(s)
    BY <2>1, <2>2, <2>3 DEF Rivals
  <2>5. QED
    BY <1>1, <2>1, <2>4 DEF Crossing
<1>3. CASE r \in Activations /\ s \in Activations \ {r}
  BY <1>1, <1>3 DEF Crossing
<1>4. QED
  BY <1>2, <1>3 DEF Crossing

\* A call moves on; if it begins, it is recorded with those it crosses.
LEMMA MetMoves ==
  ASSUME RowInv, MetInv, NEW r \in Requests, NEW p \in Points, p # "idle", pc[r] # "over",
         pc' = [pc EXCEPT ![r] = p], met \subseteq met',
         \A e \in met' \ met : \A s \in e : s = r \/ (s \in Requests /\ InFlight(s)),
         pc[r] = "idle" /\ p # "over" =>
           \A s \in Requests : Crossing(r, s) /\ InFlight(s) => {r, s} \in met'
  PROVE  MetInv'
<1>1. pc'[r] = p /\ \A s \in Requests \ {r} : pc'[s] = pc[s]
  BY DEF RowInv, TypeOK
<1>2. ASSUME NEW a \in Requests, NEW b \in Requests, Crossing(a, b), InFlight(a)', InFlight(b)'
      PROVE  {a, b} \in met'
  <2>1. CASE a # r /\ b # r
    BY <1>1, <1>2, <2>1 DEF InFlight, MetInv
  <2>2. ASSUME NEW s \in Requests, s # r, Crossing(r, s), InFlight(r)', InFlight(s)'
        PROVE  {r, s} \in met'
    <3>1. InFlight(s) /\ p # "over"
      BY <1>1, <2>2 DEF InFlight
    <3>2. CASE pc[r] = "idle"
      BY <2>2, <3>1, <3>2
    <3>3. CASE pc[r] # "idle"
      BY <2>2, <3>1, <3>3 DEF InFlight, MetInv
    <3>4. QED
      BY <3>2, <3>3
  <2>3. CASE a = r
    BY <1>2, <2>2, <2>3, CrossingBothWays
  <2>4. CASE b = r
    BY <1>2, <2>2, <2>4, CrossingBothWays
  <2>5. QED
    BY <2>1, <2>3, <2>4
<1>3. ASSUME NEW e \in met', NEW s \in e PROVE pc'[s] # "idle"
  <2>1. s \in Requests
    BY <1>3 DEF RowInv, TypeOK
  <2>2. CASE e \in met
    BY <1>1, <2>1, <2>2 DEF MetInv
  <2>3. CASE e \notin met
    BY <1>1, <2>1, <2>3 DEF InFlight
  <2>4. QED
    BY <2>2, <2>3
<1>4. QED
  BY <1>2, <1>3 DEF MetInv

\* What Meets records.
LEMMA MeetsNew ==
  ASSUME NEW r, NEW others, Meets(r, others)
  PROVE  \A e \in met' \ met : \A s \in e : s = r \/ (s \in others /\ InFlight(s))
BY DEF Meets

LEMMA MetKept == RowInv /\ MetInv /\ [Next]_vars => MetInv' /\ met \subseteq met'
<1> SUFFICES ASSUME RowInv, MetInv, [Next]_vars PROVE MetInv' /\ met \subseteq met'
  OBVIOUS
<1>1. CASE UNCHANGED <<pc, met>>
  BY <1>1 DEF MetInv, InFlight
<1>2. ASSUME NEW r \in Requests, NEW p \in Points, p # "idle", pc' = [pc EXCEPT ![r] = p],
             met' = met, pc[r] \notin {"idle", "over"} \/ p = "over" \/ r \notin Activations,
             pc[r] \notin {"idle", "over"} \/ p = "over" \/ Kind(r) \notin OwnKinds,
             pc[r] # "over"
      PROVE  MetInv' /\ met \subseteq met'
  <2>1. \A s : Crossing(r, s) => r \in Activations \/ Kind(r) \in OwnKinds
    BY DEF Crossing, Rivals, Verifies, Sends, OwnKinds
  <2>2. QED
    BY <1>2, <2>1, MetMoves
<1>3. ASSUME NEW r \in Requests, NEW others \in SUBSET Requests, NEW p \in Points,
             pc[r] = "idle", p # "idle", pc' = [pc EXCEPT ![r] = p], Meets(r, others),
             \A s : Crossing(r, s) => s \in others
      PROVE  MetInv' /\ met \subseteq met'
  <2>1. met \subseteq met' /\ \A s \in others : InFlight(s) => {r, s} \in met'
    BY <1>3, Meeting
  <2>2. \A e \in met' \ met : \A s \in e : s = r \/ (s \in Requests /\ InFlight(s))
    BY <1>3, MeetsNew
  <2>3. QED
    BY <1>3, <2>1, <2>2, MetMoves
<1>4. ASSUME NEW r \in Requests, FindOne(r) PROVE MetInv' /\ met \subseteq met'
  <2>1. /\ pc[r] = "idle" /\ Kind(r) \in RowKinds
        /\ \E p \in {"write", "over"} : pc' = [pc EXCEPT ![r] = p]
        /\ met' = met \/ met' = met \cup {{r}}
    BY <1>4 DEF FindOne, RowKinds
  <2>2. \A s : ~Crossing(r, s)
    BY <2>1 DEF Crossing, Rivals, Activations, Verifies, Sends, OwnKinds, RowKinds
  <2>3. QED
    BY <2>1, <2>2, MetMoves DEF Points
<1>5. ASSUME NEW r \in Requests, ActivateRead(r) PROVE MetInv' /\ met \subseteq met'
  <2>1. Kind(r) = "activate" /\ pc[r] = "idle" /\ r \in Activations
    BY <1>5 DEF ActivateRead, Activations
  <2>2. CASE pc' = [pc EXCEPT ![r] = "over"] /\ met' = met
    BY <1>2, <2>1, <2>2 DEF Points
  <2>3. CASE pc' = [pc EXCEPT ![r] = "email"] /\ Meets(r, Activations \ {r})
    <3>1. Activations \ {r} \in SUBSET Requests
      BY DEF Activations
    <3>2. \A s : Crossing(r, s) => s \in Activations \ {r}
      BY <2>1 DEF Crossing, Rivals, Verifies, Sends, OwnKinds
    <3>3. QED
      BY <1>3, <2>1, <2>3, <3>1, <3>2 DEF Points
  <2>4. QED
    BY <1>5, <2>2, <2>3 DEF ActivateRead
<1>6. ASSUME NEW r \in Requests, NEW kind \in OwnKinds, NEW cond \in BOOLEAN,
             NEW next \in OwnPoints, Reads(r, kind, cond, next)
      PROVE  MetInv' /\ met \subseteq met'
  <2>1. pc[r] = "idle" /\ Kind(r) = kind
    BY <1>6 DEF Reads, Begins
  <2>2. CASE ~cond
    <3>1. pc' = [pc EXCEPT ![r] = "over"] /\ met' = met
      BY <1>6, <2>2 DEF Reads
    <3>2. QED
      BY <1>2, <2>1, <3>1 DEF Points
  <2>3. CASE cond
    <3>1. pc' = [pc EXCEPT ![r] = next] /\ Meets(r, Rivals(r))
      BY <1>6, <2>3 DEF Reads
    <3>2. \A s : Crossing(r, s) => s \in Rivals(r)
      BY <2>1 DEF Crossing, Activations, OwnKinds
    <3>3. QED
      BY <1>3, <2>1, <3>1, <3>2, RivalsAreCalls DEF Points, OwnPoints
  <2>4. QED
    BY <2>2, <2>3
<1>7. ASSUME NEW r \in Requests, OwnNext(r) PROVE MetInv' /\ met \subseteq met'
  <2>1. CASE \/ ContactWrite(r) \/ StoreCode(r) \/ VerifyWrite(r)
             \/ GenerateWrite(r) \/ EnableWrite(r) \/ DisableWrite(r)
    <3>1. pc[r] \notin {"idle", "over"} /\ pc' = [pc EXCEPT ![r] = "over"] /\ met' = met
      BY <2>1 DEF ContactWrite, StoreCode, VerifyWrite, GenerateWrite, EnableWrite,
         DisableWrite, SetMfa
    <3>2. QED
      BY <1>2, <3>1 DEF Points
  <2>2. CASE \/ ContactRead(r) \/ SendRead(r) \/ GenerateRead(r)
    BY <1>6, <2>2 DEF ContactRead, SendRead, GenerateRead, OwnKinds, OwnPoints
  <2>3. CASE VerifyRead(r) \/ EnableRead(r) \/ DisableRead(r)
    <3>1. Matches(r) \in BOOLEAN /\ Proves(r) \in BOOLEAN
      BY DEF Matches, Proves
    <3>2. QED
      BY <1>6, <2>3, <3>1 DEF VerifyRead, EnableRead, DisableRead, OwnKinds, OwnPoints
  <2>4. QED
    BY <1>7, <2>1, <2>2, <2>3 DEF OwnNext
<1>8. ASSUME NEW r \in Requests,
             \/ CreateCheck(r) \/ BranchCheck(r) \/ Insert(r) \/ Write(r) \/ EmailRead(r)
             \/ SetPassword(r) \/ Abort(r)
      PROVE  MetInv' /\ met \subseteq met'
  <2>1. /\ pc[r] # "over" /\ met' = met
        /\ \E p \in {"branch", "insert", "password", "over"} : pc' = [pc EXCEPT ![r] = p]
    BY <1>8 DEF CreateCheck, BranchCheck, Insert, Write, EmailRead, SetPassword, Abort, InFlight
  <2>2. \/ pc[r] # "idle" \/ Kind(r) = "create"
    BY <1>8 DEF CreateCheck, BranchCheck, Insert, Write, EmailRead, SetPassword, Abort, InFlight
  <2>3. Kind(r) = "create" => r \notin Activations /\ Kind(r) \notin OwnKinds
    BY DEF Activations, OwnKinds
  <2>4. QED
    BY <1>2, <2>1, <2>2, <2>3 DEF Points
<1>9. QED
  BY <1>1, <1>4, <1>5, <1>7, <1>8
     DEF Next, DirectoryNext, ExpireCode, vars, directoryVars

LEMMA MetInit == Init => MetInv
BY DEF Init, DirectoryInit, MetInv, InFlight

-----------------------------------------------------------------------------
(* One's own account *)

\* A second factor that is on has a secret, or an enabling and a disabling met.
Proven(x) ==
  \/ secret[x] # None
  \/ \E r, s \in Requests : /\ Kind(r) = "enable" /\ Kind(s) = "disable"
                            /\ User(r) = x /\ User(s) = x /\ {r, s} \in met

\* Which call is at which statement.
CallInv ==
  \A r \in Requests : /\ pc[r] = "code" => Sends(r)
                      /\ pc[r] = "verify" => Verifies(r)
                      /\ pc[r] = "on" => Kind(r) = "enable"
                      /\ pc[r] = "off" => Kind(r) = "disable"

SecretInv ==
  \A x \in Requests : /\ mfa[x] => Proven(x)
                      /\ \A r \in Requests : pc[r] = "on" /\ User(r) = x => Proven(x)

LEMMA CallMoves ==
  ASSUME RowInv, CallInv, NEW r \in Requests, NEW p, pc' = [pc EXCEPT ![r] = p],
         p = "code" => Sends(r), p = "verify" => Verifies(r),
         p = "on" => Kind(r) = "enable", p = "off" => Kind(r) = "disable"
  PROVE  CallInv'
BY DEF RowInv, TypeOK, CallInv, Sends, Verifies

LEMMA CallKept == RowInv /\ CallInv /\ [Next]_vars => CallInv'
<1> SUFFICES ASSUME RowInv, CallInv, [Next]_vars PROVE CallInv'
  OBVIOUS
<1>1. CASE UNCHANGED pc
  BY <1>1 DEF CallInv, Sends, Verifies
<1>2. ASSUME NEW r \in Requests, DirectoryNext(r) \/ Abort(r) PROVE CallInv'
  <2>1. \E p \in {"branch", "insert", "write", "email", "password", "over"} :
          pc' = [pc EXCEPT ![r] = p]
    BY <1>2 DEF DirectoryNext, CreateCheck, BranchCheck, Insert, FindOne, Write,
       ActivateRead, EmailRead, SetPassword, Abort
  <2>2. QED
    BY <2>1, CallMoves
<1>3. ASSUME NEW r \in Requests, OwnNext(r) PROVE CallInv'
  <2>1. \/ \E p \in {"contact", "secret", "over"} : pc' = [pc EXCEPT ![r] = p]
        \/ pc' = [pc EXCEPT ![r] = "code"] /\ Sends(r)
        \/ pc' = [pc EXCEPT ![r] = "verify"] /\ Verifies(r)
        \/ pc' = [pc EXCEPT ![r] = "on"] /\ Kind(r) = "enable"
        \/ pc' = [pc EXCEPT ![r] = "off"] /\ Kind(r) = "disable"
    BY <1>3 DEF OwnNext, ContactRead, ContactWrite, SendRead, StoreCode, VerifyRead, VerifyWrite,
       GenerateRead, GenerateWrite, EnableRead, EnableWrite, DisableRead, DisableWrite, SetMfa,
       Reads, Begins, Sends, Verifies
  <2>2. QED
    BY <2>1, CallMoves
<1>4. QED
  BY <1>1, <1>2, <1>3 DEF Next, vars, directoryVars, ExpireCode

\* What is proven stays so when the secret stays: calls that met have met.
LEMMA ProvenStays ==
  ASSUME NEW x \in Requests, Proven(x), secret'[x] = secret[x], met \subseteq met'
  PROVE  Proven(x)'
BY DEF Proven

\* A step that leaves the second factor alone.
LEMMA SecretMoves ==
  ASSUME RowInv, SecretInv, NEW r \in Requests, NEW p, pc' = [pc EXCEPT ![r] = p],
         UNCHANGED <<secret, mfa>>, met \subseteq met', p = "on" => Proven(User(r))
  PROVE  SecretInv'
<1>1. pc'[r] = p /\ \A s \in Requests \ {r} : pc'[s] = pc[s]
  BY DEF RowInv, TypeOK
<1>2. ASSUME NEW x \in Requests, Proven(x) PROVE Proven(x)'
  BY <1>2, ProvenStays
<1>3. QED
  BY <1>1, <1>2 DEF SecretInv

\* The three writes: what others have read holds on, or they met the call that writes.
LEMMA SetMfaKept ==
  ASSUME RowInv, MetInv, CallInv, SecretInv, NEW r \in Requests, NEW x \in Requests,
         User(r) = x, InFlight(r), NEW s \in Requests \cup {None}, met' = met,
         pc' = [pc EXCEPT ![r] = "over"], secret' = [secret EXCEPT ![x] = s],
         \A y \in Requests \ {x} : mfa'[y] = mfa[y],
         \/ s # None
         \/ s = secret[x] /\ Proven(x)
         \/ Kind(r) = "disable" /\ ~mfa'[x]
  PROVE  SecretInv'
<1>1. /\ pc'[r] = "over" /\ \A t \in Requests \ {r} : pc'[t] = pc[t]
      /\ secret'[x] = s /\ \A y \in Requests \ {x} : secret'[y] = secret[y]
  BY DEF RowInv, TypeOK
<1>2. ASSUME NEW y \in Requests \ {x}
      PROVE  /\ mfa'[y] => Proven(y)'
             /\ \A t \in Requests : pc'[t] = "on" /\ User(t) = y => Proven(y)'
  <2>1. Proven(y) => Proven(y)'
    BY <1>1, ProvenStays
  <2>2. QED
    BY <1>1, <2>1 DEF SecretInv
<1>3. CASE s # None
  <2>1. Proven(x)'
    BY <1>1, <1>3 DEF Proven
  <2>2. QED
    BY <1>2, <2>1 DEF SecretInv
<1>4. CASE s = secret[x] /\ Proven(x)
  <2>1. Proven(x)'
    BY <1>1, <1>4, ProvenStays
  <2>2. QED
    BY <1>2, <2>1 DEF SecretInv
<1>5. CASE Kind(r) = "disable" /\ ~mfa'[x]
  <2>1. ASSUME NEW t \in Requests, pc'[t] = "on", User(t) = x PROVE Proven(x)'
    <3>1. t # r /\ pc[t] = "on" /\ Kind(t) = "enable" /\ InFlight(t)
      BY <1>1, <2>1 DEF CallInv, InFlight
    <3>2. Crossing(t, r)
      BY <1>5, <2>1, <3>1 DEF Crossing, Rivals, OwnKinds
    <3>3. {t, r} \in met'
      BY <1>1, <3>1, <3>2 DEF MetInv
    <3>4. QED
      BY <1>5, <2>1, <3>1, <3>3 DEF Proven
  <2>2. QED
    BY <1>1, <1>2, <1>5, <2>1 DEF SecretInv
<1>6. QED
  BY <1>3, <1>4, <1>5

LEMMA SecretKept == RowInv /\ MetInv /\ CallInv /\ SecretInv /\ [Next]_vars => SecretInv'
<1> SUFFICES ASSUME RowInv, MetInv, CallInv, SecretInv, [Next]_vars PROVE SecretInv'
  OBVIOUS
<1>1. met \subseteq met'
  BY MetKept
<1>2. CASE UNCHANGED <<pc, secret, mfa>>
  BY <1>1, <1>2, ProvenStays DEF SecretInv
<1>3. ASSUME NEW r \in Requests, DirectoryNext(r), UNCHANGED accountVars PROVE SecretInv'
  <2>1. \E p \in {"branch", "insert", "write", "email", "password", "over"} :
          pc' = [pc EXCEPT ![r] = p]
    BY <1>3 DEF DirectoryNext, CreateCheck, BranchCheck, Insert, FindOne, Write,
       ActivateRead, EmailRead, SetPassword
  <2>2. QED
    BY <1>1, <1>3, <2>1, SecretMoves DEF accountVars
<1>4. ASSUME NEW r \in Requests,
             \/ ContactRead(r) \/ ContactWrite(r) \/ SendRead(r) \/ StoreCode(r)
             \/ VerifyRead(r) \/ VerifyWrite(r) \/ GenerateRead(r) \/ DisableRead(r)
             \/ Abort(r)
      PROVE  SecretInv'
  <2>1. /\ UNCHANGED <<secret, mfa>>
        /\ \E p \in {"contact", "code", "verify", "secret", "off", "over"} :
             pc' = [pc EXCEPT ![r] = p]
    BY <1>4 DEF ContactRead, ContactWrite, SendRead, StoreCode, VerifyRead, VerifyWrite,
       GenerateRead, DisableRead, Abort, Reads, accountVars
  <2>2. QED
    BY <1>1, <2>1, SecretMoves
<1>5. ASSUME NEW r \in Requests, EnableRead(r) PROVE SecretInv'
  <2>1. /\ UNCHANGED <<secret, mfa>>
        /\ pc' = [pc EXCEPT ![r] = IF Proves(r) THEN "on" ELSE "over"]
    BY <1>5 DEF EnableRead, Reads, accountVars
  <2>2. Proves(r) => Proven(User(r))
    BY DEF Proves, Proven
  <2>3. QED
    BY <1>1, <2>1, <2>2, SecretMoves
<1>6. ASSUME NEW r \in Requests, GenerateWrite(r) \/ EnableWrite(r) \/ DisableWrite(r)
      PROVE  SecretInv'
  <2>1. pc[r] \in OwnPoints /\ User(r) \in Requests /\ r # None /\ InFlight(r)
    BY <1>6, AccountsAssumption, DirectoryAssumption
       DEF GenerateWrite, EnableWrite, DisableWrite, RowInv, PlaceInv, OwnPoints, InFlight
  <2>2. secret[User(r)] \in Requests \cup {None}
    BY <2>1 DEF RowInv, TypeOK
  <2>3. CASE GenerateWrite(r)
    <3>1. /\ secret' = [secret EXCEPT ![User(r)] = r] /\ pc' = [pc EXCEPT ![r] = "over"]
          /\ met' = met /\ \A y \in Requests \ {User(r)} : mfa'[y] = mfa[y]
      BY <2>1, <2>3 DEF GenerateWrite, SetMfa, RowInv, TypeOK
    <3>2. QED
      BY <2>1, <3>1, SetMfaKept
  <2>4. CASE EnableWrite(r)
    <3>1. /\ secret' = [secret EXCEPT ![User(r)] = secret[User(r)]]
          /\ pc' = [pc EXCEPT ![r] = "over"]
          /\ met' = met /\ \A y \in Requests \ {User(r)} : mfa'[y] = mfa[y]
      BY <2>1, <2>4 DEF EnableWrite, SetMfa, RowInv, TypeOK
    <3>2. Proven(User(r))
      BY <2>1, <2>4 DEF EnableWrite, SecretInv
    <3>3. QED
      BY <2>1, <2>2, <3>1, <3>2, SetMfaKept
  <2>5. CASE DisableWrite(r)
    <3>1. /\ secret' = [secret EXCEPT ![User(r)] = None] /\ pc' = [pc EXCEPT ![r] = "over"]
          /\ met' = met /\ ~mfa'[User(r)]
          /\ \A y \in Requests \ {User(r)} : mfa'[y] = mfa[y]
      BY <2>1, <2>5 DEF DisableWrite, AfterDisable, SetMfa, RowInv, TypeOK
    <3>2. Kind(r) = "disable"
      BY <2>5 DEF DisableWrite, CallInv
    <3>3. QED
      BY <2>1, <3>1, <3>2, SetMfaKept
  <2>6. QED
    BY <1>6, <2>3, <2>4, <2>5
<1>7. QED
  BY <1>2, <1>3, <1>4, <1>5, <1>6
     DEF Next, OwnNext, ExpireCode, vars, directoryVars, accountVars

\* A login that asks for a code finds a secret to check it with, unless an enabling and
\* a disabling of the second factor of its user overlapped (generateMfaSecret, enableMfa,
\* disableMfa).
THEOREM SecondFactorHasSecret == Spec => []MfaHasSecret
<1>1. Init => CallInv /\ SecretInv
  BY DEF Init, DirectoryInit, CallInv, SecretInv
<1>2. SecretInv => MfaHasSecret
  BY DEF SecretInv, Proven, MfaHasSecret
<1>3. QED
  BY <1>1, <1>2, MetInit, MetKept, CallKept, SecretKept, RowsCorrect, PTL DEF Spec

\* What became of a call's answer about the code it was given: the code that is stored
\* with its user is still that one, or none, or one whose sending it met; and a call
\* that has used the code since met it.
Fresh(r) ==
  /\ pc[Op[r].presents] = "over" /\ User(Op[r].presents) = User(r)
  /\ code[User(r)] \in {None, Op[r].presents} \/ {r, code[User(r)]} \in met
  /\ \A a \in accepted : a[1] = Op[r].presents => {r, a[2]} \in met

\* Why the last code of a user is no longer stored.
Accounted(x) ==
  \/ latest[x] \in {None, code[x]} \cup {a[1] : a \in accepted}
  \/ \E v \in Requests : Verifies(v) /\ User(v) = x /\ {v, latest[x]} \in met

CodeInv ==
  /\ \A r \in Requests : pc[r] = "verify" => Fresh(r)
  /\ \A x \in Requests :
       code[x] # None => pc[code[x]] = "over" /\ User(code[x]) = x /\ Sends(code[x])
  /\ \A a \in accepted : /\ pc[a[1]] = "over" /\ User(a[1]) = User(a[2])
                         /\ \A x \in Requests : code[x] # a[1]
  /\ \A x \in Requests : Accounted(x)
  /\ \A a, b \in accepted : a[1] = b[1] => a = b \/ {a[2], b[2]} \in met

LEMMA CodeInit == Init => CodeInv
BY DEF Init, DirectoryInit, CodeInv, Accounted

\* A step that leaves the codes alone.
LEMMA CodeMoves ==
  ASSUME RowInv, CodeInv, NEW r \in Requests, NEW p, pc[r] # "over",
         pc' = [pc EXCEPT ![r] = p], UNCHANGED <<code, latest, accepted>>, met \subseteq met',
         p = "verify" => Fresh(r)
  PROVE  CodeInv'
<1>1. /\ pc'[r] = p /\ \A s \in Requests \ {r} : pc'[s] = pc[s]
      /\ \A s \in Requests : pc[s] = "over" => pc'[s] = "over"
  BY DEF RowInv, TypeOK
<1>2. /\ accepted \subseteq Requests \X Requests
      /\ \A x \in Requests : code[x] \in Requests \cup {None}
  BY DEF RowInv, TypeOK
<1>3. ASSUME NEW s \in Requests, pc'[s] = "verify" PROVE Fresh(s)'
  <2>1. Fresh(s) /\ (pc[s] = "verify" => Op[s].presents \in Requests)
    BY <1>1, <1>3 DEF CodeInv, RowInv, PlaceInv
  <2>2. pc[Op[s].presents]' = "over"
    BY <1>1, <2>1 DEF Fresh
  <2>3. QED
    BY <2>1, <2>2 DEF Fresh
<1>4. \A x \in Requests : code[x] # None => pc'[code[x]] = "over"
  BY <1>1, <1>2 DEF CodeInv
<1>5. \A a \in accepted : pc'[a[1]] = "over"
  BY <1>1, <1>2 DEF CodeInv
<1>6. \A x \in Requests : Accounted(x)'
  BY DEF CodeInv, Accounted
<1>7. QED
  BY <1>3, <1>4, <1>5, <1>6 DEF CodeInv, Sends

LEMMA VerifyReadKept ==
  ASSUME RowInv, CodeInv, NEW r \in Requests, VerifyRead(r), met \subseteq met' PROVE CodeInv'
<1>1. /\ pc[r] = "idle" /\ Kind(r) \in OwnKinds /\ UNCHANGED <<code, latest, accepted>>
      /\ pc' = [pc EXCEPT ![r] = IF Matches(r) THEN "verify" ELSE "over"]
  BY DEF VerifyRead, Reads, Begins, accountVars, OwnKinds
<1>2. User(r) \in Requests
  BY <1>1, AccountsAssumption
<1>3. Matches(r) => Fresh(r)
  BY <1>2 DEF Matches, Fresh, CodeInv
<1>4. QED
  BY <1>1, <1>3, CodeMoves

LEMMA StoreCodeKept ==
  ASSUME RowInv, MetInv, CallInv, CodeInv, NEW r \in Requests, StoreCode(r) PROVE CodeInv'
<1> DEFINE x == User(r)
<1>1. /\ pc[r] = "code" /\ pc' = [pc EXCEPT ![r] = "over"] /\ UNCHANGED <<met, accepted>>
      /\ code' = [code EXCEPT ![x] = r] /\ latest' = [latest EXCEPT ![x] = r]
  BY DEF StoreCode
<1>2. x \in Requests /\ r # None /\ Sends(r) /\ InFlight(r) /\ Kind(r) \in OwnKinds
  BY <1>1, AccountsAssumption, DirectoryAssumption
     DEF RowInv, PlaceInv, OwnPoints, CallInv, InFlight
<1>3. /\ pc'[r] = "over" /\ \A s \in Requests \ {r} : pc'[s] = pc[s]
      /\ \A s \in Requests : pc[s] = "over" => pc'[s] = "over"
  BY <1>1 DEF RowInv, TypeOK
<1>4. /\ code'[x] = r /\ latest'[x] = r
      /\ \A y \in Requests \ {x} : code'[y] = code[y] /\ latest'[y] = latest[y]
  BY <1>1, <1>2 DEF RowInv, TypeOK
<1>5. /\ accepted \subseteq Requests \X Requests
      /\ \A y \in Requests : code[y] \in Requests \cup {None}
  BY DEF RowInv, TypeOK
<1>6. ASSUME NEW s \in Requests, pc'[s] = "verify" PROVE Fresh(s)'
  <2>1. /\ s # r /\ pc[s] = "verify" /\ Fresh(s) /\ Verifies(s) /\ InFlight(s)
        /\ Op[s].presents \in Requests /\ Kind(s) \in OwnKinds
    BY <1>3, <1>6 DEF CodeInv, CallInv, RowInv, PlaceInv, InFlight, OwnPoints
  <2>2. User(s) \in Requests
    BY <2>1, AccountsAssumption
  <2>3. pc'[Op[s].presents] = "over" /\ User(Op[s].presents) = User(s)
    BY <1>3, <2>1 DEF Fresh
  <2>4. code'[User(s)] \in {None, Op[s].presents} \/ {s, code'[User(s)]} \in met
    <3>1. CASE User(s) # x
      BY <1>4, <2>1, <2>2, <3>1 DEF Fresh
    <3>2. CASE User(s) = x
      <4>1. Crossing(s, r)
        BY <1>2, <2>1, <3>2 DEF Crossing, Rivals
      <4>2. {s, r} \in met
        BY <1>2, <2>1, <4>1 DEF MetInv
      <4>3. QED
        BY <1>4, <3>2, <4>2
    <3>3. QED
      BY <3>1, <3>2
  <2>5. QED
    BY <1>1, <2>1, <2>3, <2>4 DEF Fresh
<1>7. \A y \in Requests :
        code'[y] # None => pc'[code'[y]] = "over" /\ User(code'[y]) = y /\ Sends(code'[y])
  <2>1. SUFFICES ASSUME NEW y \in Requests, code'[y] # None
                 PROVE  pc'[code'[y]] = "over" /\ User(code'[y]) = y /\ Sends(code'[y])
    OBVIOUS
  <2>2. CASE y = x
    BY <1>2, <1>3, <1>4, <2>2
  <2>3. CASE y # x
    BY <1>3, <1>4, <1>5, <2>1, <2>3 DEF CodeInv
  <2>4. QED
    BY <2>2, <2>3
<1>8. \A a \in accepted : /\ pc'[a[1]] = "over" /\ User(a[1]) = User(a[2])
                          /\ \A y \in Requests : code'[y] # a[1]
  <2>1. SUFFICES ASSUME NEW a \in accepted
                 PROVE  /\ pc'[a[1]] = "over" /\ User(a[1]) = User(a[2])
                        /\ \A y \in Requests : code'[y] # a[1]
    OBVIOUS
  <2>2. /\ pc[a[1]] = "over" /\ User(a[1]) = User(a[2]) /\ a[1] \in Requests
        /\ \A y \in Requests : code[y] # a[1]
    BY <1>5 DEF CodeInv
  <2>3. a[1] # r
    BY <1>1, <2>2
  <2>4. pc'[a[1]] = "over"
    BY <1>3, <2>2
  <2>5. \A y \in Requests : code'[y] # a[1]
    BY <1>4, <2>2, <2>3
  <2>6. QED
    BY <2>2, <2>4, <2>5
<1>9. ASSUME NEW y \in Requests PROVE Accounted(y)'
  <2>1. CASE y = x
    BY <1>4, <2>1 DEF Accounted
  <2>2. CASE y # x
    <3>1. Accounted(y)
      BY DEF CodeInv
    <3>2. QED
      BY <1>1, <1>4, <2>2, <3>1 DEF Accounted, Verifies
  <2>3. QED
    BY <2>1, <2>2
<1>10. QED
  BY <1>1, <1>6, <1>7, <1>8, <1>9 DEF CodeInv, Sends

LEMMA VerifyWriteKept ==
  ASSUME RowInv, MetInv, CallInv, CodeInv, NEW r \in Requests, VerifyWrite(r) PROVE CodeInv'
<1> DEFINE x == User(r)
           c == Op[r].presents
<1>1. /\ pc[r] = "verify" /\ pc' = [pc EXCEPT ![r] = "over"] /\ UNCHANGED <<met, latest>>
      /\ code' = [code EXCEPT ![x] = None] /\ accepted' = accepted \cup {<<c, r>>}
  BY DEF VerifyWrite, ClearCode
<1>2. /\ x \in Requests /\ c \in Requests /\ c # None /\ Verifies(r) /\ InFlight(r)
      /\ Kind(r) \in OwnKinds /\ Fresh(r)
  BY <1>1, AccountsAssumption, DirectoryAssumption
     DEF RowInv, PlaceInv, OwnPoints, CallInv, CodeInv, InFlight
<1>3. /\ pc'[r] = "over" /\ \A s \in Requests \ {r} : pc'[s] = pc[s]
      /\ \A s \in Requests : pc[s] = "over" => pc'[s] = "over"
  BY <1>1 DEF RowInv, TypeOK
<1>4. code'[x] = None /\ \A y \in Requests \ {x} : code'[y] = code[y]
  BY <1>1, <1>2 DEF RowInv, TypeOK
<1>5. /\ accepted \subseteq Requests \X Requests
      /\ \A y \in Requests : code[y] \in Requests \cup {None}
  BY DEF RowInv, TypeOK
<1>6. ASSUME NEW s \in Requests, pc'[s] = "verify" PROVE Fresh(s)'
  <2>1. /\ s # r /\ pc[s] = "verify" /\ Fresh(s) /\ Verifies(s) /\ InFlight(s)
        /\ Op[s].presents \in Requests /\ Kind(s) \in OwnKinds
    BY <1>3, <1>6 DEF CodeInv, CallInv, RowInv, PlaceInv, InFlight, OwnPoints
  <2>2. User(s) \in Requests
    BY <2>1, AccountsAssumption
  <2>3. pc'[Op[s].presents] = "over" /\ User(Op[s].presents) = User(s)
    BY <1>3, <2>1 DEF Fresh
  <2>4. code'[User(s)] \in {None, Op[s].presents} \/ {s, code'[User(s)]} \in met
    BY <1>4, <2>1, <2>2 DEF Fresh
  <2>5. c = Op[s].presents => {s, r} \in met
    <3>1. SUFFICES ASSUME c = Op[s].presents PROVE {s, r} \in met
      OBVIOUS
    <3>2. User(s) = x
      BY <1>2, <2>1, <3>1 DEF Fresh
    <3>3. Crossing(s, r)
      BY <1>2, <2>1, <3>2 DEF Crossing, Rivals
    <3>4. QED
      BY <1>2, <2>1, <3>3 DEF MetInv
  <2>6. \A a \in accepted' : a[1] = Op[s].presents => {s, a[2]} \in met
    <3>1. <<c, r>>[1] = c /\ <<c, r>>[2] = r
      OBVIOUS
    <3>2. QED
      BY <1>1, <2>1, <2>5, <3>1 DEF Fresh
  <2>7. QED
    BY <1>1, <2>3, <2>4, <2>6 DEF Fresh
<1>7. \A y \in Requests :
        code'[y] # None => pc'[code'[y]] = "over" /\ User(code'[y]) = y /\ Sends(code'[y])
  BY <1>3, <1>4, <1>5 DEF CodeInv
<1>8. \A a \in accepted' : /\ pc'[a[1]] = "over" /\ User(a[1]) = User(a[2])
                           /\ \A y \in Requests : code'[y] # a[1]
  <2>1. ASSUME NEW a \in accepted
        PROVE  /\ pc'[a[1]] = "over" /\ User(a[1]) = User(a[2])
               /\ \A y \in Requests : code'[y] # a[1]
    <3>1. a[1] \in Requests /\ a[1] # None
      BY <1>5, DirectoryAssumption
    <3>2. QED
      BY <1>3, <1>4, <3>1 DEF CodeInv
  <2>2. pc'[c] = "over" /\ User(c) = x
    BY <1>2, <1>3 DEF Fresh
  <2>3. \A y \in Requests : code'[y] # c
    BY <1>2, <1>4, <2>2 DEF CodeInv
  <2>4. QED
    BY <1>1, <2>1, <2>2, <2>3
<1>9. ASSUME NEW y \in Requests PROVE Accounted(y)'
  <2>1. CASE \/ \E a \in accepted : latest[y] = a[1]
             \/ \E v \in Requests : Verifies(v) /\ User(v) = y /\ {v, latest[y]} \in met
    BY <1>1, <2>1 DEF Accounted, Verifies
  <2>2. CASE latest[y] \in {None, code[y]} /\ y # x
    BY <1>1, <1>4, <2>2 DEF Accounted
  <2>3. CASE latest[y] \in {None, code[y]} /\ y = x
    <3>1. CASE latest[y] = None
      BY <1>1, <3>1 DEF Accounted
    <3>2. CASE latest[y] = c
      <4>1. <<c, r>> \in accepted' /\ <<c, r>>[1] = c
        BY <1>1
      <4>2. QED
        BY <1>1, <3>2, <4>1 DEF Accounted
    <3>3. CASE {r, latest[y]} \in met
      BY <1>1, <1>2, <2>3, <3>3 DEF Accounted, Verifies
    <3>4. QED
      BY <1>2, <2>3, <3>1, <3>2, <3>3 DEF Fresh
  <2>4. Accounted(y)
    BY DEF CodeInv
  <2>5. QED
    BY <2>1, <2>2, <2>3, <2>4 DEF Accounted
<1>10. ASSUME NEW a \in accepted', NEW b \in accepted', a[1] = b[1]
       PROVE  a = b \/ {a[2], b[2]} \in met
  <2>1. ASSUME NEW d \in accepted, d[1] = c PROVE {r, d[2]} \in met
    BY <1>2, <2>1 DEF Fresh
  <2>2. <<c, r>>[1] = c /\ <<c, r>>[2] = r /\ \A s : {r, s} = {s, r}
    OBVIOUS
  <2>3. CASE a \in accepted /\ b \in accepted
    BY <1>10, <2>3 DEF CodeInv
  <2>4. CASE a = <<c, r>> /\ b \in accepted
    BY <1>10, <2>1, <2>2, <2>4
  <2>5. CASE a \in accepted /\ b = <<c, r>>
    BY <1>10, <2>1, <2>2, <2>5
  <2>6. QED
    BY <1>1, <2>3, <2>4, <2>5
<1>11. QED
  BY <1>1, <1>6, <1>7, <1>8, <1>9, <1>10 DEF CodeInv, Sends

LEMMA CodeKept == RowInv /\ MetInv /\ CallInv /\ CodeInv /\ [Next]_vars => CodeInv'
<1> SUFFICES ASSUME RowInv, MetInv, CallInv, CodeInv, [Next]_vars PROVE CodeInv'
  OBVIOUS
<1>1. met \subseteq met'
  BY MetKept
<1>2. CASE UNCHANGED <<pc, code, latest, accepted>>
  <2>1. \A r \in Requests : Fresh(r) => Fresh(r)'
    BY <1>1, <1>2 DEF Fresh
  <2>2. \A x \in Requests : Accounted(x) => Accounted(x)'
    BY <1>1, <1>2 DEF Accounted, Verifies
  <2>3. QED
    BY <1>1, <1>2, <2>1, <2>2 DEF CodeInv, Sends
<1>3. ASSUME NEW r \in Requests, DirectoryNext(r), UNCHANGED accountVars PROVE CodeInv'
  <2>1. /\ pc[r] # "over"
        /\ \E p \in {"branch", "insert", "write", "email", "password", "over"} :
             pc' = [pc EXCEPT ![r] = p]
    BY <1>3 DEF DirectoryNext, CreateCheck, BranchCheck, Insert, FindOne, Write,
       ActivateRead, EmailRead, SetPassword
  <2>2. QED
    BY <1>1, <1>3, <2>1, CodeMoves DEF accountVars
<1>4. ASSUME NEW r \in Requests,
             \/ ContactRead(r) \/ ContactWrite(r) \/ SendRead(r) \/ GenerateRead(r)
             \/ GenerateWrite(r) \/ EnableRead(r) \/ EnableWrite(r) \/ DisableRead(r)
             \/ DisableWrite(r) \/ Abort(r)
      PROVE  CodeInv'
  <2>1. /\ UNCHANGED <<code, latest, accepted>> /\ pc[r] # "over"
        /\ \E p \in {"contact", "code", "secret", "on", "off", "over"} :
             pc' = [pc EXCEPT ![r] = p]
    BY <1>4 DEF ContactRead, ContactWrite, SendRead, GenerateRead, GenerateWrite, EnableRead,
       EnableWrite, DisableRead, DisableWrite, SetMfa, Abort, InFlight, Reads, Begins,
       accountVars
  <2>2. QED
    BY <1>1, <2>1, CodeMoves
<1>5. QED
  BY <1>1, <1>2, <1>3, <1>4, VerifyReadKept, StoreCodeKept, VerifyWriteKept
     DEF Next, OwnNext, ExpireCode, vars, directoryVars, accountVars

\* The last code sent works until it is used or expires, and once, unless calls that
\* overlapped account for it (sendEmailVerification, verifyEmail and their twins for
\* the phone).
THEOREM CodeWorksOnce == Spec => []SentCodeWorksOnce
<1>1. Init => CallInv
  BY DEF Init, DirectoryInit, CallInv
<1>2. CodeInv => SentCodeWorksOnce
  BY DEF CodeInv, Accounted, SentCodeWorksOnce
<1>3. QED
  BY <1>1, <1>2, CodeInit, CodeKept, MetInit, MetKept, CallKept, RowsCorrect, PTL DEF Spec

-----------------------------------------------------------------------------
(* E-mails of accounts *)

\* An account that is active has the e-mail of call r: it was given by an edit, or by
\* another activation that met this one.
Explained(r, y) ==
  \/ \E u \in Requests : {u} \in met /\ Op[u].target = y /\ Op[u].email = Op[r].email
  \/ \E s \in Activations : {r, s} \in met /\ found[s] = y /\ Op[s].email = Op[r].email

\* What the property rests on: only clients have an account; an edit of an e-mail that is
\* to write has been recorded; the read of the e-mails still holds for an activation that
\* is to write, but for what explains itself.
EmailInv ==
  /\ \A x \in Requests : row[x].active => Table(x) = "client"
  /\ \A u \in Requests :
       pc[u] = "write" /\ Kind(u) = "update" /\ Op[u].email # None => {u} \in met
  /\ \A r \in Requests : pc[r] = "password" =>
       \A y \in Requests \ {found[r]} :
         row[y].active /\ row[y].email = Op[r].email => Explained(r, y)
  /\ OneAccountPerEmail

LEMMA EmailInit == Init => EmailInv
<1> SUFFICES ASSUME Init PROVE EmailInv
  OBVIOUS
<1>1. \A x \in Requests : ~row[x].active
  BY DEF Init, DirectoryInit, New, Absent
<1>2. \A r \in Requests : pc[r] \in {"idle", "over"}
  BY DEF Init, DirectoryInit
<1>3. QED
  BY <1>1, <1>2 DEF EmailInv, OneAccountPerEmail

\* Two accounts have one e-mail for a reason that does not go away: calls that met have
\* met, and an activation that began has found its client.
LEMMA ExplainedStays ==
  ASSUME MetInv, met \subseteq met',
         \A s \in Requests : pc[s] # "idle" => found'[s] = found[s]
  PROVE  /\ \A r, y \in Requests : Explained(r, y) => Explained(r, y)'
         /\ \A x, y \in Requests : \A email : Excused(x, y, email) => Excused(x, y, email)'
<1>1. ASSUME NEW r \in Requests, NEW s \in Requests, {r, s} \in met
      PROVE  {r, s} \in met' /\ found'[r] = found[r] /\ found'[s] = found[s]
  <2>1. pc[r] # "idle" /\ pc[s] # "idle"
    BY <1>1 DEF MetInv
  <2>2. QED
    BY <1>1, <2>1
<1>2. ASSUME NEW r \in Requests, NEW y \in Requests, Explained(r, y) PROVE Explained(r, y)'
  BY <1>1, <1>2 DEF Explained, Activations
<1>3. ASSUME NEW x \in Requests, NEW y \in Requests, NEW email, Excused(x, y, email)
      PROVE  Excused(x, y, email)'
  <2>1. CASE \E u \in Requests :
               {u} \in met /\ Op[u].target \in {x, y} /\ Op[u].email = email
    BY <2>1 DEF Excused
  <2>2. ASSUME NEW r \in Activations, NEW s \in Activations, {r, s} \in met, found[r] = x,
               found[s] = y, Op[r].email = email, Op[s].email = email
        PROVE  Excused(x, y, email)'
    <3>1. r \in Requests /\ s \in Requests /\ Activations' = Activations
      BY DEF Activations
    <3>2. {r, s} \in met' /\ found'[r] = x /\ found'[s] = y
      BY <1>1, <2>2, <3>1
    <3>3. QED
      BY <2>2, <3>1, <3>2 DEF Excused
  <2>3. QED
    BY <1>3, <2>1, <2>2 DEF Excused
<1>4. QED
  BY <1>2, <1>3

LEMMA ExcusedBothWays ==
  ASSUME NEW x, NEW y, NEW email, Excused(x, y, email) PROVE Excused(y, x, email)
<1>1. ASSUME NEW r \in Activations, NEW s \in Activations, {r, s} \in met, found[r] = x,
             found[s] = y, Op[r].email = email, Op[s].email = email
      PROVE  Excused(y, x, email)
  <2>1. {s, r} \in met
    <3>1. {r, s} = {s, r}
      OBVIOUS
    <3>2. QED
      BY <1>1, <3>1
  <2>2. QED
    BY <1>1, <2>1 DEF Excused
<1>2. QED
  BY <1>1 DEF Excused

\* A step that makes no account and changes the e-mail of none.
LEMMA EmailMoves ==
  ASSUME RowInv, MetInv, EmailInv, NEW r \in Requests, NEW p, pc' = [pc EXCEPT ![r] = p],
         \A x \in Requests : row'[x].active => row[x].active /\ row'[x].email = row[x].email,
         met \subseteq met',
         \A s \in Requests : pc[s] # "idle" => found'[s] = found[s],
         p = "write" /\ Kind(r) = "update" /\ Op[r].email # None => {r} \in met',
         p = "password" => /\ pc[r] # "idle"
                           /\ \A y \in Requests \ {found[r]} :
                                ~(row[y].active /\ row[y].email = Op[r].email)
  PROVE  EmailInv'
<1>1. pc'[r] = p /\ \A s \in Requests \ {r} : pc'[s] = pc[s]
  BY DEF RowInv, TypeOK
<1>2. ASSUME NEW s \in Requests, pc'[s] = "password", NEW y \in Requests \ {found'[s]},
             row'[y].active, row'[y].email = Op[s].email
      PROVE  Explained(s, y)'
  <2>1. row[y].active /\ row[y].email = Op[s].email
    BY <1>2
  <2>2. pc[s] # "idle" /\ found'[s] = found[s]
    BY <1>1, <1>2
  <2>3. s # r
    BY <1>1, <1>2, <2>1, <2>2
  <2>4. Explained(s, y)
    BY <1>1, <1>2, <2>1, <2>2, <2>3 DEF EmailInv
  <2>5. QED
    BY <2>4, ExplainedStays
<1>3. OneAccountPerEmail'
  <2>1. SUFFICES ASSUME NEW x \in Requests, NEW y \in Requests, row'[x].active, row'[y].active,
                        row'[x].email = row'[y].email, x # y
                 PROVE  Excused(x, y, row[x].email)'
    BY DEF OneAccountPerEmail
  <2>2. /\ row[x].active /\ row[y].active
        /\ row'[x].email = row[x].email /\ row'[y].email = row[y].email
    BY <2>1
  <2>3. Excused(x, y, row[x].email)
    BY <2>1, <2>2 DEF EmailInv, OneAccountPerEmail
  <2>4. \A email : Excused(x, y, email) => Excused(x, y, email)'
    BY ExplainedStays
  <2>5. QED
    BY <2>2, <2>3, <2>4
<1>4. \A x \in Requests : row'[x].active => Table(x) = "client"
  BY DEF EmailInv
<1>5. \A u \in Requests :
        pc'[u] = "write" /\ Kind(u) = "update" /\ Op[u].email # None => {u} \in met'
  BY <1>1 DEF EmailInv
<1>6. QED
  BY <1>2, <1>3, <1>4, <1>5 DEF EmailInv

\* A step that gives row x an e-mail, for a reason the others can name.
LEMMA EmailGiven ==
  ASSUME RowInv, EmailInv, NEW r \in Requests, NEW x \in Requests, NEW m,
         pc' = [pc EXCEPT ![r] = "over"], UNCHANGED <<found, met>>,
         \A y \in Requests \ {x} : row'[y] = row[y],
         row'[x].active => row'[x].email = m /\ Table(x) = "client",
         \A s \in Requests : pc'[s] = "password" /\ found[s] # x /\ Op[s].email = m =>
           Explained(s, x),
         \A y \in Requests \ {x} : row'[x].active /\ row[y].active /\ row[y].email = m =>
           Excused(x, y, m)
  PROVE  EmailInv'
<1>1. pc'[r] = "over" /\ \A s \in Requests \ {r} : pc'[s] = pc[s]
  BY DEF RowInv, TypeOK
<1>2. ASSUME NEW s \in Requests, pc'[s] = "password", NEW y \in Requests \ {found[s]},
             row'[y].active, row'[y].email = Op[s].email
      PROVE  Explained(s, y)'
  <2>1. Explained(s, y)
    <3>1. CASE y = x
      BY <1>2, <3>1
    <3>2. CASE y # x
      BY <1>1, <1>2, <3>2 DEF EmailInv
    <3>3. QED
      BY <3>1, <3>2
  <2>2. QED
    BY <2>1 DEF Explained, Activations
<1>3. OneAccountPerEmail'
  <2>1. SUFFICES ASSUME NEW a \in Requests, NEW b \in Requests, row'[a].active, row'[b].active,
                        row'[a].email = row'[b].email, a # b
                 PROVE  Excused(a, b, row[a].email)'
    BY DEF OneAccountPerEmail
  <2>2. Excused(a, b, row'[a].email)
    <3>1. CASE a # x /\ b # x
      BY <2>1, <3>1 DEF EmailInv, OneAccountPerEmail
    <3>2. CASE a = x
      BY <2>1, <3>2
    <3>3. CASE b = x
      BY <2>1, <3>3, ExcusedBothWays
    <3>4. QED
      BY <3>1, <3>2, <3>3
  <2>3. \A email : Excused(a, b, email) => Excused(a, b, email)'
    BY DEF Excused, Activations
  <2>4. QED
    BY <2>2, <2>3
<1>4. \A y \in Requests : row'[y].active => Table(y) = "client"
  BY DEF EmailInv
<1>5. \A u \in Requests :
        pc'[u] = "write" /\ Kind(u) = "update" /\ Op[u].email # None => {u} \in met'
  BY <1>1 DEF EmailInv
<1>6. QED
  BY <1>2, <1>3, <1>4, <1>5 DEF EmailInv

LEMMA WriteEmail ==
  ASSUME RowInv, MetInv, EmailInv, NEW r \in Requests, Write(r) PROVE EmailInv'
<1> DEFINE x == Op[r].target
<1>1. /\ pc[r] = "write" /\ pc' = [pc EXCEPT ![r] = "over"] /\ UNCHANGED <<found, met>>
      /\ Kind(r) \in RowKinds /\ x \in Requests /\ row[x] \in RowType
      /\ row' = row \/ row' = [row EXCEPT ![x] = Changed(r, row[x])]
      /\ row \in [Requests -> RowType]
  BY DirectoryAssumption DEF Write, WriteRow, RowKinds, RowInv, TypeOK, RowType
<1>2. /\ Changed(r, row[x]).active = row[x].active
      /\ \/ Changed(r, row[x]).email = row[x].email
         \/ Kind(r) = "update" /\ Op[r].email # None /\ Changed(r, row[x]).email = Op[r].email
  <2>1. CASE Kind(r) = "update"
    <3>1. Changed(r, row[x]) = Renamed(r, row[x])
      BY <2>1 DEF Changed
    <3>2. QED
      BY <1>1, <2>1, <3>1 DEF Renamed, Given, RowType
  <2>2. CASE Kind(r) = "remove"
    BY <1>1, <2>2 DEF Changed, RowType
  <2>3. CASE Kind(r) = "reactivate"
    BY <1>1, <2>3 DEF Changed, RowType
  <2>4. QED
    BY <1>1, <2>1, <2>2, <2>3 DEF RowKinds
<1>3. CASE row' = row \/ Changed(r, row[x]).email = row[x].email
  <2>1. \A y \in Requests : row'[y].active = row[y].active /\ row'[y].email = row[y].email
    BY <1>1, <1>2, <1>3
  <2>2. QED
    BY <1>1, <2>1, EmailMoves
<1>4. CASE row' # row /\ Changed(r, row[x]).email # row[x].email
  <2>1. /\ {r} \in met /\ row'[x].email = Op[r].email /\ row'[x].active = row[x].active
        /\ \A y \in Requests \ {x} : row'[y] = row[y]
    BY <1>1, <1>2, <1>4 DEF EmailInv
  <2>2. \A s \in Requests : Op[s].email = Op[r].email => Explained(s, x)
    BY <2>1 DEF Explained
  <2>3. row'[x].active => Table(x) = "client"
    BY <1>1, <2>1 DEF EmailInv
  <2>4. \A y \in Requests : Excused(x, y, Op[r].email)
    BY <2>1 DEF Excused
  <2>5. QED
    BY <1>1, <2>1, <2>2, <2>3, <2>4, EmailGiven
<1>5. QED
  BY <1>1, <1>3, <1>4

LEMMA SetPasswordEmail ==
  ASSUME RowInv, MetInv, EmailInv, NEW r \in Requests, SetPassword(r) PROVE EmailInv'
<1> DEFINE x == found[r]
           m == Op[r].email
<1>1. /\ pc[r] = "password" /\ pc' = [pc EXCEPT ![r] = "over"] /\ UNCHANGED <<found, met>>
      /\ row' = [row EXCEPT ![x].email = m, ![x].active = TRUE]
      /\ InFlight(r)
  BY DEF SetPassword, InFlight
<1>2. x \in Requests /\ Table(x) = "client" /\ r \in Activations
  BY <1>1 DEF RowInv, PlaceInv, Activations
<1>3. /\ row'[x].email = m
      /\ \A y \in Requests \ {x} : row'[y] = row[y]
  <2>1. row \in [Requests -> RowType]
    BY DEF RowInv, TypeOK, RowType
  <2>2. QED
    BY <1>1, <1>2, <2>1 DEF RowType
<1>4. ASSUME NEW s \in Requests, pc'[s] = "password", Op[s].email = m PROVE Explained(s, x)
  <2>1. s # r /\ pc[s] = "password" /\ InFlight(s)
    BY <1>1, <1>4 DEF RowInv, TypeOK, InFlight
  <2>2. Crossing(s, r)
    BY <1>2, <2>1 DEF RowInv, PlaceInv, Activations, Crossing
  <2>3. {s, r} \in met
    BY <1>1, <2>1, <2>2 DEF MetInv
  <2>4. QED
    BY <1>2, <1>4, <2>3 DEF Explained
<1>5. ASSUME NEW y \in Requests \ {x}, row[y].active, row[y].email = m
      PROVE  Excused(x, y, m)
  <2>1. Explained(r, y)
    BY <1>1, <1>5 DEF EmailInv
  <2>2. CASE \E u \in Requests : {u} \in met /\ Op[u].target = y /\ Op[u].email = m
    BY <2>2 DEF Excused
  <2>3. CASE \E s \in Activations : {r, s} \in met /\ found[s] = y /\ Op[s].email = m
    BY <1>2, <2>3 DEF Excused
  <2>4. QED
    BY <2>1, <2>2, <2>3 DEF Explained
<1>6. QED
  BY <1>1, <1>2, <1>3, <1>4, <1>5, EmailGiven

LEMMA DirectoryEmail ==
  ASSUME RowInv, MetInv, EmailInv, met \subseteq met', NEW r \in Requests, DirectoryNext(r)
  PROVE  EmailInv'
<1>1. CASE CreateCheck(r) \/ BranchCheck(r)
  <2>1. /\ row' = row /\ found' = found
        /\ \E p \in {"branch", "insert", "over"} : pc' = [pc EXCEPT ![r] = p]
    BY <1>1 DEF CreateCheck, BranchCheck
  <2>2. QED
    BY <2>1, EmailMoves
<1>2. CASE FindOne(r)
  <2>1. /\ row' = row /\ found' = found
        /\ \E p \in {"write", "over"} : pc' = [pc EXCEPT ![r] = p]
        /\ Kind(r) = "update" /\ Op[r].email # None => {r} \in met'
    BY <1>2 DEF FindOne
  <2>2. QED
    BY <2>1, EmailMoves
<1>3. CASE Insert(r)
  <2>1. pc' = [pc EXCEPT ![r] = "over"] /\ found' = found
        /\ (row' = row \/ row' = [row EXCEPT ![r] = New(r)])
    BY <1>3 DEF Insert
  <2>2. ~New(r).active
    BY DEF New
  <2>3. \A x \in Requests : row'[x].active => row[x].active /\ row'[x].email = row[x].email
    BY <2>1, <2>2 DEF RowInv, TypeOK
  <2>4. QED
    BY <2>1, <2>3, EmailMoves
<1>4. CASE ActivateRead(r)
  <2>1. /\ row' = row /\ pc[r] = "idle"
        /\ found' = found \/ \E x : found' = [found EXCEPT ![r] = x]
        /\ \E p \in {"over", "email"} : pc' = [pc EXCEPT ![r] = p]
    BY <1>4 DEF ActivateRead
  <2>2. \A s \in Requests : pc[s] # "idle" => found'[s] = found[s]
    BY <2>1 DEF RowInv, TypeOK
  <2>3. QED
    BY <2>1, <2>2, EmailMoves
<1>5. CASE EmailRead(r)
  <2>1. /\ row' = row /\ found' = found /\ pc[r] = "email"
        /\ pc' = [pc EXCEPT ![r] = IF ~EmailUsed(r) THEN "password" ELSE "over"]
    BY <1>5 DEF EmailRead
  <2>2. ~EmailUsed(r) =>
          \A y \in Requests \ {found[r]} : ~(row[y].active /\ row[y].email = Op[r].email)
    BY DEF EmailUsed, EmailInv
  <2>3. QED
    BY <2>1, <2>2, EmailMoves
<1>6. QED
  BY <1>1, <1>2, <1>3, <1>4, <1>5, WriteEmail, SetPasswordEmail DEF DirectoryNext

LEMMA OwnEmail ==
  ASSUME RowInv, MetInv, EmailInv, met \subseteq met', NEW r \in Requests,
         OwnNext(r) \/ Abort(r)
  PROVE  EmailInv'
<1>1. /\ found' = found
      /\ \E p \in OwnPoints \cup {"over"} : pc' = [pc EXCEPT ![r] = p]
      /\ row' = row \/ \E key : row' = [row EXCEPT ![User(r)].key = key]
  BY DEF OwnNext, Abort, OwnPoints, ContactRead, ContactWrite, SendRead, StoreCode, VerifyRead,
     VerifyWrite, GenerateRead, GenerateWrite, EnableRead, EnableWrite, DisableRead,
     DisableWrite, SetMfa, Reads
<1>2. \A x \in Requests : row'[x].active = row[x].active /\ row'[x].email = row[x].email
  <2>1. row \in [Requests -> RowType]
    BY DEF RowInv, TypeOK, RowType
  <2>2. ASSUME NEW key, row' = [row EXCEPT ![User(r)].key = key], NEW x \in Requests
        PROVE  row'[x].active = row[x].active /\ row'[x].email = row[x].email
    BY <2>1, <2>2 DEF RowType
  <2>3. QED
    BY <1>1, <2>2
<1>3. QED
  BY <1>1, <1>2, EmailMoves DEF OwnPoints

LEMMA EmailKept == RowInv /\ MetInv /\ EmailInv /\ [Next]_vars => EmailInv'
<1> SUFFICES ASSUME RowInv, MetInv, EmailInv, [Next]_vars PROVE EmailInv'
  OBVIOUS
<1>1. CASE UNCHANGED directoryVars
  <2>1. /\ \A x, y, email : Excused(x, y, email) => Excused(x, y, email)'
        /\ \A r, y : Explained(r, y) => Explained(r, y)'
    BY <1>1 DEF directoryVars, Excused, Explained, Activations
  <2>2. QED
    BY <1>1, <2>1 DEF directoryVars, EmailInv, OneAccountPerEmail
<1>2. QED
  BY <1>1, MetKept, DirectoryEmail, OwnEmail DEF Next, vars, ExpireCode

\* Two clients log in with one e-mail only where an edit gave it to one of them, or the
\* activations that gave it were under way together (activate, EmailRead; removed clients
\* keep theirs).
THEOREM EmailOpensOneAccount == Spec => []OneAccountPerEmail
<1>1. EmailInv => OneAccountPerEmail
  BY DEF EmailInv
<1>2. QED
  BY <1>1, EmailInit, EmailKept, MetInit, MetKept, RowsCorrect, PTL DEF Spec

=============================================================================
