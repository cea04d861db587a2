----------------------------- MODULE Directory -------------------------------
(***************************************************************************)
(* Users, clients and branches: rows that are created, changed, removed    *)
(* (deletedAt) and reactivated, never deleted, each under a key nobody     *)
(* else may have: the e-mail of a user, the phone of a client, the code of *)
(* a branch.  And the activation of a client's account in the portal.      *)
(*                                                                         *)
(* Every handler reads, decides and then writes by id, in statements that  *)
(* commit by themselves; only the unique index sees two of them at a time. *)
(* A row is named by the request that created it.                          *)
(***************************************************************************)
EXTENDS Naturals, FiniteSets

CONSTANTS
  Requests,   \* calls of the handlers
  Op,         \* what each request asks for
  Existing,   \* requests whose row is there from the start
  Waves,      \* sets of calls that may come together
  InScope,    \* requests whose caller may reach the row it is about
  None

VARIABLES
  row,     \* the row each request created
  pc,      \* statement each request is at
  found,   \* client whose account a request activates
  met      \* history: edits of an e-mail that began, and calls that were in flight together

directoryVars == <<row, pc, found, met>>

Tables == {"user", "client", "branch"}
Kinds == {"create", "update", "remove", "reactivate", "activate"}

\* What a call does not give is None.  table: that of a new row; target: the row to
\* change, or the branch of a new client; key: that of a new row, the new one, or the
\* phone of an activation; email: the same for the e-mail a client has in the portal.
ASSUME DirectoryAssumption ==
  /\ Waves \subseteq SUBSET Requests
  /\ \A r \in Existing : r \in Requests /\ Op[r].kind = "create"
  /\ \A r \in Requests :
       /\ Op[r].kind = "create" => Op[r].table \in Tables /\ Op[r].key # None
       /\ Op[r].kind \in {"update", "remove", "reactivate"} => Op[r].target \in Requests
       /\ Op[r].kind = "activate" => Op[r].email # None
  /\ \A r, s \in Existing : Op[r].table = Op[s].table /\ Op[r].key = Op[s].key => r = s
  /\ None \notin Requests

Absent == [there |-> FALSE, live |-> FALSE, key |-> None, email |-> None,
           active |-> FALSE]

Table(x) == Op[x].table
Kind(r) == Op[r].kind
InFlight(r) == pc[r] \notin {"idle", "over"}
Goto(r, p) == pc' = [pc EXCEPT ![r] = p]
GotoIf(r, cond, p) == Goto(r, IF cond THEN p ELSE "over")
Meets(r, others) == met' = met \cup {{r, s} : s \in {s \in others : InFlight(s)}}

New(r) == [there |-> TRUE, live |-> TRUE, key |-> Op[r].key, email |-> Op[r].email,
           active |-> FALSE]

DirectoryInit ==
  /\ row = [r \in Requests |-> IF r \in Existing THEN New(r) ELSE Absent]
  /\ \E wave \in Waves :
       pc = [r \in Requests |-> IF r \in wave \ Existing THEN "idle" ELSE "over"]
  /\ found = [r \in Requests |-> None]
  /\ met = {}

Holders(table, key) ==
  {x \in Requests : row[x].there /\ Table(x) = table /\ row[x].key = key}

\* The unique index: no row but x has the key, removed rows included.
KeyFree_AmongLive(table, key, x) ==
  {y \in Holders(table, key) : row[y].live} \subseteq {x}
KeyFree(table, key, x) == Holders(table, key) \subseteq {x}

-----------------------------------------------------------------------------
(* create *)

\* ClientsService looks for a client that is not removed; the two others look for
\* any row.
Conflicting(r) ==
  {x \in Holders(Table(r), Op[r].key) : Table(r) = "client" => row[x].live}

CreateCheck(r) ==
  /\ pc[r] = "idle" /\ Kind(r) = "create"
  /\ GotoIf(r, Conflicting(r) = {}, IF Table(r) = "client" THEN "branch" ELSE "insert")
  /\ UNCHANGED <<row, found, met>>

BranchCheck(r) ==
  /\ pc[r] = "branch"
  /\ GotoIf(r, row[Op[r].target].live, "insert")
  /\ UNCHANGED <<row, found, met>>

Insert(r) ==
  /\ pc[r] = "insert"
  /\ row' = IF KeyFree(Table(r), Op[r].key, r) THEN [row EXCEPT ![r] = New(r)] ELSE row
  /\ Goto(r, "over")
  /\ UNCHANGED <<found, met>>

-----------------------------------------------------------------------------
(* update, remove, reactivate *)

\* findOne, in the caller's scope; reactivate looks for a removed row.
FindOne(r) ==
  LET x == Op[r].target
  IN /\ pc[r] = "idle" /\ Kind(r) \in {"update", "remove", "reactivate"}
     /\ GotoIf(r, /\ row[x].there /\ r \in InScope
                  /\ row[x].live = (Kind(r) # "reactivate"),
               "write")
     /\ met' = IF Kind(r) = "update" /\ Op[r].email # None THEN met \cup {{r}} ELSE met
     /\ UNCHANGED <<row, found>>

\* The columns the call is about, and no other, whatever became of the row.
Given(new, old) == IF new # None THEN new ELSE old
Renamed(r, old) ==
  [old EXCEPT !.key = Given(Op[r].key, @), !.email = Given(Op[r].email, @)]
Changed_WholeRow(r, old) ==
  IF Kind(r) = "remove" THEN [old EXCEPT !.live = FALSE]
  ELSE [Renamed(r, old) EXCEPT !.live = TRUE]
Changed(r, old) ==
  CASE Kind(r) = "remove" -> [old EXCEPT !.live = FALSE]
    [] Kind(r) = "reactivate" -> [old EXCEPT !.live = TRUE]
    [] OTHER -> Renamed(r, old)

WriteRow(r) ==
  LET x == Op[r].target
  IN row' = IF KeyFree(Table(x), Changed(r, row[x]).key, x)
            THEN [row EXCEPT ![x] = Changed(r, @)] ELSE row

Write(r) ==
  /\ pc[r] = "write" /\ Kind(r) \in {"update", "remove", "reactivate"}
  /\ WriteRow(r)
  /\ Goto(r, "over")
  /\ UNCHANGED <<found, met>>

-----------------------------------------------------------------------------
(* activate *)

Activations == {r \in Requests : Kind(r) = "activate"}
LiveClients(phone) == {x \in Holders("client", phone) : row[x].live}

\* A client that is not active yet, whose e-mail is unknown or the one given.
ActivateRead(r) ==
  LET able == {x \in LiveClients(Op[r].key) :
                 ~row[x].active /\ row[x].email \in {None, Op[r].email}}
  IN /\ pc[r] = "idle" /\ Kind(r) = "activate"
     /\ \/ able = {} /\ Goto(r, "over") /\ UNCHANGED <<found, met>>
        \/ /\ \E x \in able : found' = [found EXCEPT ![r] = x]
           /\ Goto(r, "email")
           /\ Meets(r, Activations \ {r})
     /\ UNCHANGED row

EmailUsed_AmongLive(r) ==
  \E x \in Requests \ {found[r]} :
    Table(x) = "client" /\ row[x].active /\ row[x].live /\ row[x].email = Op[r].email
EmailUsed(r) ==
  \E x \in Requests \ {found[r]} :
    Table(x) = "client" /\ row[x].active /\ row[x].email = Op[r].email

EmailRead(r) ==
  /\ pc[r] = "email"
  /\ GotoIf(r, ~EmailUsed(r), "password")
  /\ UNCHANGED <<row, found, met>>

SetPassword(r) ==
  /\ pc[r] = "password"
  /\ row' = [row EXCEPT ![found[r]].email = Op[r].email, ![found[r]].active = TRUE]
  /\ Goto(r, "over")
  /\ UNCHANGED <<found, met>>

DirectoryNext(r) ==
  \/ CreateCheck(r) \/ BranchCheck(r) \/ Insert(r)
  \/ FindOne(r) \/ Write(r)
  \/ ActivateRead(r) \/ EmailRead(r) \/ SetPassword(r)

-----------------------------------------------------------------------------
(* Properties *)

\* At most one user has an e-mail, one client a phone, one branch a code, removed
\* ones included, so that a reactivation, which checks nothing, is always safe; two
\* calls that both pass the check cannot both insert (create, update, reactivate).
KeysUnique ==
  \A x, y \in Requests :
    row[x].there /\ row[y].there /\ Table(x) = Table(y) /\ row[x].key = row[y].key
      => x = y

\* The e-mail was given to one of the two by an edit, or to both by activations that
\* were under way together.
Excused(x, y, email) ==
  \/ \E u \in Requests : {u} \in met /\ Op[u].target \in {x, y} /\ Op[u].email = email
  \/ \E r, s \in Activations : /\ {r, s} \in met /\ found[r] = x /\ found[s] = y
                                /\ Op[r].email = email /\ Op[s].email = email

\* An e-mail belongs to one activated account, through removals and reactivations
\* (client-portal/auth/auth.service.ts:47: empeche qu'un autre client active deja
\* utilise le meme email); only an edit of the client or overlapping activations break it.
OneAccountPerEmail ==
  \A x, y \in Requests :
    row[x].active /\ row[y].active /\ row[x].email = row[y].email /\ x # y =>
      Excused(x, y, row[x].email)
=============================================================================
