------------------------------- MODULE Setup ---------------------------------
(***************************************************************************)
(* What prisma/seed.ts puts in an empty or half filled database, and the   *)
(* guard that reads it.                                                    *)
(*                                                                         *)
(* The seed is no transaction: it upserts one batch of rows after the      *)
(* other, the rows of a batch (a Promise.all) in any order, and every      *)
(* upsert commits by itself.  A run that fails stops where it is, which    *)
(* needs no action of its own: nothing makes a run go on.  It is run again *)
(* by another run, possibly while people use the application.              *)
(***************************************************************************)
EXTENDS Naturals, Sequences

CONSTANTS
  Seeds,         \* executions of the seed
  Roles,         \* names of roles; "SuperAdmin", "Agent", ...
  Permissions,   \* keys of permissions; those of one resource that are granted
                 \* together (clients:*, savings:*) are one
  Settings,      \* keys of the table of settings
  Views,         \* figures computed from other tables, which the seed leaves alone
  Default,       \* what the seed creates a setting with; the first figures
  None           \* no value

VARIABLES
  rows,     \* roles, permissions, grants and the first user, as tuples
  source,   \* value of each setting, None if it has no row, and of each view
  past,     \* history: the values each of them has had
  stage,    \* batch a run of the seed is at
  left      \* rows of that batch it has not upserted yet

setupVars == <<rows, source, past, stage, left>>

Keys == Settings \cup Views

ASSUME SetupAssumption ==
  /\ Settings \cap Views = {}
  /\ None \notin {Default[k] : k \in Keys}

-----------------------------------------------------------------------------
Grants(names, keys) == {"grant"} \X (names \cap Roles) \X (keys \cap Permissions)

\* Roles, permissions and a super administrator who has all of them; then the staff,
\* which the code grants one by one; then the settings.
Batches ==
  << {"role"} \X Roles,
     {"permission"} \X Permissions,
     Grants({"SuperAdmin"}, Permissions),
     {<<"admin">>},
     Grants({"Agent", "Manager"}, {"clients"}),
     Grants({"Agent", "Manager", "Caissier"}, {"transactions:create"}),
     Grants({"Comptable"}, {"transactions:cancel"}),
     Grants({"Agent", "Manager", "Caissier"}, {"savings"}),
     Grants({"Agent", "Manager", "Caissier"}, {"tontines"}),
     Grants({"Agent", "Caissier"}, {"loans:create"}),
     Grants({"Manager"}, {"loans:approve"}),
     {"setting"} \X Settings >>

Finished == Len(Batches) + 1

Store(k, v) ==
  /\ source' = [source EXCEPT ![k] = v]
  /\ past' = [past EXCEPT ![k] = @ \cup {v}]

\* upsert with an empty update, one INSERT .. ON CONFLICT: a row that exists is left
\* as it is.
UpsertSetting_Overwrites(k) == Store(k, Default[k])
UpsertSetting(k) ==
  IF source[k] = None THEN Store(k, Default[k]) ELSE UNCHANGED <<source, past>>

\* What earlier runs left: the batches before one of them, and some of its rows.
Leftovers ==
  UNION {{S \cup UNION {Batches[a] : a \in 1..(b - 1)} : S \in SUBSET Batches[b]} :
           b \in 1..(Len(Batches) - 1)}

SetupInit ==
  /\ rows \in Leftovers
  /\ source = [k \in Keys |-> IF k \in Settings THEN None ELSE Default[k]]
  /\ past = [k \in Keys |-> IF k \in Settings THEN {} ELSE {Default[k]}]
  /\ stage = [s \in Seeds |-> 0]
  /\ left = [s \in Seeds |-> {}]

SeedUpsert(s) ==
  \E row \in left[s] :
    /\ left' = [left EXCEPT ![s] = @ \ {row}]
    /\ \/ /\ row[1] = "setting"
          /\ UpsertSetting(row[2])
          /\ UNCHANGED rows
       \/ /\ row[1] # "setting"
          /\ rows' = rows \cup {row}
          /\ UNCHANGED <<source, past>>
    /\ UNCHANGED stage

\* Every batch is upserted by every run, whatever is there already.
RowsToUpsert_OnlyOfEmptyTable(b) ==
  IF \E row \in rows \cap Batches[b] : TRUE THEN {} ELSE Batches[b]
RowsToUpsert(b) == Batches[b]

SeedBatch(s) ==
  /\ left[s] = {} /\ stage[s] < Finished
  /\ stage' = [stage EXCEPT ![s] = @ + 1]
  /\ left' = [left EXCEPT ![s] = IF stage'[s] = Finished THEN {}
                                 ELSE RowsToUpsert(stage'[s])]
  /\ UNCHANGED <<rows, source, past>>

SetupNext == \E s \in Seeds : SeedUpsert(s) \/ SeedBatch(s)

\* PermissionsGuard reads the grants of the caller's role at each call.
Allowed(role, permission) == <<"grant", role, permission>> \in rows

-----------------------------------------------------------------------------
(* Properties *)

SetupTypeOK ==
  /\ rows \subseteq UNION {Batches[b] : b \in DOMAIN Batches}
  /\ stage \in [Seeds -> 0..Finished]
  /\ left \in [Seeds -> SUBSET UNION {Batches[b] : b \in DOMAIN Batches}]

\* Whatever earlier runs left half done, and whatever runs at the same time, a run
\* that ends has put every role, permission, grant and setting in place (main).
SeedRepairs ==
  \A s \in Seeds : stage[s] = Finished =>
    \A b \in DOMAIN Batches : \A row \in Batches[b] :
      IF row[1] = "setting" THEN source[row[2]] # None ELSE row \in rows
=============================================================================
