--------------------------- MODULE SettingsProofs ----------------------------
(***************************************************************************)
(* Theorems about Setup and Settings for any keys, calls, roles,           *)
(* permissions and runs of the seed: types; a run of the seed that ends    *)
(* has repaired everything; the cache holds what the table held, and an    *)
(* old value only after an overlap or a failure.                           *)
(***************************************************************************)
EXTENDS Settings, TLAPS

\* What a run of the seed has done: the batches before the one it is at, and the
\* rows of that one that are no longer left.
Put(row) == IF row[1] = "setting" THEN source[row[2]] # None ELSE row \in rows

SeedInv ==
  \A s \in Seeds : \A b \in DOMAIN Batches : \A row \in Batches[b] :
    \/ b < stage[s]
    \/ b = stage[s] /\ row \notin left[s]
    => Put(row)

\* A key that has no row has no copy, and none on its way; the copies on their way
\* to the cache are those of the table, unless the key is known to be raced.
OrderInv ==
  \A k \in Keys :
    /\ source[k] = None =>
         /\ cache[k] = None
         /\ \A r \in Requests : Key(r) = k => pc[r] \notin {"fill", "publish"}
    /\ k \notin raced => Late(k, source[k]) = {}

\* What is stored, and what is about to be, is part of what the table has held.
PastInv ==
  /\ \A k \in Keys : source[k] \in past[k] \cup {None}
  /\ \A r \in Requests : pc[r] = "publish" => Op[r].value \in past[Key(r)]

CacheInv == CacheTypeOK /\ PastInv /\ ServedWasStored /\ OrderInv /\ StaleNeedsRace

-----------------------------------------------------------------------------

\* Every call is about a key, and no value is the absence of one.
LEMMA Values_NotNone ==
  /\ \A r \in Requests : /\ Key(r) \in Keys
                         /\ Op[r].value \in Values /\ Op[r].value # None
                         /\ Op[r].kind = "set" => Key(r) \in Settings
                         /\ Op[r].kind = "post" => Key(r) \in Views
  /\ \A k \in Keys : Default[k] \in Values /\ Default[k] # None
  /\ None \notin Values
BY SettingsAssumption, SetupAssumption DEF Key, Keys, Values

USE DEF Key, Goto, InFlight, Late, Stale

LEMMA CacheInit == Init => CacheInv
<1> SUFFICES ASSUME Init PROVE CacheInv
  OBVIOUS
<1>1. /\ \A k \in Keys : source[k] \in Maybe /\ past[k] = {source[k]} \ {None}
      /\ cache = [k \in Keys |-> None]
      /\ pc = [r \in Requests |-> "idle"] /\ seen = [r \in Requests |-> None]
      /\ raced = {}
  BY Values_NotNone DEF Init, SetupInit, Maybe, Keys
<1>2. CacheTypeOK
  BY <1>1, Values_NotNone DEF Init, SetupInit, CacheTypeOK, Maybe
<1>3. PastInv /\ ServedWasStored
  BY <1>1, Values_NotNone DEF PastInv, ServedWasStored
<1>4. OrderInv /\ StaleNeedsRace
  BY <1>1, Values_NotNone DEF OrderInv, StaleNeedsRace, Keys
<1>5. QED
  BY <1>2, <1>3, <1>4 DEF CacheInv

\* A step that stores nothing in the table or the cache, and brings nothing nearer to it.
LEMMA Quiet ==
  ASSUME CacheInv, UNCHANGED <<source, past, cache, raced>>, NEW r \in Requests,
         NEW p \in {"load", "upsert", "over"}, pc[r] # "publish",
         pc' = [pc EXCEPT ![r] = p], seen' = [seen EXCEPT ![r] = None]
  PROVE  CacheInv'
<1>1. CacheTypeOK'
  BY DEF CacheInv, CacheTypeOK, Maybe
<1>2. PastInv' /\ ServedWasStored'
  BY DEF CacheInv, CacheTypeOK, PastInv, ServedWasStored
<1>3. OrderInv'
  BY DEF CacheInv, CacheTypeOK, OrderInv
<1>4. StaleNeedsRace'
  BY DEF CacheInv, CacheTypeOK, StaleNeedsRace
<1>5. QED
  BY <1>1, <1>2, <1>3, <1>4 DEF CacheInv

LEMMA LookupStep == ASSUME CacheInv, NEW r \in Requests, Lookup(r) PROVE CacheInv'
<1>1. seen' = [seen EXCEPT ![r] = None]
  BY DEF Lookup, CacheInv, CacheTypeOK
<1>2. QED
  BY <1>1, Quiet DEF Lookup, setupVars

LEMMA SetAllowedStep == ASSUME CacheInv, NEW r \in Requests, SetAllowed(r) PROVE CacheInv'
<1>1. seen' = [seen EXCEPT ![r] = None]
  BY DEF SetAllowed, CacheInv, CacheTypeOK
<1>2. QED
  BY <1>1, Quiet DEF SetAllowed, setupVars

LEMMA LoadStep == ASSUME CacheInv, NEW r \in Requests, Load(r) PROVE CacheInv'
<1>1. UNCHANGED <<source, past, cache, raced>> /\ pc[r] = "load"
  BY DEF Load, setupVars
<1>2. CASE source[Key(r)] = None
  BY <1>1, <1>2, Quiet DEF Load
<1>3. CASE source[Key(r)] # None
  <2>1. /\ seen' = [seen EXCEPT ![r] = source[Key(r)]]
        /\ pc' = [pc EXCEPT ![r] = "fill"]
    BY <1>3 DEF Load
  <2>2. CacheTypeOK'
    BY <1>1, <1>3, <2>1, Values_NotNone DEF CacheInv, CacheTypeOK, Maybe
  <2>3. PastInv' /\ ServedWasStored'
    BY <1>1, <2>1, Values_NotNone DEF CacheInv, CacheTypeOK, PastInv, ServedWasStored
  <2>4. OrderInv'
    BY <1>1, <1>3, <2>1, Values_NotNone DEF CacheInv, CacheTypeOK, OrderInv
  <2>5. StaleNeedsRace'
    BY <1>1, <2>1 DEF CacheInv, CacheTypeOK, StaleNeedsRace
  <2>6. QED
    BY <2>2, <2>3, <2>4, <2>5 DEF CacheInv
<1>4. QED
  BY <1>2, <1>3

\* Fill and Publish: a value that is not raced is the table's.
LEMMA CopyStep ==
  ASSUME CacheInv, NEW r \in Requests, NEW v \in past[Key(r)],
         UNCHANGED <<source, past, raced>>,
         Key(r) \notin raced => v = source[Key(r)],
         source[Key(r)] # None, v \in Values,
         pc[r] \in {"fill", "publish"},
         cache' = [cache EXCEPT ![Key(r)] = v],
         pc' = [pc EXCEPT ![r] = "over"], seen' = [seen EXCEPT ![r] = None]
  PROVE  CacheInv'
<1>1. CacheTypeOK'
  BY DEF CacheInv, CacheTypeOK, Maybe
<1>2. PastInv' /\ ServedWasStored'
  BY DEF CacheInv, CacheTypeOK, PastInv, ServedWasStored
<1>3. OrderInv'
  BY DEF CacheInv, CacheTypeOK, OrderInv
<1>4. StaleNeedsRace'
  BY Values_NotNone DEF CacheInv, CacheTypeOK, StaleNeedsRace, Keys
<1>5. QED
  BY <1>1, <1>2, <1>3, <1>4 DEF CacheInv

LEMMA FillStep == ASSUME CacheInv, NEW r \in Requests, Fill(r) PROVE CacheInv'
<1>1. /\ pc[r] = "fill" /\ Key(r) \in Keys
      /\ seen[r] \in past[Key(r)] /\ seen[r] \in Values
  BY Values_NotNone DEF Fill, CacheInv, CacheTypeOK, ServedWasStored, Maybe
<1>2. source[Key(r)] # None /\ (Key(r) \notin raced => seen[r] = source[Key(r)])
  BY <1>1 DEF CacheInv, OrderInv
<1>3. QED
  BY <1>1, <1>2, CopyStep DEF Fill, setupVars

LEMMA PublishStep == ASSUME CacheInv, NEW r \in Requests, Publish(r) PROVE CacheInv'
<1>1. /\ pc[r] = "publish" /\ Key(r) \in Keys
      /\ Op[r].value \in past[Key(r)] /\ Op[r].value \in Values
  BY Values_NotNone DEF Publish, CacheInv, PastInv
<1>2. /\ source[Key(r)] # None
      /\ Key(r) \notin raced => Op[r].value = source[Key(r)]
  BY <1>1 DEF CacheInv, OrderInv
<1>3. seen' = [seen EXCEPT ![r] = None]
  BY <1>1 DEF Publish, CacheInv, CacheTypeOK
<1>4. QED
  BY <1>1, <1>2, <1>3, CopyStep DEF Publish, setupVars

\* Upsert and Post: whatever is on its way is older from now on.
LEMMA WriteStep ==
  ASSUME CacheInv, NEW r \in Requests, NEW next \in {"publish", "over"}, Write(r, next),
         pc[r] \in {"idle", "upsert"}, Key(r) \in Settings => next = "publish"
  PROVE  CacheInv'
<1> DEFINE k == Key(r)
           v == Op[r].value
<1>1. /\ source' = [source EXCEPT ![k] = v]
      /\ past' = [past EXCEPT ![k] = @ \cup {v}]
      /\ raced' = IF Late(k, v) # {} THEN raced \cup {k} ELSE raced
      /\ pc' = [pc EXCEPT ![r] = next]
      /\ UNCHANGED <<cache, seen>>
  BY DEF Write, Store
<1>2. k \in Keys /\ v \in Values /\ v # None
  BY Values_NotNone
<1>3. CacheTypeOK'
  BY <1>1, <1>2 DEF CacheInv, CacheTypeOK, Maybe
<1>4. PastInv' /\ ServedWasStored'
  BY <1>1, <1>2, Values_NotNone DEF CacheInv, CacheTypeOK, PastInv, ServedWasStored
<1>5. OrderInv'
  <2> SUFFICES ASSUME NEW l \in Keys
               PROVE  /\ source'[l] = None =>
                           /\ cache'[l] = None
                           /\ \A s \in Requests : Key(s) = l => pc'[s] \notin {"fill", "publish"}
                      /\ l \notin raced' => Late(l, source[l])' = {}
    BY DEF OrderInv
  <2>1. CASE l = k
    BY <1>1, <1>2, <2>1 DEF CacheInv, CacheTypeOK
  <2>2. CASE l # k
    BY <1>1, <1>2, <2>2 DEF CacheInv, CacheTypeOK, OrderInv
  <2>3. QED
    BY <2>1, <2>2
<1>6. StaleNeedsRace'
  BY <1>1, <1>2 DEF CacheInv, CacheTypeOK, StaleNeedsRace, Keys
<1>7. QED
  BY <1>3, <1>4, <1>5, <1>6 DEF CacheInv

LEMMA UpsertStep == ASSUME CacheInv, NEW r \in Requests, Upsert(r) PROVE CacheInv'
BY WriteStep DEF Upsert, AfterUpsert

LEMMA PostStep == ASSUME CacheInv, NEW r \in Requests, Post(r) PROVE CacheInv'
<1>1. Key(r) \notin Settings
  BY Values_NotNone, SetupAssumption DEF Post
<1>2. QED
  BY <1>1, WriteStep DEF Post

LEMMA ExpireStep == ASSUME CacheInv, NEW k \in Keys, Expire(k) PROVE CacheInv'
<1>1. /\ UNCHANGED <<source, past, pc, seen>>
      /\ cache' = [cache EXCEPT ![k] = None]
      /\ raced' = IF Late(k, source[k]) = {} THEN raced \ {k} ELSE raced
  BY DEF Expire, setupVars
<1>2. CacheTypeOK'
  BY <1>1 DEF CacheInv, CacheTypeOK, Maybe
<1>3. PastInv' /\ ServedWasStored'
  BY <1>1 DEF CacheInv, CacheTypeOK, PastInv, ServedWasStored
<1>4. OrderInv'
  BY <1>1 DEF CacheInv, CacheTypeOK, OrderInv
<1>5. StaleNeedsRace'
  BY <1>1 DEF CacheInv, CacheTypeOK, StaleNeedsRace, Keys
<1>6. QED
  BY <1>2, <1>3, <1>4, <1>5 DEF CacheInv

LEMMA AbortStep == ASSUME CacheInv, NEW r \in Requests, Abort(r) PROVE CacheInv'
<1>1. /\ UNCHANGED <<source, past, cache>>
      /\ pc' = [pc EXCEPT ![r] = "over"] /\ seen' = [seen EXCEPT ![r] = None]
      /\ raced' = IF pc[r] = "publish" THEN raced \cup {Key(r)} ELSE raced
      /\ Key(r) \in Keys
  BY Values_NotNone DEF Abort, setupVars
<1>2. CacheTypeOK'
  BY <1>1 DEF CacheInv, CacheTypeOK, Maybe
<1>3. PastInv' /\ ServedWasStored'
  BY <1>1 DEF CacheInv, CacheTypeOK, PastInv, ServedWasStored
<1>4. OrderInv'
  BY <1>1 DEF CacheInv, CacheTypeOK, OrderInv
<1>5. StaleNeedsRace'
  BY <1>1 DEF CacheInv, CacheTypeOK, StaleNeedsRace, Keys
<1>6. QED
  BY <1>2, <1>3, <1>4, <1>5 DEF CacheInv

\* The seed creates a setting that has no row: nobody can have read it.
LEMMA SeedStep == ASSUME CacheInv, SetupNext, UNCHANGED cacheVars PROVE CacheInv'
<1>1. UNCHANGED <<cache, pc, seen, raced>>
  BY DEF cacheVars
<1>2. CASE UNCHANGED <<source, past>>
  BY <1>1, <1>2 DEF CacheInv, CacheTypeOK, PastInv, ServedWasStored, OrderInv,
     StaleNeedsRace
<1>3. ASSUME NEW k, source[k] = None, Store(k, Default[k]) PROVE CacheInv'
  <2>1. CASE k \notin Keys
    <3>1. UNCHANGED <<source, past>>
      BY <1>3, <2>1 DEF Store, CacheInv, CacheTypeOK
    <3>2. QED
      BY <3>1, <1>2
  <2>2. CASE k \in Keys
    <3>1. /\ source' = [source EXCEPT ![k] = Default[k]]
          /\ past' = [past EXCEPT ![k] = @ \cup {Default[k]}]
          /\ Default[k] \in Values /\ Default[k] # None
      BY <1>3, <2>2, Values_NotNone DEF Store
    <3>2. CacheTypeOK'
      BY <1>1, <2>2, <3>1 DEF CacheInv, CacheTypeOK, Maybe
    <3>3. PastInv' /\ ServedWasStored'
      BY <1>1, <2>2, <3>1, Values_NotNone
         DEF CacheInv, CacheTypeOK, PastInv, ServedWasStored
    <3>4. OrderInv'
      BY <1>1, <1>3, <2>2, <3>1 DEF CacheInv, CacheTypeOK, OrderInv
    <3>5. StaleNeedsRace'
      BY <1>1, <1>3, <2>2, <3>1 DEF CacheInv, CacheTypeOK, OrderInv, StaleNeedsRace, Keys
    <3>6. QED
      BY <3>2, <3>3, <3>4, <3>5 DEF CacheInv
  <2>3. QED
    BY <2>1, <2>2
<1>4. QED
  BY <1>2, <1>3 DEF SetupNext, SeedUpsert, SeedBatch, UpsertSetting

LEMMA CacheKept == CacheInv /\ [Next]_vars => CacheInv'
<1> SUFFICES ASSUME CacheInv, [Next]_vars PROVE CacheInv'
  OBVIOUS
<1>1. CASE UNCHANGED vars
  BY <1>1 DEF vars, setupVars, cacheVars, CacheInv, CacheTypeOK, PastInv, ServedWasStored,
     OrderInv, StaleNeedsRace
<1>2. CASE SetupNext /\ UNCHANGED cacheVars
  BY <1>2, SeedStep
<1>3. CASE \E k \in Keys : Expire(k)
  BY <1>3, ExpireStep
<1>4. ASSUME NEW r \in Requests,
             \/ Lookup(r) \/ SetAllowed(r) \/ Post(r) \/ Proceed(r) \/ Abort(r)
      PROVE  CacheInv'
  BY <1>4, LookupStep, SetAllowedStep, PostStep, LoadStep, FillStep, UpsertStep,
     PublishStep, AbortStep DEF Proceed
<1>5. QED
  BY <1>1, <1>2, <1>3, <1>4 DEF Next

-----------------------------------------------------------------------------
(* The seed *)

LEMMA BatchesShape ==
  /\ Len(Batches) \in Nat /\ DOMAIN Batches = 1..Len(Batches)
  /\ \A b \in DOMAIN Batches : \A row \in Batches[b] :
       row[1] = "setting" => row[2] \in Settings
<1>1. Len(Batches) = 12 /\ DOMAIN Batches = 1..12
  BY DEF Batches
<1>2. \A b \in 1..12 : \A row \in Batches[b] : row[1] = "setting" => row[2] \in Settings
  BY DEF Batches, Grants
<1>3. QED
  BY <1>1, <1>2

\* No step takes back a row or a value.
LEMMA StaysPut ==
  ASSUME SetupTypeOK, CacheInv, [Next]_vars,
         NEW b \in DOMAIN Batches, NEW row \in Batches[b], Put(row)
  PROVE  Put(row)'
<1>1. rows \subseteq rows'
  BY DEF Next, vars, setupVars, SetupNext, SeedUpsert, SeedBatch, Proceed, Lookup, SetAllowed,
     Post, Upsert, Write, Load, Fill, Publish, Expire, Abort
<1>2. CASE row[1] # "setting"
  BY <1>1, <1>2 DEF Put
<1>3. CASE row[1] = "setting"
  <2>1. row[2] \in Keys /\ source[row[2]] # None
    BY <1>3, BatchesShape DEF Put, Keys
  <2>2. ASSUME NEW k, NEW v, v # None, Store(k, v) PROVE source'[row[2]] # None
    BY <2>1, <2>2 DEF Store, CacheInv, CacheTypeOK
  <2>3. CASE UNCHANGED source
    BY <1>3, <2>1, <2>3 DEF Put
  <2>4. CASE SetupNext
    <3>1. ASSUME NEW k, row[1] = "setting", UpsertSetting(k)
          PROVE  source'[row[2]] # None
      <4>1. CASE k \in Keys
        BY <2>1, <2>2, <3>1, <4>1, Values_NotNone DEF UpsertSetting
      <4>2. CASE k \notin Keys
        BY <2>1, <3>1, <4>2 DEF UpsertSetting, Store, CacheInv, CacheTypeOK
      <4>3. QED
        BY <4>1, <4>2
    <3>2. QED
      BY <1>3, <2>1, <2>4, <3>1 DEF SetupNext, SeedUpsert, SeedBatch, Put
  <2>5. ASSUME NEW r \in Requests, Post(r) \/ Upsert(r) PROVE source'[row[2]] # None
    BY <2>2, <2>5, Values_NotNone DEF Post, Upsert, Write
  <2>6. QED
    BY <1>3, <2>3, <2>4, <2>5
       DEF Next, vars, setupVars, Put, Proceed, Lookup, SetAllowed, Load, Fill, Publish,
           Expire, Abort
<1>4. QED
  BY <1>2, <1>3

LEMMA SeedInit == Init => SetupTypeOK /\ SeedInv
<1> SUFFICES ASSUME Init PROVE SetupTypeOK /\ SeedInv
  OBVIOUS
<1>1. stage = [s \in Seeds |-> 0] /\ left = [s \in Seeds |-> {}] /\ rows \in Leftovers
  BY DEF Init, SetupInit
<1>2. rows \subseteq UNION {Batches[b] : b \in DOMAIN Batches}
  BY <1>1, BatchesShape DEF Leftovers
<1>3. SetupTypeOK
  BY <1>1, <1>2, BatchesShape DEF SetupTypeOK, Finished
<1>4. SeedInv
  BY <1>1, BatchesShape DEF SeedInv
<1>5. QED
  BY <1>3, <1>4

LEMMA SeedUpsertKept ==
  ASSUME SetupTypeOK, CacheInv, SeedInv, [Next]_vars, NEW s \in Seeds, SeedUpsert(s)
  PROVE  SetupTypeOK' /\ SeedInv'
<1>1. PICK row \in left[s] :
        /\ left' = [left EXCEPT ![s] = @ \ {row}]
        /\ \/ row[1] = "setting" /\ UpsertSetting(row[2]) /\ UNCHANGED rows
           \/ row[1] # "setting" /\ rows' = rows \cup {row}
        /\ UNCHANGED stage
  BY DEF SeedUpsert
<1>2. PICK b \in DOMAIN Batches : row \in Batches[b]
  BY DEF SetupTypeOK
<1>3. SetupTypeOK'
  BY <1>1, <1>2 DEF SetupTypeOK
<1>4. Put(row)'
  <2>1. CASE row[1] # "setting"
    BY <1>1, <2>1 DEF Put
  <2>2. CASE row[1] = "setting"
    <3>1. row[2] \in Keys
      BY <1>2, <2>2, BatchesShape DEF Keys
    <3>2. source'[row[2]] # None
      BY <1>1, <2>2, <3>1, Values_NotNone DEF UpsertSetting, Store, CacheInv, CacheTypeOK
    <3>3. QED
      BY <2>2, <3>2 DEF Put
  <2>3. QED
    BY <2>1, <2>2
<1>5. SeedInv'
  <2> SUFFICES ASSUME NEW t \in Seeds, NEW c \in DOMAIN Batches, NEW x \in Batches[c],
                      c < stage'[t] \/ (c = stage'[t] /\ x \notin left'[t])
               PROVE  Put(x)'
    BY DEF SeedInv
  <2>1. CASE x = row
    BY <1>4, <2>1
  <2>2. CASE x # row
    <3>1. c < stage[t] \/ (c = stage[t] /\ x \notin left[t])
      BY <1>1, <2>2 DEF SetupTypeOK
    <3>2. Put(x)
      BY <3>1 DEF SeedInv
    <3>3. QED
      BY <3>2, StaysPut
  <2>3. QED
    BY <2>1, <2>2
<1>6. QED
  BY <1>3, <1>5

LEMMA SeedBatchKept ==
  ASSUME SetupTypeOK, CacheInv, SeedInv, [Next]_vars, NEW s \in Seeds, SeedBatch(s)
  PROVE  SetupTypeOK' /\ SeedInv'
<1>1. /\ left[s] = {} /\ stage[s] \in 0..Len(Batches)
      /\ stage' = [stage EXCEPT ![s] = @ + 1]
      /\ left' = [left EXCEPT ![s] = IF stage'[s] = Finished THEN {} ELSE Batches[stage'[s]]]
      /\ rows' = rows
  BY BatchesShape DEF SeedBatch, RowsToUpsert, SetupTypeOK, Finished
<1>2. stage'[s] = stage[s] + 1 /\ (stage'[s] # Finished => stage'[s] \in DOMAIN Batches)
  BY <1>1, BatchesShape DEF SetupTypeOK, Finished
<1>3. SetupTypeOK'
  BY <1>1, <1>2, BatchesShape DEF SetupTypeOK, Finished
<1>4. SeedInv'
  <2> SUFFICES ASSUME NEW t \in Seeds, NEW c \in DOMAIN Batches, NEW x \in Batches[c],
                      c < stage'[t] \/ (c = stage'[t] /\ x \notin left'[t])
               PROVE  Put(x)'
    BY DEF SeedInv
  <2>1. c < stage[t] \/ (c = stage[t] /\ x \notin left[t])
    <3>1. CASE t # s
      BY <1>1, <3>1 DEF SetupTypeOK
    <3>2. CASE t = s
      <4>1. c # Finished /\ c \in Nat
        BY BatchesShape DEF Finished
      <4>2. stage'[s] # Finished => left'[s] = Batches[stage'[s]]
        BY <1>1 DEF SetupTypeOK
      <4>3. c # stage'[s]
        BY <3>2, <4>1, <4>2
      <4>4. c < stage[s] + 1
        BY <1>2, <3>2, <4>3
      <4>5. QED
        BY <1>1, <3>2, <4>1, <4>4
    <3>3. QED
      BY <3>1, <3>2
  <2>2. Put(x)
    BY <2>1 DEF SeedInv
  <2>3. QED
    BY <2>2, StaysPut
<1>5. QED
  BY <1>3, <1>4

LEMMA SeedKept ==
  ASSUME SetupTypeOK, CacheInv, SeedInv, [Next]_vars
  PROVE  SetupTypeOK' /\ SeedInv'
<1>1. CASE UNCHANGED <<rows, stage, left>>
  <2>1. SetupTypeOK'
    BY <1>1 DEF SetupTypeOK
  <2>2. SeedInv'
    BY <1>1, StaysPut DEF SeedInv
  <2>3. QED
    BY <2>1, <2>2
<1>2. CASE SetupNext
  BY <1>2, SeedUpsertKept, SeedBatchKept DEF SetupNext
<1>3. QED
  BY <1>1, <1>2
     DEF Next, vars, setupVars, Proceed, Lookup, SetAllowed, Post, Upsert, Write, Load, Fill,
         Publish, Expire, Abort

-----------------------------------------------------------------------------
(* Theorems *)

\* Every variable keeps its type; the invariants above hold.
THEOREM SettingsCorrect == Spec => [](CacheInv /\ SetupTypeOK /\ SeedInv)
<1>1. Init => CacheInv /\ SetupTypeOK /\ SeedInv
  BY CacheInit, SeedInit
<1>2. CacheInv /\ SetupTypeOK /\ SeedInv /\ [Next]_vars
        => (CacheInv /\ SetupTypeOK /\ SeedInv)'
  BY CacheKept, SeedKept
<1>3. QED
  BY <1>1, <1>2, PTL DEF Spec

THEOREM TypeCorrect == Spec => []TypeOK
<1>1. CacheInv /\ SetupTypeOK /\ SeedInv => TypeOK
  BY DEF CacheInv, TypeOK
<1>2. QED
  BY <1>1, SettingsCorrect, PTL

\* No reader is given what the table has not held (set: the upsert comes first).
THEOREM ServedWasThere == Spec => []ServedWasStored
<1>1. CacheInv /\ SetupTypeOK /\ SeedInv => ServedWasStored
  BY DEF CacheInv
<1>2. QED
  BY <1>1, SettingsCorrect, PTL

\* A cached setting is old only after an overlap or a failure (get, set, and the seed,
\* which overwrites nothing).
THEOREM OldOnlyByRace == Spec => []StaleNeedsRace
<1>1. CacheInv /\ SetupTypeOK /\ SeedInv => StaleNeedsRace
  BY DEF CacheInv
<1>2. QED
  BY <1>1, SettingsCorrect, PTL

\* A run of the seed that ends has put everything in place, whatever was there and
\* whatever else runs (main).
THEOREM SeedCompletes == Spec => []SeedRepairs
<1>1. ASSUME SetupTypeOK, SeedInv PROVE SeedRepairs
  BY <1>1, BatchesShape DEF SeedInv, SeedRepairs, Put, Finished
<1>2. QED
  BY <1>1, SettingsCorrect, PTL
=============================================================================
