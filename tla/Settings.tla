------------------------------ MODULE Settings -------------------------------
(***************************************************************************)
(* Cached reads: the settings, which loans, tontines and interest read     *)
(* their rates from, and the views of the dashboard.                       *)
(*                                                                         *)
(* PostgreSQL has the value and Redis a copy that lives for a time.  The   *)
(* handlers go from one to the other in separate statements: a reader that *)
(* misses stores what it read, SettingsService.set stores its value after  *)
(* the upsert, and what changes a view (any posting) does not touch the    *)
(* copy.                                                                   *)
(***************************************************************************)
EXTENDS Setup, FiniteSets

CONSTANTS
  Requests,   \* calls of the handlers
  Op          \* what each request asks for

VARIABLES
  cache,    \* copy of each value, None when there is none
  pc,       \* statement each request is at
  seen,     \* value a reader loaded and is about to cache and answer
  raced     \* history: keys written while an older value was on its way to the
            \* cache, or by a call that died before it reached the cache

cacheVars == <<cache, pc, seen, raced>>
vars == <<setupVars, cacheVars>>

ASSUME SettingsAssumption ==
  \A r \in Requests :
    /\ \/ Op[r].kind = "get" /\ Op[r].key \in Keys
       \/ Op[r].kind = "set" /\ Op[r].key \in Settings
       \/ Op[r].kind = "post" /\ Op[r].key \in Views
    /\ Op[r].value # None

Key(r) == Op[r].key
InFlight(r) == pc[r] \notin {"idle", "over"}
Goto(r, p) == pc' = [pc EXCEPT ![r] = p]

Init ==
  /\ SetupInit
  /\ cache = [k \in Keys |-> None]
  /\ pc = [r \in Requests |-> "idle"]
  /\ seen = [r \in Requests |-> None]
  /\ raced = {}

-----------------------------------------------------------------------------
(* get; getBranchSummary, getPortfolioAtRisk *)

\* It answers what the cache has.
Lookup(r) ==
  /\ pc[r] = "idle" /\ Op[r].kind = "get"
  /\ Goto(r, IF cache[Key(r)] # None THEN "over" ELSE "load")
  /\ UNCHANGED <<setupVars, cache, seen, raced>>

\* A setting without a row is an error (404).
Load(r) ==
  /\ pc[r] = "load"
  /\ seen' = [seen EXCEPT ![r] = source[Key(r)]]
  /\ Goto(r, IF source[Key(r)] = None THEN "over" ELSE "fill")
  /\ UNCHANGED <<setupVars, cache, raced>>

Fill(r) ==
  /\ pc[r] = "fill"
  /\ cache' = [cache EXCEPT ![Key(r)] = seen[r]]
  /\ seen' = [seen EXCEPT ![r] = None]
  /\ Goto(r, "over")
  /\ UNCHANGED <<setupVars, raced>>

-----------------------------------------------------------------------------
(* set; what changes a view *)

\* Requests that are about to put in the cache something else than v.
Late(k, v) ==
  {r \in Requests : Key(r) = k /\ \/ pc[r] = "fill" /\ seen[r] # v
                                  \/ pc[r] = "publish" /\ Op[r].value # v}

SetAllowed_PublishFirst(r) ==
  /\ pc[r] = "idle" /\ Op[r].kind = "set"
  /\ Allowed(Op[r].role, "settings")
  /\ cache' = [cache EXCEPT ![Key(r)] = Op[r].value]
  /\ Goto(r, "upsert")
  /\ UNCHANGED <<setupVars, seen, raced>>
SetAllowed(r) ==
  /\ pc[r] = "idle" /\ Op[r].kind = "set"
  /\ Goto(r, IF Allowed(Op[r].role, "settings") THEN "upsert" ELSE "over")
  /\ UNCHANGED <<setupVars, cache, seen, raced>>

Write(r, next) ==
  /\ Store(Key(r), Op[r].value)
  /\ raced' = IF Late(Key(r), Op[r].value) # {} THEN raced \cup {Key(r)} ELSE raced
  /\ Goto(r, next)
  /\ UNCHANGED <<rows, stage, left, cache, seen>>

AfterUpsert_NoPublish == "over"
AfterUpsert == "publish"

Upsert(r) == pc[r] = "upsert" /\ Write(r, AfterUpsert)

Post(r) == pc[r] = "idle" /\ Op[r].kind = "post" /\ Write(r, "over")

Publish(r) ==
  /\ pc[r] = "publish"
  /\ cache' = [cache EXCEPT ![Key(r)] = Op[r].value]
  /\ Goto(r, "over")
  /\ UNCHANGED <<setupVars, seen, raced>>

-----------------------------------------------------------------------------
(* The end of an entry; of a request *)

Expires_Never(k) == FALSE
Expires(k) == cache[k] # None

Expire(k) ==
  /\ Expires(k)
  /\ cache' = [cache EXCEPT ![k] = None]
  /\ raced' = IF Late(k, source[k]) = {} THEN raced \ {k} ELSE raced
  /\ UNCHANGED <<setupVars, pc, seen>>

\* A lost connection or a restart, at any statement: nothing is undone.
Abort(r) ==
  /\ InFlight(r)
  /\ Goto(r, "over")
  /\ raced' = IF pc[r] = "publish" THEN raced \cup {Key(r)} ELSE raced
  /\ seen' = [seen EXCEPT ![r] = None]
  /\ UNCHANGED <<setupVars, cache>>

-----------------------------------------------------------------------------
Proceed(r) == Load(r) \/ Fill(r) \/ Upsert(r) \/ Publish(r)

Next ==
  \/ SetupNext /\ UNCHANGED cacheVars
  \/ \E k \in Keys : Expire(k)
  \/ \E r \in Requests : \/ Lookup(r) \/ SetAllowed(r) \/ Post(r)
                         \/ Proceed(r) \/ Abort(r)

Spec == Init /\ [][Next]_vars

\* Redis drops an entry when its time is over; a request that was received goes on.
\* Nothing makes requests come, fail, or the seed go on.
Fairness ==
  /\ \A k \in Keys : WF_vars(Expire(k))
  /\ \A r \in Requests : WF_vars(Proceed(r))
FairSpec == Spec /\ Fairness

-----------------------------------------------------------------------------
(* Properties *)

Values == {Op[r].value : r \in Requests} \cup {Default[k] : k \in Keys}
Maybe == Values \cup {None}

CacheTypeOK ==
  /\ source \in [Keys -> Maybe]
  /\ past \in [Keys -> SUBSET Values]
  /\ cache \in [Keys -> Maybe]
  /\ pc \in [Requests -> {"idle", "load", "fill", "upsert", "publish", "over"}]
  /\ seen \in [Requests -> Maybe]
  /\ \A r \in Requests : pc[r] = "fill" <=> seen[r] # None
  /\ raced \subseteq Keys

TypeOK == SetupTypeOK /\ CacheTypeOK

\* No reader is ever given, and the cache never holds, a value that the table has
\* not held: a change that fails halfway is not announced (set: the upsert first).
ServedWasStored ==
  /\ \A k \in Keys : cache[k] \in past[k] \cup {None}
  /\ \A r \in Requests : seen[r] \in past[Key(r)] \cup {None}

Stale(k) == cache[k] \notin {None, source[k]}

\* A cached setting differs from the table only while the call that changed it is
\* about to publish it, or because another reader or writer of that setting
\* overlapped it, or because it died in between: callers one at a time never see an
\* old rate (get, set).
StaleNeedsRace ==
  \A k \in Settings : Stale(k) =>
    \/ k \in raced
    \/ \E r \in Requests : /\ pc[r] = "publish" /\ Key(r) = k
                           /\ Op[r].value = source[k]

\* Whatever raced, and whatever died, the cache agrees with the database in the end:
\* a stale entry does not outlive its time (3600 and 300 seconds).
FreshInTheEnd == <>[](\A k \in Keys : ~Stale(k))
=============================================================================
