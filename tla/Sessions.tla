------------------------------ MODULE Sessions -------------------------------
(***************************************************************************)
(* The sessions of one user: the refresh tokens that AuthService issues,   *)
(* rotates and revokes.  Tokens that descend from one login are a family.  *)
(*                                                                         *)
(* No handler opens a transaction: each of its statements commits by       *)
(* itself, and a crash between two of them leaves the first one done.      *)
(*                                                                         *)
(* A definition Name_Variant is not part of the model: it is Name with the *)
(* mistake its variant says, kept to see the properties fail.              *)
(***************************************************************************)
EXTENDS Integers

CONSTANTS
  Requests,   \* requests the service receives, each served once
  Op,         \* what a request asks for, and the token it is about
  NoToken

VARIABLES
  token,      \* refresh_tokens row each login or refresh created
  code,       \* TRUE while a reset code was sent and can be used
  pc,         \* control point of each request
  exchanged,  \* history: refreshes that have revoked each token to exchange it
  began       \* history: those that had, when each refresh read its token

history == <<exchanged, began>>
vars == <<token, code, pc, history>>

-----------------------------------------------------------------------------

Kinds == {"login", "refresh", "logout", "revoke", "revokeOthers", "forgot", "reset"}

\* A token is named by the request that issued it.
OpType == [kind: Kinds, token: Requests]

Token == [family: Requests, revoked: BOOLEAN, expired: BOOLEAN]

ASSUME SessionsAssumption ==
  /\ Op \in [Requests -> OpType]
  /\ NoToken \notin Token

Points == {"idle", "reuse", "rotate", "issue", "revoke", "password", "revokeAll",
           "done", "failed"}

Kind(r) == Op[r].kind
Target(r) == Op[r].token

InFlight(r) == pc[r] \notin {"idle", "done", "failed"}
Goto(r, point) == pc' = [pc EXCEPT ![r] = point]
Starts(r, kind) == pc[r] = "idle" /\ Kind(r) = kind

Issued(t) == token[t] # NoToken

\* The caller was answered with the token.
Held(t) == Issued(t) /\ pc[t] = "done"

Family(f) == {t \in Requests : Issued(t) /\ token[t].family = f}

Revoke(S) ==
  token' = [t \in Requests |->
              IF t \in S /\ Issued(t) THEN [token[t] EXCEPT !.revoked = TRUE]
              ELSE token[t]]

Init ==
  /\ token = [r \in Requests |-> NoToken]
  /\ code = FALSE
  /\ pc = [r \in Requests |-> "idle"]
  /\ exchanged = [t \in Requests |-> {}]
  /\ began = [r \in Requests |-> {}]

-----------------------------------------------------------------------------
(* login and refresh *)

\* Wrong credentials, or an MFA code that is wrong or missing, issue nothing.
LoginRead(r) ==
  /\ Starts(r, "login")
  /\ Goto(r, "issue") \/ Goto(r, "failed")
  /\ UNCHANGED <<token, code, history>>

Reused_Never(t) == FALSE
Reused(t) == token[t].revoked

Lapsed_Never(t) == FALSE
Lapsed(t) == token[t].expired

RefreshRead(r) ==
  /\ Starts(r, "refresh")
  /\ Held(Target(r))
  /\ \/ Reused(Target(r)) /\ Goto(r, "reuse")
     \/ ~Reused(Target(r)) /\ Lapsed(Target(r)) /\ Goto(r, "failed")
     \/ ~Reused(Target(r)) /\ ~Lapsed(Target(r)) /\ Goto(r, "rotate")
  /\ began' = [began EXCEPT ![r] = exchanged[Target(r)]]
  /\ UNCHANGED <<token, code, exchanged>>

\* A token that was already consumed ends its family.
EndFamily(r) ==
  /\ pc[r] = "reuse"
  /\ Revoke(Family(token[Target(r)].family))
  /\ Goto(r, "failed")
  /\ UNCHANGED <<code, history>>

\* The old token is revoked, by id, before the new one is created.
Replaced_Nothing(r) == {}
Replaced(r) == {Target(r)}

Rotate(r) ==
  /\ pc[r] = "rotate"
  /\ Revoke(Replaced(r))
  /\ Goto(r, "issue")
  /\ exchanged' = [exchanged EXCEPT ![Target(r)] = @ \cup {r}]
  /\ UNCHANGED <<code, began>>

\* issueTokens: a login starts a family, a refresh continues one.
NewFamily(r) == IF Kind(r) = "login" THEN r ELSE token[Target(r)].family

Issue(r) ==
  /\ pc[r] = "issue"
  /\ token' = [token EXCEPT ![r] =
                 [family |-> NewFamily(r), revoked |-> FALSE, expired |-> FALSE]]
  /\ Goto(r, "done")
  /\ UNCHANGED <<code, history>>

-----------------------------------------------------------------------------
(* Revocation *)

Logout(r) ==
  /\ Starts(r, "logout")
  /\ Held(Target(r))
  /\ Revoke({Target(r)})
  /\ Goto(r, "done")
  /\ UNCHANGED <<code, history>>

\* revokeSession looks the token up by its id, then updates it.
RevokeRead(r) ==
  /\ Starts(r, "revoke")
  /\ Goto(r, IF Issued(Target(r)) THEN "revoke" ELSE "failed")
  /\ UNCHANGED <<token, code, history>>

RevokeSession(r) ==
  /\ pc[r] = "revoke"
  /\ Revoke({Target(r)})
  /\ Goto(r, "done")
  /\ UNCHANGED <<code, history>>

RevokeOthers(r) ==
  /\ Starts(r, "revokeOthers")
  /\ Revoke(Requests \ {Target(r)})
  /\ Goto(r, "done")
  /\ UNCHANGED <<code, history>>

Forgot(r) ==
  /\ Starts(r, "forgot")
  /\ code' = TRUE
  /\ Goto(r, "done")
  /\ UNCHANGED <<token, history>>

\* resetPassword: find the code, set the password, revoke every token.
ResetRead(r) ==
  /\ Starts(r, "reset")
  /\ Goto(r, IF code THEN "password" ELSE "failed")
  /\ UNCHANGED <<token, code, history>>

SetPassword(r) ==
  /\ pc[r] = "password"
  /\ code' = FALSE
  /\ Goto(r, "revokeAll")
  /\ UNCHANGED <<token, history>>

RevokeAll(r) ==
  /\ pc[r] = "revokeAll"
  /\ Revoke(Requests)
  /\ Goto(r, "done")
  /\ UNCHANGED <<code, history>>

-----------------------------------------------------------------------------
(* Time and failure *)

ExpireToken(t) ==
  /\ Issued(t) /\ ~token[t].expired
  /\ token' = [token EXCEPT ![t].expired = TRUE]
  /\ UNCHANGED <<code, pc, history>>

ExpireCode == code /\ code' = FALSE /\ UNCHANGED <<token, pc, history>>

\* Statements already made stay made.
Crash(r) == InFlight(r) /\ Goto(r, "failed") /\ UNCHANGED <<token, code, history>>

Serve(r) == \/ LoginRead(r) \/ RefreshRead(r) \/ EndFamily(r) \/ Rotate(r) \/ Issue(r)
            \/ Logout(r) \/ RevokeRead(r) \/ RevokeSession(r) \/ RevokeOthers(r)
            \/ Forgot(r) \/ ResetRead(r) \/ SetPassword(r) \/ RevokeAll(r)

Next == \/ \E r \in Requests : Serve(r) \/ Crash(r) \/ ExpireToken(r)
        \/ ExpireCode

Spec == Init /\ [][Next]_vars

-----------------------------------------------------------------------------
(* Properties *)

TypeOK ==
  /\ token \in [Requests -> Token \cup {NoToken}]
  /\ code \in BOOLEAN
  /\ pc \in [Requests -> Points]
  /\ exchanged \in [Requests -> SUBSET Requests]
  /\ began \in [Requests -> SUBSET Requests]

Live(t) == Issued(t) /\ ~token[t].revoked /\ ~token[t].expired

\* A token that was exchanged for another is never usable next to it, wherever the
\* refresh was interrupted (auth.service.ts:127: on revoque l'ancien avant d'en
\* emettre un nouveau).
RotatedIsRevoked ==
  \A r \in Requests :
    Kind(r) = "refresh" /\ Issued(r) =>
      Issued(Target(r)) /\ token[Target(r)].revoked

\* Two refreshes exchanged the token, and each read it before the other exchanged it.
Forked(t) ==
  \E r, s \in exchanged[t] : r # s /\ r \notin began[s] /\ s \notin began[r]

\* A family has one usable token at most, unless one of its tokens was forked: neither
\* a later refresh of a token that was exchanged, nor refreshes of different tokens of
\* the family at the same time, give a second one (refresh: ce token a deja ete
\* consomme).
OneLive ==
  \A t, u \in Requests :
    Live(t) /\ Live(u) /\ token[t].family = token[u].family /\ t # u =>
      \E w \in Family(token[t].family) : Forked(w)

Refreshing(r, f) ==
  /\ Kind(r) = "refresh" /\ pc[r] \in {"rotate", "issue"}
  /\ Target(r) \in Family(f)

\* A session ends when none of its tokens is usable and none is being exchanged.
Ended(f) ==
  /\ Family(f) # {}
  /\ \A t \in Family(f) : ~Live(t)
  /\ \A r \in Requests : ~Refreshing(r, f)

\* A session that has ended, by expiry, logout, revocation, reuse or a crash in the
\* middle of a refresh, never comes back.
EndedStays == [][\A f \in Requests : Ended(f) => Ended(f)']_vars
=============================================================================
