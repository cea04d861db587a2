------------------------------ MODULE Accounts -------------------------------
(***************************************************************************)
(* What a user does to its own account, next to what others do to its row: *)
(* change of e-mail or phone, codes that verify them, the second factor.   *)
(*                                                                         *)
(* A code and a secret are named by the request that generated them; a     *)
(* call that presents one names the same.  E-mail and phone share one      *)
(* column for their code.                                                  *)
(***************************************************************************)
EXTENDS Directory

VARIABLES
  code,       \* code stored with each user
  usable,     \* whether it has not expired
  verified,   \* which of "email" and "phone" are verified
  secret,     \* secret of the second factor
  mfa,        \* whether login asks for it
  latest,     \* history: the last code stored
  accepted    \* history: codes and the calls they were accepted from

accountVars == <<code, usable, verified, secret, mfa, latest, accepted>>
vars == <<directoryVars, accountVars>>

OwnKinds == {"contact", "sendEmail", "sendPhone", "verifyEmail", "verifyPhone",
             "generate", "enable", "disable"}

\* target: the user; key: its new e-mail, None if it has none; phone: whether it has a
\* new phone; presents: the code or the secret that is given.
ASSUME AccountsAssumption ==
  \A r \in Requests :
    /\ Op[r].kind \in Kinds \cup OwnKinds
    /\ Op[r].kind \in OwnKinds => /\ Op[r].target \in Requests
                                 /\ Table(Op[r].target) = "user"

User(r) == Op[r].target
Channel(r) == IF Kind(r) = "verifyEmail" THEN "email" ELSE "phone"

\* Calls of the same user whose overlap is kept in met: one of the two clears what the
\* other has read, or stores what the other clears.
Verifies(r) == Kind(r) \in {"verifyEmail", "verifyPhone"}
Sends(r) == Kind(r) \in {"sendEmail", "sendPhone"}
Rivals(r) ==
  {s \in Requests \ {r} :
     /\ Kind(s) \in OwnKinds /\ User(s) = User(r)
     /\ \/ Verifies(r) /\ (Verifies(s) \/ Sends(s))
        \/ Sends(r) /\ Verifies(s)
        \/ {Kind(r), Kind(s)} = {"enable", "disable"}}

Init ==
  /\ DirectoryInit
  /\ code = [r \in Requests |-> None]
  /\ usable = [r \in Requests |-> FALSE]
  /\ verified = [r \in Requests |-> {}]
  /\ secret = [r \in Requests |-> None]
  /\ mfa = [r \in Requests |-> FALSE]
  /\ latest = [r \in Requests |-> None]
  /\ accepted = {}

\* The guard of the route lets a user in that is not removed.
Begins(r, kind) ==
  /\ pc[r] = "idle" /\ Kind(r) = kind
  /\ row[User(r)].live

Reads(r, kind, cond, next) ==
  /\ Begins(r, kind)
  /\ GotoIf(r, cond, next)
  /\ IF cond THEN Meets(r, Rivals(r)) ELSE UNCHANGED met
  /\ UNCHANGED <<row, found, accountVars>>

-----------------------------------------------------------------------------
(* updateContact *)

ContactRead(r) ==
  Reads(r, "contact", Holders("user", Op[r].key) \subseteq {User(r)}, "contact")

\* A new e-mail, a new phone or both are to be verified again; the code stays.
Replaced(r) ==
  (IF Op[r].key # None THEN {"email"} ELSE {}) \cup (IF Op[r].phone THEN {"phone"} ELSE {})
ContactWrite(r) ==
  LET x == User(r)
      key == Given(Op[r].key, row[x].key)
  IN /\ pc[r] = "contact"
     /\ IF KeyFree("user", key, x)
          THEN /\ row' = [row EXCEPT ![x].key = key]
               /\ verified' = [verified EXCEPT ![x] = @ \ Replaced(r)]
          ELSE UNCHANGED <<row, verified>>
     /\ Goto(r, "over")
     /\ UNCHANGED <<found, met, code, usable, secret, mfa, latest, accepted>>

-----------------------------------------------------------------------------
(* sendEmailVerification, sendPhoneVerification: the code is stored, then sent *)

\* By e-mail the read is the guard's own; by phone also a user without one is refused,
\* as by an Abort.
SendRead(r) == \E kind \in {"sendEmail", "sendPhone"} : Reads(r, kind, TRUE, "code")

StoreCode(r) ==
  /\ pc[r] = "code"
  /\ code' = [code EXCEPT ![User(r)] = r]
  /\ usable' = [usable EXCEPT ![User(r)] = TRUE]
  /\ latest' = [latest EXCEPT ![User(r)] = r]
  /\ Goto(r, "over")
  /\ UNCHANGED <<row, found, met, verified, secret, mfa, accepted>>

-----------------------------------------------------------------------------
(* verifyEmail, verifyPhone *)

Matches(r) == code[User(r)] # None /\ usable[User(r)] /\ code[User(r)] = Op[r].presents

\* Variant: a wrong code ends the verification in progress.
VerifyRead_WrongCodeEnds(r) ==
  \E kind \in {"verifyEmail", "verifyPhone"} :
    /\ Begins(r, kind)
    /\ GotoIf(r, Matches(r), "verify")
    /\ IF Matches(r) THEN Meets(r, Rivals(r)) ELSE UNCHANGED met
    /\ code' = IF Matches(r) THEN code ELSE [code EXCEPT ![User(r)] = None]
    /\ UNCHANGED <<row, found, usable, verified, secret, mfa, latest, accepted>>
VerifyRead(r) ==
  \E kind \in {"verifyEmail", "verifyPhone"} : Reads(r, kind, Matches(r), "verify")

ClearCode_Kept(x) == UNCHANGED <<code, usable>>
ClearCode(x) ==
  /\ code' = [code EXCEPT ![x] = None]
  /\ usable' = [usable EXCEPT ![x] = FALSE]

VerifyWrite(r) ==
  /\ pc[r] = "verify"
  /\ verified' = [verified EXCEPT ![User(r)] = @ \cup {Channel(r)}]
  /\ ClearCode(User(r))
  /\ accepted' = accepted \cup {<<Op[r].presents, r>>}
  /\ Goto(r, "over")
  /\ UNCHANGED <<row, found, met, secret, mfa, latest>>

ExpireCode(x) ==
  /\ usable[x]
  /\ usable' = [usable EXCEPT ![x] = FALSE]
  /\ UNCHANGED <<directoryVars, code, verified, secret, mfa, latest, accepted>>

-----------------------------------------------------------------------------
(* generateMfaSecret, enableMfa, disableMfa *)

GenerateRead(r) == Reads(r, "generate", TRUE, "secret")

SetMfa(r, s, on) ==
  /\ secret' = [secret EXCEPT ![User(r)] = s]
  /\ mfa' = [mfa EXCEPT ![User(r)] = on]
  /\ Goto(r, "over")
  /\ UNCHANGED <<row, found, met, code, usable, verified, latest, accepted>>

GenerateWrite(r) == pc[r] = "secret" /\ SetMfa(r, r, mfa[User(r)])

Proves(r) == secret[User(r)] # None /\ Op[r].presents = secret[User(r)]

EnableRead(r) == Reads(r, "enable", Proves(r), "on")
EnableWrite(r) == pc[r] = "on" /\ SetMfa(r, secret[User(r)], TRUE)

DisableRead(r) == Reads(r, "disable", Proves(r), "off")
AfterDisable_SecretOnly(r) == mfa[User(r)]
AfterDisable(r) == FALSE
DisableWrite(r) == pc[r] = "off" /\ SetMfa(r, None, AfterDisable(r))

-----------------------------------------------------------------------------
Abort(r) ==
  InFlight(r) /\ Goto(r, "over") /\ UNCHANGED <<row, found, met, accountVars>>

OwnNext(r) ==
  \/ ContactRead(r) \/ ContactWrite(r)
  \/ SendRead(r) \/ StoreCode(r)
  \/ VerifyRead(r) \/ VerifyWrite(r)
  \/ GenerateRead(r) \/ GenerateWrite(r)
  \/ EnableRead(r) \/ EnableWrite(r) \/ DisableRead(r) \/ DisableWrite(r)

Next ==
  \/ \E r \in Requests : \/ DirectoryNext(r) /\ UNCHANGED accountVars
                         \/ OwnNext(r) \/ Abort(r)
  \/ \E x \in Requests : ExpireCode(x)

Spec == Init /\ [][Next]_vars

-----------------------------------------------------------------------------
(* Properties *)

TypeOK ==
  /\ row \in [Requests -> [there : BOOLEAN, live : BOOLEAN, active : BOOLEAN,
                           key : {Op[r].key : r \in Requests} \cup {None},
                           email : {Op[r].email : r \in Requests} \cup {None}]]
  /\ \A x \in Requests : row[x].there <=> row[x].key # None
  /\ \A x \in Requests : row[x].active => row[x].email # None
  /\ pc \in [Requests -> {"idle", "branch", "insert", "write", "email", "password",
               "contact", "code", "verify", "secret", "on", "off", "over"}]
  /\ found \in [Requests -> Requests \cup {None}]
  /\ met \subseteq SUBSET Requests
  /\ code \in [Requests -> Requests \cup {None}]
  /\ usable \in [Requests -> BOOLEAN]
  /\ verified \in [Requests -> SUBSET {"email", "phone"}]
  /\ secret \in [Requests -> Requests \cup {None}]
  /\ mfa \in [Requests -> BOOLEAN]
  /\ latest \in [Requests -> Requests \cup {None}]
  /\ accepted \subseteq Requests \X Requests

\* A row that was removed comes back, and a row goes, only by a call that says so: an
\* edit, a change of contact, an activation or a code that was under way when the row
\* was removed does not undo the removal (update, updateContact, activate by id).
RemovedStays ==
  [][\A x \in Requests : row[x].there /\ row'[x].live # row[x].live =>
       \E r \in Requests : /\ pc[r] = "write" /\ pc'[r] = "over" /\ Op[r].target = x
                           /\ Kind(r) = IF row[x].live THEN "remove" ELSE "reactivate"
    ]_vars

\* The last code a user was sent is accepted until it is used or expires: wrong guesses,
\* a change of contact, failures in between and a removal do not lose it, only a
\* verification by an older code that was under way when it was stored; and a code is
\* accepted once, by e-mail or by phone, or by calls that were under way together
\* (sendEmailVerification, verifyEmail and their twins).
SentCodeWorksOnce ==
  /\ \A x \in Requests :
       \/ latest[x] \in {None, code[x]} \cup {a[1] : a \in accepted}
       \/ \E v \in Requests : Verifies(v) /\ User(v) = x /\ {v, latest[x]} \in met
  /\ \A a, b \in accepted : a[1] = b[1] => a = b \/ {a[2], b[2]} \in met

\* A login that asks for a code has a secret to check it with, which login takes for
\* granted (auth.service.ts:56, user.mfaSecret!): the user is locked out only where an
\* enableMfa and a disableMfa were under way together.
MfaHasSecret ==
  \A x \in Requests : mfa[x] /\ secret[x] = None =>
    \E r, s \in Requests : /\ Kind(r) = "enable" /\ Kind(s) = "disable"
                           /\ User(r) = x /\ User(s) = x /\ {r, s} \in met
=============================================================================
