--------------------------- MODULE SessionsProofs ----------------------------
(***************************************************************************)
(* Theorems about Sessions for every set of requests: the exchanged token  *)
(* is revoked, a session that ended stays ended, and a family has one      *)
(* usable token unless two refreshes exchanged the same one.               *)
(***************************************************************************)
EXTENDS Sessions, TLAPS

\* Where each request stands with its token, and with the token it issues.
WorkInv ==
  \A r \in Requests :
    /\ Issued(r) => /\ pc[r] = "done"
                    /\ Issued(token[r].family)
    /\ pc[r] \in {"reuse", "rotate"} => Kind(r) = "refresh"
    /\ pc[r] = "issue" => Kind(r) \in {"login", "refresh"}
    /\ Kind(r) = "refresh" /\ pc[r] \in {"reuse", "rotate", "issue"} => Issued(Target(r))
    /\ Kind(r) = "refresh" /\ pc[r] = "issue" => token[Target(r)].revoked

SessionInv == TypeOK /\ WorkInv /\ RotatedIsRevoked

HistoryOK ==
  exchanged \in [Requests -> SUBSET Requests] /\ began \in [Requests -> SUBSET Requests]

\* A step that issues nothing and makes no token usable.
Shrinks ==
  \A t \in Requests :
    /\ token'[t] = NoToken <=> token[t] = NoToken
    /\ token[t] # NoToken =>
         /\ token'[t].family = token[t].family
         /\ token[t].revoked => token'[t].revoked
         /\ token[t].expired => token'[t].expired

-----------------------------------------------------------------------------

USE DEF Kind, Target, Goto, Starts, Issued, TypeOK, OpType

\* What Revoke does to the table of tokens.
LEMMA RevokeShrinks ==
  ASSUME TypeOK, NEW S, Revoke(S)
  PROVE  /\ Shrinks
         /\ token' \in [Requests -> Token \cup {NoToken}]
         /\ \A t \in S \cap Requests : Issued(t) => token'[t].revoked
<1>1. token' = [t \in Requests |->
                 IF t \in S /\ token[t] # NoToken THEN [token[t] EXCEPT !.revoked = TRUE]
                 ELSE token[t]]
  BY DEF Revoke
<1>2. ASSUME NEW t \in Requests
      PROVE  /\ token'[t] \in Token \cup {NoToken}
             /\ token'[t] = NoToken <=> token[t] = NoToken
             /\ token[t] # NoToken =>
                  /\ token'[t].family = token[t].family
                  /\ token[t].revoked => token'[t].revoked
                  /\ token[t].expired => token'[t].expired
                  /\ t \in S => token'[t].revoked
  <2>1. CASE t \in S /\ token[t] # NoToken
    <3>1. token[t] \in Token /\ token'[t] = [token[t] EXCEPT !.revoked = TRUE]
      BY <1>1, <2>1
    <3>2. token'[t] \in Token
      BY <3>1 DEF Token
    <3>3. token'[t] # NoToken
      BY <3>2, SessionsAssumption
    <3>4. /\ token'[t].family = token[t].family
          /\ token'[t].revoked
          /\ token'[t].expired = token[t].expired
      BY <3>1 DEF Token
    <3>5. QED
      BY <2>1, <3>2, <3>3, <3>4
  <2>2. CASE ~(t \in S /\ token[t] # NoToken)
    <3>1. token'[t] = token[t]
      BY <1>1, <2>2
    <3>2. QED
      BY <2>2, <3>1
  <2>3. QED
    BY <2>1, <2>2
<1>3. QED
  BY <1>1, <1>2 DEF Shrinks

\* What is usable after such a step was usable before, in the same family.
LEMMA ShrinkingLive ==
  ASSUME TypeOK, TypeOK', Shrinks
  PROVE  /\ \A t \in Requests : Live(t)' => Live(t)
         /\ \A t \in Requests : Issued(t)' <=> Issued(t)
         /\ \A f \in Requests : Family(f)' = Family(f)
BY DEF Shrinks, Live, Family

\* A step that issues nothing and moves request r on.
LEMMA MoveOn ==
  ASSUME SessionInv, NEW r \in Requests, NEW point \in Points, pc[r] # "done",
         pc' = [pc EXCEPT ![r] = point], Shrinks,
         token' \in [Requests -> Token \cup {NoToken}], code' \in BOOLEAN, HistoryOK',
         point \in {"reuse", "rotate"} => Kind(r) = "refresh",
         point = "issue" => Kind(r) \in {"login", "refresh"},
         Kind(r) = "refresh" /\ point \in {"reuse", "rotate", "issue"} => Issued(Target(r)),
         Kind(r) = "refresh" /\ point = "issue" => token'[Target(r)].revoked
  PROVE  SessionInv'
<1>1. TypeOK'
  BY DEF SessionInv, HistoryOK
<1>2. \A s \in Requests : Op[s] \in OpType /\ Target(s) \in Requests
  BY SessionsAssumption
<1>3. WorkInv'
  BY <1>1, <1>2 DEF SessionInv, WorkInv, Shrinks, Token
<1>4. RotatedIsRevoked'
  <2>1. SUFFICES ASSUME NEW s \in Requests, Kind(s) = "refresh", token'[s] # NoToken
                 PROVE  token'[Target(s)] # NoToken /\ token'[Target(s)].revoked
    BY DEF RotatedIsRevoked
  <2>2. /\ token[s] # NoToken
          /\ token[Target(s)] # NoToken /\ token[Target(s)].revoked
    BY <2>1 DEF SessionInv, RotatedIsRevoked, Shrinks
  <2>3. QED
    BY <1>2, <2>2 DEF Shrinks, SessionInv
<1>5. QED
  BY <1>1, <1>3, <1>4 DEF SessionInv

-----------------------------------------------------------------------------
(* Every action preserves SessionInv. *)

\* The histories are about requests.
LEMMA HistoryTyped ==
  ASSUME SessionInv, NEW r \in Requests, Serve(r) \/ Crash(r)
  PROVE  HistoryOK'
<1>1. Target(r) \in Requests /\ exchanged[Target(r)] \in SUBSET Requests
  BY SessionsAssumption DEF SessionInv
<1>2. \/ UNCHANGED <<exchanged, began>>
      \/ exchanged' = exchanged /\ began' = [began EXCEPT ![r] = exchanged[Target(r)]]
      \/ /\ began' = began
         /\ exchanged' = [exchanged EXCEPT ![Target(r)] = exchanged[Target(r)] \cup {r}]
  BY DEF Serve, Crash, LoginRead, RefreshRead, EndFamily, Rotate, Issue, Logout, RevokeRead,
     RevokeSession, RevokeOthers, Forgot, ResetRead, SetPassword, RevokeAll, history
<1>3. QED
  BY <1>1, <1>2 DEF SessionInv, HistoryOK

LEMMA InitSession == Init => SessionInv
BY SessionsAssumption DEF Init, SessionInv, WorkInv, RotatedIsRevoked, Points

LEMMA ReadStep ==
  ASSUME SessionInv, NEW r \in Requests,
         \/ LoginRead(r) \/ RefreshRead(r)
         \/ RevokeRead(r) \/ ResetRead(r) \/ Crash(r)
  PROVE  SessionInv'
<1>1. /\ Shrinks
      /\ UNCHANGED <<token, code>> /\ pc[r] # "done"
  BY DEF Shrinks, LoginRead, RefreshRead, RevokeRead, ResetRead, Crash, InFlight
<1>2. PICK point \in Points :
        /\ pc' = [pc EXCEPT ![r] = point]
        /\ point \in {"reuse", "rotate"} => Kind(r) = "refresh" /\ Issued(Target(r))
        /\ point = "issue" => Kind(r) = "login"
  BY DEF LoginRead, RefreshRead, RevokeRead, ResetRead, Crash, Held, Points
<1>3. HistoryOK'
  BY HistoryTyped DEF Serve
<1>4. QED
  BY <1>1, <1>2, <1>3, MoveOn DEF SessionInv

LEMMA RevokeStep ==
  ASSUME SessionInv, NEW r \in Requests,
         \/ EndFamily(r) \/ Rotate(r) \/ Logout(r)
         \/ RevokeSession(r) \/ RevokeOthers(r) \/ RevokeAll(r)
  PROVE  SessionInv'
<1>0. \E S : \E point \in Points :
        /\ Revoke(S)
        /\ pc' = [pc EXCEPT ![r] = point]
        /\ point \notin {"reuse", "rotate"}
        /\ point = "issue" => pc[r] = "rotate" /\ S = {Target(r)}
  <2>1. CASE EndFamily(r)
    BY <2>1 DEF EndFamily, Points
  <2>2. CASE Rotate(r)
    <3>1. /\ Revoke({Target(r)}) /\ pc[r] = "rotate"
          /\ pc' = [pc EXCEPT ![r] = "issue"] /\ "issue" \in Points
      BY <2>2 DEF Rotate, Replaced, Points
    <3>2. QED
      BY <3>1
  <2>3. CASE Logout(r) \/ RevokeSession(r) \/ RevokeOthers(r) \/ RevokeAll(r)
    <3>1. /\ \E S : Revoke(S)
          /\ pc' = [pc EXCEPT ![r] = "done"] /\ "done" \in Points
      BY <2>3 DEF Logout, RevokeSession, RevokeOthers, RevokeAll, Points
    <3>2. QED
      BY <3>1
  <2>4. QED
    BY <2>1, <2>2, <2>3
<1>1. PICK S : \E point \in Points :
        /\ Revoke(S)
        /\ pc' = [pc EXCEPT ![r] = point]
        /\ point \notin {"reuse", "rotate"}
        /\ point = "issue" => pc[r] = "rotate" /\ S = {Target(r)}
  BY <1>0
<1>2. PICK point \in Points :
        /\ Revoke(S)
        /\ pc' = [pc EXCEPT ![r] = point]
        /\ point \notin {"reuse", "rotate"}
        /\ point = "issue" => pc[r] = "rotate" /\ S = {Target(r)}
  BY <1>1
<1>3. pc[r] # "done" /\ code' = code
  BY DEF EndFamily, Rotate, Logout, RevokeSession, RevokeOthers, RevokeAll
<1>4. /\ Shrinks
      /\ token' \in [Requests -> Token \cup {NoToken}]
      /\ \A t \in S \cap Requests : Issued(t) => token'[t].revoked
  BY <1>2, RevokeShrinks DEF SessionInv
<1>5. Target(r) \in Requests
  BY SessionsAssumption
<1>6. point = "issue" =>
        Kind(r) = "refresh" /\ Issued(Target(r)) /\ token'[Target(r)].revoked
  BY <1>2, <1>4, <1>5 DEF SessionInv, WorkInv
<1>7. HistoryOK'
  BY HistoryTyped DEF Serve
<1>8. QED
  BY <1>2, <1>3, <1>4, <1>6, <1>7, MoveOn DEF SessionInv

LEMMA CodeStep ==
  ASSUME SessionInv, NEW r \in Requests, Forgot(r) \/ SetPassword(r)
  PROVE  SessionInv'
<1>1. Shrinks /\ token' = token /\ code' \in BOOLEAN /\ pc[r] # "done"
  BY DEF Shrinks, Forgot, SetPassword
<1>2. PICK point \in {"done", "revokeAll"} : pc' = [pc EXCEPT ![r] = point]
  BY DEF Forgot, SetPassword
<1>3. point \in Points
  BY DEF Points
<1>4. HistoryOK'
  BY HistoryTyped DEF Serve
<1>5. QED
  BY <1>1, <1>2, <1>3, <1>4, MoveOn DEF SessionInv

LEMMA TimeShrinks ==
  ASSUME SessionInv, NEW t \in Requests, ExpireToken(t)
  PROVE  Shrinks /\ token' \in [Requests -> Token \cup {NoToken}]
<1>1. /\ token[t] \in Token
      /\ token' = [token EXCEPT ![t] = [token[t] EXCEPT !.expired = TRUE]]
  BY DEF ExpireToken, SessionInv
<1>2. /\ [token[t] EXCEPT !.expired = TRUE] \in Token
      /\ [token[t] EXCEPT !.expired = TRUE].family = token[t].family
      /\ [token[t] EXCEPT !.expired = TRUE].revoked = token[t].revoked
      /\ [token[t] EXCEPT !.expired = TRUE].expired = TRUE
  BY <1>1 DEF Token
<1>3. [token[t] EXCEPT !.expired = TRUE] # NoToken
  BY <1>2, SessionsAssumption
<1>4. token'[t] = [token[t] EXCEPT !.expired = TRUE]
  BY <1>1 DEF SessionInv
<1>5. \A u \in Requests \ {t} : token'[u] = token[u]
  BY <1>1 DEF SessionInv
<1>6. token[t] # NoToken
  BY DEF ExpireToken
<1>7. Shrinks
  BY <1>2, <1>3, <1>4, <1>5, <1>6 DEF Shrinks
<1>8. QED
  BY <1>1, <1>2, <1>7 DEF SessionInv

LEMMA TimeStep ==
  ASSUME SessionInv, NEW t \in Requests, ExpireToken(t) \/ ExpireCode
  PROVE  SessionInv'
<1>1. Shrinks /\ token' \in [Requests -> Token \cup {NoToken}]
  BY TimeShrinks DEF ExpireCode, Shrinks, SessionInv
<1>2. pc' = pc /\ code' \in BOOLEAN /\ exchanged' = exchanged /\ began' = began
  BY DEF ExpireToken, ExpireCode, SessionInv, history
<1>3. TypeOK'
  BY <1>1, <1>2 DEF SessionInv
<1>4. \A s \in Requests : Op[s] \in OpType /\ Target(s) \in Requests
  BY SessionsAssumption
<1>5. WorkInv'
  BY <1>1, <1>2, <1>4 DEF SessionInv, WorkInv, Shrinks, Token
<1>6. RotatedIsRevoked'
  BY <1>1, <1>4 DEF SessionInv, RotatedIsRevoked, Shrinks
<1>7. QED
  BY <1>3, <1>5, <1>6 DEF SessionInv

\* What Issue adds to the table of tokens.
LEMMA IssueAdds ==
  ASSUME SessionInv, NEW r \in Requests, Issue(r)
  PROVE  /\ token[r] = NoToken /\ token'[r] \in Token
         /\ token'[r].family = NewFamily(r)
         /\ NewFamily(r) \in Requests
         /\ \A t \in Requests \ {r} : token'[t] = token[t]
         /\ pc' = [pc EXCEPT ![r] = "done"]
         /\ code' = code
<1>1. token[r] = NoToken
  BY DEF Issue, SessionInv, WorkInv
<1>2. NewFamily(r) \in Requests
  <2>1. Kind(r) # "login" => token[Target(r)] \in Token
    BY SessionsAssumption DEF Issue, SessionInv, WorkInv
  <2>2. QED
    BY <2>1 DEF NewFamily, Token
<1>3. token' = [token EXCEPT ![r] =
                  [family |-> NewFamily(r), revoked |-> FALSE, expired |-> FALSE]]
  BY DEF Issue
<1>4. token'[r] = [family |-> NewFamily(r), revoked |-> FALSE, expired |-> FALSE]
  BY <1>3 DEF SessionInv
<1>5. QED
  BY <1>1, <1>2, <1>3, <1>4 DEF Token, Issue, SessionInv

LEMMA IssueStep ==
  ASSUME SessionInv, NEW r \in Requests, Issue(r)
  PROVE  SessionInv'
<1>1. /\ token[r] = NoToken /\ token'[r] \in Token
      /\ token'[r].family = NewFamily(r) /\ NewFamily(r) \in Requests
      /\ \A t \in Requests \ {r} : token'[t] = token[t]
      /\ pc' = [pc EXCEPT ![r] = "done"]
      /\ code' = code
  BY IssueAdds
<1>2. token'[r] # NoToken
  BY <1>1, SessionsAssumption
<1>3. TypeOK'
  BY <1>1, SessionsAssumption DEF SessionInv, Points, Issue, history
<1>4. \A s \in Requests : Op[s] \in OpType /\ Target(s) \in Requests
  BY SessionsAssumption
<1>5. token'[NewFamily(r)] # NoToken
  BY <1>1, <1>2, <1>4 DEF NewFamily, SessionInv, WorkInv, Issue
<1>6. WorkInv'
  BY <1>1, <1>2, <1>4, <1>5 DEF SessionInv, WorkInv, Token
<1>7. Kind(r) = "refresh" => token[Target(r)] # NoToken /\ token[Target(r)].revoked
  BY DEF SessionInv, WorkInv, Issue
<1>8. RotatedIsRevoked'
  BY <1>1, <1>2, <1>4, <1>7 DEF SessionInv, RotatedIsRevoked
<1>9. QED
  BY <1>3, <1>6, <1>8 DEF SessionInv

LEMMA Stutter ==
  ASSUME SessionInv, UNCHANGED vars
  PROVE  SessionInv'
BY DEF SessionInv, WorkInv, RotatedIsRevoked, vars, history

LEMMA SessionStep == SessionInv /\ [Next]_vars => SessionInv'
<1>1. SUFFICES ASSUME SessionInv, [Next]_vars PROVE SessionInv'
  OBVIOUS
<1>2. ASSUME NEW r \in Requests, Serve(r) PROVE SessionInv'
  <2>1. \/ LoginRead(r) \/ RefreshRead(r) \/ RevokeRead(r) \/ ResetRead(r)
        \/ EndFamily(r) \/ Rotate(r) \/ Logout(r)
        \/ RevokeSession(r) \/ RevokeOthers(r) \/ RevokeAll(r)
        \/ Forgot(r) \/ SetPassword(r) \/ Issue(r)
    BY <1>2 DEF Serve
  <2>2. QED
    BY <1>1, <2>1, ReadStep, RevokeStep, CodeStep, IssueStep
<1>3. ASSUME NEW r \in Requests, Crash(r) \/ ExpireToken(r) PROVE SessionInv'
  BY <1>1, <1>3, ReadStep, TimeStep
<1>4. CASE ExpireCode
  <2>1. CASE Requests = {}
    BY <1>1, <1>4, <2>1 DEF ExpireCode, SessionInv, WorkInv, RotatedIsRevoked, history
  <2>2. CASE Requests # {}
    BY <1>1, <1>4, <2>2, TimeStep
  <2>3. QED
    BY <2>1, <2>2
<1>5. QED
  BY <1>1, <1>2, <1>3, <1>4, Stutter DEF Next

-----------------------------------------------------------------------------
(* A session that ended stays ended. *)

\* A step that issues nothing, and begins no exchange but that of a usable token.
LEMMA EndedShrinks ==
  ASSUME SessionInv, SessionInv', Shrinks, NEW f \in Requests, Ended(f),
         \A r \in Requests :
           Kind(r) = "refresh" /\ pc'[r] \in {"rotate", "issue"} =>
             pc[r] \in {"rotate", "issue"} \/ Live(Target(r))
  PROVE  Ended(f)'
<1>1. /\ \A t \in Requests : Live(t)' => Live(t)
      /\ \A t \in Requests : Issued(t)' <=> Issued(t)
      /\ Family(f)' = Family(f)
  BY ShrinkingLive DEF SessionInv
<1>2. Family(f)' # {} /\ \A t \in Family(f)' : ~Live(t)'
  BY <1>1 DEF Ended, Family
<1>3. ASSUME NEW r \in Requests, Refreshing(r, f)'
      PROVE  FALSE
  <2>1. Kind(r) = "refresh" /\ pc'[r] \in {"rotate", "issue"} /\ Target(r) \in Family(f)
    BY <1>1, <1>3 DEF Refreshing
  <2>2. ~Live(Target(r))
    BY <2>1 DEF Ended
  <2>3. QED
    BY <2>1, <2>2 DEF Ended, Refreshing
<1>4. QED
  BY <1>2, <1>3 DEF Ended

\* Issuing a token continues no session that has ended.
LEMMA EndedIssue ==
  ASSUME SessionInv, SessionInv', NEW f \in Requests, Ended(f),
         NEW r \in Requests, Issue(r)
  PROVE  Ended(f)'
<1>1. /\ token[r] = NoToken
      /\ token'[r].family = NewFamily(r)
      /\ \A t \in Requests \ {r} : token'[t] = token[t]
      /\ pc' = [pc EXCEPT ![r] = "done"]
  BY IssueAdds
<1>2. NewFamily(r) # f
  <2>1. CASE Kind(r) = "login"
    <3>1. PICK t \in Requests : token[t] # NoToken /\ token[t].family = f
      BY DEF Ended, Family
    <3>2. token[f] # NoToken
      BY <3>1 DEF SessionInv, WorkInv
    <3>3. QED
      BY <1>1, <2>1, <3>2 DEF NewFamily
  <2>2. CASE Kind(r) # "login"
    <3>1. Kind(r) = "refresh" /\ pc[r] = "issue" /\ token[Target(r)] # NoToken
      BY <2>2 DEF Issue, SessionInv, WorkInv
    <3>2. Target(r) \in Requests
      BY SessionsAssumption
    <3>3. QED
      BY <2>2, <3>1, <3>2 DEF Ended, Refreshing, Family, NewFamily
  <2>3. QED
    BY <2>1, <2>2
<1>3. Family(f)' = Family(f) /\ r \notin Family(f)
  BY <1>1, <1>2 DEF Family
<1>4. \A t \in Family(f) : Live(t)' <=> Live(t)
  BY <1>1, <1>3 DEF Live, Family
<1>5. ASSUME NEW s \in Requests, Refreshing(s, f)'
      PROVE  FALSE
  BY <1>1, <1>3, <1>5 DEF Ended, Refreshing, SessionInv
<1>6. QED
  BY <1>3, <1>4, <1>5 DEF Ended

\* Every other step issues nothing; only RefreshRead begins an exchange, and of a
\* token that is neither revoked nor expired.
LEMMA OtherSteps ==
  ASSUME SessionInv, SessionInv', [Next]_vars, \A r \in Requests : ~Issue(r)
  PROVE  /\ Shrinks
         /\ \A r \in Requests :
              Kind(r) = "refresh" /\ pc'[r] \in {"rotate", "issue"} =>
                pc[r] \in {"rotate", "issue"} \/ Live(Target(r))
<1>1. CASE UNCHANGED vars
  BY <1>1 DEF vars, Shrinks
<1>2. CASE ExpireCode
  BY <1>2 DEF ExpireCode, Shrinks
<1>3. ASSUME NEW t \in Requests, ExpireToken(t)
      PROVE  Shrinks /\ pc' = pc
  BY <1>3, TimeShrinks DEF ExpireToken
<1>4. ASSUME NEW r \in Requests, Serve(r) \/ Crash(r)
      PROVE  /\ Shrinks
             /\ \A s \in Requests \ {r} : pc'[s] = pc[s]
             /\ Kind(r) = "refresh" /\ pc'[r] \in {"rotate", "issue"} =>
                  pc[r] \in {"rotate", "issue"} \/ Live(Target(r))
  <2>1. CASE RefreshRead(r)
    BY <2>1 DEF RefreshRead, Reused, Lapsed, Held, Live, Shrinks, SessionInv
  <2>2. CASE \/ LoginRead(r) \/ RevokeRead(r) \/ ResetRead(r)
             \/ Forgot(r) \/ SetPassword(r) \/ Crash(r)
    BY <2>2 DEF LoginRead, RevokeRead, ResetRead, Forgot, SetPassword, Crash, Shrinks,
       SessionInv
  <2>3. CASE \/ EndFamily(r) \/ Rotate(r) \/ Logout(r)
             \/ RevokeSession(r) \/ RevokeOthers(r) \/ RevokeAll(r)
    <3>1. \E S : Revoke(S)
      BY <2>3 DEF EndFamily, Rotate, Logout, RevokeSession, RevokeOthers, RevokeAll
    <3>2. Shrinks
      BY <3>1, RevokeShrinks DEF SessionInv
    <3>3. \/ pc' = [pc EXCEPT ![r] = "issue"] /\ pc[r] = "rotate"
          \/ pc' = [pc EXCEPT ![r] = "done"]
          \/ pc' = [pc EXCEPT ![r] = "failed"]
      BY <2>3 DEF EndFamily, Rotate, Logout, RevokeSession, RevokeOthers, RevokeAll
    <3>4. QED
      BY <3>2, <3>3 DEF SessionInv
  <2>4. QED
    BY <1>4, <2>1, <2>2, <2>3 DEF Serve
<1>5. QED
  BY <1>1, <1>2, <1>3, <1>4 DEF Next, vars, ExpireCode

LEMMA EndedStep ==
  SessionInv /\ SessionInv' /\ [Next]_vars =>
    [\A f \in Requests : Ended(f) => Ended(f)']_vars
<1>1. SUFFICES ASSUME SessionInv, SessionInv', [Next]_vars, NEW f \in Requests, Ended(f)
               PROVE  Ended(f)'
  OBVIOUS
<1>2. CASE \E r \in Requests : Issue(r)
  BY <1>1, <1>2, EndedIssue
<1>3. CASE \A r \in Requests : ~Issue(r)
  BY <1>1, <1>3, OtherSteps, EndedShrinks
<1>4. QED
  BY <1>2, <1>3

-----------------------------------------------------------------------------
(* A family has one usable token unless one of its tokens was forked. *)

\* What is exchanged is revoked, whoever exchanged it has read it before, and whoever is
\* about to has read it when nobody had.
TraceInv ==
  /\ \A t \in Requests : exchanged[t] # {} => Issued(t) /\ token[t].revoked
  /\ \A t \in Requests : \A r \in exchanged[t] :
       Kind(r) = "refresh" /\ Target(r) = t /\ pc[r] \in {"issue", "done", "failed"}
  /\ \A r \in Requests : /\ began[r] \subseteq exchanged[Target(r)]
                         /\ pc[r] = "rotate" => began[r] = {}

ForkedFamily(f) == \E w \in Family(f) : Forked(w)

\* Tokens of a family that can be used, and refreshes that are about to issue one.
Usable(f) ==
  {t \in Requests :
     \/ t \in Family(f) /\ Live(t)
     \/ Kind(t) = "refresh" /\ pc[t] = "issue" /\ Target(t) \in Family(f)}

Rotating(r, f) == Kind(r) = "refresh" /\ pc[r] = "rotate" /\ Target(r) \in Family(f)

\* A refresh that is about to exchange a token that nobody has exchanged is about to
\* exchange the only usable one, and there is no other such refresh of another token.
OneBranch(f) ==
  /\ \A t, u \in Usable(f) : t = u
  /\ \A r \in Requests :
       Rotating(r, f) =>
         exchanged[Target(r)] # {} \/ \A u \in Usable(f) : u = Target(r)
  /\ \A r, s \in Requests :
       Rotating(r, f) /\ Rotating(s, f) /\ Target(r) # Target(s) =>
         exchanged[Target(r)] # {} \/ exchanged[Target(s)] # {}

BranchInv == \A f \in Requests : ForkedFamily(f) \/ OneBranch(f)

\* The steps that neither read, exchange nor issue a token.
LEMMA OtherMoves ==
  ASSUME SessionInv, [Next]_vars,
         \A r \in Requests : ~Issue(r) /\ ~RefreshRead(r) /\ ~Rotate(r)
  PROVE  /\ exchanged' = exchanged /\ began' = began
         /\ \A r \in Requests :
              Kind(r) = "refresh" =>
                /\ pc'[r] \in {"rotate", "issue"} => pc'[r] = pc[r]
                /\ pc[r] \in {"issue", "done", "failed"} => pc'[r] \in {pc[r], "failed"}
<1>1. CASE UNCHANGED <<pc, history>>
  BY <1>1 DEF history
<1>2. ASSUME NEW r \in Requests, Serve(r) \/ Crash(r)
      PROVE  /\ exchanged' = exchanged /\ began' = began
             /\ \A s \in Requests \ {r} : pc'[s] = pc[s]
             /\ Kind(r) = "refresh" =>
                  /\ pc'[r] \in {"rotate", "issue"} => pc'[r] = pc[r]
                  /\ pc[r] \in {"issue", "done", "failed"} => pc'[r] \in {pc[r], "failed"}
  <2>1. CASE \/ LoginRead(r) \/ EndFamily(r) \/ Logout(r) \/ RevokeRead(r) \/ Crash(r)
    BY <2>1 DEF LoginRead, EndFamily, Logout, RevokeRead, Crash, SessionInv, history
  <2>2. CASE \/ RevokeSession(r) \/ RevokeOthers(r) \/ Forgot(r) \/ ResetRead(r)
             \/ SetPassword(r) \/ RevokeAll(r)
    BY <2>2 DEF RevokeSession, RevokeOthers, Forgot, ResetRead, SetPassword, RevokeAll,
       SessionInv, history
  <2>3. QED
    BY <1>2, <2>1, <2>2 DEF Serve
<1>3. QED
  BY <1>1, <1>2 DEF Next, ExpireToken, ExpireCode, vars

\* What a refresh does when it exchanges its token.
LEMMA RotateFacts ==
  ASSUME SessionInv, NEW r \in Requests, Rotate(r)
  PROVE  /\ Shrinks
         /\ pc[r] = "rotate" /\ Kind(r) = "refresh" /\ Target(r) \in Requests
         /\ Issued(Target(r)) /\ token'[Target(r)].revoked
         /\ pc' = [pc EXCEPT ![r] = "issue"]
         /\ exchanged' = [exchanged EXCEPT ![Target(r)] = exchanged[Target(r)] \cup {r}]
         /\ began' = began
<1>1. /\ pc[r] = "rotate" /\ Revoke({Target(r)}) /\ Target(r) \in Requests
      /\ pc' = [pc EXCEPT ![r] = "issue"]
      /\ exchanged' = [exchanged EXCEPT ![Target(r)] = exchanged[Target(r)] \cup {r}]
      /\ began' = began
  BY SessionsAssumption DEF Rotate, Replaced
<1>2. Kind(r) = "refresh" /\ Issued(Target(r))
  BY <1>1 DEF SessionInv, WorkInv
<1>3. /\ Shrinks
      /\ \A t \in {Target(r)} \cap Requests : Issued(t) => token'[t].revoked
  BY <1>1, RevokeShrinks DEF SessionInv
<1>4. QED
  BY <1>1, <1>2, <1>3

\* What a refresh does when it reads its token.
LEMMA ReadFacts ==
  ASSUME SessionInv, NEW r \in Requests, RefreshRead(r)
  PROVE  /\ pc[r] = "idle" /\ Kind(r) = "refresh" /\ Target(r) \in Requests
         /\ token' = token /\ exchanged' = exchanged
         /\ began' = [began EXCEPT ![r] = exchanged[Target(r)]]
         /\ \A s \in Requests \ {r} : pc'[s] = pc[s]
         /\ pc'[r] \in {"reuse", "failed", "rotate"}
         /\ pc'[r] = "rotate" => Live(Target(r))
BY SessionsAssumption DEF RefreshRead, Reused, Lapsed, Held, Live, SessionInv

LEMMA TraceStep ==
  ASSUME SessionInv, SessionInv', TraceInv, [Next]_vars
  PROVE  TraceInv'
<1>1. \A r \in Requests : Target(r) \in Requests
  BY SessionsAssumption
<1>2. ASSUME NEW r \in Requests, Issue(r)
      PROVE  TraceInv'
  <2>1. /\ pc[r] = "issue" /\ pc' = [pc EXCEPT ![r] = "done"]
        /\ token[r] = NoToken /\ \A t \in Requests \ {r} : token'[t] = token[t]
        /\ exchanged' = exchanged /\ began' = began
    BY <1>2, IssueAdds DEF Issue, history
  <2>2. QED
    BY <2>1 DEF TraceInv, SessionInv
<1>3. ASSUME NEW r \in Requests, RefreshRead(r)
      PROVE  TraceInv'
  <2>1. /\ pc[r] = "idle" /\ token' = token /\ exchanged' = exchanged
        /\ began' = [began EXCEPT ![r] = exchanged[Target(r)]]
        /\ \A s \in Requests \ {r} : pc'[s] = pc[s]
        /\ pc'[r] = "rotate" => Live(Target(r))
    BY <1>3, ReadFacts
  <2>2. pc'[r] = "rotate" => exchanged[Target(r)] = {}
    BY <1>1, <2>1 DEF TraceInv, Live
  <2>3. \A t \in Requests : r \notin exchanged[t]
    BY <2>1 DEF TraceInv
  <2>4. QED
    BY <1>1, <2>1, <2>2, <2>3 DEF TraceInv, SessionInv
<1>4. ASSUME NEW r \in Requests, Rotate(r)
      PROVE  TraceInv'
  <2>1. /\ Shrinks /\ Kind(r) = "refresh" /\ Target(r) \in Requests
        /\ Issued(Target(r)) /\ token'[Target(r)].revoked
        /\ pc' = [pc EXCEPT ![r] = "issue"]
        /\ exchanged' = [exchanged EXCEPT ![Target(r)] = exchanged[Target(r)] \cup {r}]
        /\ began' = began
    BY <1>4, RotateFacts
  <2>2. /\ \A t \in Requests : exchanged'[t] # {} => Issued(t)' /\ token'[t].revoked
        /\ \A t \in Requests : \A s \in exchanged'[t] :
             Kind(s) = "refresh" /\ Target(s) = t /\ pc'[s] \in {"issue", "done", "failed"}
    BY <2>1 DEF TraceInv, Shrinks, SessionInv
  <2>3. \A s \in Requests : /\ began'[s] \subseteq exchanged'[Target(s)]
                            /\ pc'[s] = "rotate" => began'[s] = {}
    BY <1>1, <2>1 DEF TraceInv, SessionInv
  <2>4. QED
    BY <2>2, <2>3 DEF TraceInv
<1>5. CASE \A r \in Requests : ~Issue(r) /\ ~RefreshRead(r) /\ ~Rotate(r)
  <2>1. /\ exchanged' = exchanged /\ began' = began
        /\ \A r \in Requests :
             Kind(r) = "refresh" =>
               /\ pc'[r] \in {"rotate", "issue"} => pc'[r] = pc[r]
               /\ pc[r] \in {"issue", "done", "failed"} => pc'[r] \in {pc[r], "failed"}
    BY <1>5, OtherMoves
  <2>2. Shrinks
    BY <1>5, OtherSteps
  <2>3. \A r \in Requests : pc'[r] = "rotate" => Kind(r) = "refresh"
    BY DEF SessionInv, WorkInv
  <2>4. QED
    BY <2>1, <2>2, <2>3 DEF TraceInv, Shrinks, SessionInv
<1>6. QED
  BY <1>2, <1>3, <1>4, <1>5

\* What was forked stays so.
LEMMA ForkStays ==
  ASSUME SessionInv, SessionInv', TraceInv, [Next]_vars, NEW f \in Requests, ForkedFamily(f)
  PROVE  ForkedFamily(f)'
<1>1. /\ \A t \in Requests : exchanged[t] \subseteq exchanged'[t]
      /\ \A t \in Requests : \A r \in exchanged[t] : began'[r] = began[r]
  <2>1. ASSUME NEW r \in Requests, RefreshRead(r)
        PROVE  /\ exchanged' = exchanged
               /\ \A t \in Requests : \A s \in exchanged[t] : began'[s] = began[s]
    <3>1. /\ pc[r] = "idle" /\ exchanged' = exchanged
          /\ began' = [began EXCEPT ![r] = exchanged[Target(r)]]
      BY <2>1, ReadFacts
    <3>2. QED
      BY <3>1 DEF TraceInv, SessionInv
  <2>2. ASSUME NEW r \in Requests, Rotate(r)
        PROVE  began' = began /\ \A t \in Requests : exchanged[t] \subseteq exchanged'[t]
    <3>1. /\ began' = began
          /\ exchanged' = [exchanged EXCEPT ![Target(r)] = exchanged[Target(r)] \cup {r}]
      BY <2>2, RotateFacts
    <3>2. QED
      BY <3>1 DEF SessionInv
  <2>3. ASSUME NEW r \in Requests, Issue(r)
        PROVE  exchanged' = exchanged /\ began' = began
    BY <2>3 DEF Issue, history
  <2>4. QED
    BY <2>1, <2>2, <2>3, OtherMoves
<1>2. \A t \in Requests : Issued(t) => Issued(t)' /\ token'[t].family = token[t].family
  <2>1. CASE \E r \in Requests : Issue(r)
    BY <2>1, IssueAdds
  <2>2. CASE \A r \in Requests : ~Issue(r)
    BY <2>2, OtherSteps DEF Shrinks
  <2>3. QED
    BY <2>1, <2>2
<1>3. PICK w \in Family(f) : Forked(w)
  BY DEF ForkedFamily
<1>4. w \in Requests /\ w \in Family(f)'
  BY <1>2, <1>3 DEF Family
<1>5. Forked(w)'
  BY <1>1, <1>3, <1>4 DEF Forked
<1>6. QED
  BY <1>4, <1>5 DEF ForkedFamily

\* A step that makes nothing usable and begins no exchange.
LEMMA BranchShrinks ==
  ASSUME SessionInv, SessionInv', Shrinks, exchanged' = exchanged,
         NEW f \in Requests, OneBranch(f),
         \A r \in Requests :
           Kind(r) = "refresh" /\ pc'[r] \in {"rotate", "issue"} => pc'[r] = pc[r]
  PROVE  OneBranch(f)'
<1>1. /\ \A t \in Requests : Live(t)' => Live(t)
      /\ Family(f)' = Family(f)
  BY ShrinkingLive DEF SessionInv
<1>2. /\ Usable(f)' \subseteq Usable(f)
      /\ \A r \in Requests : Rotating(r, f)' => Rotating(r, f)
  BY <1>1 DEF Usable, Rotating
<1>3. QED
  BY <1>2 DEF OneBranch

\* A refresh reads a usable token: if another one is usable, or about to be exchanged,
\* that branch has begun already.
LEMMA BranchRead ==
  ASSUME SessionInv, NEW f \in Requests, OneBranch(f),
         NEW r \in Requests, RefreshRead(r)
  PROVE  OneBranch(f)'
<1>1. /\ pc[r] = "idle" /\ Kind(r) = "refresh" /\ Target(r) \in Requests
      /\ token' = token /\ exchanged' = exchanged
      /\ \A s \in Requests \ {r} : pc'[s] = pc[s]
      /\ pc'[r] \in {"reuse", "failed", "rotate"}
      /\ pc'[r] = "rotate" => Live(Target(r))
  BY ReadFacts
<1>2. Family(f)' = Family(f) /\ \A t \in Requests : Live(t)' <=> Live(t)
  BY <1>1 DEF Family, Live
<1>3. Usable(f)' = Usable(f)
  BY <1>1, <1>2 DEF Usable
<1>4. /\ \A s \in Requests \ {r} : Rotating(s, f)' <=> Rotating(s, f)
      /\ Rotating(r, f)' => Target(r) \in Usable(f)
  BY <1>1, <1>2 DEF Rotating, Usable
<1>5. QED
  BY <1>1, <1>3, <1>4 DEF OneBranch

\* A refresh exchanges its token: if another one had, the token is forked.
LEMMA BranchRotate ==
  ASSUME SessionInv, SessionInv', TraceInv, NEW f \in Requests, OneBranch(f),
         NEW r \in Requests, Rotate(r)
  PROVE  ForkedFamily(f)' \/ OneBranch(f)'
<1>1. /\ Shrinks
      /\ pc[r] = "rotate" /\ Kind(r) = "refresh" /\ Target(r) \in Requests
      /\ Issued(Target(r)) /\ token'[Target(r)].revoked
      /\ pc' = [pc EXCEPT ![r] = "issue"]
      /\ exchanged' = [exchanged EXCEPT ![Target(r)] = exchanged[Target(r)] \cup {r}]
      /\ began' = began
  BY RotateFacts
<1>2. /\ \A t \in Requests : Live(t)' => Live(t)
      /\ Family(f)' = Family(f)
  BY <1>1, ShrinkingLive DEF SessionInv
<1>3. CASE Target(r) \notin Family(f)
  <2>1. Usable(f)' \subseteq Usable(f)
    BY <1>1, <1>2, <1>3 DEF Usable, SessionInv
  <2>2. \A s \in Requests : Rotating(s, f)' => Rotating(s, f) /\ Target(s) # Target(r)
    BY <1>1, <1>2, <1>3 DEF Rotating, SessionInv
  <2>3. \A s \in Requests : Rotating(s, f)' => exchanged'[Target(s)] = exchanged[Target(s)]
    BY <1>1, <2>2, SessionsAssumption DEF SessionInv
  <2>4. QED
    BY <2>1, <2>2, <2>3 DEF OneBranch
<1>4. CASE Target(r) \in Family(f) /\ exchanged[Target(r)] # {}
  <2>1. PICK q \in exchanged[Target(r)] : TRUE
    BY <1>4
  <2>2. r \notin exchanged[Target(r)]
    BY <1>1 DEF TraceInv
  <2>3. q \in Requests /\ Target(q) = Target(r)
    BY <1>1, <2>1 DEF TraceInv, SessionInv
  <2>4. r \notin began[q] /\ q \notin began[r] /\ q # r
    BY <1>1, <2>1, <2>2, <2>3 DEF TraceInv
  <2>5. q \in exchanged'[Target(r)] /\ r \in exchanged'[Target(r)]
    BY <1>1, <2>1 DEF SessionInv
  <2>6. Forked(Target(r))'
    BY <1>1, <2>4, <2>5 DEF Forked
  <2>7. QED
    BY <1>2, <1>4, <2>6 DEF ForkedFamily
<1>5. CASE Target(r) \in Family(f) /\ exchanged[Target(r)] = {}
  <2>1. Rotating(r, f) /\ \A u \in Usable(f) : u = Target(r)
    BY <1>1, <1>5 DEF Rotating, OneBranch
  <2>2. \A u \in Usable(f)' : u = r
    <3>1. SUFFICES ASSUME NEW u \in Usable(f)', u # r PROVE FALSE
      OBVIOUS
    <3>2. u \in Requests /\ pc'[u] = pc[u]
      BY <1>1, <3>1 DEF Usable, SessionInv
    <3>3. u \in Usable(f)
      BY <1>2, <3>1, <3>2 DEF Usable
    <3>4. u = Target(r) /\ ~Live(u)'
      BY <1>1, <2>1, <3>3 DEF Live
    <3>5. Kind(u) = "refresh" /\ pc[u] = "issue"
      BY <3>1, <3>2, <3>4 DEF Usable
    <3>6. QED
      BY <1>1, <3>2, <3>4, <3>5 DEF SessionInv, WorkInv
  <2>3. \A s \in Requests : Rotating(s, f)' => Rotating(s, f) /\ s # r
    BY <1>1, <1>2 DEF Rotating, SessionInv
  <2>4. \A s \in Requests : Rotating(s, f)' => exchanged'[Target(s)] # {}
    <3>1. SUFFICES ASSUME NEW s \in Requests, Rotating(s, f)'
                   PROVE  exchanged'[Target(s)] # {}
      OBVIOUS
    <3>2. Rotating(s, f) /\ Target(s) \in Requests
      BY <2>3, <3>1, SessionsAssumption
    <3>3. CASE Target(s) = Target(r)
      BY <1>1, <3>3 DEF SessionInv
    <3>4. CASE Target(s) # Target(r)
      <4>1. exchanged[Target(s)] # {}
        BY <1>5, <2>1, <3>2, <3>4 DEF OneBranch
      <4>2. QED
        BY <1>1, <3>2, <3>4, <4>1 DEF SessionInv
    <3>5. QED
      BY <3>3, <3>4
  <2>5. QED
    BY <2>2, <2>4 DEF OneBranch
<1>6. QED
  BY <1>3, <1>4, <1>5

\* A token that is issued was about to be, or begins a family.
LEMMA BranchIssue ==
  ASSUME SessionInv, SessionInv', NEW f \in Requests, OneBranch(f),
         NEW r \in Requests, Issue(r)
  PROVE  OneBranch(f)'
<1>1. /\ token[r] = NoToken
      /\ token'[r].family = NewFamily(r) /\ NewFamily(r) \in Requests
      /\ \A t \in Requests \ {r} : token'[t] = token[t]
      /\ pc[r] = "issue" /\ pc' = [pc EXCEPT ![r] = "done"]
      /\ exchanged' = exchanged
  BY IssueAdds DEF Issue, history
<1>2. \A s \in Requests \ {r} : pc'[s] = pc[s] /\ (Live(s)' <=> Live(s))
  BY <1>1 DEF Live, SessionInv
<1>3. Family(f)' = IF NewFamily(r) = f THEN Family(f) \cup {r} ELSE Family(f)
  <2>1. token'[r] # NoToken
    BY IssueAdds, SessionsAssumption
  <2>2. QED
    BY <1>1, <2>1 DEF Family
<1>4. \A s \in Requests :
        Kind(s) = "refresh" /\ pc[s] \in {"rotate", "issue"} => Issued(Target(s))
  BY DEF SessionInv, WorkInv
<1>5. \A s \in Requests : Rotating(s, f)' => Rotating(s, f)
  BY <1>1, <1>2, <1>3, <1>4 DEF Rotating, SessionInv
<1>6. \A u \in Usable(f)' : u # r => u \in Usable(f)
  BY <1>1, <1>2, <1>3, <1>4 DEF Usable
<1>7. CASE Kind(r) = "login"
  <2>1. CASE f = r
    <3>1. Family(f) = {}
      BY <1>1, <2>1 DEF Family, SessionInv, WorkInv
    <3>2. Usable(f) = {}
      BY <3>1 DEF Usable
    <3>3. \A s \in Requests : ~Rotating(s, f)
      BY <3>1 DEF Rotating
    <3>4. QED
      BY <1>5, <1>6, <3>2, <3>3 DEF OneBranch
  <2>2. CASE f # r
    <3>1. r \notin Usable(f)'
      BY <1>1, <1>3, <1>7, <2>2 DEF Usable, NewFamily, Family, SessionInv
    <3>2. QED
      BY <1>1, <1>5, <1>6, <3>1 DEF OneBranch
  <2>3. QED
    BY <2>1, <2>2
<1>8. CASE Kind(r) # "login"
  <2>1. Kind(r) = "refresh" /\ Issued(Target(r)) /\ Target(r) \in Requests
        /\ NewFamily(r) = token[Target(r)].family
    <3>1. Target(r) \in Requests
      BY SessionsAssumption
    <3>2. Kind(r) = "refresh" /\ Issued(Target(r))
      BY <1>1, <1>8 DEF SessionInv, WorkInv
    <3>3. QED
      BY <1>8, <3>1, <3>2 DEF NewFamily
  <2>2. r \in Usable(f)' => r \in Usable(f)
    BY <1>1, <1>3, <2>1 DEF Usable, Family, SessionInv
  <2>3. QED
    BY <1>1, <1>5, <1>6, <2>2 DEF OneBranch
<1>9. QED
  BY <1>7, <1>8

LEMMA BranchStep ==
  SessionInv /\ SessionInv' /\ TraceInv /\ BranchInv /\ [Next]_vars => BranchInv'
<1>1. SUFFICES ASSUME SessionInv, SessionInv', TraceInv, BranchInv, [Next]_vars,
                      NEW f \in Requests
               PROVE  ForkedFamily(f)' \/ OneBranch(f)'
  BY DEF BranchInv
<1>2. CASE ForkedFamily(f)
  BY <1>1, <1>2, ForkStays
<1>3. CASE OneBranch(f)
  <2>1. CASE \E r \in Requests : Issue(r)
    BY <1>1, <1>3, <2>1, BranchIssue
  <2>2. CASE \E r \in Requests : RefreshRead(r)
    BY <1>1, <1>3, <2>2, BranchRead
  <2>3. CASE \E r \in Requests : Rotate(r)
    BY <1>1, <1>3, <2>3, BranchRotate
  <2>4. CASE \A r \in Requests : ~Issue(r) /\ ~RefreshRead(r) /\ ~Rotate(r)
    <3>1. /\ exchanged' = exchanged
          /\ \A r \in Requests :
               Kind(r) = "refresh" /\ pc'[r] \in {"rotate", "issue"} => pc'[r] = pc[r]
      BY <1>1, <2>4, OtherMoves
    <3>2. Shrinks
      BY <1>1, <2>4, OtherSteps
    <3>3. QED
      BY <1>1, <1>3, <3>1, <3>2, BranchShrinks
  <2>5. QED
    BY <2>1, <2>2, <2>3, <2>4
<1>4. QED
  BY <1>1, <1>2, <1>3 DEF BranchInv

LEMMA InitBranch == Init => TraceInv /\ BranchInv
<1> SUFFICES ASSUME Init PROVE TraceInv /\ BranchInv
  OBVIOUS
<1>1. /\ \A t \in Requests : ~Issued(t) /\ exchanged[t] = {} /\ began[t] = {} /\ pc[t] = "idle"
  BY DEF Init
<1>2. \A f \in Requests : Family(f) = {}
  BY <1>1 DEF Family
<1>3. \A f \in Requests : Usable(f) = {} /\ \A r \in Requests : ~Rotating(r, f)
  BY <1>1, <1>2 DEF Usable, Rotating
<1>4. TraceInv
  BY <1>1 DEF TraceInv
<1>5. BranchInv
  BY <1>3 DEF BranchInv, OneBranch
<1>6. QED
  BY <1>4, <1>5

-----------------------------------------------------------------------------

\* Every table entry and control point of AuthService keeps its type, for any set of
\* requests.
THEOREM TypeCorrect == Spec => []TypeOK
<1>1. SessionInv => TypeOK
  BY DEF SessionInv
<1>2. QED
  BY <1>1, InitSession, SessionStep, PTL DEF Spec

\* A token that was exchanged by refresh is revoked as soon as the one it was exchanged
\* for exists, wherever refreshes overlap, crash or are revoked.
THEOREM ExchangedIsRevoked == Spec => []RotatedIsRevoked
<1>1. SessionInv => RotatedIsRevoked
  BY DEF SessionInv
<1>2. QED
  BY <1>1, InitSession, SessionStep, PTL DEF Spec

\* No step of any handler of AuthService, nor a crash, brings back a session that has
\* ended.
THEOREM EndedForever == Spec => EndedStays
<1>1. SessionInv /\ SessionInv' /\ [Next]_vars =>
        [\A f \in Requests : Ended(f) => Ended(f)']_vars
  BY EndedStep
<1>2. QED
  BY <1>1, InitSession, SessionStep, PTL DEF Spec, EndedStays

\* A family never has two usable tokens unless two refreshes exchanged one of its tokens,
\* each having read it before the other exchanged it: later reuse is detected, whatever
\* else of the family is refreshed, revoked or crashes at the same time.
THEOREM OneUsable == Spec => []OneLive
<1>1. SessionInv /\ BranchInv => OneLive
  <2>1. SUFFICES ASSUME SessionInv, BranchInv, NEW t \in Requests, NEW u \in Requests,
                        Live(t), Live(u), token[t].family = token[u].family, t # u
                 PROVE  \E w \in Family(token[t].family) : Forked(w)
    BY DEF OneLive
  <2>2. token[t].family \in Requests
    BY <2>1 DEF Live, SessionInv, Token
  <2>3. t \in Usable(token[t].family) /\ u \in Usable(token[t].family)
    BY <2>1 DEF Usable, Family, Live
  <2>4. QED
    BY <2>1, <2>2, <2>3 DEF BranchInv, OneBranch, ForkedFamily
<1>2. SessionInv /\ SessionInv' /\ TraceInv /\ BranchInv /\ [Next]_vars =>
        TraceInv' /\ BranchInv'
  BY TraceStep, BranchStep
<1>3. QED
  BY <1>1, <1>2, InitSession, InitBranch, SessionStep, PTL DEF Spec
=============================================================================
