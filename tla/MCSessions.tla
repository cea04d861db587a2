----------------------------- MODULE MCSessions ------------------------------
(***************************************************************************)
(* An instance of Sessions for TLC: two logins, refreshes of the first and *)
(* of what it gave, and every way to end a session.                        *)
(***************************************************************************)
EXTENDS Sessions

CONSTANTS l1, l2, f1, f2, f3, out, rv, ro, fg, rs

Ask(kind, t) == [kind |-> kind, token |-> t]

OpFamily == [r \in Requests |->
  CASE r \in {l1, l2} -> Ask("login", l1)
    [] r \in {f1, f2} -> Ask("refresh", l1)
    [] r = f3 -> Ask("refresh", f1)
    [] r = out -> Ask("logout", f1)
    [] r = rv -> Ask("revoke", f3)
    [] r = ro -> Ask("revokeOthers", l2)
    [] r = fg -> Ask("forgot", l1)
    [] r = rs -> Ask("reset", l1)]
=============================================================================
