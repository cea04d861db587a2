----------------------------- MODULE MCAccounts ------------------------------
(***************************************************************************)
(* One agency, one user and two clients from the start.  Six waves of      *)
(* calls: two desks register one client, and two agencies with one code,   *)
(* while an agency closes; four calls want one e-mail for a user, who is   *)
(* removed and brought back; a client is edited, removed, registered again *)
(* and brought back while two activate their accounts with one e-mail; a   *)
(* user verifies its contacts with two codes; a user sets its second       *)
(* factor up twice while an administrator removes it and brings it back.   *)
(***************************************************************************)
EXTENDS Accounts

MCNone == "none"

\* What a call asks for, None where it says nothing.
R(kind, target) ==
  [kind |-> kind, table |-> MCNone, target |-> target, key |-> MCNone,
   email |-> MCNone, phone |-> FALSE, presents |-> MCNone]
C(table, key, target) == [R("create", target) EXCEPT !.table = table, !.key = key]
U(target, key) == [R("update", target) EXCEPT !.key = key]
A(phone) == [R("activate", MCNone) EXCEPT !.key = phone, !.email = "mail"]
P(kind, what) == [R(kind, "user") EXCEPT !.presents = what]

Calls ==
  [branch |-> C("branch", "LOM", MCNone), user |-> C("user", "ama", MCNone),
   ann |-> [C("client", "p1", "branch") EXCEPT !.email = "mail"],
   bob |-> C("client", "p2", "branch"),
   user2 |-> C("user", "efua", MCNone), user3 |-> C("user", "efua", MCNone),
   kofi |-> C("client", "p3", "branch"), kofi2 |-> C("client", "p3", "branch"),
   branch2 |-> C("branch", "KPA", MCNone), branch3 |-> C("branch", "KPA", MCNone),
   close |-> R("remove", "branch"),
   again |-> C("client", "p1", "branch"), edit |-> U("bob", "p1"),
   leaves |-> R("remove", "ann"), returns |-> R("reactivate", "ann"),
   foreign |-> R("remove", "bob"),
   act1 |-> A("p1"), act2 |-> A("p2"),
   rename |-> U("user", "efua"), fire |-> R("remove", "user"),
   rehire |-> R("reactivate", "user"),
   readdress |-> [U("bob", MCNone) EXCEPT !.email = "mail"],
   mail |-> [R("contact", "user") EXCEPT !.key = "efua"],
   phone |-> [R("contact", "user") EXCEPT !.phone = TRUE],
   both |-> [R("contact", "user") EXCEPT !.key = "ama2", !.phone = TRUE],
   code1 |-> R("sendEmail", "user"),
   code2 |-> R("sendPhone", "user"),
   byMail |-> P("verifyEmail", "code1"), byPhone |-> P("verifyPhone", "code1"),
   byPhone2 |-> P("verifyPhone", "code2"), guess |-> P("verifyEmail", "none"),
   secret1 |-> R("generate", "user"),
   secret2 |-> R("generate", "user"),
   on1 |-> P("enable", "secret1"), on2 |-> P("enable", "secret2"),
   off1 |-> P("disable", "secret1"), off2 |-> P("disable", "secret2")]

MCOp == Calls    \* TLC evaluates Calls once, what stands for a constant at every use
MCRequests == DOMAIN Calls
MCExisting == {"branch", "user", "ann", "bob"}
MCInScope == MCRequests \ {"foreign"}

MCWaves ==
  {{"kofi", "kofi2", "branch2", "branch3", "close"},
   {"user2", "user3", "rename", "mail", "fire", "rehire"},
   {"again", "edit", "leaves", "returns", "foreign", "act1", "act2"},
   {"readdress", "leaves", "returns", "act1", "act2"},
   {"code1", "code2", "byMail", "byPhone", "byPhone2", "guess", "both", "phone"},
   {"secret1", "secret2", "on1", "on2", "off1", "off2", "fire", "rehire"}}
=============================================================================
