----------------------------- MODULE MCDocuments -----------------------------
(***************************************************************************)
(* An instance of Documents for TLC: a report requested while the          *)
(* monthly cron asks for it and another, and two postings.                 *)
(***************************************************************************)
EXTENDS Documents

CONSTANTS a1, cron, k1, k2

Ask(kind, S) == [kind |-> kind, reports |-> S]

OpReports == [r \in Requests |->
  IF r = cron THEN Ask("monthly", Reports) ELSE Ask("request", {k1})]
=============================================================================
