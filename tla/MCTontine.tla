----------------------------- MODULE MCTontine -------------------------------
(***************************************************************************)
(* Instances of Tontine for TLC: a cycle of two days at 3 each, with a     *)
(* commission of a third, and the requests each run needs.                 *)
(***************************************************************************)
EXTENDS Tontine, TLC

CONSTANTS eve, day1, day2, k1, k2, k3, t1, t2, t3, x1, x2, x3, m1

Ask(kind, key, day) == [kind |-> kind, key |-> key, collection |-> day]

\* A collection and its retry, another day collected under the same key by mistake,
\* two closings with a key each, a retry of the first, and the missed job of a day.
OpCycle == [r \in Requests |->
  CASE r \in {t1, t2} -> Ask("collect", k1, day1)
    [] r = t3 -> Ask("collect", k1, day2)
    [] r \in {x1, x3} -> Ask("close", k3, day1)
    [] r = x2 -> Ask("close", k2, day1)
    [] r = m1 -> Ask("missed", k1, day1)]

\* A call and its retry are alike.
Alike == Permutations({t1, t2}) \cup Permutations({x1, x3})
=============================================================================
