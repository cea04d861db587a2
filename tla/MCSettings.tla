----------------------------- MODULE MCSettings ------------------------------
(***************************************************************************)
(* An instance of Settings for TLC: the rate of loans and one view; two    *)
(* readers and two writers of the rate, a reader and a posting of the      *)
(* view; a run of the seed and the run that repairs what it left.          *)
(***************************************************************************)
EXTENDS Settings

CONSTANTS rate, view, g1, g2, s1, s2, v1, p1, first, low, high

DefaultFirst == [k \in Keys |-> first]

Ask(kind, key, value, role) ==
  [kind |-> kind, key |-> key, value |-> value, role |-> role]

OpRates == [r \in Requests |->
  CASE r \in {g1, g2} -> Ask("get", rate, first, "Agent")
    [] r = s1 -> Ask("set", rate, low, "SuperAdmin")
    [] r = s2 -> Ask("set", rate, high, "SuperAdmin")
    [] r = v1 -> Ask("get", view, first, "Manager")
    [] r = p1 -> Ask("post", view, low, "Agent")]
=============================================================================
