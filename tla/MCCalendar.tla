----------------------------- MODULE MCCalendar ------------------------------
(***************************************************************************)
(* The months of 2027, an ordinary year that starts on a Friday, and the   *)
(* first of 2028.  Plans start on days whose next months are shorter, at   *)
(* the end of February and of July, on a working day and on a Sunday.      *)
(***************************************************************************)
EXTENDS Calendar, SequencesExt

Lengths == <<31, 28, 31, 30, 31, 30, 31, 31, 30, 31, 30, 31, 31, 29,
             31, 30, 31>>

MCLastMonth == Len(Lengths)
MCFirstOf ==
  [m \in 0..MCLastMonth |-> FoldLeft(LAMBDA a, b : a + b, 0, SubSeq(Lengths, 1, m))]

\* Day 0 is a Friday, day 2 the first Sunday.
MCSunday == 2

Starts == {0, 2, 27, 28, 29, 30, 57, 58, 89, 119, 211}

Loans(frequency, starts, months) ==
  [kind: {"loan"}, frequency: {frequency}, start: starts, months: months,
   weekdays: {1..5, {2, 4}, {}}]
Tontines(starts, months, weekdays) ==
  [kind: {"tontine"}, frequency: {"DAILY"}, start: starts, months: months,
   weekdays: weekdays]

MCPlans ==
  Loans("DAILY", {0, 2, 30}, {1, 2})
    \cup Loans("WEEKLY", {2, 30}, {1, 3})
    \cup Loans("MONTHLY", Starts, {1, 9})
    \cup Tontines(Starts, {1, 2}, {1..5, {6, 7}, {7}, {0}})
=============================================================================
