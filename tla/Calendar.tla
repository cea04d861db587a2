------------------------------ MODULE Calendar -------------------------------
(***************************************************************************)
(* Due dates: the loops of LoansService.generateScheduleDates, for a       *)
(* disbursement or a reschedule, and of TontinesService.createCycle.       *)
(*                                                                         *)
(* A day is a number, and months are given by their first days, so that    *)
(* the 31st of a month of 30 days is the 1st of the next, as JavaScript    *)
(* has it.  Each turn of a loop is a step.                                 *)
(***************************************************************************)
EXTENDS Integers, Sequences, FiniteSets

CONSTANTS
  FirstOf,    \* first day of each month, numbered from 0
  LastMonth,  \* bound: no date is looked at from the first day of this month on
  Sunday,     \* remainder by 7 of the days that are Sundays
  Plans       \* what may be planned: see PlanType

ASSUME MonthsAssumption ==
  /\ LastMonth \in Nat
  /\ FirstOf \in [0..LastMonth -> Nat] /\ FirstOf[0] = 0
  /\ \A m \in 0..LastMonth - 1 : FirstOf[m + 1] - FirstOf[m] \in 28..31
  /\ Sunday \in 0..6

VARIABLES
  plan,     \* the calendar that is asked for
  cursor,   \* day the loop is at
  dates     \* dates kept so far

calendarVars == <<plan, cursor, dates>>

Horizon == FirstOf[LastMonth]
Days == 0..Horizon - 1
Frequencies == {"DAILY", "WEEKLY", "MONTHLY"}

\* weekdays: those the caller asks for, 1 for Monday; nothing checks that they are
\* days of the week.
PlanType == [kind: {"loan", "tontine"}, frequency: Frequencies, start: Days,
             months: Nat \ {0}, weekdays: SUBSET Nat]

ASSUME PlansAssumption == Plans \subseteq PlanType

-----------------------------------------------------------------------------
(* Dates *)

MonthOf(day) == CHOOSE m \in 0..LastMonth - 1 : FirstOf[m] <= day /\ day < FirstOf[m + 1]
DayInMonth(day) == day - FirstOf[MonthOf(day)]

\* setMonth(getMonth() + n): the day of the month is kept, however short the month.
AddMonths_ThirtyDays(day, n) == day + 30 * n
AddMonths(day, n) == FirstOf[MonthOf(day) + n] + DayInMonth(day)

\* getDay() is 0 on Sundays.
Weekday_SundayZero(day) == (day - Sunday) % 7
Weekday(day) == IF day % 7 = Sunday THEN 7 ELSE (day - Sunday) % 7

\* LoansService.create does not store the weekdays it is given: the column keeps its
\* default, Monday to Friday.
Allowed_AsAsked(p) == p.weekdays
Allowed(p) == IF p.kind = "loan" THEN 1..5 ELSE p.weekdays

PerMonth == [DAILY |-> 30, WEEKLY |-> 4, MONTHLY |-> 1]
Count(p) == p.months * PerMonth[p.frequency]

EndOf(p) == AddMonths(p.start, p.months)

\* The months that FirstOf gives are enough for what is planned: a plan takes its
\* months, and the day that overflows from the last of them falls in one more.
ASSUME HorizonAssumption ==
  \A p \in Plans : MonthOf(p.start) + p.months + 1 < LastMonth

-----------------------------------------------------------------------------
CalendarInit ==
  /\ plan \in Plans
  /\ cursor = plan.start
  /\ dates = <<>>

Missing == plan.kind = "loan" /\ Len(dates) < Count(plan)

Keep(day) == dates' = Append(dates, day)
KeepIfAllowed(day) ==
  IF Weekday(day) \in Allowed(plan) THEN Keep(day) ELSE UNCHANGED dates

\* The day is looked at after the cursor has moved to it, so that nothing is due on
\* the day of the disbursement.
LoanDay ==
  /\ Missing /\ plan.frequency = "DAILY"
  /\ cursor + 1 \in Days
  /\ cursor' = cursor + 1
  /\ KeepIfAllowed(cursor')
  /\ UNCHANGED plan

LoanPeriod_FromStart ==
  /\ Missing /\ plan.frequency # "DAILY"
  /\ Keep(IF plan.frequency = "WEEKLY" THEN plan.start + 7 ELSE AddMonths(plan.start, 1))
  /\ UNCHANGED <<plan, cursor>>
LoanPeriod ==
  /\ Missing /\ plan.frequency # "DAILY"
  /\ cursor' = IF plan.frequency = "WEEKLY" THEN cursor + 7 ELSE AddMonths(cursor, 1)
  /\ Keep(cursor')
  /\ UNCHANGED plan

\* Both ends of a cycle are part of it.
TontineGoesOn_BeforeEnd == cursor < EndOf(plan)
TontineGoesOn == cursor <= EndOf(plan)

TontineDay ==
  /\ plan.kind = "tontine" /\ TontineGoesOn
  /\ KeepIfAllowed(cursor)
  /\ cursor' = cursor + 1
  /\ UNCHANGED plan

CalendarNext == LoanDay \/ LoanPeriod \/ TontineDay

\* The loop does nothing else until it ends.
CalendarSpec ==
  CalendarInit /\ [][CalendarNext]_calendarVars /\ WF_calendarVars(CalendarNext)

Finished ==
  IF plan.kind = "loan" THEN Len(dates) = Count(plan) ELSE ~TontineGoesOn

-----------------------------------------------------------------------------
(* Properties *)

\* A later number is due later: the order of the numbers, in which repayments are
\* imputed and the passbook is printed, is that of the dates.  And dates go by the
\* calendar: a DAILY loan has every working day that follows its disbursement and no
\* other; a cycle every day that the saver chose from its first day to its last, both
\* included (generateScheduleDates, createCycle).
EveryAllowedDay ==
  LET kept == {dates[i] : i \in 1..Len(dates)}
      Among(weekdays) == {d \in Days : (d - Sunday) % 7 \in weekdays}
  IN /\ \A i, j \in 1..Len(dates) : i < j => dates[i] < dates[j]
     /\ plan.kind = "loan" /\ plan.frequency = "DAILY" =>
          kept = Among(1..5) \cap (plan.start + 1..cursor)
     /\ plan.kind = "tontine" /\ Finished =>
          kept = Among({w % 7 : w \in plan.weekdays \cap (1..7)}) \cap (plan.start..EndOf(plan))

\* A MONTHLY loan never has two installments due in one month.  It misses one month
\* at most, one that is too short for the day it started on, and never drifts more
\* than three days from that day, not at all when it is the 28th or before, although
\* each date is computed from the last.
MonthlyNearby ==
  plan.kind = "loan" /\ plan.frequency = "MONTHLY" =>
    LET day == DayInMonth(plan.start)
        month == [i \in 0..plan.months |-> MonthOf(plan.start) + i]
        TooShort(m) == FirstOf[m + 1] - FirstOf[m] <= day
    IN \A i \in 1..Len(dates) :
         /\ dates[i] - (FirstOf[month[i]] + day) \in -3..3
         /\ day < 28 => dates[i] = FirstOf[month[i]] + day
         /\ i > 1 => MonthOf(dates[i - 1]) < MonthOf(dates[i])
         /\ \/ MonthOf(dates[i]) = month[i]
            \/ /\ MonthOf(dates[i]) = month[i] + 1
               /\ \E k \in 1..i : TooShort(month[k])

\* Every loop ends, whatever weekdays are asked for: a loan looks for days until it
\* has enough of them, and its weekdays are never the caller's.
Ends == <>[]Finished
=============================================================================
