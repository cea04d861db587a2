SPECIFICATION CalendarSpec
CONSTANTS
  FirstOf <- MCFirstOf
  LastMonth <- MCLastMonth
  Sunday <- MCSunday
  Plans <- MCPlans
INVARIANTS
  EveryAllowedDay
  MonthlyNearby
PROPERTIES
  Ends
CHECK_DEADLOCK FALSE
