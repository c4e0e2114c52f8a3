CONSTANTS
  MonthEnd = 3
  LastDate = 4
  WeeklyOff = {2}
  MonthlyTarget = 6
  PolicyWorkdays = 2
  Salary = 100
  Stint = 2
  TakenOff = {1}
  Doings = {"hours", "entry"}
  MaxDoings = 3
SPECIFICATION PaySpec
INVARIANT SheetComesOut
CHECK_DEADLOCK FALSE
