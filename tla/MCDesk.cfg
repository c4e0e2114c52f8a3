CONSTANTS
  NoOne = noone
  Staff = staff
  d1 = d1
  d2 = d2
  Target = {t1, t2}
  Designer = {d1, d2}
  ByCode <- Codes
  PerDesigner = 2
  MaxPerDay = 3
  Quota <- Quotas
  Call = {c1, c2}
  c1 = c1
  c2 = c2
  JobCall = c1
  MaxDay = 2
  MaxCalls = 3
  Artist = artist
  Slot = {s1, s2}
  LastDay = 2
  MaxAsked = 6
  Month = {1, 2, 3}
  Amount = {1, 2}
  Clerk = {k1, k2}
  MaxChanges = 3
  MonthEnd = 2
  LastDate = 3
  WeeklyOff = {}
  MonthlyTarget = 6
  PolicyWorkdays = 2
  Salary = 100
  Stint = 2
  TakenOff = {1}
  Doings = {"hours", "entry", "leaving", "fix", "closing", "failure"}
  MaxDoings = 3
  e1 = e1
  e2 = e2
  Device = {e1, e2}
  NoDevice = nodevice
  Build = {1, 2}
  FirstStage <- Turns
  Soak = 1
  MaxOrders = 3
  Version = {1, 2}
  MaxOffers = 3
  MaxMishaps = 3
  MaxTime = 9
  KeepMin = 2
  KeepFor = 3
  StaleAfter = 3
  MaxFailures = 3
SPECIFICATION DeskSpec
INVARIANTS
  DeskTypeOK
  OnlySlippedStages
  PaperStands
  SheetIsLedger
  RowFollowsFacts
  OnlyPublishedRun
  BackupsGood
PROPERTIES
  PoolSound
  RolloutSound
CHECK_DEADLOCK FALSE
