CONSTANTS
  MaxTime = 5
  MaxEvents = 4
  Cadence = 2
  GapTolerance = 2
  MaxSegment = 3
  DayLength = 10
  Sites <- NotifiedSite
SPECIFICATION Spec
INVARIANT AnnouncedSleepIsNotWork
CHECK_DEADLOCK FALSE
