CONSTANTS
  Person = {p1, p2}
  Nobody = nobody
  MaxSeg = 1
  MaxBind = 2
  MaxFaults = 1
  MaxTime = 6
  MaxEvents = 2
  Cadence = 1
  GapTolerance = 2
  MaxSegment = 2
  DayLength = 10
  Sites <- CalmSites
SPECIFICATION AgentSpec
INVARIANTS
  SignTypeOK
  DetectorSuffices
  CreditedOnce
  OnlySlippedHours
  SurvivesRestart
PROPERTIES
  UsesOneMachine
  CutsAreSafe
SYMMETRY Sym
CHECK_DEADLOCK FALSE
