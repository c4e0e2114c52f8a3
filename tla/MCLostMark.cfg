CONSTANTS
  MaxDay = 2
  MonthLength = 1
  PerTick = 1
  Skews <- NoSkew
  Kinds = {"upload"}
  MaxEvents = 2
SPECIFICATION RollupSpec
INVARIANT MarkedHoursCounted
CHECK_DEADLOCK FALSE
