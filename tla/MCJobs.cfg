CONSTANTS
  MaxDay = 3
  MonthLength = 2
  PerTick = 1
  Skews <- NoSkew
  Kinds = {"upload", "closing"}
  MaxEvents = 2
  e1 = e1
  e2 = e2
  Device = {e1, e2}
  NoDevice = nodevice
  Build = {1, 2}
  FirstStage <- Turns
  Soak = 1
  MaxOrders = 2
  Version = {1, 2}
  MaxOffers = 3
  MaxMishaps = 3
SPECIFICATION JobsSpec
PROPERTIES
  SummariesSettle
  VersionsArrive
CHECK_DEADLOCK FALSE
