CONSTANTS
  Pid = {w1, w2}
  NoPid = nopid
  StaleAfter = 1
  BaseDelay = 1
  Multiplier = 2
  MaxDelay = 2
  GiveUpAfter = 2
  CoolOff = 2
  StabilityWindow = 1
  Pc = {p1}
  Alert = {a1, a2}
  NoAlert = noalert
  Throttle = 2
  Grace = 1
  Batch = 1
  MaxTries = 2
  MaxAge = 2
SPECIFICATION WatchersSpec
INVARIANT
  WatchTypeOK
PROPERTIES
  WatchdogSound
  AgentComesBack
  AlertsSound
  AlertsSettle
CHECK_DEADLOCK FALSE
