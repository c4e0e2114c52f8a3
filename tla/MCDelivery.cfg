CONSTANTS
  Instant <- MCInstant
  StartedAt = 1
  QuietTime = {0, 1, 2}
  Thresholds = {1, 2}
  MaxSegment = 2
  DayLength = 3
  syncLoop = syncLoop
  secondDrain = secondDrain
  MaxRow = 2
  DrainSets <- OneOrTwo
  FullSize = 2
  MaxRounds = 2
  Cap = 1
  Target = 1
  MaxOld = 1
  MaxFaults = 1
  MaxDay = 3
  MonthLength = 2
  PerTick = 1
  Skews <- BehindOrOn
  Kinds = {"upload", "adjust", "closing", "failure"}
  MaxEvents = 2
  Shot = {s1, s2}
  s1 = s1
  s2 = s2
  Path = {p1, p2}
  p1 = p1
  p2 = p2
  Families <- SomeFamilies
  Request = {r1, r2}
  NoShot = noshot
  MaxMishaps = 1
  Seg = {g1, g2}
  g1 = g1
  g2 = g2
  Person = {w1, w2}
  FirstOwner = w1
  Span <- Spans
  ByeAt = {2}
  Drifts <- OnTimeOrFast
  SessionDay = 4
  LastDay = 1
  Batch = {b1, b2}
  MaxLost = 2
SPECIFICATION DeliverySpec
INVARIANTS
  DeliveryTypeOK
  Tiled
  OneWorkDate
  SingleSender
  OnlyRefusedRejected
  LateHoursCounted
  ShotsSound
  SessionsSound
PROPERTIES
  NothingVanishes
  ClosedMonthFrozen
CHECK_DEADLOCK FALSE
