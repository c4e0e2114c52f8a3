CONSTANTS
  Interval = 2
  StaleAfter = 3
  FrozenAfter = 4
  SlotLength = 3
  FailuresBeforeCooldown = 2
  Cooldown = 1
  editor = editor
  browser = browser
  Window = {editor, browser}
  NoWindow = nowindow
  MinPiece = 2
  MaxPiece = 3
  DateLength = 4
  MaxSecond = 5
  MaxTurns = 1
  Sights <- FewSights
  Picture = {p1, p2}
  Memoised = TRUE
  MaxSigned = 2
  MaxPages = 2
  Tab = {t1, t2}
  Timeout = 5
  WarnBefore = 1
  Throttle = 1
  PingEvery = 2
  RefreshAfter = 2
  Account = {a1, a2}
  Staff = {ann, bob}
  CodeOwner = ann
  NoOwner = nobody
  MaxTokens = 2
  MaxAsked = 2
  MaxMishaps = 1
SPECIFICATION OfficeSpec
INVARIANTS
  OfficeTypeOK
  LoopSound
  AppsSound
  UrlsSound
PROPERTIES
  IdleSound
  EnrolmentSound
CHECK_DEADLOCK FALSE
