CONSTANTS
  Picture = {p1, p2}
  Memoised = FALSE
  MaxSigned = 2
  MaxPages = 2
SPECIFICATION UrlSpec
INVARIANT NoneHangs
CHECK_DEADLOCK FALSE
