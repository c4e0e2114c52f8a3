CONSTANTS
  Person = {p1, p2}
  Nobody = nobody
  MaxSeg = 1
  MaxBind = 2
  MaxFaults = 0
SPECIFICATION SignSpec
INVARIANTS
  HoursOfTheSigner
SYMMETRY Sym
CHECK_DEADLOCK FALSE
