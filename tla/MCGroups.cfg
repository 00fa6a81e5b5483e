SPECIFICATION MCSpec
CONSTANTS
  None = None
  NoDial = NoDial
  Torn = Torn
  d1 = d1
  d2 = d2
  Members = {m1, m2}
  Works = {m1}
  GroupType = "url-test"
  Lazy = TRUE
  Concurrency = 1
  Permits = 2
  MaxGen = 2
  MaxReloads = 1
  MaxApi = 1
  Dials = {d1, d2}
  Exempt = {m2}
  Threshold = 3
  Window = 1
  MaxNow = 4
SYMMETRY Symmetry
INVARIANTS HealthConsistent 
PROPERTIES StreaksJustified PolicyPicks
CHECK_DEADLOCK FALSE
