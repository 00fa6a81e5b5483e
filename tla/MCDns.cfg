SPECIFICATION MCSpec
CONSTANTS
  a = a
  b = b
  m1 = m1
  m2 = m2
  f1 = f1
  c1 = c1
  c2 = c2
  c3 = c3
  NoSet = NoSet
  None = None
  Open = Open
  Writers = {w1}
  Domains = {d1, d2}
  Ips = {a, b}
  FamilyOf <- AddressFamily
  Ttls = {1, 2}
  Floor = 2
  Cap = 1
  MaxNow = 1
  NoEntry = NoEntry
  Idle = Idle
  Miss = Miss
SYMMETRY Symmetry
INVARIANTS TierAnswers FlightSound 
PROPERTIES ImplementsFamilyCache
CHECK_DEADLOCK FALSE
