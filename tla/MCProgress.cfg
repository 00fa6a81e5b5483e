SPECIFICATION MCSpec
CONSTANTS
  Conns = {c1}
  Admins = {a1, a2}
  None = None
  MaxGen = 1
  Modes = {"rule", "direct"}
  c2 = c2
  m1 = m1
  m2 = m2
  h1 = h1
  h2 = h2
  NoSet = NoSet
  Open = Open
  Parts = {"tcp", "relay", "mux", "lazy", "sweep", "pipeline", "flight", "file"}
PROPERTIES FlowsEnd Delivered OfferTerminates  LookupsReturn AllocationsReachDisk
CHECK_DEADLOCK FALSE
