SPECIFICATION MCSpec
CONSTANTS
  Conns = {c1, c2}
  Admins = {a1, a2}
  None = None
  MaxGen = 2
  Modes = {"rule", "global", "direct"}
SYMMETRY Symmetry
INVARIANTS TypeOK NoStaleFlow DecidedFromCurrentPolicy NoLostWakeup InOrder RelayWatches
