SPECIFICATION MCSpec
CONSTANTS
  None = None
  Callers = {1, 2}
  Sessions = {1, 2, 3}
  MaxConnections = 1
  MinStreams = 1
  MaxStreams = 1
  IdleTimeout = 1
  Width = 2
  MaxNow = 2
  c1 = c1
  c2 = c2
SYMMETRY Symmetry
INVARIANTS PoolSound  
PROPERTIES PoolRetires
CHECK_DEADLOCK FALSE
