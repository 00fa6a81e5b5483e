SPECIFICATION MCSpec
CONSTANTS
  Parts = {"http", "accept", "relay", "stream", "tun", "flows", "nat", "pure"}
  c1 = c1
  c2 = c2
  p1 = p1
  p2 = p2
  p3 = p3
  d1 = d1
  d2 = d2
  None = None
  Error = Error
  Packets = {1, 2, 3}
  Sessions = {1, 2, 3}
  Flows = {c1}
  FlowOf <- MCFlowOf
  UdpIdle = 2
  Width = 3
  MaxNow = 3
INVARIANTS HttpSound  StreamSound 
PROPERTIES LeavesIdleOrRaced FlowIntact
CHECK_DEADLOCK FALSE
