SPECIFICATION MCSpec
CONSTANTS
  None = None
  Collapsing = TRUE
  Universe <- MCUniverse
  Trees <- MCTrees
  Hosts <- MCHosts
  Ips = {0, 1}
  Sources = {0}
  Processes = {"p"}
  Limits = {0, 9}
  MaxRules = 3
  Requests = {r1, r2}
  Refresher = Refresher
  Geodata = Geodata
  Modes = {rule}
  Bad = Bad
  AllPorts = AllPorts
  Malformed = Malformed
  Error = Error
INVARIANT FirstRuleWins
CHECK_DEADLOCK FALSE
