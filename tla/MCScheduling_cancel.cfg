SPECIFICATION DelegationSpec
CONSTANTS
  DayLen <- MCDayLen
  Config <- MCConfig
  Weights <- MCWeights
  Requests = {1, 2}
  Blocks = {3}
  Starts <- MCStarts
  Resources = {1}
  ResourceFacts <- MCResourceFacts
  OrderFacts <- MCOrderFacts
  Requirements <- MCRequirements
  Moves <- MCMoves
  Ops = {o1, o2, o3}
  Leases = 1
  LeaseTtl = 1
  PlanFrom = 21
  PlanTo = 28
  FirstNow = 20
  LastNow = 21
  Processes = {p1, p2}
  Sources = {src}
  Assistants = {a1, a2}
  Shifts = {1}
  Window = 1
SYMMETRY MCSymmetry
PROPERTY DocumentedPermit
CHECK_DEADLOCK FALSE
